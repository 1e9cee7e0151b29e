--------------------------- MODULE TokenLifecycle ---------------------------
(***************************************************************************)
(* What refresh tokens promise.  A token is live from the moment it is     *)
(* issued until it is exchanged, once, for one new token, or ends.  Ending *)
(* one device's token ends no other; ending a user's sessions ends them    *)
(* all and nobody else's.  What is no longer live never is again.          *)
(***************************************************************************)
CONSTANTS Users, Tokens, None

VARIABLES
    phase,  \* where each token stands
    holder  \* whom it was issued to

tokenVars == <<phase, holder>>

TokenInit ==
    /\ phase = [t \in Tokens |-> "unused"]
    /\ holder = [t \in Tokens |-> None]

Live(u) == {t \in Tokens : phase[t] = "live" /\ holder[t] = u}

\* A log-in or a registration.
Issue(u, t) ==
    /\ phase[t] = "unused"
    /\ phase' = [phase EXCEPT ![t] = "live"]
    /\ holder' = [holder EXCEPT ![t] = u]

\* A refresh.
Exchange(old, new) ==
    /\ phase[old] = "live" /\ phase[new] = "unused"
    /\ phase' = [phase EXCEPT ![old] = "exchanged", ![new] = "live"]
    /\ holder' = [holder EXCEPT ![new] = holder[old]]

\* A log-out of one device, or of all of them.
End(T) ==
    /\ phase' = [t \in Tokens |-> IF t \in T THEN "ended" ELSE phase[t]]
    /\ UNCHANGED holder

TokenNext ==
    \/ \E u \in Users, t \in Tokens : Issue(u, t)
    \/ \E old, new \in Tokens : Exchange(old, new)
    \/ \E u \in Users : End(Live(u)) \/ \E t \in Live(u) : End({t})

TokenSpec == TokenInit /\ [][TokenNext]_tokenVars

=============================================================================
