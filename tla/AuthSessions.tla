---------------------------- MODULE AuthSessions ----------------------------
(***************************************************************************)
(* Sessions: AuthService, OAuthService, the two JWT strategies and the     *)
(* users and refresh_sessions tables, from registration to log-out.        *)
(*                                                                         *)
(* As in ServiceRequests, a slot is one running handler; its first read    *)
(* with the checks on it is one step, and each later read and write is     *)
(* another.  A row of refresh_sessions is named by the refresh token whose *)
(* hash it holds: the hash is unique, and no token is signed twice.        *)
(* Passwords, access tokens and the one-time tokens sent by e-mail are     *)
(* left out; what their owners may do is guarded by the account's state.   *)
(***************************************************************************)
EXTENDS Naturals, FiniteSets

CONSTANTS
    Users,      \* generated ids of accounts
    Tokens,     \* refresh tokens, each with its random jti
    Slots,      \* handlers that may run at the same time
    None,       \* NULL
    FaultModels \* sets of FaultKinds; in a behaviour one of them may fail

\* A handler dies or one of its queries fails; the insert of a session fails; the
\* removal of a half-registered account fails; a caller stops waiting.
FaultKinds == {"crash", "insert", "rollback", "lost"}

ASSUME ConstantsAssumption ==
    /\ None \notin Users \cup Tokens
    /\ FaultModels \subseteq SUBSET FaultKinds

VARIABLES
    row,       \* row[u]: the account's row
    verified,  \* the accounts with emailVerified
    active,    \* the accounts whose status is ACTIVE
    google,    \* the accounts whose provider is GOOGLE
    session,   \* session[t]: the row whose tokenHash is t's, or None
    expired,   \* the tokens whose exp, and so whose row's expiresAt, has passed
    call,      \* the running handlers
    held,      \* the refresh tokens that were answered to a client
    owner,     \* history: whom t was stored for, or None
    successor, \* history: the token t was exchanged for, or None
    entitled,  \* history: the handlers that ran while their account was in use
    faults     \* what may fail in this behaviour

accounts == <<row, verified, active, google>>
sessions == <<session, owner, successor>>
vars == <<row, verified, active, google, session, expired, call, held, owner,
          successor, entitled, faults>>

\* A soft-deleted row stays in the table, a removed one does not.
RowState == {"absent", "present", "deleted", "removed"}
RefreshSession == [user : Users, revoked : BOOLEAN]

ASSUME NullAssumption == None \notin RefreshSession

\* The steps at which each handler may wait.
StepsOf ==
    [register          |-> {"create", "session", "rollback", "remove", "answer"},
     login             |-> {"session", "answer"},
     handleGoogleLogin |-> {"create", "link", "check", "session", "answer"},
     refreshTokens     |-> {"authenticate", "status", "find", "rotate", "answer"},
     logout            |-> {"revoke"},
     logoutAll         |-> {"revoke"}]

Ops == DOMAIN StepsOf
Steps == UNION {StepsOf[op] : op \in Ops}

\* A running handler: what it is, what it does next, for which account, with which
\* token in the request, and the token it has stored.
CallRecord == [op : Ops, step : Steps, user : Users, token : Tokens \cup {None},
               new : Tokens \cup {None}]

Call == {c \in CallRecord :
    /\ c.step \in StepsOf[c.op]
    /\ c.op \in {"refreshTokens", "logout"} => c.token \in Tokens
    /\ c.step = "answer" <=> c.new \in Tokens}

Idle == [op |-> "idle"]

TypeOK ==
    /\ row \in [Users -> RowState]
    /\ verified \in SUBSET Users
    /\ active \in SUBSET Users
    /\ google \in SUBSET Users
    /\ session \in [Tokens -> RefreshSession \cup {None}]
    /\ expired \in SUBSET Tokens
    /\ call \in [Slots -> Call \cup {Idle}]
    /\ held \in SUBSET Tokens
    /\ owner \in [Tokens -> Users \cup {None}]
    /\ successor \in [Tokens -> Tokens \cup {None}]
    /\ entitled \in SUBSET Slots
    /\ faults \in FaultModels

Init ==
    /\ row = [u \in Users |-> "absent"]
    /\ verified = {} /\ active = {} /\ google = {}
    /\ session = [t \in Tokens |-> None]
    /\ expired = {}
    /\ call = [p \in Slots |-> Idle]
    /\ held = {}
    /\ owner = [t \in Tokens |-> None]
    /\ successor = [t \in Tokens |-> None]
    /\ entitled = {}
    /\ faults \in FaultModels

Present(u) == row[u] = "present"
InUse(u) == Present(u) /\ u \in active
InTable(u) == row[u] \in {"present", "deleted"}

\* findActiveByTokenHash, and the comparison with the user both callers make.
FindActive(t, u) ==
    /\ session[t] # None
    /\ ~session[t].revoked
    /\ session[t].user = u
    /\ t \notin expired

Live(t) == session[t] # None /\ ~session[t].revoked

----------------------------------------------------------------------------
(* Handlers: starting, waiting at a step, returning.  An operator ending in *)
(* _ is a slip in the one below it; the mutation runs put it in its place.  *)

Running(p) == call[p].op # "idle"

At(p, op, step) == call[p].op = op /\ call[p].step = step

Handler(op, step, u, t) ==
    [op |-> op, step |-> step, user |-> u, token |-> t, new |-> None]

Reads(p, c) ==
    /\ ~Running(p)
    /\ call' = [call EXCEPT ![p] = c]
    /\ entitled' = IF InUse(c.user) THEN entitled \cup {p} ELSE entitled
    /\ UNCHANGED <<accounts, sessions, expired, held>>

Goto(p, step) == call' = [call EXCEPT ![p].step = step] /\ UNCHANGED entitled

Return(p) == call' = [call EXCEPT ![p] = Idle] /\ entitled' = entitled \ {p}

\* A later check failed, or a query did: the handler throws, nothing changes.
Throw(p) == Return(p) /\ UNCHANGED <<accounts, sessions>>

Fresh(u) == row[u] = "absent" /\ \A p \in Slots : Running(p) => call[p].user # u

\* The status of u becomes ACTIVE: the handlers running for u may see that.
SetActive(u) ==
    /\ active' = active \cup {u}
    /\ entitled' = entitled \cup {p \in Slots : Running(p) /\ call[p].user = u}

Activate(u) == verified' = verified \cup {u} /\ SetActive(u)

----------------------------------------------------------------------------
(* Registration and log-in.                                                *)

\* UsersService.create finds neither the e-mail nor the username ...
Register(p, u) == Fresh(u) /\ Reads(p, Handler("register", "create", u, None))

\* ... and inserts; the unique indexes refuse the loser of two such inserts.
CreateUser(p) ==
    LET u == call[p].user IN
    /\ At(p, "register", "create")
    /\ \/ /\ row' = [row EXCEPT ![u] = "present"]
          /\ Goto(p, "session")
          /\ UNCHANGED <<verified, active, google, sessions>>
       \/ Throw(p)
    /\ UNCHANGED <<expired, held>>

\* login: the password matches, the e-mail is verified, the status is ACTIVE.
Login(p, u) ==
    /\ InUse(u) /\ u \in verified
    /\ Reads(p, Handler("login", "session", u, None))

\* handleGoogleLogin: an account found by its Google id, whose status is checked
\* at once; one found by its e-mail only; or none.
GoogleLogin(p, u) ==
    \/ InUse(u) /\ u \in verified /\ Reads(p, Handler("handleGoogleLogin", "session", u, None))
    \/ /\ Present(u) /\ u \notin google
       /\ Reads(p, Handler("handleGoogleLogin", "link", u, None))
    \/ Fresh(u) /\ Reads(p, Handler("handleGoogleLogin", "create", u, None))

\* linkGoogleAccount: by id alone, whatever has become of the account.  The check
\* of the status is made on the row this update returns.
LinkGoogle(p) ==
    LET u == call[p].user IN
    /\ At(p, "handleGoogleLogin", "link")
    /\ \/ /\ InTable(u)
          /\ Activate(u)
          /\ call' = [call EXCEPT ![p].step = "session"]
          /\ UNCHANGED <<row, google, sessions>>
       \/ ~InTable(u) /\ Throw(p)
    /\ UNCHANGED <<expired, held>>

CreateOAuthUser(p) ==
    LET u == call[p].user IN
    /\ At(p, "handleGoogleLogin", "create")
    /\ \/ /\ row' = [row EXCEPT ![u] = "present"]
          /\ Activate(u)
          /\ google' = google \cup {u}
          /\ call' = [call EXCEPT ![p].step = "check"]
          /\ UNCHANGED sessions
       \/ Throw(p)
    /\ UNCHANGED <<expired, held>>

\* The new account is read again, and its status checked.
CheckOAuthUser(p) ==
    /\ At(p, "handleGoogleLogin", "check")
    /\ \/ InUse(call[p].user) /\ Goto(p, "session") /\ UNCHANGED <<accounts, sessions>>
       \/ ~InUse(call[p].user) /\ Throw(p)
    /\ UNCHANGED <<expired, held>>

\* The session of a token signed just now ...
StoreSession_(p, t) ==
    LET u == call[p].user IN
    /\ owner' = [owner EXCEPT ![t] = u]
    /\ session' = [s \in Tokens |->
          IF s = t THEN [user |-> u, revoked |-> FALSE]
          ELSE IF session[s] # None /\ session[s].user = u THEN None ELSE session[s]]
StoreSession(p, t) ==
    LET u == call[p].user IN
    /\ owner' = [owner EXCEPT ![t] = u]
    /\ session' = [session EXCEPT ![t] = [user |-> u, revoked |-> FALSE]]

Signed(p, t) == call' = [call EXCEPT ![p].step = "answer", ![p].new = t]

\* ... and, when it cannot be stored, the way out: register removes its account.
SessionRefused_(p) ==
    \E t \in Tokens : owner[t] = None /\ Signed(p, t) /\ UNCHANGED <<accounts, sessions, entitled>>
SessionRefused(p) ==
    \/ call[p].op = "register" /\ Goto(p, "rollback") /\ UNCHANGED <<accounts, sessions>>
    \/ call[p].op # "register" /\ Throw(p)

CreateSession(p) ==
    /\ Running(p) /\ call[p].step = "session"
    /\ \/ \E t \in Tokens :
             /\ owner[t] = None
             /\ InTable(call[p].user)
             /\ StoreSession(p, t)
             /\ Signed(p, t)
             /\ UNCHANGED <<accounts, successor, entitled>>
       \/ /\ "insert" \in faults \/ ~InTable(call[p].user)
          /\ SessionRefused(p)
    /\ UNCHANGED <<expired, held>>

\* usersService.remove(id, true): find the account ...
RollBack_(p) ==
    /\ At(p, "register", "rollback")
    /\ Throw(p)
    /\ UNCHANGED <<expired, held>>
RollBack(p) ==
    /\ At(p, "register", "rollback")
    /\ \/ Present(call[p].user) /\ Goto(p, "remove") /\ UNCHANGED <<accounts, sessions>>
       \/ (~Present(call[p].user) \/ "rollback" \in faults) /\ Throw(p)
    /\ UNCHANGED <<expired, held>>

\* ... and delete it, with its sessions.
RemoveUser(p) ==
    LET u == call[p].user IN
    /\ At(p, "register", "remove")
    /\ \/ /\ row' = [row EXCEPT ![u] = "removed"]
          /\ session' = [t \in Tokens |->
                IF session[t] # None /\ session[t].user = u THEN None ELSE session[t]]
          /\ verified' = verified \ {u}
          /\ active' = active \ {u}
          /\ Return(p)
          /\ UNCHANGED <<google, owner, successor>>
       \/ "rollback" \in faults /\ Throw(p)
    /\ UNCHANGED <<expired, held>>

----------------------------------------------------------------------------
(* Refresh.                                                                *)

\* JwtRefreshStrategy: the token is one of ours and not expired; find its user ...
Refresh(p, t) ==
    /\ t \in held \ expired
    /\ Present(owner[t])
    /\ Reads(p, Handler("refreshTokens", "authenticate", owner[t], t))

\* ... and its session.  refreshTokens: read the account again ...
Authenticate(p) ==
    LET c == call[p] IN
    /\ At(p, "refreshTokens", "authenticate")
    /\ \/ FindActive(c.token, c.user) /\ Goto(p, "status") /\ UNCHANGED <<accounts, sessions>>
       \/ ~FindActive(c.token, c.user) /\ Throw(p)
    /\ UNCHANGED <<expired, held>>

\* ... whose status must be ACTIVE ...
MayRefresh_(u) == Present(u)
MayRefresh(u) == InUse(u)

CheckStatus(p) ==
    /\ At(p, "refreshTokens", "status")
    /\ \/ MayRefresh(call[p].user) /\ Goto(p, "find") /\ UNCHANGED <<accounts, sessions>>
       \/ ~MayRefresh(call[p].user) /\ Throw(p)
    /\ UNCHANGED <<expired, held>>

\* ... and the session again ...
FindSession(p) ==
    LET c == call[p] IN
    /\ At(p, "refreshTokens", "find")
    /\ \/ FindActive(c.token, c.user) /\ Goto(p, "rotate") /\ UNCHANGED <<accounts, sessions>>
       \/ ~FindActive(c.token, c.user) /\ Throw(p)
    /\ UNCHANGED <<expired, held>>

\* ... then let its row hold a new token's hash, if it still holds this one's and
\* is not revoked.  Its expiry is not looked at again.
Rotatable_(old) == {t \in {old, successor[old]} \cap Tokens : Live(t)}
Rotatable(old) == {t \in {old} : Live(t)}

Rotate(p) ==
    LET old == call[p].token IN
    /\ At(p, "refreshTokens", "rotate")
    /\ \/ \E t \in Rotatable(old), new \in Tokens :
             /\ owner[new] = None
             /\ session' = [session EXCEPT ![t] = None, ![new] = session[t]]
             /\ owner' = [owner EXCEPT ![new] = session[t].user]
             /\ successor' = [successor EXCEPT ![old] = new]
             /\ Signed(p, new)
             /\ UNCHANGED <<accounts, entitled>>
       \/ Rotatable(old) = {} /\ Throw(p)
    /\ UNCHANGED <<expired, held>>

----------------------------------------------------------------------------
\* updateLastLogin, or the read that ends rotate, then the answer: neither finds
\* the row of an account that has been removed.
Answered_(c) == IF c.op = "refreshTokens" THEN c.token ELSE c.new
Answered(c) == c.new

Answer(p) ==
    /\ Running(p) /\ call[p].step = "answer"
    /\ \/ InTable(call[p].user) /\ held' = held \cup {Answered(call[p])}
       \/ (~InTable(call[p].user) \/ "lost" \in faults) /\ UNCHANGED held
    /\ Return(p)
    /\ UNCHANGED <<accounts, sessions, expired>>

----------------------------------------------------------------------------
(* Log-out: a verified, active user with an access token, who names a      *)
(* refresh token of whomever, or none.                                     *)

LogsOut(u) == InUse(u) /\ u \in verified /\ \E t \in held : owner[t] = u

Logout(p, u, t) ==
    /\ LogsOut(u) /\ t \in held
    /\ Reads(p, Handler("logout", "revoke", u, t))

LogoutAll(p, u) == LogsOut(u) /\ Reads(p, Handler("logoutAll", "revoke", u, None))

\* revokeByTokenHash, revokeAllForUser: the rows their conditions match.
Revoked_(c) ==
    {t \in Tokens : session[t] # None /\ (c.op = "logout" => t = c.token)
                                      /\ (c.op = "logoutAll" => session[t].user = c.user)}
Revoked(c) ==
    {t \in Tokens : session[t] # None /\ session[t].user = c.user
                                      /\ (c.op = "logout" => t = c.token)}

Revoke(p) ==
    /\ Running(p) /\ call[p].step = "revoke"
    /\ session' = [t \in Tokens |-> IF t \in Revoked(call[p])
                                    THEN [session[t] EXCEPT !.revoked = TRUE]
                                    ELSE session[t]]
    /\ Return(p)
    /\ UNCHANGED <<accounts, owner, successor, expired, held>>

----------------------------------------------------------------------------
(* What other handlers do to an account, and time.                         *)

\* verifyEmail, with a token mailed at some time before, whatever the status; what
\* it and an admin write on a deleted account is never read.
VerifyEmail(u) ==
    /\ Present(u) /\ u \notin google
    /\ Activate(u)
    /\ UNCHANGED <<row, google>>

\* PATCH /users/:id by an admin: any status.
SetStatus(u) ==
    /\ Present(u)
    /\ \/ SetActive(u)
       \/ active' = active \ {u} /\ UNCHANGED entitled
    /\ UNCHANGED <<row, verified, google>>

\* DELETE /users/:id by an admin.
SoftDelete(u) ==
    /\ Present(u)
    /\ row' = [row EXCEPT ![u] = "deleted"]
    /\ UNCHANGED <<verified, active, google, entitled>>

\* Of the other tokens nothing reads the expiry.
Expire(t) ==
    /\ Live(t)
    /\ expired' = expired \cup {t}
    /\ UNCHANGED <<accounts, sessions, call, held, entitled>>

\* A handler dies, or one of its queries fails: what it wrote stays.
Crash(p) ==
    /\ "crash" \in faults
    /\ Running(p)
    /\ Return(p)
    /\ UNCHANGED <<accounts, sessions, expired, held>>

Starts(p) ==
    \/ \E u \in Users : \/ Register(p, u)
                        \/ Login(p, u)
                        \/ GoogleLogin(p, u)
                        \/ \E t \in Tokens : Logout(p, u, t)
                        \/ LogoutAll(p, u)
    \/ \E t \in Tokens : Refresh(p, t)

Continue(p) ==
    \/ CreateUser(p)
    \/ LinkGoogle(p)
    \/ CreateOAuthUser(p)
    \/ CheckOAuthUser(p)
    \/ CreateSession(p)
    \/ RollBack(p)
    \/ RemoveUser(p)
    \/ Authenticate(p)
    \/ CheckStatus(p)
    \/ FindSession(p)
    \/ Rotate(p)
    \/ Answer(p)
    \/ Revoke(p)

Environment ==
    \/ /\ \E u \in Users : VerifyEmail(u) \/ SetStatus(u) \/ SoftDelete(u)
       /\ UNCHANGED <<sessions, expired, call, held>>
    \/ \E t \in Tokens : Expire(t)

Next ==
    /\ (\E p \in Slots : Starts(p) \/ Continue(p) \/ Crash(p)) \/ Environment
    /\ UNCHANGED faults

Spec == Init /\ [][Next]_vars

----------------------------------------------------------------------------
(* Correctness for any number of handlers running at once, and any faults. *)

\* Every refresh token a client was given is one the server stored, for the account
\* the answering handler works for: no failed insert, lost race or roll-back makes
\* register, login or refresh answer a token that never worked.
AnsweredWasStored ==
    /\ \A t \in held : owner[t] # None
    /\ \A p \in Slots : Running(p) /\ call[p].new # None => owner[call[p].new] = call[p].user

\* Bug #13: a handler that has stored a token saw its account ACTIVE at some moment
\* while it ran, registration apart: what starts after a suspension, and ends before
\* it is lifted, mints nothing, whatever sessions the account has.
SuspendedMintsNothing ==
    \A p \in Slots : Running(p) /\ call[p].new # None
        => call[p].op = "register" \/ p \in entitled

\* While no handler dies and every caller waits for the answer, a live session is
\* one whose current token a client holds or is about to get: a race of refreshes
\* and log-outs never leaves a device logged in that cannot use its session.
LiveIsHeld ==
    faults \cap {"crash", "lost"} = {} =>
        \A t \in Tokens : Live(t) =>
            t \in held \/ \E p \in Slots : Running(p) /\ call[p].new = t

Registering(u) == \E p \in Slots : call[p].op = "register" /\ call[p].user = u

\* While no handler dies and the roll-back works, an account nobody has verified is
\* being registered or was registered with its session: a failed registration
\* leaves nothing that would refuse a retry.
RegistrationIsWhole ==
    faults \cap {"crash", "rollback"} = {} =>
        \A u \in Users \ verified : Present(u) =>
            Registering(u) \/ \E t \in Tokens : owner[t] = u

\* A session changes, or ends, only in a handler of the user it belongs to: a token
\* of someone else's in a log-out does nothing.
OnlyOwnSessions ==
    [][\A t \in Tokens : session'[t] # session[t] =>
          \E p \in Slots : Running(p) /\ call'[p] # call[p] /\ call[p].user = owner'[t]]_vars

\* No token is exchanged twice, however many refreshes present it at once.
ExchangedOnce ==
    [][\A t \in Tokens : successor[t] # None => successor'[t] = successor[t]]_vars

\* The sessions are those of TokenLifecycle: one device's log-in, refresh or log-out
\* ends no other device's session (bug #12), a log-out of all devices ends them all,
\* and a token that is no longer live never is again.
Phase(t) ==
    IF owner[t] = None THEN "unused"
    ELSE IF successor[t] # None THEN "exchanged"
    ELSE IF Live(t) THEN "live" ELSE "ended"

Lifecycle == INSTANCE TokenLifecycle
    WITH phase <- [t \in Tokens |-> Phase(t)], holder <- owner

ImplementsTokenLifecycle == Lifecycle!TokenSpec

----------------------------------------------------------------------------
(* What the comments of the code say, and an interleaving denies.          *)

\* Once an account was verified, only an admin or a verification mail makes it ACTIVE
\* again after a suspension: a Google log-in does not.
SuspensionHolds ==
    [][\A u \in verified \ active : u \in active' => UNCHANGED call]_vars

=============================================================================
