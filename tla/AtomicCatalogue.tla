--------------------------- MODULE AtomicCatalogue ---------------------------
(***************************************************************************)
(* What the catalogue and the waitlist promise those who call them: every  *)
(* request that gets past the guards takes effect at one moment, on the    *)
(* rows as they are then, and is answered by what that moment said.  A     *)
(* request that was told it timed out may still take effect later.         *)
(***************************************************************************)
CONSTANTS Categories, Names, SlugOf, Emails, Actives, Handlers, Null, None

VARIABLES
    row,      \* row[c]: the category's name and whether it is active
    list,     \* the e-mails on the waitlist
    pending,  \* pending[h]: what h was asked and has not done
    broken,   \* those whose database call failed
    status    \* status[h]: what h answered

atomicVars == <<row, list, pending, broken, status>>

Requests ==
    [kind : {"create"}, name : Names]
      \cup [kind : {"update"}, id : Categories, name : Names \cup {Null, None},
                                             active : Actives \cup {Null, None}]
      \cup [kind : {"join"}, email : Emails]

AtomicInit ==
    /\ row = [c \in Categories |-> None]
    /\ list = {}
    /\ pending = [h \in Handlers |-> None]
    /\ broken = {}
    /\ status = [h \in Handlers |-> None]

\* Another category than those of C has a name of the same slug.
SlugTaken(name, C) == \E c \in Categories \ C : row[c] # None /\ SlugOf[row[c].name] = SlugOf[name]

Conflict(o) ==
    CASE o.kind = "create" -> SlugTaken(o.name, {})
      [] o.kind = "update" -> o.name \in Names /\ SlugTaken(o.name, {o.id})
      [] o.kind = "join"   -> o.email \in list

Missing(o) == o.kind = "update" /\ row[o.id] = None

Malformed(o) == o.kind = "update" /\ (o.name = Null \/ o.active = Null)

\* The rows once o is done.
Done(o) ==
    \/ /\ o.kind = "create"
       /\ \E c \in Categories : /\ row[c] = None
                                /\ row' = [row EXCEPT ![c] = [name |-> o.name, active |-> TRUE]]
       /\ list' = list
    \/ /\ o.kind = "update"
       /\ row' = [row EXCEPT ![o.id] = [name   |-> IF o.name = None THEN @.name ELSE o.name,
                                        active |-> IF o.active = None THEN @.active ELSE o.active]]
       /\ list' = list
    \/ /\ o.kind = "join"
       /\ list' = list \cup {o.email}
       /\ row' = row

Success(o) == IF o.kind = "update" THEN 200 ELSE 201

\* One that timed out has its answer already.
Answer(h, s) ==
    /\ pending' = [pending EXCEPT ![h] = None]
    /\ status' = [status EXCEPT ![h] = IF @ = None THEN s ELSE @]

Ask(h, o) ==
    /\ pending[h] = None /\ status[h] = None
    /\ pending' = [pending EXCEPT ![h] = o]
    /\ UNCHANGED <<row, list, broken, status>>

TurnedAway(h) ==
    /\ pending[h] # None /\ status[h] = None
    /\ \E s \in {400, 401, 403, 429} : Answer(h, s)
    /\ UNCHANGED <<row, list, broken>>

Succeed(h) ==
    /\ pending[h] # None
    /\ LET o == pending[h]
       IN ~Conflict(o) /\ ~Missing(o) /\ ~Malformed(o) /\ Done(o) /\ Answer(h, Success(o))
    /\ UNCHANGED broken

Refuse(h) ==
    /\ pending[h] # None
    /\ \/ Missing(pending[h]) /\ Answer(h, 404)
       \/ Conflict(pending[h]) /\ Answer(h, 409)
       \/ Malformed(pending[h]) /\ Answer(h, 500)
    /\ UNCHANGED <<row, list, broken>>

\* The call fails, or its answer is lost.
Break(h) ==
    /\ pending[h] # None
    /\ \/ UNCHANGED <<row, list>>
       \/ LET o == pending[h] IN ~Conflict(o) /\ ~Missing(o) /\ ~Malformed(o) /\ Done(o)
    /\ broken' = broken \cup {h}
    /\ Answer(h, 500)

TimesOut(h) ==
    /\ pending[h] # None /\ status[h] = None
    /\ status' = [status EXCEPT ![h] = 408]
    /\ UNCHANGED <<row, list, pending, broken>>

Ready(h) ==
    /\ pending[h] = None /\ status[h] # None
    /\ status' = [status EXCEPT ![h] = None]
    /\ broken' = broken \ {h}
    /\ UNCHANGED <<row, list, pending>>

AtomicNext ==
    \E h \in Handlers : \/ \E o \in Requests : Ask(h, o)
                        \/ TurnedAway(h) \/ Succeed(h) \/ Refuse(h) \/ Break(h)
                        \/ TimesOut(h) \/ Ready(h)

AtomicSpec == AtomicInit /\ [][AtomicNext]_atomicVars
=============================================================================
