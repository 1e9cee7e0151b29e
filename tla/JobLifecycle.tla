---------------------------- MODULE JobLifecycle ----------------------------
(***************************************************************************)
(* What a service request promises its two parties, with every transition  *)
(* atomic and nothing stale: which phases follow which, who holds the job, *)
(* and which notices a transition owes the listeners.  A notice that is    *)
(* owed is told at most once per transition, or lost in a crash.           *)
(***************************************************************************)
CONSTANTS Requests, Handymen, None

VARIABLES
    phase,   \* where each request stands
    worker,  \* the handyman holding it, if any
    due,     \* notices owed and not told yet
    told     \* notices told

jobVars == <<phase, worker, due, told>>

JobInit ==
    /\ phase = [r \in Requests |-> "NONE"]
    /\ worker = [r \in Requests |-> None]
    /\ due = {}
    /\ told = {}

Move(r, from, to) == phase[r] \in from /\ phase' = [phase EXCEPT ![r] = to]

Owe(type, r, h) ==
    /\ due' = due \cup {[type |-> type, req |-> r, hm |-> h]}
    /\ told' = told

Post(r) ==
    /\ Move(r, {"NONE"}, "OPEN")
    /\ Owe("CREATED", r, None)
    /\ UNCHANGED worker

Assign(r, h) ==
    /\ Move(r, {"OPEN"}, "ASSIGNED")
    /\ worker' = [worker EXCEPT ![r] = h]
    /\ Owe("ASSIGNED", r, h)

\* The notice names the handyman who really held the job.
GiveBack(r) ==
    /\ Move(r, {"ASSIGNED"}, "OPEN")
    /\ worker' = [worker EXCEPT ![r] = None]
    /\ Owe("UNASSIGNED", r, worker[r])

StartWork(r) ==
    /\ Move(r, {"ASSIGNED"}, "IN_PROGRESS")
    /\ UNCHANGED <<worker, due, told>>

HandOver(r) ==
    /\ Move(r, {"IN_PROGRESS"}, "AWAITING_CONFIRMATION")
    /\ Owe("COMPLETION_SUBMITTED", r, worker[r])
    /\ UNCHANGED worker

Confirm(r) ==
    /\ Move(r, {"AWAITING_CONFIRMATION"}, "COMPLETED")
    /\ Owe("COMPLETED", r, worker[r])
    /\ UNCHANGED worker

CallOff(r) ==
    /\ Move(r, {"OPEN", "ASSIGNED"}, "CANCELLED")
    /\ Owe("CANCELLED", r, worker[r])
    /\ UNCHANGED worker

Tell(n) ==
    /\ told' = told \cup {n}
    /\ due' = due \ {n}
    /\ UNCHANGED <<phase, worker>>

Lose(n) ==
    /\ due' = due \ {n}
    /\ UNCHANGED <<phase, worker, told>>

JobNext ==
    \/ \E r \in Requests :
          \/ Post(r)
          \/ \E h \in Handymen : Assign(r, h)
          \/ GiveBack(r)
          \/ StartWork(r)
          \/ HandOver(r)
          \/ Confirm(r)
          \/ CallOff(r)
    \/ \E n \in due : Tell(n) \/ Lose(n)

JobSpec == JobInit /\ [][JobNext]_jobVars
=============================================================================
