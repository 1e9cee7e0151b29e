-------------------------- MODULE ServiceRequests --------------------------
(***************************************************************************)
(* The life of a service request: ServiceRequestsService (the customer's   *)
(* side) and the job half of HandymanService (the handyman's side), over   *)
(* the service_requests and service_request_applications tables.           *)
(*                                                                         *)
(* The API runs as a PM2 cluster, so handlers of the same or of different  *)
(* users interleave at every await.  A slot p is one running handler;      *)
(* call[p] holds what it has read so far.  A handler's first read and the  *)
(* checks on it are one step; each later read, its write and its event are *)
(* steps of their own.  A first check that fails changes nothing and is a  *)
(* stuttering step, so it has no action.  A transaction that starts by     *)
(* updating the request row holds that row's lock until it commits, so its *)
(* statements are one step; applyToRequest's transaction starts with a     *)
(* plain SELECT, which locks nothing, and takes two.                       *)
(***************************************************************************)
EXTENDS Naturals, FiniteSets

CONSTANTS
    Requests,   \* ids of service_requests rows
    Customers,  \* users with role CUSTOMER
    Handymen,   \* handyman profiles: VERIFIED, serving the request's category
    Slots,      \* handlers that may run at the same time, over all processes
    Details,    \* contents of the editable columns (title, location, budget...)
    None,       \* NULL
    Serial,     \* TRUE: no user ever has two handlers running at once
    Crashes     \* TRUE: a handler may die between two steps

\* A user has exactly one role, and None stands for NULL, never for a profile.
ASSUME ConstantsAssumption ==
    /\ Customers \cap Handymen = {}
    /\ None \notin Customers \cup Handymen
    /\ None \notin Details
    /\ Serial \in BOOLEAN
    /\ Crashes \in BOOLEAN

VARIABLES
    status,     \* ServiceRequest.status, NONE before the row exists
    customer,   \* ServiceRequest.customerId
    assigned,   \* ServiceRequest.assignedHandymanId
    details,    \* the editable columns
    app,        \* app[r][h]: status of the row unique on (request, handyman)
    call,       \* the running handlers
    events      \* the events handed to the listeners so far

db == <<status, customer, assigned, details, app>>
vars == <<status, customer, assigned, details, app, call, events>>

ServiceRequestStatus ==
    {"OPEN", "ASSIGNED", "IN_PROGRESS", "AWAITING_CONFIRMATION",
     "COMPLETED", "CANCELLED"}
ApplicationStatus == {"PENDING", "ACCEPTED", "REJECTED", "WITHDRAWN"}

\* The event each handler emits once its write has committed.
EventOf_ ==
    [create                |-> "CREATED",
     acceptApplication     |-> "ASSIGNED",
     cancelAssignedRequest |-> "UNASSIGNED",
     completeRequest       |-> "COMPLETION_SUBMITTED",
     confirmCompletion     |-> "COMPLETED",
     cancel                |-> "UNASSIGNED"]
EventOf ==
    [create                |-> "CREATED",
     acceptApplication     |-> "ASSIGNED",
     cancelAssignedRequest |-> "UNASSIGNED",
     completeRequest       |-> "COMPLETION_SUBMITTED",
     confirmCompletion     |-> "COMPLETED",
     cancel                |-> "CANCELLED"]

CustomerOps == {"create", "update", "cancel", "acceptApplication",
                "rejectApplication", "confirmCompletion"}
HandymanOps == {"applyToRequest", "withdrawApplication", "startRequest",
                "cancelAssignedRequest", "completeRequest"}
Steps == {"application", "recheck", "write", "emit"}

Event == [type : {EventOf[op] : op \in DOMAIN EventOf},
          req : Requests, hm : Handymen \cup {None}]

\* A running handler: what it is, what it does next, who called it, the request
\* in the URL, the application in the URL (the row of on and hm), and what it
\* read and still relies on.
CallRecord ==
    [op : CustomerOps \cup HandymanOps, step : Steps,
     by : Customers \cup Handymen,
     req : Requests, on : Requests, hm : Handymen \cup {None},
     seen : ServiceRequestStatus \cup ApplicationStatus \cup {"NONE"}]

Call == {c \in CallRecord :
    /\ c.step = "emit" => c.op \in DOMAIN EventOf
    /\ c.op \in CustomerOps => c.by \in Customers
    /\ c.op \in {"acceptApplication", "rejectApplication"} => c.hm \in Handymen
    /\ c.op \in HandymanOps => c.hm \in Handymen /\ c.by = c.hm /\ c.on = c.req}

Idle == [op |-> "idle"]

TypeOK ==
    /\ status \in [Requests -> ServiceRequestStatus \cup {"NONE"}]
    /\ customer \in [Requests -> Customers \cup {None}]
    /\ assigned \in [Requests -> Handymen \cup {None}]
    /\ details \in [Requests -> Details \cup {None}]
    /\ app \in [Requests -> [Handymen -> ApplicationStatus \cup {"NONE"}]]
    /\ call \in [Slots -> Call \cup {Idle}]
    /\ events \in SUBSET Event

Init ==
    /\ status = [r \in Requests |-> "NONE"]
    /\ customer = [r \in Requests |-> None]
    /\ assigned = [r \in Requests |-> None]
    /\ details = [r \in Requests |-> None]
    /\ app = [r \in Requests |-> [h \in Handymen |-> "NONE"]]
    /\ call = [p \in Slots |-> Idle]
    /\ events = {}

----------------------------------------------------------------------------
(* The where clauses of the conditional updates: a handler in state c       *)
(* matches a row, or throws.  An operator ending in _ is a slip in the one  *)
(* below it; the mutation runs put it in its place.                         *)

CancelWhere_(c) == TRUE
CancelWhere(c) == status[c.req] = c.seen

AcceptWhere(c) == status[c.req] = "OPEN" /\ app[c.on][c.hm] = "PENDING"

RejectWhere_(c) == TRUE
RejectWhere(c) == app[c.on][c.hm] = "PENDING"

ConfirmWhere_(c) == TRUE
ConfirmWhere(c) == status[c.req] = "AWAITING_CONFIRMATION"

\* A row found earlier must still be over; without one, the unique index
\* refuses the insert when a row exists by now.
ApplyWhere(c) ==
    \/ c.seen = "NONE" /\ app[c.req][c.hm] = "NONE"
    \/ c.seen # "NONE" /\ app[c.req][c.hm] \in {"WITHDRAWN", "REJECTED"}

WithdrawWhere(c) == app[c.on][c.hm] = "PENDING"

StartWhere_(c) == TRUE
StartWhere(c) == status[c.req] = "ASSIGNED"

CancelAssignedWhere(c) == status[c.req] = "ASSIGNED"

CompleteWhere_(c) == TRUE
CompleteWhere(c) == status[c.req] = "IN_PROGRESS"

----------------------------------------------------------------------------
(* Handlers: starting, waiting at a step, returning.                       *)

Running(p) == call[p].op # "idle"

At(p, op, step) == call[p].op = op /\ call[p].step = step

\* A user may start a handler in a free slot; a serial user only when no
\* handler of theirs is still running.
Begin(p, c) ==
    /\ ~Running(p)
    /\ Serial => \A q \in Slots : Running(q) => call[q].by # c.by
    /\ call' = [call EXCEPT ![p] = c]

Goto(p, step) == call' = [call EXCEPT ![p].step = step]

Return(p) == call' = [call EXCEPT ![p] = Idle]

\* A conditional write that matched no row, or a later check that failed: the
\* handler throws, its transaction rolls back, nothing has changed.
Throw(p) == Return(p) /\ UNCHANGED db

\* Emitting is the handler's last step.  It happens after the commit, in the
\* process that ran the handler, with the data the handler still holds.
EventFor(c) == [type |-> EventOf[c.op], req |-> c.req, hm |-> c.hm]

Emit(p) ==
    /\ Running(p)
    /\ call[p].step = "emit"
    /\ events' = events \cup {EventFor(call[p])}
    /\ Return(p)
    /\ UNCHANGED db

----------------------------------------------------------------------------
(* The customer's handlers (ServiceRequestsService).                       *)

\* A handler of customer u on request r that has read the row.
CustomerCall(op, step, u, r, h) ==
    [op |-> op, step |-> step, by |-> u, req |-> r, on |-> r, hm |-> h,
     seen |-> status[r]]

\* create: insert the row, then emit.
Create(p, u, r) ==
    /\ status[r] = "NONE"
    /\ Begin(p, CustomerCall("create", "emit", u, r, None))
    /\ status' = [status EXCEPT ![r] = "OPEN"]
    /\ customer' = [customer EXCEPT ![r] = u]
    /\ \E d \in Details : details' = [details EXCEPT ![r] = d]
    /\ UNCHANGED <<assigned, app, events>>

\* update: read, check the owner and OPEN ...
Update(p, u, r) ==
    /\ customer[r] = u
    /\ status[r] = "OPEN"
    /\ Begin(p, CustomerCall("update", "write", u, r, None))
    /\ UNCHANGED <<db, events>>

\* ... then write by id alone.
UpdateWrite(p) ==
    /\ At(p, "update", "write")
    /\ \E d \in Details : details' = [details EXCEPT ![call[p].req] = d]
    /\ Return(p)
    /\ UNCHANGED <<status, customer, assigned, app, events>>

\* cancel: read, check the owner and that work has not started ...
Cancel(p, u, r) ==
    /\ customer[r] = u
    /\ status[r] \in {"OPEN", "ASSIGNED"}
    /\ Begin(p, CustomerCall("cancel", "write", u, r, None))
    /\ UNCHANGED <<db, events>>

\* The applications a cancellation puts an end to.
Live_ == {"PENDING"}
Live == {"PENDING", "ACCEPTED"}

\* The assignee the cancelled row carries when the transaction reads it again;
\* the handler's first read may be older.
Reread_(c) == c.hm
Reread(c) == assigned[c.req]

\* ... then, if the status is still the one that was read, cancel the request
\* and reject its live applications; the event carries the re-read assignee.
CancelWrite(p) ==
    LET r == call[p].req IN
    /\ At(p, "cancel", "write")
    /\ \/ /\ CancelWhere(call[p])
          /\ status' = [status EXCEPT ![r] = "CANCELLED"]
          /\ app' = [app EXCEPT ![r] = [h \in Handymen |->
                        IF app[r][h] \in Live
                          THEN "REJECTED" ELSE app[r][h]]]
          /\ call' = [call EXCEPT ![p].step = "emit", ![p].hm = Reread(call[p])]
          /\ UNCHANGED <<customer, assigned, details>>
       \/ /\ ~CancelWhere(call[p])
          /\ Throw(p)
    /\ UNCHANGED events

\* acceptApplication and rejectApplication: read the request, check the owner
\* and OPEN; then read the application (o, h) named in the URL.
DecideApplication(p, op, u, r, o, h) ==
    /\ op \in {"acceptApplication", "rejectApplication"}
    /\ customer[r] = u
    /\ status[r] = "OPEN"
    /\ Begin(p, [CustomerCall(op, "application", u, r, h) EXCEPT !.on = o])
    /\ UNCHANGED <<db, events>>

\* The application must exist, belong to this request and be PENDING.
Decidable_(c) == app[c.on][c.hm] = "PENDING"
Decidable(c) == c.on = c.req /\ app[c.on][c.hm] = "PENDING"

CheckApplication(p) ==
    LET c == call[p] IN
    /\ \E op \in {"acceptApplication", "rejectApplication"} :
           At(p, op, "application")
    /\ \/ /\ Decidable(c)
          /\ Goto(p, "write")
          /\ UNCHANGED db
       \/ /\ ~Decidable(c)
          /\ Throw(p)
    /\ UNCHANGED events

\* acceptApplication's transaction: OPEN -> ASSIGNED, PENDING -> ACCEPTED, the
\* request's other PENDING applications -> REJECTED; all of it or nothing.
AcceptWrite(p) ==
    LET c == call[p] IN
    /\ At(p, "acceptApplication", "write")
    /\ \/ /\ AcceptWhere(c)
          /\ status' = [status EXCEPT ![c.req] = "ASSIGNED"]
          /\ assigned' = [assigned EXCEPT ![c.req] = c.hm]
          /\ app' = [r \in Requests |-> [h \in Handymen |->
                        CASE r = c.on /\ h = c.hm -> "ACCEPTED"
                          [] r = c.req /\ ~(r = c.on /\ h = c.hm)
                               /\ app[r][h] = "PENDING" -> "REJECTED"
                          [] OTHER -> app[r][h]]]
          /\ Goto(p, "emit")
          /\ UNCHANGED <<customer, details>>
       \/ /\ ~AcceptWhere(c)
          /\ Throw(p)
    /\ UNCHANGED events

\* rejectApplication's write looks at the application only.
RejectWrite(p) ==
    LET c == call[p] IN
    /\ At(p, "rejectApplication", "write")
    /\ \/ /\ RejectWhere(c)
          /\ app' = [app EXCEPT ![c.on][c.hm] = "REJECTED"]
          /\ Return(p)
          /\ UNCHANGED <<status, customer, assigned, details>>
       \/ /\ ~RejectWhere(c)
          /\ Throw(p)
    /\ UNCHANGED events

\* confirmCompletion: read, check the owner and AWAITING_CONFIRMATION.  The
\* handler keeps the assignee of this read for its event ...
ConfirmCompletion(p, u, r) ==
    /\ customer[r] = u
    /\ status[r] = "AWAITING_CONFIRMATION"
    /\ Begin(p, CustomerCall("confirmCompletion", "write", u, r, assigned[r]))
    /\ UNCHANGED <<db, events>>

ConfirmWrite(p) ==
    LET r == call[p].req IN
    /\ At(p, "confirmCompletion", "write")
    /\ \/ /\ ConfirmWhere(call[p])
          /\ status' = [status EXCEPT ![r] = "COMPLETED"]
          /\ Goto(p, "emit")
          /\ UNCHANGED <<customer, assigned, details, app>>
       \/ /\ ~ConfirmWhere(call[p])
          /\ Throw(p)
    /\ UNCHANGED events

----------------------------------------------------------------------------
(* The handyman's handlers (HandymanService).                              *)

HandymanCall(op, step, h, r, seen) ==
    [op |-> op, step |-> step, by |-> h, req |-> r, on |-> r, hm |-> h,
     seen |-> seen]

\* applyToRequest: profile and category checks pass for every h of Handymen;
\* read the request, which must be OPEN ...
ApplyToRequest(p, h, r) ==
    /\ status[r] = "OPEN"
    /\ Begin(p, HandymanCall("applyToRequest", "application", h, r, "OPEN"))
    /\ UNCHANGED <<db, events>>

\* ... read the handyman's own application: none, or one that is over ...
FindExisting(p) ==
    LET c == call[p] IN
    /\ At(p, "applyToRequest", "application")
    /\ \/ /\ app[c.req][c.hm] \in {"NONE", "WITHDRAWN", "REJECTED"}
          /\ call' = [call EXCEPT ![p].step = "recheck",
                                  ![p].seen = app[c.req][c.hm]]
          /\ UNCHANGED db
       \/ /\ app[c.req][c.hm] \notin {"NONE", "WITHDRAWN", "REJECTED"}
          /\ Throw(p)
    /\ UNCHANGED events

\* ... open the transaction and read the request again, without a lock ...
RecheckOpen_(p) ==
    /\ At(p, "applyToRequest", "recheck")
    /\ Goto(p, "write")
    /\ UNCHANGED <<db, events>>
RecheckOpen(p) ==
    /\ At(p, "applyToRequest", "recheck")
    /\ \/ status[call[p].req] = "OPEN" /\ Goto(p, "write") /\ UNCHANGED db
       \/ status[call[p].req] # "OPEN" /\ Throw(p)
    /\ UNCHANGED events

\* ... and write: resurrect the row that was found, or insert one.
ApplyWrite(p) ==
    LET c == call[p] IN
    /\ At(p, "applyToRequest", "write")
    /\ \/ /\ ApplyWhere(c)
          /\ app' = [app EXCEPT ![c.req][c.hm] = "PENDING"]
          /\ Return(p)
          /\ UNCHANGED <<status, customer, assigned, details>>
       \/ /\ ~ApplyWhere(c)
          /\ Throw(p)
    /\ UNCHANGED events

\* withdrawApplication: the row must exist and be the caller's.
WithdrawApplication(p, h, r) ==
    /\ app[r][h] # "NONE"
    /\ Begin(p, HandymanCall("withdrawApplication", "write", h, r, app[r][h]))
    /\ UNCHANGED <<db, events>>

WithdrawWrite(p) ==
    LET c == call[p] IN
    /\ At(p, "withdrawApplication", "write")
    /\ \/ /\ WithdrawWhere(c)
          /\ app' = [app EXCEPT ![c.on][c.hm] = "WITHDRAWN"]
          /\ Return(p)
          /\ UNCHANGED <<status, customer, assigned, details>>
       \/ /\ ~WithdrawWhere(c)
          /\ Throw(p)
    /\ UNCHANGED events

\* The check of the first read; the writes that follow do not repeat it.
IsAssignee_(h, r) == assigned[r] # None
IsAssignee(h, r) == assigned[r] = h

\* startRequest: the caller must be the assignee of an ASSIGNED request ...
StartRequest(p, h, r) ==
    /\ IsAssignee(h, r)
    /\ status[r] = "ASSIGNED"
    /\ Begin(p, HandymanCall("startRequest", "write", h, r, status[r]))
    /\ UNCHANGED <<db, events>>

\* ... but the write checks the status alone, not who is assigned now.
StartWrite(p) ==
    LET r == call[p].req IN
    /\ At(p, "startRequest", "write")
    /\ \/ /\ StartWhere(call[p])
          /\ status' = [status EXCEPT ![r] = "IN_PROGRESS"]
          /\ Return(p)
          /\ UNCHANGED <<customer, assigned, details, app>>
       \/ /\ ~StartWhere(call[p])
          /\ Throw(p)
    /\ UNCHANGED events

\* cancelAssignedRequest: same reads as startRequest ...
CancelAssignedRequest(p, h, r) ==
    /\ IsAssignee(h, r)
    /\ status[r] = "ASSIGNED"
    /\ Begin(p, HandymanCall("cancelAssignedRequest", "write", h, r, status[r]))
    /\ UNCHANGED <<db, events>>

GiveUp_(s) == s
GiveUp(s) == IF s = "ACCEPTED" THEN "WITHDRAWN" ELSE s

\* ... then reopen the request and withdraw the CALLER's accepted application.
CancelAssignedWrite(p) ==
    LET c == call[p] IN
    /\ At(p, "cancelAssignedRequest", "write")
    /\ \/ /\ CancelAssignedWhere(c)
          /\ status' = [status EXCEPT ![c.req] = "OPEN"]
          /\ assigned' = [assigned EXCEPT ![c.req] = None]
          /\ app' = [app EXCEPT ![c.req][c.hm] = GiveUp(@)]
          /\ Goto(p, "emit")
          /\ UNCHANGED <<customer, details>>
       \/ /\ ~CancelAssignedWhere(c)
          /\ Throw(p)
    /\ UNCHANGED events

\* completeRequest: the assignee of an IN_PROGRESS request hands it over.
CompleteRequest(p, h, r) ==
    /\ IsAssignee(h, r)
    /\ status[r] = "IN_PROGRESS"
    /\ Begin(p, HandymanCall("completeRequest", "write", h, r, status[r]))
    /\ UNCHANGED <<db, events>>

CompleteWrite(p) ==
    LET r == call[p].req IN
    /\ At(p, "completeRequest", "write")
    /\ \/ /\ CompleteWhere(call[p])
          /\ status' = [status EXCEPT ![r] = "AWAITING_CONFIRMATION"]
          /\ Goto(p, "emit")
          /\ UNCHANGED <<customer, assigned, details, app>>
       \/ /\ ~CompleteWhere(call[p])
          /\ Throw(p)
    /\ UNCHANGED events

----------------------------------------------------------------------------
(* A handler dies between two steps: its process is killed, or the         *)
(* database connection is lost.  What it committed stays; its event, not   *)
(* yet emitted, is gone.                                                   *)
Crash(p) ==
    /\ Crashes
    /\ Running(p)
    /\ Return(p)
    /\ UNCHANGED <<db, events>>

CustomerStarts(p) == \E u \in Customers, r \in Requests :
    \/ Create(p, u, r)
    \/ Update(p, u, r)
    \/ Cancel(p, u, r)
    \/ \E op \in CustomerOps, o \in Requests, h \in Handymen :
           DecideApplication(p, op, u, r, o, h)
    \/ ConfirmCompletion(p, u, r)

HandymanStarts(p) == \E h \in Handymen, r \in Requests :
    \/ ApplyToRequest(p, h, r)
    \/ WithdrawApplication(p, h, r)
    \/ StartRequest(p, h, r)
    \/ CancelAssignedRequest(p, h, r)
    \/ CompleteRequest(p, h, r)

\* The next step of a handler that is running.
Continue(p) ==
    \/ UpdateWrite(p)
    \/ CancelWrite(p)
    \/ CheckApplication(p)
    \/ AcceptWrite(p)
    \/ RejectWrite(p)
    \/ ConfirmWrite(p)
    \/ FindExisting(p)
    \/ RecheckOpen(p)
    \/ ApplyWrite(p)
    \/ WithdrawWrite(p)
    \/ StartWrite(p)
    \/ CancelAssignedWrite(p)
    \/ CompleteWrite(p)
    \/ Emit(p)

Next == \E p \in Slots :
    CustomerStarts(p) \/ HandymanStarts(p) \/ Continue(p) \/ Crash(p)

Spec == Init /\ [][Next]_vars

\* The event loop and the database keep serving a handler that is running;
\* no user has to call anything.
Fairness == \A p \in Slots : WF_vars(Continue(p))
FairSpec == Spec /\ Fairness

\* The events committed but not yet emitted.
Due == {EventFor(call[p]) : p \in {q \in Slots : Running(q) /\ call[q].step = "emit"}}

----------------------------------------------------------------------------
(* Correctness, for any number of handlers running at once.                *)

Held == {"ASSIGNED", "IN_PROGRESS", "AWAITING_CONFIRMATION", "COMPLETED"}

\* From ASSIGNED on, the request names a handyman, and that handyman's own
\* application is ACCEPTED: no interleaving of accept, reject, withdraw,
\* re-apply and the two cancellations takes the acceptance away under the job
\* (the conditional writes of bugs #5, #6, #9 and #11).
AssigneeAccepted ==
    \A r \in Requests : status[r] \in Held =>
        /\ assigned[r] \in Handymen
        /\ app[r][assigned[r]] = "ACCEPTED"

\* A request that waits for a handyman names none, and a cancelled one has no
\* ACCEPTED application: a late accept cannot land on it.
ReleasedClean ==
    \A r \in Requests :
        /\ status[r] \in {"NONE", "OPEN"} => assigned[r] = None
        /\ status[r] = "CANCELLED" => \A h \in Handymen : app[r][h] # "ACCEPTED"

\* Event e fits the request it is about.
Truthful(e) ==
    /\ e.type = "COMPLETION_SUBMITTED" =>
           /\ status[e.req] \in {"AWAITING_CONFIRMATION", "COMPLETED"}
           /\ assigned[e.req] = e.hm
    /\ e.type = "COMPLETED" =>
           status[e.req] = "COMPLETED" /\ assigned[e.req] = e.hm
    /\ e.type = "CANCELLED" =>
           status[e.req] = "CANCELLED" /\ assigned[e.req] = e.hm

\* What listeners were told, or are about to be told, is what happened, and it
\* names the handyman the request still names, although the handlers emit
\* after their commit with data read before it (confirmCompletion's
\* request.assignedHandymanId, completeRequest's profile.id).
EventsTruthful == \A e \in events \cup Due : Truthful(e)

\* SERVICE_REQUEST_COMPLETED is emitted at most once per request, however often
\* the confirmation is submitted or retried: no two handlers are about to emit
\* it for the same request, and none is once it has been emitted.
CompletedAtMostOnce ==
    \A p \in Slots : At(p, "confirmCompletion", "emit") =>
        /\ EventFor(call[p]) \notin events
        /\ \A q \in Slots : At(q, "confirmCompletion", "emit")
                             /\ call[q].req = call[p].req => q = p

\* What a handler relies on after its checks.
Sound(p) ==
    LET c == call[p] IN
    /\ At(p, "acceptApplication", "write") => c.on = c.req
    /\ At(p, "cancel", "write") => c.seen \in {"OPEN", "ASSIGNED"}
    /\ At(p, "completeRequest", "write") =>
           /\ status[c.req] \in Held \ {"ASSIGNED"}
           /\ assigned[c.req] = c.hm
    /\ At(p, "completeRequest", "emit") =>
           /\ status[c.req] \in {"AWAITING_CONFIRMATION", "COMPLETED"}
           /\ assigned[c.req] = c.hm
    /\ At(p, "confirmCompletion", "write") =>
           /\ status[c.req] \in {"AWAITING_CONFIRMATION", "COMPLETED"}
           /\ assigned[c.req] = c.hm
    /\ At(p, "confirmCompletion", "emit") =>
           status[c.req] = "COMPLETED" /\ assigned[c.req] = c.hm
    /\ At(p, "cancel", "emit") =>
           status[c.req] = "CANCELLED" /\ assigned[c.req] = c.hm

\* It stays true until the handler is done: the job of a completeRequest or a
\* confirmCompletion in flight has not moved back or changed hands, although
\* their writes check the status alone, and an emitter's request is still where
\* its commit put it.
HandlersSound == \A p \in Slots : Sound(p)

\* A finished request stays finished, and from IN_PROGRESS on the job never
\* changes hands (the resurrections startRequest's and completeRequest's
\* comments describe).
NeverReopened ==
    [][\A r \in Requests :
          /\ status[r] \in {"COMPLETED", "CANCELLED"} => status'[r] = status[r]
          /\ status[r] \in Held \ {"ASSIGNED"} => assigned'[r] = assigned[r]
      ]_vars

\* Request r has left OPEN, and no edit or application that found it OPEN is still
\* to be written.
Closed(r) ==
    /\ status[r] \notin {"NONE", "OPEN"}
    /\ \A p \in Slots :
          At(p, "update", "write") \/ At(p, "applyToRequest", "write") => call[p].req # r

\* What is left of two races the code does not exclude (update writes by id alone,
\* applyToRequest's re-check takes no lock): only a handler that had passed its last
\* check when the request left OPEN edits or applies to it afterwards.  Once those
\* are done none follows, and the handyman's job and the list of applicants stay as
\* they are until a back-out reopens the request.
ClosedStaysAsItWas ==
    [][\A r \in Requests : Closed(r) /\ status'[r] # "OPEN" =>
          /\ Closed(r)'
          /\ details'[r] = details[r]
          /\ \A h \in Handymen : app'[r][h] = "PENDING" => app[r][h] = "PENDING"
      ]_vars

----------------------------------------------------------------------------
(* Correctness when no user has two handlers running at once.              *)

\* At most one application of a request is ACCEPTED, and none while the request
\* is OPEN: the assignment is unique.
SingleAccepted ==
    \A r \in Requests, h \in Handymen :
        app[r][h] = "ACCEPTED" => status[r] \in Held /\ assigned[r] = h

\* A job is started, and given back, only by the handyman it is assigned to at
\* that moment, though neither write checks it.
OnlyAssigneeActs ==
    [][\A p \in Slots :
          /\ At(p, "startRequest", "write") \/ At(p, "cancelAssignedRequest", "write")
          /\ status'[call[p].req] # status[call[p].req]
          /\ call'[p] # call[p]
          => assigned[call[p].req] = call[p].by]_vars

\* The atomic life cycle of JobLifecycle, with the notices each transition owes:
\* the handlers, their stale reads, their lost races and their crashes implement
\* it when no user has two handlers running at once.
Job == INSTANCE JobLifecycle
         WITH phase <- status, worker <- assigned, due <- Due, told <- events

ImplementsJob == Job!JobSpec

----------------------------------------------------------------------------
(* Liveness, when no handler crashes.                                      *)

\* Every completion and every cancellation is eventually announced.
Announced ==
    \A r \in Requests :
        /\ status[r] = "COMPLETED" ~>
               \E e \in events : e.req = r /\ e.type = "COMPLETED"
        /\ status[r] = "CANCELLED" ~>
               \E e \in events : e.req = r /\ e.type = "CANCELLED"

----------------------------------------------------------------------------
(* What the repository's comments and API documentation say.               *)

\* "Nothing is left PENDING or ACCEPTED on a cancelled request" (cancel's
\* transaction).
NothingLeftOnCancelled ==
    \A r \in Requests, h \in Handymen :
        status[r] = "CANCELLED" => app[r][h] \notin {"PENDING", "ACCEPTED"}

\* "the application that won the assignment is WITHDRAWN so it doesn't sit around
\* as a stale ACCEPTED record" (cancelAssignedRequest, which reopens the request).
NoStaleAccepted ==
    \A r \in Requests, h \in Handymen :
        status[r] = "OPEN" => app[r][h] # "ACCEPTED"

=============================================================================
