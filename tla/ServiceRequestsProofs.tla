----------------------- MODULE ServiceRequestsProofs -----------------------
(***************************************************************************)
(* Theorems about ServiceRequests, for any sets of requests, users and     *)
(* concurrent handlers.                                                    *)
(***************************************************************************)
EXTENDS ServiceRequests, TLAPS

\* The types an action is given: the rows and the handler it works on.
LEMMA SlotType ==
    ASSUME TypeOK, NEW p \in Slots, call[p].op # "idle"
    PROVE  call[p] \in Call
BY DEF TypeOK, Idle

LEMMA TypeBegin ==
    ASSUME TypeOK, NEW p \in Slots, NEW c \in Call, Begin(p, c)
    PROVE  call' \in [Slots -> Call \cup {Idle}]
BY DEF TypeOK, Begin

LEMMA TypeReturn ==
    ASSUME TypeOK, NEW p \in Slots, Return(p)
    PROVE  call' \in [Slots -> Call \cup {Idle}]
BY DEF TypeOK, Return

LEMMA TypeGoto ==
    ASSUME TypeOK, NEW p \in Slots, call[p].op # "idle",
           NEW step \in Steps, step = "emit" => call[p].op \in DOMAIN EventOf,
           Goto(p, step)
    PROVE  call' \in [Slots -> Call \cup {Idle}]
<1>1. call[p] \in Call
  BY SlotType
<1>2. [call[p] EXCEPT !.step = step] \in Call
  BY <1>1 DEF Call, CallRecord
<1>. QED  BY <1>2 DEF TypeOK, Goto

\* A handler that throws leaves the rows alone.
LEMMA TypeThrow ==
    ASSUME TypeOK, NEW p \in Slots, Throw(p), UNCHANGED events
    PROVE  TypeOK'
BY TypeReturn DEF TypeOK, Throw, db

\* A handler that only starts, reading, leaves the rows alone.
LEMMA TypeRead ==
    ASSUME TypeOK, NEW p \in Slots, NEW c \in Call, Begin(p, c),
           UNCHANGED <<db, events>>
    PROVE  TypeOK'
BY TypeBegin DEF TypeOK, db

LEMMA CustomerCallType ==
    ASSUME TypeOK, NEW op \in CustomerOps, NEW step \in Steps,
           NEW u \in Customers, NEW r \in Requests, NEW h \in Handymen \cup {None},
           step = "emit" => op \in DOMAIN EventOf,
           op \in {"acceptApplication", "rejectApplication"} => h \in Handymen
    PROVE  CustomerCall(op, step, u, r, h) \in Call
BY DEF TypeOK, CustomerCall, Call, CallRecord, CustomerOps, HandymanOps

LEMMA HandymanCallType ==
    ASSUME TypeOK, NEW op \in HandymanOps, NEW step \in Steps, step # "emit",
           NEW h \in Handymen, NEW r \in Requests,
           NEW seen \in ServiceRequestStatus \cup ApplicationStatus \cup {"NONE"}
    PROVE  HandymanCall(op, step, h, r, seen) \in Call
BY DEF TypeOK, HandymanCall, Call, CallRecord, CustomerOps, HandymanOps

LEMMA TypeCustomerStarts ==
    ASSUME TypeOK, NEW p \in Slots, CustomerStarts(p)
    PROVE  TypeOK'
<1>. PICK u \in Customers, r \in Requests :
       \/ Create(p, u, r)
       \/ Update(p, u, r)
       \/ Cancel(p, u, r)
       \/ \E op \in CustomerOps, o \in Requests, h \in Handymen :
              DecideApplication(p, op, u, r, o, h)
       \/ ConfirmCompletion(p, u, r)
  BY DEF CustomerStarts
<1>1. CASE Create(p, u, r)
  <2>1. CustomerCall("create", "emit", u, r, None) \in Call
    BY CustomerCallType DEF CustomerOps, Steps, EventOf
  <2>2. call' \in [Slots -> Call \cup {Idle}]
    BY <1>1, <2>1, TypeBegin DEF Create
  <2>. QED  BY <1>1, <2>2 DEF TypeOK, Create, ServiceRequestStatus
<1>2. CASE Update(p, u, r)
  <2>1. CustomerCall("update", "write", u, r, None) \in Call
    BY CustomerCallType DEF CustomerOps, Steps
  <2>. QED  BY <1>2, <2>1, TypeRead DEF Update
<1>3. CASE Cancel(p, u, r)
  <2>1. CustomerCall("cancel", "write", u, r, None) \in Call
    BY CustomerCallType DEF CustomerOps, Steps
  <2>. QED  BY <1>3, <2>1, TypeRead DEF Cancel
<1>4. CASE \E op \in CustomerOps, o \in Requests, h \in Handymen :
              DecideApplication(p, op, u, r, o, h)
  <2>. PICK op \in CustomerOps, o \in Requests, h \in Handymen :
         DecideApplication(p, op, u, r, o, h)
    BY <1>4
  <2>1. CustomerCall(op, "application", u, r, h) \in Call
    BY CustomerCallType DEF Steps
  <2>2. [CustomerCall(op, "application", u, r, h) EXCEPT !.on = o] \in Call
    BY <2>1 DEF Call, CallRecord, CustomerCall, CustomerOps, HandymanOps
  <2>. QED  BY <2>2, TypeRead DEF DecideApplication
<1>5. CASE ConfirmCompletion(p, u, r)
  <2>1. assigned[r] \in Handymen \cup {None}
    BY DEF TypeOK
  <2>2. CustomerCall("confirmCompletion", "write", u, r, assigned[r]) \in Call
    BY <2>1, CustomerCallType DEF CustomerOps, Steps
  <2>. QED  BY <1>5, <2>2, TypeRead DEF ConfirmCompletion
<1>. QED  BY <1>1, <1>2, <1>3, <1>4, <1>5

LEMMA TypeHandymanStarts ==
    ASSUME TypeOK, NEW p \in Slots, HandymanStarts(p)
    PROVE  TypeOK'
<1>. PICK h \in Handymen, r \in Requests :
       \/ ApplyToRequest(p, h, r)
       \/ WithdrawApplication(p, h, r)
       \/ StartRequest(p, h, r)
       \/ CancelAssignedRequest(p, h, r)
       \/ CompleteRequest(p, h, r)
  BY DEF HandymanStarts
<1>0. /\ status[r] \in ServiceRequestStatus \cup ApplicationStatus \cup {"NONE"}
      /\ app[r][h] \in ServiceRequestStatus \cup ApplicationStatus \cup {"NONE"}
  BY DEF TypeOK
<1>1. CASE ApplyToRequest(p, h, r)
  <2>1. HandymanCall("applyToRequest", "application", h, r, "OPEN") \in Call
    BY HandymanCallType DEF HandymanOps, Steps, ServiceRequestStatus
  <2>. QED  BY <1>1, <2>1, TypeRead DEF ApplyToRequest
<1>2. CASE WithdrawApplication(p, h, r)
  <2>1. HandymanCall("withdrawApplication", "write", h, r, app[r][h]) \in Call
    BY <1>0, HandymanCallType DEF HandymanOps, Steps
  <2>. QED  BY <1>2, <2>1, TypeRead DEF WithdrawApplication
<1>3. CASE StartRequest(p, h, r)
  <2>1. HandymanCall("startRequest", "write", h, r, status[r]) \in Call
    BY <1>0, HandymanCallType DEF HandymanOps, Steps
  <2>. QED  BY <1>3, <2>1, TypeRead DEF StartRequest
<1>4. CASE CancelAssignedRequest(p, h, r)
  <2>1. HandymanCall("cancelAssignedRequest", "write", h, r, status[r]) \in Call
    BY <1>0, HandymanCallType DEF HandymanOps, Steps
  <2>. QED  BY <1>4, <2>1, TypeRead DEF CancelAssignedRequest
<1>5. CASE CompleteRequest(p, h, r)
  <2>1. HandymanCall("completeRequest", "write", h, r, status[r]) \in Call
    BY <1>0, HandymanCallType DEF HandymanOps, Steps
  <2>. QED  BY <1>5, <2>1, TypeRead DEF CompleteRequest
<1>. QED  BY <1>1, <1>2, <1>3, <1>4, <1>5

\* Changing one application, or none, keeps the table's type.
LEMMA TypeApp ==
    ASSUME TypeOK, NEW r, NEW h, NEW s \in ApplicationStatus \cup {"NONE"}
    PROVE  [app EXCEPT ![r][h] = s]
             \in [Requests -> [Handymen -> ApplicationStatus \cup {"NONE"}]]
<1>1. CASE r \in Requests
  <2>1. [app[r] EXCEPT ![h] = s] \in [Handymen -> ApplicationStatus \cup {"NONE"}]
    BY <1>1 DEF TypeOK
  <2>. QED  BY <1>1, <2>1 DEF TypeOK
<1>2. CASE r \notin Requests
  BY <1>2 DEF TypeOK
<1>. QED  BY <1>1, <1>2

LEMMA TypeContinue ==
    ASSUME TypeOK, NEW p \in Slots, Continue(p)
    PROVE  TypeOK'
<1>0. call[p].op # "idle" => call[p] \in Call
  BY SlotType
<1>. USE DEF ServiceRequestStatus, ApplicationStatus
<1>1. CASE UpdateWrite(p)
  BY <1>1, <1>0, TypeReturn DEF UpdateWrite, At, TypeOK
<1>2. CASE CancelWrite(p)
  <2>1. call[p] \in Call
    BY <1>2, <1>0 DEF CancelWrite, CancelWhere, Reread, Live, At
  <2>2. CASE status[call[p].req] = call[p].seen
    <3>1. [call[p] EXCEPT !.step = "emit", !.hm = assigned[call[p].req]] \in Call
      BY <1>2, <2>1 DEF CancelWrite, CancelWhere, Reread, Live, At, TypeOK, Call, CallRecord, Steps, EventOf,
           CustomerOps, HandymanOps
    <3>2. call' \in [Slots -> Call \cup {Idle}]
      BY <1>2, <2>2, <3>1 DEF CancelWrite, CancelWhere, Reread, Live, TypeOK
    <3>3. call[p].req \in Requests
      BY <2>1 DEF Call, CallRecord
    <3>4. app' \in [Requests -> [Handymen -> ApplicationStatus \cup {"NONE"}]]
      <4>. DEFINE row == [h \in Handymen |->
                            IF app[call[p].req][h] \in {"PENDING", "ACCEPTED"}
                              THEN "REJECTED" ELSE app[call[p].req][h]]
      <4>1. row \in [Handymen -> ApplicationStatus \cup {"NONE"}]
        BY <3>3 DEF TypeOK
      <4>2. app' = [app EXCEPT ![call[p].req] = row]
        BY <1>2, <2>2 DEF CancelWrite, CancelWhere, Reread, Live
      <4>. QED  BY <4>1, <4>2 DEF TypeOK
    <3>5. status' \in [Requests -> ServiceRequestStatus \cup {"NONE"}]
      BY <1>2, <2>2 DEF CancelWrite, CancelWhere, Reread, Live, TypeOK
    <3>. QED  BY <1>2, <2>2, <3>2, <3>4, <3>5 DEF CancelWrite, CancelWhere, Reread, Live, TypeOK
  <2>. QED  BY <1>2, <2>2, TypeThrow DEF CancelWrite, CancelWhere, Reread, Live
<1>3. CASE CheckApplication(p)
  <2>1. CASE Goto(p, "write") /\ UNCHANGED <<db, events>>
    <3>1. call' \in [Slots -> Call \cup {Idle}]
      BY <1>3, <2>1, TypeGoto DEF CheckApplication, Decidable, At, Steps
    <3>. QED  BY <2>1, <3>1 DEF TypeOK, db
  <2>. QED  BY <1>3, <2>1, TypeThrow DEF CheckApplication, Decidable
<1>4. CASE AcceptWrite(p)
  <2>1. call[p] \in Call
    BY <1>4, <1>0 DEF AcceptWrite, AcceptWhere, At
  <2>2. CASE Goto(p, "emit") /\ ~Throw(p)
    <3>1. call' \in [Slots -> Call \cup {Idle}]
      BY <1>4, <2>2, TypeGoto DEF AcceptWrite, AcceptWhere, At, Steps, EventOf
    <3>2. app' \in [Requests -> [Handymen -> ApplicationStatus \cup {"NONE"}]]
      BY <1>4, <2>2 DEF AcceptWrite, AcceptWhere, TypeOK
    <3>3. call[p].req \in Requests /\ call[p].hm \in Handymen \cup {None}
      BY <2>1 DEF Call, CallRecord
    <3>4. /\ status' \in [Requests -> ServiceRequestStatus \cup {"NONE"}]
          /\ assigned' \in [Requests -> Handymen \cup {None}]
      BY <1>4, <2>2, <3>3 DEF AcceptWrite, AcceptWhere, TypeOK
    <3>. QED  BY <1>4, <2>2, <3>1, <3>2, <3>4 DEF AcceptWrite, AcceptWhere, TypeOK
  <2>. QED  BY <1>4, <2>2, TypeThrow DEF AcceptWrite, AcceptWhere
<1>5. CASE RejectWrite(p)
  <2>1. CASE Return(p) /\ ~Throw(p)
    <3>1. call' \in [Slots -> Call \cup {Idle}]
      BY <2>1, TypeReturn
    <3>2. app' \in [Requests -> [Handymen -> ApplicationStatus \cup {"NONE"}]]
      BY <1>5, <2>1, TypeApp DEF RejectWrite, RejectWhere
    <3>. QED  BY <1>5, <2>1, <3>1, <3>2 DEF RejectWrite, RejectWhere, TypeOK
  <2>. QED  BY <1>5, <2>1, TypeThrow DEF RejectWrite, RejectWhere
<1>6. CASE ConfirmWrite(p)
  <2>1. CASE Goto(p, "emit") /\ ~Throw(p)
    <3>1. call' \in [Slots -> Call \cup {Idle}]
      BY <1>6, <2>1, TypeGoto DEF ConfirmWrite, ConfirmWhere, At, Steps, EventOf
    <3>. QED  BY <1>6, <2>1, <3>1 DEF ConfirmWrite, ConfirmWhere, TypeOK
  <2>. QED  BY <1>6, <2>1, TypeThrow DEF ConfirmWrite, ConfirmWhere
<1>7. CASE FindExisting(p)
  <2>1. call[p] \in Call
    BY <1>7, <1>0 DEF FindExisting, At
  <2>2. CASE ~Throw(p)
    <3>1. [call[p] EXCEPT !.step = "recheck", !.seen = app[call[p].req][call[p].hm]]
             \in Call
      BY <1>7, <2>1, <2>2 DEF FindExisting, At, TypeOK, Call, CallRecord, Steps,
           CustomerOps, HandymanOps
    <3>. QED  BY <1>7, <2>2, <3>1 DEF FindExisting, TypeOK, db
  <2>. QED  BY <1>7, <2>2, TypeThrow DEF FindExisting
<1>8. CASE RecheckOpen(p)
  <2>1. CASE Goto(p, "write") /\ UNCHANGED <<db, events>>
    <3>1. call' \in [Slots -> Call \cup {Idle}]
      BY <1>8, <2>1, TypeGoto DEF RecheckOpen, At, Steps
    <3>. QED  BY <2>1, <3>1 DEF TypeOK, db
  <2>. QED  BY <1>8, <2>1, TypeThrow DEF RecheckOpen
<1>9. CASE ApplyWrite(p)
  <2>1. CASE Return(p) /\ ~Throw(p)
    <3>1. call' \in [Slots -> Call \cup {Idle}]
      BY <2>1, TypeReturn
    <3>2. app' \in [Requests -> [Handymen -> ApplicationStatus \cup {"NONE"}]]
      BY <1>9, <2>1, TypeApp DEF ApplyWrite, ApplyWhere
    <3>. QED  BY <1>9, <2>1, <3>1, <3>2 DEF ApplyWrite, ApplyWhere, TypeOK
  <2>. QED  BY <1>9, <2>1, TypeThrow DEF ApplyWrite, ApplyWhere
<1>10. CASE WithdrawWrite(p)
  <2>1. CASE Return(p) /\ ~Throw(p)
    <3>1. call' \in [Slots -> Call \cup {Idle}]
      BY <2>1, TypeReturn
    <3>2. app' \in [Requests -> [Handymen -> ApplicationStatus \cup {"NONE"}]]
      BY <1>10, <2>1, TypeApp DEF WithdrawWrite, WithdrawWhere
    <3>. QED  BY <1>10, <2>1, <3>1, <3>2 DEF WithdrawWrite, WithdrawWhere, TypeOK
  <2>. QED  BY <1>10, <2>1, TypeThrow DEF WithdrawWrite, WithdrawWhere
<1>11. CASE StartWrite(p)
  <2>1. CASE Return(p) /\ ~Throw(p)
    BY <1>11, <2>1, TypeReturn DEF StartWrite, StartWhere, TypeOK
  <2>. QED  BY <1>11, <2>1, TypeThrow DEF StartWrite, StartWhere
<1>12. CASE CancelAssignedWrite(p)
  <2>1. CASE Goto(p, "emit") /\ ~Throw(p)
    <3>1. call' \in [Slots -> Call \cup {Idle}]
      BY <1>12, <2>1, TypeGoto DEF CancelAssignedWrite, GiveUp, CancelAssignedWhere, At, Steps, EventOf
    <3>2. call[p] \in Call
      BY <1>12, <1>0 DEF CancelAssignedWrite, GiveUp, CancelAssignedWhere, At
    <3>3. app' \in [Requests -> [Handymen -> ApplicationStatus \cup {"NONE"}]]
      <4>. DEFINE r == call[p].req
                  h == call[p].hm
                  s == IF app[r][h] = "ACCEPTED" THEN "WITHDRAWN" ELSE app[r][h]
      <4>1. r \in Requests /\ h \in Handymen
        BY <1>12, <3>2 DEF CancelAssignedWrite, GiveUp, CancelAssignedWhere, At, Call, CallRecord, HandymanOps
      <4>2. s \in ApplicationStatus \cup {"NONE"}
        BY <4>1 DEF TypeOK
      <4>3. app' = [app EXCEPT ![r][h] = s]
        BY <1>12, <2>1 DEF CancelAssignedWrite, GiveUp, CancelAssignedWhere
      <4>. HIDE DEF r, h, s
      <4>. QED  BY <4>2, <4>3, TypeApp
    <3>4. /\ status' \in [Requests -> ServiceRequestStatus \cup {"NONE"}]
          /\ assigned' \in [Requests -> Handymen \cup {None}]
      BY <1>12, <2>1 DEF CancelAssignedWrite, GiveUp, CancelAssignedWhere, TypeOK
    <3>. QED  BY <1>12, <2>1, <3>1, <3>3, <3>4 DEF CancelAssignedWrite, GiveUp, CancelAssignedWhere, TypeOK
  <2>. QED  BY <1>12, <2>1, TypeThrow DEF CancelAssignedWrite, GiveUp, CancelAssignedWhere
<1>13. CASE CompleteWrite(p)
  <2>1. CASE Goto(p, "emit") /\ ~Throw(p)
    <3>1. call' \in [Slots -> Call \cup {Idle}]
      BY <1>13, <2>1, TypeGoto DEF CompleteWrite, CompleteWhere, At, Steps, EventOf
    <3>. QED  BY <1>13, <2>1, <3>1 DEF CompleteWrite, CompleteWhere, TypeOK
  <2>. QED  BY <1>13, <2>1, TypeThrow DEF CompleteWrite, CompleteWhere
<1>14. CASE Emit(p)
  <2>1. call[p] \in Call
    BY <1>14, <1>0 DEF Emit, Running
  <2>2. EventFor(call[p]) \in Event
    BY <1>14, <2>1 DEF Emit, EventFor, Event, Call, CallRecord, EventOf
  <2>. QED  BY <1>14, <2>2, TypeReturn DEF Emit, TypeOK, db
<1>. QED
  BY <1>1, <1>2, <1>3, <1>4, <1>5, <1>6, <1>7, <1>8, <1>9, <1>10, <1>11, <1>12,
     <1>13, <1>14 DEF Continue

\* Every step keeps the types.
LEMMA TypeStep == TypeOK /\ [Next]_vars => TypeOK'
<1>. SUFFICES ASSUME TypeOK, [Next]_vars PROVE TypeOK'
  OBVIOUS
<1>1. ASSUME NEW p \in Slots, CustomerStarts(p) PROVE TypeOK'
  BY <1>1, TypeCustomerStarts
<1>2. ASSUME NEW p \in Slots, HandymanStarts(p) PROVE TypeOK'
  BY <1>2, TypeHandymanStarts
<1>3. ASSUME NEW p \in Slots, Continue(p) PROVE TypeOK'
  BY <1>3, TypeContinue
<1>4. ASSUME NEW p \in Slots, Crash(p) PROVE TypeOK'
  BY <1>4, TypeReturn DEF Crash, TypeOK, db
<1>5. CASE UNCHANGED vars
  BY <1>5 DEF TypeOK, vars
<1>. QED  BY <1>1, <1>2, <1>3, <1>4, <1>5 DEF Next

LEMMA TypeInit == Init => TypeOK
BY DEF Init, TypeOK

\* The tables, the running handlers and the emitted events always have the
\* shapes the services give them; in particular only a handler that has an event
\* ever reaches its emit step.
THEOREM TypeCorrect == Spec => []TypeOK
BY TypeInit, TypeStep, PTL DEF Spec

----------------------------------------------------------------------------
(* The rows: AssigneeAccepted and ReleasedClean.                           *)

\* The facts of earlier checks that the two transactions which start from
\* several states rely on; the part of HandlersSound the rows need.
Checked ==
    \A p \in Slots :
        /\ At(p, "acceptApplication", "write") => call[p].on = call[p].req
        /\ At(p, "cancel", "write") => call[p].seen \in {"OPEN", "ASSIGNED"}

RowsInv == TypeOK /\ AssigneeAccepted /\ ReleasedClean /\ Checked

\* Handlers other than p do not move in p's step.
LEMMA OneMoves ==
    ASSUME TypeOK, NEW p \in Slots,
           CustomerStarts(p) \/ HandymanStarts(p) \/ Continue(p) \/ Crash(p)
    PROVE  \A q \in Slots \ {p} : call'[q] = call[q]
<1>1. CASE CustomerStarts(p)
  BY <1>1 DEF TypeOK, CustomerStarts, Create, Update, Cancel, DecideApplication,
       ConfirmCompletion, Begin
<1>2. CASE HandymanStarts(p)
  BY <1>2 DEF TypeOK, HandymanStarts, ApplyToRequest, WithdrawApplication,
       StartRequest, CancelAssignedRequest, CompleteRequest, Begin
<1>3. CASE Continue(p)
  BY <1>3 DEF TypeOK, Continue, UpdateWrite, CancelWrite, CancelWhere, Reread, Live, CheckApplication, Decidable,
       AcceptWrite, RejectWrite, ConfirmWrite, FindExisting, RecheckOpen,
       ApplyWrite, WithdrawWrite, StartWrite, CancelAssignedWrite,
       CompleteWrite, Emit, Throw, Return, Goto
<1>4. CASE Crash(p)
  BY <1>4 DEF TypeOK, Crash, Return
<1>. QED  BY <1>1, <1>2, <1>3, <1>4

\* What a handler's own step does to what it keeps.
LEMMA GotoFields ==
    ASSUME TypeOK, NEW p \in Slots, call[p].op # "idle", NEW step \in Steps,
           Goto(p, step)
    PROVE  /\ call'[p].op = call[p].op
           /\ call'[p].step = step
           /\ call'[p].by = call[p].by
           /\ call'[p].req = call[p].req
           /\ call'[p].on = call[p].on
           /\ call'[p].hm = call[p].hm
           /\ call'[p].seen = call[p].seen
<1>1. call[p] \in Call
  BY SlotType
<1>2. call'[p] = [call[p] EXCEPT !.step = step]
  BY DEF TypeOK, Goto
<1>. QED  BY <1>1, <1>2 DEF Call, CallRecord

LEMMA ReturnFields ==
    ASSUME TypeOK, NEW p \in Slots, Return(p)
    PROVE  call'[p].op = "idle"
BY DEF TypeOK, Return, Idle

\* Checks once passed stay passed: no other handler touches what p keeps.
LEMMA CheckedStep ==
    ASSUME TypeOK, Checked, NEW p \in Slots,
           CustomerStarts(p) \/ HandymanStarts(p) \/ Continue(p) \/ Crash(p)
    PROVE  Checked'
<1>. SUFFICES /\ At(p, "acceptApplication", "write")' => call'[p].on = call'[p].req
              /\ At(p, "cancel", "write")' => call'[p].seen \in {"OPEN", "ASSIGNED"}
  BY OneMoves DEF Checked, At
<1>0. CASE call'[p].op = "idle" \/ call'[p].step = "emit"
  BY <1>0 DEF At
<1>1. CASE CustomerStarts(p)
  <2>. PICK u \in Customers, r \in Requests :
         \/ Create(p, u, r)
         \/ Update(p, u, r)
         \/ Cancel(p, u, r)
         \/ \E op \in CustomerOps, o \in Requests, h \in Handymen :
                DecideApplication(p, op, u, r, o, h)
         \/ ConfirmCompletion(p, u, r)
    BY <1>1 DEF CustomerStarts
  <2>1. CASE Create(p, u, r)
    BY <2>1 DEF TypeOK, Create, Begin, CustomerCall, At
  <2>2. CASE Update(p, u, r)
    BY <2>2 DEF TypeOK, Update, Begin, CustomerCall, At
  <2>3. CASE Cancel(p, u, r)
    BY <2>3 DEF TypeOK, Cancel, Begin, CustomerCall, At
  <2>4. CASE \E op \in CustomerOps, o \in Requests, h \in Handymen :
                DecideApplication(p, op, u, r, o, h)
    <3>. PICK op \in CustomerOps, o \in Requests, h \in Handymen :
           DecideApplication(p, op, u, r, o, h)
      BY <2>4
    <3>1. call'[p] = [CustomerCall(op, "application", u, r, h) EXCEPT !.on = o]
      BY DEF DecideApplication, TypeOK, Begin
    <3>2. call'[p].step = "application"
      BY <3>1 DEF CustomerCall
    <3>. QED  BY <3>2 DEF At
  <2>5. CASE ConfirmCompletion(p, u, r)
    BY <2>5 DEF TypeOK, ConfirmCompletion, Begin, CustomerCall, At
  <2>. QED  BY <2>1, <2>2, <2>3, <2>4, <2>5
<1>2. CASE HandymanStarts(p)
  BY <1>2 DEF TypeOK, HandymanStarts, ApplyToRequest, WithdrawApplication,
       StartRequest, CancelAssignedRequest, CompleteRequest, Begin, HandymanCall, At
<1>3. CASE Continue(p)
  <2>. USE DEF Throw
  <2>1. CASE UpdateWrite(p)
    BY <1>0, <2>1, ReturnFields DEF UpdateWrite
  <2>2. CASE CancelWrite(p)
    <3>1. CASE call' = [call EXCEPT ![p].step = "emit", ![p].hm = assigned[call[p].req]]
      <4>1. call[p] \in Call
        BY <2>2, SlotType DEF CancelWrite, CancelWhere, Reread, Live, At
      <4>2. call'[p] = [call[p] EXCEPT !.step = "emit", !.hm = assigned[call[p].req]]
        BY <3>1 DEF TypeOK
      <4>. QED  BY <1>0, <4>1, <4>2 DEF Call, CallRecord
    <3>. QED  BY <1>0, <2>2, <3>1, ReturnFields DEF CancelWrite, CancelWhere, Reread, Live
  <2>3. CASE CheckApplication(p)
    <3>1. CASE call[p].on = call[p].req /\ Goto(p, "write")
      BY <2>3, <3>1, GotoFields DEF CheckApplication, Decidable, At, Steps
    <3>. QED  BY <1>0, <2>3, <3>1, ReturnFields DEF CheckApplication, Decidable
  <2>4. CASE AcceptWrite(p)
    BY <1>0, <2>4, ReturnFields, GotoFields DEF AcceptWrite, AcceptWhere, At, Steps
  <2>5. CASE RejectWrite(p)
    BY <1>0, <2>5, ReturnFields DEF RejectWrite, RejectWhere
  <2>6. CASE ConfirmWrite(p)
    BY <1>0, <2>6, ReturnFields, GotoFields DEF ConfirmWrite, ConfirmWhere, At, Steps
  <2>7. CASE FindExisting(p)
    <3>1. CASE call' = [call EXCEPT ![p].step = "recheck",
                                    ![p].seen = app[call[p].req][call[p].hm]]
      <4>1. call[p] \in Call
        BY <2>7, SlotType DEF FindExisting, At
      <4>2. call'[p] = [call[p] EXCEPT !.step = "recheck",
                                       !.seen = app[call[p].req][call[p].hm]]
        BY <3>1 DEF TypeOK
      <4>. QED  BY <4>1, <4>2 DEF Call, CallRecord, At
    <3>. QED  BY <1>0, <2>7, <3>1, ReturnFields DEF FindExisting
  <2>8. CASE RecheckOpen(p)
    BY <1>0, <2>8, ReturnFields, GotoFields DEF RecheckOpen, At, Steps
  <2>9. CASE ApplyWrite(p)
    BY <1>0, <2>9, ReturnFields DEF ApplyWrite, ApplyWhere
  <2>10. CASE WithdrawWrite(p)
    BY <1>0, <2>10, ReturnFields DEF WithdrawWrite, WithdrawWhere
  <2>11. CASE StartWrite(p)
    BY <1>0, <2>11, ReturnFields DEF StartWrite, StartWhere
  <2>12. CASE CancelAssignedWrite(p)
    BY <1>0, <2>12, ReturnFields, GotoFields DEF CancelAssignedWrite, GiveUp, CancelAssignedWhere, At, Steps
  <2>13. CASE CompleteWrite(p)
    BY <1>0, <2>13, ReturnFields, GotoFields DEF CompleteWrite, CompleteWhere, At, Steps
  <2>14. CASE Emit(p)
    BY <1>0, <2>14, ReturnFields DEF Emit
  <2>. QED
    BY <1>3, <2>1, <2>2, <2>3, <2>4, <2>5, <2>6, <2>7, <2>8, <2>9, <2>10, <2>11,
       <2>12, <2>13, <2>14 DEF Continue
<1>4. CASE Crash(p)
  BY <1>0, <1>4, ReturnFields DEF Crash
<1>. QED  BY <1>1, <1>2, <1>3, <1>4

\* A step that touches neither status, assignee nor applications is harmless.
LEMMA RowsUntouched ==
    ASSUME AssigneeAccepted, ReleasedClean, UNCHANGED <<status, assigned, app>>
    PROVE  AssigneeAccepted' /\ ReleasedClean'
BY DEF AssigneeAccepted, ReleasedClean

\* So is a write to one application that neither takes nor gives an acceptance.
LEMMA OneApplication ==
    ASSUME TypeOK, AssigneeAccepted, ReleasedClean,
           NEW r, NEW h, NEW s, s # "ACCEPTED",
           r \in Requests /\ h \in Handymen => app[r][h] # "ACCEPTED",
           app' = [app EXCEPT ![r][h] = s],
           UNCHANGED <<status, assigned>>
    PROVE  AssigneeAccepted' /\ ReleasedClean'
<1>1. \A q \in Requests, g \in Handymen :
        app'[q][g] = "ACCEPTED" <=> app[q][g] = "ACCEPTED"
  BY DEF TypeOK
<1>. QED  BY <1>1 DEF AssigneeAccepted, ReleasedClean

\* So is a move from one held status to the next.
LEMMA HeldMove ==
    ASSUME TypeOK, AssigneeAccepted, ReleasedClean,
           NEW r \in Requests, status[r] \in Held, NEW s \in Held,
           status' = [status EXCEPT ![r] = s],
           UNCHANGED <<assigned, app>>
    PROVE  AssigneeAccepted' /\ ReleasedClean'
<1>1. \A q \in Requests : status'[q] = IF q = r THEN s ELSE status[q]
  BY DEF TypeOK
<1>. QED  BY <1>1 DEF AssigneeAccepted, ReleasedClean, Held

LEMMA RowsContinue ==
    ASSUME RowsInv, NEW p \in Slots, Continue(p)
    PROVE  AssigneeAccepted' /\ ReleasedClean'
<1>. DEFINE c == call[p]
<1>0. /\ c.op # "idle" => c \in Call
      /\ TypeOK /\ AssigneeAccepted /\ ReleasedClean /\ Checked
  BY SlotType DEF RowsInv
<1>. USE DEF Throw
<1>1. CASE UpdateWrite(p)
  BY <1>0, <1>1, RowsUntouched DEF UpdateWrite
<1>2. CASE CancelWrite(p)
  <2>0. c.req \in Requests
    BY <1>0, <1>2 DEF CancelWrite, CancelWhere, Reread, Live, At, Call, CallRecord
  <2>1. CASE Throw(p)
    BY <1>0, <2>1, RowsUntouched DEF db
  <2>2. CASE ~Throw(p)
    <3>1. /\ status' = [status EXCEPT ![c.req] = "CANCELLED"]
          /\ assigned' = assigned
          /\ app' = [app EXCEPT ![c.req] = [h \in Handymen |->
                        IF app[c.req][h] \in {"PENDING", "ACCEPTED"}
                          THEN "REJECTED" ELSE app[c.req][h]]]
      BY <1>2, <2>2 DEF CancelWrite, CancelWhere, Reread, Live
    <3>2. \A q \in Requests \ {c.req} : status'[q] = status[q] /\ app'[q] = app[q]
      BY <1>0, <3>1 DEF TypeOK
    <3>3. /\ status'[c.req] = "CANCELLED"
          /\ \A h \in Handymen : app'[c.req][h] # "ACCEPTED"
      BY <1>0, <2>0, <3>1 DEF TypeOK
    <3>. QED  BY <1>0, <3>1, <3>2, <3>3 DEF AssigneeAccepted, ReleasedClean, Held
  <2>. QED  BY <2>1, <2>2
<1>3. CASE CheckApplication(p)
  BY <1>0, <1>3, RowsUntouched DEF CheckApplication, Decidable, db
<1>4. CASE AcceptWrite(p)
  <2>0. /\ c.req \in Requests
        /\ c.hm \in Handymen
        /\ c.on = c.req
    BY <1>0, <1>4 DEF AcceptWrite, AcceptWhere, At, Call, CallRecord, CustomerOps, Checked
  <2>1. CASE Throw(p)
    BY <1>0, <2>1, RowsUntouched DEF db
  <2>2. CASE ~Throw(p)
    <3>1. /\ status' = [status EXCEPT ![c.req] = "ASSIGNED"]
          /\ assigned' = [assigned EXCEPT ![c.req] = c.hm]
          /\ app' = [r \in Requests |-> [h \in Handymen |->
                        CASE r = c.on /\ h = c.hm -> "ACCEPTED"
                          [] r = c.req /\ ~(r = c.on /\ h = c.hm)
                               /\ app[r][h] = "PENDING" -> "REJECTED"
                          [] OTHER -> app[r][h]]]
      BY <1>4, <2>2 DEF AcceptWrite, AcceptWhere
    <3>2. \A q \in Requests \ {c.req} :
            /\ status'[q] = status[q]
            /\ assigned'[q] = assigned[q]
            /\ \A h \in Handymen : app'[q][h] = app[q][h]
      BY <1>0, <2>0, <3>1 DEF TypeOK
    <3>3. /\ status'[c.req] = "ASSIGNED"
          /\ assigned'[c.req] = c.hm
          /\ app'[c.req][c.hm] = "ACCEPTED"
      BY <1>0, <2>0, <3>1 DEF TypeOK
    <3>. QED
      BY <1>0, <2>0, <3>2, <3>3 DEF AssigneeAccepted, ReleasedClean, Held
  <2>. QED  BY <2>1, <2>2
<1>5. CASE RejectWrite(p)
  BY <1>0, <1>5, RowsUntouched, OneApplication DEF RejectWrite, RejectWhere, db
<1>6. CASE ConfirmWrite(p)
  <2>1. c.req \in Requests
    BY <1>0, <1>6 DEF ConfirmWrite, ConfirmWhere, At, Call, CallRecord
  <2>. QED
    BY <1>0, <1>6, <2>1, RowsUntouched, HeldMove DEF ConfirmWrite, ConfirmWhere, Held, db
<1>7. CASE FindExisting(p)
  BY <1>0, <1>7, RowsUntouched DEF FindExisting, db
<1>8. CASE RecheckOpen(p)
  BY <1>0, <1>8, RowsUntouched DEF RecheckOpen, db
<1>9. CASE ApplyWrite(p)
  <2>1. CASE Throw(p)
    BY <1>0, <2>1, RowsUntouched DEF db
  <2>2. CASE ~Throw(p)
    <3>1. /\ app[c.req][c.hm] # "ACCEPTED"
          /\ app' = [app EXCEPT ![c.req][c.hm] = "PENDING"]
          /\ UNCHANGED <<status, assigned>>
      BY <1>9, <2>2 DEF ApplyWrite, ApplyWhere
    <3>. HIDE DEF c
    <3>. QED  BY <1>0, <3>1, OneApplication
  <2>. QED  BY <2>1, <2>2
<1>10. CASE WithdrawWrite(p)
  BY <1>0, <1>10, RowsUntouched, OneApplication DEF WithdrawWrite, WithdrawWhere, db
<1>11. CASE StartWrite(p)
  <2>1. c.req \in Requests
    BY <1>0, <1>11 DEF StartWrite, StartWhere, At, Call, CallRecord
  <2>. QED
    BY <1>0, <1>11, <2>1, RowsUntouched, HeldMove DEF StartWrite, StartWhere, Held, db
<1>12. CASE CancelAssignedWrite(p)
  <2>0. c.req \in Requests /\ c.hm \in Handymen
    BY <1>0, <1>12 DEF CancelAssignedWrite, GiveUp, CancelAssignedWhere, At, Call, CallRecord, HandymanOps
  <2>1. CASE Throw(p)
    BY <1>0, <2>1, RowsUntouched DEF db
  <2>2. CASE ~Throw(p)
    <3>1. /\ status' = [status EXCEPT ![c.req] = "OPEN"]
          /\ assigned' = [assigned EXCEPT ![c.req] = None]
          /\ app' = [app EXCEPT ![c.req][c.hm] =
                        IF app[c.req][c.hm] = "ACCEPTED"
                          THEN "WITHDRAWN" ELSE app[c.req][c.hm]]
      BY <1>12, <2>2 DEF CancelAssignedWrite, GiveUp, CancelAssignedWhere
    <3>2. \A q \in Requests \ {c.req} :
            /\ status'[q] = status[q]
            /\ assigned'[q] = assigned[q]
            /\ app'[q] = app[q]
      BY <1>0, <2>0, <3>1 DEF TypeOK
    <3>3. status'[c.req] = "OPEN" /\ assigned'[c.req] = None
      BY <1>0, <2>0, <3>1 DEF TypeOK
    <3>. QED  BY <1>0, <3>2, <3>3 DEF AssigneeAccepted, ReleasedClean, Held
  <2>. QED  BY <2>1, <2>2
<1>13. CASE CompleteWrite(p)
  <2>1. c.req \in Requests
    BY <1>0, <1>13 DEF CompleteWrite, CompleteWhere, At, Call, CallRecord
  <2>. QED
    BY <1>0, <1>13, <2>1, RowsUntouched, HeldMove DEF CompleteWrite, CompleteWhere, Held, db
<1>14. CASE Emit(p)
  BY <1>0, <1>14, RowsUntouched DEF Emit, db
<1>. QED
  BY <1>1, <1>2, <1>3, <1>4, <1>5, <1>6, <1>7, <1>8, <1>9, <1>10, <1>11, <1>12,
     <1>13, <1>14 DEF Continue

\* Only create, of the handlers that start, writes a row in its first step.
LEMMA RowsStarts ==
    ASSUME RowsInv, NEW p \in Slots, CustomerStarts(p) \/ HandymanStarts(p)
    PROVE  AssigneeAccepted' /\ ReleasedClean'
<1>0. TypeOK /\ AssigneeAccepted /\ ReleasedClean
  BY DEF RowsInv
<1>1. CASE \E u \in Customers, r \in Requests : Create(p, u, r)
  <2>. PICK u \in Customers, r \in Requests : Create(p, u, r)
    BY <1>1
  <2>1. \A q \in Requests : status'[q] = IF q = r THEN "OPEN" ELSE status[q]
    BY <1>0 DEF Create, TypeOK
  <2>2. status[r] = "NONE" /\ assigned' = assigned /\ app' = app
    BY DEF Create
  <2>. QED  BY <1>0, <2>1, <2>2 DEF AssigneeAccepted, ReleasedClean, Held
<1>2. CASE UNCHANGED db
  BY <1>0, <1>2, RowsUntouched DEF db
<1>3. CASE CustomerStarts(p)
  BY <1>1, <1>2, <1>3 DEF CustomerStarts, Update, Cancel, DecideApplication,
     ConfirmCompletion
<1>4. CASE HandymanStarts(p)
  BY <1>2, <1>4 DEF HandymanStarts, ApplyToRequest, WithdrawApplication,
     StartRequest, CancelAssignedRequest, CompleteRequest
<1>. QED  BY <1>3, <1>4

LEMMA RowsInit == Init => RowsInv
BY TypeInit DEF Init, RowsInv, AssigneeAccepted, ReleasedClean, Checked, Held, At, Idle

LEMMA RowsStep == RowsInv /\ [Next]_vars => RowsInv'
<1>. SUFFICES ASSUME RowsInv, [Next]_vars PROVE RowsInv'
  OBVIOUS
<1>1. TypeOK'
  BY TypeStep DEF RowsInv
<1>2. CASE UNCHANGED vars
  BY <1>1, <1>2 DEF RowsInv, AssigneeAccepted, ReleasedClean, Checked, At, vars
<1>3. CASE Next
  <2>. PICK p \in Slots :
         CustomerStarts(p) \/ HandymanStarts(p) \/ Continue(p) \/ Crash(p)
    BY <1>3 DEF Next
  <2>1. Checked'
    BY CheckedStep DEF RowsInv
  <2>2. AssigneeAccepted' /\ ReleasedClean'
    BY RowsStarts, RowsContinue, RowsUntouched DEF RowsInv, Crash, db
  <2>. QED  BY <1>1, <2>1, <2>2 DEF RowsInv
<1>. QED  BY <1>2, <1>3

\* Under any interleaving of any number of handlers, crashes included, a request
\* that is held names a handyman whose application is ACCEPTED.
THEOREM AssigneeAcceptedAlways == Spec => []AssigneeAccepted
<1>1. RowsInv => AssigneeAccepted
  BY DEF RowsInv
<1>. QED  BY <1>1, RowsInit, RowsStep, PTL DEF Spec

\* Likewise, an OPEN request names no handyman and a CANCELLED one has no
\* ACCEPTED application.
THEOREM ReleasedCleanAlways == Spec => []ReleasedClean
<1>1. RowsInv => ReleasedClean
  BY DEF RowsInv
<1>. QED  BY <1>1, RowsInit, RowsStep, PTL DEF Spec

----------------------------------------------------------------------------
(* The life cycle: NeverReopened, HandlersSound, EventsTruthful and         *)
(* CompletedAtMostOnce.                                                     *)

\* What any step may do to a request that is past ASSIGNED.
Forward ==
    \A r \in Requests :
        /\ status[r] = "IN_PROGRESS" =>
               status'[r] \in {"IN_PROGRESS", "AWAITING_CONFIRMATION"}
        /\ status[r] = "AWAITING_CONFIRMATION" =>
               status'[r] \in {"AWAITING_CONFIRMATION", "COMPLETED"}
        /\ status[r] \in {"COMPLETED", "CANCELLED"} => status'[r] = status[r]
        /\ status[r] \in (Held \ {"ASSIGNED"}) \cup {"CANCELLED"} =>
               assigned'[r] = assigned[r]

\* A step that moves one request, from a status it may leave that way.
LEMMA ForwardMove ==
    ASSUME TypeOK, NEW r \in Requests, NEW s,
           status' = [status EXCEPT ![r] = s],
           \/ status[r] \in {"NONE", "OPEN", "ASSIGNED"}
           \/ status[r] = "IN_PROGRESS" /\ s = "AWAITING_CONFIRMATION"
           \/ status[r] = "AWAITING_CONFIRMATION" /\ s = "COMPLETED",
           \/ assigned' = assigned
           \/ /\ status[r] \in {"OPEN", "ASSIGNED"}
              /\ \E h : assigned' = [assigned EXCEPT ![r] = h]
    PROVE  Forward
<1>1. \A q \in Requests : status'[q] = IF q = r THEN s ELSE status[q]
  BY DEF TypeOK
<1>2. \A q \in Requests \ {r} : assigned'[q] = assigned[q]
  BY DEF TypeOK
<1>. QED  BY <1>1, <1>2 DEF Forward, Held

LEMMA ForwardStay ==
    ASSUME UNCHANGED <<status, assigned>> PROVE Forward
BY DEF Forward

LEMMA ForwardStep ==
    ASSUME RowsInv, [Next]_vars PROVE Forward
<1>0. TypeOK /\ Checked
  BY DEF RowsInv
<1>1. CASE UNCHANGED vars
  BY <1>1, ForwardStay DEF vars
<1>2. ASSUME NEW p \in Slots, CustomerStarts(p) PROVE Forward
  <2>1. ASSUME NEW u \in Customers, NEW r \in Requests, Create(p, u, r)
        PROVE  Forward
    BY <1>0, <2>1, ForwardMove DEF Create
  <2>2. CASE UNCHANGED db
    BY <2>2, ForwardStay DEF db
  <2>. QED
    BY <1>2, <2>1, <2>2 DEF CustomerStarts, Update, Cancel, DecideApplication,
       ConfirmCompletion
<1>3. ASSUME NEW p \in Slots, HandymanStarts(p) PROVE Forward
  <2>1. UNCHANGED db
    BY <1>3 DEF HandymanStarts, ApplyToRequest, WithdrawApplication,
       StartRequest, CancelAssignedRequest, CompleteRequest
  <2>. QED  BY <2>1, ForwardStay DEF db
<1>4. ASSUME NEW p \in Slots, Crash(p) PROVE Forward
  BY <1>4, ForwardStay DEF Crash, db
<1>5. ASSUME NEW p \in Slots, Continue(p) PROVE Forward
  <2>. DEFINE c == call[p]
  <2>0. c.op # "idle" => c.req \in Requests
    BY <1>0, SlotType DEF Call, CallRecord
  <2>1. CASE UNCHANGED <<status, assigned>>
    BY <2>1, ForwardStay
  <2>2. CASE CancelWrite(p) /\ ~Throw(p)
    <3>1. status[c.req] \in {"OPEN", "ASSIGNED"}
      BY <1>0, <2>2 DEF CancelWrite, CancelWhere, Checked
    <3>. QED
      BY <1>0, <2>0, <2>2, <3>1, ForwardMove DEF CancelWrite, At
  <2>3. CASE AcceptWrite(p) /\ ~Throw(p)
    <3>1. /\ c.op # "idle"
          /\ status[c.req] = "OPEN"
          /\ status' = [status EXCEPT ![c.req] = "ASSIGNED"]
          /\ assigned' = [assigned EXCEPT ![c.req] = c.hm]
      BY <2>3 DEF AcceptWrite, AcceptWhere, At
    <3>. HIDE DEF c
    <3>. QED  BY <1>0, <2>0, <3>1, ForwardMove
  <2>4. CASE ConfirmWrite(p) /\ ~Throw(p)
    BY <1>0, <2>0, <2>4, ForwardMove DEF ConfirmWrite, ConfirmWhere, At
  <2>5. CASE StartWrite(p) /\ ~Throw(p)
    BY <1>0, <2>0, <2>5, ForwardMove DEF StartWrite, StartWhere, At
  <2>6. CASE CancelAssignedWrite(p) /\ ~Throw(p)
    BY <1>0, <2>0, <2>6, ForwardMove DEF CancelAssignedWrite,
       CancelAssignedWhere, At
  <2>7. CASE CompleteWrite(p) /\ ~Throw(p)
    BY <1>0, <2>0, <2>7, ForwardMove DEF CompleteWrite, CompleteWhere, At
  <2>8. Throw(p) => UNCHANGED <<status, assigned>>
    BY DEF Throw, db
  <2>9. UpdateWrite(p) \/ CheckApplication(p) \/ RejectWrite(p) \/ FindExisting(p)
          \/ RecheckOpen(p) \/ ApplyWrite(p) \/ WithdrawWrite(p) \/ Emit(p)
        => UNCHANGED <<status, assigned>>
    BY <2>8 DEF UpdateWrite, CheckApplication, RejectWrite, FindExisting,
       RecheckOpen, ApplyWrite, WithdrawWrite, Emit, db
  <2>10. \/ UNCHANGED <<status, assigned>>
         \/ /\ ~Throw(p)
            /\ \/ CancelWrite(p) \/ AcceptWrite(p) \/ ConfirmWrite(p)
               \/ StartWrite(p) \/ CancelAssignedWrite(p) \/ CompleteWrite(p)
    BY <1>5, <2>8, <2>9 DEF Continue
  <2>. QED
    BY <2>1, <2>2, <2>3, <2>4, <2>5, <2>6, <2>7, <2>10
<1>. QED  BY <1>1, <1>2, <1>3, <1>4, <1>5 DEF Next

\* A COMPLETED or CANCELLED request never changes status, and from IN_PROGRESS on
\* the job stays with its handyman, in every behaviour.
THEOREM NeverReopenedAlways == Spec => NeverReopened
<1>1. RowsInv /\ [Next]_vars =>
        [\A r \in Requests :
            /\ status[r] \in {"COMPLETED", "CANCELLED"} => status'[r] = status[r]
            /\ status[r] \in Held \ {"ASSIGNED"} => assigned'[r] = assigned[r]
        ]_vars
  BY ForwardStep DEF Forward
<1>. QED  BY <1>1, RowsInit, RowsStep, PTL DEF Spec, NeverReopened

\* The two record updates that change more than the step.
LEMMA RecordFields ==
    ASSUME NEW c \in CallRecord, NEW step, NEW x
    PROVE  /\ [c EXCEPT !.step = step, !.hm = x].op = c.op
           /\ [c EXCEPT !.step = step, !.hm = x].step = step
           /\ [c EXCEPT !.step = step, !.hm = x].req = c.req
           /\ [c EXCEPT !.step = step, !.hm = x].hm = x
           /\ [c EXCEPT !.step = step, !.seen = x].op = c.op
BY DEF CallRecord

\* A handler p that has not moved stays sound, whatever the step did.
LEMMA SoundStays ==
    ASSUME TypeOK, Forward, NEW p \in Slots, Sound(p), call'[p] = call[p]
    PROVE  Sound(p)'
<1>1. call[p].op # "idle" => call[p].req \in Requests
  BY SlotType DEF Call, CallRecord
<1>. QED  BY <1>1 DEF Sound, At, Forward, Held

\* A handler that starts, or moves, is sound where it arrives.
LEMMA SoundArrives ==
    ASSUME TypeOK, Forward, NEW p \in Slots, Sound(p),
           CustomerStarts(p) \/ HandymanStarts(p) \/ Continue(p) \/ Crash(p)
    PROVE  Sound(p)'
<1>. DEFINE c == call[p]
<1>0. c.op # "idle" => c \in Call /\ c.req \in Requests
  BY SlotType DEF Call, CallRecord
<1>1. CASE call'[p].op = "idle"
  BY <1>1 DEF Sound, At
<1>2. CASE CustomerStarts(p)
  <2>. PICK u \in Customers, r \in Requests :
         \/ Create(p, u, r)
         \/ Update(p, u, r)
         \/ Cancel(p, u, r)
         \/ \E op \in CustomerOps, o \in Requests, h \in Handymen :
                DecideApplication(p, op, u, r, o, h)
         \/ ConfirmCompletion(p, u, r)
    BY <1>2 DEF CustomerStarts
  <2>1. CASE Create(p, u, r)
    BY <2>1 DEF TypeOK, Create, Begin, CustomerCall, Sound, At
  <2>2. CASE Update(p, u, r)
    BY <2>2 DEF TypeOK, Update, Begin, CustomerCall, Sound, At
  <2>3. CASE Cancel(p, u, r)
    BY <2>3 DEF TypeOK, Cancel, Begin, CustomerCall, Sound, At
  <2>4. CASE \E op \in CustomerOps, o \in Requests, h \in Handymen :
                DecideApplication(p, op, u, r, o, h)
    <3>. PICK op \in CustomerOps, o \in Requests, h \in Handymen :
           DecideApplication(p, op, u, r, o, h)
      BY <2>4
    <3>1. call'[p] = [CustomerCall(op, "application", u, r, h) EXCEPT !.on = o]
      BY DEF DecideApplication, TypeOK, Begin
    <3>2. call'[p].step = "application"
      BY <3>1 DEF CustomerCall
    <3>. QED  BY <3>2 DEF Sound, At
  <2>5. CASE ConfirmCompletion(p, u, r)
    <3>1. /\ call'[p] = CustomerCall("confirmCompletion", "write", u, r, assigned[r])
          /\ status'[r] = "AWAITING_CONFIRMATION"
          /\ assigned'[r] = assigned[r]
      BY <2>5 DEF TypeOK, ConfirmCompletion, Begin, db
    <3>. QED  BY <3>1 DEF CustomerCall, Sound, At
  <2>. QED  BY <2>1, <2>2, <2>3, <2>4, <2>5
<1>3. CASE HandymanStarts(p)
  <2>. PICK h \in Handymen, r \in Requests :
         \/ ApplyToRequest(p, h, r)
         \/ WithdrawApplication(p, h, r)
         \/ StartRequest(p, h, r)
         \/ CancelAssignedRequest(p, h, r)
         \/ CompleteRequest(p, h, r)
    BY <1>3 DEF HandymanStarts
  <2>1. CASE CompleteRequest(p, h, r)
    <3>1. /\ call'[p] = HandymanCall("completeRequest", "write", h, r, status[r])
          /\ status'[r] = "IN_PROGRESS"
          /\ assigned'[r] = h
      BY <2>1 DEF TypeOK, CompleteRequest, IsAssignee, Begin, db
    <3>. QED  BY <3>1 DEF HandymanCall, Sound, At, Held
  <2>2. call'[p].op \in {"applyToRequest", "withdrawApplication", "startRequest",
                         "cancelAssignedRequest"} \/ CompleteRequest(p, h, r)
    BY DEF TypeOK, ApplyToRequest, WithdrawApplication, StartRequest,
       CancelAssignedRequest, Begin, HandymanCall
  <2>. QED  BY <2>1, <2>2 DEF Sound, At
<1>4. CASE Continue(p)
  <2>. USE DEF Throw
  <2>1. CASE UpdateWrite(p)
    BY <1>1, <2>1, ReturnFields DEF UpdateWrite
  <2>2. CASE CancelWrite(p)
    <3>1. CASE ~Throw(p)
      <4>1. /\ c \in Call
            /\ c.op = "cancel"
            /\ c.req \in Requests
            /\ status' = [status EXCEPT ![c.req] = "CANCELLED"]
            /\ assigned' = assigned
            /\ call' = [call EXCEPT ![p].step = "emit", ![p].hm = assigned[c.req]]
        BY <1>0, <2>2, <3>1 DEF CancelWrite, Reread, At
      <4>2. call'[p] = [call[p] EXCEPT !.step = "emit", !.hm = assigned[c.req]]
        BY <4>1 DEF TypeOK
      <4>3. /\ call'[p].op = "cancel"
            /\ call'[p].step = "emit"
            /\ call'[p].req = c.req
            /\ call'[p].hm = assigned[c.req]
        <5>1. call[p] \in CallRecord
          BY <4>1 DEF Call
        <5>2. c = call[p]
          OBVIOUS
        <5>3. call[p].op = "cancel"
          BY <4>1
        <5>. HIDE DEF c
        <5>. QED  BY <4>2, <5>1, <5>2, <5>3, RecordFields
      <4>4. status'[c.req] = "CANCELLED"
        BY <4>1 DEF TypeOK
      <4>. QED  BY <4>1, <4>3, <4>4 DEF Sound, At
    <3>. QED  BY <1>1, <3>1, ReturnFields
  <2>3. CASE CheckApplication(p)
    <3>1. CASE Decidable(c) /\ Goto(p, "write")
      BY <2>3, <3>1, GotoFields DEF CheckApplication, Decidable, At, Steps, Sound
    <3>. QED  BY <1>1, <2>3, <3>1, ReturnFields DEF CheckApplication
  <2>4. CASE AcceptWrite(p)
    BY <1>1, <2>4, ReturnFields, GotoFields DEF AcceptWrite, At, Steps, Sound
  <2>5. CASE RejectWrite(p)
    BY <1>1, <2>5, ReturnFields DEF RejectWrite
  <2>6. CASE ConfirmWrite(p)
    <3>1. CASE ~Throw(p)
      <4>1. /\ c.op = "confirmCompletion" /\ c.step = "write"
            /\ c.req \in Requests
            /\ status' = [status EXCEPT ![c.req] = "COMPLETED"]
            /\ assigned' = assigned
            /\ Goto(p, "emit")
        BY <1>0, <2>6, <3>1 DEF ConfirmWrite, At
      <4>2. status'[c.req] = "COMPLETED"
        BY <4>1 DEF TypeOK
      <4>3. /\ call'[p].op = "confirmCompletion"
            /\ call'[p].step = "emit"
            /\ call'[p].req = c.req
            /\ call'[p].hm = c.hm
        <5>1. call[p].op # "idle" /\ "emit" \in Steps
          BY <4>1 DEF Steps
        <5>. QED  BY <4>1, <5>1, GotoFields
      <4>4. assigned[c.req] = c.hm
        BY <4>1 DEF Sound, At
      <4>. QED  BY <4>1, <4>2, <4>3, <4>4 DEF Sound, At
    <3>. QED  BY <1>1, <3>1, ReturnFields
  <2>7. CASE FindExisting(p)
    <3>1. CASE ~Throw(p)
      <4>1. /\ c \in Call
            /\ c.op = "applyToRequest"
            /\ call' = [call EXCEPT ![p].step = "recheck",
                                    ![p].seen = app[c.req][c.hm]]
        BY <1>0, <2>7, <3>1 DEF FindExisting, At
      <4>2. call'[p] = [call[p] EXCEPT !.step = "recheck",
                                       !.seen = app[c.req][c.hm]]
        BY <4>1 DEF TypeOK
      <4>3. call'[p].op = "applyToRequest"
        <5>1. call[p] \in CallRecord
          BY <4>1 DEF Call
        <5>2. c = call[p]
          OBVIOUS
        <5>3. call[p].op = "applyToRequest"
          BY <4>1
        <5>. HIDE DEF c
        <5>. QED  BY <4>2, <5>1, <5>2, <5>3, RecordFields
      <4>. QED  BY <4>3 DEF Sound, At
    <3>. QED  BY <1>1, <3>1, ReturnFields
  <2>8. CASE RecheckOpen(p)
    BY <1>1, <2>8, ReturnFields, GotoFields DEF RecheckOpen, At, Steps, Sound
  <2>9. CASE ApplyWrite(p)
    BY <1>1, <2>9, ReturnFields DEF ApplyWrite
  <2>10. CASE WithdrawWrite(p)
    BY <1>1, <2>10, ReturnFields DEF WithdrawWrite
  <2>11. CASE StartWrite(p)
    BY <1>1, <2>11, ReturnFields DEF StartWrite
  <2>12. CASE CancelAssignedWrite(p)
    BY <1>1, <2>12, ReturnFields, GotoFields DEF CancelAssignedWrite, At, Steps, Sound
  <2>13. CASE CompleteWrite(p)
    <3>1. CASE ~Throw(p)
      <4>1. /\ c.op = "completeRequest" /\ c.step = "write"
            /\ c.req \in Requests
            /\ status' = [status EXCEPT ![c.req] = "AWAITING_CONFIRMATION"]
            /\ assigned' = assigned
            /\ Goto(p, "emit")
        BY <1>0, <2>13, <3>1 DEF CompleteWrite, At
      <4>2. status'[c.req] = "AWAITING_CONFIRMATION"
        BY <4>1 DEF TypeOK
      <4>3. /\ call'[p].op = "completeRequest"
            /\ call'[p].step = "emit"
            /\ call'[p].req = c.req
            /\ call'[p].hm = c.hm
        <5>1. call[p].op # "idle" /\ "emit" \in Steps
          BY <4>1 DEF Steps
        <5>. QED  BY <4>1, <5>1, GotoFields
      <4>4. assigned[c.req] = c.hm
        BY <4>1 DEF Sound, At
      <4>. QED  BY <4>1, <4>2, <4>3, <4>4 DEF Sound, At
    <3>. QED  BY <1>1, <3>1, ReturnFields
  <2>14. CASE Emit(p)
    BY <1>1, <2>14, ReturnFields DEF Emit
  <2>. QED
    BY <1>4, <2>1, <2>2, <2>3, <2>4, <2>5, <2>6, <2>7, <2>8, <2>9, <2>10, <2>11,
       <2>12, <2>13, <2>14 DEF Continue
<1>5. CASE Crash(p)
  BY <1>1, <1>5, ReturnFields DEF Crash
<1>. QED  BY <1>2, <1>3, <1>4, <1>5

Told == \A e \in events : Truthful(e)

LifeInv == RowsInv /\ HandlersSound /\ Told /\ CompletedAtMostOnce

LEMMA SoundStep ==
    ASSUME RowsInv, HandlersSound, [Next]_vars
    PROVE  HandlersSound'
<1>0. TypeOK /\ Forward
  BY ForwardStep DEF RowsInv
<1>1. CASE UNCHANGED vars
  BY <1>1 DEF HandlersSound, Sound, At, vars
<1>2. CASE Next
  <2>. PICK p \in Slots :
         CustomerStarts(p) \/ HandymanStarts(p) \/ Continue(p) \/ Crash(p)
    BY <1>2 DEF Next
  <2>1. \A q \in Slots : Sound(q)
    BY DEF HandlersSound
  <2>2. Sound(p)'
    BY <1>0, <2>1, SoundArrives
  <2>3. ASSUME NEW q \in Slots \ {p} PROVE Sound(q)'
    <3>1. call'[q] = call[q]
      BY <1>0, OneMoves
    <3>. QED  BY <1>0, <2>1, <3>1, SoundStays
  <2>. QED  BY <2>2, <2>3 DEF HandlersSound
<1>. QED  BY <1>1, <1>2

\* Only emitting adds an event, and it adds the handler's own.
LEMMA EventsStep ==
    ASSUME [Next]_vars
    PROVE  \/ events' = events
           \/ \E p \in Slots : Emit(p)
<1>1. CASE UNCHANGED vars
  BY <1>1 DEF vars
<1>2. ASSUME NEW p \in Slots, CustomerStarts(p) PROVE events' = events
  BY <1>2 DEF CustomerStarts, Create, Update, Cancel, DecideApplication,
     ConfirmCompletion
<1>3. ASSUME NEW p \in Slots, HandymanStarts(p) PROVE events' = events
  BY <1>3 DEF HandymanStarts, ApplyToRequest, WithdrawApplication, StartRequest,
     CancelAssignedRequest, CompleteRequest
<1>4. ASSUME NEW p \in Slots, Continue(p), ~Emit(p) PROVE events' = events
  BY <1>4 DEF Continue, UpdateWrite, CancelWrite, CheckApplication, AcceptWrite,
     RejectWrite, ConfirmWrite, FindExisting, RecheckOpen, ApplyWrite,
     WithdrawWrite, StartWrite, CancelAssignedWrite, CompleteWrite
<1>5. ASSUME NEW p \in Slots, Crash(p) PROVE events' = events
  BY <1>5 DEF Crash
<1>. QED  BY <1>1, <1>2, <1>3, <1>4, <1>5 DEF Next

\* A sound handler about to emit has a truthful event, and only
\* confirmCompletion has a COMPLETED one.
LEMMA EmitterTruthful ==
    ASSUME TypeOK, NEW p \in Slots, Sound(p), Running(p), call[p].step = "emit"
    PROVE  /\ EventFor(call[p]) \in Event
           /\ Truthful(EventFor(call[p]))
           /\ EventFor(call[p]).type = "COMPLETED" =>
                  call[p].op = "confirmCompletion"
<1>1. call[p] \in Call
  BY SlotType DEF Running
<1>2. call[p].op \in DOMAIN EventOf
  BY <1>1 DEF Call
<1>3. EventFor(call[p]) \in Event
  BY <1>1, <1>2 DEF EventFor, Event, Call, CallRecord, EventOf
<1>4. /\ EventFor(call[p]).type = EventOf[call[p].op]
      /\ EventFor(call[p]).req = call[p].req
      /\ EventFor(call[p]).hm = call[p].hm
  BY DEF EventFor
<1>5. /\ EventOf[call[p].op] = "COMPLETION_SUBMITTED" => call[p].op = "completeRequest"
      /\ EventOf[call[p].op] = "COMPLETED" => call[p].op = "confirmCompletion"
      /\ EventOf[call[p].op] = "CANCELLED" => call[p].op = "cancel"
  BY <1>2 DEF EventOf
<1>6. Truthful(EventFor(call[p]))
  BY <1>4, <1>5 DEF Truthful, Sound, At
<1>. QED  BY <1>3, <1>4, <1>5, <1>6

\* A truthful event of the model stays truthful.
LEMMA TruthfulStays ==
    ASSUME Forward, NEW e \in Event, Truthful(e)
    PROVE  Truthful(e)'
<1>1. e.req \in Requests
  BY DEF Event
<1>. QED  BY <1>1 DEF Truthful, Forward, Held

LEMMA ToldStep ==
    ASSUME RowsInv, HandlersSound, Told, [Next]_vars
    PROVE  Told'
<1>0. TypeOK /\ Forward
  BY ForwardStep DEF RowsInv
<1>1. ASSUME NEW e \in events PROVE Truthful(e)'
  BY <1>0, <1>1, TruthfulStays DEF Told, TypeOK
<1>2. CASE events' = events
  BY <1>1, <1>2 DEF Told
<1>3. CASE \E p \in Slots : Emit(p)
  <2>. PICK p \in Slots : Emit(p)
    BY <1>3
  <2>1. /\ Running(p) /\ call[p].step = "emit"
        /\ events' = events \cup {EventFor(call[p])}
        /\ Sound(p)
    BY DEF Emit, HandlersSound
  <2>2. EventFor(call[p]) \in Event /\ Truthful(EventFor(call[p]))
    BY <1>0, <2>1, EmitterTruthful
  <2>3. ASSUME NEW e, e = EventFor(call[p]) PROVE Truthful(e)'
    BY <1>0, <2>2, <2>3, TruthfulStays
  <2>. QED  BY <1>1, <2>1, <2>3 DEF Told
<1>. QED  BY <1>2, <1>3, EventsStep

\* A handler's operation never changes while it runs.
LEMMA SameOp ==
    ASSUME TypeOK, NEW p \in Slots, Continue(p)
    PROVE  call'[p].op = call[p].op \/ call'[p].op = "idle"
<1>0. call[p].op # "idle" => call[p] \in CallRecord
  BY SlotType DEF Call
<1>1. CASE CancelWrite(p) /\ ~Throw(p)
  <2>1. /\ call[p] \in CallRecord
        /\ call'[p] = [call[p] EXCEPT !.step = "emit", !.hm = Reread(call[p])]
    BY <1>0, <1>1 DEF CancelWrite, At, TypeOK
  <2>. QED  BY <2>1, RecordFields
<1>2. CASE FindExisting(p) /\ ~Throw(p)
  <2>1. /\ call[p] \in CallRecord
        /\ call'[p] = [call[p] EXCEPT !.step = "recheck",
                                      !.seen = app[call[p].req][call[p].hm]]
    BY <1>0, <1>2 DEF FindExisting, At, TypeOK
  <2>. QED  BY <2>1, RecordFields
<1>3. CASE \E step \in Steps : call[p].op # "idle" /\ Goto(p, step)
  BY <1>3, GotoFields
<1>4. CASE Return(p)
  BY <1>4, ReturnFields
<1>5. \/ CancelWrite(p) /\ ~Throw(p)
      \/ FindExisting(p) /\ ~Throw(p)
      \/ Return(p)
      \/ call[p].op # "idle" /\ (Goto(p, "write") \/ Goto(p, "emit"))
  <2>1. UpdateWrite(p) \/ RejectWrite(p) \/ ApplyWrite(p) \/ WithdrawWrite(p)
          \/ StartWrite(p) \/ Emit(p) => Return(p)
    BY DEF UpdateWrite, RejectWrite, ApplyWrite, WithdrawWrite, StartWrite, Emit, Throw
  <2>2. CheckApplication(p) \/ AcceptWrite(p) \/ ConfirmWrite(p) \/ RecheckOpen(p)
          \/ CancelAssignedWrite(p) \/ CompleteWrite(p)
        => \/ Return(p)
           \/ call[p].op # "idle" /\ (Goto(p, "write") \/ Goto(p, "emit"))
    BY DEF CheckApplication, AcceptWrite, ConfirmWrite, RecheckOpen,
       CancelAssignedWrite, CompleteWrite, At, Throw
  <2>. QED  BY <2>1, <2>2 DEF Continue, Throw
<1>. QED  BY <1>1, <1>2, <1>3, <1>4, <1>5 DEF Steps

\* The only way to be about to announce COMPLETED is to have just completed.
LEMMA ConfirmArrives ==
    ASSUME TypeOK, NEW p \in Slots,
           CustomerStarts(p) \/ HandymanStarts(p) \/ Continue(p) \/ Crash(p),
           At(p, "confirmCompletion", "emit")'
    PROVE  /\ events' = events
           /\ call'[p].req = call[p].req
           /\ call'[p].hm = call[p].hm
           /\ call[p].req \in Requests
           /\ status[call[p].req] = "AWAITING_CONFIRMATION"
<1>0. call'[p].op = "confirmCompletion" /\ call'[p].step = "emit"
  BY DEF At
<1>1. ~HandymanStarts(p)
  BY <1>0 DEF TypeOK, HandymanStarts, ApplyToRequest, WithdrawApplication,
     StartRequest, CancelAssignedRequest, CompleteRequest, Begin, HandymanCall
<1>2. ~CustomerStarts(p)
  <2>. SUFFICES ASSUME CustomerStarts(p) PROVE FALSE
    OBVIOUS
  <2>. PICK u \in Customers, r \in Requests :
         \/ Create(p, u, r)
         \/ Update(p, u, r)
         \/ Cancel(p, u, r)
         \/ \E op \in CustomerOps, o \in Requests, h \in Handymen :
                DecideApplication(p, op, u, r, o, h)
         \/ ConfirmCompletion(p, u, r)
    BY DEF CustomerStarts
  <2>1. CASE Create(p, u, r) \/ Update(p, u, r) \/ Cancel(p, u, r)
                \/ ConfirmCompletion(p, u, r)
    BY <1>0, <2>1 DEF TypeOK, Create, Update, Cancel, ConfirmCompletion, Begin,
       CustomerCall
  <2>2. CASE \E op \in CustomerOps, o \in Requests, h \in Handymen :
                DecideApplication(p, op, u, r, o, h)
    <3>. PICK op \in CustomerOps, o \in Requests, h \in Handymen :
           DecideApplication(p, op, u, r, o, h)
      BY <2>2
    <3>1. call'[p] = [CustomerCall(op, "application", u, r, h) EXCEPT !.on = o]
      BY DEF DecideApplication, TypeOK, Begin
    <3>2. call'[p].step = "application"
      BY <3>1 DEF CustomerCall
    <3>. QED  BY <1>0, <3>2
  <2>. QED  BY <2>1, <2>2
<1>3. ~Return(p)
  BY <1>0, ReturnFields
<1>4. Continue(p)
  BY <1>1, <1>2, <1>3 DEF Crash
<1>5. call[p].op = "confirmCompletion"
  BY <1>0, <1>4, SameOp
<1>6. ConfirmWrite(p) /\ ~Throw(p)
  BY <1>3, <1>4, <1>5 DEF Continue, UpdateWrite, CancelWrite, CheckApplication,
     AcceptWrite, RejectWrite, FindExisting, RecheckOpen, ApplyWrite,
     WithdrawWrite, StartWrite, CancelAssignedWrite, CompleteWrite, Emit, Throw, At
<1>7. /\ ConfirmWhere(call[p])
      /\ Goto(p, "emit")
      /\ events' = events
  BY <1>6 DEF ConfirmWrite
<1>8. call[p].req \in Requests
  BY <1>5, SlotType DEF Call, CallRecord
<1>9. call'[p].req = call[p].req /\ call'[p].hm = call[p].hm
  <2>1. call[p].op # "idle" /\ "emit" \in Steps
    BY <1>5 DEF Steps
  <2>. QED  BY <1>7, <2>1, GotoFields
<1>. QED  BY <1>7, <1>8, <1>9 DEF ConfirmWhere

LEMMA OnceStep ==
    ASSUME RowsInv, HandlersSound, Told, CompletedAtMostOnce, [Next]_vars
    PROVE  CompletedAtMostOnce'
<1>0. TypeOK
  BY DEF RowsInv
<1>1. CASE UNCHANGED vars
  BY <1>1 DEF CompletedAtMostOnce, EventFor, At, vars
<1>2. CASE Next
  <2>. PICK m \in Slots :
         CustomerStarts(m) \/ HandymanStarts(m) \/ Continue(m) \/ Crash(m)
    BY <1>2 DEF Next
  <2>1. \A q \in Slots \ {m} : call'[q] = call[q]
    BY <1>0, OneMoves
  <2>2. \A q \in Slots : At(q, "confirmCompletion", "emit") =>
            status[call[q].req] = "COMPLETED"
    BY DEF HandlersSound, Sound
  <2>3. SUFFICES ASSUME NEW p \in Slots, At(p, "confirmCompletion", "emit")'
                 PROVE  /\ EventFor(call'[p]) \notin events'
                        /\ \A q \in Slots : At(q, "confirmCompletion", "emit")'
                              /\ call'[q].req = call'[p].req => q = p
    BY DEF CompletedAtMostOnce, EventFor, EventOf
  \* The mover has just completed the request: nobody announced that before.
  <2>4. CASE p = m
    <3>1. /\ events' = events
          /\ status[call'[p].req] = "AWAITING_CONFIRMATION"
      BY <1>0, <2>3, <2>4, ConfirmArrives
    <3>2. EventFor(call'[p]).type = "COMPLETED" /\ EventFor(call'[p]).req = call'[p].req
      BY <2>3 DEF EventFor, EventOf, At
    <3>3. EventFor(call'[p]) \notin events
      BY <3>1, <3>2 DEF Told, Truthful
    <3>4. ASSUME NEW q \in Slots \ {m}, At(q, "confirmCompletion", "emit")',
                 call'[q].req = call'[p].req
          PROVE  FALSE
      BY <2>1, <2>2, <3>1, <3>4 DEF At
    <3>. QED  BY <2>4, <3>1, <3>3, <3>4
  \* The mover is another handler: it neither completes nor announces for p.
  <2>5. CASE p # m
    <3>1. call'[p] = call[p] /\ At(p, "confirmCompletion", "emit")
      BY <2>1, <2>3, <2>5 DEF At
    <3>2. /\ EventFor(call[p]) \notin events
          /\ \A q \in Slots : At(q, "confirmCompletion", "emit")
                /\ call[q].req = call[p].req => q = p
      BY <3>1 DEF CompletedAtMostOnce
    <3>3. EventFor(call[p]) \notin events'
      <4>1. CASE \E x \in Slots : Emit(x)
        <5>. PICK x \in Slots : Emit(x)
          BY <4>1
        <5>1. /\ Running(x) /\ call[x].step = "emit" /\ Sound(x)
              /\ events' = events \cup {EventFor(call[x])}
              /\ call'[x].op = "idle"
          BY <1>0, ReturnFields DEF Emit, HandlersSound
        <5>2. x # p
          BY <2>3, <5>1 DEF At
        <5>3. ASSUME EventFor(call[x]) = EventFor(call[p]) PROVE FALSE
          <6>1. EventFor(call[p]).type = "COMPLETED"
            BY <3>1 DEF EventFor, EventOf, At
          <6>2. call[x].op = "confirmCompletion"
            BY <1>0, <5>1, <5>3, <6>1, EmitterTruthful
          <6>3. call[x].req = call[p].req
            BY <5>3 DEF EventFor
          <6>. QED  BY <3>2, <5>1, <5>2, <6>2, <6>3 DEF At
        <5>. QED  BY <3>2, <5>1, <5>3
      <4>2. CASE events' = events
        BY <3>2, <4>2
      <4>. QED  BY <4>1, <4>2, EventsStep
    <3>4. ASSUME NEW q \in Slots, At(q, "confirmCompletion", "emit")',
                 call'[q].req = call'[p].req
          PROVE  q = p
      <4>1. CASE q = m
        <5>1. /\ call'[m].req = call[m].req
              /\ status[call[m].req] = "AWAITING_CONFIRMATION"
          BY <1>0, <3>4, <4>1, ConfirmArrives
        <5>. QED  BY <2>2, <3>1, <3>4, <4>1, <5>1
      <4>2. CASE q # m
        BY <2>1, <3>1, <3>2, <3>4, <4>2 DEF At
      <4>. QED  BY <4>1, <4>2
    <3>. QED  BY <3>1, <3>3, <3>4
  <2>. QED  BY <2>4, <2>5
<1>. QED  BY <1>1, <1>2

LEMMA LifeInit == Init => LifeInv
<1>. SUFFICES ASSUME Init PROVE LifeInv
  OBVIOUS
<1>1. RowsInv
  BY RowsInit
<1>2. \A p \in Slots : call[p].op = "idle"
  BY DEF Init, Idle
<1>. QED  BY <1>1, <1>2 DEF Init, LifeInv, HandlersSound, Sound, Told,
            CompletedAtMostOnce, At

LEMMA LifeStep == LifeInv /\ [Next]_vars => LifeInv'
BY RowsStep, SoundStep, ToldStep, OnceStep DEF LifeInv

LEMMA LifeAlways == Spec => []LifeInv
BY LifeInit, LifeStep, PTL DEF Spec

\* What a handler has checked, and still relies on at its later steps, stays
\* true under every interleaving: the job of a completeRequest or a
\* confirmCompletion in flight never moves back or changes hands.
THEOREM HandlersSoundAlways == Spec => []HandlersSound
<1>1. LifeInv => HandlersSound
  BY DEF LifeInv
<1>. QED  BY <1>1, LifeAlways, PTL

\* No listener is told, or about to be told, of a completion, a hand-over or a
\* cancellation that the rows do not show, or of the wrong handyman.
THEOREM EventsTruthfulAlways == Spec => []EventsTruthful
<1>1. LifeInv => EventsTruthful
  <2>. SUFFICES ASSUME LifeInv PROVE EventsTruthful
    OBVIOUS
  <2>1. ASSUME NEW e \in events PROVE Truthful(e)
    BY <2>1 DEF LifeInv, Told
  <2>2. ASSUME NEW e \in Due PROVE Truthful(e)
    <3>1. PICK q \in Slots : Running(q) /\ call[q].step = "emit" /\ e = EventFor(call[q])
      BY <2>2 DEF Due
    <3>2. Truthful(EventFor(call[q]))
      BY <3>1, EmitterTruthful DEF LifeInv, RowsInv, HandlersSound
    <3>. QED  BY <3>1, <3>2
  <2>. QED  BY <2>1, <2>2 DEF EventsTruthful
<1>. QED  BY <1>1, LifeAlways, PTL

\* SERVICE_REQUEST_COMPLETED has at most one emitter per request, however many
\* confirmations of it run or are retried at the same time.
THEOREM CompletedAtMostOnceAlways == Spec => []CompletedAtMostOnce
<1>1. LifeInv => CompletedAtMostOnce
  BY DEF LifeInv
<1>. QED  BY <1>1, LifeAlways, PTL

----------------------------------------------------------------------------
(* No user with two handlers at once: SingleAccepted, OnlyAssigneeActs and  *)
(* the implementation of JobLifecycle.                                      *)

\* A user is running at most one handler.
OneEach ==
    \A p, q \in Slots :
        Running(p) /\ Running(q) /\ call[p].by = call[q].by => p = q

\* The job of a startRequest or cancelAssignedRequest in flight is the caller's
\* for as long as it is ASSIGNED: only the caller could have given it back, and
\* the caller is busy.
Acting(p) ==
    At(p, "startRequest", "write") \/ At(p, "cancelAssignedRequest", "write") =>
        /\ status[call[p].req] \notin {"NONE", "OPEN"}
        /\ status[call[p].req] = "ASSIGNED" => assigned[call[p].req] = call[p].by

\* A customer's handler works on a request of that customer.
Owned(p) ==
    call[p].op \in CustomerOps =>
        status[call[p].req] # "NONE" /\ customer[call[p].req] = call[p].by

SerialInv ==
    /\ RowsInv
    /\ HandlersSound
    /\ OneEach
    /\ \A p \in Slots : Acting(p) /\ Owned(p)
    /\ SingleAccepted

\* What p carries through its steps.
Kept(p) ==
    /\ call'[p].op = call[p].op
    /\ call'[p].by = call[p].by
    /\ call'[p].req = call[p].req

\* Where a handler in flight can go: out, on to a later check, or to its event.
LEMMA Moves ==
    ASSUME TypeOK, NEW p \in Slots, Continue(p)
    PROVE  /\ call[p].op # "idle"
           /\ call[p] \in Call
           /\ \/ call'[p].op = "idle"
              \/ /\ Kept(p)
                 /\ call'[p].step = "emit"
                 /\ call'[p].hm = call[p].hm \/ call[p].op = "cancel"
              \/ /\ Kept(p)
                 /\ call'[p].step # "emit"
                 /\ call[p].op \in {"acceptApplication", "rejectApplication",
                                    "applyToRequest"}
<1>0. call[p].op # "idle"
  BY DEF Continue, UpdateWrite, CancelWrite, CheckApplication, AcceptWrite,
     RejectWrite, ConfirmWrite, FindExisting, RecheckOpen, ApplyWrite,
     WithdrawWrite, StartWrite, CancelAssignedWrite, CompleteWrite, Emit, At, Running
<1>1. call[p] \in Call /\ call[p] \in CallRecord
  BY <1>0, SlotType DEF Call
<1>2. CASE Return(p)
  BY <1>0, <1>1, <1>2, ReturnFields
<1>3. CASE CancelWrite(p) /\ ~Throw(p)
  <2>1. call'[p] = [call[p] EXCEPT !.step = "emit", !.hm = Reread(call[p])]
    BY <1>3 DEF CancelWrite, TypeOK
  <2>2. call[p].op = "cancel"
    BY <1>3 DEF CancelWrite, At
  <2>3. /\ call'[p].op = call[p].op
        /\ call'[p].by = call[p].by
        /\ call'[p].req = call[p].req
        /\ call'[p].step = "emit"
    BY <1>1, <2>1 DEF CallRecord
  <2>. QED  BY <1>0, <1>1, <2>2, <2>3 DEF Kept
<1>4. CASE FindExisting(p) /\ ~Throw(p)
  <2>1. call'[p] = [call[p] EXCEPT !.step = "recheck",
                                   !.seen = app[call[p].req][call[p].hm]]
    BY <1>4 DEF FindExisting, TypeOK
  <2>2. call[p].op = "applyToRequest"
    BY <1>4 DEF FindExisting, At
  <2>3. /\ call'[p].op = call[p].op
        /\ call'[p].by = call[p].by
        /\ call'[p].req = call[p].req
        /\ call'[p].step = "recheck"
    BY <1>1, <2>1 DEF CallRecord
  <2>. QED  BY <1>0, <1>1, <2>2, <2>3 DEF Kept
<1>5. CASE Goto(p, "emit")
  <2>1. "emit" \in Steps
    BY DEF Steps
  <2>. QED  BY <1>0, <1>1, <1>5, <2>1, GotoFields DEF Kept
<1>6. CASE (CheckApplication(p) \/ RecheckOpen(p)) /\ ~Throw(p)
  <2>1. Goto(p, "write") /\ "write" \in Steps
    BY <1>6 DEF CheckApplication, RecheckOpen, Steps
  <2>2. call[p].op \in {"acceptApplication", "rejectApplication", "applyToRequest"}
    BY <1>6 DEF CheckApplication, RecheckOpen, At
  <2>. QED  BY <1>0, <1>1, <2>1, <2>2, GotoFields DEF Kept
<1>7. \/ CancelWrite(p) /\ ~Throw(p)
      \/ FindExisting(p) /\ ~Throw(p)
      \/ Return(p)
      \/ Goto(p, "emit")
      \/ (CheckApplication(p) \/ RecheckOpen(p)) /\ ~Throw(p)
  BY DEF Continue, UpdateWrite, CancelWrite, CheckApplication, AcceptWrite,
     RejectWrite, ConfirmWrite, FindExisting, RecheckOpen, ApplyWrite,
     WithdrawWrite, StartWrite, CancelAssignedWrite, CompleteWrite, Emit, Throw
<1>. QED  BY <1>2, <1>3, <1>4, <1>5, <1>6, <1>7

\* A handler that starts: who it is for, where it starts and what it wrote.
LEMMA Starts ==
    ASSUME TypeOK, NEW p \in Slots, CustomerStarts(p) \/ HandymanStarts(p)
    PROVE  /\ ~Running(p)
           /\ Serial => \A q \in Slots : Running(q) => call[q].by # call'[p].by
           /\ assigned' = assigned /\ app' = app /\ events' = events
           /\ \/ /\ status' = status /\ customer' = customer
                 /\ call'[p].step # "emit"
                 /\ At(p, "startRequest", "write")'
                      \/ At(p, "cancelAssignedRequest", "write")' =>
                        /\ status[call'[p].req] = "ASSIGNED"
                        /\ assigned[call'[p].req] = call'[p].by
                 /\ call'[p].op \in CustomerOps =>
                        /\ status[call'[p].req] # "NONE"
                        /\ customer[call'[p].req] = call'[p].by
              \/ \E u \in Customers, r \in Requests :
                     /\ Create(p, u, r)
                     /\ call'[p] = CustomerCall("create", "emit", u, r, None)
<1>1. CASE CustomerStarts(p)
  <2>. PICK u \in Customers, r \in Requests :
         \/ Create(p, u, r)
         \/ Update(p, u, r)
         \/ Cancel(p, u, r)
         \/ \E op \in CustomerOps, o \in Requests, h \in Handymen :
                DecideApplication(p, op, u, r, o, h)
         \/ ConfirmCompletion(p, u, r)
    BY <1>1 DEF CustomerStarts
  <2>1. CASE Create(p, u, r)
    <3>1. call'[p] = CustomerCall("create", "emit", u, r, None)
      BY <2>1 DEF Create, Begin, TypeOK
    <3>2. ~Running(p) /\ (Serial => \A q \in Slots : Running(q) => call[q].by # call'[p].by)
      BY <2>1, <3>1 DEF Create, Begin, CustomerCall
    <3>3. assigned' = assigned /\ app' = app /\ events' = events
      BY <2>1 DEF Create
    <3>. QED  BY <2>1, <3>1, <3>2, <3>3
  <2>2. ASSUME NEW op \in CustomerOps \ {"create"}, NEW h,
               NEW step \in {"write", "application"}, NEW o,
               Begin(p, [CustomerCall(op, step, u, r, h) EXCEPT !.on = o]),
               customer[r] = u, status[r] # "NONE", UNCHANGED <<db, events>>
        PROVE  /\ ~Running(p)
               /\ Serial => \A q \in Slots : Running(q) => call[q].by # call'[p].by
               /\ assigned' = assigned /\ app' = app /\ events' = events
               /\ status' = status /\ customer' = customer
               /\ call'[p].step # "emit"
               /\ call'[p].op \in CustomerOps
               /\ status[call'[p].req] # "NONE"
               /\ customer[call'[p].req] = call'[p].by
    <3>1. call'[p] = [CustomerCall(op, step, u, r, h) EXCEPT !.on = o]
      BY <2>2 DEF Begin, TypeOK
    <3>2. /\ [CustomerCall(op, step, u, r, h) EXCEPT !.on = o].by = u
          /\ call'[p].by = u /\ call'[p].req = r /\ call'[p].op = op
          /\ call'[p].step = step
      BY <3>1 DEF CustomerCall
    <3>. QED  BY <2>2, <3>2 DEF Begin, db
  <2>3. ASSUME NEW op, NEW step, NEW h
        PROVE  CustomerCall(op, step, u, r, h)
                 = [CustomerCall(op, step, u, r, h) EXCEPT !.on = r]
    BY DEF CustomerCall
  <2>4. CASE Update(p, u, r)
    <3>1. /\ Begin(p, [CustomerCall("update", "write", u, r, None) EXCEPT !.on = r])
          /\ customer[r] = u /\ status[r] # "NONE" /\ UNCHANGED <<db, events>>
      BY <2>3, <2>4 DEF Update
    <3>2. "update" \in CustomerOps \ {"create"}
      BY DEF CustomerOps
    <3>3. call'[p].op \in CustomerOps /\ call'[p].step # "emit"
      BY <2>2, <3>1, <3>2
    <3>. QED  BY <2>2, <3>1, <3>2, <3>3 DEF CustomerOps, At
  <2>5. CASE Cancel(p, u, r)
    <3>1. /\ Begin(p, [CustomerCall("cancel", "write", u, r, None) EXCEPT !.on = r])
          /\ customer[r] = u /\ status[r] # "NONE" /\ UNCHANGED <<db, events>>
      BY <2>3, <2>5 DEF Cancel
    <3>2. "cancel" \in CustomerOps \ {"create"}
      BY DEF CustomerOps
    <3>. QED  BY <2>2, <3>1, <3>2 DEF CustomerOps, At
  <2>6. CASE ConfirmCompletion(p, u, r)
    <3>1. /\ Begin(p, [CustomerCall("confirmCompletion", "write", u, r, assigned[r]) EXCEPT !.on = r])
          /\ customer[r] = u /\ status[r] # "NONE" /\ UNCHANGED <<db, events>>
      BY <2>3, <2>6 DEF ConfirmCompletion
    <3>2. "confirmCompletion" \in CustomerOps \ {"create"}
      BY DEF CustomerOps
    <3>. QED  BY <2>2, <3>1, <3>2 DEF CustomerOps, At
  <2>7. CASE \E op \in CustomerOps, o \in Requests, h \in Handymen :
                DecideApplication(p, op, u, r, o, h)
    <3>. PICK op \in CustomerOps, o \in Requests, h \in Handymen :
           DecideApplication(p, op, u, r, o, h)
      BY <2>7
    <3>1. /\ Begin(p, [CustomerCall(op, "application", u, r, h) EXCEPT !.on = o])
          /\ customer[r] = u /\ status[r] # "NONE" /\ UNCHANGED <<db, events>>
          /\ op \in CustomerOps \ {"create"}
      BY DEF DecideApplication
    <3>. QED  BY <2>2, <3>1 DEF CustomerOps, At
  <2>. QED  BY <2>1, <2>4, <2>5, <2>6, <2>7
<1>2. CASE HandymanStarts(p)
  <2>. PICK h \in Handymen, r \in Requests :
         \/ ApplyToRequest(p, h, r)
         \/ WithdrawApplication(p, h, r)
         \/ StartRequest(p, h, r)
         \/ CancelAssignedRequest(p, h, r)
         \/ CompleteRequest(p, h, r)
    BY <1>2 DEF HandymanStarts
  <2>0. PICK op \in HandymanOps, step \in {"write", "application"} :
          /\ \E seen : Begin(p, HandymanCall(op, step, h, r, seen))
          /\ op \in {"startRequest", "cancelAssignedRequest"} =>
                 assigned[r] = h /\ status[r] = "ASSIGNED"
          /\ UNCHANGED <<db, events>>
    <3>. USE DEF HandymanOps, IsAssignee
    <3>1. CASE ApplyToRequest(p, h, r)
      BY <3>1 DEF ApplyToRequest
    <3>2. CASE WithdrawApplication(p, h, r)
      BY <3>2 DEF WithdrawApplication
    <3>3. CASE StartRequest(p, h, r)
      BY <3>3 DEF StartRequest
    <3>4. CASE CancelAssignedRequest(p, h, r)
      BY <3>4 DEF CancelAssignedRequest
    <3>5. CASE CompleteRequest(p, h, r)
      BY <3>5 DEF CompleteRequest
    <3>. QED  BY <3>1, <3>2, <3>3, <3>4, <3>5
  <2>1. PICK seen : Begin(p, HandymanCall(op, step, h, r, seen))
    BY <2>0
  <2>2. call'[p] = HandymanCall(op, step, h, r, seen)
    BY <2>1 DEF Begin, TypeOK
  <2>3. /\ HandymanCall(op, step, h, r, seen).by = h
        /\ call'[p].by = h /\ call'[p].req = r /\ call'[p].op = op
        /\ call'[p].step = step
    BY <2>2 DEF HandymanCall
  <2>4. op \notin CustomerOps
    BY DEF CustomerOps, HandymanOps
  <2>. QED  BY <2>0, <2>1, <2>3, <2>4 DEF Begin, At, db
<1>. QED  BY <1>1, <1>2

\* p has committed and owes an event.
Emitting(p) == Running(p) /\ call[p].step = "emit"

\* p's write takes its request from one of the statuses in from to the status to.
Moved(p, op, from, to) ==
    /\ At(p, op, "write")
    /\ status[call[p].req] \in from
    /\ status' = [status EXCEPT ![call[p].req] = to]
    /\ events' = events

\* p's step leaves the job alone, and p has no event to emit after it.
Quiet(p) == UNCHANGED <<status, assigned>> /\ ~Emitting(p)'

\* The transitions a handler in flight can make.
LEMMA JobMoves ==
    ASSUME RowsInv, NEW p \in Slots, Continue(p)
    PROVE  /\ customer' = customer
           /\ \/ Quiet(p)
              \/ /\ Moved(p, "cancel", {"OPEN", "ASSIGNED"}, "CANCELLED")
                 /\ Emitting(p)' /\ assigned' = assigned
              \/ /\ Moved(p, "acceptApplication", {"OPEN"}, "ASSIGNED")
                 /\ Emitting(p)' /\ assigned' = [assigned EXCEPT ![call[p].req] = call[p].hm]
              \/ /\ Moved(p, "startRequest", {"ASSIGNED"}, "IN_PROGRESS")
                 /\ ~Emitting(p)' /\ assigned' = assigned
              \/ /\ Moved(p, "cancelAssignedRequest", {"ASSIGNED"}, "OPEN")
                 /\ Emitting(p)' /\ assigned' = [assigned EXCEPT ![call[p].req] = None]
              \/ /\ Moved(p, "completeRequest", {"IN_PROGRESS"}, "AWAITING_CONFIRMATION")
                 /\ Emitting(p)' /\ assigned' = assigned
              \/ /\ Moved(p, "confirmCompletion", {"AWAITING_CONFIRMATION"}, "COMPLETED")
                 /\ Emitting(p)' /\ assigned' = assigned
<1>0. TypeOK /\ Checked
  BY DEF RowsInv
<1>1. CASE Throw(p)
  BY <1>0, <1>1, ReturnFields DEF Throw, Quiet, Emitting, Running, db
<1>2. CASE CancelWrite(p) /\ ~Throw(p)
  <2>1. status[call[p].req] \in {"OPEN", "ASSIGNED"}
    BY <1>0, <1>2 DEF CancelWrite, CancelWhere, Checked
  <2>2. /\ call'[p] = [call[p] EXCEPT !.step = "emit", !.hm = Reread(call[p])]
        /\ call[p] \in CallRecord /\ call[p].op # "idle"
    BY <1>0, <1>2, SlotType DEF CancelWrite, TypeOK, At, Call
  <2>3. Emitting(p)'
    BY <2>2, RecordFields DEF Emitting, Running
  <2>. QED  BY <1>2, <2>1, <2>3 DEF CancelWrite, Moved
<1>3. ASSUME Goto(p, "emit"), call[p].op # "idle" PROVE Emitting(p)'
  <2>1. "emit" \in Steps
    BY DEF Steps
  <2>. QED  BY <1>0, <1>3, <2>1, GotoFields DEF Emitting, Running
<1>4. CASE AcceptWrite(p) /\ ~Throw(p)
  BY <1>3, <1>4 DEF AcceptWrite, AcceptWhere, Moved, At
<1>5. CASE CancelAssignedWrite(p) /\ ~Throw(p)
  BY <1>3, <1>5 DEF CancelAssignedWrite, CancelAssignedWhere, Moved, At
<1>6. CASE CompleteWrite(p) /\ ~Throw(p)
  BY <1>3, <1>6 DEF CompleteWrite, CompleteWhere, Moved, At
<1>7. CASE ConfirmWrite(p) /\ ~Throw(p)
  BY <1>3, <1>7 DEF ConfirmWrite, ConfirmWhere, Moved, At
<1>8. CASE StartWrite(p) /\ ~Throw(p)
  <2>1. ~Emitting(p)'
    BY <1>0, <1>8, ReturnFields DEF StartWrite, Emitting, Running
  <2>. QED  BY <1>8, <2>1 DEF StartWrite, StartWhere, Moved
<1>9. CASE (UpdateWrite(p) \/ RejectWrite(p) \/ ApplyWrite(p) \/ WithdrawWrite(p)
              \/ Emit(p)) /\ ~Throw(p)
  <2>1. Return(p) /\ UNCHANGED <<status, assigned, customer>>
    BY <1>9 DEF UpdateWrite, RejectWrite, ApplyWrite, WithdrawWrite, Emit, db
  <2>. QED  BY <1>0, <2>1, ReturnFields DEF Quiet, Emitting, Running
<1>10. CASE (CheckApplication(p) \/ RecheckOpen(p)) /\ ~Throw(p)
  <2>1. Goto(p, "write") /\ UNCHANGED db /\ call[p].op # "idle" /\ "write" \in Steps
    BY <1>10 DEF CheckApplication, RecheckOpen, At, Steps
  <2>. QED  BY <1>0, <2>1, GotoFields DEF Quiet, Emitting, db
<1>11. CASE FindExisting(p) /\ ~Throw(p)
  <2>1. UNCHANGED db /\ call[p].op # "idle"
    BY <1>11 DEF FindExisting, At
  <2>2. call'[p] = [call[p] EXCEPT !.step = "recheck",
                                   !.seen = app[call[p].req][call[p].hm]]
    BY <1>0, <1>11 DEF FindExisting, TypeOK
  <2>3. call'[p].step = "recheck"
    BY <1>0, <2>1, <2>2, SlotType DEF Call, CallRecord
  <2>. QED  BY <2>1, <2>3 DEF Quiet, Emitting, db
<1>. QED
  BY <1>1, <1>2, <1>4, <1>5, <1>6, <1>7, <1>8, <1>9, <1>10, <1>11 DEF Continue

\* What p's step does to any job, seen from the handlers that do not move: the
\* row neither comes into being again nor changes owner, and only a handyman's
\* cancellation takes an ASSIGNED job back.
LEMMA JobStep ==
    ASSUME RowsInv, NEW p \in Slots,
           CustomerStarts(p) \/ HandymanStarts(p) \/ Continue(p) \/ Crash(p),
           NEW r \in Requests
    PROVE  /\ status[r] # "NONE" => status'[r] # "NONE" /\ customer'[r] = customer[r]
           /\ status[r] \notin {"NONE", "OPEN"} =>
                \/ /\ status'[r] \notin {"NONE", "OPEN"}
                   /\ status'[r] = "ASSIGNED" =>
                        status[r] = "ASSIGNED" /\ assigned'[r] = assigned[r]
                \/ /\ At(p, "cancelAssignedRequest", "write")
                   /\ call[p].req = r
                   /\ status[r] = "ASSIGNED"
<1>0. TypeOK
  BY DEF RowsInv
<1>1. CASE UNCHANGED <<status, assigned, customer>>
  BY <1>1
<1>2. CASE \E u \in Customers, q \in Requests : Create(p, u, q)
  BY <1>0, <1>2 DEF Create, TypeOK
<1>3. CASE Continue(p)
  <2>1. ASSUME NEW op, NEW from, NEW to, Moved(p, op, from, to)
        PROVE  status'[r] = IF r = call[p].req THEN to ELSE status[r]
    BY <1>0, <2>1 DEF Moved, TypeOK
  <2>2. ASSUME NEW h, assigned' = [assigned EXCEPT ![call[p].req] = h]
        PROVE  r # call[p].req => assigned'[r] = assigned[r]
    BY <1>0, <2>2 DEF TypeOK
  <2>3. CASE Quiet(p)
    BY <1>1, <1>3, <2>3, JobMoves DEF Quiet
  <2>4. CASE Moved(p, "cancel", {"OPEN", "ASSIGNED"}, "CANCELLED") /\ assigned' = assigned
    <3>1. status'[r] = IF r = call[p].req THEN "CANCELLED" ELSE status[r]
      BY <2>1, <2>4
    <3>. QED  BY <1>3, <2>4, <3>1, JobMoves
  <2>5. CASE /\ Moved(p, "acceptApplication", {"OPEN"}, "ASSIGNED")
             /\ assigned' = [assigned EXCEPT ![call[p].req] = call[p].hm]
    <3>1. status'[r] = IF r = call[p].req THEN "ASSIGNED" ELSE status[r]
      BY <2>1, <2>5
    <3>2. r # call[p].req => assigned'[r] = assigned[r]
      BY <2>2, <2>5
    <3>3. status[call[p].req] = "OPEN"
      BY <2>5 DEF Moved
    <3>. QED  BY <1>3, <3>1, <3>2, <3>3, JobMoves
  <2>6. CASE Moved(p, "startRequest", {"ASSIGNED"}, "IN_PROGRESS") /\ assigned' = assigned
    <3>1. status'[r] = IF r = call[p].req THEN "IN_PROGRESS" ELSE status[r]
      BY <2>1, <2>6
    <3>. QED  BY <1>3, <2>6, <3>1, JobMoves
  <2>7. CASE /\ Moved(p, "cancelAssignedRequest", {"ASSIGNED"}, "OPEN")
             /\ assigned' = [assigned EXCEPT ![call[p].req] = None]
    <3>1. status'[r] = IF r = call[p].req THEN "OPEN" ELSE status[r]
      BY <2>1, <2>7
    <3>2. r # call[p].req => assigned'[r] = assigned[r]
      BY <2>2, <2>7
    <3>3. status[call[p].req] = "ASSIGNED" /\ At(p, "cancelAssignedRequest", "write")
      BY <2>7 DEF Moved
    <3>. QED  BY <1>3, <3>1, <3>2, <3>3, JobMoves
  <2>8. CASE /\ Moved(p, "completeRequest", {"IN_PROGRESS"}, "AWAITING_CONFIRMATION")
             /\ assigned' = assigned
    <3>1. status'[r] = IF r = call[p].req THEN "AWAITING_CONFIRMATION" ELSE status[r]
      BY <2>1, <2>8
    <3>. QED  BY <1>3, <2>8, <3>1, JobMoves
  <2>9. CASE /\ Moved(p, "confirmCompletion", {"AWAITING_CONFIRMATION"}, "COMPLETED")
             /\ assigned' = assigned
    <3>1. status'[r] = IF r = call[p].req THEN "COMPLETED" ELSE status[r]
      BY <2>1, <2>9
    <3>. QED  BY <1>3, <2>9, <3>1, JobMoves
  <2>. QED  BY <1>3, <2>3, <2>4, <2>5, <2>6, <2>7, <2>8, <2>9, JobMoves
<1>4. CASE CustomerStarts(p) \/ HandymanStarts(p)
  <2>1. CASE status' = status /\ customer' = customer
    BY <1>0, <1>1, <1>4, <2>1, Starts
  <2>. QED  BY <1>0, <1>2, <1>4, <2>1, Starts
<1>5. CASE Crash(p)
  BY <1>1, <1>5 DEF Crash, db
<1>. QED  BY <1>3, <1>4, <1>5

\* Acceptances: each write that touches the applications, in turn.
LEMMA AcceptedContinue ==
    ASSUME RowsInv, SingleAccepted, NEW p \in Slots, Acting(p), Continue(p)
    PROVE  SingleAccepted'
<1>. DEFINE c == call[p]
<1>0. /\ TypeOK /\ Checked
      /\ c \in Call /\ c.req \in Requests
  BY Moves DEF RowsInv, Call, CallRecord
<1>1. CASE UNCHANGED <<status, assigned, app>>
  BY <1>1 DEF SingleAccepted
<1>2. ASSUME NEW s \in Held, status[c.req] \in Held,
             status' = [status EXCEPT ![c.req] = s], UNCHANGED <<assigned, app>>
      PROVE  SingleAccepted'
  <2>1. \A r \in Requests : status'[r] = IF r = c.req THEN s ELSE status[r]
    BY <1>0, <1>2 DEF TypeOK
  <2>. QED  BY <1>2, <2>1 DEF SingleAccepted
<1>3. ASSUME NEW s, s # "ACCEPTED", app' = [app EXCEPT ![c.on][c.hm] = s],
             UNCHANGED <<status, assigned>>
      PROVE  SingleAccepted'
  <2>1. \A r \in Requests, h \in Handymen :
          app'[r][h] = "ACCEPTED" => app[r][h] = "ACCEPTED"
    BY <1>0, <1>3 DEF TypeOK
  <2>. QED  BY <1>3, <2>1 DEF SingleAccepted
<1>4. CASE CancelWrite(p) /\ ~Throw(p)
  <2>1. /\ status' = [status EXCEPT ![c.req] = "CANCELLED"]
        /\ assigned' = assigned
        /\ app' = [app EXCEPT ![c.req] = [h \in Handymen |->
                      IF app[c.req][h] \in {"PENDING", "ACCEPTED"}
                        THEN "REJECTED" ELSE app[c.req][h]]]
    BY <1>4 DEF CancelWrite, Live
  <2>2. \A r \in Requests \ {c.req} : status'[r] = status[r] /\ app'[r] = app[r]
    BY <1>0, <2>1 DEF TypeOK
  <2>3. \A h \in Handymen : app'[c.req][h] # "ACCEPTED"
    BY <1>0, <2>1 DEF TypeOK
  <2>. QED  BY <2>1, <2>2, <2>3 DEF SingleAccepted
<1>5. CASE AcceptWrite(p) /\ ~Throw(p)
  <2>1. /\ c.on = c.req /\ c.hm \in Handymen
        /\ status[c.req] = "OPEN"
        /\ status' = [status EXCEPT ![c.req] = "ASSIGNED"]
        /\ assigned' = [assigned EXCEPT ![c.req] = c.hm]
        /\ app' = [r \in Requests |-> [h \in Handymen |->
                      CASE r = c.on /\ h = c.hm -> "ACCEPTED"
                        [] r = c.req /\ ~(r = c.on /\ h = c.hm)
                             /\ app[r][h] = "PENDING" -> "REJECTED"
                        [] OTHER -> app[r][h]]]
    BY <1>0, <1>5 DEF AcceptWrite, AcceptWhere, At, Checked, Call
  <2>2. \A r \in Requests \ {c.req} :
          /\ status'[r] = status[r]
          /\ assigned'[r] = assigned[r]
          /\ \A h \in Handymen : app'[r][h] = app[r][h]
    BY <1>0, <2>1 DEF TypeOK
  <2>3. \A h \in Handymen : app[c.req][h] # "ACCEPTED"
    BY <1>0, <2>1 DEF SingleAccepted, Held
  <2>4. \A h \in Handymen : app'[c.req][h] = "ACCEPTED" => h = c.hm
    BY <1>0, <2>1, <2>3 DEF TypeOK
  <2>5. status'[c.req] \in Held /\ assigned'[c.req] = c.hm
    BY <1>0, <2>1 DEF TypeOK, Held
  <2>. QED  BY <2>2, <2>4, <2>5 DEF SingleAccepted
<1>6. CASE CancelAssignedWrite(p) /\ ~Throw(p)
  <2>1. /\ c.hm \in Handymen /\ c.by = c.hm
        /\ status[c.req] = "ASSIGNED"
        /\ status' = [status EXCEPT ![c.req] = "OPEN"]
        /\ assigned' = [assigned EXCEPT ![c.req] = None]
        /\ app' = [app EXCEPT ![c.req][c.hm] = GiveUp(@)]
    BY <1>0, <1>6 DEF CancelAssignedWrite, CancelAssignedWhere, At, Call, HandymanOps
  <2>2. assigned[c.req] = c.hm
    BY <1>6, <2>1 DEF CancelAssignedWrite, Acting
  <2>3. \A r \in Requests \ {c.req} :
          status'[r] = status[r] /\ assigned'[r] = assigned[r] /\ app'[r] = app[r]
    BY <1>0, <2>1 DEF TypeOK
  <2>4. ASSUME NEW h \in Handymen PROVE app'[c.req][h] # "ACCEPTED"
    <3>1. CASE h = c.hm
      BY <1>0, <2>1, <3>1 DEF TypeOK, GiveUp
    <3>2. CASE h # c.hm
      <4>1. app'[c.req][h] = app[c.req][h]
        BY <1>0, <2>1, <3>2 DEF TypeOK
      <4>. QED  BY <1>0, <2>2, <3>2, <4>1 DEF SingleAccepted
    <3>. QED  BY <3>1, <3>2
  <2>. QED  BY <2>3, <2>4 DEF SingleAccepted
<1>7. CASE ConfirmWrite(p) \/ StartWrite(p) \/ CompleteWrite(p)
  BY <1>1, <1>2, <1>7 DEF ConfirmWrite, ConfirmWhere, StartWrite, StartWhere,
     CompleteWrite, CompleteWhere, Held, Throw, db
<1>8. CASE RejectWrite(p)
  BY <1>1, <1>3, <1>8 DEF RejectWrite, Throw, db
<1>9. CASE WithdrawWrite(p)
  BY <1>1, <1>3, <1>9 DEF WithdrawWrite, Throw, db
<1>10. CASE ApplyWrite(p)
  <2>1. c.on = c.req
    BY <1>0, <1>10 DEF ApplyWrite, At, Call, HandymanOps
  <2>. QED  BY <1>1, <1>3, <1>10, <2>1 DEF ApplyWrite, Throw, db
<1>11. CASE Throw(p) \/ UpdateWrite(p) \/ CheckApplication(p) \/ FindExisting(p)
              \/ RecheckOpen(p) \/ Emit(p)
  BY <1>1, <1>11 DEF Throw, UpdateWrite, CheckApplication, FindExisting,
     RecheckOpen, Emit, db
<1>. QED
  BY <1>4, <1>5, <1>6, <1>7, <1>8, <1>9, <1>10, <1>11 DEF Continue

\* A handler that moves carries its caller, its request and its entitlement.
LEMMA MoverKeeps ==
    ASSUME RowsInv, NEW p \in Slots, Acting(p), Owned(p),
           CustomerStarts(p) \/ HandymanStarts(p) \/ Continue(p) \/ Crash(p)
    PROVE  /\ Acting(p)' /\ Owned(p)'
           /\ CustomerStarts(p) \/ HandymanStarts(p) \/ ~Running(p)'
                \/ (Running(p) /\ Kept(p))
<1>0. TypeOK
  BY DEF RowsInv
<1>1. CASE call'[p].op = "idle"
  BY <1>1 DEF Acting, Owned, At, Running, CustomerOps
<1>2. CASE CustomerStarts(p) \/ HandymanStarts(p)
  <2>1. CASE \E u \in Customers, r \in Requests :
                 /\ Create(p, u, r)
                 /\ call'[p] = CustomerCall("create", "emit", u, r, None)
    <3>. PICK u \in Customers, r \in Requests :
           /\ Create(p, u, r)
           /\ call'[p] = CustomerCall("create", "emit", u, r, None)
      BY <2>1
    <3>1. call'[p].op = "create" /\ call'[p].by = u /\ call'[p].req = r
      BY DEF CustomerCall
    <3>2. status'[r] = "OPEN" /\ customer'[r] = u
      BY <1>0 DEF Create, TypeOK
    <3>. QED  BY <1>2, <3>1, <3>2 DEF Acting, Owned, At
  <2>2. CASE /\ status' = status /\ customer' = customer /\ assigned' = assigned
             /\ At(p, "startRequest", "write")'
                  \/ At(p, "cancelAssignedRequest", "write")' =>
                    /\ status[call'[p].req] = "ASSIGNED"
                    /\ assigned[call'[p].req] = call'[p].by
             /\ call'[p].op \in CustomerOps =>
                    /\ status[call'[p].req] # "NONE"
                    /\ customer[call'[p].req] = call'[p].by
    BY <1>2, <2>2 DEF Acting, Owned
  <2>. QED  BY <1>0, <1>2, <2>1, <2>2, Starts
<1>3. CASE Continue(p) /\ call'[p].op # "idle"
  <2>1. Kept(p) /\ call[p].op # "idle" /\ call[p].req \in Requests
    BY <1>0, <1>3, Moves DEF Call, CallRecord
  <2>2. ~At(p, "startRequest", "write")' /\ ~At(p, "cancelAssignedRequest", "write")'
    BY <1>0, <1>3, Moves DEF Kept, At
  <2>3. Owned(p)'
    BY <2>1, <1>3, JobStep DEF Kept, Owned
  <2>. QED  BY <2>1, <2>2, <2>3 DEF Acting, Running
<1>4. CASE Crash(p)
  BY <1>0, <1>1, <1>4, ReturnFields DEF Crash
<1>. QED  BY <1>1, <1>2, <1>3, <1>4

LEMMA SerialStep ==
    ASSUME Serial = TRUE, SerialInv, [Next]_vars
    PROVE  SerialInv'
<1>0. TypeOK /\ RowsInv' /\ HandlersSound'
  BY RowsStep, SoundStep DEF SerialInv, RowsInv
<1>1. CASE UNCHANGED vars
  <2>1. OneEach' /\ \A p \in Slots : Acting(p)' /\ Owned(p)'
    BY <1>1 DEF SerialInv, OneEach, Acting, Owned, Running, At, vars
  <2>2. SingleAccepted'
    BY <1>1 DEF SerialInv, SingleAccepted, vars
  <2>. QED  BY <1>0, <2>1, <2>2 DEF SerialInv
<1>2. CASE Next
  <2>. PICK p \in Slots :
         CustomerStarts(p) \/ HandymanStarts(p) \/ Continue(p) \/ Crash(p)
    BY <1>2 DEF Next
  <2>1. /\ RowsInv /\ Acting(p) /\ Owned(p) /\ SingleAccepted
        /\ \A q \in Slots : Acting(q) /\ Owned(q)
    BY DEF SerialInv
  <2>2. \A q \in Slots \ {p} : call'[q] = call[q]
    BY <1>0, OneMoves
  <2>3. OneEach'
    <3>1. SUFFICES ASSUME NEW q \in Slots \ {p}, Running(p)', Running(q)',
                          call'[p].by = call'[q].by
                   PROVE  FALSE
      BY <2>2 DEF SerialInv, OneEach, Running
    <3>2. Running(q) /\ call'[q].by = call[q].by
      BY <2>2, <3>1 DEF Running
    <3>3. CASE CustomerStarts(p) \/ HandymanStarts(p)
      BY <1>0, <3>1, <3>2, <3>3, Starts
    <3>4. CASE Running(p) /\ Kept(p)
      BY <3>1, <3>2, <3>4 DEF Kept, SerialInv, OneEach
    <3>. QED  BY <2>1, <3>1, <3>3, <3>4, MoverKeeps
  <2>4. ASSUME NEW q \in Slots \ {p} PROVE Acting(q)' /\ Owned(q)'
    <3>1. call'[q] = call[q] /\ (call[q].op # "idle" => call[q].req \in Requests)
      BY <1>0, <2>2, SlotType DEF Call, CallRecord
    <3>2. Owned(q)'
      BY <2>1, <3>1, JobStep DEF Owned, CustomerOps
    <3>3. ASSUME At(q, "startRequest", "write") \/ At(q, "cancelAssignedRequest", "write"),
                 At(p, "cancelAssignedRequest", "write"),
                 call[p].req = call[q].req, status[call[q].req] = "ASSIGNED"
          PROVE  FALSE
      <4>1. call[p].by = call[q].by
        BY <2>1, <3>3 DEF Acting
      <4>. QED  BY <3>3, <4>1 DEF SerialInv, OneEach, Running, At
    <3>4. Acting(q)'
      <4>. SUFFICES ASSUME At(q, "startRequest", "write")
                             \/ At(q, "cancelAssignedRequest", "write")
                    PROVE  /\ status'[call[q].req] \notin {"NONE", "OPEN"}
                           /\ status'[call[q].req] = "ASSIGNED" =>
                                assigned'[call[q].req] = call[q].by
        BY <3>1 DEF Acting, At
      <4>1. call[q].req \in Requests
        BY <3>1 DEF At
      <4>2. /\ status[call[q].req] \notin {"NONE", "OPEN"}
            /\ status[call[q].req] = "ASSIGNED" => assigned[call[q].req] = call[q].by
        BY <2>1 DEF Acting
      <4>. QED  BY <2>1, <3>3, <4>1, <4>2, JobStep
    <3>. QED  BY <3>2, <3>4
  <2>5. Acting(p)' /\ Owned(p)'
    BY <2>1, MoverKeeps
  <2>6. SingleAccepted'
    <3>1. CASE Continue(p)
      BY <2>1, <3>1, AcceptedContinue
    <3>2. CASE UNCHANGED <<status, assigned, app>>
      BY <2>1, <3>2 DEF SingleAccepted
    <3>3. CASE \E u \in Customers, r \in Requests : Create(p, u, r)
      <4>. PICK u \in Customers, r \in Requests : Create(p, u, r)
        BY <3>3
      <4>1. /\ \A q \in Requests \ {r} : status'[q] = status[q]
            /\ status[r] = "NONE" /\ assigned' = assigned /\ app' = app
        BY <1>0 DEF Create, TypeOK
      <4>. QED  BY <2>1, <4>1 DEF SingleAccepted, Held
    <3>4. CASE CustomerStarts(p) \/ HandymanStarts(p)
      BY <1>0, <3>2, <3>3, <3>4, Starts
    <3>5. CASE Crash(p)
      BY <3>2, <3>5 DEF Crash, db
    <3>. QED  BY <3>1, <3>4, <3>5
  <2>. QED  BY <1>0, <2>3, <2>4, <2>5, <2>6 DEF SerialInv
<1>. QED  BY <1>1, <1>2

LEMMA SerialInit == Init => SerialInv
<1>. SUFFICES ASSUME Init PROVE SerialInv
  OBVIOUS
<1>1. RowsInv /\ HandlersSound
  BY RowsInit, LifeInit DEF LifeInv
<1>2. \A p \in Slots : call[p].op = "idle"
  BY DEF Init, Idle
<1>3. OneEach /\ \A p \in Slots : Acting(p) /\ Owned(p)
  BY <1>2 DEF OneEach, Acting, Owned, Running, At, CustomerOps
<1>4. SingleAccepted
  BY DEF Init, SingleAccepted
<1>. QED  BY <1>1, <1>3, <1>4 DEF SerialInv

\* When no user has two handlers running at once, at most one application of a
\* request is ACCEPTED, it is the assignee's, and an OPEN request has none.
THEOREM SingleAcceptedAlways ==
    ASSUME Serial = TRUE PROVE Spec => []SingleAccepted
<1>1. SerialInv /\ [Next]_vars => SerialInv'
  BY SerialStep
<1>2. SerialInv => SingleAccepted
  BY DEF SerialInv
<1>. QED  BY <1>1, <1>2, SerialInit, PTL DEF Spec

\* Under the same condition only the assignee of the moment starts a job or gives
\* it back, although the two writes look at the status alone.
THEOREM OnlyAssigneeActsAlways ==
    ASSUME Serial = TRUE PROVE Spec => OnlyAssigneeActs
<1>1. SerialInv /\ [Next]_vars => SerialInv'
  BY SerialStep
<1>2. SerialInv /\ [Next]_vars =>
        [\A p \in Slots :
          /\ At(p, "startRequest", "write") \/ At(p, "cancelAssignedRequest", "write")
          /\ status'[call[p].req] # status[call[p].req]
          /\ call'[p] # call[p]
          => assigned[call[p].req] = call[p].by]_vars
  <2>. SUFFICES ASSUME SerialInv, Next, NEW p \in Slots,
                       At(p, "startRequest", "write")
                         \/ At(p, "cancelAssignedRequest", "write"),
                       status'[call[p].req] # status[call[p].req],
                       call'[p] # call[p]
                PROVE  assigned[call[p].req] = call[p].by
    OBVIOUS
  <2>. PICK m \in Slots :
         CustomerStarts(m) \/ HandymanStarts(m) \/ Continue(m) \/ Crash(m)
    BY DEF Next
  <2>0. RowsInv /\ TypeOK /\ Acting(p)
    BY DEF SerialInv, RowsInv
  <2>1. p = m
    BY <2>0, OneMoves
  <2>2. Continue(p)
    <3>1. ~(CustomerStarts(p) \/ HandymanStarts(p))
      BY <2>0, Starts DEF Running, At
    <3>2. ~Crash(p)
      BY DEF Crash, db
    <3>. QED  BY <2>1, <3>1, <3>2
  <2>3. status[call[p].req] = "ASSIGNED"
    BY <2>0, <2>2, JobMoves DEF Moved, Quiet, At
  <2>. QED  BY <2>0, <2>3 DEF Acting
<1>. QED  BY <1>1, <1>2, SerialInit, PTL DEF Spec, OnlyAssigneeActs

\* No two handlers owe the same event: it names its emitter's user.
LEMMA OneEmitter ==
    ASSUME SerialInv, NEW p \in Slots, NEW q \in Slots,
           Emitting(p), Emitting(q), EventFor(call[p]) = EventFor(call[q])
    PROVE  p = q
<1>1. /\ call[p] \in Call /\ call[p].op \in DOMAIN EventOf
      /\ call[q] \in Call /\ call[q].op \in DOMAIN EventOf
  BY SlotType DEF SerialInv, RowsInv, Emitting, Running, Call
<1>2. /\ EventOf[call[p].op] = EventOf[call[q].op]
      /\ call[p].req = call[q].req /\ call[p].hm = call[q].hm
  BY DEF EventFor
<1>3. call[p].op = call[q].op
  BY <1>1, <1>2 DEF EventOf
<1>4. CASE call[p].op \in CustomerOps
  <2>1. call[p].by = call[q].by
    BY <1>2, <1>3, <1>4 DEF SerialInv, Owned
  <2>. QED  BY <2>1 DEF SerialInv, OneEach, Emitting
<1>5. CASE call[p].op \in HandymanOps
  <2>1. call[p].by = call[q].by
    BY <1>1, <1>2, <1>3, <1>5 DEF Call
  <2>. QED  BY <2>1 DEF SerialInv, OneEach, Emitting
<1>. QED  BY <1>1, <1>4, <1>5 DEF Call, CallRecord

\* The events owed, before and after a step of p.
LEMMA DueStep ==
    ASSUME NEW p \in Slots, \A q \in Slots \ {p} : call'[q] = call[q]
    PROVE  /\ ~Emitting(p) /\ ~Emitting(p)' => Due' = Due
           /\ ~Emitting(p) /\ Emitting(p)' => Due' = Due \cup {EventFor(call'[p])}
           /\ Emitting(p) /\ ~Emitting(p)'
                /\ (\A q \in Slots : Emitting(q) /\ EventFor(call[q]) = EventFor(call[p])
                                       => q = p)
              => Due' = Due \ {EventFor(call[p])} /\ EventFor(call[p]) \in Due
<1>1. Due = {EventFor(call[q]) : q \in {x \in Slots : Emitting(x)}}
  BY DEF Due, Emitting
<1>2. Due' = {EventFor(call'[q]) : q \in {x \in Slots : Emitting(x)'}}
  BY DEF Due, Emitting, EventFor, Running
<1>3. \A q \in Slots \ {p} : Emitting(q)' = Emitting(q)
  BY DEF Emitting, Running
<1>. HIDE DEF Due, Emitting
<1>. DEFINE others == {EventFor(call[q]) : q \in {x \in Slots \ {p} : Emitting(x)}}
<1>4. Due = IF Emitting(p) THEN others \cup {EventFor(call[p])} ELSE others
  BY <1>1
<1>5. Due' = IF Emitting(p)' THEN others \cup {EventFor(call'[p])} ELSE others
  BY <1>2, <1>3
<1>6. (\A q \in Slots : Emitting(q) /\ EventFor(call[q]) = EventFor(call[p]) => q = p)
        => EventFor(call[p]) \notin others
  OBVIOUS
<1>. HIDE DEF others
<1>. QED  BY <1>4, <1>5, <1>6

\* Each step of a handler is a step of JobLifecycle, or leaves all it shows alone.
LEMMA JobRefined ==
    ASSUME SerialInv, SerialInv', [Next]_vars
    PROVE  [Job!JobNext]_<<status, assigned, Due, events>>
<1>0. TypeOK /\ RowsInv
  BY DEF SerialInv, RowsInv
<1>1. CASE UNCHANGED vars
  BY <1>1 DEF vars, Due, EventFor, Running
<1>2. CASE Next
  <2>. PICK p \in Slots :
         CustomerStarts(p) \/ HandymanStarts(p) \/ Continue(p) \/ Crash(p)
    BY <1>2 DEF Next
  <2>1. \A q \in Slots \ {p} : call'[q] = call[q]
    BY <1>0, OneMoves
  <2>2. \A q \in Slots : Emitting(p) /\ Emitting(q) /\ EventFor(call[q]) = EventFor(call[p])
            => q = p
    BY OneEmitter
  <2>3. CASE UNCHANGED <<status, assigned, events>> /\ ~Emitting(p) /\ ~Emitting(p)'
    BY <2>1, <2>3, DueStep
  <2>4. CASE CustomerStarts(p) \/ HandymanStarts(p)
    <3>1. ~Emitting(p)
      BY <1>0, <2>4, Starts DEF Emitting
    <3>2. CASE status' = status /\ call'[p].step # "emit"
      BY <1>0, <2>3, <2>4, <3>1, <3>2, Starts DEF Emitting
    <3>3. CASE \E u \in Customers, r \in Requests :
                   /\ Create(p, u, r)
                   /\ call'[p] = CustomerCall("create", "emit", u, r, None)
      <4>. PICK u \in Customers, r \in Requests :
             /\ Create(p, u, r)
             /\ call'[p] = CustomerCall("create", "emit", u, r, None)
        BY <3>3
      <4>1. /\ call'[p].op = "create" /\ call'[p].step = "emit"
            /\ call'[p].req = r /\ call'[p].hm = None
        BY DEF CustomerCall
      <4>2. EventFor(call'[p]) = [type |-> "CREATED", req |-> r, hm |-> None]
        BY <4>1 DEF EventFor, EventOf
      <4>3. Due' = Due \cup {[type |-> "CREATED", req |-> r, hm |-> None]}
        BY <2>1, <3>1, <4>1, <4>2, DueStep DEF Emitting, Running
      <4>4. Job!Post(r)
        BY <4>3 DEF Job!Post, Job!Move, Job!Owe, Create
      <4>. QED  BY <4>4 DEF Job!JobNext
    <3>. QED  BY <1>0, <2>4, <3>2, <3>3, Starts
  <2>5. CASE Crash(p)
    <3>1. ~Emitting(p)' /\ UNCHANGED <<status, assigned, events>>
      BY <1>0, <2>5, ReturnFields DEF Crash, Emitting, Running, db
    <3>2. CASE Emitting(p)
      <4>1. Due' = Due \ {EventFor(call[p])} /\ EventFor(call[p]) \in Due
        BY <2>1, <2>2, <3>1, <3>2, DueStep
      <4>2. Job!Lose(EventFor(call[p]))
        BY <3>1, <4>1 DEF Job!Lose
      <4>. QED  BY <4>1, <4>2 DEF Job!JobNext
    <3>. QED  BY <2>3, <3>1, <3>2
  <2>6. CASE Continue(p) /\ Quiet(p)
    <3>1. CASE Emitting(p)
      <4>1. Emit(p)
        BY <2>6, <3>1 DEF Continue, UpdateWrite, CancelWrite, CheckApplication, AcceptWrite,
           RejectWrite, ConfirmWrite, FindExisting, RecheckOpen, ApplyWrite,
           WithdrawWrite, StartWrite, CancelAssignedWrite, CompleteWrite, At, Emitting
      <4>2. Due' = Due \ {EventFor(call[p])} /\ EventFor(call[p]) \in Due
        BY <2>1, <2>2, <2>6, <3>1, DueStep DEF Quiet
      <4>3. Job!Tell(EventFor(call[p]))
        BY <2>6, <4>1, <4>2 DEF Job!Tell, Emit, Quiet
      <4>. QED  BY <4>2, <4>3 DEF Job!JobNext
    <3>2. CASE ~Emitting(p)
      <4>1. events' = events
        BY <2>6, <3>2 DEF Emitting, Continue, UpdateWrite, CancelWrite, CheckApplication,
           AcceptWrite, RejectWrite, ConfirmWrite, FindExisting, RecheckOpen, ApplyWrite,
           WithdrawWrite, StartWrite, CancelAssignedWrite, CompleteWrite, Emit
      <4>. QED  BY <2>3, <2>6, <3>2, <4>1 DEF Quiet
    <3>. QED  BY <3>1, <3>2
  <2>7. CASE Continue(p) /\ ~Quiet(p)
    <3>. DEFINE c == call[p]
                r == call[p].req
    <3>1. /\ c \in Call /\ r \in Requests /\ c.op # "idle"
          /\ HandlersSound /\ HandlersSound' /\ Sound(p) /\ Acting(p) /\ Sound(p)'
      BY <1>0, <2>7, Moves DEF SerialInv, HandlersSound, Call, CallRecord
    \* What p owes after a transition that has an event.
    <3>2. ASSUME NEW op \in DOMAIN EventOf, NEW from, NEW to,
                 Moved(p, op, from, to), Emitting(p)'
          PROVE  /\ call'[p].hm = call[p].hm \/ op = "cancel"
                 /\ At(p, op, "emit")' /\ call'[p].req = r
                 /\ Due' = Due \cup {[type |-> EventOf[op], req |-> r, hm |-> call'[p].hm]}
                 /\ events' = events
      <4>1. ~Emitting(p) /\ call[p].op = op /\ events' = events
        BY <3>2 DEF Moved, At, Emitting
      <4>2. /\ Kept(p) /\ call'[p].step = "emit"
            /\ call'[p].hm = call[p].hm \/ op = "cancel"
        BY <1>0, <2>7, <3>2, <4>1, Moves DEF Emitting, Running
      <4>3. EventFor(call'[p]) = [type |-> EventOf[op], req |-> r, hm |-> call'[p].hm]
        BY <4>1, <4>2 DEF EventFor, Kept
      <4>4. Due' = Due \cup {EventFor(call'[p])}
        BY <2>1, <3>2, <4>1, DueStep
      <4>. QED  BY <4>1, <4>2, <4>3, <4>4 DEF Kept, At
    <3>. USE DEF Job!Move, Job!Owe
    <3>3. CASE /\ Moved(p, "cancel", {"OPEN", "ASSIGNED"}, "CANCELLED")
               /\ Emitting(p)' /\ assigned' = assigned
      <4>1. "cancel" \in DOMAIN EventOf /\ EventOf["cancel"] = "CANCELLED"
        BY DEF EventOf
      <4>2. /\ At(p, "cancel", "emit")' /\ call'[p].req = r
            /\ Due' = Due \cup {[type |-> "CANCELLED", req |-> r, hm |-> call'[p].hm]}
        BY <3>2, <3>3, <4>1
      <4>3. call'[p].hm = assigned[r]
        BY <3>1, <3>3, <4>2 DEF Sound
      <4>4. Job!CallOff(r)
        BY <3>3, <4>2, <4>3 DEF Job!CallOff, Moved
      <4>. QED  BY <3>1, <4>4 DEF Job!JobNext
    <3>4. CASE /\ Moved(p, "acceptApplication", {"OPEN"}, "ASSIGNED")
               /\ Emitting(p)' /\ assigned' = [assigned EXCEPT ![r] = c.hm]
      <4>1. /\ "acceptApplication" \in DOMAIN EventOf
            /\ EventOf["acceptApplication"] = "ASSIGNED"
        BY DEF EventOf
      <4>2. Due' = Due \cup {[type |-> "ASSIGNED", req |-> r, hm |-> c.hm]}
        BY <3>2, <3>4, <4>1
      <4>3. c.hm \in Handymen
        BY <3>1, <3>4 DEF Moved, At, Call
      <4>4. Job!Assign(r, c.hm)
        BY <3>4, <4>2 DEF Job!Assign, Moved
      <4>. QED  BY <3>1, <4>3, <4>4 DEF Job!JobNext
    <3>5. CASE /\ Moved(p, "startRequest", {"ASSIGNED"}, "IN_PROGRESS")
               /\ ~Emitting(p)' /\ assigned' = assigned
      <4>1. ~Emitting(p)
        BY <3>5 DEF Moved, At, Emitting
      <4>2. Due' = Due
        BY <2>1, <3>5, <4>1, DueStep
      <4>3. Job!StartWork(r)
        BY <3>5, <4>2 DEF Job!StartWork, Moved
      <4>. QED  BY <3>1, <4>3 DEF Job!JobNext
    <3>6. CASE /\ Moved(p, "cancelAssignedRequest", {"ASSIGNED"}, "OPEN")
               /\ Emitting(p)' /\ assigned' = [assigned EXCEPT ![r] = None]
      <4>1. /\ "cancelAssignedRequest" \in DOMAIN EventOf
            /\ EventOf["cancelAssignedRequest"] = "UNASSIGNED"
        BY DEF EventOf
      <4>2. Due' = Due \cup {[type |-> "UNASSIGNED", req |-> r, hm |-> c.hm]}
        BY <3>2, <3>6, <4>1
      <4>3. assigned[r] = c.hm
        BY <3>1, <3>6 DEF Moved, At, Call, HandymanOps, Acting
      <4>4. Job!GiveBack(r)
        BY <3>6, <4>2, <4>3 DEF Job!GiveBack, Moved
      <4>. QED  BY <3>1, <4>4 DEF Job!JobNext
    <3>7. CASE /\ Moved(p, "completeRequest", {"IN_PROGRESS"}, "AWAITING_CONFIRMATION")
               /\ Emitting(p)' /\ assigned' = assigned
      <4>1. /\ "completeRequest" \in DOMAIN EventOf
            /\ EventOf["completeRequest"] = "COMPLETION_SUBMITTED"
        BY DEF EventOf
      <4>2. Due' = Due \cup {[type |-> "COMPLETION_SUBMITTED", req |-> r, hm |-> c.hm]}
        BY <3>2, <3>7, <4>1
      <4>3. assigned[r] = c.hm
        BY <3>1, <3>7 DEF Moved, Sound
      <4>4. Job!HandOver(r)
        BY <3>7, <4>2, <4>3 DEF Job!HandOver, Moved
      <4>. QED  BY <3>1, <4>4 DEF Job!JobNext
    <3>8. CASE /\ Moved(p, "confirmCompletion", {"AWAITING_CONFIRMATION"}, "COMPLETED")
               /\ Emitting(p)' /\ assigned' = assigned
      <4>1. /\ "confirmCompletion" \in DOMAIN EventOf
            /\ EventOf["confirmCompletion"] = "COMPLETED"
        BY DEF EventOf
      <4>2. Due' = Due \cup {[type |-> "COMPLETED", req |-> r, hm |-> c.hm]}
        BY <3>2, <3>8, <4>1
      <4>3. assigned[r] = c.hm
        BY <3>1, <3>8 DEF Moved, Sound
      <4>4. Job!Confirm(r)
        BY <3>8, <4>2, <4>3 DEF Job!Confirm, Moved
      <4>. QED  BY <3>1, <4>4 DEF Job!JobNext
    <3>. QED  BY <1>0, <2>7, <3>3, <3>4, <3>5, <3>6, <3>7, <3>8, JobMoves
  <2>. QED  BY <2>4, <2>5, <2>6, <2>7
<1>. QED  BY <1>1, <1>2

\* The eleven handlers, with their stale reads, lost races and crashes, implement
\* the atomic life cycle of JobLifecycle when no user has two handlers running:
\* every committed transition owes exactly its own event, and an event is told at
\* most once for it or lost in a crash.
THEOREM ServiceRequestsImplementsJob ==
    ASSUME Serial = TRUE PROVE Spec => ImplementsJob
<1>1. SerialInv /\ [Next]_vars => SerialInv'
  BY SerialStep
<1>2. Init => Job!JobInit
  BY DEF Init, Job!JobInit, Due, Running, Idle
<1>3. SerialInv /\ SerialInv' /\ [Next]_vars
        => [Job!JobNext]_<<status, assigned, Due, events>>
  BY JobRefined
<1>. QED
  BY <1>1, <1>2, <1>3, SerialInit, PTL DEF Spec, ImplementsJob, Job!JobSpec, Job!jobVars

----------------------------------------------------------------------------
(* Requests that have left OPEN.                                           *)

\* A handler at the unguarded write of an edit or of an application.
Late(p) == At(p, "update", "write") \/ At(p, "applyToRequest", "write")

\* What ClosedStaysAsItWas claims of the step for request r.
Stays(r) ==
    /\ status'[r] \notin {"NONE", "OPEN"}
    /\ details'[r] = details[r]
    /\ \A h \in Handymen : app'[r][h] = "PENDING" => app[r][h] = "PENDING"

\* The writes of handlers in flight, p's own first.
LEMMA ClosedWrites ==
    ASSUME TypeOK, NEW p \in Slots, Continue(p), NEW r \in Requests, Closed(r),
           status'[r] # "OPEN"
    PROVE  Stays(r)
<1>0. /\ status[r] \notin {"NONE", "OPEN"}
      /\ Late(p) => call[p].req # r
  BY DEF Closed, Late
<1>1. CASE UNCHANGED db
  BY <1>0, <1>1 DEF db, Stays
<1>2. CASE UpdateWrite(p)
  BY <1>0, <1>2 DEF UpdateWrite, Late, TypeOK, Stays
<1>3. CASE CancelWrite(p) /\ ~Throw(p)
  BY <1>0, <1>3 DEF CancelWrite, TypeOK, Stays
<1>4. CASE AcceptWrite(p) /\ ~Throw(p)
  BY <1>0, <1>4 DEF AcceptWrite, TypeOK, Stays
<1>5. CASE (RejectWrite(p) \/ WithdrawWrite(p)) /\ ~Throw(p)
  BY <1>0, <1>5 DEF RejectWrite, WithdrawWrite, TypeOK, Stays
<1>6. CASE (ConfirmWrite(p) \/ StartWrite(p) \/ CompleteWrite(p)) /\ ~Throw(p)
  BY <1>0, <1>6 DEF ConfirmWrite, StartWrite, CompleteWrite, TypeOK, Stays
<1>7. CASE ApplyWrite(p) /\ ~Throw(p)
  <2>1. call[p].req # r
    BY <1>0, <1>7 DEF ApplyWrite, Late
  <2>. QED  BY <1>0, <1>7, <2>1 DEF ApplyWrite, TypeOK, Stays
<1>8. CASE CancelAssignedWrite(p) /\ ~Throw(p)
  BY <1>0, <1>8 DEF CancelAssignedWrite, GiveUp, TypeOK, Stays
<1>. QED
  BY <1>1, <1>2, <1>3, <1>4, <1>5, <1>6, <1>7, <1>8 DEF Continue, CancelWrite,
     CheckApplication, AcceptWrite, RejectWrite, ConfirmWrite, FindExisting, RecheckOpen,
     ApplyWrite, WithdrawWrite, StartWrite, CancelAssignedWrite, CompleteWrite, Emit, Throw

\* No handler in flight reaches such a write on a request that is not OPEN.
LEMMA ClosedMoves ==
    ASSUME TypeOK, NEW p \in Slots, Continue(p), Late(p)'
    PROVE  status[call'[p].req] = "OPEN"
<1>1. call[p].op # "idle" /\ call[p].op = call'[p].op
  BY Moves DEF Kept, Late, At
<1>2. call[p].op \in {"update", "applyToRequest"} /\ call'[p].step = "write"
  BY <1>1 DEF Late, At
<1>3. ~Return(p)
  BY <1>1, ReturnFields
<1>4. ~FindExisting(p)
  <2>1. ASSUME FindExisting(p) PROVE FALSE
    <3>1. call' = [call EXCEPT ![p].step = "recheck", ![p].seen = app[call[p].req][call[p].hm]]
      BY <1>3, <2>1 DEF FindExisting, Throw
    <3>2. call[p] \in CallRecord
      BY <1>1, SlotType DEF Call
    <3>3. call'[p].step = "recheck"
      BY <3>1, <3>2 DEF TypeOK, CallRecord
    <3>. QED  BY <1>2, <3>3
  <2>. QED  BY <2>1
<1>5. RecheckOpen(p)
  BY <1>2, <1>3, <1>4 DEF Continue, UpdateWrite, CancelWrite, CheckApplication, AcceptWrite,
     RejectWrite, ConfirmWrite, ApplyWrite, WithdrawWrite, StartWrite, CancelAssignedWrite,
     CompleteWrite, Emit, At, Throw
<1>6. Goto(p, "write") /\ status[call[p].req] = "OPEN"
  BY <1>3, <1>5 DEF RecheckOpen, Throw
<1>7. call'[p].req = call[p].req
  BY <1>1, <1>6, GotoFields DEF Steps
<1>. QED  BY <1>6, <1>7

\* Nor does one start at it; a new row is no row of a request that was there.
LEMMA ClosedStarts ==
    ASSUME TypeOK, NEW p \in Slots, CustomerStarts(p) \/ HandymanStarts(p),
           NEW r \in Requests, Closed(r)
    PROVE  Stays(r) /\ (Late(p)' => call'[p].req # r)
<1>0. status[r] \notin {"NONE", "OPEN"}
  BY DEF Closed
<1>1. CASE HandymanStarts(p)
  <2>. PICK h \in Handymen, s \in Requests :
         \/ ApplyToRequest(p, h, s)
         \/ WithdrawApplication(p, h, s)
         \/ StartRequest(p, h, s)
         \/ CancelAssignedRequest(p, h, s)
         \/ CompleteRequest(p, h, s)
    BY <1>1 DEF HandymanStarts
  <2>1. Stays(r)
    BY <1>0 DEF ApplyToRequest, WithdrawApplication, StartRequest, CancelAssignedRequest,
       CompleteRequest, db, Stays
  <2>2. ~Late(p)'
    BY DEF ApplyToRequest, WithdrawApplication, StartRequest, CancelAssignedRequest,
       CompleteRequest, Begin, HandymanCall, TypeOK, Late, At
  <2>. QED  BY <2>1, <2>2
<1>2. CASE CustomerStarts(p)
  <2>. PICK u \in Customers, s \in Requests :
         \/ Create(p, u, s)
         \/ Update(p, u, s)
         \/ Cancel(p, u, s)
         \/ \E op \in CustomerOps, o \in Requests, h \in Handymen :
                DecideApplication(p, op, u, s, o, h)
         \/ ConfirmCompletion(p, u, s)
    BY <1>2 DEF CustomerStarts
  <2>1. CASE Create(p, u, s)
    <3>1. s # r
      BY <1>0, <2>1 DEF Create
    <3>2. Stays(r)
      BY <1>0, <2>1, <3>1 DEF Create, TypeOK, Stays
    <3>3. ~Late(p)'
      BY <2>1 DEF Create, Begin, CustomerCall, TypeOK, Late, At
    <3>. QED  BY <3>2, <3>3
  <2>2. CASE Update(p, u, s)
    <3>1. s # r /\ UNCHANGED db
      BY <1>0, <2>2 DEF Update, db
    <3>2. call'[p].req = s
      BY <2>2 DEF Update, Begin, CustomerCall, TypeOK
    <3>. QED  BY <1>0, <3>1, <3>2 DEF db, Stays
  <2>3. CASE Cancel(p, u, s) \/ ConfirmCompletion(p, u, s)
    <3>1. Stays(r)
      BY <1>0, <2>3 DEF Cancel, ConfirmCompletion, db, Stays
    <3>2. ~Late(p)'
      BY <2>3 DEF Cancel, ConfirmCompletion, Begin, CustomerCall, TypeOK, Late, At
    <3>. QED  BY <3>1, <3>2
  <2>4. CASE \E op \in CustomerOps, o \in Requests, h \in Handymen :
                DecideApplication(p, op, u, s, o, h)
    <3>1. Stays(r)
      BY <1>0, <2>4 DEF DecideApplication, db, Stays
    <3>2. ~Late(p)'
      BY <2>4 DEF DecideApplication, Begin, CustomerCall, TypeOK, Late, At
    <3>. QED  BY <3>1, <3>2
  <2>. QED  BY <2>1, <2>2, <2>3, <2>4
<1>. QED  BY <1>1, <1>2

\* However many handlers run and whatever crashes: once the edits and applications that
\* found a request OPEN are written, none follows until a back-out reopens it.
THEOREM ClosedStaysAsItWasAlways == Spec => ClosedStaysAsItWas
<1>1. ASSUME TypeOK, [Next]_vars, NEW r \in Requests, Closed(r), status'[r] # "OPEN"
      PROVE  Closed(r)' /\ Stays(r)
  <2>0. /\ status[r] \notin {"NONE", "OPEN"}
        /\ \A q \in Slots : Late(q) => call[q].req # r
    BY <1>1 DEF Closed, Late
  <2>1. ASSUME Stays(r), \A q \in Slots : Late(q)' => call'[q].req # r
        PROVE  Closed(r)' /\ Stays(r)
    BY <2>1 DEF Stays, Closed, Late
  <2>2. ASSUME NEW p \in Slots, Stays(r), Late(p)' => call'[p].req # r,
               CustomerStarts(p) \/ HandymanStarts(p) \/ Continue(p) \/ Crash(p)
        PROVE  Closed(r)' /\ Stays(r)
    <3>1. \A q \in Slots \ {p} : call'[q] = call[q]
      BY <1>1, <2>2, OneMoves
    <3>2. ASSUME NEW q \in Slots, Late(q)' PROVE call'[q].req # r
      BY <2>0, <2>2, <3>1, <3>2 DEF Late, At
    <3>. QED  BY <2>1, <2>2, <3>2
  <2>3. ASSUME NEW p \in Slots, CustomerStarts(p) \/ HandymanStarts(p)
        PROVE  Closed(r)' /\ Stays(r)
    BY <1>1, <2>2, <2>3, ClosedStarts
  <2>4. ASSUME NEW p \in Slots, Continue(p) PROVE Closed(r)' /\ Stays(r)
    <3>1. Stays(r)
      BY <1>1, <2>4, ClosedWrites
    <3>2. Late(p)' => call'[p].req # r
      BY <1>1, <2>0, <2>4, ClosedMoves
    <3>. QED  BY <2>2, <2>4, <3>1, <3>2
  <2>5. ASSUME NEW p \in Slots, Crash(p) PROVE Closed(r)' /\ Stays(r)
    <3>1. Stays(r) /\ ~Late(p)'
      BY <1>1, <2>0, <2>5, ReturnFields DEF Crash, db, Stays, Late, At
    <3>. QED  BY <2>2, <2>5, <3>1
  <2>6. CASE UNCHANGED vars
    BY <2>0, <2>1, <2>6 DEF vars, Stays, Late, At
  <2>. QED  BY <1>1, <2>3, <2>4, <2>5, <2>6 DEF Next
<1>2. TypeOK /\ [Next]_vars =>
        [\A r \in Requests : Closed(r) /\ status'[r] # "OPEN" =>
            /\ Closed(r)'
            /\ details'[r] = details[r]
            /\ \A h \in Handymen : app'[r][h] = "PENDING" => app[r][h] = "PENDING"]_vars
  BY <1>1 DEF Stays
<1>. QED  BY <1>2, TypeInit, TypeStep, PTL DEF Spec, ClosedStaysAsItWas

=============================================================================
