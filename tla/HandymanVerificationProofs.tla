--------------------- MODULE HandymanVerificationProofs ---------------------
(***************************************************************************)
(* Theorems about HandymanVerification, for any sets of handymen, admins,  *)
(* documents, concurrent handlers and kinds of failure.                    *)
(***************************************************************************)
EXTENDS HandymanVerification, TLAPS

LEMMA SlotType ==
    ASSUME TypeOK, NEW p \in Slots, call[p].op # "idle"
    PROVE  call[p] \in Call /\ call[p] \in CallRecord
BY DEF TypeOK, Idle, Call

LEMMA HandlerType ==
    ASSUME TypeOK, NEW op \in HandymanOps \cup AdminOps,
           NEW step \in Steps \ {"emit", "audit", "access"},
           NEW u \in Profiles \cup Admins, NEW h \in Profiles, NEW d \in Docs \cup {None},
           op \in HandymanOps => u = h, op \in AdminOps => u \in Admins,
           op \in DocOps => d \in Docs
    PROVE  Handler(op, step, u, h, d) \in Call
BY DEF Handler, Call, CallRecord

\* What the first read of a handler has found out.
FirstRead(c) ==
    /\ c.op = "completeProfile" => status[c.prof] \in Completable
    /\ c.op = "deleteDocument" => status[c.prof] # "DOCUMENTS_SUBMITTED"
    /\ c.op = "submitDocuments" =>
           c.step = "documents" /\ status[c.prof] \in {"PROFILE_COMPLETE", "REJECTED"}
    /\ c.op \in DOMAIN Decision =>
           c.step = "write" /\ status[c.prof] = "DOCUMENTS_SUBMITTED"
    /\ c.op = "uploadDocumentFile" => c.step = "store" /\ Fresh(c.doc)

\* Every handler starts by reading, and only reads.
LEMMA StartsRead ==
    ASSUME TypeOK, NEW p \in Slots, HandymanStarts(p) \/ AdminStarts(p)
    PROVE  \E c \in Call : Reads(p, c) /\ FirstRead(c)
<1>. USE DEF HandymanOps, AdminOps, Steps, DocOps
<1>1. ASSUME NEW h \in Profiles, Ensure(p, h)
      PROVE  \E c \in Call : Reads(p, c) /\ FirstRead(c)
  <2>. DEFINE c == Handler("ensure", "write", h, h, None)
  <2>1. c \in Call
    BY HandlerType
  <2>2. c.op = "ensure"
    BY DEF Handler
  <2>3. Reads(p, c)
    BY <1>1 DEF Ensure
  <2>. HIDE DEF c
  <2>. QED  BY <2>1, <2>2, <2>3 DEF FirstRead, Decision
<1>2. ASSUME NEW h \in Profiles, CompleteProfile(p, h)
      PROVE  \E c \in Call : Reads(p, c) /\ FirstRead(c)
  <2>. DEFINE c == Handler("completeProfile", "write", h, h, None)
  <2>1. c \in Call
    BY HandlerType
  <2>2. c.op = "completeProfile" /\ c.prof = h
    BY DEF Handler
  <2>3. Reads(p, c) /\ status[h] \in Completable
    BY <1>2 DEF CompleteProfile
  <2>. HIDE DEF c
  <2>. QED  BY <2>1, <2>2, <2>3 DEF FirstRead, Decision
<1>3. ASSUME NEW h \in Profiles, UpdateProfile(p, h)
      PROVE  \E c \in Call : Reads(p, c) /\ FirstRead(c)
  <2>. DEFINE c == Handler("updateProfile", "write", h, h, None)
  <2>1. c \in Call
    BY HandlerType
  <2>2. c.op = "updateProfile"
    BY DEF Handler
  <2>3. Reads(p, c)
    BY <1>3 DEF UpdateProfile
  <2>. HIDE DEF c
  <2>. QED  BY <2>1, <2>2, <2>3 DEF FirstRead, Decision
<1>4. ASSUME NEW h \in Profiles, NEW d \in Docs, UploadDocumentFile(p, h, d)
      PROVE  \E c \in Call : Reads(p, c) /\ FirstRead(c)
  <2>. DEFINE c == Handler("uploadDocumentFile", "store", h, h, d)
  <2>1. c \in Call
    BY HandlerType
  <2>2. c.op = "uploadDocumentFile" /\ c.step = "store" /\ c.doc = d
    BY DEF Handler
  <2>3. Reads(p, c) /\ Fresh(d)
    BY <1>4 DEF UploadDocumentFile
  <2>. HIDE DEF c
  <2>. QED  BY <2>1, <2>2, <2>3 DEF FirstRead, Decision
<1>5. ASSUME NEW h \in Profiles, NEW d \in Docs, DeleteDocument(p, h, d)
      PROVE  \E c \in Call : Reads(p, c) /\ FirstRead(c)
  <2>. DEFINE c == Handler("deleteDocument", "write", h, h, d)
  <2>1. c \in Call
    BY HandlerType
  <2>2. c.op = "deleteDocument" /\ c.prof = h
    BY DEF Handler
  <2>3. Reads(p, c) /\ status[h] # "DOCUMENTS_SUBMITTED"
    BY <1>5 DEF DeleteDocument, MayDelete
  <2>. HIDE DEF c
  <2>. QED  BY <2>1, <2>2, <2>3 DEF FirstRead, Decision
<1>6. ASSUME NEW h \in Profiles, SubmitDocuments(p, h)
      PROVE  \E c \in Call : Reads(p, c) /\ FirstRead(c)
  <2>. DEFINE c == Handler("submitDocuments", "documents", h, h, None)
  <2>1. c \in Call
    BY HandlerType
  <2>2. c.op = "submitDocuments" /\ c.step = "documents" /\ c.prof = h
    BY DEF Handler
  <2>3. Reads(p, c) /\ status[h] \in {"PROFILE_COMPLETE", "REJECTED"}
    BY <1>6 DEF SubmitDocuments
  <2>. HIDE DEF c
  <2>. QED  BY <2>1, <2>2, <2>3 DEF FirstRead, Decision
<1>7. ASSUME NEW a \in Admins, NEW h \in Profiles, NEW op \in AdminOps, Decide(p, op, a, h)
      PROVE  \E c \in Call : Reads(p, c) /\ FirstRead(c)
  <2>. DEFINE c == Handler(op, "write", a, h, None)
  <2>0. op \in {"approveHandyman", "rejectHandyman"}
    BY <1>7 DEF Decide, Decision
  <2>1. c \in Call
    BY <2>0, HandlerType
  <2>2. c.op = op /\ c.step = "write" /\ c.prof = h
    BY DEF Handler
  <2>3. Reads(p, c) /\ status[h] = "DOCUMENTS_SUBMITTED"
    BY <1>7 DEF Decide
  <2>. HIDE DEF c
  <2>. QED  BY <2>0, <2>1, <2>2, <2>3 DEF FirstRead
<1>8. ASSUME NEW a \in Admins, NEW h \in Profiles, NEW d \in Docs,
             ReviewDocument(p, a, h, d)
      PROVE  \E c \in Call : Reads(p, c) /\ FirstRead(c)
  <2>. DEFINE c == Handler("reviewDocument", "write", a, h, d)
  <2>1. c \in Call
    BY HandlerType
  <2>2. c.op = "reviewDocument"
    BY DEF Handler
  <2>3. Reads(p, c)
    BY <1>8 DEF ReviewDocument
  <2>. HIDE DEF c
  <2>. QED  BY <2>1, <2>2, <2>3 DEF FirstRead, Decision
<1>9. ASSUME NEW a \in Admins, NEW h \in Profiles, NEW d \in Docs,
             GetHandymanForReview(p, a, h, d)
      PROVE  \E c \in Call : Reads(p, c) /\ FirstRead(c)
  <2>. DEFINE c == Handler("getHandymanForReview", "access", a, h, d)
  <2>1. c \in Call
    BY DEF Handler, Call, CallRecord
  <2>2. c.op = "getHandymanForReview"
    BY DEF Handler
  <2>3. Reads(p, c)
    BY <1>9 DEF GetHandymanForReview
  <2>. HIDE DEF c
  <2>. QED  BY <2>1, <2>2, <2>3 DEF FirstRead, Decision
<1>. QED
  BY <1>1, <1>2, <1>3, <1>4, <1>5, <1>6, <1>7, <1>8, <1>9
     DEF HandymanStarts, AdminStarts

LEMMA ReadFields ==
    ASSUME TypeOK, NEW p \in Slots, NEW c \in Call, Reads(p, c)
    PROVE  /\ call' \in [Slots -> Call \cup {Idle}]
           /\ call'[p] = c
           /\ \A q \in Slots \ {p} : call'[q] = call[q]
           /\ call[p].op = "idle"
           /\ "overlap" \notin faults /\ c.by \in Profiles =>
                  \A q \in Slots : call[q].op # "idle" => call[q].by # c.by
           /\ UNCHANGED <<status, fields, doc, file, removed, events, audit>>
BY DEF TypeOK, Reads, Begin, Running, profiles, store

LEMMA GotoFields ==
    ASSUME TypeOK, NEW p \in Slots, call[p].op # "idle", NEW step \in Steps,
           step = "emit" => call[p].op \in DOMAIN EventOf,
           step = "audit" => call[p].op \in DOMAIN ActionOf,
           step = "access" => call[p].op \in {"reviewDocument", "getHandymanForReview"},
           Goto(p, step)
    PROVE  /\ call' \in [Slots -> Call \cup {Idle}]
           /\ call'[p].op = call[p].op
           /\ call'[p].step = step
           /\ call'[p].by = call[p].by
           /\ call'[p].prof = call[p].prof
           /\ call'[p].doc = call[p].doc
           /\ \A q \in Slots \ {p} : call'[q] = call[q]
<1>1. call[p] \in Call
  BY SlotType
<1>2. call'[p] = [call[p] EXCEPT !.step = step]
  BY DEF TypeOK, Goto
<1>3. [call[p] EXCEPT !.step = step] \in Call
  BY <1>1 DEF Call, CallRecord
<1>4. call' \in [Slots -> Call \cup {Idle}]
  BY <1>3 DEF TypeOK, Goto
<1>. QED  BY <1>1, <1>2, <1>4 DEF Call, CallRecord, Goto, TypeOK

LEMMA ReturnFields ==
    ASSUME TypeOK, NEW p \in Slots, Return(p)
    PROVE  /\ call' \in [Slots -> Call \cup {Idle}]
           /\ call'[p].op = "idle"
           /\ \A q \in Slots \ {p} : call'[q] = call[q]
BY DEF TypeOK, Return, Idle

----------------------------------------------------------------------------
(* Types.                                                                  *)

LEMMA TypeThrow ==
    ASSUME TypeOK, NEW p \in Slots, Throw(p), UNCHANGED <<events, audit, faults>>,
           late' \in SUBSET (Profiles \X Docs)
    PROVE  TypeOK'
BY ReturnFields DEF TypeOK, Throw, profiles, store

LEMMA TypeContinue ==
    ASSUME TypeOK, NEW p \in Slots, Continue(p), UNCHANGED faults,
           late' \in SUBSET (Profiles \X Docs)
    PROVE  TypeOK'
<1>0. call[p].op # "idle" => /\ call[p] \in Call
                             /\ call[p].prof \in Profiles
                             /\ call[p].op \in DocOps => call[p].doc \in Docs
  BY SlotType DEF Call, CallRecord
<1>. USE DEF VerificationStatus, DocumentStatus
<1>1. CASE EnsureWrite(p)
  <2>1. status' \in [Profiles -> VerificationStatus \cup {"NONE"}]
    BY <1>1, <1>0 DEF EnsureWrite, SetStatus, TypeOK
  <2>. QED  BY <1>1, <2>1, ReturnFields DEF EnsureWrite, TypeOK, store
<1>2. CASE CompleteWrite(p)
  <2>1. CASE ~Throw(p)
    <3>1. call' \in [Slots -> Call \cup {Idle}]
      BY <1>2, <2>1, GotoFields DEF CompleteWrite, At, Steps, EventOf
    <3>. QED  BY <1>2, <2>1, <3>1 DEF CompleteWrite, SetStatus, TypeOK, store
  <2>. QED  BY <1>2, <2>1, TypeThrow DEF CompleteWrite
<1>3. CASE UpdateWrite(p)
  BY <1>3, ReturnFields DEF UpdateWrite, TypeOK, store
<1>4. CASE StoreFile(p)
  <2>1. CASE ~Throw(p)
    <3>1. call' \in [Slots -> Call \cup {Idle}]
      BY <1>4, <2>1, GotoFields DEF StoreFile, At, Steps
    <3>. QED  BY <1>4, <2>1, <3>1 DEF StoreFile, TypeOK, profiles
  <2>. QED  BY <1>4, <2>1, TypeThrow DEF StoreFile
<1>5. CASE UploadWrite(p)
  <2>1. call' \in [Slots -> Call \cup {Idle}]
    BY <1>5, ReturnFields, GotoFields DEF UploadWrite, At, Steps
  <2>2. [owner |-> call[p].prof, status |-> "PENDING"] \in DocumentRow
    BY <1>5, <1>0 DEF UploadWrite, At, DocumentRow
  <2>. QED  BY <1>5, <2>1, <2>2 DEF UploadWrite, TypeOK, profiles
<1>6. CASE UploadCleanUp(p)
  BY <1>6, ReturnFields DEF UploadCleanUp, CleanUp, TypeOK, profiles
<1>7. CASE DeleteWrite(p)
  <2>1. call[p].doc \in Docs
    BY <1>7, <1>0 DEF DeleteWrite, At, DocOps
  <2>. QED  BY <1>7, <2>1, ReturnFields DEF DeleteWrite, TypeOK, profiles
<1>8. CASE CheckDocuments(p)
  <2>1. CASE Goto(p, "write") /\ UNCHANGED <<profiles, store>>
    <3>1. call' \in [Slots -> Call \cup {Idle}]
      BY <1>8, <2>1, GotoFields DEF CheckDocuments, At, Steps
    <3>. QED  BY <1>8, <2>1, <3>1 DEF CheckDocuments, TypeOK, profiles, store
  <2>. QED  BY <1>8, <2>1, TypeThrow DEF CheckDocuments
<1>9. CASE SubmitWrite(p)
  <2>1. call' \in [Slots -> Call \cup {Idle}]
    BY <1>9, GotoFields DEF SubmitWrite, At, Steps, EventOf
  <2>. QED  BY <1>9, <2>1 DEF SubmitWrite, SetStatus, TypeOK, store
<1>10. CASE DecideWrite(p)
  <2>1. call' \in [Slots -> Call \cup {Idle}]
    BY <1>10, GotoFields DEF DecideWrite, Decision, At, Steps, EventOf
  <2>2. Decision[call[p].op] \in VerificationStatus
    BY <1>10 DEF DecideWrite, Decision
  <2>. QED  BY <1>10, <2>1, <2>2 DEF DecideWrite, SetStatus, TypeOK, store
<1>11. CASE ReviewWrite(p)
  <2>1. CASE ~Throw(p)
    <3>1. call' \in [Slots -> Call \cup {Idle}]
      BY <1>11, <2>1, GotoFields DEF ReviewWrite, At, Steps, ActionOf
    <3>2. doc[call[p].doc] \in DocumentRow
      BY <1>11, <2>1, <1>0 DEF ReviewWrite, At, DocOps, TypeOK
    <3>3. \A x \in DocumentRow, t \in DocumentStatus : [x EXCEPT !.status = t] \in DocumentRow
      BY DEF DocumentRow
    <3>4. PICK t \in {"APPROVED", "REJECTED"} :
            doc' = [doc EXCEPT ![call[p].doc] = [doc[call[p].doc] EXCEPT !.status = t]]
      BY <1>11, <2>1 DEF ReviewWrite, Throw
    <3>5. [doc[call[p].doc] EXCEPT !.status = t] \in DocumentRow
      BY <3>2, <3>3
    <3>6. doc' \in [Docs -> DocumentRow \cup {None}]
      BY <3>4, <3>5 DEF TypeOK
    <3>. QED  BY <1>11, <2>1, <3>1, <3>6 DEF ReviewWrite, TypeOK, profiles
  <2>. QED  BY <1>11, <2>1, TypeThrow DEF ReviewWrite
<1>12. CASE Audit(p)
  <2>1. call[p].op \in DOMAIN ActionOf
    BY <1>12, <1>0 DEF Audit, Running, Call
  <2>2. call' \in [Slots -> Call \cup {Idle}]
    BY <1>12, ReturnFields, GotoFields DEF Audit, Running, Steps
  <2>3. [prof |-> call[p].prof, action |-> ActionOf[call[p].op]] \in AuditLog
    BY <1>12, <1>0, <2>1 DEF Audit, Running, AuditLog, ActionOf
  <2>. QED  BY <1>12, <2>2, <2>3 DEF Audit, Log, TypeOK, profiles, store
<1>13. CASE LogDocumentAccess(p)
  <2>1. [prof |-> call[p].prof, action |-> "DOCUMENT_ACCESS"] \in AuditLog
    BY <1>13, <1>0 DEF LogDocumentAccess, Running, AuditLog
  <2>. QED  BY <1>13, <2>1, ReturnFields DEF LogDocumentAccess, Log, TypeOK, profiles, store
<1>14. CASE Emit(p)
  <2>1. call[p].op \in DOMAIN EventOf
    BY <1>14, <1>0 DEF Emit, Running, Call
  <2>2. call' \in [Slots -> Call \cup {Idle}]
    <3>1. call[p].op \in AdminOps => call[p].op \in DOMAIN ActionOf
      BY <2>1 DEF EventOf, ActionOf, AdminOps
    <3>. QED
      BY <1>14, <3>1, ReturnFields, GotoFields DEF Emit, AfterEmit, Running, Steps
  <2>3. [type |-> EventOf[call[p].op], prof |-> call[p].prof] \in Event
    BY <1>14, <1>0, <2>1 DEF Emit, Running, Event
  <2>. QED  BY <1>14, <2>2, <2>3 DEF Emit, TypeOK, profiles, store
<1>. QED
  BY <1>1, <1>2, <1>3, <1>4, <1>5, <1>6, <1>7, <1>8, <1>9, <1>10, <1>11, <1>12,
     <1>13, <1>14 DEF Continue

LEMMA TypeStep == TypeOK /\ [Next]_vars => TypeOK'
<1>. SUFFICES ASSUME TypeOK, [Next]_vars PROVE TypeOK'
  OBVIOUS
<1>0. UNCHANGED faults /\ late' \in SUBSET (Profiles \X Docs)
  BY DEF Next, vars, Crossing, TypeOK
<1>1. ASSUME NEW p \in Slots, HandymanStarts(p) \/ AdminStarts(p) PROVE TypeOK'
  BY <1>0, <1>1, StartsRead, ReadFields DEF TypeOK
<1>2. ASSUME NEW p \in Slots, Continue(p) PROVE TypeOK'
  BY <1>0, <1>2, TypeContinue
<1>3. ASSUME NEW p \in Slots, Crash(p) PROVE TypeOK'
  BY <1>0, <1>3, ReturnFields DEF Crash, TypeOK, profiles, store
<1>4. CASE UNCHANGED vars
  BY <1>4 DEF TypeOK, vars
<1>. QED  BY <1>1, <1>2, <1>3, <1>4 DEF Next

LEMMA TypeInit == Init => TypeOK
BY DEF Init, TypeOK

\* The tables, the stored files, the running handlers, the events and the audit
\* log keep their shapes: a handler reaches only the steps that are its own.
THEOREM TypeCorrect == Spec => []TypeOK
BY TypeInit, TypeStep, PTL DEF Spec

----------------------------------------------------------------------------
(* What a step does to the running handlers.                               *)

\* Handler p goes on, as the handler it was, or returns; the others wait.
Moves(p) ==
    /\ call[p].op # "idle"
    /\ \A q \in Slots \ {p} : call'[q] = call[q]
    /\ \/ call'[p].op = "idle"
       \/ /\ call'[p].op = call[p].op
          /\ call'[p].by = call[p].by
          /\ call'[p].prof = call[p].prof
          /\ call'[p].doc = call[p].doc

LEMMA ReturnMoves ==
    ASSUME TypeOK, NEW p \in Slots, call[p].op # "idle", Return(p)
    PROVE  Moves(p) /\ call'[p].op = "idle"
BY ReturnFields DEF Moves

LEMMA GotoMoves ==
    ASSUME TypeOK, NEW p \in Slots, call[p].op # "idle", NEW step \in Steps, Goto(p, step),
           step \notin {"emit", "audit", "access"}
    PROVE  Moves(p) /\ call'[p].step = step /\ call'[p].op = call[p].op
BY GotoFields DEF Moves

LEMMA EmitMoves ==
    ASSUME TypeOK, NEW p \in Slots, call[p].op \in DOMAIN EventOf, Goto(p, "emit")
    PROVE  Moves(p) /\ call'[p].step = "emit" /\ call'[p].op = call[p].op
<1>1. call[p].op # "idle"
  BY DEF EventOf
<1>. QED  BY <1>1, GotoFields DEF Moves, Steps

LEMMA AuditMoves ==
    ASSUME TypeOK, NEW p \in Slots, call[p].op \in DOMAIN ActionOf, Goto(p, "audit")
    PROVE  Moves(p) /\ call'[p].step = "audit" /\ call'[p].op = call[p].op
<1>1. call[p].op # "idle"
  BY DEF ActionOf
<1>. QED  BY <1>1, GotoFields DEF Moves, Steps

LEMMA AccessMoves ==
    ASSUME TypeOK, NEW p \in Slots, call[p].op = "reviewDocument", Goto(p, "access")
    PROVE  Moves(p) /\ call'[p].step = "access" /\ call'[p].op = call[p].op
BY GotoFields DEF Moves, Steps

\* The steps that write documents or files, those that write a status, and
\* nothing else does.
LEMMA Footprint ==
    ASSUME TypeOK, NEW p \in Slots, Continue(p)
    PROVE  /\ Moves(p)
           /\ \/ StoreFile(p) \/ UploadWrite(p) \/ UploadCleanUp(p)
              \/ DeleteWrite(p) \/ ReviewWrite(p)
              \/ UNCHANGED store /\ call[p].op # "uploadDocumentFile"
           /\ \/ EnsureWrite(p) \/ CompleteWrite(p) \/ SubmitWrite(p) \/ DecideWrite(p)
              \/ UNCHANGED status
<1>1. CASE EnsureWrite(p)
  <2>1. Moves(p)
    BY <1>1, ReturnMoves DEF EnsureWrite, At
  <2>. QED  BY <1>1, <2>1 DEF EnsureWrite, At
<1>2. CASE CompleteWrite(p)
  <2>1. Moves(p)
    BY <1>2, EmitMoves, ReturnMoves DEF CompleteWrite, At, EventOf, Throw
  <2>. QED  BY <1>2, <2>1 DEF CompleteWrite, At, Throw
<1>3. CASE UpdateWrite(p)
  <2>1. Moves(p)
    BY <1>3, ReturnMoves DEF UpdateWrite, At
  <2>. QED  BY <1>3, <2>1 DEF UpdateWrite, At
<1>4. CASE StoreFile(p)
  <2>1. Moves(p)
    BY <1>4, GotoMoves, ReturnMoves DEF StoreFile, At, Throw, Steps
  <2>. QED  BY <1>4, <2>1 DEF StoreFile, Throw, profiles
<1>5. CASE UploadWrite(p)
  <2>1. Moves(p)
    BY <1>5, GotoMoves, ReturnMoves DEF UploadWrite, At, Steps
  <2>. QED  BY <1>5, <2>1 DEF UploadWrite, profiles
<1>6. CASE UploadCleanUp(p)
  <2>1. Moves(p)
    BY <1>6, ReturnMoves DEF UploadCleanUp, At
  <2>. QED  BY <1>6, <2>1 DEF UploadCleanUp, profiles
<1>7. CASE DeleteWrite(p)
  <2>1. Moves(p)
    BY <1>7, ReturnMoves DEF DeleteWrite, At
  <2>. QED  BY <1>7, <2>1 DEF DeleteWrite, profiles
<1>8. CASE CheckDocuments(p)
  <2>1. Moves(p)
    BY <1>8, GotoMoves, ReturnMoves DEF CheckDocuments, At, Throw, Steps
  <2>. QED  BY <1>8, <2>1 DEF CheckDocuments, At, Throw, profiles
<1>9. CASE SubmitWrite(p)
  <2>1. Moves(p)
    BY <1>9, EmitMoves DEF SubmitWrite, At, EventOf
  <2>. QED  BY <1>9, <2>1 DEF SubmitWrite, At
<1>10. CASE DecideWrite(p)
  <2>1. Moves(p)
    BY <1>10, EmitMoves DEF DecideWrite, Decision, EventOf
  <2>. QED  BY <1>10, <2>1 DEF DecideWrite, Decision
<1>11. CASE ReviewWrite(p)
  <2>1. Moves(p)
    BY <1>11, AuditMoves, ReturnMoves DEF ReviewWrite, At, ActionOf, Throw
  <2>. QED  BY <1>11, <2>1 DEF ReviewWrite, Throw, profiles
<1>12. CASE Audit(p)
  <2>0. call[p].op # "idle" /\ call[p].op \in DOMAIN ActionOf
    BY <1>12, SlotType DEF Audit, Running, Call
  <2>1. Moves(p)
    BY <1>12, <2>0, AccessMoves, ReturnMoves DEF Audit
  <2>. QED  BY <1>12, <2>0, <2>1 DEF Audit, ActionOf, profiles
<1>13. CASE LogDocumentAccess(p)
  <2>0. call[p].op # "uploadDocumentFile"
    BY <1>13, SlotType DEF LogDocumentAccess, Running, Call
  <2>1. Moves(p)
    BY <1>13, ReturnMoves DEF LogDocumentAccess, Running
  <2>. QED  BY <1>13, <2>0, <2>1 DEF LogDocumentAccess, profiles
<1>14. CASE Emit(p)
  <2>0. call[p].op # "idle" /\ call[p].op \in DOMAIN EventOf
    BY <1>14, SlotType DEF Emit, Running, Call
  <2>1. call[p].op \in AdminOps => call[p].op \in DOMAIN ActionOf
    BY <2>0 DEF EventOf, ActionOf, AdminOps
  <2>2. Moves(p)
    BY <1>14, <2>0, <2>1, AuditMoves, ReturnMoves DEF Emit, AfterEmit
  <2>. QED  BY <1>14, <2>0, <2>2 DEF Emit, EventOf, profiles
<1>. QED
  BY <1>1, <1>2, <1>3, <1>4, <1>5, <1>6, <1>7, <1>8, <1>9, <1>10, <1>11, <1>12,
     <1>13, <1>14 DEF Continue

----------------------------------------------------------------------------
(* Documents and their files.                                              *)

\* What an upload relies on, from the key it generated to its clean-up.
UploadRelies(p) ==
    LET c == call[p] IN
    c.op = "uploadDocumentFile" =>
        /\ c.step \in {"store", "write", "cleanup"}
        /\ c.step = "store" => file[c.doc] = "absent"
        /\ c.step = "write" => file[c.doc] = "stored"
        /\ doc[c.doc] = None
        /\ \A q \in Slots \ {p} :
              call[q].op = "uploadDocumentFile" => call[q].doc # c.doc

UploadsSound ==
    /\ RowsHaveFiles
    /\ \A p \in Slots : UploadRelies(p)

\* A handler that is no upload, or that ends, and touches neither row nor file.
LEMMA UploadsQuiet ==
    ASSUME UploadsSound, NEW p \in Slots, Moves(p), UNCHANGED <<doc, file>>,
           call[p].op = "uploadDocumentFile" => call'[p].op = "idle"
    PROVE  UploadsSound'
BY DEF UploadsSound, UploadRelies, RowsHaveFiles, Moves

LEMMA UploadsRead ==
    ASSUME TypeOK, UploadsSound, NEW p \in Slots, NEW c \in Call, Reads(p, c), FirstRead(c)
    PROVE  UploadsSound'
<1>1. /\ call'[p] = c
      /\ \A q \in Slots \ {p} : call'[q] = call[q]
      /\ UNCHANGED <<doc, file>>
  BY ReadFields
<1>2. c.op = "uploadDocumentFile" =>
         /\ c.step = "store"
         /\ c.doc \in Docs /\ file[c.doc] = "absent"
         /\ \A q \in Slots : call[q].op = "uploadDocumentFile" => call[q].doc # c.doc
  BY DEF FirstRead, Fresh, Call, DocOps
<1>3. c.op = "uploadDocumentFile" => doc[c.doc] = None
  BY <1>2 DEF UploadsSound, RowsHaveFiles
<1>4. RowsHaveFiles'
  BY <1>1 DEF UploadsSound, RowsHaveFiles
<1>5. ASSUME NEW q \in Slots PROVE UploadRelies(q)'
  BY <1>1, <1>2, <1>3 DEF UploadsSound, UploadRelies
<1>. QED  BY <1>4, <1>5 DEF UploadsSound

LEMMA UploadsContinue ==
    ASSUME TypeOK, UploadsSound, NEW p \in Slots, Continue(p)
    PROVE  UploadsSound'
<1>0. call[p].op # "idle" /\ call[p].op \in DocOps => call[p].doc \in Docs
  BY SlotType DEF Call
<1>1. CASE StoreFile(p)
  <2>0. /\ call[p].op = "uploadDocumentFile" /\ call[p].step = "store"
        /\ call[p].doc \in Docs
    BY <1>1, <1>0 DEF StoreFile, At, DocOps
  <2>1. CASE Throw(p)
    <3>1. Moves(p) /\ call'[p].op = "idle"
      BY <2>0, <2>1, ReturnMoves DEF Throw
    <3>. QED  BY <2>0, <2>1, <3>1, UploadsQuiet DEF Throw, store
  <2>2. CASE file' = [file EXCEPT ![call[p].doc] = "stored"] /\ Goto(p, "write")
             /\ UNCHANGED <<profiles, doc, removed>>
    <3>1. Moves(p) /\ call'[p].step = "write" /\ call'[p].op = call[p].op
      BY <2>0, <2>2, GotoMoves DEF Steps
    <3>2. RowsHaveFiles'
      BY <2>0, <2>2 DEF UploadsSound, RowsHaveFiles, TypeOK
    <3>3. UploadRelies(p)'
      BY <2>0, <2>2, <3>1 DEF UploadsSound, UploadRelies, Moves, TypeOK
    <3>4. ASSUME NEW q \in Slots \ {p} PROVE UploadRelies(q)'
      BY <2>0, <2>2, <3>1 DEF UploadsSound, UploadRelies, Moves, TypeOK
    <3>. QED  BY <3>2, <3>3, <3>4 DEF UploadsSound
  <2>. QED  BY <1>1, <2>1, <2>2 DEF StoreFile
<1>2. CASE UploadWrite(p)
  <2>0. /\ call[p].op = "uploadDocumentFile" /\ call[p].step = "write"
        /\ call[p].doc \in Docs
        /\ UNCHANGED file
    BY <1>2, <1>0 DEF UploadWrite, At, DocOps
  <2>1. CASE doc' = [doc EXCEPT ![call[p].doc] = [owner |-> call[p].prof, status |-> "PENDING"]]
             /\ Return(p)
    <3>1. Moves(p) /\ call'[p].op = "idle"
      BY <2>0, <2>1, ReturnMoves
    <3>2. RowsHaveFiles'
      BY <2>0, <2>1 DEF UploadsSound, UploadRelies, RowsHaveFiles, TypeOK
    <3>3. ASSUME NEW q \in Slots PROVE UploadRelies(q)'
      BY <2>0, <2>1, <3>1 DEF UploadsSound, UploadRelies, Moves, TypeOK
    <3>. QED  BY <3>2, <3>3 DEF UploadsSound
  <2>2. CASE Goto(p, "cleanup") /\ UNCHANGED doc
    <3>1. Moves(p) /\ call'[p].step = "cleanup" /\ call'[p].op = call[p].op
      BY <2>0, <2>2, GotoMoves DEF Steps
    <3>2. ASSUME NEW q \in Slots PROVE UploadRelies(q)'
      BY <2>0, <2>2, <3>1 DEF UploadsSound, UploadRelies, Moves
    <3>. QED  BY <2>0, <2>2, <3>2 DEF UploadsSound, RowsHaveFiles
  <2>. QED  BY <1>2, <2>1, <2>2 DEF UploadWrite
<1>3. CASE UploadCleanUp(p)
  <2>0. /\ call[p].op = "uploadDocumentFile" /\ call[p].step = "cleanup"
        /\ call[p].doc \in Docs /\ doc[call[p].doc] = None
        /\ UNCHANGED doc
    BY <1>3, <1>0 DEF UploadCleanUp, At, DocOps, UploadsSound, UploadRelies
  <2>1. Moves(p) /\ call'[p].op = "idle"
    BY <1>3, <2>0, ReturnMoves DEF UploadCleanUp
  <2>2. RowsHaveFiles'
    BY <1>3, <2>0 DEF UploadCleanUp, CleanUp, UploadsSound, RowsHaveFiles, TypeOK
  <2>3. \A d \in Docs \ {call[p].doc} : file'[d] = file[d]
    BY <1>3 DEF UploadCleanUp, CleanUp, TypeOK
  <2>4. ASSUME NEW q \in Slots PROVE UploadRelies(q)'
    <3>1. call[q].op = "uploadDocumentFile" => call[q].doc \in Docs
      BY SlotType DEF Call, DocOps
    <3>. QED  BY <2>0, <2>1, <2>3, <3>1 DEF UploadsSound, UploadRelies, Moves
  <2>. QED  BY <2>2, <2>4 DEF UploadsSound
<1>4. CASE DeleteWrite(p)
  <2>1. Moves(p) /\ call'[p].op = "idle"
    BY <1>4, ReturnMoves DEF DeleteWrite, At
  <2>2. UNCHANGED file /\ \A d \in Docs : doc'[d] = None \/ doc'[d] = doc[d]
    BY <1>4 DEF DeleteWrite, TypeOK
  <2>3. RowsHaveFiles'
    BY <2>2 DEF UploadsSound, RowsHaveFiles
  <2>4. ASSUME NEW q \in Slots PROVE UploadRelies(q)'
    <3>1. call[q].op = "uploadDocumentFile" => call[q].doc \in Docs
      BY SlotType DEF Call, DocOps
    <3>. QED  BY <2>1, <2>2, <3>1 DEF UploadsSound, UploadRelies, Moves
  <2>. QED  BY <2>3, <2>4 DEF UploadsSound
<1>5. CASE ReviewWrite(p)
  <2>0. call[p].op = "reviewDocument" /\ call[p].doc \in Docs
    BY <1>5, <1>0 DEF ReviewWrite, At, DocOps
  <2>1. CASE Throw(p)
    <3>1. Moves(p)
      BY <2>0, <2>1, ReturnMoves DEF Throw
    <3>. QED  BY <2>0, <2>1, <3>1, UploadsQuiet DEF Throw, store
  <2>2. CASE ~Throw(p)
    <3>1. Moves(p) /\ call'[p].op = call[p].op
      BY <1>5, <2>0, <2>2, AuditMoves DEF ReviewWrite, ActionOf
    <3>2. UNCHANGED file /\ doc[call[p].doc] # None
          /\ \A d \in Docs \ {call[p].doc} : doc'[d] = doc[d]
      BY <1>5, <2>0, <2>2 DEF ReviewWrite, TypeOK
    <3>3. RowsHaveFiles'
      BY <2>0, <3>2 DEF UploadsSound, RowsHaveFiles
    <3>4. ASSUME NEW q \in Slots PROVE UploadRelies(q)'
      <4>1. call[q].op = "uploadDocumentFile" => call[q].doc \in Docs
        BY SlotType DEF Call, DocOps
      <4>. QED  BY <2>0, <3>1, <3>2, <4>1 DEF UploadsSound, UploadRelies, Moves
    <3>. QED  BY <3>3, <3>4 DEF UploadsSound
  <2>. QED  BY <2>1, <2>2
<1>6. CASE UNCHANGED store /\ call[p].op # "uploadDocumentFile"
  BY <1>6, Footprint, UploadsQuiet DEF store
<1>. QED  BY <1>1, <1>2, <1>3, <1>4, <1>5, <1>6, Footprint

LEMMA UploadsStep == TypeOK /\ UploadsSound /\ [Next]_vars => UploadsSound'
<1>. SUFFICES ASSUME TypeOK, UploadsSound, [Next]_vars PROVE UploadsSound'
  OBVIOUS
<1>1. ASSUME NEW p \in Slots, HandymanStarts(p) \/ AdminStarts(p) PROVE UploadsSound'
  BY <1>1, StartsRead, UploadsRead
<1>2. ASSUME NEW p \in Slots, Continue(p) PROVE UploadsSound'
  BY <1>2, UploadsContinue
<1>3. ASSUME NEW p \in Slots, Crash(p) PROVE UploadsSound'
  <2>1. Moves(p) /\ call'[p].op = "idle"
    BY <1>3, ReturnMoves DEF Crash, Running
  <2>. QED  BY <1>3, <2>1, UploadsQuiet DEF Crash, store
<1>4. CASE UNCHANGED vars
  BY <1>4 DEF vars, store, UploadsSound, UploadRelies, RowsHaveFiles
<1>. QED  BY <1>1, <1>2, <1>3, <1>4 DEF Next

LEMMA UploadsInit == Init => UploadsSound
BY DEF Init, Idle, UploadsSound, UploadRelies, RowsHaveFiles

\* Whatever runs at once, fails or dies: a document row never points at a file
\* that was not stored, or that a clean-up has deleted.
THEOREM RowsHaveFilesAlways == Spec => []RowsHaveFiles
<1>1. TypeOK /\ UploadsSound /\ [Next]_vars => (TypeOK /\ UploadsSound)'
  BY TypeStep, UploadsStep
<1>2. Init => TypeOK /\ UploadsSound
  BY TypeInit, UploadsInit
<1>3. UploadsSound => RowsHaveFiles
  BY DEF UploadsSound
<1>. QED  BY <1>1, <1>2, <1>3, PTL DEF Spec

----------------------------------------------------------------------------
(* No orphaned uploads.                                                    *)

LEMMA OrphanContinue ==
    ASSUME TypeOK, UploadsSound, NoOrphanUpload, NEW p \in Slots, Continue(p),
           UNCHANGED faults, faults \cap {"crash", "cleanup"} = {},
           NEW d \in Docs, file'[d] = "stored", doc'[d] = None
    PROVE  Uploading(d)' \/ d \in removed'
<1>0. call[p].op # "idle" /\ call[p].op \in DocOps => call[p].doc \in Docs
  BY SlotType DEF Call
<1>m. Moves(p)
  BY Footprint
<1>1. CASE StoreFile(p)
  <2>0. /\ call[p].op = "uploadDocumentFile" /\ call[p].step = "store"
        /\ call[p].doc \in Docs /\ file[call[p].doc] = "absent"
    BY <1>1, <1>0 DEF StoreFile, At, DocOps, UploadsSound, UploadRelies
  <2>1. CASE Throw(p)
    <3>1. d # call[p].doc
      BY <2>0, <2>1 DEF Throw, store
    <3>. QED  BY <1>m, <2>1, <3>1 DEF Throw, store, NoOrphanUpload, Uploading, Moves
  <2>2. CASE file' = [file EXCEPT ![call[p].doc] = "stored"] /\ Goto(p, "write")
             /\ UNCHANGED <<profiles, doc, removed>>
    <3>1. call'[p].op = "uploadDocumentFile" /\ call'[p].doc = call[p].doc
      BY <2>0, <2>2, GotoFields DEF Steps
    <3>2. CASE d = call[p].doc
      BY <3>1, <3>2 DEF Uploading
    <3>3. CASE d # call[p].doc
      <4>1. file[d] = "stored" /\ doc[d] = None
        BY <2>2, <3>3 DEF TypeOK
      <4>. QED  BY <1>m, <2>2, <3>3, <4>1 DEF NoOrphanUpload, Uploading, Moves
    <3>. QED  BY <3>2, <3>3
  <2>. QED  BY <1>1, <2>1, <2>2 DEF StoreFile
<1>2. CASE UploadWrite(p)
  <2>0. /\ call[p].op = "uploadDocumentFile" /\ call[p].doc \in Docs
        /\ UNCHANGED <<file, removed>>
    BY <1>2, <1>0 DEF UploadWrite, At, DocOps
  <2>1. CASE doc' = [doc EXCEPT ![call[p].doc] = [owner |-> call[p].prof, status |-> "PENDING"]]
    <3>1. [owner |-> call[p].prof, status |-> "PENDING"] \in DocumentRow
      BY <1>2, SlotType DEF UploadWrite, At, Call, CallRecord, DocumentRow, DocumentStatus
    <3>2. d # call[p].doc /\ doc[d] = None
      BY <2>0, <2>1, <3>1, NullAssumption DEF TypeOK
    <3>. QED  BY <1>m, <2>0, <3>2 DEF NoOrphanUpload, Uploading, Moves
  <2>2. CASE Goto(p, "cleanup") /\ UNCHANGED doc
    <3>1. call'[p].op = "uploadDocumentFile" /\ call'[p].doc = call[p].doc
      BY <2>0, <2>2, GotoFields DEF Steps
    <3>. QED  BY <1>m, <2>0, <2>2, <3>1 DEF NoOrphanUpload, Uploading, Moves
  <2>. QED  BY <1>2, <2>1, <2>2 DEF UploadWrite
<1>3. CASE UploadCleanUp(p)
  <2>0. /\ call[p].doc \in Docs /\ file' = [file EXCEPT ![call[p].doc] = "deleted"]
        /\ UNCHANGED <<doc, removed>>
    BY <1>3, <1>0 DEF UploadCleanUp, CleanUp, At, DocOps
  <2>1. d # call[p].doc /\ file[d] = "stored"
    BY <2>0 DEF TypeOK
  <2>. QED  BY <1>m, <2>0, <2>1 DEF NoOrphanUpload, Uploading, Moves
<1>4. CASE DeleteWrite(p)
  <2>0. UNCHANGED file /\ removed \subseteq removed' /\ call[p].op # "uploadDocumentFile"
        /\ (doc'[d] = doc[d] \/ d \in removed')
    BY <1>4 DEF DeleteWrite, At, TypeOK
  <2>. QED  BY <1>m, <2>0 DEF NoOrphanUpload, Uploading, Moves
<1>5. CASE ReviewWrite(p)
  <2>0. UNCHANGED <<file, removed>> /\ call[p].op # "uploadDocumentFile"
    BY <1>5 DEF ReviewWrite, At, Throw, store
  <2>1. doc[d] = None
    <3>1. CASE Throw(p)
      BY <3>1 DEF Throw, store
    <3>2. CASE ~Throw(p) /\ d # call[p].doc
      BY <1>5, <3>2 DEF ReviewWrite, TypeOK
    <3>3. CASE ~Throw(p) /\ d = call[p].doc
      <4>1. doc[d] \in DocumentRow
        BY <1>5, <3>3 DEF ReviewWrite, TypeOK
      <4>2. PICK t \in {"APPROVED", "REJECTED"} : doc' = [doc EXCEPT ![d] = [doc[d] EXCEPT !.status = t]]
        BY <1>5, <3>3 DEF ReviewWrite, Throw
      <4>3. doc'[d] \in DocumentRow
        BY <4>1, <4>2 DEF DocumentRow, DocumentStatus, TypeOK
      <4>. QED  BY <4>3, NullAssumption
    <3>. QED  BY <3>1, <3>2, <3>3
  <2>. QED  BY <1>m, <2>0, <2>1 DEF NoOrphanUpload, Uploading, Moves
<1>6. CASE UNCHANGED store /\ call[p].op # "uploadDocumentFile"
  BY <1>m, <1>6 DEF store, NoOrphanUpload, Uploading, Moves
<1>. QED  BY <1>1, <1>2, <1>3, <1>4, <1>5, <1>6, Footprint

LEMMA OrphanStep ==
    TypeOK /\ UploadsSound /\ NoOrphanUpload /\ [Next]_vars => NoOrphanUpload'
<1>. SUFFICES ASSUME TypeOK, UploadsSound, NoOrphanUpload, [Next]_vars,
                     (faults \cap {"crash", "cleanup"} = {})',
                     NEW d \in Docs, file'[d] = "stored", doc'[d] = None
              PROVE  Uploading(d)' \/ d \in removed'
  BY DEF NoOrphanUpload
<1>0. UNCHANGED faults /\ faults \cap {"crash", "cleanup"} = {}
  BY DEF Next, vars
<1>1. ASSUME NEW p \in Slots, HandymanStarts(p) \/ AdminStarts(p)
      PROVE  Uploading(d)' \/ d \in removed'
  <2>1. PICK c \in Call : Reads(p, c)
    BY <1>1, StartsRead
  <2>. QED  BY <1>0, <2>1, ReadFields DEF NoOrphanUpload, Uploading
<1>2. ASSUME NEW p \in Slots, Continue(p) PROVE Uploading(d)' \/ d \in removed'
  BY <1>0, <1>2, OrphanContinue
<1>3. ASSUME NEW p \in Slots, Crash(p) PROVE Uploading(d)' \/ d \in removed'
  BY <1>0, <1>3 DEF Crash
<1>4. CASE UNCHANGED vars
  BY <1>0, <1>4 DEF vars, store, NoOrphanUpload, Uploading
<1>. QED  BY <1>1, <1>2, <1>3, <1>4 DEF Next

\* As long as no handler dies and no clean-up fails, every object in the storage
\* has its row, or belongs to an upload that still runs, or to a row that
\* deleteDocument removed: no failed insert leaves a file behind.
THEOREM NoOrphanUploadAlways == Spec => []NoOrphanUpload
<1>1. TypeOK /\ UploadsSound /\ NoOrphanUpload /\ [Next]_vars
        => (TypeOK /\ UploadsSound /\ NoOrphanUpload)'
  BY TypeStep, UploadsStep, OrphanStep
<1>2. Init => TypeOK /\ UploadsSound /\ NoOrphanUpload
  <2>1. Init => NoOrphanUpload
    BY DEF Init, NoOrphanUpload
  <2>. QED  BY <2>1, TypeInit, UploadsInit
<1>. QED  BY <1>1, <1>2, PTL DEF Spec

----------------------------------------------------------------------------
(* Decisions, their events and their audit records.                        *)

Announced(op, h) == [type |-> EventOf[op], prof |-> h] \in events
Logged(op, h) == [action |-> ActionOf[op], prof |-> h] \in audit

\* A handler that is about to record a decision has announced it.
AnnouncedFirst ==
    \A p \in Slots : call[p].op \in DOMAIN Decision /\ call[p].step = "audit" =>
        Announced(call[p].op, call[p].prof)

LEMMA LogsGrow ==
    ASSUME NEW p \in Slots, Continue(p)
    PROVE  events \subseteq events' /\ audit \subseteq audit'
<1>. USE DEF EnsureWrite, CompleteWrite, UpdateWrite, StoreFile, UploadWrite, UploadCleanUp,
             DeleteWrite, CheckDocuments, SubmitWrite, DecideWrite, ReviewWrite
<1>1. CASE Audit(p)
  BY <1>1 DEF Audit, Log
<1>2. CASE LogDocumentAccess(p)
  BY <1>2 DEF LogDocumentAccess, Log
<1>3. CASE Emit(p)
  BY <1>3 DEF Emit
<1>4. CASE UNCHANGED <<events, audit>>
  BY <1>4
<1>. QED  BY <1>1, <1>2, <1>3, <1>4 DEF Continue

\* A handler that has written its decision announces it, then records it.
LEMMA RecordingStep ==
    ASSUME TypeOK, AnnouncedFirst, NEW p \in Slots, Continue(p), "audit" \notin faults,
           NEW op \in DOMAIN Decision, NEW h \in Profiles, Recording(p, op, h)
    PROVE  \/ Recording(p, op, h)' /\ Announced(op, h)'
           \/ Announced(op, h)' /\ Logged(op, h)'
<1>0. op \in AdminOps /\ op \in DOMAIN EventOf /\ op \in DOMAIN ActionOf
      /\ op # "reviewDocument" /\ op # "idle"
  BY DEF Decision, AdminOps, EventOf, ActionOf
<1>1. CASE call[p].step = "emit"
  <2>1. Emit(p)
    BY <1>0, <1>1 DEF Recording, Continue, EnsureWrite, CompleteWrite, UpdateWrite, StoreFile,
       UploadWrite, UploadCleanUp, DeleteWrite, CheckDocuments, SubmitWrite, DecideWrite,
       ReviewWrite, Audit, LogDocumentAccess, At
  <2>2. Goto(p, "audit") /\ Announced(op, h)'
    BY <1>0, <2>1 DEF Emit, AfterEmit, Recording, Announced
  <2>3. call'[p].op = op /\ call'[p].prof = h /\ call'[p].step = "audit"
    BY <1>0, <2>2, GotoFields DEF Recording, Steps
  <2>. QED  BY <2>2, <2>3 DEF Recording
<1>2. CASE call[p].step = "audit"
  <2>1. Audit(p)
    BY <1>0, <1>2 DEF Recording, Continue, EnsureWrite, CompleteWrite, UpdateWrite, StoreFile,
       UploadWrite, UploadCleanUp, DeleteWrite, CheckDocuments, SubmitWrite, DecideWrite,
       ReviewWrite, Emit, LogDocumentAccess, At
  <2>2. Announced(op, h)
    BY <1>2 DEF AnnouncedFirst, Recording
  <2>. QED  BY <2>1, <2>2, LogsGrow DEF Audit, Log, Recording, Announced, Logged
<1>. QED  BY <1>1, <1>2 DEF Recording

\* Only a decision writes VERIFIED or REJECTED.
LEMMA OnlyDecisions ==
    ASSUME TypeOK, NEW p \in Slots, Continue(p), NEW op \in DOMAIN Decision, NEW h \in Profiles,
           status'[h] = Decision[op], status[h] # Decision[op]
    PROVE  Recording(p, op, h)'
<1>1. ~EnsureWrite(p)
  BY DEF EnsureWrite, SetStatus, TypeOK, Decision
<1>2. ~CompleteWrite(p)
  BY DEF CompleteWrite, SetStatus, TypeOK, Decision, Throw, profiles
<1>3. ~SubmitWrite(p)
  BY DEF SubmitWrite, SetStatus, TypeOK, Decision
<1>4. DecideWrite(p)
  BY <1>1, <1>2, <1>3, Footprint
<1>5. call[p].op = op /\ call[p].prof = h
  BY <1>4 DEF DecideWrite, SetStatus, TypeOK, Decision
<1>6. call'[p].op = op /\ call'[p].prof = h /\ call'[p].step = "emit"
  BY <1>4, <1>5, GotoFields DEF DecideWrite, Decision, EventOf, Steps
<1>. QED  BY <1>6 DEF Recording

LEMMA AnnouncedStep == TypeOK /\ AnnouncedFirst /\ [Next]_vars => AnnouncedFirst'
<1>. SUFFICES ASSUME TypeOK, AnnouncedFirst, [Next]_vars, NEW q \in Slots,
                     (call[q].op \in DOMAIN Decision /\ call[q].step = "audit")'
              PROVE  Announced(call[q].op, call[q].prof)'
  BY DEF AnnouncedFirst
<1>1. ASSUME NEW p \in Slots, HandymanStarts(p) \/ AdminStarts(p)
      PROVE  Announced(call[q].op, call[q].prof)'
  <2>1. PICK c \in Call : Reads(p, c) /\ FirstRead(c)
    BY <1>1, StartsRead
  <2>2. c.op \in DOMAIN Decision => c.step = "write"
    BY <2>1 DEF FirstRead
  <2>. QED  BY <2>1, <2>2, ReadFields DEF AnnouncedFirst, Announced
<1>2. ASSUME NEW p \in Slots, Continue(p) PROVE Announced(call[q].op, call[q].prof)'
  <2>1. CASE q # p
    BY <1>2, <2>1, Footprint, LogsGrow DEF Moves, AnnouncedFirst, Announced
  <2>2. CASE q = p
    <3>1. call[p].op \in DOMAIN Decision
      BY <1>2, <2>2, Footprint DEF Moves, Decision
    <3>2. Emit(p)
      <4>1. ~DecideWrite(p)
        BY <2>2, <3>1, GotoFields DEF DecideWrite, Decision, EventOf, Steps
      <4>2. ~Audit(p)
        BY <2>2, <3>1, ReturnFields DEF Audit, Decision
      <4>3. ~LogDocumentAccess(p)
        BY <2>2, ReturnFields DEF LogDocumentAccess, Decision
      <4>. QED
        BY <1>2, <3>1, <4>1, <4>2, <4>3 DEF Continue, EnsureWrite, CompleteWrite, UpdateWrite,
           StoreFile, UploadWrite, UploadCleanUp, DeleteWrite, CheckDocuments, SubmitWrite,
           ReviewWrite, At, Decision
    <3>3. call'[p].op = call[p].op /\ call'[p].prof = call[p].prof
      BY <1>2, <2>2, Footprint DEF Moves, Decision
    <3>. QED  BY <2>2, <3>2, <3>3 DEF Emit, Announced
  <2>. QED  BY <2>1, <2>2
<1>3. ASSUME NEW p \in Slots, Crash(p) PROVE Announced(call[q].op, call[q].prof)'
  <2>1. q # p
    BY <1>3, ReturnFields DEF Crash, Decision
  <2>. QED  BY <1>3, <2>1, ReturnFields DEF Crash, AnnouncedFirst, Announced
<1>4. CASE UNCHANGED vars
  BY <1>4 DEF vars, AnnouncedFirst, Announced
<1>. QED  BY <1>1, <1>2, <1>3, <1>4 DEF Next

LEMMA DecisionStep ==
    TypeOK /\ AnnouncedFirst /\ DecisionRecorded /\ [Next]_vars => DecisionRecorded'
<1>. DEFINE Good(h, op) == \/ \E p \in Slots : Recording(p, op, h)
                           \/ Announced(op, h) /\ Logged(op, h)
<1>. SUFFICES ASSUME TypeOK, AnnouncedFirst, DecisionRecorded, [Next]_vars,
                     (faults \cap {"crash", "audit"} = {})',
                     NEW h \in Profiles, NEW op \in DOMAIN Decision, status'[h] = Decision[op]
              PROVE  Good(h, op)'
  BY DEF DecisionRecorded, Announced, Logged
<1>0. /\ faults \cap {"crash", "audit"} = {}
      /\ status[h] = Decision[op] => Good(h, op)
  BY DEF Next, vars, DecisionRecorded, Announced, Logged
<1>1. ASSUME NEW p \in Slots, HandymanStarts(p) \/ AdminStarts(p) PROVE Good(h, op)'
  <2>1. PICK c \in Call : Reads(p, c)
    BY <1>1, StartsRead
  <2>2. op # "idle"
    BY DEF Decision
  <2>. QED  BY <1>0, <2>1, <2>2, ReadFields DEF Recording, Announced, Logged
<1>2. ASSUME NEW p \in Slots, Continue(p) PROVE Good(h, op)'
  <2>1. CASE status[h] # Decision[op]
    BY <1>2, <2>1, OnlyDecisions
  <2>2. CASE \E q \in Slots : Recording(q, op, h)
    <3>1. PICK q \in Slots : Recording(q, op, h)
      BY <2>2
    <3>2. CASE q = p
      BY <1>0, <1>2, <3>1, <3>2, RecordingStep
    <3>3. CASE q # p
      BY <1>2, <3>1, <3>3, Footprint DEF Moves, Recording
    <3>. QED  BY <3>2, <3>3
  <2>3. CASE Announced(op, h) /\ Logged(op, h)
    BY <1>2, <2>3, LogsGrow DEF Announced, Logged
  <2>. QED  BY <1>0, <2>1, <2>2, <2>3
<1>3. ASSUME NEW p \in Slots, Crash(p) PROVE Good(h, op)'
  BY <1>0, <1>3 DEF Crash
<1>4. CASE UNCHANGED vars
  BY <1>0, <1>4 DEF vars, Recording, Announced, Logged
<1>. QED  BY <1>1, <1>2, <1>3, <1>4 DEF Next

\* As long as no handler dies and no audit insert fails, every decision a profile
\* shows was announced and is in the audit log, or its handler is on the way
\* there; an admin who decides at the same time takes neither away.
THEOREM DecisionRecordedAlways == Spec => []DecisionRecorded
<1>1. TypeOK /\ AnnouncedFirst /\ DecisionRecorded /\ [Next]_vars
        => (TypeOK /\ AnnouncedFirst /\ DecisionRecorded)'
  BY TypeStep, AnnouncedStep, DecisionStep
<1>2. Init => AnnouncedFirst
  BY DEF Init, Idle, AnnouncedFirst, Decision
<1>3. Init => DecisionRecorded
  BY DEF Init, DecisionRecorded, Decision
<1>. QED  BY <1>1, <1>2, <1>3, TypeInit, PTL DEF Spec

----------------------------------------------------------------------------
(* Reviews, with handlers of one handyman that overlap.                    *)

\* The documents of the other handymen stay; only deleteDocument takes one away.
LEMMA DocumentsKept ==
    ASSUME TypeOK, UploadsSound, NEW p \in Slots, Continue(p), NEW h \in Profiles,
           ~At(p, "deleteDocument", "write") \/ call[p].prof # h
    PROVE  DocsOf(h) \subseteq DocsOf(h)'
<1>0. call[p].op # "idle" => /\ call[p].op \in DocOps => call[p].doc \in Docs
                             /\ call[p].prof \in Profiles
  BY SlotType DEF Call, CallRecord
<1>1. CASE StoreFile(p) \/ UploadCleanUp(p) \/ UNCHANGED store
  BY <1>1 DEF StoreFile, UploadCleanUp, Throw, store, DocsOf
<1>2. CASE UploadWrite(p)
  <2>1. doc[call[p].doc] = None
    BY <1>2 DEF UploadWrite, At, UploadsSound, UploadRelies
  <2>2. \A d \in DocsOf(h) : doc'[d] = doc[d]
    BY <1>2, <2>1 DEF UploadWrite, DocsOf, TypeOK
  <2>. QED  BY <2>2 DEF DocsOf
<1>3. CASE DeleteWrite(p)
  BY <1>3 DEF DeleteWrite, DocsOf, TypeOK
<1>4. CASE ReviewWrite(p)
  <2>1. CASE Throw(p)
    BY <2>1 DEF Throw, store, DocsOf
  <2>2. CASE ~Throw(p)
    <3>1. call[p].doc \in Docs /\ doc[call[p].doc] \in DocumentRow
      BY <1>0, <1>4, <2>2 DEF ReviewWrite, At, DocOps, TypeOK
    <3>2. PICK t \in {"APPROVED", "REJECTED"} :
            doc' = [doc EXCEPT ![call[p].doc] = [doc[call[p].doc] EXCEPT !.status = t]]
      BY <1>4, <2>2 DEF ReviewWrite, Throw
    <3>3. /\ doc'[call[p].doc] \in DocumentRow
          /\ doc'[call[p].doc].owner = doc[call[p].doc].owner
      BY <3>1, <3>2 DEF DocumentRow, DocumentStatus, TypeOK
    <3>4. \A d \in Docs : d # call[p].doc => doc'[d] = doc[d]
      BY <3>1, <3>2 DEF TypeOK
    <3>. QED  BY <3>1, <3>3, <3>4, NullAssumption DEF DocsOf
  <2>. QED  BY <2>1, <2>2
<1>. QED  BY <1>1, <1>2, <1>3, <1>4, Footprint

\* Where a handler is after its step.
LEMMA StepMoves ==
    ASSUME TypeOK, NEW p \in Slots, Continue(p), call'[p].op # "idle",
           call[p].op # "uploadDocumentFile"
    PROVE  \/ call'[p].step \notin {"documents", "write"} /\ call[p].op # "deleteDocument"
           \/ /\ call[p].op = "submitDocuments" /\ call[p].step = "documents"
              /\ UNCHANGED <<status, doc>>
              /\ DocsOf(call[p].prof) # {}
<1>. USE ReturnFields
<1>1. CASE EnsureWrite(p) \/ UpdateWrite(p) \/ DeleteWrite(p) \/ LogDocumentAccess(p)
  BY <1>1 DEF EnsureWrite, UpdateWrite, DeleteWrite, LogDocumentAccess
<1>2. CASE StoreFile(p) \/ UploadWrite(p) \/ UploadCleanUp(p)
  BY <1>2 DEF StoreFile, UploadWrite, UploadCleanUp, At
<1>3. CASE CompleteWrite(p)
  BY <1>3, EmitMoves DEF CompleteWrite, Throw, At, EventOf
<1>4. CASE CheckDocuments(p)
  BY <1>4 DEF CheckDocuments, Submittable, Throw, At, profiles, store
<1>5. CASE SubmitWrite(p)
  BY <1>5, EmitMoves DEF SubmitWrite, At, EventOf
<1>6. CASE DecideWrite(p)
  BY <1>6, EmitMoves DEF DecideWrite, Decision, EventOf
<1>7. CASE ReviewWrite(p)
  BY <1>7, AuditMoves DEF ReviewWrite, Throw, At, ActionOf
<1>8. CASE Audit(p)
  BY <1>8, AccessMoves DEF Audit
<1>9. CASE Emit(p)
  <2>1. call[p].op # "idle" /\ call[p].op \in DOMAIN EventOf
    BY <1>9, SlotType DEF Emit, Running, Call
  <2>2. call[p].op \in AdminOps => call[p].op \in DOMAIN ActionOf
    BY <2>1 DEF EventOf, ActionOf, AdminOps
  <2>. QED  BY <1>9, <2>1, <2>2, AuditMoves DEF Emit, AfterEmit, EventOf
<1>. QED
  BY <1>1, <1>2, <1>3, <1>4, <1>5, <1>6, <1>7, <1>8, <1>9 DEF Continue

LEMMA Deletes ==
    ASSUME TypeOK, NEW p \in Slots, Continue(p), NEW h \in Profiles,
           At(p, "deleteDocument", "write"), call[p].prof = h
    PROVE  /\ UNCHANGED status
           /\ \A d \in DocsOf(h) \ DocsOf(h)' : d = call[p].doc
           /\ UNCHANGED doc \/ call[p].doc \in removed'
<1>1. DeleteWrite(p)
  BY DEF At, Continue, EnsureWrite, CompleteWrite, UpdateWrite, StoreFile, UploadWrite,
     UploadCleanUp, CheckDocuments, SubmitWrite, DecideWrite, Decision, ReviewWrite, Audit,
     LogDocumentAccess, Emit
<1>. QED  BY <1>1 DEF DeleteWrite, DocsOf, TypeOK, profiles

\* Only the write of a submission puts a profile under review.
LEMMA Submits ==
    ASSUME TypeOK, NEW p \in Slots, Continue(p), NEW h \in Profiles,
           status'[h] = "DOCUMENTS_SUBMITTED", status[h] # "DOCUMENTS_SUBMITTED"
    PROVE  At(p, "submitDocuments", "write") /\ call[p].prof = h
<1>1. ~EnsureWrite(p)
  BY DEF EnsureWrite, SetStatus, TypeOK
<1>2. ~CompleteWrite(p)
  BY DEF CompleteWrite, SetStatus, TypeOK, Throw, profiles
<1>3. ~DecideWrite(p)
  BY DEF DecideWrite, SetStatus, TypeOK, Decision
<1>4. SubmitWrite(p)
  BY <1>1, <1>2, <1>3, Footprint
<1>. QED  BY <1>4 DEF SubmitWrite, SetStatus, TypeOK

\* There is something to review, or a late deletion took it.
HasOrLost(h) == DocsOf(h) # {} \/ \E d \in removed : <<h, d>> \in late

\* A deletion that is still to write while its profile is under review was in flight
\* when a submission had counted the documents; and a submission that has counted
\* them finds one, or such a deletion took the last.
LateSound ==
    /\ Crossing \subseteq late
    /\ \A p \in Slots :
          At(p, "deleteDocument", "write") /\ status[call[p].prof] = "DOCUMENTS_SUBMITTED" =>
              <<call[p].prof, call[p].doc>> \in late
    /\ \A p \in Slots : At(p, "submitDocuments", "write") => HasOrLost(call[p].prof)
    /\ SubmittedHasDocuments

ReviewInv == TypeOK /\ UploadsSound /\ LateSound

LEMMA HasOrLostKept ==
    ASSUME TypeOK, UploadsSound, NEW p \in Slots, Continue(p), late \subseteq late',
           NEW h \in Profiles, HasOrLost(h),
           At(p, "deleteDocument", "write") /\ call[p].prof = h => <<h, call[p].doc>> \in late
    PROVE  HasOrLost(h)'
<1>1. removed \subseteq removed'
  BY Footprint DEF StoreFile, UploadWrite, UploadCleanUp, DeleteWrite, ReviewWrite, Throw, store
<1>2. CASE At(p, "deleteDocument", "write") /\ call[p].prof = h
  BY <1>1, <1>2, Deletes DEF HasOrLost, DocsOf
<1>3. CASE ~(At(p, "deleteDocument", "write") /\ call[p].prof = h)
  <2>1. DocsOf(h) \subseteq DocsOf(h)'
    BY <1>3, DocumentsKept
  <2>. QED  BY <1>1, <2>1 DEF HasOrLost
<1>. QED  BY <1>2, <1>3

\* A handler is at its write if it was, or has just passed its checks.
LEMMA Arrives ==
    ASSUME TypeOK, NEW p \in Slots, Continue(p), NEW q \in Slots,
           NEW op \in {"deleteDocument", "submitDocuments"}, At(q, op, "write")'
    PROVE  \/ q # p /\ At(q, op, "write") /\ call'[q] = call[q]
           \/ /\ q = p /\ op = "submitDocuments"
              /\ call'[p].prof = call[p].prof
              /\ UNCHANGED doc /\ DocsOf(call[p].prof) # {}
<1>1. Moves(p)
  BY Footprint
<1>2. CASE q # p
  BY <1>1, <1>2 DEF Moves, At
<1>3. CASE q = p
  <2>1. /\ call'[p].op = op /\ call[p].op = op /\ call'[p].prof = call[p].prof
        /\ call'[p].step = "write" /\ op # "idle" /\ op # "uploadDocumentFile"
    BY <1>1, <1>3 DEF Moves, At
  <2>. QED  BY <1>3, <2>1, StepMoves
<1>. QED  BY <1>2, <1>3

LEMMA LateContinue ==
    ASSUME ReviewInv, NEW p \in Slots, Continue(p), late' = late \cup Crossing'
    PROVE  LateSound'
<1>0. /\ TypeOK /\ UploadsSound /\ LateSound /\ late \subseteq late'
      /\ \A q \in Slots : call[q].op # "idle" => call[q].prof \in Profiles
      /\ \A q \in Slots : call[q].op = "deleteDocument" => call[q].doc \in Docs
  BY SlotType DEF ReviewInv, Call, CallRecord, DocOps
<1>1. ASSUME NEW q \in Slots, At(q, "submitDocuments", "write"),
             At(p, "deleteDocument", "write"), call[p].prof = call[q].prof
      PROVE  <<call[p].prof, call[p].doc>> \in late
  BY <1>0, <1>1 DEF LateSound, Crossing, At
<1>2. Crossing' \subseteq late'
  OBVIOUS
<1>3. ASSUME NEW q \in Slots, At(q, "deleteDocument", "write")',
             status'[call'[q].prof] = "DOCUMENTS_SUBMITTED"
      PROVE  <<call'[q].prof, call'[q].doc>> \in late'
  <2>1. /\ At(q, "deleteDocument", "write") /\ call'[q] = call[q]
        /\ call[q].prof \in Profiles /\ call[q].doc \in Docs
    BY <1>0, <1>3, Arrives DEF At
  <2>2. CASE status[call[q].prof] = "DOCUMENTS_SUBMITTED"
    BY <1>0, <2>1, <2>2 DEF LateSound
  <2>3. CASE status[call[q].prof] # "DOCUMENTS_SUBMITTED"
    <3>1. At(p, "submitDocuments", "write") /\ call[p].prof = call[q].prof
      BY <1>0, <1>3, <2>1, <2>3, Submits
    <3>2. <<call[q].prof, call[q].doc>> \in Crossing
      BY <2>1, <3>1 DEF Crossing
    <3>. QED  BY <1>0, <2>1, <3>2 DEF LateSound
  <2>. QED  BY <2>2, <2>3
<1>4. ASSUME NEW q \in Slots, At(q, "submitDocuments", "write")',
             NEW h \in Profiles, h = call'[q].prof
      PROVE  HasOrLost(h)'
  <2>1. CASE q # p /\ At(q, "submitDocuments", "write") /\ call'[q] = call[q]
    <3>1. h = call[q].prof /\ HasOrLost(h)
      BY <1>0, <1>4, <2>1 DEF LateSound
    <3>2. At(p, "deleteDocument", "write") /\ call[p].prof = h => <<h, call[p].doc>> \in late
      BY <1>1, <2>1, <3>1
    <3>. QED  BY <1>0, <3>1, <3>2, HasOrLostKept
  <2>2. CASE /\ q = p /\ call'[p].prof = call[p].prof
             /\ UNCHANGED doc /\ DocsOf(call[p].prof) # {}
    BY <1>4, <2>2 DEF HasOrLost, DocsOf
  <2>. QED  BY <1>0, <1>4, <2>1, <2>2, Arrives
<1>5. ASSUME NEW h \in Profiles, status'[h] = "DOCUMENTS_SUBMITTED"
      PROVE  HasOrLost(h)'
  <2>1. CASE status[h] = "DOCUMENTS_SUBMITTED"
    <3>1. HasOrLost(h)
      BY <1>0, <2>1 DEF LateSound, SubmittedHasDocuments, HasOrLost
    <3>2. At(p, "deleteDocument", "write") /\ call[p].prof = h => <<h, call[p].doc>> \in late
      BY <1>0, <2>1 DEF LateSound
    <3>. QED  BY <1>0, <3>1, <3>2, HasOrLostKept
  <2>2. CASE status[h] # "DOCUMENTS_SUBMITTED"
    <3>1. At(p, "submitDocuments", "write") /\ call[p].prof = h
      BY <1>0, <1>5, <2>2, Submits
    <3>. QED  BY <1>0, <3>1, HasOrLostKept DEF LateSound, At
  <2>. QED  BY <2>1, <2>2
<1>6. SubmittedHasDocuments'
  BY <1>5 DEF SubmittedHasDocuments, HasOrLost
<1>7. ASSUME NEW q \in Slots, At(q, "submitDocuments", "write")'
      PROVE  call'[q].prof \in Profiles
  <2>1. Moves(p)
    BY <1>0, Footprint
  <2>2. call'[q].prof = call[q].prof /\ call[q].op # "idle"
    BY <1>7, <2>1 DEF Moves, At
  <2>. QED  BY <1>0, <2>2
<1>. QED  BY <1>2, <1>3, <1>4, <1>6, <1>7 DEF LateSound

LEMMA LateStep == ReviewInv /\ [Next]_vars => ReviewInv'
<1>. SUFFICES ASSUME ReviewInv, [Next]_vars PROVE LateSound'
  BY TypeStep, UploadsStep DEF ReviewInv
<1>. USE DEF ReviewInv
<1>1. ASSUME NEW p \in Slots, HandymanStarts(p) \/ AdminStarts(p),
             late' = late \cup Crossing'
      PROVE  LateSound'
  <2>1. PICK c \in Call : Reads(p, c) /\ FirstRead(c)
    BY <1>1, StartsRead
  <2>2. /\ call'[p] = c
        /\ \A q \in Slots \ {p} : call'[q] = call[q]
        /\ UNCHANGED <<status, doc, removed>>
        /\ Crossing' \subseteq late' /\ late \subseteq late'
    BY <1>1, <2>1, ReadFields
  <2>3. ASSUME NEW q \in Slots, At(q, "deleteDocument", "write")',
               status'[call'[q].prof] = "DOCUMENTS_SUBMITTED"
        PROVE  <<call'[q].prof, call'[q].doc>> \in late'
    <3>1. q # p
      BY <2>1, <2>2, <2>3 DEF FirstRead, At
    <3>. QED  BY <2>2, <2>3, <3>1 DEF LateSound, At
  <2>4. ASSUME NEW q \in Slots, At(q, "submitDocuments", "write")'
        PROVE  HasOrLost(call[q].prof)'
    <3>1. q # p
      BY <2>1, <2>2, <2>4 DEF FirstRead, At
    <3>. QED  BY <2>2, <2>4, <3>1 DEF LateSound, At, HasOrLost, DocsOf
  <2>5. SubmittedHasDocuments'
    BY <2>2 DEF LateSound, SubmittedHasDocuments, DocsOf
  <2>. QED  BY <2>2, <2>3, <2>4, <2>5 DEF LateSound
<1>2. ASSUME NEW p \in Slots, Continue(p), late' = late \cup Crossing' PROVE LateSound'
  BY <1>2, LateContinue
<1>3. ASSUME NEW p \in Slots, Crash(p), late' = late \cup Crossing' PROVE LateSound'
  <2>1. /\ \A q \in Slots : call'[q].op # "idle" => call'[q] = call[q]
        /\ UNCHANGED <<status, doc, removed>>
        /\ Crossing' \subseteq late' /\ late \subseteq late'
    BY <1>3, ReturnFields DEF Crash, profiles, store
  <2>. QED  BY <2>1 DEF LateSound, SubmittedHasDocuments, At, HasOrLost, DocsOf
<1>4. CASE UNCHANGED vars
  <2>1. UNCHANGED <<call, status, doc, removed, late>>
    BY <1>4 DEF vars, store, profiles
  <2>2. (Crossing \subseteq late)' /\ SubmittedHasDocuments'
    BY <2>1 DEF LateSound, Crossing, At, SubmittedHasDocuments, DocsOf
  <2>. QED  BY <2>1, <2>2 DEF LateSound, At, HasOrLost, DocsOf
<1>. QED  BY <1>1, <1>2, <1>3, <1>4 DEF Next

LEMMA LateInit == Init => ReviewInv
<1>1. Init => LateSound
  BY DEF Init, Idle, LateSound, Crossing, At, SubmittedHasDocuments
<1>. QED  BY <1>1, TypeInit, UploadsInit DEF ReviewInv

\* Whatever overlaps, fails or dies, a handyman's own calls included: what is submitted
\* for review has a document, unless a deletion that a submission met between its count
\* and its write has taken the last one.
THEOREM SubmittedHasDocumentsAlways == Spec => []SubmittedHasDocuments
<1>1. ReviewInv => SubmittedHasDocuments
  BY DEF ReviewInv, LateSound
<1>. QED  BY <1>1, LateInit, LateStep, PTL DEF Spec

\* Whatever overlaps, fails or dies: a document that goes while its profile is under
\* review is taken by such a deletion, and by no other handler.
THEOREM NothingDeletedUnderReviewAlways == Spec => NothingDeletedUnderReview
<1>1. ASSUME ReviewInv, [Next]_vars, NEW h \in Profiles, status[h] = "DOCUMENTS_SUBMITTED",
             NEW d \in DocsOf(h) \ DocsOf(h)'
      PROVE  <<h, d>> \in late
  <2>0. TypeOK /\ UploadsSound /\ LateSound
    BY <1>1 DEF ReviewInv
  <2>1. ~UNCHANGED doc
    BY <1>1 DEF DocsOf
  <2>2. ASSUME NEW p \in Slots, Continue(p) PROVE <<h, d>> \in late
    <3>1. At(p, "deleteDocument", "write") /\ call[p].prof = h
      BY <1>1, <2>0, <2>2, DocumentsKept
    <3>2. d = call[p].doc
      BY <1>1, <2>0, <2>2, <3>1, Deletes
    <3>. QED  BY <1>1, <2>0, <3>1, <3>2 DEF LateSound
  <2>3. ASSUME NEW p \in Slots, HandymanStarts(p) \/ AdminStarts(p) PROVE FALSE
    BY <2>0, <2>1, <2>3, StartsRead, ReadFields
  <2>4. ASSUME NEW p \in Slots, Crash(p) PROVE FALSE
    BY <2>1, <2>4 DEF Crash, store
  <2>. QED  BY <1>1, <2>1, <2>2, <2>3, <2>4 DEF Next, vars, store
<1>2. ReviewInv /\ [Next]_vars =>
        [\A h \in Profiles : status[h] = "DOCUMENTS_SUBMITTED" =>
            \A d \in DocsOf(h) \ DocsOf(h)' : <<h, d>> \in late]_vars
  BY <1>1
<1>. QED  BY <1>2, LateInit, LateStep, PTL DEF Spec, NothingDeletedUnderReview

----------------------------------------------------------------------------
(* The statuses, where the handlers of one handyman do not overlap.        *)

\* No two of a handyman's own handlers run at once.
OneEach ==
    \A p, q \in Slots : p # q /\ call[p].op \in HandymanOps /\ call[q].op \in HandymanOps =>
        call[p].prof # call[q].prof

\* What the status a handler has read still tells it when it writes; only admins
\* may have moved the profile meanwhile, and only once it was under review.
StatusRelies(p) ==
    LET c == call[p]  s == status[c.prof] IN
    /\ c.op = "completeProfile" /\ c.step = "write" => s \in Completable
    /\ c.op = "submitDocuments" /\ c.step \in {"documents", "write"} =>
           s \in {"PROFILE_COMPLETE"} \cup UnderReview
    /\ c.op \in DOMAIN Decision /\ c.step = "write" => s \in UnderReview

SerialSound == OneEach /\ \A p \in Slots : StatusRelies(p)

LEMMA SerialRead ==
    ASSUME "overlap" \notin faults, TypeOK, SerialSound, NEW p \in Slots, NEW c \in Call,
           Reads(p, c), FirstRead(c)
    PROVE  SerialSound'
<1>1. /\ call'[p] = c
      /\ \A q \in Slots \ {p} : call'[q] = call[q]
      /\ c.by \in Profiles => \A q \in Slots : call[q].op # "idle" => call[q].by # c.by
      /\ UNCHANGED status
  BY ReadFields
<1>2. OneEach'
  <2>1. \A q \in Slots : call[q].op \in HandymanOps => call[q].by = call[q].prof
    BY SlotType DEF Call, HandymanOps
  <2>2. c.op \in HandymanOps => c.by = c.prof /\ c.prof \in Profiles
    BY DEF Call, CallRecord
  <2>3. \A q \in Slots : call[q].op \in HandymanOps => call[q].op # "idle"
    BY DEF HandymanOps
  <2>4. c.op \in HandymanOps =>
          \A q \in Slots : call[q].op \in HandymanOps => call[q].prof # c.prof
    BY <1>1, <2>1, <2>2, <2>3
  <2>. QED  BY <1>1, <2>4 DEF SerialSound, OneEach
<1>3. StatusRelies(p)'
  <2>1. status'[c.prof] = status[c.prof]
    BY <1>1
  <2>2. /\ c.op = "completeProfile" => status'[c.prof] \in Completable
        /\ c.op = "submitDocuments" => status'[c.prof] \in {"PROFILE_COMPLETE", "REJECTED"}
        /\ c.op \in DOMAIN Decision => status'[c.prof] \in UnderReview
    BY <2>1 DEF FirstRead, UnderReview
  <2>. QED  BY <1>1, <2>2 DEF StatusRelies, UnderReview, Decision
<1>4. ASSUME NEW q \in Slots \ {p} PROVE StatusRelies(q)'
  BY <1>1 DEF SerialSound, StatusRelies
<1>. QED  BY <1>2, <1>3, <1>4 DEF SerialSound

LEMMA OneEachContinue ==
    ASSUME OneEach, NEW p \in Slots, Moves(p)
    PROVE  OneEach'
BY DEF OneEach, Moves, HandymanOps

\* How a step of p moves profile h: a handler of the handyman's own, or a decision.
OwnMove(p, h) ==
    /\ call[p].op \in HandymanOps /\ call[p].prof = h
    /\ status[h] \in UnderReview => status'[h] \in UnderReview
    /\ status'[h] \notin {"VERIFIED", "REJECTED"}

Decided(h) == status[h] \in UnderReview /\ status'[h] \in {"VERIFIED", "REJECTED"}

LEMMA StatusMoves ==
    ASSUME TypeOK, SerialSound, NEW p \in Slots, Continue(p), NEW h \in Profiles
    PROVE  status'[h] = status[h] \/ OwnMove(p, h) \/ Decided(h)
<1>. USE DEF UnderReview, HandymanOps
<1>0. StatusRelies(p)
  BY DEF SerialSound
<1>1. CASE EnsureWrite(p)
  BY <1>1 DEF EnsureWrite, At, SetStatus, TypeOK, OwnMove
<1>2. CASE CompleteWrite(p)
  <2>1. CASE Throw(p)
    BY <2>1 DEF Throw, profiles
  <2>2. CASE ~Throw(p)
    <3>1. status' = [status EXCEPT ![call[p].prof] = "PROFILE_COMPLETE"]
          /\ call[p].op = "completeProfile" /\ status[call[p].prof] \in Completable
      BY <1>0, <1>2, <2>2 DEF CompleteWrite, At, SetStatus, StatusRelies
    <3>. QED  BY <3>1 DEF TypeOK, OwnMove, Completable
  <2>. QED  BY <2>1, <2>2
<1>3. CASE SubmitWrite(p)
  BY <1>3 DEF SubmitWrite, At, SetStatus, TypeOK, OwnMove
<1>4. CASE DecideWrite(p)
  <2>1. status[call[p].prof] \in UnderReview
    BY <1>0, <1>4 DEF DecideWrite, At, StatusRelies
  <2>2. Decision[call[p].op] \in {"VERIFIED", "REJECTED"}
    BY <1>4 DEF DecideWrite, Decision
  <2>. QED  BY <1>4, <2>1, <2>2 DEF DecideWrite, SetStatus, TypeOK, Decided
<1>5. CASE UNCHANGED status
  BY <1>5
<1>. QED  BY <1>1, <1>2, <1>3, <1>4, <1>5, Footprint

LEMMA SerialContinue ==
    ASSUME TypeOK, SerialSound, NEW p \in Slots, Continue(p)
    PROVE  SerialSound'
<1>m. Moves(p)
  BY Footprint
<1>t. \A q \in Slots : call[q].op # "idle" => call[q].prof \in Profiles
  BY SlotType DEF CallRecord
<1>1. OneEach'
  BY <1>m, OneEachContinue DEF SerialSound
<1>2. ASSUME NEW q \in Slots, q # p PROVE StatusRelies(q)'
  <2>0. call'[q] = call[q] /\ StatusRelies(q)
    BY <1>m, <1>2 DEF Moves, SerialSound
  <2>1. CASE call[q].op = "idle"
    BY <2>0, <2>1 DEF StatusRelies, Decision
  <2>2. CASE call[q].op \in HandymanOps
    <3>1. PICK h \in Profiles : h = call[q].prof
      BY <1>t, <2>2 DEF HandymanOps
    <3>2. ~(call[p].op \in HandymanOps /\ call[p].prof = h)
      BY <1>2, <2>2, <3>1 DEF SerialSound, OneEach
    <3>3. status'[h] = status[h] \/ Decided(h)
      BY <3>1, <3>2, StatusMoves DEF OwnMove
    <3>5. call[q].op \notin DOMAIN Decision
      BY <2>2 DEF Decision, HandymanOps
    <3>6. /\ call[q].op = "completeProfile" /\ call[q].step = "write" =>
                status'[h] \in Completable
          /\ call[q].op = "submitDocuments" /\ call[q].step \in {"documents", "write"} =>
                status'[h] \in {"PROFILE_COMPLETE"} \cup UnderReview
      BY <2>0, <3>1, <3>3 DEF StatusRelies, Decided, UnderReview, Completable
    <3>. QED  BY <2>0, <3>1, <3>5, <3>6 DEF StatusRelies
  <2>3. CASE call[q].op \in AdminOps
    <3>1. PICK h \in Profiles : h = call[q].prof
      BY <1>t, <2>3 DEF AdminOps
    <3>2. status[h] \in UnderReview => status'[h] \in UnderReview
      BY <3>1, StatusMoves DEF OwnMove, Decided, UnderReview
    <3>. QED  BY <2>0, <2>3, <3>1, <3>2 DEF StatusRelies, AdminOps
  <2>4. call[q].op = "idle" \/ call[q].op \in HandymanOps \/ call[q].op \in AdminOps
    BY SlotType DEF CallRecord
  <2>. QED  BY <2>1, <2>2, <2>3, <2>4
<1>3. StatusRelies(p)'
  <2>1. CASE call'[p].op = "idle" \/ call[p].op = "uploadDocumentFile"
    BY <1>m, <2>1 DEF Moves, StatusRelies, Decision
  <2>2. CASE call'[p].op # "idle" /\ call[p].op # "uploadDocumentFile"
    <3>0. call'[p].op = call[p].op /\ call'[p].prof = call[p].prof
      BY <1>m, <2>2 DEF Moves
    <3>1. CASE call'[p].step \notin {"documents", "write"} /\ call[p].op # "deleteDocument"
      BY <3>0, <3>1 DEF StatusRelies
    <3>2. CASE /\ call[p].op = "submitDocuments" /\ call[p].step = "documents"
               /\ UNCHANGED <<status, doc>>
               /\ DocsOf(call[p].prof) # {}
      <4>1. status[call[p].prof] \in {"PROFILE_COMPLETE"} \cup UnderReview
        BY <3>2 DEF SerialSound, StatusRelies
      <4>. QED  BY <3>0, <3>2, <4>1 DEF StatusRelies, Decision
    <3>. QED  BY <2>2, <3>1, <3>2, StepMoves
  <2>. QED  BY <2>1, <2>2
<1>. QED  BY <1>1, <1>2, <1>3 DEF SerialSound

StatusInv == TypeOK /\ ("overlap" \notin faults => SerialSound)

LEMMA StatusInvStep == StatusInv /\ [Next]_vars => StatusInv'
<1>. SUFFICES ASSUME TypeOK, "overlap" \notin faults, SerialSound, [Next]_vars
              PROVE  SerialSound'
  BY TypeStep DEF StatusInv, Next, vars
<1>1. ASSUME NEW p \in Slots, HandymanStarts(p) \/ AdminStarts(p) PROVE SerialSound'
  BY <1>1, StartsRead, SerialRead
<1>2. ASSUME NEW p \in Slots, Continue(p) PROVE SerialSound'
  BY <1>2, SerialContinue
<1>3. ASSUME NEW p \in Slots, Crash(p) PROVE SerialSound'
  <2>1. Moves(p) /\ call'[p].op = "idle" /\ UNCHANGED status
    BY <1>3, ReturnMoves DEF Crash, Running, profiles
  <2>2. OneEach'
    BY <2>1, OneEachContinue DEF SerialSound
  <2>3. ASSUME NEW q \in Slots PROVE StatusRelies(q)'
    BY <2>1 DEF Moves, SerialSound, StatusRelies, Decision
  <2>. QED  BY <2>2, <2>3 DEF SerialSound
<1>4. CASE UNCHANGED vars
  BY <1>4 DEF vars, profiles, SerialSound, OneEach, StatusRelies
<1>. QED  BY <1>1, <1>2, <1>3, <1>4 DEF Next

LEMMA StatusInvInit == Init => StatusInv
<1>1. Init => SerialSound
  BY DEF Init, Idle, HandymanOps, Decision, SerialSound, OneEach, StatusRelies
<1>. QED  BY <1>1, TypeInit DEF StatusInv

\* While a handyman's own calls do not overlap, however admins race and whatever
\* fails: no late completion or decision takes a profile back before its submission,
\* and none decides what was not submitted.
THEOREM NeverBackAlways == Spec => NeverBack
<1>. DEFINE Forward(h) ==
       /\ status[h] \in UnderReview => status'[h] \in UnderReview
       /\ status'[h] \in {"VERIFIED", "REJECTED"} => status[h] \in UnderReview
<1>1. ASSUME StatusInv, [Next]_vars, "overlap" \notin faults, NEW h \in Profiles
      PROVE  Forward(h)
  <2>0. TypeOK /\ SerialSound
    BY <1>1 DEF StatusInv
  <2>1. ASSUME NEW p \in Slots, Continue(p) PROVE Forward(h)
    <3>1. status'[h] = status[h] \/ OwnMove(p, h) \/ Decided(h)
      BY <2>0, <2>1, StatusMoves
    <3>. QED  BY <3>1 DEF OwnMove, Decided, UnderReview
  <2>2. CASE UNCHANGED status
    BY <2>2 DEF UnderReview
  <2>3. ASSUME NEW p \in Slots, HandymanStarts(p) \/ AdminStarts(p) PROVE UNCHANGED status
    BY <2>0, <2>3, StartsRead, ReadFields
  <2>4. ASSUME NEW p \in Slots, Crash(p) PROVE UNCHANGED status
    BY <2>4 DEF Crash, profiles
  <2>. QED  BY <1>1, <2>1, <2>2, <2>3, <2>4 DEF Next, vars, profiles
<1>2. StatusInv /\ [Next]_vars
        => [\A h \in Profiles : "overlap" \notin faults => Forward(h)]_vars
  BY <1>1
<1>. QED  BY <1>2, StatusInvInit, StatusInvStep, PTL DEF Spec, NeverBack

=============================================================================
