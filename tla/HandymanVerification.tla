------------------------ MODULE HandymanVerification ------------------------
(***************************************************************************)
(* How a handyman becomes VERIFIED: the profile half of HandymanService,   *)
(* AdminVerificationService, and the handyman_profiles, handyman_documents *)
(* and audit_logs tables, with the object storage that holds the files.    *)
(*                                                                         *)
(* As in ServiceRequests, a slot is one running handler; its first read    *)
(* with the checks on it is one step, and each later read, write, storage  *)
(* call, event and audit record is another.  Unlike the writes of          *)
(* ServiceRequests, those on a profile match on its id alone.              *)
(***************************************************************************)
EXTENDS Naturals, FiniteSets

CONSTANTS
    Profiles,   \* handymen; a user has at most one profile
    Admins,
    Docs,       \* generated ids: of a stored file and of its document row
    Slots,      \* handlers that may run at the same time
    Details,    \* contents of the profile's editable columns and categories
    None,       \* NULL
    FaultModels \* sets of FaultKinds; in a behaviour those of one may happen

\* A query or a storage call that fails, a handler that dies, and a handyman whose
\* own handlers overlap: a double click, a retry after the timeout.
FaultKinds == {"crash", "store", "row", "cleanup", "audit", "overlap"}

ASSUME ConstantsAssumption ==
    /\ Profiles \cap Admins = {}
    /\ None \notin Profiles \cup Admins \cup Docs \cup Details
    /\ FaultModels \subseteq SUBSET FaultKinds

VARIABLES
    status,     \* HandymanProfile.verificationStatus, NONE before the row exists
    fields,     \* the editable columns and the categories
    doc,        \* doc[d]: the document row, or None
    file,       \* file[d]: is the object in the storage
    call,       \* the running handlers
    events,     \* the events handed to the listeners so far
    audit,      \* audit_logs: what was done to which profile or to its documents
    removed,    \* history: the rows deleteDocument has removed
    late,       \* history: the deletions a submission has met past its count
    faults      \* what may go wrong in this behaviour

profiles == <<status, fields>>
store == <<doc, file, removed>>
vars == <<status, fields, doc, file, removed, call, events, audit, late, faults>>

VerificationStatus ==
    {"UNVERIFIED", "PROFILE_COMPLETE", "DOCUMENTS_SUBMITTED", "VERIFIED", "REJECTED"}
DocumentStatus == {"PENDING", "APPROVED", "REJECTED"}

HandymanOps == {"ensure", "completeProfile", "updateProfile", "uploadDocumentFile",
                "deleteDocument", "submitDocuments"}
AdminOps == {"approveHandyman", "rejectHandyman", "reviewDocument",
             "getHandymanForReview"}
DocOps == {"uploadDocumentFile", "deleteDocument", "reviewDocument",
           "getHandymanForReview"}
Steps == {"store", "documents", "write", "cleanup", "emit", "audit", "access"}

EventOf ==
    [completeProfile |-> "PROFILE_COMPLETED",
     submitDocuments |-> "DOCUMENTS_SUBMITTED",
     approveHandyman |-> "VERIFIED",
     rejectHandyman  |-> "REJECTED"]

Decision == [approveHandyman |-> "VERIFIED", rejectHandyman |-> "REJECTED"]

\* The audit action of each handler, besides DOCUMENT_ACCESS.
ActionOf ==
    [approveHandyman |-> "HANDYMAN_APPROVE",
     rejectHandyman  |-> "HANDYMAN_REJECT",
     reviewDocument  |-> "DOCUMENT_REVIEW"]

DocumentRow == [owner : Profiles, status : DocumentStatus]

ASSUME NullAssumption == None \notin DocumentRow

Event == [type : {EventOf[op] : op \in DOMAIN EventOf}, prof : Profiles]
AuditLog == [prof : Profiles,
             action : {ActionOf[op] : op \in DOMAIN ActionOf} \cup {"DOCUMENT_ACCESS"}]

\* A running handler: what it is, what it does next, who called it, the profile
\* and the document it works on, and whether it found a row.
CallRecord ==
    [op : HandymanOps \cup AdminOps, step : Steps, by : Profiles \cup Admins,
     prof : Profiles, doc : Docs \cup {None}, found : BOOLEAN]

Call == {c \in CallRecord :
    /\ c.op \in HandymanOps => c.by = c.prof
    /\ c.op \in AdminOps => c.by \in Admins
    /\ c.step = "emit" => c.op \in DOMAIN EventOf
    /\ c.step = "audit" => c.op \in DOMAIN ActionOf
    /\ c.step = "access" => c.op \in {"reviewDocument", "getHandymanForReview"}
    /\ c.op \in DocOps => c.doc \in Docs}

Idle == [op |-> "idle"]

TypeOK ==
    /\ status \in [Profiles -> VerificationStatus \cup {"NONE"}]
    /\ fields \in [Profiles -> Details \cup {None}]
    /\ doc \in [Docs -> DocumentRow \cup {None}]
    /\ file \in [Docs -> {"absent", "stored", "deleted"}]
    /\ call \in [Slots -> Call \cup {Idle}]
    /\ events \in SUBSET Event
    /\ audit \in SUBSET AuditLog
    /\ removed \in SUBSET Docs
    /\ late \in SUBSET (Profiles \X Docs)
    /\ faults \in FaultModels

Init ==
    /\ status = [h \in Profiles |-> "NONE"]
    /\ fields = [h \in Profiles |-> None]
    /\ doc = [d \in Docs |-> None]
    /\ file = [d \in Docs |-> "absent"]
    /\ call = [p \in Slots |-> Idle]
    /\ events = {}
    /\ audit = {}
    /\ removed = {}
    /\ late = {}
    /\ faults \in FaultModels

DocsOf(h) == {d \in Docs : doc[d] # None /\ doc[d].owner = h}

----------------------------------------------------------------------------
(* Handlers: starting, waiting at a step, returning.  An operator ending in *)
(* _ is a slip in the one below it; the mutation runs put it in its place.  *)

Running(p) == call[p].op # "idle"

At(p, op, step) == call[p].op = op /\ call[p].step = step

Begin(p, c) ==
    /\ ~Running(p)
    /\ "overlap" \notin faults /\ c.by \in Profiles =>
           \A q \in Slots : Running(q) => call[q].by # c.by
    /\ call' = [call EXCEPT ![p] = c]

Goto(p, step) == call' = [call EXCEPT ![p].step = step]

Return(p) == call' = [call EXCEPT ![p] = Idle]

Handler(op, step, u, h, d) ==
    [op |-> op, step |-> step, by |-> u, prof |-> h, doc |-> d,
     found |-> op = "completeProfile" /\ status[h] # "NONE"]

\* A handler that has only read so far.
Reads(p, c) == Begin(p, c) /\ UNCHANGED <<profiles, store, events, audit>>

\* A later check failed, or a query did: the handler throws, nothing changes.
Throw(p) == Return(p) /\ UNCHANGED <<profiles, store>>

\* Every write on a profile row matches on its id alone.
SetStatus(h, s) == status' = [status EXCEPT ![h] = s]

----------------------------------------------------------------------------
(* The handyman's handlers (HandymanService).                              *)

\* getDashboard, getProfile, getDocuments: a row that is missing is created,
\* and one that was created meanwhile is read again.
Ensure(p, h) ==
    /\ status[h] = "NONE"
    /\ Reads(p, Handler("ensure", "write", h, h, None))

EnsureWrite(p) ==
    LET h == call[p].prof IN
    /\ At(p, "ensure", "write")
    /\ SetStatus(h, IF status[h] = "NONE" THEN "UNVERIFIED" ELSE status[h])
    /\ Return(p)
    /\ UNCHANGED <<fields, store, events, audit>>

\* The statuses completeProfile accepts on its read.
Completable_ == {"NONE", "UNVERIFIED", "REJECTED"}
Completable == {"NONE", "UNVERIFIED"}

CompleteProfile(p, h) ==
    /\ status[h] \in Completable
    /\ Reads(p, Handler("completeProfile", "write", h, h, None))

\* A row that was found is updated whatever its status is by now; without one,
\* the unique index on the user refuses the insert when there is one by now.
CompleteWrite(p) ==
    LET c == call[p] IN
    /\ At(p, "completeProfile", "write")
    /\ \/ /\ c.found \/ status[c.prof] = "NONE"
          /\ SetStatus(c.prof, "PROFILE_COMPLETE")
          /\ \E x \in Details : fields' = [fields EXCEPT ![c.prof] = x]
          /\ Goto(p, "emit")
          /\ UNCHANGED store
       \/ /\ ~c.found /\ status[c.prof] # "NONE"
          /\ Throw(p)
    /\ UNCHANGED <<events, audit>>

UpdateProfile(p, h) ==
    /\ status[h] # "NONE"
    /\ Reads(p, Handler("updateProfile", "write", h, h, None))

UpdateWrite(p) ==
    /\ At(p, "updateProfile", "write")
    /\ \E x \in Details : fields' = [fields EXCEPT ![call[p].prof] = x]
    /\ Return(p)
    /\ UNCHANGED <<status, store, events, audit>>

\* A generated id: no file has it, and no other upload.
Fresh(d) ==
    /\ file[d] = "absent"
    /\ \A q \in Slots : call[q].op = "uploadDocumentFile" => call[q].doc # d

\* uploadDocumentFile: find the profile, sniff the bytes, generate the key ...
UploadDocumentFile(p, h, d) ==
    /\ status[h] # "NONE"
    /\ Fresh(d)
    /\ Reads(p, Handler("uploadDocumentFile", "store", h, h, d))

\* ... store the file under it ...
StoreFile(p) ==
    /\ At(p, "uploadDocumentFile", "store")
    /\ \/ /\ file' = [file EXCEPT ![call[p].doc] = "stored"]
          /\ Goto(p, "write")
          /\ UNCHANGED <<profiles, doc, removed>>
       \/ "store" \in faults /\ Throw(p)
    /\ UNCHANGED <<events, audit>>

\* ... and write its row; if that fails, go and delete the file again.
UploadWrite_(p) ==
    LET c == call[p] IN
    /\ At(p, "uploadDocumentFile", "write")
    /\ doc' = [doc EXCEPT ![c.doc] = [owner |-> c.prof, status |-> "PENDING"]]
    /\ \/ Return(p)
       \/ "row" \in faults /\ Goto(p, "cleanup")
    /\ UNCHANGED <<profiles, file, removed, events, audit>>
UploadWrite(p) ==
    LET c == call[p] IN
    /\ At(p, "uploadDocumentFile", "write")
    /\ \/ /\ doc' = [doc EXCEPT ![c.doc] = [owner |-> c.prof, status |-> "PENDING"]]
          /\ Return(p)
       \/ /\ "row" \in faults
          /\ Goto(p, "cleanup")
          /\ UNCHANGED doc
    /\ UNCHANGED <<profiles, file, removed, events, audit>>

\* The clean-up: StorageService.delete swallows and logs its own failure.
CleanUp_(d) == UNCHANGED file
CleanUp(d) ==
    \/ file' = [file EXCEPT ![d] = "deleted"]
    \/ "cleanup" \in faults /\ UNCHANGED file

UploadCleanUp(p) ==
    /\ At(p, "uploadDocumentFile", "cleanup")
    /\ CleanUp(call[p].doc)
    /\ Return(p)
    /\ UNCHANGED <<profiles, doc, removed, events, audit>>

\* The profile's status at the time of the read lets documents go.
MayDelete_(h) == status[h] # "NONE"
MayDelete(h) == status[h] \notin {"NONE", "DOCUMENTS_SUBMITTED"}

DeleteDocument(p, h, d) ==
    /\ MayDelete(h)
    /\ Reads(p, Handler("deleteDocument", "write", h, h, d))

\* deleteMany: the row goes if it is there and is the caller's; the stored file
\* stays.
DeleteWrite(p) ==
    LET c == call[p] IN
    /\ At(p, "deleteDocument", "write")
    /\ \/ /\ c.doc \in DocsOf(c.prof)
          /\ doc' = [doc EXCEPT ![c.doc] = None]
          /\ removed' = removed \cup {c.doc}
       \/ /\ c.doc \notin DocsOf(c.prof)
          /\ UNCHANGED <<doc, removed>>
    /\ Return(p)
    /\ UNCHANGED <<profiles, file, events, audit>>

\* submitDocuments: read the status ...
SubmitDocuments(p, h) ==
    /\ status[h] \in {"PROFILE_COMPLETE", "REJECTED"}
    /\ Reads(p, Handler("submitDocuments", "documents", h, h, None))

\* ... then the documents, of which there must be one ...
Submittable_(h) == TRUE
Submittable(h) == DocsOf(h) # {}

CheckDocuments(p) ==
    LET h == call[p].prof IN
    /\ At(p, "submitDocuments", "documents")
    /\ \/ Submittable(h) /\ Goto(p, "write") /\ UNCHANGED <<profiles, store>>
       \/ ~Submittable(h) /\ Throw(p)
    /\ UNCHANGED <<events, audit>>

\* ... then write.
SubmitWrite(p) ==
    /\ At(p, "submitDocuments", "write")
    /\ SetStatus(call[p].prof, "DOCUMENTS_SUBMITTED")
    /\ Goto(p, "emit")
    /\ UNCHANGED <<fields, store, events, audit>>

----------------------------------------------------------------------------
(* The admin's handlers (AdminVerificationService).                        *)

\* approveHandyman, rejectHandyman: the profile must be under review ...
Decide(p, op, a, h) ==
    /\ op \in DOMAIN Decision
    /\ status[h] = "DOCUMENTS_SUBMITTED"
    /\ Reads(p, Handler(op, "write", a, h, None))

\* ... and is decided, whatever its status is by now.
DecideWrite(p) ==
    LET c == call[p] IN
    /\ c.op \in DOMAIN Decision
    /\ At(p, c.op, "write")
    /\ SetStatus(c.prof, Decision[c.op])
    /\ Goto(p, "emit")
    /\ UNCHANGED <<fields, store, events, audit>>

\* reviewDocument: the document must be the profile's ...
ReviewDocument(p, a, h, d) ==
    /\ d \in DocsOf(h)
    /\ Reads(p, Handler("reviewDocument", "write", a, h, d))

\* ... and must still be there.
ReviewWrite(p) ==
    LET d == call[p].doc IN
    /\ At(p, "reviewDocument", "write")
    /\ \/ /\ doc[d] # None
          /\ \E s \in {"APPROVED", "REJECTED"} :
                doc' = [doc EXCEPT ![d] = [@ EXCEPT !.status = s]]
          /\ Goto(p, "audit")
          /\ UNCHANGED <<profiles, file, removed>>
       \/ /\ doc[d] = None
          /\ Throw(p)
    /\ UNCHANGED <<events, audit>>

\* getHandymanForReview: one audit record per document it signs a URL for; doc
\* stands for one of them.
GetHandymanForReview(p, a, h, d) ==
    /\ d \in DocsOf(h)
    /\ Reads(p, Handler("getHandymanForReview", "access", a, h, d))

Log(c, action) == audit' = audit \cup {[prof |-> c.prof, action |-> action]}

\* The record of the handler's own action: its failure fails the handler.
Audit(p) ==
    LET c == call[p] IN
    /\ Running(p) /\ c.step = "audit"
    /\ \/ /\ Log(c, ActionOf[c.op])
          /\ IF c.op = "reviewDocument" THEN Goto(p, "access") ELSE Return(p)
       \/ /\ "audit" \in faults
          /\ Return(p)
          /\ UNCHANGED audit
    /\ UNCHANGED <<profiles, store, events>>

\* logDocumentAccess is best-effort.
LogDocumentAccess(p) ==
    LET c == call[p] IN
    /\ Running(p) /\ c.step = "access"
    /\ \/ Log(c, "DOCUMENT_ACCESS")
       \/ "audit" \in faults /\ UNCHANGED audit
    /\ Return(p)
    /\ UNCHANGED <<profiles, store, events>>

----------------------------------------------------------------------------
\* What follows a handler's event: a decision is then recorded.
AfterEmit_(p) == Return(p)
AfterEmit(p) == IF call[p].op \in AdminOps THEN Goto(p, "audit") ELSE Return(p)

Emit(p) ==
    LET c == call[p] IN
    /\ Running(p) /\ c.step = "emit"
    /\ events' = events \cup {[type |-> EventOf[c.op], prof |-> c.prof]}
    /\ AfterEmit(p)
    /\ UNCHANGED <<profiles, store, audit>>

\* A handler dies, or one of its queries fails: what it wrote stays.
Crash(p) ==
    /\ "crash" \in faults
    /\ Running(p)
    /\ Return(p)
    /\ UNCHANGED <<profiles, store, events, audit>>

HandymanStarts(p) == \E h \in Profiles :
    \/ Ensure(p, h)
    \/ CompleteProfile(p, h)
    \/ UpdateProfile(p, h)
    \/ \E d \in Docs : UploadDocumentFile(p, h, d) \/ DeleteDocument(p, h, d)
    \/ SubmitDocuments(p, h)

AdminStarts(p) == \E a \in Admins, h \in Profiles :
    \/ \E op \in AdminOps : Decide(p, op, a, h)
    \/ \E d \in Docs : ReviewDocument(p, a, h, d) \/ GetHandymanForReview(p, a, h, d)

Continue(p) ==
    \/ EnsureWrite(p)
    \/ CompleteWrite(p)
    \/ UpdateWrite(p)
    \/ StoreFile(p)
    \/ UploadWrite(p)
    \/ UploadCleanUp(p)
    \/ DeleteWrite(p)
    \/ CheckDocuments(p)
    \/ SubmitWrite(p)
    \/ DecideWrite(p)
    \/ ReviewWrite(p)
    \/ Audit(p)
    \/ LogDocumentAccess(p)
    \/ Emit(p)

\* The deletions in flight together with a submission that has counted the documents.
Crossing ==
    {e \in Profiles \X Docs : \E p, q \in Slots :
        /\ At(p, "deleteDocument", "write") /\ call[p].prof = e[1] /\ call[p].doc = e[2]
        /\ At(q, "submitDocuments", "write") /\ call[q].prof = e[1]}

Next ==
    /\ \E p \in Slots : HandymanStarts(p) \/ AdminStarts(p) \/ Continue(p) \/ Crash(p)
    /\ late' = late \cup Crossing'
    /\ UNCHANGED faults

Spec == Init /\ [][Next]_vars

----------------------------------------------------------------------------
(* Correctness for any number of handlers running at once, and any faults. *)

\* The file of every document row is in the storage: a failed, retried or
\* interleaved upload never leaves a row whose signed URL leads nowhere.
RowsHaveFiles == \A d \in Docs : doc[d] # None => file[d] = "stored"

Uploading(d) == \E p \in Slots : call[p].op = "uploadDocumentFile" /\ call[p].doc = d

\* While no handler dies and no clean-up fails, an object without a row is one
\* whose upload still runs, or whose row deleteDocument removed: a failed insert
\* leaves no orphan, whatever runs in between.
NoOrphanUpload ==
    faults \cap {"crash", "cleanup"} = {} =>
        \A d \in Docs : file[d] = "stored" /\ doc[d] = None
                           => Uploading(d) \/ d \in removed

\* Handler p has written decision op on profile h and is on its way to announce
\* and to record it.
Recording(p, op, h) ==
    call[p].op = op /\ call[p].prof = h /\ call[p].step \in {"emit", "audit"}

\* While no handler dies and no audit insert fails, every decision a profile
\* shows has been announced to the handyman and recorded in the audit log, or
\* the handler that wrote it is about to; later decisions do not lose it.
DecisionRecorded ==
    faults \cap {"crash", "audit"} = {} =>
        \A h \in Profiles, op \in DOMAIN Decision : status[h] = Decision[op] =>
            \/ \E p \in Slots : Recording(p, op, h)
            \/ /\ [type |-> EventOf[op], prof |-> h] \in events
               /\ [action |-> ActionOf[op], prof |-> h] \in audit

\* There is something to review, unless a deletion was in flight between the count of
\* a submission's documents and its write, and has taken the last one.
SubmittedHasDocuments ==
    \A h \in Profiles : status[h] = "DOCUMENTS_SUBMITTED" /\ DocsOf(h) = {} =>
        \E d \in removed : <<h, d>> \in late

\* "Cannot delete while documents are under review" (DELETE /handyman/documents): what
\* is deleted then is deleted by a handler that passed the check before, and was still
\* to write when a submission had counted the documents.
NothingDeletedUnderReview ==
    [][\A h \in Profiles : status[h] = "DOCUMENTS_SUBMITTED" =>
          \A d \in DocsOf(h) \ DocsOf(h)' : <<h, d>> \in late]_vars

UnderReview == {"DOCUMENTS_SUBMITTED", "VERIFIED", "REJECTED"}

\* While no handyman's own handlers overlap, a profile that was submitted never falls
\* back before its submission, however late a decision or a first completion is
\* written, and no profile is decided that was not submitted; admins race freely.
NeverBack ==
    [][\A h \in Profiles : "overlap" \notin faults =>
          /\ status[h] \in UnderReview => status'[h] \in UnderReview
          /\ status'[h] \in {"VERIFIED", "REJECTED"} => status[h] \in UnderReview
      ]_vars

=============================================================================
