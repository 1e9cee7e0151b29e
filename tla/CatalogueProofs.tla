--------------------------- MODULE CatalogueProofs ---------------------------
(***************************************************************************)
(* Catalogue implements AtomicCatalogue, for any sets of categories,       *)
(* names, e-mails and requests in the server, and any slug function.       *)
(***************************************************************************)
EXTENDS Catalogue, TLAPS

\* What the step of a request says of its body, its answer and the rows: an update that
\* is past its first look-up has its row, as rows are never deleted.
Staged(h) ==
    /\ asked[h] = None <=> step[h] \in {"idle", "over", "failed"}
    /\ step[h] \in {"idle", "guards"} => status[h] = None
    /\ step[h] \in {"over", "failed"} => status[h] # None
    /\ step[h] = "findId" => asked[h].kind = "update"
    /\ step[h] = "findEmail" => asked[h].kind = "join"
    /\ step[h] = "findSlug" =>
         \/ asked[h].kind = "create"
         \/ asked[h].kind = "update" /\ asked[h].name \in Names /\ row[asked[h].id] # None
    /\ step[h] = "write" =>
         \/ asked[h].kind \in {"create", "join"}
         \/ asked[h].kind = "update" /\ asked[h].name # Null /\ row[asked[h].id] # None

Stages == \A h \in Handlers : Staged(h)

\* A category's slug is that of its name, and no two share one.
SlugsFollowNames ==
    \A c \in Categories : row[c] # None =>
        /\ row[c].slug = SlugOf[row[c].name]
        /\ \A d \in Categories : row[d] # None /\ row[d].slug = row[c].slug => c = d

Inv == TypeOK /\ Stages /\ SlugsFollowNames

-----------------------------------------------------------------------------
(* Requests and rows *)

LEMMA Absent ==
    /\ None \notin Rows /\ None \notin Requests /\ None \notin Statuses
    /\ None \notin [name : Names, active : BOOLEAN]
    /\ None # Null /\ None \notin Names /\ Null \notin Names /\ None \notin BOOLEAN
<1>1. None \notin Rows /\ None \notin Requests /\ None \notin Statuses
  BY NullAssumption
<1>2. None \notin [name : Names, active : BOOLEAN]
  BY NullAssumption
<1>3. None # Null /\ {None, Null} \cap (Names \cup Slugs \cup BOOLEAN) = {}
  BY CatalogueAssumption
<1>4. None \notin Names /\ Null \notin Names /\ None \notin BOOLEAN
  BY <1>3
<1> QED
  BY <1>1, <1>2, <1>3, <1>4

LEMMA RequestKinds ==
    ASSUME NEW o \in Requests
    PROVE  /\ o # None
           /\ o.kind \in {"create", "update", "join"}
           /\ o.kind = "create" => o.name \in Names
           /\ o.kind = "join" => o.email \in Emails
           /\ o.kind = "update" => /\ o.id \in Categories
                                   /\ o.name \in Names \cup {Null, None}
                                   /\ o.active \in BOOLEAN \cup {Null, None}
<1>1. o # None
  BY Absent
<1>2. CASE o \in [kind : {"create"}, name : Names]
  BY <1>1, <1>2
<1>3. CASE o \in [kind : {"join"}, email : Emails]
  BY <1>1, <1>3
<1>4. CASE o \in [kind : {"update"}, id : Categories, name : Names \cup {Null, None},
                 active : Actives \cup {Null, None}]
  <2>1. Actives \subseteq BOOLEAN
    BY CatalogueAssumption
  <2> QED
    BY <1>1, <1>4, <2>1
<1> QED
  BY <1>2, <1>3, <1>4 DEF Requests

\* The slugs of names are slugs.
LEMMA SlugType == \A n \in Names : SlugOf[n] \in Slugs
BY DEF Slugs

LEMMA CreatedType ==
    ASSUME NEW o \in Requests, o.kind = "create"
    PROVE  /\ Created(o) \in Rows
           /\ Created(o).name = o.name /\ Created(o).slug = SlugOf[o.name]
           /\ Created(o).active = TRUE
BY RequestKinds, SlugType DEF Created, Rows

\* A change of a row that has its slug from its name gives another such.
LEMMA ChangedType ==
    ASSUME NEW o \in Requests, o.kind = "update", o.name # Null, o.active # Null,
           NEW old \in Rows
    PROVE  /\ Changed(old, o) \in Rows
           /\ Changed(old, o).name = IF o.name = None THEN old.name ELSE o.name
           /\ Changed(old, o).slug = IF o.name = None THEN old.slug ELSE SlugOf[o.name]
           /\ Changed(old, o).active = IF o.active = None THEN old.active ELSE o.active
<1>1. o.name \in Names \cup {None} /\ o.active \in BOOLEAN \cup {None}
  BY RequestKinds
<1>2. (IF o.name = None THEN old.name ELSE o.name) \in Names
  BY <1>1 DEF Rows
<1>3. (IF o.name = None THEN old.slug ELSE SlugOf[o.name]) \in Slugs
  BY <1>1, SlugType DEF Rows
<1>4. (IF o.active = None THEN old.active ELSE o.active) \in BOOLEAN
  BY <1>1 DEF Rows
<1> QED
  BY <1>2, <1>3, <1>4 DEF Changed, Rows

-----------------------------------------------------------------------------
(* What a step leaves alone *)

\* Nothing of the other requests changes.
Alone(h) ==
    \A g \in Handlers \ {h} : step'[g] = step[g] /\ asked'[g] = asked[g] /\ status'[g] = status[g]

RowsStay == \A c \in Categories : row[c] # None => row'[c] # None

PipelineType ==
    /\ step \in [Handlers -> Steps]
    /\ asked \in [Handlers -> Requests \cup {None}]
    /\ status \in [Handlers -> Statuses \cup {None}]

TableType == row \in [Categories -> Rows \cup {None}] /\ list \subseteq Emails

LEMMA Types == TypeOK <=> TableType /\ PipelineType
BY DEF TypeOK, TableType, PipelineType

LEMMA OthersStaged ==
    ASSUME TypeOK, Stages, NEW h \in Handlers, Alone(h), RowsStay, Staged(h)'
    PROVE  Stages'
<1> SUFFICES ASSUME NEW g \in Handlers PROVE Staged(g)'
  BY DEF Stages
<1>1. CASE g = h
  BY <1>1
<1>2. CASE g # h
  <2>1. step'[g] = step[g] /\ asked'[g] = asked[g] /\ status'[g] = status[g]
    BY <1>2 DEF Alone
  <2>2. Staged(g)
    BY DEF Stages
  <2>3. ASSUME row[asked[g].id] # None, asked[g].kind = "update", asked[g] # None
        PROVE  row'[asked[g].id] # None
    <3>1. asked[g].id \in Categories
      BY <2>3, RequestKinds DEF TypeOK
    <3> QED
      BY <2>3, <3>1 DEF RowsStay
  <2> QED
    BY <2>1, <2>2, <2>3 DEF Staged
<1> QED
  BY <1>1, <1>2

LEMMA EndStep ==
    ASSUME TypeOK, Stages, NEW h \in Handlers, NEW at \in {"over", "failed"},
           NEW s \in Statuses, End(h, at, s)
    PROVE  /\ PipelineType' /\ Alone(h) /\ Staged(h)'
           /\ step'[h] = at /\ asked'[h] = None
           /\ status'[h] = IF status[h] = None THEN s ELSE status[h]
<1>1. /\ step' = [step EXCEPT ![h] = at]
      /\ status' = [status EXCEPT ![h] = IF status[h] = None THEN s ELSE status[h]]
      /\ asked' = [asked EXCEPT ![h] = None]
  BY DEF End
<1>2. /\ step \in [Handlers -> Steps] /\ asked \in [Handlers -> Requests \cup {None}]
      /\ status \in [Handlers -> Statuses \cup {None}]
  BY DEF TypeOK
<1>3. at \in Steps
  BY DEF Steps
<1>4. step'[h] = at /\ asked'[h] = None /\ status'[h] = IF status[h] = None THEN s ELSE status[h]
  BY <1>1, <1>2
<1>5. status'[h] # None
  BY <1>4, Absent
<1>6. PipelineType'
  BY <1>1, <1>2, <1>3 DEF PipelineType
<1>7. Alone(h)
  BY <1>1, <1>2 DEF Alone
<1>8. Staged(h)'
  BY <1>4, <1>5 DEF Staged
<1> QED
  BY <1>4, <1>6, <1>7, <1>8

LEMMA GotoStep ==
    ASSUME TypeOK, NEW h \in Handlers, NEW at \in Steps, Goto(h, at)
    PROVE  PipelineType' /\ Alone(h) /\ step'[h] = at /\ asked' = asked /\ status' = status
<1>1. step' = [step EXCEPT ![h] = at] /\ asked' = asked /\ status' = status
  BY DEF Goto
<1>2. /\ step \in [Handlers -> Steps] /\ asked \in [Handlers -> Requests \cup {None}]
      /\ status \in [Handlers -> Statuses \cup {None}]
  BY DEF TypeOK
<1>3. step'[h] = at /\ PipelineType'
  BY <1>1, <1>2 DEF PipelineType
<1>4. Alone(h)
  BY <1>1, <1>2 DEF Alone
<1> QED
  BY <1>1, <1>3, <1>4

\* The answers are statuses.
LEMMA Answers ==
    /\ ErrorStatus("ResourceNotFound") = 404 /\ ErrorStatus("ResourceAlreadyExists") = 409
    /\ ErrorStatus("Conflict") = 409 /\ ErrorStatus("TypeError") = 500
    /\ ErrorStatus("PrismaClientValidationError") = 500
    /\ PrismaStatus("P2002") = 409 /\ PrismaStatus("P1001") = 500
    /\ {200, 201, 400, 401, 403, 404, 408, 409, 429, 500} \subseteq Statuses
BY DEF ErrorStatus, HttpStatus, PrismaStatus, Statuses

\* A request between the guards and the end of its handler.
LEMMA Active ==
    ASSUME TypeOK, Stages, NEW h \in Handlers, step[h] \in Queries \cup {"guards"}
    PROVE  asked[h] \in Requests
<1>1. asked[h] # None
  BY DEF Stages, Staged, Queries
<1> QED
  BY <1>1 DEF TypeOK

-----------------------------------------------------------------------------
(* Writes *)

\* Storing a row whose slug is its name's and no other row's.
LEMMA StoreStep ==
    ASSUME TypeOK, SlugsFollowNames, NEW c \in Categories, NEW new \in Rows,
           row' = [row EXCEPT ![c] = new],
           new.slug = SlugOf[new.name],
           \A d \in Categories \ {c} : row[d] # None => row[d].slug # new.slug
    PROVE  row' \in [Categories -> Rows \cup {None}] /\ RowsStay /\ SlugsFollowNames'
<1>1. row \in [Categories -> Rows \cup {None}] /\ new # None
  BY Absent DEF TypeOK
<1>2. \A d \in Categories : row'[d] = IF d = c THEN new ELSE row[d]
  BY <1>1
<1>3. row' \in [Categories -> Rows \cup {None}]
  BY <1>1
<1>4. RowsStay
  BY <1>1, <1>2 DEF RowsStay
<1>5. ASSUME NEW d \in Categories, row'[d] # None
      PROVE  /\ row'[d].slug = SlugOf[row'[d].name]
             /\ \A e \in Categories : row'[e] # None /\ row'[e].slug = row'[d].slug => d = e
  BY <1>2, <1>5 DEF SlugsFollowNames
<1>6. SlugsFollowNames'
  BY <1>5 DEF SlugsFollowNames
<1> QED
  BY <1>3, <1>4, <1>6

LEMMA InsertStep ==
    ASSUME Inv, NEW h \in Handlers, asked[h] \in Requests,
           NEW c \in Categories, InsertCategory(h, c)
    PROVE  TableType' /\ RowsStay /\ SlugsFollowNames'
<1> DEFINE new == Created(asked[h])
<1>1. new \in Rows /\ new.slug = SlugOf[new.name]
  BY CreatedType DEF InsertCategory
<1>2. \A d \in Categories : row[d] # None => row[d].slug # new.slug
  BY DEF InsertCategory, Collides
<1>3. row' = [row EXCEPT ![c] = new] /\ list' = list
  BY DEF InsertCategory
<1> HIDE DEF new
<1>4. row' \in [Categories -> Rows \cup {None}] /\ RowsStay /\ SlugsFollowNames'
  BY <1>1, <1>2, <1>3, StoreStep DEF Inv
<1> QED
  BY <1>3, <1>4 DEF TableType, Inv, TypeOK

LEMMA UpdateStep ==
    ASSUME Inv, NEW h \in Handlers, step[h] = "write",
           NEW c \in Categories, UpdateCategory(h, c)
    PROVE  TableType' /\ RowsStay /\ SlugsFollowNames'
<1> DEFINE new == Changed(row[c], asked[h])
<1>1. asked[h] \in Requests /\ asked[h].kind = "update" /\ asked[h].name # Null
      /\ asked[h].active # Null
  BY Active DEF Inv, Stages, Staged, Queries, UpdateCategory
<1>2. row[c] \in Rows /\ row[c].slug = SlugOf[row[c].name]
  BY DEF Inv, TypeOK, SlugsFollowNames, UpdateCategory
<1>3. new \in Rows
  BY <1>1, <1>2, ChangedType
<1>4. new.slug = SlugOf[new.name]
  BY <1>1, <1>2, ChangedType
<1>5. \A d \in Categories \ {c} : row[d] # None => row[d].slug # new.slug
  BY DEF UpdateCategory, Collides
<1>6. row' = [row EXCEPT ![c] = new] /\ list' = list
  BY DEF UpdateCategory
<1> HIDE DEF new
<1>7. row' \in [Categories -> Rows \cup {None}] /\ RowsStay /\ SlugsFollowNames'
  BY <1>3, <1>4, <1>5, <1>6, StoreStep DEF Inv
<1> QED
  BY <1>6, <1>7 DEF TableType, Inv, TypeOK

LEMMA Untouched ==
    ASSUME Inv, UNCHANGED row, list' \subseteq Emails
    PROVE  TableType' /\ RowsStay /\ SlugsFollowNames'
BY DEF Inv, TypeOK, TableType, RowsStay, SlugsFollowNames

LEMMA WriteStep ==
    ASSUME Inv, NEW h \in Handlers, step[h] = "write", Write(h)
    PROVE  TableType' /\ RowsStay /\ SlugsFollowNames'
<1>1. asked[h] \in Requests
  BY Active DEF Inv, Queries
<1>2. ASSUME NEW c \in Categories, InsertCategory(h, c)
      PROVE  TableType' /\ RowsStay /\ SlugsFollowNames'
  BY <1>1, <1>2, InsertStep
<1>3. ASSUME NEW c \in Categories, UpdateCategory(h, c)
      PROVE  TableType' /\ RowsStay /\ SlugsFollowNames'
  BY <1>3, UpdateStep
<1>4. CASE InsertEntry(h)
  <2>1. UNCHANGED row /\ list' \subseteq Emails
    BY <1>1, <1>4, RequestKinds DEF InsertEntry, Inv, TypeOK
  <2> QED
    BY <2>1, Untouched
<1> QED
  BY <1>2, <1>3, <1>4 DEF Write

-----------------------------------------------------------------------------
(* The invariant *)

LEMMA InvInit == Init => Inv
BY DEF Init, Inv, TypeOK, Stages, Staged, SlugsFollowNames, Steps

\* A step of h that keeps the tables well-formed, and puts h where it says.
LEMMA Keeps ==
    ASSUME Inv, NEW h \in Handlers, TableType', RowsStay, SlugsFollowNames',
           PipelineType', Alone(h), Staged(h)'
    PROVE  Inv'
<1>1. TypeOK'
  BY DEF TypeOK, TableType, PipelineType
<1>2. Stages'
  BY OthersStaged DEF Inv
<1> QED
  BY <1>1, <1>2 DEF Inv

LEMMA EndKeeps ==
    ASSUME Inv, NEW h \in Handlers, TableType', RowsStay, SlugsFollowNames',
           NEW at \in {"over", "failed"}, NEW s \in Statuses, End(h, at, s)
    PROVE  Inv'
BY EndStep, Keeps DEF Inv

LEMMA GotoKeeps ==
    ASSUME Inv, NEW h \in Handlers, UNCHANGED <<row, list>>, NEW at \in Steps, Goto(h, at),
           Staged(h)'
    PROVE  Inv'
<1>1. TableType' /\ RowsStay /\ SlugsFollowNames'
  BY Untouched DEF Inv, TypeOK
<1>2. PipelineType' /\ Alone(h)
  BY GotoStep DEF Inv
<1> QED
  BY <1>1, <1>2, Keeps

LEMMA GuardsKeep ==
    ASSUME Inv, NEW h \in Handlers, NEW role \in Roles \cup {None}, Guards(h, role)
    PROVE  Inv'
<1>1. UNCHANGED <<row, list>> /\ step[h] = "guards" /\ asked[h] \in Requests
  BY Active DEF Guards, Inv
<1>2. TableType' /\ RowsStay /\ SlugsFollowNames'
  BY <1>1, Untouched DEF Inv, TypeOK
<1>3. ASSUME NEW s \in {400, 401, 403, 429}, End(h, "over", s) PROVE Inv'
  <2>1. s \in Statuses
    BY DEF Statuses
  <2> QED
    BY <1>2, <1>3, <2>1, EndKeeps
<1>4. CASE Goto(h, First(asked[h]))
  <2>1. \/ asked[h].kind = "create" /\ First(asked[h]) = "findSlug"
        \/ asked[h].kind = "update" /\ First(asked[h]) = "findId"
        \/ asked[h].kind = "join" /\ First(asked[h]) = "findEmail"
    <3>1. CASE asked[h].kind = "create"
      BY <3>1 DEF First
    <3>2. CASE asked[h].kind = "update"
      BY <3>2 DEF First
    <3>3. CASE asked[h].kind = "join"
      BY <3>3 DEF First
    <3> QED
      BY <1>1, <3>1, <3>2, <3>3, RequestKinds
  <2>2. First(asked[h]) \in Steps
    BY <2>1 DEF Steps, Queries
  <2>3. step'[h] = First(asked[h]) /\ asked' = asked
    BY <1>4, <2>2, GotoStep DEF Inv
  <2>4. asked[h] # None
    BY <1>1, RequestKinds
  <2>5. Staged(h)'
    BY <2>1, <2>3, <2>4 DEF Staged
  <2> QED
    BY <1>1, <1>4, <2>2, <2>5, GotoKeeps
<1> QED
  BY <1>3, <1>4 DEF Guards

\* The look-ups: what a request is when it goes to its write.
LEMMA FindIdKeeps ==
    ASSUME Inv, NEW h \in Handlers, FindId(h)
    PROVE  Inv'
<1> DEFINE o == asked[h]
<1>1. /\ UNCHANGED <<row, list>> /\ step[h] = "findId" /\ o \in Requests
      /\ o.kind = "update" /\ o.id \in Categories /\ o.name \in Names \cup {Null, None}
  <2>1. UNCHANGED <<row, list>> /\ step[h] = "findId"
    BY DEF FindId
  <2>2. o \in Requests /\ o.kind = "update"
    BY <2>1, Active DEF Inv, Stages, Staged, Queries
  <2> QED
    BY <2>1, <2>2, RequestKinds
<1>2. TableType' /\ RowsStay /\ SlugsFollowNames'
  BY <1>1, Untouched DEF Inv, TypeOK
<1>3. \/ Throw(h, "ResourceNotFound") \/ Throw(h, "TypeError")
      \/ row[o.id] # None /\ o.name = None /\ Goto(h, "write")
      \/ row[o.id] # None /\ o.name \in Names /\ Goto(h, "findSlug")
  <2>1. CASE row[o.id] = None
    BY <2>1 DEF FindId
  <2>2. CASE row[o.id] # None /\ o.name = Null
    BY <2>2 DEF FindId
  <2>3. CASE row[o.id] # None /\ o.name = None
    BY <2>3, Absent DEF FindId
  <2>4. CASE row[o.id] # None /\ o.name \in Names
    BY <2>4, Absent DEF FindId
  <2> QED
    BY <1>1, <2>1, <2>2, <2>3, <2>4
<1>4. ASSUME NEW s \in {404, 500}, End(h, "over", s) PROVE Inv'
  <2>1. s \in Statuses
    BY DEF Statuses
  <2> QED
    BY <1>2, <1>4, <2>1, EndKeeps
<1>5. ASSUME NEW at \in {"write", "findSlug"}, Goto(h, at), row[o.id] # None,
             at = "write" => o.name = None, at = "findSlug" => o.name \in Names
      PROVE  Inv'
  <2>1. at \in Steps
    BY DEF Steps, Queries
  <2>2. step'[h] = at /\ asked' = asked
    BY <1>5, <2>1, GotoStep DEF Inv
  <2>3. Staged(h)'
    BY <1>1, <1>5, <2>2, Absent DEF Staged
  <2> QED
    BY <1>1, <1>5, <2>1, <2>3, GotoKeeps
<1> QED
  BY <1>3, <1>4, <1>5, Answers DEF Throw

LEMMA FindSlugKeeps ==
    ASSUME Inv, NEW h \in Handlers, FindSlug(h)
    PROVE  Inv'
<1>1. UNCHANGED <<row, list>> /\ step[h] = "findSlug" /\ asked[h] \in Requests
  BY Active DEF Inv, Queries, FindSlug
<1>2. TableType' /\ RowsStay /\ SlugsFollowNames'
  BY <1>1, Untouched DEF Inv, TypeOK
<1>3. CASE Throw(h, "ResourceAlreadyExists")
  BY <1>2, <1>3, Answers, EndKeeps DEF Throw
<1>4. CASE Goto(h, "write")
  <2>1. "write" \in Steps
    BY DEF Steps, Queries
  <2>2. step'[h] = "write" /\ asked' = asked
    BY <1>4, <2>1, GotoStep DEF Inv
  <2>3. Staged(h)
    BY DEF Inv, Stages
  <2>4. Staged(h)'
    BY <1>1, <2>2, <2>3, Absent DEF Staged
  <2> QED
    BY <1>1, <1>4, <2>1, <2>4, GotoKeeps
<1> QED
  BY <1>3, <1>4 DEF FindSlug

LEMMA FindEmailKeeps ==
    ASSUME Inv, NEW h \in Handlers, FindEmail(h)
    PROVE  Inv'
<1>1. UNCHANGED <<row, list>> /\ step[h] = "findEmail" /\ asked[h] \in Requests
  BY Active DEF Inv, Queries, FindEmail
<1>2. TableType' /\ RowsStay /\ SlugsFollowNames'
  BY <1>1, Untouched DEF Inv, TypeOK
<1>3. CASE Throw(h, "Conflict")
  BY <1>2, <1>3, Answers, EndKeeps DEF Throw
<1>4. CASE Goto(h, "write")
  <2>1. "write" \in Steps
    BY DEF Steps, Queries
  <2>2. step'[h] = "write" /\ asked' = asked
    BY <1>4, <2>1, GotoStep DEF Inv
  <2>3. Staged(h)
    BY DEF Inv, Stages
  <2>4. Staged(h)'
    BY <1>1, <2>2, <2>3 DEF Staged
  <2> QED
    BY <1>1, <1>4, <2>1, <2>4, GotoKeeps
<1> QED
  BY <1>3, <1>4 DEF FindEmail

LEMMA CommitKeeps ==
    ASSUME Inv, NEW h \in Handlers, Commit(h)
    PROVE  Inv'
<1>1. CASE Write(h) /\ End(h, "over", Success(asked[h]))
  <2>1. TableType' /\ RowsStay /\ SlugsFollowNames'
    BY <1>1, WriteStep DEF Commit
  <2>2. Success(asked[h]) \in Statuses
    BY DEF Success, Statuses
  <2> QED
    BY <1>1, <2>1, <2>2, EndKeeps
<1>2. CASE ThrowPrisma(h, "P2002") /\ UNCHANGED <<row, list>>
  <2>1. TableType' /\ RowsStay /\ SlugsFollowNames'
    BY <1>2, Untouched DEF Inv, TypeOK
  <2> QED
    BY <1>2, <2>1, Answers, EndKeeps DEF ThrowPrisma
<1>3. CASE Throw(h, "PrismaClientValidationError") /\ UNCHANGED <<row, list>>
  <2>1. TableType' /\ RowsStay /\ SlugsFollowNames'
    BY <1>3, Untouched DEF Inv, TypeOK
  <2> QED
    BY <1>3, <2>1, Answers, EndKeeps DEF Throw
<1> QED
  BY <1>1, <1>2, <1>3 DEF Commit

LEMMA FailsKeeps ==
    ASSUME Inv, NEW h \in Handlers, DatabaseFails(h)
    PROVE  Inv'
<1>1. TableType' /\ RowsStay /\ SlugsFollowNames'
  <2>1. CASE UNCHANGED <<row, list>>
    BY <2>1, Untouched DEF Inv, TypeOK
  <2>2. CASE step[h] = "write" /\ Write(h)
    BY <2>2, WriteStep
  <2> QED
    BY <2>1, <2>2 DEF DatabaseFails
<1> QED
  BY <1>1, Answers, EndKeeps DEF DatabaseFails

LEMMA ReceiveKeeps ==
    ASSUME Inv, NEW h \in Handlers, NEW o \in Requests, Receive(h, o)
    PROVE  Inv'
<1>1. /\ step \in [Handlers -> Steps] /\ asked \in [Handlers -> Requests \cup {None}]
      /\ status \in [Handlers -> Statuses \cup {None}]
  BY DEF Inv, TypeOK
<1>2. /\ step[h] = "idle" /\ UNCHANGED <<row, list, status>>
      /\ step' = [step EXCEPT ![h] = "guards"] /\ asked' = [asked EXCEPT ![h] = o]
  BY DEF Receive
<1>3. TableType' /\ RowsStay /\ SlugsFollowNames'
  BY <1>2, Untouched DEF Inv, TypeOK
<1>4. PipelineType' /\ Alone(h)
  BY <1>1, <1>2 DEF PipelineType, Alone, Steps
<1>5. Staged(h)
  BY DEF Inv, Stages
<1>6. Staged(h)'
  BY <1>1, <1>2, <1>5, RequestKinds DEF Staged
<1> QED
  BY <1>3, <1>4, <1>6, Keeps

LEMMA TimeOutKeeps ==
    ASSUME Inv, NEW h \in Handlers, TimeOut(h)
    PROVE  Inv'
<1>1. /\ step \in [Handlers -> Steps] /\ asked \in [Handlers -> Requests \cup {None}]
      /\ status \in [Handlers -> Statuses \cup {None}]
  BY DEF Inv, TypeOK
<1>2. /\ step[h] \in Queries /\ UNCHANGED <<row, list, step, asked>>
      /\ status' = [status EXCEPT ![h] = 408]
  BY DEF TimeOut
<1>3. TableType' /\ RowsStay /\ SlugsFollowNames'
  BY <1>2, Untouched DEF Inv, TypeOK
<1>4. PipelineType' /\ Alone(h)
  BY <1>1, <1>2 DEF PipelineType, Alone, Statuses
<1>5. Staged(h) /\ step[h] \notin {"idle", "guards", "over", "failed"}
  BY <1>2 DEF Inv, Stages, Queries
<1>6. Staged(h)'
  BY <1>2, <1>5 DEF Staged
<1> QED
  BY <1>3, <1>4, <1>6, Keeps

LEMMA LeaveKeeps ==
    ASSUME Inv, NEW h \in Handlers, Leave(h)
    PROVE  Inv'
<1>1. /\ step \in [Handlers -> Steps] /\ asked \in [Handlers -> Requests \cup {None}]
      /\ status \in [Handlers -> Statuses \cup {None}]
  BY DEF Inv, TypeOK
<1>2. /\ step[h] \in {"over", "failed"} /\ UNCHANGED <<row, list, asked>>
      /\ step' = [step EXCEPT ![h] = "idle"] /\ status' = [status EXCEPT ![h] = None]
  BY DEF Leave
<1>3. TableType' /\ RowsStay /\ SlugsFollowNames'
  BY <1>2, Untouched DEF Inv, TypeOK
<1>4. PipelineType' /\ Alone(h)
  BY <1>1, <1>2 DEF PipelineType, Alone, Steps
<1>5. Staged(h)
  BY DEF Inv, Stages
<1>6. step'[h] = "idle" /\ asked'[h] = asked[h] /\ status'[h] = None
  BY <1>1, <1>2
<1>7. Staged(h)'
  BY <1>2, <1>5, <1>6 DEF Staged
<1> QED
  BY <1>3, <1>4, <1>7, Keeps

LEMMA InvStep == Inv /\ [Next]_vars => Inv'
<1> SUFFICES ASSUME Inv, [Next]_vars PROVE Inv'
  OBVIOUS
<1>1. CASE UNCHANGED vars
  BY <1>1 DEF vars, Inv, TypeOK, Stages, Staged, SlugsFollowNames
<1>2. ASSUME NEW h \in Handlers,
             \/ \E o \in Requests : Receive(h, o)
             \/ \E role \in Roles \cup {None} : Guards(h, role)
             \/ FindId(h) \/ FindSlug(h) \/ FindEmail(h) \/ Commit(h)
             \/ DatabaseFails(h) \/ TimeOut(h) \/ Leave(h)
      PROVE  Inv'
  BY <1>2, ReceiveKeeps, GuardsKeep, FindIdKeeps, FindSlugKeeps, FindEmailKeeps,
     CommitKeeps, FailsKeeps, TimeOutKeeps, LeaveKeeps
<1> QED
  BY <1>1, <1>2 DEF Next

LEMMA InvAlways == Spec => []Inv
BY InvInit, InvStep, PTL DEF Spec

\* Every variable has its type, whatever the handlers do.
THEOREM TypeCorrect == Spec => []TypeOK
<1>1. Inv => TypeOK
  BY DEF Inv
<1> QED
  BY <1>1, InvAlways, PTL

-----------------------------------------------------------------------------
(* The refinement *)

\* The rows as the abstract specification sees them, and those whose call failed.
RowBar == [c \in Categories |-> IF row[c] = None THEN None
                                ELSE [name |-> row[c].name, active |-> row[c].active]]

BrokenBar == {h \in Handlers : step[h] = "failed"}

LEMMA BarFacts ==
    ASSUME TypeOK, NEW c \in Categories
    PROVE  /\ row[c] = None => RowBar[c] = None
           /\ row[c] # None => /\ RowBar[c] # None
                               /\ RowBar[c] = [name |-> row[c].name, active |-> row[c].active]
                               /\ RowBar[c].name = row[c].name
                               /\ RowBar[c].active = row[c].active
<1>1. CASE row[c] = None
  BY <1>1 DEF RowBar
<1>2. CASE row[c] # None
  <2>1. row[c] \in Rows
    BY <1>2 DEF TypeOK
  <2>2. RowBar[c] = [name |-> row[c].name, active |-> row[c].active]
    BY <1>2 DEF RowBar
  <2>3. [name |-> row[c].name, active |-> row[c].active] \in [name : Names, active : BOOLEAN]
    BY <2>1 DEF Rows
  <2>4. RowBar[c] # None
    BY <2>2, <2>3, Absent
  <2> QED
    BY <1>2, <2>2, <2>4
<1> QED
  BY <1>1, <1>2

LEMMA TakenIs ==
    ASSUME Inv, NEW n \in Names, NEW C
    PROVE  Atomic!SlugTaken(n, C)
             <=> \E d \in Categories \ C : row[d] # None /\ row[d].slug = SlugOf[n]
<1>1. Atomic!SlugTaken(n, C)
        <=> \E d \in Categories \ C : RowBar[d] # None /\ SlugOf[RowBar[d].name] = SlugOf[n]
  BY DEF Atomic!SlugTaken, RowBar
<1>2. \A d \in Categories : row[d] # None => row[d].slug = SlugOf[row[d].name]
  BY DEF Inv, SlugsFollowNames
<1>3. \A d \in Categories : /\ row[d] # None <=> RowBar[d] # None
                            /\ row[d] # None => RowBar[d].name = row[d].name
  BY BarFacts DEF Inv
<1> QED
  BY <1>1, <1>2, <1>3

\* The kinds of request, in the words of the abstract specification.
LEMMA KindsOf ==
    ASSUME Inv, NEW o \in Requests
    PROVE  /\ o.kind = "create" => /\ Atomic!Conflict(o) <=> Atomic!SlugTaken(o.name, {})
                                   /\ ~Atomic!Missing(o) /\ ~Atomic!Malformed(o)
           /\ o.kind = "update" =>
                /\ Atomic!Conflict(o) <=> o.name \in Names /\ Atomic!SlugTaken(o.name, {o.id})
                /\ Atomic!Missing(o) <=> row[o.id] = None
                /\ Atomic!Malformed(o) <=> o.name = Null \/ o.active = Null
           /\ o.kind = "join" => /\ Atomic!Conflict(o) <=> o.email \in list
                                 /\ ~Atomic!Missing(o) /\ ~Atomic!Malformed(o)
<1>1. CASE o.kind = "create"
  <2>1. Atomic!Conflict(o) <=> Atomic!SlugTaken(o.name, {})
    BY <1>1 DEF Atomic!Conflict
  <2>2. ~Atomic!Missing(o) /\ ~Atomic!Malformed(o)
    BY <1>1 DEF Atomic!Missing, Atomic!Malformed
  <2> QED
    BY <1>1, <2>1, <2>2
<1>2. CASE o.kind = "update"
  <2>1. Atomic!Conflict(o) <=> o.name \in Names /\ Atomic!SlugTaken(o.name, {o.id})
    BY <1>2 DEF Atomic!Conflict
  <2>2. Atomic!Missing(o) <=> RowBar[o.id] = None
    BY <1>2 DEF Atomic!Missing, RowBar
  <2>3. RowBar[o.id] = None <=> row[o.id] = None
    BY <1>2, RequestKinds, BarFacts DEF Inv
  <2>4. Atomic!Malformed(o) <=> o.name = Null \/ o.active = Null
    BY <1>2 DEF Atomic!Malformed
  <2> QED
    BY <1>2, <2>1, <2>2, <2>3, <2>4
<1>3. CASE o.kind = "join"
  <2>1. Atomic!Conflict(o) <=> o.email \in list
    BY <1>3 DEF Atomic!Conflict
  <2>2. ~Atomic!Missing(o) /\ ~Atomic!Malformed(o)
    BY <1>3 DEF Atomic!Missing, Atomic!Malformed
  <2> QED
    BY <1>3, <2>1, <2>2
<1> QED
  BY <1>1, <1>2, <1>3, RequestKinds

\* A write that is done, on the rows as they are.
Performs(o) ==
    ~Atomic!Conflict(o) /\ ~Atomic!Missing(o) /\ ~Atomic!Malformed(o) /\ Atomic!Done(o)

LEMMA InsertPerforms ==
    ASSUME Inv, Inv', NEW h \in Handlers, asked[h] \in Requests,
           NEW c \in Categories, InsertCategory(h, c)
    PROVE  Performs(asked[h])
<1> DEFINE o == asked[h]
           new == Created(o)
<1>1. /\ o.kind = "create" /\ row[c] = None /\ ~Collides(new, {})
      /\ row' = [row EXCEPT ![c] = new] /\ list' = list
  BY DEF InsertCategory
<1>2. o.name \in Names
  BY <1>1, RequestKinds
<1>3. new \in Rows /\ new.name = o.name /\ new.slug = SlugOf[o.name] /\ new.active = TRUE
  BY <1>1, CreatedType
<1>4. ~Atomic!SlugTaken(o.name, {})
  BY <1>1, <1>2, <1>3, TakenIs DEF Collides
<1>5. ~Atomic!Conflict(o) /\ ~Atomic!Missing(o) /\ ~Atomic!Malformed(o)
  BY <1>1, <1>4, KindsOf
<1>6. RowBar[c] = None
  BY <1>1, BarFacts DEF Inv
<1>7. \A d \in Categories : row'[d] = IF d = c THEN new ELSE row[d]
  BY <1>1 DEF Inv, TypeOK
<1>8. new # None
  BY <1>3, Absent
<1> HIDE DEF new, o
<1>9. RowBar' = [RowBar EXCEPT ![c] = [name |-> o.name, active |-> TRUE]]
  BY <1>3, <1>7, <1>8 DEF RowBar
<1>10. Atomic!Done(o)
  BY <1>1, <1>6, <1>9 DEF Atomic!Done, RowBar
<1> QED
  BY <1>5, <1>10 DEF Performs, o

LEMMA UpdatePerforms ==
    ASSUME Inv, NEW h \in Handlers, step[h] = "write",
           NEW c \in Categories, UpdateCategory(h, c)
    PROVE  Performs(asked[h])
<1> DEFINE o == asked[h]
           new == Changed(row[c], o)
<1>1. /\ o \in Requests /\ o.kind = "update" /\ o.id = c /\ row[c] # None
      /\ ~Collides(new, {c}) /\ row' = [row EXCEPT ![c] = new] /\ list' = list
  BY Active DEF UpdateCategory, Inv, Queries
<1>2. o.name # Null /\ o.active # Null
  BY <1>1 DEF Inv, Stages, Staged, UpdateCategory
<1>3. row[c] \in Rows
  BY <1>1 DEF Inv, TypeOK
<1>4. /\ new \in Rows
      /\ new.name = IF o.name = None THEN row[c].name ELSE o.name
      /\ new.slug = IF o.name = None THEN row[c].slug ELSE SlugOf[o.name]
      /\ new.active = IF o.active = None THEN row[c].active ELSE o.active
  BY <1>1, <1>2, <1>3, ChangedType
<1>5. o.name \in Names => ~Atomic!SlugTaken(o.name, {o.id})
  BY <1>1, <1>4, TakenIs, Absent DEF Collides
<1>6. ~Atomic!Conflict(o) /\ ~Atomic!Missing(o) /\ ~Atomic!Malformed(o)
  BY <1>1, <1>2, <1>5, KindsOf
<1>7. RowBar[c].name = row[c].name /\ RowBar[c].active = row[c].active
  BY <1>1, BarFacts DEF Inv
<1>8. \A d \in Categories : row'[d] = IF d = c THEN new ELSE row[d]
  BY <1>1 DEF Inv, TypeOK
<1>9. new # None
  BY <1>4, Absent
<1>10. o.id = c /\ o.kind = "update" /\ list' = list
  BY <1>1
<1> HIDE DEF new, o
<1> DEFINE entry == [name   |-> IF o.name = None THEN RowBar[c].name ELSE o.name,
                     active |-> IF o.active = None THEN RowBar[c].active ELSE o.active]
<1>11. [name |-> new.name, active |-> new.active] = entry
  BY <1>4, <1>7
<1>12. RowBar' = [RowBar EXCEPT ![c] = [name |-> new.name, active |-> new.active]]
  BY <1>8, <1>9 DEF RowBar
<1>13. RowBar' = [RowBar EXCEPT ![o.id] =
                    [name   |-> IF o.name = None THEN @.name ELSE o.name,
                     active |-> IF o.active = None THEN @.active ELSE o.active]]
  BY <1>10, <1>11, <1>12
<1>14. Atomic!Done(o)
  BY <1>10, <1>13 DEF Atomic!Done, RowBar
<1> QED
  BY <1>6, <1>14 DEF Performs, o

LEMMA EntryPerforms ==
    ASSUME Inv, NEW h \in Handlers, asked[h] \in Requests, InsertEntry(h)
    PROVE  Performs(asked[h])
<1>1. /\ asked[h].kind = "join" /\ asked[h].email \notin list
      /\ list' = list \cup {asked[h].email} /\ row' = row
  BY DEF InsertEntry
<1>2. ~Atomic!Conflict(asked[h]) /\ ~Atomic!Missing(asked[h]) /\ ~Atomic!Malformed(asked[h])
  BY <1>1, KindsOf
<1>3. Atomic!Done(asked[h])
  BY <1>1 DEF Atomic!Done
<1> QED
  BY <1>2, <1>3 DEF Performs

LEMMA WritePerforms ==
    ASSUME Inv, Inv', NEW h \in Handlers, step[h] = "write", Write(h)
    PROVE  Performs(asked[h])
<1>1. asked[h] \in Requests
  BY Active DEF Inv, Queries
<1> QED
  BY <1>1, InsertPerforms, UpdatePerforms, EntryPerforms DEF Write

\* What the unique index refuses is a conflict: the row itself collides with no other.
LEMMA RefusedConflicts ==
    ASSUME Inv, NEW h \in Handlers, step[h] = "write", Refused(asked[h])
    PROVE  Atomic!Conflict(asked[h])
<1> DEFINE o == asked[h]
<1>1. o \in Requests /\ Staged(h)
  BY Active DEF Inv, Queries, Stages
<1>2. CASE o.kind = "create"
  <2>1. Collides(Created(o), {})
    BY <1>2 DEF Refused
  <2>2. PICK d \in Categories : row[d] # None /\ (row[d].name = o.name \/ row[d].slug = SlugOf[o.name])
    BY <1>1, <1>2, <2>1, CreatedType DEF Collides
  <2>3. row[d].slug = SlugOf[o.name]
    BY <2>2 DEF Inv, SlugsFollowNames
  <2>4. o.name \in Names
    BY <1>1, <1>2, RequestKinds
  <2>5. Atomic!SlugTaken(o.name, {})
    BY <2>2, <2>3, <2>4, TakenIs
  <2> QED
    BY <1>1, <1>2, <2>5, KindsOf
<1>3. CASE o.kind = "update"
  <2>1. Collides(Changed(row[o.id], o), {o.id})
    BY <1>3 DEF Refused
  <2>2. o.id \in Categories /\ row[o.id] # None /\ o.name \in Names \cup {None} /\ o.name # Null
        /\ o.active # Null
    BY <1>1, <1>3, RequestKinds DEF Staged, Refused
  <2>3. row[o.id] \in Rows
    BY <2>2 DEF Inv, TypeOK
  <2> DEFINE new == Changed(row[o.id], o)
  <2>4. /\ new.name = IF o.name = None THEN row[o.id].name ELSE o.name
        /\ new.slug = IF o.name = None THEN row[o.id].slug ELSE SlugOf[o.name]
    BY <1>1, <1>3, <2>2, <2>3, ChangedType
  <2>5. PICK d \in Categories \ {o.id} : row[d] # None /\ (row[d].name = new.name \/ row[d].slug = new.slug)
    BY <2>1 DEF Collides
  <2> HIDE DEF new
  <2>6. new.slug = SlugOf[new.name]
    BY <2>2, <2>4 DEF Inv, SlugsFollowNames
  <2>7. row[d].slug = new.slug
    BY <2>5, <2>6 DEF Inv, SlugsFollowNames
  <2>8. o.name # None
    BY <2>2, <2>4, <2>5, <2>7 DEF Inv, SlugsFollowNames
  <2>9. o.name \in Names /\ row[d].slug = SlugOf[o.name]
    BY <2>2, <2>4, <2>7, <2>8
  <2>10. Atomic!SlugTaken(o.name, {o.id})
    BY <2>5, <2>9, TakenIs
  <2> QED
    BY <1>1, <1>3, <2>9, <2>10, KindsOf
<1>4. CASE o.kind = "join"
  BY <1>1, <1>4, KindsOf DEF Refused
<1> QED
  BY <1>1, <1>2, <1>3, <1>4, RequestKinds

\* The shape of an answer.
LEMMA Answered ==
    ASSUME Inv, NEW h \in Handlers, NEW at \in {"over", "failed"}, NEW s \in Statuses,
           End(h, at, s), asked[h] # None
    PROVE  /\ Atomic!Answer(h, s)
           /\ at = "over" => BrokenBar' = BrokenBar
           /\ at = "failed" => BrokenBar' = BrokenBar \cup {h}
<1>1. Atomic!Answer(h, s)
  BY DEF Atomic!Answer, End
<1>2. step \in [Handlers -> Steps] /\ step' = [step EXCEPT ![h] = at]
  BY DEF Inv, TypeOK, End
<1>3. step[h] # "failed"
  BY DEF Inv, Stages, Staged
<1>4. \A g \in Handlers : step'[g] = IF g = h THEN at ELSE step[g]
  BY <1>2
<1>5. at = "over" => BrokenBar' = BrokenBar
  BY <1>3, <1>4 DEF BrokenBar
<1>6. at = "failed" => BrokenBar' = BrokenBar \cup {h}
  BY <1>3, <1>4 DEF BrokenBar
<1> QED
  BY <1>1, <1>5, <1>6

\* A handler that only goes on shows nothing.
LEMMA GotoStutters ==
    ASSUME Inv, NEW h \in Handlers, NEW at \in Steps \ {"failed"}, Goto(h, at),
           step[h] # "failed", UNCHANGED <<row, list>>
    PROVE  UNCHANGED Atomic!atomicVars
<1>1. step \in [Handlers -> Steps] /\ step' = [step EXCEPT ![h] = at] /\ UNCHANGED <<asked, status>>
  BY DEF Inv, TypeOK, Goto
<1>2. BrokenBar' = BrokenBar
  BY <1>1 DEF BrokenBar
<1>3. RowBar' = RowBar
  BY DEF RowBar
<1> QED
  BY <1>1, <1>2, <1>3 DEF Atomic!atomicVars, BrokenBar, RowBar

LEMMA RefusesAtomically ==
    ASSUME Inv, NEW h \in Handlers, asked[h] # None, UNCHANGED <<row, list>>,
           NEW s \in {404, 409, 500}, End(h, "over", s),
           s = 404 => Atomic!Missing(asked[h]),
           s = 409 => Atomic!Conflict(asked[h]),
           s = 500 => Atomic!Malformed(asked[h])
    PROVE  Atomic!Refuse(h)
<1>1. s \in Statuses
  BY DEF Statuses
<1>2. Atomic!Answer(h, s) /\ BrokenBar' = BrokenBar
  BY <1>1, Answered
<1>3. RowBar' = RowBar
  BY DEF RowBar
<1>4. \/ Atomic!Missing(asked[h]) /\ Atomic!Answer(h, 404)
      \/ Atomic!Conflict(asked[h]) /\ Atomic!Answer(h, 409)
      \/ Atomic!Malformed(asked[h]) /\ Atomic!Answer(h, 500)
  BY <1>2
<1> QED
  BY <1>2, <1>3, <1>4 DEF Atomic!Refuse, BrokenBar, RowBar

AtomicStep(h) ==
    \/ \E o \in Requests : Atomic!Ask(h, o)
    \/ Atomic!TurnedAway(h) \/ Atomic!Succeed(h) \/ Atomic!Refuse(h) \/ Atomic!Break(h)
    \/ Atomic!TimesOut(h) \/ Atomic!Ready(h)

LEMMA ReceiveIsAsk ==
    ASSUME Inv, NEW h \in Handlers, NEW o \in Requests, Receive(h, o)
    PROVE  Atomic!Ask(h, o)
<1>1. /\ step \in [Handlers -> Steps] /\ step[h] = "idle"
      /\ step' = [step EXCEPT ![h] = "guards"] /\ asked' = [asked EXCEPT ![h] = o]
      /\ UNCHANGED <<row, list, status>>
  BY DEF Inv, TypeOK, Receive
<1>2. asked[h] = None /\ status[h] = None
  BY <1>1 DEF Inv, Stages, Staged
<1>3. BrokenBar' = BrokenBar
  BY <1>1 DEF BrokenBar
<1>4. RowBar' = RowBar
  BY <1>1 DEF RowBar
<1> QED
  BY <1>1, <1>2, <1>3, <1>4 DEF Atomic!Ask, BrokenBar, RowBar

LEMMA GuardsRefine ==
    ASSUME Inv, NEW h \in Handlers, NEW role \in Roles \cup {None}, Guards(h, role)
    PROVE  AtomicStep(h) \/ UNCHANGED Atomic!atomicVars
<1>1. UNCHANGED <<row, list>> /\ step[h] = "guards" /\ asked[h] \in Requests
  BY Active DEF Guards, Inv
<1>2. asked[h] # None /\ status[h] = None
  BY <1>1 DEF Inv, Stages, Staged
<1>3. ASSUME NEW s \in {400, 401, 403, 429}, End(h, "over", s) PROVE Atomic!TurnedAway(h)
  <2>1. s \in Statuses
    BY DEF Statuses
  <2>2. Atomic!Answer(h, s) /\ BrokenBar' = BrokenBar
    BY <1>2, <1>3, <2>1, Answered
  <2>3. RowBar' = RowBar
    BY <1>1 DEF RowBar
  <2> QED
    BY <1>1, <1>2, <2>2, <2>3 DEF Atomic!TurnedAway, BrokenBar, RowBar
<1>4. CASE Goto(h, First(asked[h]))
  <2>1. First(asked[h]) \in {"findSlug", "findId", "findEmail"}
    <3>1. CASE asked[h].kind = "create"
      BY <3>1 DEF First
    <3>2. CASE asked[h].kind = "update"
      BY <3>2 DEF First
    <3>3. CASE asked[h].kind = "join"
      BY <3>3 DEF First
    <3> QED
      BY <1>1, <3>1, <3>2, <3>3, RequestKinds
  <2>2. First(asked[h]) \in Steps \ {"failed"}
    BY <2>1 DEF Steps, Queries
  <2> QED
    BY <1>1, <1>4, <2>2, GotoStutters
<1> QED
  BY <1>3, <1>4 DEF Guards, AtomicStep

\* A look-up that refuses says what holds; one that goes on shows nothing.
LEMMA FindIdRefines ==
    ASSUME Inv, NEW h \in Handlers, FindId(h)
    PROVE  AtomicStep(h) \/ UNCHANGED Atomic!atomicVars
<1> DEFINE o == asked[h]
<1>1. UNCHANGED <<row, list>> /\ step[h] = "findId" /\ o \in Requests /\ o.kind = "update" /\ o # None
  <2>1. UNCHANGED <<row, list>> /\ step[h] = "findId"
    BY DEF FindId
  <2>2. o \in Requests /\ o.kind = "update"
    BY <2>1, Active DEF Inv, Stages, Staged, Queries
  <2> QED
    BY <2>1, <2>2, RequestKinds
<1>2. CASE row[o.id] = None
  <2>1. End(h, "over", 404)
    BY <1>2, Answers DEF FindId, Throw
  <2>2. Atomic!Missing(o)
    BY <1>1, <1>2, KindsOf
  <2> QED
    BY <1>1, <2>1, <2>2, RefusesAtomically DEF AtomicStep
<1>3. CASE row[o.id] # None /\ o.name = Null
  <2>0. Throw(h, "TypeError")
    BY <1>3, Absent DEF FindId
  <2>1. End(h, "over", 500)
    BY <2>0, Answers DEF Throw
  <2>2. Atomic!Malformed(o)
    BY <1>1, <1>3, KindsOf
  <2> QED
    BY <1>1, <2>1, <2>2, RefusesAtomically DEF AtomicStep
<1>4. CASE row[o.id] # None /\ o.name # Null
  <2>1. Goto(h, "write") \/ Goto(h, "findSlug")
    BY <1>4 DEF FindId
  <2>2. {"write", "findSlug"} \subseteq Steps \ {"failed"}
    BY DEF Steps, Queries
  <2> QED
    BY <1>1, <2>1, <2>2, GotoStutters
<1> QED
  BY <1>2, <1>3, <1>4

LEMMA FindSlugRefines ==
    ASSUME Inv, NEW h \in Handlers, FindSlug(h)
    PROVE  AtomicStep(h) \/ UNCHANGED Atomic!atomicVars
<1> DEFINE o == asked[h]
<1>1. UNCHANGED <<row, list>> /\ step[h] = "findSlug" /\ o \in Requests /\ Staged(h)
  BY Active DEF Inv, Stages, Queries, FindSlug
<1>2. o # None /\ o.kind \in {"create", "update"} /\ o.name \in Names
  BY <1>1, RequestKinds DEF Staged
<1>3. CASE OthersWith(SlugOf[o.name], o) # {}
  <2>1. End(h, "over", 409)
    BY <1>3, Answers DEF FindSlug, Throw
  <2>2. PICK c \in Categories : /\ row[c] # None /\ row[c].slug = SlugOf[o.name]
                                /\ ~(o.kind = "update" /\ o.id = c)
    BY <1>3 DEF OthersWith
  <2>3. o.kind = "create" => Atomic!SlugTaken(o.name, {})
    BY <1>2, <2>2, TakenIs
  <2>4. o.kind = "update" => Atomic!SlugTaken(o.name, {o.id})
    BY <1>2, <2>2, TakenIs
  <2>5. Atomic!Conflict(o)
    BY <1>1, <1>2, <2>3, <2>4, KindsOf
  <2> QED
    BY <1>1, <1>2, <2>1, <2>5, RefusesAtomically DEF AtomicStep
<1>4. CASE OthersWith(SlugOf[o.name], o) = {}
  <2>1. Goto(h, "write")
    BY <1>4 DEF FindSlug
  <2>2. "write" \in Steps \ {"failed"}
    BY DEF Steps, Queries
  <2> QED
    BY <1>1, <2>1, <2>2, GotoStutters
<1> QED
  BY <1>3, <1>4

LEMMA FindEmailRefines ==
    ASSUME Inv, NEW h \in Handlers, FindEmail(h)
    PROVE  AtomicStep(h) \/ UNCHANGED Atomic!atomicVars
<1>1. /\ UNCHANGED <<row, list>> /\ step[h] = "findEmail" /\ asked[h] \in Requests
      /\ asked[h].kind = "join" /\ asked[h] # None
  <2>1. UNCHANGED <<row, list>> /\ step[h] = "findEmail"
    BY DEF FindEmail
  <2>2. asked[h] \in Requests /\ asked[h].kind = "join"
    BY <2>1, Active DEF Inv, Stages, Staged, Queries
  <2> QED
    BY <2>1, <2>2, RequestKinds
<1>2. CASE asked[h].email \in list
  <2>1. End(h, "over", 409)
    BY <1>2, Answers DEF FindEmail, Throw
  <2>2. Atomic!Conflict(asked[h])
    BY <1>1, <1>2, KindsOf
  <2> QED
    BY <1>1, <2>1, <2>2, RefusesAtomically DEF AtomicStep
<1>3. CASE asked[h].email \notin list
  <2>1. Goto(h, "write")
    BY <1>3 DEF FindEmail
  <2>2. "write" \in Steps \ {"failed"}
    BY DEF Steps, Queries
  <2> QED
    BY <1>1, <2>1, <2>2, GotoStutters
<1> QED
  BY <1>2, <1>3

LEMMA CommitRefines ==
    ASSUME Inv, Inv', NEW h \in Handlers, Commit(h)
    PROVE  AtomicStep(h)
<1>1. step[h] = "write" /\ asked[h] \in Requests /\ asked[h] # None
  BY Active, RequestKinds DEF Inv, Queries, Commit
<1>2. CASE Write(h) /\ End(h, "over", Success(asked[h]))
  <2>1. Performs(asked[h])
    BY <1>1, <1>2, WritePerforms
  <2>2. Success(asked[h]) \in Statuses /\ Success(asked[h]) = Atomic!Success(asked[h])
    BY DEF Success, Statuses, Atomic!Success
  <2>3. Atomic!Answer(h, Atomic!Success(asked[h])) /\ BrokenBar' = BrokenBar
    BY <1>1, <1>2, <2>2, Answered
  <2>4. Atomic!Succeed(h)
    BY <1>1, <2>1, <2>3 DEF Performs, Atomic!Succeed, BrokenBar
  <2> QED
    BY <2>4 DEF AtomicStep
<1>3. CASE Refused(asked[h]) /\ ThrowPrisma(h, "P2002") /\ UNCHANGED <<row, list>>
  <2>1. End(h, "over", 409)
    BY <1>3, Answers DEF ThrowPrisma
  <2>2. Atomic!Conflict(asked[h])
    BY <1>1, <1>3, RefusedConflicts
  <2> QED
    BY <1>1, <1>3, <2>1, <2>2, RefusesAtomically DEF AtomicStep
<1>4. CASE Invalid(asked[h]) /\ Throw(h, "PrismaClientValidationError") /\ UNCHANGED <<row, list>>
  <2>1. End(h, "over", 500)
    BY <1>4, Answers DEF Throw
  <2>2. Atomic!Malformed(asked[h])
    BY <1>4 DEF Invalid, Atomic!Malformed
  <2> QED
    BY <1>1, <1>4, <2>1, <2>2, RefusesAtomically DEF AtomicStep
<1> QED
  BY <1>2, <1>3, <1>4 DEF Commit

LEMMA FailsRefines ==
    ASSUME Inv, Inv', NEW h \in Handlers, DatabaseFails(h)
    PROVE  Atomic!Break(h)
<1>1. asked[h] # None /\ End(h, "failed", 500) /\ 500 \in Statuses
  BY Answers, Active, RequestKinds DEF DatabaseFails, Inv, Statuses
<1>2. Atomic!Answer(h, 500) /\ BrokenBar' = BrokenBar \cup {h}
  BY <1>1, Answered
<1>3. CASE UNCHANGED <<row, list>>
  <2>1. RowBar' = RowBar /\ list' = list
    BY <1>3 DEF RowBar
  <2> QED
    BY <1>1, <1>2, <2>1 DEF Atomic!Break, BrokenBar, RowBar
<1>4. CASE step[h] = "write" /\ Write(h)
  <2>1. Performs(asked[h])
    BY <1>4, WritePerforms
  <2> QED
    BY <1>1, <1>2, <2>1 DEF Performs, Atomic!Break, BrokenBar
<1> QED
  BY <1>3, <1>4 DEF DatabaseFails

LEMMA TimeOutRefines ==
    ASSUME Inv, NEW h \in Handlers, TimeOut(h)
    PROVE  Atomic!TimesOut(h)
<1>1. asked[h] # None
  BY Active, RequestKinds DEF TimeOut, Inv
<1>2. RowBar' = RowBar /\ BrokenBar' = BrokenBar
  BY DEF TimeOut, RowBar, BrokenBar
<1> QED
  BY <1>1, <1>2 DEF TimeOut, Atomic!TimesOut, RowBar, BrokenBar

LEMMA LeaveRefines ==
    ASSUME Inv, NEW h \in Handlers, Leave(h)
    PROVE  Atomic!Ready(h)
<1>1. /\ step \in [Handlers -> Steps] /\ step[h] \in {"over", "failed"}
      /\ step' = [step EXCEPT ![h] = "idle"] /\ status' = [status EXCEPT ![h] = None]
      /\ UNCHANGED <<row, list, asked>>
  BY DEF Inv, TypeOK, Leave
<1>2. asked[h] = None /\ status[h] # None
  BY <1>1 DEF Inv, Stages, Staged
<1>3. BrokenBar' = BrokenBar \ {h}
  BY <1>1 DEF BrokenBar
<1>4. RowBar' = RowBar
  BY <1>1 DEF RowBar
<1> QED
  BY <1>1, <1>2, <1>3, <1>4 DEF Atomic!Ready, BrokenBar, RowBar

LEMMA RefinesInit == Init => Atomic!AtomicInit
BY DEF Init, Atomic!AtomicInit

LEMMA RefinesStep == Inv /\ Inv' /\ [Next]_vars => [Atomic!AtomicNext]_(Atomic!atomicVars)
<1> SUFFICES ASSUME Inv, Inv', [Next]_vars PROVE [Atomic!AtomicNext]_(Atomic!atomicVars)
  OBVIOUS
<1>1. CASE UNCHANGED vars
  BY <1>1 DEF vars, Atomic!atomicVars
<1>2. ASSUME NEW h \in Handlers,
             \/ \E o \in Requests : Receive(h, o)
             \/ \E role \in Roles \cup {None} : Guards(h, role)
             \/ FindId(h) \/ FindSlug(h) \/ FindEmail(h) \/ Commit(h)
             \/ DatabaseFails(h) \/ TimeOut(h) \/ Leave(h)
      PROVE  AtomicStep(h) \/ UNCHANGED Atomic!atomicVars
  <2>1. ASSUME NEW o \in Requests, Receive(h, o) PROVE AtomicStep(h)
    BY <2>1, ReceiveIsAsk DEF AtomicStep
  <2>2. DatabaseFails(h) \/ TimeOut(h) \/ Leave(h) => AtomicStep(h)
    BY FailsRefines, TimeOutRefines, LeaveRefines DEF AtomicStep
  <2> QED
    BY <1>2, <2>1, <2>2, GuardsRefine, FindIdRefines, FindSlugRefines, FindEmailRefines,
       CommitRefines
<1>3. Atomic!Requests = Requests
  BY DEF Atomic!Requests, Requests
<1>4. ASSUME NEW h \in Handlers, AtomicStep(h) PROVE Atomic!AtomicNext
  BY <1>3, <1>4 DEF AtomicStep, Atomic!AtomicNext
<1> QED
  BY <1>1, <1>2, <1>4 DEF Next

\* Every race, timeout and lost answer of the handlers is one that atomic handlers could
\* have shown, for any sets of categories, names, e-mails and requests.
THEOREM HandlersAreAtomicAlways == Spec => HandlersAreAtomic
BY RefinesInit, RefinesStep, InvAlways, PTL DEF Spec, HandlersAreAtomic, Atomic!AtomicSpec
=============================================================================
