------------------------------ MODULE Catalogue ------------------------------
(***************************************************************************)
(* Service categories and the waitlist (modules/service-categories,        *)
(* modules/waitlist), reached through the pipeline of every request        *)
(* (app.module.ts): the guards for the token, the role and the rate, the   *)
(* timeout interceptor, the handler, the exception filters.  A handler     *)
(* looks first and writes later; other handlers, and its own timeout, come *)
(* in between.  The database may fail or never answer.                     *)
(***************************************************************************)
EXTENDS Naturals, FiniteSets

CONSTANTS
    Categories,  \* bound: the identifiers new categories can get
    Names,
    SlugOf,      \* generateSlug
    Emails,
    Handlers,    \* requests that can be in the server at once
    Actives,     \* the values of isActive that are asked for
    Null,        \* a JSON null, which @IsOptional lets through
    None

Slugs == {SlugOf[n] : n \in Names}

ASSUME CatalogueAssumption ==
    /\ DOMAIN SlugOf = Names /\ Actives \subseteq BOOLEAN
    /\ None # Null /\ {None, Null} \cap (Names \cup Slugs \cup BOOLEAN) = {}

VARIABLES
    row,     \* row[c]: the row of the category
    list,    \* the e-mails of the waitlist table
    step,    \* step[h]: where the request of h is
    asked,   \* asked[h]: its route and body
    status   \* status[h]: the status it was answered with

vars == <<row, list, step, asked, status>>

Roles == {"USER", "HANDYMAN", "ADMIN"}

Rows == [name : Names, slug : Slugs, active : BOOLEAN]

\* POST, PATCH and DELETE of service-categories (DELETE is a PATCH of isActive), POST of waitlist;
\* None is a field the body leaves out.
Requests ==
    [kind : {"create"}, name : Names]
      \cup [kind : {"update"}, id : Categories, name : Names \cup {Null, None},
                                             active : Actives \cup {Null, None}]
      \cup [kind : {"join"}, email : Emails]

Queries == {"findId", "findSlug", "findEmail", "write"}
Steps == {"idle", "guards", "over", "failed"} \cup Queries
Statuses == {200, 201, 400, 401, 403, 404, 408, 409, 429, 500}

\* NULL is none of the values it stands beside.
ASSUME NullAssumption ==
    None \notin Rows \cup [name : Names, active : BOOLEAN] \cup Requests \cup Statuses

TypeOK ==
    /\ row \in [Categories -> Rows \cup {None}]
    /\ list \subseteq Emails
    /\ step \in [Handlers -> Steps]
    /\ asked \in [Handlers -> Requests \cup {None}]
    /\ status \in [Handlers -> Statuses \cup {None}]

Init ==
    /\ row = [c \in Categories |-> None]
    /\ list = {}
    /\ step = [h \in Handlers |-> "idle"]
    /\ asked = [h \in Handlers |-> None]
    /\ status = [h \in Handlers |-> None]

-----------------------------------------------------------------------------
(* Filters and interceptors *)

\* mutant: no case for the unique constraint
PrismaStatus_(code) ==
    CASE code \in {"P2000", "P2003"} -> 400
      [] code = "P2025"              -> 404
      [] OTHER                       -> 500

\* PrismaExceptionFilter, which is asked first.
PrismaStatus(code) ==
    CASE code \in {"P2000", "P2003"} -> 400
      [] code = "P2002"              -> 409
      [] code = "P2025"              -> 404
      [] OTHER                       -> 500

\* The statuses of the domain exceptions.
HttpStatus(exception) ==
    CASE exception = "ResourceNotFound"                      -> 404
      [] exception \in {"ResourceAlreadyExists", "Conflict"} -> 409

\* GlobalExceptionFilter: what is not an HttpException is a 500.
ErrorStatus(exception) ==
    IF exception \in {"ResourceNotFound", "ResourceAlreadyExists", "Conflict"}
    THEN HttpStatus(exception) ELSE 500

Success(o) == IF o.kind = "update" THEN 200 ELSE 201

\* The answer of the handler; nobody hears it after the timeout.
End(h, at, s) ==
    /\ step' = [step EXCEPT ![h] = at]
    /\ status' = [status EXCEPT ![h] = IF @ = None THEN s ELSE @]
    /\ asked' = [asked EXCEPT ![h] = None]

Throw(h, exception) == End(h, "over", ErrorStatus(exception))
ThrowPrisma(h, code) == End(h, "over", PrismaStatus(code))

Goto(h, at) ==
    /\ step' = [step EXCEPT ![h] = at]
    /\ UNCHANGED <<asked, status>>

-----------------------------------------------------------------------------
(* Guards *)

Public(o) == o.kind = "join"

RequiredRoles(o) == IF o.kind = "join" THEN {} ELSE {"ADMIN"}

\* RolesGuard, for the role of a valid token or None.
Allowed(o, role) == RequiredRoles(o) = {} \/ role \in RequiredRoles(o)

First(o) ==
    CASE o.kind = "create" -> "findSlug"
      [] o.kind = "update" -> "findId"
      [] o.kind = "join"   -> "findEmail"

\* JwtAuthGuard (403 for an e-mail that is not verified), RolesGuard and ThrottlerGuard in
\* this order, then the validation of the body.
Guards(h, role) ==
    /\ step[h] = "guards"
    /\ \/ /\ ~Public(asked[h]) /\ role = None
          /\ \E s \in {401, 403} : End(h, "over", s)
       \/ /\ Public(asked[h]) \/ role # None
          /\ ~Allowed(asked[h], role)
          /\ End(h, "over", 403)
       \/ /\ Public(asked[h]) \/ role # None
          /\ Allowed(asked[h], role)
          /\ \/ End(h, "over", 429)
             \/ End(h, "over", 400)
             \/ Goto(h, First(asked[h]))
    /\ UNCHANGED <<row, list>>

-----------------------------------------------------------------------------
(* ServiceCategoriesService and WaitlistService *)

\* findBySlug, and existing.id !== id for an update.
OthersWith(slug, o) ==
    {c \in Categories : /\ row[c] # None /\ row[c].slug = slug
                        /\ ~(o.kind = "update" /\ o.id = c)}

FindId(h) ==
    /\ step[h] = "findId"
    /\ LET o == asked[h]
       IN CASE row[o.id] = None -> Throw(h, "ResourceNotFound")
            [] row[o.id] # None /\ o.name = Null  -> Throw(h, "TypeError")
            [] row[o.id] # None /\ o.name = None  -> Goto(h, "write")
            [] OTHER -> Goto(h, "findSlug")
    /\ UNCHANGED <<row, list>>

FindSlug(h) ==
    /\ step[h] = "findSlug"
    /\ IF OthersWith(SlugOf[asked[h].name], asked[h]) # {}
       THEN Throw(h, "ResourceAlreadyExists")
       ELSE Goto(h, "write")
    /\ UNCHANGED <<row, list>>

FindEmail(h) ==
    /\ step[h] = "findEmail"
    /\ IF asked[h].email \in list THEN Throw(h, "Conflict") ELSE Goto(h, "write")
    /\ UNCHANGED <<row, list>>

Created(o) == [name |-> o.name, slug |-> SlugOf[o.name], active |-> TRUE]

\* The fields of data, the others as they are in the row.
Changed(old, o) ==
    [name   |-> IF o.name = None THEN old.name ELSE o.name,
     slug   |-> IF o.name = None THEN old.slug ELSE SlugOf[o.name],
     active |-> IF o.active = None THEN old.active ELSE o.active]

\* @unique of name and slug: a row not in C has one of new's.
Collides(new, C) ==
    \E d \in Categories \ C : row[d] # None /\ (row[d].name = new.name \/ row[d].slug = new.slug)

InsertCategory(h, c) ==
    /\ asked[h].kind = "create"
    /\ row[c] = None
    /\ ~Collides(Created(asked[h]), {})
    /\ row' = [row EXCEPT ![c] = Created(asked[h])]
    /\ UNCHANGED list

UpdateCategory(h, c) ==
    /\ asked[h].kind = "update" /\ asked[h].id = c
    /\ row[c] # None /\ asked[h].active # Null
    /\ ~Collides(Changed(row[c], asked[h]), {c})
    /\ row' = [row EXCEPT ![c] = Changed(@, asked[h])]
    /\ UNCHANGED list

InsertEntry(h) ==
    /\ asked[h].kind = "join"
    /\ asked[h].email \notin list
    /\ list' = list \cup {asked[h].email}
    /\ UNCHANGED row

Write(h) ==
    \/ \E c \in Categories : InsertCategory(h, c) \/ UpdateCategory(h, c)
    \/ InsertEntry(h)

\* The unique index refuses what the write would store. Rows are never deleted: no P2025.
Refused(o) ==
    CASE o.kind = "create" -> Collides(Created(o), {})
      [] o.kind = "update" -> o.active # Null /\ Collides(Changed(row[o.id], o), {o.id})
      [] o.kind = "join"   -> o.email \in list

\* The Prisma client sends no null for a column that has none.
Invalid(o) == o.kind = "update" /\ o.active = Null

Commit(h) ==
    /\ step[h] = "write"
    /\ \/ Write(h) /\ End(h, "over", Success(asked[h]))
       \/ /\ Refused(asked[h])
          /\ ThrowPrisma(h, "P2002")
          /\ UNCHANGED <<row, list>>
       \/ /\ Invalid(asked[h])
          /\ Throw(h, "PrismaClientValidationError")
          /\ UNCHANGED <<row, list>>

\* The database is out of reach, before or after it did what it was asked.
DatabaseFails(h) ==
    /\ step[h] \in Queries \/ (step[h] = "guards" /\ ~Public(asked[h]))
    /\ \/ UNCHANGED <<row, list>>
       \/ step[h] = "write" /\ Write(h)
    /\ End(h, "failed", PrismaStatus("P1001"))

-----------------------------------------------------------------------------
(* The server around the handlers *)

Free == {c \in Categories : row[c] = None}
Creating == {h \in Handlers : asked[h] # None /\ asked[h].kind = "create"}

\* A create is sent only while an identifier is left for it.
Receive(h, o) ==
    /\ step[h] = "idle"
    /\ o.kind = "create" => Cardinality(Creating) < Cardinality(Free)
    /\ step' = [step EXCEPT ![h] = "guards"]
    /\ asked' = [asked EXCEPT ![h] = o]
    /\ UNCHANGED <<row, list, status>>

\* TimeoutInterceptor: after 30 s the caller is answered and the handler goes on.
TimeOut(h) ==
    /\ step[h] \in Queries /\ status[h] = None
    /\ status' = [status EXCEPT ![h] = 408]
    /\ UNCHANGED <<row, list, step, asked>>

Leave(h) ==
    /\ step[h] \in {"over", "failed"}
    /\ step' = [step EXCEPT ![h] = "idle"]
    /\ status' = [status EXCEPT ![h] = None]
    /\ UNCHANGED <<row, list, asked>>

Next ==
    \E h \in Handlers :
       \/ \E o \in Requests : Receive(h, o)
       \/ \E role \in Roles \cup {None} : Guards(h, role)
       \/ FindId(h) \/ FindSlug(h) \/ FindEmail(h) \/ Commit(h)
       \/ DatabaseFails(h) \/ TimeOut(h) \/ Leave(h)

Spec == Init /\ [][Next]_vars

-----------------------------------------------------------------------------
Atomic == INSTANCE AtomicCatalogue
            WITH row <- [c \in Categories |-> IF row[c] = None THEN None
                                              ELSE [name |-> row[c].name, active |-> row[c].active]],
                 pending <- asked,
                 broken <- {h \in Handlers : step[h] = "failed"}

(* The handlers, with their checks before their writes, their races, timeouts and lost      *)
(* answers, behave as if each took effect at one moment and was answered by it: who loses a  *)
(* race is told 409 and never 500, a success is in the table, a refusal was true when it was *)
(* decided (service-categories.service.ts :31-84, waitlist.service.ts :41-82,                 *)
(* prisma-exception.filter.ts :27-60).                                                        *)
HandlersAreAtomic == Atomic!AtomicSpec
=============================================================================
