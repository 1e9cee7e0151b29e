# FetchIt backend: formal model

FetchIt is a marketplace API (NestJS, Prisma, PostgreSQL): customers post service
requests, verified handymen apply to them, one is assigned, does the job, and the
customer confirms it. This directory models the parts of it whose correctness
depends on the order in which things happen, checks them with TLC on small
instances, and proves the most important results with TLAPS for every size.

Paths below are relative to the repository's `src/` (the NestJS project).

## 1. Inventory

The process is a PM2 **cluster** (`ecosystem.config.js`), so several Node processes
serve requests over one database. Nothing is shared between handlers except the
database, the object storage, the cache and the queue; every `await` is a point
where any other handler may run. No transaction is SERIALIZABLE and nothing takes
an explicit row lock: what holds, holds because of conditional updates
(`updateMany ... where status = ...`), unique indexes, and the order of statements.
A request that takes more than 30 s is answered with a timeout
(`common/interceptors/timeout.interceptor.ts`) **while its handler runs on**, so a
caller that retries has two handlers running; so does a double click.

| component | state | operations | talks to | hard behaviour | what makes it correct |
|---|---|---|---|---|---|
| **service request lifecycle** (`modules/service-requests`, job half of `modules/handyman`) | `service_requests`, `service_request_applications` (unique per request and handyman) | create, update, cancel, accept / reject application, confirm; apply, withdraw, start, back out, complete | emits `service-request.*` events after each commit | stale reads before conditional writes, lost races, double submissions, a crash between commit and event | one assignee whose application is ACCEPTED, no resurrection, events that say what happened |
| **handyman verification** (profile half of `modules/handyman`, `modules/admin`) | `handyman_profiles`, `handyman_documents`, `audit_logs`, stored files | lazy profile creation, complete / update profile, upload / delete / submit documents; approve, reject, review, open for review | storage, audit log, `handyman.*` events | unconditional writes after stale checks, storage and database that fail separately, admins racing | rows have files, no orphan uploads, decisions recorded, a review is emptied or undone only by calls that overlap |
| **auth sessions** (`modules/auth`) | `refresh_sessions` (a hash per device), access and refresh tokens held by clients | register (with roll-back), login, refresh (rotates the row in place), logout, logout everywhere | users | two refreshes of one token, refresh racing logout or suspension, expiry between read and write | a refresh token is exchanged once, by its owner; a suspended account mints none; no device is left with a session it cannot use |
| **accounts** (`modules/auth/services`, `modules/users`) | `users.status`, role, `onboardedAt`; `email_verifications`, `password_resets` | verify e-mail, request / perform reset, Google login and linking, onboarding, create, update, soft delete | e-mail queue, auth sessions | tokens used twice, tokens that outlive a suspension, two registrations at once | a new link ends the older ones, a link works for nobody after it worked, a suspension lasts, one role choice |
| **server process** (`main.ts`, `database/prisma.service.ts`, `jobs/jobs.module.ts`) | how far the process is, its storage provider, the shutdown paths | boot with a ping under a deadline, listen, signal, uncaught exception, crash | environment, database | a database that stalls, two shutdown paths on one signal | nothing listens before the database answered; boots and shutdowns end |
| **environment and storage routing** (`config/`, `storage/storage.module.ts`, the S3 provider) | none | validate, configure, choose a provider, choose the bucket of a key | object storage | settings that pass one by one and are wrong together | identity documents never go to a public bucket |
| **events gateway** (`gateways/`) | table of connected clients, rooms | connect (with an `await`), disconnect, emit to a user | JWT service | a client that disconnects while its token is verified | an event reaches only the user it is for |
| **local storage migration** (`cli/migrate-local-storage.ts`) | local files, two buckets, `users.avatar` | list, head, read, upload, repoint rows; dry run | storage, database | kill and re-run, calls that fail, users who change their avatar, an old build that still writes | no row points at an object that is not there; "Done." means copied; an avatar is repointed in the end |
| **cache** (`cache/`) | a Map with expiry | get, set, delete, by pattern, clean-up, get-or-set | nobody injects it at this commit | eviction at the limit, expiry, get-or-set racing delete | bounded size, staleness bounded by the lifetime |
| **service categories**, **waitlist** (`modules/service-categories`, `modules/waitlist`) | one table each behind unique indexes | create, update, deactivate; join | the pipeline | check, then insert; a failing database | each request takes effect at one moment and is answered by it |
| **HTTP pipeline** (`app.module.ts`, `common/guards`, `common/filters`, `common/interceptors`) | none | guards, timeout, handler, filters | every handler | the 30 s timeout above | everybody past the guards is answered, with the right status |
| jobs and e-mail (`jobs/`) | Bull queue | listeners, processor | Resend | failure is swallowed | - |
| storage providers and uploads, Redis cache provider, health, build, seed and smoke scripts | none of their own | upload, delete, sign; ping | file system, S3, Cloudinary, Redis | failing calls | - |

`PROJECT.json` lists every component with its status, and every hazard at the line
where it bites.

## 2. Plan

The order is that of importance to the business, then of how much can go wrong.

1. **ServiceRequests** with its abstract specification **JobLifecycle** - done,
   with proofs of every safety property and of the refinement.
2. **HandymanVerification** - done, with proofs of every property it checks.
3. **AuthSessions** with its abstract specification **TokenLifecycle** - done, with
   proofs of every property it checks and of the refinement.
4. **Accounts**: one-time links, suspension, onboarding - done, with proofs of every
   property it checks.
5. **MigrateLocalStorage**: the batch with kills and re-runs against the application -
   done, with proofs of every safety property; its liveness is model-checked.
6. **Server**, composed of **Environment** (settings to buckets) and **EventsGateway**
   (callbacks around one `await`): one process from boot to exit - done, with
   proofs of every safety property; its liveness is model-checked.
7. **MemoryCache**: Map, expiry, eviction, get-or-set - done, with proofs of both
   properties it checks.
8. **Catalogue** with its abstract specification **AtomicCatalogue**: categories and
   waitlist behind guards, timeout and filters - done, the refinement model-checked
   and proved.
9. Proofs of every safety property and every refinement the runs check - done.
10. A finer ServiceRequests, one step per SQL statement with row locks, shown to
   implement the present one; uploads.

Composition: ServiceRequests assumes VERIFIED handymen, which HandymanVerification
produces; both are used by users whose sessions and status AuthSessions models, where
the handlers of Accounts appear as its environment. The coupling between them is one
read (`verificationStatus` in `applyToRequest`, `status` in the JWT strategy), so they
are kept apart and composed only where a property needs it. Server composes the two
modules it extends: the bucket routing of a process depends on the environment of its
boot, what lies in the buckets outlives it, and its websocket clients do not.

## 3. How the handlers are modelled

The modules share one idiom. `Slots` are the handlers that can run at once over
all processes; `call[p]` is what handler p is, which step it is at, and **what it has
read and still relies on** (never the current row). A handler is

* a *start*: its first read and the checks on it. A check that fails changes
  nothing, so it has no action;
* one step per later read, write, storage call, event and audit record. A later
  check that fails, or a conditional update that matches no row, is the disjunct
  `Throw` of that step;
* `Crash`, if enabled: the handler stops between two steps (`max_memory_restart`,
  a deployment, a query that fails). What it committed stays.

Why a transaction is one step: PostgreSQL runs them at READ COMMITTED. Those of
`cancel`, `acceptApplication` and `cancelAssignedRequest` begin by updating the
request row, so they hold its lock to the end and no other one of them runs in
between; their other statements are conditional on the application rows, and a
statement of another handler that slips in between is equivalent to the same
statement before or after the whole transaction. `applyToRequest`'s transaction
begins with a SELECT, which locks nothing, so it **is** two steps (`RecheckOpen`,
`ApplyWrite`).

Callers overlap freely: a double click, a retry after the timeout, two devices. Where
the code relies on a read that its write does not repeat, the property says what is
left: who may still be past that read. History variables (`most`, `crossed`, `late`)
record which handlers have met. What a doubled call can break for good is stated for
clients that wait for each answer, which the server does not enforce: `NeverBack`, for the
fault models of HandymanVerification without `"overlap"`, and the run `serial` of
ServiceRequests, where under `Serial = TRUE` no user starts a handler while one of theirs
runs. They say what such users get in spite of each other; what doubled calls do there is
in section 5.

### ServiceRequests

| model | code |
|---|---|
| `status`, `customer`, `assigned`, `details` | the columns of `service_requests` (`details` is the editable ones together) |
| `app[r][h]` | the application row, unique on (request, handyman) |
| `events`; the events due are `Due` | what was handed to `EventEmitter2` |
| `XWhere` | the `where` clause of X's `updateMany` |
| `X`, `XWrite` | X's first read with its checks; its transaction or update |
| `Emit` | the `eventEmitter.emit` after the commit |

`Handymen` are profiles that are VERIFIED and serve the category, so those two checks
of `applyToRequest` pass. Applications are named by the row they live in, (`on`, `hm`),
and the URL may pair a request with another request's application. Titles, budgets,
cover messages, time stamps and the read-only lists are left out.

`JobLifecycle` is what the two parties are promised: atomic phases, one worker, and
the notices a transition owes, each told or lost.

### HandymanVerification

| model | code |
|---|---|
| `status`, `fields` | `verificationStatus`; the editable columns and categories |
| `doc[d]`, `file[d]` | the document row and the stored object of one generated id |
| `audit` | `audit_logs`, reduced to the action and the profile it concerns |
| `removed` | history: the rows `deleteDocument` removed |
| `late` | history: the deletions that a submission met between its count and its write |
| `faults` | what may go wrong in this behaviour, one of `FaultModels`: which calls fail, whether handlers die, whether a handyman's own handlers overlap |

`Fresh` is `randomUUID`. A failing call has no effect: a storage call or an insert that
succeeds and then reports an error is not modelled (it would break `RowsHaveFiles`
by way of the clean-up; see the hazards). `rejectionReason`, `verifiedAt` and
`reviewedById` are written with the status and are left out.
`getHandymanForReview` loops over the documents; one of them stands for all.

### AuthSessions

| model | code |
|---|---|
| `row`, `verified`, `active`, `google` | `users`: whether the row exists (a soft-deleted one does), `emailVerified`, `status = ACTIVE`, `provider` |
| `session[t]` | the row of `refresh_sessions` whose `tokenHash` is t's. `rotate` changes the hash in place, so the row moves from the old token to the new |
| `expired` | the tokens whose `exp`, and so whose row's `expiresAt`, has passed; time passes at any moment, but only for live sessions (of the others nothing reads it) |
| `held` | the refresh tokens that were answered to a client, and may be presented |
| `owner`, `successor` | history: whom a token was stored for, what it was exchanged for |
| `entitled` | history: the running handlers during which their account was in use |
| `faults` | which of four kinds of failure this behaviour may have: a handler dies or a query fails; the insert of a session fails; the removal of a half-registered account fails; an answer is lost |

A token is signed with a random `jti` and its hash is unique, so a new session takes a
token nobody was given before (`owner[t] = None`). Signing and storing are one step:
a token that is signed and not stored is never seen again. `verifyEmail`, the admin's
`PATCH` and `DELETE /users/:id` and the passing of time are the `Environment`: they
write one row of `users` in one statement, whose guards are not this module's subject.
A Google log-in has three ways in: an account with that Google id, an account with that
e-mail that is then linked, and a new account. Passwords and access tokens are left
out; who may log out is guarded by what the access token's validation reads
(`jwt.strategy.ts`), and a refresh is authenticated by the reads of
`jwt-refresh.strategy.ts`, which are steps of their own since they precede the ones of
`refreshTokens`.

`TokenLifecycle` is what a client may rely on: a token is unused, live, and then
exchanged or ended, for good; ending one device's session ends no other's. The
refinement maps `phase[t]` to `Phase(t)` and `holder` to `owner`.

### Accounts

| model | code |
|---|---|
| `row`, `status`, `verified`, `oauth`, `linked`, `role` | the columns of `users` by e-mail address: `provider` is `oauth`, `googleId` is `linked`, `role` the role chosen with `onboardedAt` |
| `link[l]`, `used`, `expired` | the rows of `email_verifications` and `password_resets` by token |
| `mailed` | the links that reached their mailbox: an e-mail may be lost, and whoever has it may follow it again and again |
| `works` | history: how often a link did its work |
| `most` | history: how many handlers were ever at one thing at the same time: following a link, verifying an account |
| `crossed` | history: the sendings of a link that met another of their kind and account, both past their invalidation |

Any handlers overlap, several of one kind for one account too; the background sending a
registration starts is one of them.

### MigrateLocalStorage

| model | code |
|---|---|
| `neon`, `old`, `publicBucket` | which build serves, whether `STORAGE_NEON_PUBLIC_BUCKET` is set |
| `file[k]`, `object[b][k]` | what the local file and the object hold: nothing, a part, all of the upload |
| `avatar[u]` | `users.avatar`, as the place and key its URL names |
| `run[m]` | a migration, step by step: `copy`, `head`, `read`, `put`, `rows`, `update`, with what it has read and its report |
| `promised` | history: what a run that ended "Done." had listed |

The public address prefix is the bucket's own (`STORAGE_PUBLIC_BASE_URL` is unset), only
avatars are under a public prefix, and documents, whose rows keep keys and not URLs,
are never repointed.

### Environment, EventsGateway, Server

| model | code |
|---|---|
| `Environments`, `Accepted` | the variables boot and storage depend on; what `validateEnv` lets pass |
| `ProviderOf`, `BucketFor` | the factory of `StorageModule`; `bucketFor` of the S3 provider |
| `phase`, `database`, `answered` | `main.ts` and `PrismaService`: created, pinging, ready, listening, closing, doomed (an uncaught exception was seen), down |
| `closer` | the two paths a signal starts: the hook of `enableShutdownHooks` and the handler of `main.ts` |
| `stored` | what lies in the buckets; it outlives the process |
| gateway variables | sockets, rooms and the table of `events.gateway.ts`, with the connects whose token is being verified |

`NamedAsDeclared` is an assumption on operators: buckets are named as `neon.ts` declares
them, or both names are the same by mistake. `validateEnv` cannot see which bucket is
public, so without it no property of the routing could hold. A shutdown waits for the
database in `$disconnect` and for open connections in `server.close`; the model lets
both return, and where one does not it is PM2 that ends the process. Other settings than
those of the storage and Redis are one flag: one of them is malformed, or none is.

### MemoryCache

| model | code |
|---|---|
| `entry[k]`, `before[k]` | the `Map`: what it holds for k, and the keys that were inserted before k, the first of which is evicted; `left` is `expiresAt`, in ticks from now |
| `call[p]` | a get-or-set whose factory runs |
| `stale` | history: ticks since the value behind the key changed, in an entry or in a factory's hands |

A provider call never yields, so it is one step. Keys are not empty: `evictIfNeeded` takes
an empty first key for none and would evict nothing. `MaxTtl` bounds the lifetimes that
callers pass, any number will do. Values are not null: `getOrSet` takes a cached null for a
miss and calls its factory again, which is not modelled.

### Catalogue

| model | code |
|---|---|
| `row[c]`, `list` | `service_categories`; the e-mails of `waitlist` |
| `SlugOf` | `generateSlug`: any function, several names may share a slug |
| `step[h]`, `asked[h]`, `status[h]` | a request in the server, from the guards to its answer |
| `PrismaStatus`, `ErrorStatus` | the two exception filters |
| `TimeOut`, `DatabaseFails` | the timeout interceptor; a query that fails, with or without its effect |

An `update` may name any of its fields, none, or null in their place: `@IsOptional()`
lets null pass, a null `name` ends in a `TypeError` and a null `isActive` in the refusal
of the client library (`Invalid`), a 500 each. A description and an icon are not told
apart. `AtomicCatalogue` has no steps: a request takes effect at one moment, or times
out and takes effect later all the same; it is refused with 409 only if another row
holds the slug at that moment, with 500 only if its body is malformed or the database
failed. It knows no slug column, so the refinement also says that a row's slug is always
that of its name.

## 4. What the runs check

| run | instance | behaviours | shows |
|---|---|---|---|
| `concurrent` | 1 request, 1 customer, 2 handymen, 2 details, 2 slots, crashes | any pair of handlers, two of one user included | `AssigneeAccepted`, `ReleasedClean`, `HandlersSound`, `EventsTruthful`, `CompletedAtMostOnce`, `NeverReopened`, `ClosedStaysAsItWas` |
| `serial` | the same with 3 slots, one handler per user, fair, no crash | customer and both handymen at once | `SingleAccepted`, `OnlyAssigneeActs`, `ImplementsJob` (the refinement), `Announced` (liveness) |
| `verification` | 1 handyman, 2 admins, 2 documents, 2 slots, three fault models, one with overlapping calls | admins race the handyman and each other, the handyman's calls race each other | `RowsHaveFiles`, `NoOrphanUpload`, `DecisionRecorded`, `SubmittedHasDocuments`, `NeverBack`, `NothingDeletedUnderReview` |
| `sessions` | 1 account, 3 tokens, 2 slots, two fault models | log-ins, refreshes and log-outs of two devices against registration, Google log-in, suspension, deletion and expiry | `AnsweredWasStored`, `SuspendedMintsNothing`, `LiveIsHeld`, `RegistrationIsWhole`, `ExchangedOnce`, `ImplementsTokenLifecycle` (the refinement) |
| `two_users` | 2 accounts, 2 tokens, 2 slots, no faults | users who name each other's tokens | `OnlyOwnSessions` |
| `accounts` | 1 account, 2 links, 2 roles, any 2 handlers at once | registration, both kinds of link, Google, suspension, onboarding, deletion, lost e-mails, crashes | `SendingEndsOlder`, `LinkWorksForOverlapping`, `SuspensionLasts`, `RoleSettles` |
| `migration` | 2 avatars, 1 user, 1 run at a time, 2 changes of avatar, 1 failure | deployments, runs that fail or are killed and are repeated | `AvatarsResolve`, `DoneMeansCopied`, `OwnAvatarKept`, `EventuallyRepointed` (liveness) |
| `server` | 2 segments, 2 buckets, 2 clients, 2 users, every combination of settings | boots, uploads, connects and ends, again and again | `DocumentsStayPrivate`, `ListedIsServed`, `ServesOnlyAnswered`, `EventsReachTheirUser`, `Settles` (liveness) |
| `cache` | 3 keys, 2 entries, 2 get-or-sets | sets, expiry, eviction, clean-up, deletion, changes behind the cache | `MapBounded`, `StaleOnlyForItsTtl` |
| `catalogue` | 2 categories, 3 names of 2 slugs, 1 e-mail, 2 requests | any two requests of any callers, timeouts, a failing or silent database | `HandlersAreAtomic` (the refinement) |
| `back_out` | 2 handymen, 2 slots | finding 1 | `NoStaleAccepted` is violated |
| `google_suspended` | 1 account, 2 tokens, 2 slots | finding 2 | `SuspensionHolds` is violated |

The type invariants (`TypeOK`) are theorems, `TypeCorrect` of each proof module, and not
among the runs' properties. The strengthened invariants of section 6 were checked on the
same instances before they were proved.

**Why these bounds.** Every race in this code is between the stale part of one handler
and the write of another, so two slots contain each of them; a double submission with a
third party acting in between is a sequence of whole handlers inside one slot while the
other slot waits, which two slots also contain (that is how `back_out` is found). Two
handymen are what "assigned to somebody else by now" needs. One request is enough for
the row invariants, since a handler writes only one request; what happens when the URL
pairs two requests is covered by the theorems, which have no bound. Two documents let
one be deleted while another keeps the submission valid; two admins can disagree. Three
tokens are a device that refreshes twice, or one that refreshes once beside another
device, which is what "this token was exchanged by somebody else" and "only this
device's session" need; only `OnlyOwnSessions` tells accounts apart. The two fault
models of `sessions` are the one under which `LiveIsHeld` and `RegistrationIsWhole`
still promise something while the roll-back has work to do, and the one where all may
fail. In `verification` a handyman's calls overlap in one of the fault models;
`NeverBack` is about the others. In `accounts` two links are an old one and its
successor, or one of each kind. In `migration` two avatars let one be copied while a
user switches to the other, and one failure, at any call, is what a repeated run has to
make good. Runs do not overlap in it: with two at once `DoneMeansCopied` fails (section
5), while `AvatarsResolve` and `OwnAvatarKept` are proved for any number. `server`
enumerates every environment of its settings, since the mistakes are in combinations. In
`cache` three keys for two entries force evictions. In `catalogue` two names share a
slug, so that a create and a rename can collide on the slug alone; the third keeps two
rows possible. Symmetry is used in runs without liveness only. Deadlock checking is off
because the system may be idle, or, in these bounded instances, have nothing left to do.

**Fairness.** `serial`: weak fairness of `Continue(p)` for each slot,
"a handler that is running is eventually served". The event loop and the database
guarantee that as long as the process lives, hence no crashes in that run; no user is
ever forced to call anything, so liveness is about announcements that are due, never
about progress of a job. `migration`: a run that is not killed goes on (weak), and every
deployment runs it again, in between dry runs too (strong, on the start of a run);
failures are bounded by `MaxFaults`, as an endless outage would keep anything from being
copied. `server`: the steps of a boot and of a shutdown, and the timer after an uncaught
exception, are taken; nothing is assumed of the database, whose silence the deadline
of the ping has to end.

**Mutants.** An operator whose name ends in `_` is a plausible slip in the operator of
the same name without it (a dropped `where`, a missing status check, a clean-up that
is forgotten). Each property has one it refutes.

## 5. Findings

1. **`cancelAssignedRequest` twice** (`back_out`). The assignee check is made on a read,
   the update matches `{id, status: ASSIGNED}` only. Back out, somebody else is
   assigned, then the second submission of the same call writes: the *new* assignee
   loses the job, its application stays ACCEPTED on an OPEN request, and the event
   names the wrong handyman. `startRequest` has the same gap. The comment at
   `handyman.service.ts:661-666` says the stale ACCEPTED record is what the code
   avoids. Adding `assignedHandymanId: profile.id` to the `where` closes both.
2. **A Google log-in lifts a suspension** (`google_suspended`). An account found by its
   e-mail is linked with an update that sets `status: ACTIVE` (`oauth.service.ts:151`);
   the check of the status comes after it, on the row that update returned, and so
   never fails. The comment above the check (`oauth.service.ts:91-92`) says that a
   suspended account should not come out of it with working tokens.

**Known races**, which the models contain and no run reports:

* `update` of a service request checks OPEN on a read and writes by id alone, unlike every
  other transition of the service: an edit can land on a request that was assigned or
  cancelled in between. The API documentation says "Only allowed while status is OPEN"
  (`service-requests.controller.ts:84`). `ClosedStaysAsItWas` bounds it to the edits that were
  in flight when the request left OPEN.
* `startRequest`, as finding 1 says: the late write starts the job of the handyman assigned
  in between.
* `completeProfile` checks the status on a read and updates by id: sent twice, the late one
  takes a profile that was submitted, or VERIFIED, meanwhile back to PROFILE_COMPLETE
  (`NeverBack` fails where a handyman's calls overlap).
* `deleteDocument` checks the status on a read; with two calls of one handyman at once, a
  submission that commits in between loses its documents while under review.
  `NothingDeletedUnderReview` and `SubmittedHasDocuments` say that these deletions, which a
  submission met past its count, are the only ones.
* `logout` revokes the row whose hash is that of the token it was given. If a refresh of
  the same device rotates the row first, nothing matches, the log-out answers success,
  and the session lives on under the new token.
* `rotate` repeats the `revokedAt` condition of the read but not the expiry, so a refresh
  that began in time extends a session that has expired since.
* Two resets with one link at once both work; two sendings that meet past their
  invalidations leave two usable links; of two onboardings at once the later one chooses.
  `LinkWorksForOverlapping`, `SendingEndsOlder` and `RoleSettles` say that it ends there: the
  link works for nobody who comes later, the next sending ends both links, the role
  stays. And a verification link works for a suspended account that never was verified, or
  whose Google linking verified it, or that was verified twice at once.
* Of a refresh whose answer is lost, the rotated row stays and the device holds the token
  that no longer works; it must log in again.
* A migration that reads a file the old build is still writing leaves a partial object,
  which every later run reports as a conflict and none replaces (`EventuallyRepointed`
  names it as the exception).
* Two migrations at once: one reads a file the old build is still writing, the other copies
  it in full, and the first then puts its part over that. The second ends "Done. ... delete
  them once the app is verified", and the local file is the only whole copy
  (`DoneMeansCopied` fails with two `Runs`). Nothing in `main` keeps two runs apart.
* The timeout starts after the guards: a request whose token look-up stalls is never
  answered.
* `applyToRequest`'s re-check takes no lock, as its comment says
  (`handyman.service.ts:519-527`), so a PENDING application can appear on a CANCELLED
  request. `NothingLeftOnCancelled` states it; `ReleasedClean` shows what still holds.

Documentation and code also differ where no behaviour can show it: `cache.module.ts:21` says
`CACHE_TYPE` selects the provider, but `configuration()` has no `cache` section, so the
Redis provider is never made.

## 6. What is proved

Each module has its theorems in a module of its own, `<Module>Proofs`; those of
Environment and EventsGateway are in `ServerProofs`. They hold for **any** sets of
requests, users, documents, tokens, links, categories, keys, buckets and slots, and no
set is assumed finite. What is assumed is what the modules declare: customers and
handymen are different users, admins are not handymen, NULL is none of the values it
stands beside, the flags are Boolean, buckets are named as `neon.ts` declares them, the
cache holds at least one entry; of Accounts' slots alone, which `most` counts, it is assumed
that they are finitely many. Two conditions on the callers are hypotheses of the
theorems that need them, written `ASSUME ... PROVE Spec => ...`: `Serial = TRUE` of
ServiceRequests (section 3), and `OneAtATime`, that runs of the migration do not overlap.
`NeverBack` names its condition itself: it speaks of the behaviours in which no handyman's
calls overlap. The crashes, lost
answers and failing calls of a module are part of all its theorems.

| proof module | safety properties without a condition | under `Serial` or `OneAtATime` | refinement |
|---|---|---|---|
| ServiceRequestsProofs | `AssigneeAccepted`, `ReleasedClean`, `NeverReopened`, `HandlersSound`, `EventsTruthful`, `CompletedAtMostOnce`, `ClosedStaysAsItWas` | `SingleAccepted`, `OnlyAssigneeActs` | `ImplementsJob` (under `Serial`) |
| HandymanVerificationProofs | `RowsHaveFiles`, `NoOrphanUpload`, `DecisionRecorded`, `SubmittedHasDocuments`, `NeverBack`, `NothingDeletedUnderReview` | | |
| AuthSessionsProofs | `AnsweredWasStored`, `SuspendedMintsNothing`, `LiveIsHeld`, `RegistrationIsWhole`, `ExchangedOnce`, `OnlyOwnSessions` | | `ImplementsTokenLifecycle` |
| AccountsProofs | `SendingEndsOlder`, `LinkWorksForOverlapping`, `SuspensionLasts`, `RoleSettles` | | |
| MigrateLocalStorageProofs | `AvatarsResolve`, `OwnAvatarKept` | `DoneMeansCopied` | |
| ServerProofs | `DocumentsStayPrivate`, `ListedIsServed`, `ServesOnlyAnswered`, `EventsReachTheirUser` | | |
| MemoryCacheProofs | `MapBounded`, `StaleOnlyForItsTtl` | | |
| CatalogueProofs | | | `HandlersAreAtomic` |

**ServiceRequests.** `RowsInv` is `TypeOK /\ AssigneeAccepted /\ ReleasedClean /\ Checked`.
`AssigneeAccepted` alone is not inductive: `acceptApplication` marks the application of
its URL and assigns the request of its URL, so the proof needs `Checked`, that a handler
about to accept has `on = req`, and that one about to cancel read OPEN or ASSIGNED (else
the cancellation of a COMPLETED request would reject the assignee's application).
The same facts keep `ReleasedClean`: an accept that named another request's application
could mark one ACCEPTED on a cancelled request.
`LifeInv` is `RowsInv /\ HandlersSound /\ Told /\ CompletedAtMostOnce`: `Told` says that
events emitted stay true. `HandlersSound` carries the argument that made this code
hard to review: a `completeRequest` whose assignee check is stale is still safe,
because from IN_PROGRESS on the assignee cannot change (`NeverReopened`), while a
`startRequest` or `cancelAssignedRequest` is not, because an ASSIGNED request can be
given back and assigned again. Theorems: `TypeCorrect`, `AssigneeAcceptedAlways`,
`ReleasedCleanAlways`, `NeverReopenedAlways`, `HandlersSoundAlways`,
`EventsTruthfulAlways`, `CompletedAtMostOnceAlways`. `ClosedStaysAsItWasAlways` rests on types
alone: who would edit or apply next must have found the request OPEN, and `Closed` says
that it is not and that nobody who did is left.

With `Serial` the gap that finding 1 shows closes. `SerialInv` is `RowsInv /\ HandlersSound
/\ SingleAccepted` with `OneEach`, that a user runs one handler at a time, `Acting`, that
the job of a `startRequest` or `cancelAssignedRequest` in flight is the caller's for as
long as it is ASSIGNED, and `Owned`, that a customer's handler works on the customer's
request. `Acting` is what `Serial` buys: only the assignee can take an ASSIGNED request
back, and the assignee is busy. It gives `OnlyAssigneeActsAlways`, and
`SingleAcceptedAlways`, since a back-out then rejects the application of the very
handyman it removes. The refinement, `ServiceRequestsImplementsJob`, holds with and without
crashes, so it covers more than the run, which has none. The step of each handler that
writes is the one of its transition in `JobLifecycle`; the lemma behind it is that no two
handlers owe the same event (`OneEmitter`), so that telling or losing one settles exactly
one debt.

**HandymanVerification.** `StartsRead` reduces every start to one shape, `Footprint` says
which steps write what. Four inductive invariants are built on `TypeOK`:

* `UploadsSound`: `RowsHaveFiles` with `UploadRelies`, that an upload's file is absent,
  then stored, that it has no row yet, and that no other upload has its id. Without it
  the clean-up of one upload could delete the file of another's row. It gives
  `RowsHaveFilesAlways` and, with the fault assumption, `NoOrphanUploadAlways`.
* `AnnouncedFirst`: who is about to record a decision has announced it. It gives
  `DecisionRecordedAlways`: two admins who decide at the same time both get their
  records, and the one that shows is among them.
* `ReviewInv`: `UploadsSound` and `LateSound`. A submission that has counted the documents
  still finds one when it writes, or a deletion took the last; and every deletion that is
  then still to write, or took it, is in `late`. It gives `SubmittedHasDocumentsAlways` and
  `NothingDeletedUnderReviewAlways`, with every overlap and failure of the model.
* `StatusInv`: where a handyman's calls do not overlap, `OneEach` (no two handlers of one
  handyman) and `StatusRelies` (what the stale read of each handler still guarantees when
  it writes, given that admins can move a profile only once it is under review). It gives
  `NeverBackAlways`.

**AuthSessions.** Every property of its two passing runs is proved. `TableInv` is
`TypeInv /\ AccountsInv /\ SessionsSound /\ OwnTokens`, built up in that order:

* `TypeInv`: the types, and `Stored`, that what clients hold or are about to get was
  stored; a refresh works for `owner[t]`, so the type of its handler depends on it.
* `AccountsInv`: an ACTIVE account has a row, and who is about to insert an account is
  alone with its id. Without it a late insert could give sessions back to an id.
* `SessionsSound`: a session belongs to the account its token was stored for, which is in
  the table, and its token was not exchanged. This is where the in-place rotation has
  to be right: the condition on the hash and `revokedAt` is what makes the second
  of two refreshes match nothing (`ExchangedOnceAlways`).
* `OwnTokens`: a refresh works for its token's account, and whoever answers a token
  stored it for the account it works for (`AnsweredWasStoredAlways`,
  `OnlyOwnSessionsAlways`).

The refinement (`ImplementsLifecycleAlways`) needs no more than `TableInv`: `Phase` is read
off three variables, and the step of each of the four actions that change them is an
`Issue`, an `Exchange` or an `End`. `SuspendedMintsNothingAlways` adds `EntitledInv`: whoever
runs while its account is in use is entitled, and whoever has passed a check of the
status is; the step to notice is `LinkGoogle`, which is entitled by its own update
(finding 2). `LiveIsHeldAlways` and `RegistrationIsWholeAlways` are inductive beside
`TableInv`: the first because a handler that waits to answer does nothing but answer and
cannot miss the row of an account with a live session, the second because
every way out of `register` has removed its account or stored its session.

**Accounts.** No check of these services is repeated by the write it is for, so each theorem
is about who may be past the check. `SendingInv`: whoever is to insert a link, and has met
nobody since it invalidated the older ones, finds none of them usable; two who meet are
both `crossed`, whatever becomes of the other. `FollowingInv` counts: the times a link has
worked and the handlers that follow it now are together no more than ever followed it at
once, for nobody begins once it has worked and each ends as it makes it work.
`VerifyingInv` is for `SuspensionLastsAlways`: `verifyEmail` sets the status to ACTIVE, so no
link of its kind may be left, or come, once one has worked. `VerifyingSound` says so of an
account whose verifications have not overlapped (`most` is 1): it has one usable
verification link, none while a new one is sent, none once it is verified, and nobody is
then about to send or follow one. `RoleSettlesAlways` needs only the types: a role is written
by who is past the checks, and nobody passes them once it is there.

**MigrateLocalStorage.** `AvatarInv` is `TypeOK /\ AvatarsResolve` with `RunSound` for each run
(it has seen the object of every key it counts as copied in the bucket it would point an
avatar to, whatever the other runs do) and `Handed` (an old public address a user may set
again still has its object). Both rest on `Grows`: files and objects never vanish and a
complete file stays so. That is enough for any number of runs. A complete object does not
stay so when runs overlap, since `put` replaces it by what was read; `PromiseInv` adds
`PromiseSound`, that a run which holds a file it found complete, or one promised by an
earlier run, holds all of it, and is inductive under `OneAtATime` only. `DoneMeansCopiedAlways`
follows at the step `Finish`, as nothing is left to do.

**Server, Environment, EventsGateway.** `AcceptedRoutes` goes through what `validateEnv` accepts and
shows that the provider built from it satisfies `Routes`: its own bucket is not public, the
bucket of the listed segments is, and documents are not among those segments. `WellStored`
carries that over reboots: every object lies where some accepted configuration put it, so
a later one that has the same bucket finds it there.
`ServesOnlyAnsweredAlways` follows the phases of the boot. `Identified` is the gateway's
invariant: a socket is in a room only by its own token, and one that nobody has connected
yet has no traces. A verification that ends after its client has left does put a closed
socket into the table and a room, where it stays; what the theorem says is that it is the
room of its own user and hears nothing.

**MemoryCache.** `CacheInv` has three parts. The Map is bounded, and `before` is a strict total
order on its keys: so a Map that is full, being finite and not empty, has a first key
(`FirstExists`, by the well-founded ordering of finite sets), the one thing the eviction
relies on. An entry's remaining and superseded times move in opposite directions from at
most `MaxFactory` apart (`EntrySound`), and a factory's value is superseded for no longer
than the factory holds it (`CallSound`). Together they bound how long a stale value is
served, get-or-sets that bring back what was deleted included.

**Catalogue.** `HandlersAreAtomicAlways`: the handlers implement `AtomicCatalogue`, for any
slug function. The look-ups give the handlers nothing to rely on but this: rows are never
deleted, so an update past its first look-up has its row (`Stages`). The rest is the unique
index, in two facts. A slug is that of its row's name and no other row has it
(`SlugsFollowNames`), so a collision by name is one by slug, and an update that keeps its
name collides with nobody. So what the index refuses is a conflict on the rows as they
are (`RefusedConflicts`), and what it lets through is none (`WritePerforms`). Every other
step answers what it read, or shows nothing.

**Only model-checked.** The liveness properties: `Announced`, `EventuallyRepointed` and
`Settles`. Liveness under fairness and `ENABLED` are beyond TLAPS, as are
induction over data and RECURSIVE operators; no module has any of the latter. The two runs
that find a violation have nothing to prove.

## 7. Not modelled, and why

* Listeners and e-mail: they swallow failures and change no table; the events they are
  handed are part of the models, delivery is Bull's and Resend's.
* The Redis cache provider: no configuration reaches it.
* Storage providers and uploads, health, seed and smoke scripts: I/O or stateless. What
  a handler needs of the storage is in HandymanVerification and MigrateLocalStorage.
* Of the server: Helmet, CORS, Swagger, logging and the correlation id; of the gateway:
  `emitToRoom` and `emitToAll`, which nobody calls (nothing injects the gateway or the
  cache service at this commit; both are modelled as what their interface allows).
* Throttling is a possible refusal, never a count.
* Read-only endpoints, pagination, formatting, time stamps.
* Commits whose answer is lost, except in AuthSessions and Catalogue.
