------------------------- MODULE MigrateLocalStorage -------------------------
(***************************************************************************)
(* The migration of locally stored files to the Neon object storage        *)
(* (cli/migrate-local-storage.ts), while the application serves uploads    *)
(* and users change their avatars.                                         *)
(*                                                                         *)
(* A deployment switches the application from the local driver to Neon,    *)
(* processes of the old build may linger, and the migration runs after     *)
(* every deployment, or by hand, and so again and again.  A run is a slot: *)
(* one step for each file-system, storage and database call it waits for.  *)
(* A file or an object is reduced to how much of the upload it holds;      *)
(* an avatar URL to the place and the key it names.  Files with unsafe     *)
(* names, which the application never writes, are left out.                *)
(***************************************************************************)
EXTENDS Naturals, FiniteSets

CONSTANTS
    Keys,        \* storage keys, each generated for one upload
    Avatars,     \* those under avatars/
    Users,
    Runs,        \* migrations that may run at the same time
    None,        \* NULL, no file, no object
    External,    \* an avatar hosted elsewhere
    MaxChanges,  \* bound: how often users change avatars
    MaxFaults    \* bound: how often a call of a run fails, or a run dies

ASSUME ConstantsAssumption ==
    /\ Avatars \subseteq Keys
    /\ {MaxChanges, MaxFaults} \subseteq Nat
    /\ None \notin Keys

VARIABLES
    neon,          \* STORAGE_DRIVER is neon: the new build is deployed
    old,           \* a process of the old build still serves
    publicBucket,  \* STORAGE_NEON_PUBLIC_BUCKET is set
    file,          \* file[k]: what the file of k under STORAGE_LOCAL_ROOT holds
    object,        \* object[b][k]: what the object of k in bucket b holds
    avatar,        \* avatar[u]: users.avatar
    handed,        \* the URLs uploads have answered
    run,           \* the migrations
    promised,      \* history: the keys a run that ended "Done." had listed
    changes,       \* counts changes of avatars, for the bound
    faults         \* counts failures, for the bound

configuration == <<neon, old, publicBucket>>
stores == <<file, object>>
vars == <<neon, old, publicBucket, file, object, avatar, handed, run, promised,
          changes, faults>>

Sizes == {"partial", "full"}
Buckets == {"private", "public"}
Url == [at : Buckets \cup {"local"}, key : Keys]

ASSUME NullAssumption == None \notin Sizes \cup Url /\ External \notin Url \cup {None}

\* The step of a run: next key, headObject, readFile, upload; then, for the avatars,
\* next key with find, and update.
Steps == {"copy", "head", "read", "put", "rows", "update"}

RunRecord == [step : Steps, public : BOOLEAN, dry : BOOLEAN,
             todo : SUBSET Keys, key : Keys \cup {None}, size : Sizes \cup {None},
             rows : SUBSET Users, seen : [Users -> Url \cup {None}],
             inTarget : SUBSET Keys, whole : SUBSET Keys, failed : BOOLEAN]

Idle == [step |-> "idle"]

TypeOK ==
    /\ {neon, old, publicBucket} \subseteq BOOLEAN
    /\ file \in [Keys -> Sizes \cup {None}]
    /\ object \in [Buckets -> [Keys -> Sizes \cup {None}]]
    /\ avatar \in [Users -> Url \cup {External, None}]
    /\ handed \in SUBSET Url
    /\ run \in [Runs -> RunRecord \cup {Idle}]
    /\ promised \in SUBSET Keys
    /\ changes \in 0..MaxChanges
    /\ faults \in 0..MaxFaults

Init ==
    /\ neon = FALSE /\ old = TRUE
    /\ publicBucket \in BOOLEAN
    /\ file = [k \in Keys |-> None]
    /\ object = [b \in Buckets |-> [k \in Keys |-> None]]
    /\ avatar = [u \in Users |-> None]
    /\ handed = {}
    /\ run = [m \in Runs |-> Idle]
    /\ promised = {}
    /\ changes = 0 /\ faults = 0

\* Only avatars are under a public prefix.
BucketFor(k, public) == IF public /\ k \in Avatars THEN "public" ELSE "private"

UrlOf(place, k) == [at |-> place, key |-> k]

----------------------------------------------------------------------------
(* The application: uploads with either driver, avatars, deployments.      *)

Unused(k) == file[k] = None /\ \A b \in Buckets : object[b][k] = None

\* The local driver's writeFile creates the file and then fills it ...
LocalUpload(k) ==
    /\ old /\ Unused(k)
    /\ file' = [file EXCEPT ![k] = "partial"]
    /\ UNCHANGED <<configuration, object, avatar, handed, run, promised, changes, faults>>

\* ... and the URL is answered when it is written.
LocalUploaded(k) ==
    /\ old /\ file[k] = "partial"
    /\ file' = [file EXCEPT ![k] = "full"]
    /\ handed' = handed \cup {UrlOf("local", k)}
    /\ UNCHANGED <<configuration, object, avatar, run, promised, changes, faults>>

\* An object appears in its bucket all at once.
NeonUpload(k) ==
    LET b == BucketFor(k, publicBucket) IN
    /\ neon /\ Unused(k)
    /\ object' = [object EXCEPT ![b][k] = "full"]
    /\ handed' = handed \cup {UrlOf(b, k)}
    /\ UNCHANGED <<configuration, file, avatar, run, promised, changes, faults>>

\* PATCH /users/me with the URL of an upload; linking Google, with Google's.
SetAvatar(u, url) ==
    /\ changes < MaxChanges
    /\ url # External => url.key \in Avatars
    /\ avatar' = [avatar EXCEPT ![u] = url]
    /\ changes' = changes + 1
    /\ UNCHANGED <<configuration, stores, handed, run, promised, faults>>

Deploy ==
    /\ ~neon
    /\ neon' = TRUE
    /\ UNCHANGED <<old, publicBucket, stores, avatar, handed, run, promised, changes, faults>>

OldExits ==
    /\ neon /\ old
    /\ old' = FALSE
    /\ UNCHANGED <<neon, publicBucket, stores, avatar, handed, run, promised, changes, faults>>

\* "Set STORAGE_NEON_PUBLIC_BUCKET, then re-run."
SetPublicBucket ==
    /\ ~publicBucket
    /\ publicBucket' = TRUE
    /\ UNCHANGED <<neon, old, stores, avatar, handed, run, promised, changes, faults>>

Application ==
    \/ \E k \in Keys : LocalUpload(k) \/ LocalUploaded(k) \/ NeonUpload(k)
    \/ \E u \in Users, url \in handed \cup {External} : SetAvatar(u, url)
    \/ Deploy \/ OldExits \/ SetPublicBucket

----------------------------------------------------------------------------
(* A run.  An operator ending in _ is a slip in the one below it; the       *)
(* mutation runs put it in its place.                                       *)

At(m, step) == run[m].step = step

Becomes(m, r) == run' = [run EXCEPT ![m] = r]

\* main: on another driver there is nothing to do.  listLocalKeys.
StartRun(m, dry) ==
    LET listed == {k \in Keys : file[k] # None} IN
    /\ At(m, "idle")
    /\ neon
    /\ listed # {}
    /\ Becomes(m, [step |-> "copy", public |-> publicBucket, dry |-> dry,
                   todo |-> listed, key |-> None, size |-> None,
                   rows |-> {}, seen |-> [u \in Users |-> None], inTarget |-> {},
                   whole |-> {k \in listed : file[k] = "full"}, failed |-> FALSE])
    /\ UNCHANGED <<configuration, stores, avatar, handed, promised, changes, faults>>

\* The next key, and the stat of its file.  When there is none left, the avatars.
NextKey(m) ==
    LET r == run[m] IN
    /\ At(m, "copy")
    /\ \/ \E k \in r.todo :
             Becomes(m, [r EXCEPT !.step = "head", !.todo = @ \ {k}, !.key = k, !.size = file[k]])
       \/ r.todo = {} /\ Becomes(m, [r EXCEPT !.step = "rows", !.inTarget = {},
                                              !.todo = r.inTarget \cap Avatars])
    /\ UNCHANGED <<configuration, stores, avatar, handed, promised, changes, faults>>

Copied(r) == [r EXCEPT !.step = "copy", !.inTarget = @ \cup {r.key}, !.key = None, !.size = None]
Failed_(r) == [Copied(r) EXCEPT !.failed = TRUE]
Failed(r) == [r EXCEPT !.step = "copy", !.failed = TRUE, !.key = None, !.size = None]

\* An object of the same size is left, and counts as there; one of another is a
\* conflict; none is to be uploaded.
SameSize_(r, existing) == existing # None
SameSize(r, existing) == existing = r.size

Present_(r) == [Copied(r) EXCEPT !.inTarget = r.inTarget]
Present(r) == Copied(r)

Head(m) ==
    LET r == run[m]
        existing == object[BucketFor(r.key, r.public)][r.key] IN
    /\ At(m, "head")
    /\ Becomes(m, CASE existing = None -> [r EXCEPT !.step = "read"]
                    [] existing # None /\ SameSize(r, existing) -> Present(r)
                    [] OTHER -> Failed(r))
    /\ UNCHANGED <<configuration, stores, avatar, handed, promised, changes, faults>>

\* readFile, after the head.  A dry run ends here.
ReadFile(m) ==
    LET r == [run[m] EXCEPT !.size = file[run[m].key]] IN
    /\ At(m, "read")
    /\ Becomes(m, IF r.dry THEN Copied(r) ELSE [r EXCEPT !.step = "put"])
    /\ UNCHANGED <<configuration, stores, avatar, handed, promised, changes, faults>>

Put(m) ==
    LET r == run[m] IN
    /\ At(m, "put")
    /\ object' = [object EXCEPT ![BucketFor(r.key, r.public)][r.key] = r.size]
    /\ Becomes(m, Copied(r))
    /\ UNCHANGED <<configuration, file, avatar, handed, promised, changes, faults>>

\* The rows LIKE finds for a key may name another: every candidate is compared
\* exactly.
Repointable(u, k, url) == avatar[u] \in Url /\ avatar[u].key = k /\ avatar[u] # url

PubliclyReadable(r, k) == BucketFor(k, r.public) = "public"

NextRows(m) ==
    LET r == run[m] IN
    /\ At(m, "rows")
    /\ \E k \in r.todo :
          LET url == UrlOf(BucketFor(k, r.public), k)
              rows == {u \in Users : PubliclyReadable(r, k) /\ Repointable(u, k, url)} IN
          Becomes(m, IF rows = {} \/ r.dry
                     THEN [r EXCEPT !.todo = @ \ {k}]
                     ELSE [r EXCEPT
                             !.step = "update", !.todo = @ \ {k}, !.key = k, !.rows = rows,
                             !.seen = [u \in Users |-> IF u \in rows THEN avatar[u] ELSE None]])
    /\ UNCHANGED <<configuration, stores, avatar, handed, promised, changes, faults>>

\* Compare and set, each row in turn within one transaction.
StillSeen_(r, u) == TRUE
StillSeen(r, u) == avatar[u] = r.seen[u]

RowsDone(r) ==
    [r EXCEPT !.step = "rows", !.key = None, !.rows = {}, !.seen = [u \in Users |-> None]]

Update(m) ==
    LET r == run[m] IN
    /\ At(m, "update")
    /\ avatar' = [u \in Users |-> IF u \in r.rows /\ StillSeen(r, u)
                                  THEN UrlOf(BucketFor(r.key, r.public), r.key)
                                  ELSE avatar[u]]
    /\ Becomes(m, RowsDone(r))
    /\ UNCHANGED <<configuration, stores, handed, promised, changes, faults>>

\* The exit code is 0 if nothing failed or was in conflict: "Done."
Finish(m) ==
    LET r == run[m] IN
    /\ At(m, "rows") /\ r.todo = {}
    /\ promised' = IF r.failed \/ r.dry THEN promised ELSE promised \cup r.whole
    /\ Becomes(m, Idle)
    /\ UNCHANGED <<configuration, stores, avatar, handed, changes, faults>>

\* A call fails: the key is recorded and the run goes on.  The run is killed.
CallFails(m) ==
    LET r == run[m] IN
    /\ \/ r.step \in {"head", "read", "put"} /\ Becomes(m, Failed(r))
       \/ At(m, "update") /\ Becomes(m, [RowsDone(r) EXCEPT !.failed = TRUE])
    /\ faults < MaxFaults
    /\ faults' = faults + 1
    /\ UNCHANGED <<configuration, stores, avatar, handed, promised, changes>>

Killed(m) ==
    /\ ~At(m, "idle")
    /\ faults < MaxFaults
    /\ faults' = faults + 1
    /\ Becomes(m, Idle)
    /\ UNCHANGED <<configuration, stores, avatar, handed, promised, changes>>

Proceed(m) ==
    NextKey(m) \/ Head(m) \/ ReadFile(m) \/ Put(m) \/ NextRows(m) \/ Update(m) \/ Finish(m)

Migration ==
    \E m \in Runs :
        \/ \E dry \in BOOLEAN : StartRun(m, dry)
        \/ Proceed(m)
        \/ CallFails(m) \/ Killed(m)

Next == Application \/ Migration

Spec == Init /\ [][Next]_vars

\* A run that is not killed goes on, and there is always another deployment, which
\* dry runs by hand cannot keep from running the migration.
FairSpec ==
    /\ Spec
    /\ \A m \in Runs : WF_vars(Proceed(m)) /\ SF_vars(StartRun(m, FALSE))

----------------------------------------------------------------------------
(* Properties.                                                             *)

\* An avatar in the public bucket can be fetched: no row is pointed there before
\* the object is ("rewriting would swap one dead link for another").
AvatarsResolve ==
    \A u \in Users :
        avatar[u] \in Url /\ avatar[u].at = "public" => object["public"][avatar[u].key] # None

\* Whatever a user does to their avatar while a run works stays: a run changes where
\* an avatar is, never which one it is, and never one hosted elsewhere.
OwnAvatarKept ==
    [][\A u \in Users :
          avatar'[u] # avatar[u] /\ changes' = changes =>
              avatar[u] \in Url /\ avatar'[u].key = avatar[u].key]_vars

\* A run that ends "Done. ... delete them once the app is verified" leaves no file
\* whose content, complete when it was listed, is not in a bucket.
DoneMeansCopied == \A k \in promised : \E b \in Buckets : object[b][k] = "full"

\* Once the public bucket is configured, an avatar left on a local address does not
\* stay there, however often runs fail: it is repointed, unless a run copied its
\* file while it was being written, which every later run reports as a conflict.
EventuallyRepointed ==
    \A u \in Users, k \in Avatars :
        (neon /\ publicBucket /\ avatar[u] = UrlOf("local", k))
            ~> (avatar[u] # UrlOf("local", k) \/ object["public"][k] = "partial")
=============================================================================
