----------------------- MODULE MigrateLocalStorageProofs -----------------------
(***************************************************************************)
(* Proofs about the migration of local files.  What an interrupted or a    *)
(* repeated run leaves behind is safe because files and objects never      *)
(* vanish: whatever a run has seen in a bucket is still there when it      *)
(* points an avatar at it.  That argument holds for any number of runs.    *)
(* "Done." needs more: a run whose readFile saw half an upload may put it  *)
(* over what another run has just copied in full, so the promise is proved *)
(* for runs that do not overlap.                                           *)
(***************************************************************************)
EXTENDS MigrateLocalStorage, TLAPS

-----------------------------------------------------------------------------
(* Types.                                                                  *)

LEMMA Constants ==
    /\ Avatars \subseteq Keys /\ MaxChanges \in Nat /\ MaxFaults \in Nat
    /\ None \notin Keys /\ None \notin Sizes /\ None \notin Url
    /\ External \notin Url /\ External # None
BY ConstantsAssumption, NullAssumption

LEMMA BucketType ==
    ASSUME NEW k, NEW public PROVE BucketFor(k, public) \in Buckets
BY DEF BucketFor, Buckets

LEMMA UrlType ==
    ASSUME NEW k \in Keys, NEW public
    PROVE  LET url == UrlOf(BucketFor(k, public), k)
           IN  url \in Url /\ url.at = BucketFor(k, public) /\ url.key = k
BY DEF UrlOf, Url, BucketFor, Buckets

LEMMA LocalUrlType ==
    ASSUME NEW k \in Keys
    PROVE  UrlOf("local", k) \in Url /\ UrlOf("local", k).at = "local"
BY DEF UrlOf, Url

\* The record a run leaves a key with, copied or failed.
LEMMA Copied_Fields ==
    ASSUME NEW r \in RunRecord, r.key \in Keys
    PROVE  /\ Copied(r) \in RunRecord
           /\ Copied(r).step = "copy" /\ Copied(r).key = None /\ Copied(r).size = None
           /\ Copied(r).inTarget = r.inTarget \cup {r.key}
           /\ Copied(r).public = r.public /\ Copied(r).dry = r.dry /\ Copied(r).todo = r.todo
           /\ Copied(r).whole = r.whole /\ Copied(r).failed = r.failed
BY DEF Copied, RunRecord, Steps

LEMMA Failed_Fields ==
    ASSUME NEW r \in RunRecord
    PROVE  /\ Failed(r) \in RunRecord
           /\ Failed(r).step = "copy" /\ Failed(r).key = None /\ Failed(r).failed
           /\ Failed(r).inTarget = r.inTarget
           /\ Failed(r).public = r.public /\ Failed(r).dry = r.dry /\ Failed(r).todo = r.todo
           /\ Failed(r).whole = r.whole
BY DEF Failed, RunRecord, Steps

LEMMA RowsDone_Fields ==
    ASSUME NEW r \in RunRecord
    PROVE  /\ RowsDone(r) \in RunRecord
           /\ RowsDone(r).step = "rows" /\ RowsDone(r).key = None
           /\ RowsDone(r).inTarget = r.inTarget
           /\ RowsDone(r).public = r.public /\ RowsDone(r).dry = r.dry
           /\ RowsDone(r).todo = r.todo /\ RowsDone(r).whole = r.whole
           /\ RowsDone(r).failed = r.failed
BY DEF RowsDone, RunRecord, Steps

-----------------------------------------------------------------------------
(* What a run knows.                                                       *)

Copying(r) == r.step \in {"copy", "head", "read", "put"}

There(o, k, public) == o[BucketFor(k, public)][k] # None

\* A run that is not a dry one has seen, in the bucket it would point an avatar to, the
\* object of every key it counts as copied, and the row it is about to change names the
\* key it changes it for.
RunSound(r, f, o) ==
    r.step # "idle" =>
        /\ r.key # None <=> r.step \in {"head", "read", "put", "update"}
        /\ r.step \in {"head", "put"} => r.size # None
        /\ Copying(r) => /\ \A k \in r.todo : f[k] # None
                         /\ r.key # None => f[r.key] # None
        /\ ~r.dry => \A k \in r.inTarget : There(o, k, r.public)
        /\ ~r.dry /\ ~Copying(r) => \A k \in r.todo : There(o, k, r.public)
        /\ r.step = "update" =>
              /\ BucketFor(r.key, r.public) = "public"
              /\ There(o, r.key, r.public)
              /\ \A u \in r.rows : r.seen[u] \in Url /\ r.seen[u].key = r.key

\* Every public address anybody holds is one of an object that is there.
Handed == \A url \in handed : url.at = "public" => object["public"][url.key] # None

AvatarInv ==
    /\ TypeOK
    /\ \A m \in Runs : RunSound(run[m], file, object)
    /\ Handed
    /\ AvatarsResolve

\* Files and objects never vanish, and a file that is complete stays so.
Grows(f, o, f2, o2) ==
    /\ \A k \in Keys : /\ f[k] # None => f2[k] # None
                       /\ f[k] = "full" => f2[k] = "full"
    /\ \A b \in Buckets, k \in Keys : o[b][k] # None => o2[b][k] # None

LEMMA SoundKept ==
    ASSUME NEW r \in RunRecord \cup {Idle}, NEW f, NEW o, NEW f2, NEW o2,
           RunSound(r, f, o), Grows(f, o, f2, o2)
    PROVE  RunSound(r, f2, o2)
<1>1. CASE r = Idle
  BY <1>1 DEF RunSound, Idle
<1>2. CASE r \in RunRecord
  <2>1. \A k \in Keys : There(o, k, r.public) => There(o2, k, r.public)
    BY BucketType DEF Grows, There
  <2>2. r.key # None => r.key \in Keys
    BY <1>2 DEF RunRecord
  <2>3. r.todo \subseteq Keys /\ r.inTarget \subseteq Keys
    BY <1>2 DEF RunRecord
  <2>. QED  BY <2>1, <2>2, <2>3 DEF RunSound, Grows
<1>. QED  BY <1>1, <1>2

\* Only the run that moves has to be looked at.
LEMMA MoverSound ==
    ASSUME TypeOK, \A n \in Runs : RunSound(run[n], file, object),
           NEW m \in Runs, NEW r, Becomes(m, r), Grows(file, object, file', object'),
           r \in RunRecord \cup {Idle}, RunSound(r, file', object')
    PROVE  /\ run' \in [Runs -> RunRecord \cup {Idle}]
           /\ \A n \in Runs : RunSound(run'[n], file', object')
<1>1. run' \in [Runs -> RunRecord \cup {Idle}]
  BY DEF TypeOK, Becomes
<1>2. ASSUME NEW n \in Runs PROVE RunSound(run'[n], file', object')
  <2>1. run'[n] = IF n = m THEN r ELSE run[n]
    BY DEF TypeOK, Becomes
  <2>2. RunSound(run[n], file', object')
    BY SoundKept DEF TypeOK
  <2>. QED  BY <2>1, <2>2
<1>. QED  BY <1>1, <1>2

LEMMA NothingLost == Grows(file, object, file, object)
BY DEF Grows

-----------------------------------------------------------------------------
(* One step of a run, or of the application.                               *)

\* A step of a run that touches neither the stores nor an avatar.
LEMMA RunOnly ==
    ASSUME AvatarInv, NEW m \in Runs, NEW r, Becomes(m, r),
           UNCHANGED <<neon, old, publicBucket, file, object, avatar, handed, changes>>,
           promised' \in SUBSET Keys, faults' \in 0..MaxFaults,
           r \in RunRecord \cup {Idle}, RunSound(r, file, object)
    PROVE  AvatarInv'
<1>1. /\ run' \in [Runs -> RunRecord \cup {Idle}]
      /\ \A n \in Runs : RunSound(run'[n], file', object')
  BY MoverSound, NothingLost DEF AvatarInv
<1>2. TypeOK'
  BY <1>1 DEF AvatarInv, TypeOK
<1>3. Handed' /\ AvatarsResolve'
  BY DEF AvatarInv, Handed, AvatarsResolve
<1>. QED  BY <1>1, <1>2, <1>3 DEF AvatarInv

\* A run that is not idle.
LEMMA Works ==
    ASSUME AvatarInv, NEW m \in Runs, ~At(m, "idle")
    PROVE  run[m] \in RunRecord /\ RunSound(run[m], file, object)
BY DEF AvatarInv, TypeOK, At, Idle

LEMMA StartRunStep ==
    ASSUME AvatarInv, NEW m \in Runs, NEW dry \in BOOLEAN, StartRun(m, dry)
    PROVE  AvatarInv'
<1>. DEFINE listed == {k \in Keys : file[k] # None}
            r == [step |-> "copy", public |-> publicBucket, dry |-> dry,
                  todo |-> listed, key |-> None, size |-> None,
                  rows |-> {}, seen |-> [u \in Users |-> None], inTarget |-> {},
                  whole |-> {k \in listed : file[k] = "full"}, failed |-> FALSE]
<1>1. r \in RunRecord
  BY DEF RunRecord, Steps, AvatarInv, TypeOK
<1>2. RunSound(r, file, object)
  BY DEF RunSound, Copying
<1>3. Becomes(m, r)
  BY DEF StartRun
<1>. HIDE DEF r
<1>. QED  BY <1>1, <1>2, <1>3, RunOnly DEF StartRun, AvatarInv, TypeOK, configuration, stores

LEMMA NextKeyStep ==
    ASSUME AvatarInv, NEW m \in Runs, NextKey(m) PROVE AvatarInv'
<1>. DEFINE r == run[m]
<1>0. r \in RunRecord /\ RunSound(r, file, object) /\ r.step = "copy"
  BY Works DEF NextKey, At
<1>1. ASSUME NEW k \in r.todo,
             Becomes(m, [r EXCEPT !.step = "head", !.todo = @ \ {k}, !.key = k, !.size = file[k]])
      PROVE  AvatarInv'
  <2>. DEFINE r2 == [r EXCEPT !.step = "head", !.todo = @ \ {k}, !.key = k, !.size = file[k]]
  <2>1. k \in Keys /\ file[k] \in Sizes \cup {None} /\ file[k] # None
    BY <1>0, <1>1 DEF AvatarInv, TypeOK, RunRecord, RunSound, Copying
  <2>2. /\ r2 \in RunRecord
        /\ r2.step = "head" /\ r2.todo = r.todo \ {k} /\ r2.key = k /\ r2.size = file[k]
        /\ r2.inTarget = r.inTarget /\ r2.public = r.public /\ r2.dry = r.dry
    BY <1>0, <2>1 DEF RunRecord, Steps
  <2>. HIDE DEF r, r2
  <2>3. RunSound(r2, file, object)
    BY <1>0, <2>1, <2>2, Constants DEF RunSound, Copying
  <2>4. Becomes(m, r2)
    BY <1>1 DEF r2
  <2>. QED  BY <2>2, <2>3, <2>4, RunOnly DEF NextKey, AvatarInv, TypeOK, configuration, stores
<1>2. ASSUME r.todo = {},
             Becomes(m, [r EXCEPT !.step = "rows", !.inTarget = {},
                                  !.todo = r.inTarget \cap Avatars])
      PROVE  AvatarInv'
  <2>. DEFINE r2 == [r EXCEPT !.step = "rows", !.inTarget = {},
                              !.todo = r.inTarget \cap Avatars]
  <2>2. /\ r2 \in RunRecord
        /\ r2.step = "rows" /\ r2.todo = r.inTarget \cap Avatars /\ r2.key = r.key
        /\ r2.inTarget = {} /\ r2.public = r.public /\ r2.dry = r.dry
    BY <1>0 DEF RunRecord, Steps
  <2>. HIDE DEF r, r2
  <2>3. RunSound(r2, file, object)
    BY <1>0, <2>2 DEF RunSound, Copying
  <2>4. Becomes(m, r2)
    BY <1>2 DEF r2
  <2>. QED  BY <2>2, <2>3, <2>4, RunOnly DEF NextKey, AvatarInv, TypeOK, configuration, stores
<1>. QED  BY <1>1, <1>2 DEF NextKey

\* A key counts as copied, in a run that is not a dry one, only when its object is there.
LEMMA CopiedSound ==
    ASSUME NEW r \in RunRecord, NEW f, NEW o, RunSound(r, f, o), Copying(r), r.key # None,
           r.dry \/ There(o, r.key, r.public)
    PROVE  Copied(r) \in RunRecord /\ RunSound(Copied(r), f, o)
<1>1. r.key \in Keys
  BY DEF RunRecord
<1>. QED  BY <1>1, Copied_Fields DEF RunSound, Copying

LEMMA FailedSound ==
    ASSUME NEW r \in RunRecord, NEW f, NEW o, RunSound(r, f, o), Copying(r)
    PROVE  Failed(r) \in RunRecord /\ RunSound(Failed(r), f, o)
BY Failed_Fields DEF RunSound, Copying

LEMMA HeadStep ==
    ASSUME AvatarInv, NEW m \in Runs, Head(m) PROVE AvatarInv'
<1>. DEFINE r == run[m]
            existing == object[BucketFor(r.key, r.public)][r.key]
<1>0. /\ r \in RunRecord /\ RunSound(r, file, object) /\ r.step = "head"
      /\ r.key # None /\ r.key \in Keys /\ r.size # None
  <2>1. r \in RunRecord /\ RunSound(r, file, object) /\ r.step = "head"
    BY Works DEF Head, At
  <2>. QED  BY <2>1 DEF RunSound, RunRecord
<1>1. CASE existing = None /\ Becomes(m, [r EXCEPT !.step = "read"])
  <2>. DEFINE r2 == [r EXCEPT !.step = "read"]
  <2>2. /\ r2 \in RunRecord
        /\ r2.step = "read" /\ r2.todo = r.todo /\ r2.key = r.key
        /\ r2.inTarget = r.inTarget /\ r2.public = r.public /\ r2.dry = r.dry
    BY <1>0 DEF RunRecord, Steps
  <2>. HIDE DEF r, r2
  <2>3. RunSound(r2, file, object)
    BY <1>0, <2>2 DEF RunSound, Copying
  <2>4. Becomes(m, r2)
    BY <1>1 DEF r2
  <2>. QED  BY <2>2, <2>3, <2>4, RunOnly DEF Head, AvatarInv, TypeOK, configuration, stores
<1>2. CASE existing # None /\ Becomes(m, Copied(r))
  <2>. HIDE DEF r
  <2>1. Copied(r) \in RunRecord /\ RunSound(Copied(r), file, object)
    BY <1>0, <1>2, CopiedSound DEF There, Copying
  <2>. QED  BY <2>1, <1>2, RunOnly DEF Head, AvatarInv, TypeOK, configuration, stores
<1>3. CASE Becomes(m, Failed(r))
  <2>. HIDE DEF r
  <2>1. Failed(r) \in RunRecord /\ RunSound(Failed(r), file, object)
    BY <1>0, FailedSound DEF Copying
  <2>. QED  BY <2>1, <1>3, RunOnly DEF Head, AvatarInv, TypeOK, configuration, stores
<1>4. \/ existing = None /\ Becomes(m, [r EXCEPT !.step = "read"])
      \/ existing # None /\ Becomes(m, Copied(r))
      \/ Becomes(m, Failed(r))
  BY DEF Head, SameSize, Present
<1>. QED  BY <1>1, <1>2, <1>3, <1>4

LEMMA ReadFileStep ==
    ASSUME AvatarInv, NEW m \in Runs, ReadFile(m) PROVE AvatarInv'
<1>. DEFINE r == [run[m] EXCEPT !.size = file[run[m].key]]
<1>0. /\ run[m] \in RunRecord /\ RunSound(run[m], file, object) /\ run[m].step = "read"
      /\ run[m].key \in Keys /\ file[run[m].key] \in Sizes
  <2>1. run[m] \in RunRecord /\ RunSound(run[m], file, object) /\ run[m].step = "read"
    BY Works DEF ReadFile, At
  <2>. QED  BY <2>1 DEF RunSound, RunRecord, Copying, AvatarInv, TypeOK
<1>1. /\ r \in RunRecord /\ RunSound(r, file, object)
      /\ r.step = "read" /\ r.key = run[m].key /\ r.key \in Keys
      /\ r.size \in Sizes /\ r.size = file[run[m].key]
  <2>1. /\ r \in RunRecord
        /\ r.step = "read" /\ r.todo = run[m].todo /\ r.key = run[m].key
        /\ r.inTarget = run[m].inTarget /\ r.public = run[m].public /\ r.dry = run[m].dry
        /\ r.size = file[run[m].key]
    BY <1>0 DEF RunRecord, Steps
  <2>2. RunSound(r, file, object)
    BY <1>0, <2>1 DEF RunSound, Copying
  <2>. QED  BY <1>0, <2>1, <2>2
<1>2. CASE r.dry /\ Becomes(m, Copied(r))
  <2>1. Copied(r) \in RunRecord /\ RunSound(Copied(r), file, object)
    <3>. HIDE DEF r
    <3>. QED  BY <1>1, <1>2, CopiedSound, Constants DEF Copying
  <2>. HIDE DEF r
  <2>. QED  BY <2>1, <1>2, RunOnly DEF ReadFile, AvatarInv, TypeOK, configuration, stores
<1>3. CASE ~r.dry /\ Becomes(m, [r EXCEPT !.step = "put"])
  <2>. DEFINE r2 == [r EXCEPT !.step = "put"]
  <2>. HIDE DEF r
  <2>2. /\ r2 \in RunRecord
        /\ r2.step = "put" /\ r2.todo = r.todo /\ r2.key = r.key /\ r2.size = r.size
        /\ r2.inTarget = r.inTarget /\ r2.public = r.public /\ r2.dry = r.dry
    BY <1>1 DEF RunRecord, Steps
  <2>. HIDE DEF r2
  <2>3. RunSound(r2, file, object)
    BY <1>1, <2>2, Constants DEF RunSound, Copying
  <2>4. Becomes(m, r2)
    BY <1>3 DEF r2
  <2>. QED  BY <2>2, <2>3, <2>4, RunOnly DEF ReadFile, AvatarInv, TypeOK, configuration, stores
<1>. QED  BY <1>2, <1>3 DEF ReadFile

LEMMA PutStep ==
    ASSUME AvatarInv, NEW m \in Runs, Put(m) PROVE AvatarInv'
<1>. DEFINE r == run[m]
            b == BucketFor(r.key, r.public)
<1>0. /\ r \in RunRecord /\ RunSound(r, file, object) /\ r.step = "put"
      /\ r.key # None /\ r.key \in Keys /\ r.size \in Sizes /\ r.size # None
      /\ b \in Buckets
  <2>1. r \in RunRecord /\ RunSound(r, file, object) /\ r.step = "put"
    BY Works DEF Put, At
  <2>. QED  BY <2>1, BucketType DEF RunSound, RunRecord
<1>1. /\ object' \in [Buckets -> [Keys -> Sizes \cup {None}]]
      /\ \A c \in Buckets, k \in Keys :
            object'[c][k] = IF c = b /\ k = r.key THEN r.size ELSE object[c][k]
  BY <1>0 DEF Put, AvatarInv, TypeOK
<1>2. Grows(file, object, file', object')
  BY <1>0, <1>1 DEF Grows, Put
<1>3. Copied(r) \in RunRecord /\ RunSound(Copied(r), file', object')
  <2>1. RunSound(r, file', object')
    BY <1>0, <1>2, SoundKept
  <2>2. There(object', r.key, r.public)
    BY <1>0, <1>1 DEF There
  <2>. HIDE DEF r
  <2>. QED  BY <1>0, <2>1, <2>2, CopiedSound DEF Copying
<1>4. Becomes(m, Copied(r)) /\ UNCHANGED <<neon, old, publicBucket, file, avatar, handed,
                                           promised, changes, faults>>
  BY DEF Put, configuration
<1>. HIDE DEF r, b
<1>5. /\ run' \in [Runs -> RunRecord \cup {Idle}]
      /\ \A n \in Runs : RunSound(run'[n], file', object')
  BY <1>2, <1>3, <1>4, MoverSound DEF AvatarInv
<1>6. TypeOK'
  BY <1>1, <1>4, <1>5 DEF AvatarInv, TypeOK
<1>7. \A k \in Keys : object["public"][k] # None => object'["public"][k] # None
  BY <1>2 DEF Grows, Buckets
<1>8. Handed' /\ AvatarsResolve'
  BY <1>4, <1>7 DEF AvatarInv, TypeOK, Handed, AvatarsResolve, Url
<1>. QED  BY <1>5, <1>6, <1>8 DEF AvatarInv

LEMMA NextRowsStep ==
    ASSUME AvatarInv, NEW m \in Runs, NextRows(m) PROVE AvatarInv'
<1>. DEFINE r == run[m]
<1>0. r \in RunRecord /\ RunSound(r, file, object) /\ r.step = "rows" /\ r.key = None
  <2>1. r \in RunRecord /\ RunSound(r, file, object) /\ r.step = "rows"
    BY Works DEF NextRows, At
  <2>. QED  BY <2>1 DEF RunSound
<1>1. PICK k \in r.todo :
         LET url == UrlOf(BucketFor(k, r.public), k)
             rows == {u \in Users : PubliclyReadable(r, k) /\ Repointable(u, k, url)}
         IN  Becomes(m, IF rows = {} \/ r.dry
                        THEN [r EXCEPT !.todo = @ \ {k}]
                        ELSE [r EXCEPT
                                !.step = "update", !.todo = @ \ {k}, !.key = k, !.rows = rows,
                                !.seen = [u \in Users |-> IF u \in rows THEN avatar[u] ELSE None]])
  BY DEF NextRows
<1>. DEFINE url == UrlOf(BucketFor(k, r.public), k)
            rows == {u \in Users : PubliclyReadable(r, k) /\ Repointable(u, k, url)}
            seen == [u \in Users |-> IF u \in rows THEN avatar[u] ELSE None]
            left == [r EXCEPT !.todo = @ \ {k}]
            found == [r EXCEPT !.step = "update", !.todo = @ \ {k}, !.key = k, !.rows = rows,
                               !.seen = seen]
<1>2. k \in Keys
  BY <1>0, <1>1 DEF RunRecord
<1>3. CASE (rows = {} \/ r.dry) /\ Becomes(m, left)
  <2>1. /\ left \in RunRecord
        /\ left.step = "rows" /\ left.todo = r.todo \ {k} /\ left.key = None
        /\ left.inTarget = r.inTarget /\ left.public = r.public /\ left.dry = r.dry
    BY <1>0 DEF RunRecord, Steps
  <2>. HIDE DEF r, left
  <2>2. RunSound(left, file, object)
    BY <1>0, <2>1 DEF RunSound, Copying
  <2>. QED  BY <1>3, <2>1, <2>2, RunOnly DEF NextRows, AvatarInv, TypeOK, configuration, stores
<1>4. CASE rows # {} /\ ~r.dry /\ Becomes(m, found)
  <2>1. rows \in SUBSET Users /\ seen \in [Users -> Url \cup {None}]
    BY DEF Repointable
  <2>2. \A u \in rows : seen[u] \in Url /\ seen[u].key = k
    BY DEF Repointable
  <2>3. BucketFor(k, r.public) = "public"
    BY <1>4 DEF PubliclyReadable
  <2>. HIDE DEF rows, seen
  <2>4. /\ found \in RunRecord
        /\ found.step = "update" /\ found.todo = r.todo \ {k} /\ found.key = k
        /\ found.rows = rows /\ found.seen = seen
        /\ found.inTarget = r.inTarget /\ found.public = r.public /\ found.dry = r.dry
    BY <1>0, <1>2, <2>1 DEF RunRecord, Steps
  <2>5. There(object, k, r.public)
    BY <1>0, <1>1, <1>4 DEF RunSound, Copying
  <2>. HIDE DEF r, found
  <2>6. RunSound(found, file, object)
    BY <1>0, <1>2, <1>4, <2>2, <2>3, <2>4, <2>5, Constants DEF RunSound, Copying
  <2>. QED  BY <1>4, <2>4, <2>6, RunOnly DEF NextRows, AvatarInv, TypeOK, configuration, stores
<1>. QED  BY <1>1, <1>3, <1>4

LEMMA RowsDoneSound ==
    ASSUME NEW r \in RunRecord, NEW f, NEW o, RunSound(r, f, o), r.step = "update"
    PROVE  RowsDone(r) \in RunRecord /\ RunSound(RowsDone(r), f, o)
BY RowsDone_Fields DEF RunSound, Copying

\* What an update may do to a row: move an avatar that names the same key into the
\* public bucket, where its object is.
LEMMA UpdateMoves ==
    ASSUME AvatarInv, NEW m \in Runs, Update(m)
    PROVE  /\ avatar' \in [Users -> Url \cup {External, None}]
           /\ \A u \in Users : avatar'[u] # avatar[u] =>
                 /\ avatar[u] \in Url /\ avatar'[u] \in Url
                 /\ avatar'[u].key = avatar[u].key
                 /\ object["public"][avatar'[u].key] # None
<1>. DEFINE r == run[m]
<1>0. r \in RunRecord /\ RunSound(r, file, object) /\ r.step = "update"
  BY Works DEF Update, At
<1>1. /\ r.key \in Keys
      /\ BucketFor(r.key, r.public) = "public" /\ object["public"][r.key] # None
      /\ \A u \in r.rows : r.seen[u] \in Url /\ r.seen[u].key = r.key
  BY <1>0 DEF RunSound, RunRecord, There
<1>. DEFINE url == UrlOf(BucketFor(r.key, r.public), r.key)
<1>2. url \in Url /\ url.key = r.key
  BY <1>1, UrlType
<1>3. /\ avatar' \in [Users -> Url \cup {External, None}]
      /\ \A u \in Users : avatar'[u] = avatar[u]
                          \/ (u \in r.rows /\ avatar[u] = r.seen[u] /\ avatar'[u] = url)
  BY <1>2 DEF Update, StillSeen, AvatarInv, TypeOK
<1>. HIDE DEF url
<1>. QED  BY <1>1, <1>2, <1>3

LEMMA UpdateStep ==
    ASSUME AvatarInv, NEW m \in Runs, Update(m) PROVE AvatarInv'
<1>. DEFINE r == run[m]
<1>0. r \in RunRecord /\ RunSound(r, file, object) /\ r.step = "update"
  BY Works DEF Update, At
<1>1. /\ Becomes(m, RowsDone(r))
      /\ UNCHANGED <<neon, old, publicBucket, file, object, handed, promised, changes, faults>>
  BY DEF Update, configuration, stores
<1>. HIDE DEF r
<1>2. RowsDone(r) \in RunRecord /\ RunSound(RowsDone(r), file', object')
  BY <1>0, <1>1, RowsDoneSound
<1>3. /\ run' \in [Runs -> RunRecord \cup {Idle}]
      /\ \A n \in Runs : RunSound(run'[n], file', object')
  BY <1>1, <1>2, MoverSound, NothingLost DEF AvatarInv
<1>4. TypeOK'
  BY <1>1, <1>3, UpdateMoves DEF AvatarInv, TypeOK
<1>5. Handed'
  BY <1>1 DEF AvatarInv, Handed
<1>6. AvatarsResolve'
  BY <1>1, UpdateMoves DEF AvatarInv, AvatarsResolve
<1>. QED  BY <1>3, <1>4, <1>5, <1>6 DEF AvatarInv

LEMMA IdleSound ==
    ASSUME NEW f, NEW o PROVE RunSound(Idle, f, o)
BY DEF RunSound, Idle

LEMMA FinishStep ==
    ASSUME AvatarInv, NEW m \in Runs, Finish(m) PROVE AvatarInv'
<1>1. run[m] \in RunRecord
  BY Works DEF Finish, At
<1>2. promised' \in SUBSET Keys
  BY <1>1 DEF Finish, AvatarInv, TypeOK, RunRecord
<1>. QED  BY <1>2, IdleSound, RunOnly DEF Finish, AvatarInv, TypeOK, configuration, stores

LEMMA KilledStep ==
    ASSUME AvatarInv, NEW m \in Runs, Killed(m) PROVE AvatarInv'
<1>1. faults' \in 0..MaxFaults
  BY Constants DEF Killed, AvatarInv, TypeOK
<1>. QED  BY <1>1, IdleSound, RunOnly DEF Killed, AvatarInv, TypeOK, configuration, stores

LEMMA CallFailsStep ==
    ASSUME AvatarInv, NEW m \in Runs, CallFails(m) PROVE AvatarInv'
<1>. DEFINE r == run[m]
<1>0. /\ r \in RunRecord /\ RunSound(r, file, object)
      /\ r.step \in {"head", "read", "put", "update"}
  BY Works DEF CallFails, At
<1>1. /\ faults' \in 0..MaxFaults
      /\ UNCHANGED <<neon, old, publicBucket, file, object, avatar, handed, changes, promised>>
  BY Constants DEF CallFails, AvatarInv, TypeOK, configuration, stores
<1>2. CASE r.step \in {"head", "read", "put"} /\ Becomes(m, Failed(r))
  <2>. HIDE DEF r
  <2>1. Failed(r) \in RunRecord /\ RunSound(Failed(r), file, object)
    BY <1>0, <1>2, FailedSound DEF Copying
  <2>. QED  BY <1>1, <1>2, <2>1, RunOnly DEF AvatarInv, TypeOK
<1>3. CASE r.step = "update" /\ Becomes(m, [RowsDone(r) EXCEPT !.failed = TRUE])
  <2>. DEFINE r2 == [RowsDone(r) EXCEPT !.failed = TRUE]
  <2>. HIDE DEF r
  <2>1. RowsDone(r) \in RunRecord /\ RunSound(RowsDone(r), file, object)
    BY <1>0, <1>3, RowsDoneSound
  <2>2. /\ r2 \in RunRecord
        /\ r2.step = RowsDone(r).step /\ r2.todo = RowsDone(r).todo /\ r2.key = RowsDone(r).key
        /\ r2.inTarget = RowsDone(r).inTarget /\ r2.public = RowsDone(r).public
        /\ r2.dry = RowsDone(r).dry /\ r2.size = RowsDone(r).size
    BY <2>1 DEF RunRecord, Steps
  <2>3. RowsDone(r).step = "rows"
    BY <1>0, RowsDone_Fields
  <2>. HIDE DEF r2
  <2>4. RunSound(r2, file, object)
    BY <2>1, <2>2, <2>3 DEF RunSound, Copying
  <2>5. Becomes(m, r2)
    BY <1>3 DEF r2
  <2>. QED  BY <1>1, <2>2, <2>4, <2>5, RunOnly DEF AvatarInv, TypeOK
<1>. QED  BY <1>2, <1>3 DEF CallFails, At

\* The application adds files, objects and the addresses it answers for them.
LEMMA ApplicationGrows ==
    ASSUME TypeOK, Application
    PROVE  /\ Grows(file, object, file', object')
           /\ run' = run /\ promised' = promised /\ faults' = faults
           /\ \A b \in Buckets, k \in Keys : object[b][k] = "full" => object'[b][k] = "full"
<1>1. ASSUME NEW k \in Keys, LocalUpload(k) \/ LocalUploaded(k)
      PROVE  /\ Grows(file, object, file', object')
             /\ run' = run /\ promised' = promised /\ faults' = faults /\ object' = object
  BY <1>1, Constants DEF TypeOK, LocalUpload, LocalUploaded, Unused, Grows, Sizes
<1>2. ASSUME NEW k \in Keys, NeonUpload(k)
      PROVE  /\ Grows(file, object, file', object')
             /\ run' = run /\ promised' = promised /\ faults' = faults
             /\ \A b \in Buckets, j \in Keys : object[b][j] = "full" => object'[b][j] = "full"
  BY <1>2, Constants DEF TypeOK, NeonUpload, Unused, Grows, Sizes
<1>3. ASSUME NEW u \in Users, NEW url, SetAvatar(u, url)
      PROVE  UNCHANGED <<file, object, run, promised, faults>>
  BY <1>3 DEF SetAvatar, configuration, stores
<1>4. ASSUME Deploy \/ OldExits \/ SetPublicBucket
      PROVE  UNCHANGED <<file, object, run, promised, faults>>
  BY <1>4 DEF Deploy, OldExits, SetPublicBucket, stores
<1>. QED  BY <1>1, <1>2, <1>3, <1>4, NothingLost DEF Application

LEMMA ApplicationStep ==
    ASSUME AvatarInv, Application PROVE AvatarInv'
<1>1. /\ Grows(file, object, file', object')
      /\ run' = run /\ promised' = promised /\ faults' = faults
  BY ApplicationGrows DEF AvatarInv
<1>2. \A n \in Runs : RunSound(run'[n], file', object')
  BY <1>1, SoundKept DEF AvatarInv, TypeOK
<1>3. \A k \in Keys : object["public"][k] # None => object'["public"][k] # None
  BY <1>1 DEF Grows, Buckets
<1>4. TypeOK' /\ Handed' /\ AvatarsResolve'
  <2>1. ASSUME NEW k \in Keys, LocalUpload(k) \/ LocalUploaded(k)
        PROVE  TypeOK' /\ Handed' /\ AvatarsResolve'
    <3>1. /\ file' \in [Keys -> Sizes \cup {None}]
          /\ handed' \in SUBSET Url
          /\ handed' \in {handed, handed \cup {UrlOf("local", k)}}
          /\ UNCHANGED <<neon, old, publicBucket, object, avatar, changes>>
      BY <2>1, LocalUrlType DEF LocalUpload, LocalUploaded, AvatarInv, TypeOK, Sizes, configuration
    <3>2. TypeOK'
      BY <1>1, <3>1 DEF AvatarInv, TypeOK
    <3>3. Handed'
      BY <3>1, LocalUrlType DEF AvatarInv, Handed
    <3>4. AvatarsResolve'
      BY <3>1 DEF AvatarInv, AvatarsResolve
    <3>. QED  BY <3>2, <3>3, <3>4
  <2>2. ASSUME NEW k \in Keys, NeonUpload(k)
        PROVE  TypeOK' /\ Handed' /\ AvatarsResolve'
    <3>. DEFINE b == BucketFor(k, publicBucket)
                url == UrlOf(b, k)
    <3>1. b \in Buckets /\ url \in Url /\ url.at = b /\ url.key = k
      BY BucketType, UrlType
    <3>2. /\ object' = [object EXCEPT ![b][k] = "full"] /\ handed' = handed \cup {url}
          /\ UNCHANGED <<neon, old, publicBucket, file, avatar, changes>>
      BY <2>2 DEF NeonUpload, configuration
    <3>. HIDE DEF b, url
    <3>3. /\ object' \in [Buckets -> [Keys -> Sizes \cup {None}]]
          /\ object'[b][k] = "full"
      BY <3>1, <3>2 DEF AvatarInv, TypeOK, Sizes
    <3>4. TypeOK'
      BY <1>1, <3>1, <3>2, <3>3 DEF AvatarInv, TypeOK
    <3>5. \A x \in handed : x.at = "public" => object'["public"][x.key] # None
      BY <1>3 DEF AvatarInv, TypeOK, Handed, Url
    <3>6. url.at = "public" => object'["public"][url.key] # None
      BY <3>1, <3>3, Constants DEF Sizes
    <3>7. Handed'
      BY <3>2, <3>5, <3>6 DEF Handed
    <3>8. AvatarsResolve'
      BY <1>3, <3>2 DEF AvatarInv, TypeOK, AvatarsResolve, Url
    <3>. QED  BY <3>4, <3>7, <3>8
  <2>3. ASSUME NEW u \in Users, NEW url \in handed \cup {External}, SetAvatar(u, url)
        PROVE  TypeOK' /\ Handed' /\ AvatarsResolve'
    <3>1. /\ avatar' \in [Users -> Url \cup {External, None}]
          /\ avatar' = [avatar EXCEPT ![u] = url]
          /\ changes' \in 0..MaxChanges
          /\ UNCHANGED <<neon, old, publicBucket, file, object, handed>>
      BY <2>3, Constants DEF SetAvatar, AvatarInv, TypeOK, configuration, stores
    <3>2. TypeOK'
      BY <1>1, <3>1 DEF AvatarInv, TypeOK
    <3>3. Handed'
      BY <3>1 DEF AvatarInv, Handed
    <3>4. AvatarsResolve'
      BY <3>1, Constants DEF AvatarInv, TypeOK, Handed, AvatarsResolve
    <3>. QED  BY <3>2, <3>3, <3>4
  <2>4. ASSUME Deploy \/ OldExits \/ SetPublicBucket
        PROVE  TypeOK' /\ Handed' /\ AvatarsResolve'
    <3>1. /\ {neon', old', publicBucket'} \subseteq BOOLEAN
          /\ UNCHANGED <<file, object, avatar, handed, changes>>
      BY <2>4 DEF Deploy, OldExits, SetPublicBucket, stores, AvatarInv, TypeOK
    <3>. QED  BY <1>1, <3>1 DEF AvatarInv, TypeOK, Handed, AvatarsResolve
  <2>. QED  BY <2>1, <2>2, <2>3, <2>4 DEF Application
<1>. QED  BY <1>2, <1>4 DEF AvatarInv

LEMMA AvatarInit == Init => AvatarInv
<1>. SUFFICES ASSUME Init PROVE AvatarInv
  OBVIOUS
<1>1. TypeOK
  <2>1. {neon, old, publicBucket} \subseteq BOOLEAN
    BY DEF Init
  <2>2. /\ file \in [Keys -> Sizes \cup {None}]
        /\ object \in [Buckets -> [Keys -> Sizes \cup {None}]]
        /\ avatar \in [Users -> Url \cup {External, None}]
        /\ run \in [Runs -> RunRecord \cup {Idle}]
        /\ handed \in SUBSET Url /\ promised \in SUBSET Keys
    BY DEF Init
  <2>3. changes \in 0..MaxChanges /\ faults \in 0..MaxFaults
    BY Constants DEF Init
  <2>. QED  BY <2>1, <2>2, <2>3 DEF TypeOK
<1>2. \A m \in Runs : RunSound(run[m], file, object)
  BY IdleSound DEF Init
<1>3. Handed /\ AvatarsResolve
  BY Constants DEF Init, Handed, AvatarsResolve
<1>. QED  BY <1>1, <1>2, <1>3 DEF AvatarInv

LEMMA AvatarStep == AvatarInv /\ [Next]_vars => AvatarInv'
<1>. SUFFICES ASSUME AvatarInv, [Next]_vars PROVE AvatarInv'
  OBVIOUS
<1>1. CASE Application
  BY <1>1, ApplicationStep
<1>2. ASSUME NEW m \in Runs, NEW dry \in BOOLEAN, StartRun(m, dry) PROVE AvatarInv'
  BY <1>2, StartRunStep
<1>3. ASSUME NEW m \in Runs, Proceed(m) PROVE AvatarInv'
  BY <1>3, NextKeyStep, HeadStep, ReadFileStep, PutStep, NextRowsStep, UpdateStep, FinishStep
     DEF Proceed
<1>4. ASSUME NEW m \in Runs, CallFails(m) \/ Killed(m) PROVE AvatarInv'
  BY <1>4, CallFailsStep, KilledStep
<1>5. CASE UNCHANGED vars
  BY <1>5 DEF vars, AvatarInv, TypeOK, Handed, AvatarsResolve
<1>. QED  BY <1>1, <1>2, <1>3, <1>4, <1>5 DEF Next, Migration

-----------------------------------------------------------------------------
(* Theorems for any number of runs at a time.                              *)

\* Every variable stays in its type, whatever runs, uploads and failures interleave
\* (cli/migrate-local-storage.ts).
THEOREM TypeCorrect == Spec => []TypeOK
<1>1. AvatarInv => TypeOK
  BY DEF AvatarInv
<1>. QED  BY <1>1, AvatarInit, AvatarStep, PTL DEF Spec

\* An avatar address in the public bucket is one of an object that is there, however
\* many runs of the migration overlap, fail or are killed, and whatever users set
\* meanwhile (cli/migrate-local-storage.ts, copyOne and repointAvatars).
THEOREM AvatarsResolveAlways == Spec => []AvatarsResolve
<1>1. AvatarInv => AvatarsResolve
  BY DEF AvatarInv
<1>. QED  BY <1>1, AvatarInit, AvatarStep, PTL DEF Spec

\* A step that is not a user's never changes which avatar a user has: the compare and
\* set of repointAvatars only moves an address that still names the key it read.
THEOREM OwnAvatarKeptAlways == Spec => OwnAvatarKept
<1>. DEFINE Keeps == \A u \in Users :
                        avatar'[u] # avatar[u] /\ changes' = changes =>
                            avatar[u] \in Url /\ avatar'[u].key = avatar[u].key
<1>1. AvatarInv /\ [Next]_vars => [Keeps]_vars
  <2>. SUFFICES ASSUME AvatarInv, Next PROVE Keeps
    BY DEF vars
  <2>1. ASSUME NEW m \in Runs, Update(m) PROVE Keeps
    BY <2>1, UpdateMoves
  <2>2. ASSUME NEW u \in Users, NEW url, SetAvatar(u, url) PROVE Keeps
    <3>1. changes \in Nat /\ changes' = changes + 1
      BY <2>2 DEF SetAvatar, AvatarInv, TypeOK
    <3>2. changes' # changes
      BY <3>1
    <3>. QED  BY <3>2
  <2>3. ASSUME UNCHANGED avatar PROVE Keeps
    BY <2>3
  <2>. QED
    BY <2>1, <2>2, <2>3
    DEF Next, Application, Migration, Proceed, LocalUpload, LocalUploaded, NeonUpload, Deploy,
        OldExits, SetPublicBucket, StartRun, NextKey, Head, ReadFile, Put, NextRows, Finish,
        CallFails, Killed
<1>. QED  BY <1>1, AvatarInit, AvatarStep, PTL DEF Spec, OwnAvatarKept

-----------------------------------------------------------------------------
(* The promise of a run that ends "Done."                                  *)

\* Runs do not overlap.
OneAtATime == \A m, n \in Runs : m = n

Kept(o, k) == \E b \in Buckets : o[b][k] = "full"

\* A file that was complete when a run listed it is still, so the run holds all of it
\* whenever it compares or uploads it; and so it does with a file promised before.
\* A run that has not failed has yet to come to a file, or the file is in a bucket.
PromiseSound(r, f, o, p) ==
    r.step # "idle" =>
        /\ \A k \in r.whole : f[k] = "full"
        /\ r.step = "head" /\ r.key \in r.whole => r.size = "full"
        /\ r.step = "put" /\ r.key \in r.whole \cup p => r.size = "full"
        /\ ~r.dry /\ ~r.failed =>
              \A k \in r.whole : Kept(o, k) \/ (Copying(r) /\ k \in r.todo \cup {r.key})

PromiseInv ==
    /\ AvatarInv
    /\ \A m \in Runs : PromiseSound(run[m], file, object, promised)
    /\ \A k \in promised : file[k] = "full" /\ Kept(object, k)

\* While the stores and the promise stay, only the run that moves has to be looked at.
LEMMA PromiseMover ==
    ASSUME OneAtATime, PromiseInv, AvatarInv', NEW m \in Runs, NEW r, Becomes(m, r),
           UNCHANGED <<file, object, promised>>, PromiseSound(r, file, object, promised)
    PROVE  PromiseInv'
<1>1. run'[m] = r /\ \A n \in Runs : n = m
  BY DEF OneAtATime, Becomes, PromiseInv, AvatarInv, TypeOK
<1>2. \A n \in Runs : PromiseSound(run'[n], file', object', promised')
  BY <1>1
<1>3. \A k \in promised' : file'[k] = "full" /\ Kept(object', k)
  BY DEF PromiseInv
<1>. QED  BY <1>2, <1>3 DEF PromiseInv

\* A key a run has dealt with is in a bucket, unless the run reports a failure.
LEMMA CopiedPromise ==
    ASSUME NEW r \in RunRecord, NEW f, NEW o, NEW p, PromiseSound(r, f, o, p),
           Copying(r), r.key \in Keys, r.dry \/ (r.key \in r.whole => Kept(o, r.key))
    PROVE  PromiseSound(Copied(r), f, o, p)
BY Copied_Fields DEF PromiseSound, Copying

LEMMA FailedPromise ==
    ASSUME NEW r \in RunRecord, NEW f, NEW o, NEW p, PromiseSound(r, f, o, p), Copying(r)
    PROVE  PromiseSound(Failed(r), f, o, p)
BY Failed_Fields DEF PromiseSound, Copying

LEMMA IdlePromise ==
    ASSUME NEW f, NEW o, NEW p PROVE PromiseSound(Idle, f, o, p)
BY DEF PromiseSound, Idle

LEMMA PromiseWorks ==
    ASSUME PromiseInv, NEW m \in Runs, ~At(m, "idle")
    PROVE  /\ run[m] \in RunRecord
           /\ RunSound(run[m], file, object)
           /\ PromiseSound(run[m], file, object, promised)
           /\ run[m].key # None <=> run[m].step \in {"head", "read", "put", "update"}
           /\ run[m].key # None => run[m].key \in Keys
BY Works DEF PromiseInv, At, RunSound, RunRecord

LEMMA PromiseListing ==
    ASSUME OneAtATime, PromiseInv, AvatarInv', NEW m \in Runs,
           (\E dry \in BOOLEAN : StartRun(m, dry)) \/ NextKey(m)
    PROVE  PromiseInv'
<1>1. ASSUME NEW dry \in BOOLEAN, StartRun(m, dry) PROVE PromiseInv'
  <2>. DEFINE listed == {k \in Keys : file[k] # None}
              r == [step |-> "copy", public |-> publicBucket, dry |-> dry,
                    todo |-> listed, key |-> None, size |-> None,
                    rows |-> {}, seen |-> [u \in Users |-> None], inTarget |-> {},
                    whole |-> {k \in listed : file[k] = "full"}, failed |-> FALSE]
  <2>1. PromiseSound(r, file, object, promised)
    BY DEF PromiseSound, Copying
  <2>2. Becomes(m, r)
    BY <1>1 DEF StartRun
  <2>. HIDE DEF r
  <2>. QED  BY <1>1, <2>1, <2>2, PromiseMover DEF StartRun, stores
<1>2. ASSUME NextKey(m) PROVE PromiseInv'
  <2>. DEFINE r == run[m]
  <2>0. /\ r \in RunRecord /\ PromiseSound(r, file, object, promised)
        /\ r.step = "copy" /\ r.key = None /\ r.whole \subseteq Keys
    BY <1>2, PromiseWorks DEF NextKey, At, RunRecord
  <2>1. ASSUME NEW k \in r.todo,
               Becomes(m, [r EXCEPT !.step = "head", !.todo = @ \ {k}, !.key = k, !.size = file[k]])
        PROVE  PromiseInv'
    <3>. DEFINE r2 == [r EXCEPT !.step = "head", !.todo = @ \ {k}, !.key = k, !.size = file[k]]
    <3>1. /\ r2.step = "head" /\ r2.todo = r.todo \ {k} /\ r2.key = k /\ r2.size = file[k]
          /\ r2.whole = r.whole /\ r2.dry = r.dry /\ r2.failed = r.failed
      BY <2>0 DEF RunRecord
    <3>. HIDE DEF r, r2
    <3>2. PromiseSound(r2, file, object, promised)
      BY <2>0, <3>1, Constants DEF PromiseSound, Copying
    <3>3. Becomes(m, r2)
      BY <2>1 DEF r2
    <3>. QED  BY <1>2, <3>2, <3>3, PromiseMover DEF NextKey, stores
  <2>2. ASSUME r.todo = {},
               Becomes(m, [r EXCEPT !.step = "rows", !.inTarget = {},
                                    !.todo = r.inTarget \cap Avatars])
        PROVE  PromiseInv'
    <3>. DEFINE r2 == [r EXCEPT !.step = "rows", !.inTarget = {},
                                !.todo = r.inTarget \cap Avatars]
    <3>1. /\ r2.step = "rows" /\ r2.key = None
          /\ r2.whole = r.whole /\ r2.dry = r.dry /\ r2.failed = r.failed
      BY <2>0 DEF RunRecord
    <3>. HIDE DEF r, r2
    <3>2. PromiseSound(r2, file, object, promised)
      BY <2>0, <2>2, <3>1, Constants DEF PromiseSound, Copying
    <3>3. Becomes(m, r2)
      BY <2>2 DEF r2
    <3>. QED  BY <1>2, <3>2, <3>3, PromiseMover DEF NextKey, stores
  <2>. QED  BY <1>2, <2>1, <2>2 DEF NextKey
<1>. QED  BY <1>1, <1>2

LEMMA PromiseHead ==
    ASSUME OneAtATime, PromiseInv, AvatarInv', NEW m \in Runs, Head(m)
    PROVE  PromiseInv'
<1>. DEFINE r == run[m]
            existing == object[BucketFor(r.key, r.public)][r.key]
<1>0. /\ r \in RunRecord /\ PromiseSound(r, file, object, promised)
      /\ r.step = "head" /\ r.key \in Keys
  BY PromiseWorks DEF Head, At
<1>1. CASE Becomes(m, [r EXCEPT !.step = "read"])
  <2>. DEFINE r2 == [r EXCEPT !.step = "read"]
  <2>1. /\ r2.step = "read" /\ r2.todo = r.todo /\ r2.key = r.key
        /\ r2.whole = r.whole /\ r2.dry = r.dry /\ r2.failed = r.failed
    BY <1>0 DEF RunRecord
  <2>. HIDE DEF r, r2
  <2>2. PromiseSound(r2, file, object, promised)
    BY <1>0, <2>1 DEF PromiseSound, Copying
  <2>3. Becomes(m, r2)
    BY <1>1 DEF r2
  <2>. QED  BY <2>2, <2>3, PromiseMover DEF Head, stores
<1>2. CASE existing = r.size /\ Becomes(m, Copied(r))
  <2>1. r.key \in r.whole => Kept(object, r.key)
    BY <1>0, <1>2, BucketType DEF PromiseSound, Kept
  <2>. HIDE DEF r
  <2>2. PromiseSound(Copied(r), file, object, promised)
    BY <1>0, <2>1, CopiedPromise DEF Copying
  <2>. QED  BY <1>2, <2>2, PromiseMover DEF Head, stores
<1>3. CASE Becomes(m, Failed(r))
  <2>. HIDE DEF r
  <2>1. PromiseSound(Failed(r), file, object, promised)
    BY <1>0, FailedPromise DEF Copying
  <2>. QED  BY <1>3, <2>1, PromiseMover DEF Head, stores
<1>4. \/ Becomes(m, [r EXCEPT !.step = "read"])
      \/ existing = r.size /\ Becomes(m, Copied(r))
      \/ Becomes(m, Failed(r))
  BY DEF Head, SameSize, Present
<1>. QED  BY <1>1, <1>2, <1>3, <1>4

LEMMA PromiseRead ==
    ASSUME OneAtATime, PromiseInv, AvatarInv', NEW m \in Runs, ReadFile(m)
    PROVE  PromiseInv'
<1>. DEFINE r == [run[m] EXCEPT !.size = file[run[m].key]]
<1>0. /\ run[m] \in RunRecord /\ PromiseSound(run[m], file, object, promised)
      /\ run[m].step = "read" /\ run[m].key \in Keys
  BY PromiseWorks DEF ReadFile, At
<1>1. /\ r \in RunRecord /\ r.step = "read" /\ r.key = run[m].key /\ r.todo = run[m].todo
      /\ r.size = file[run[m].key]
      /\ r.whole = run[m].whole /\ r.dry = run[m].dry /\ r.failed = run[m].failed
  BY <1>0 DEF RunRecord, PromiseInv, AvatarInv, TypeOK
<1>2. CASE r.dry /\ Becomes(m, Copied(r))
  <2>. HIDE DEF r
  <2>1. PromiseSound(r, file, object, promised)
    BY <1>0, <1>1 DEF PromiseSound, Copying
  <2>2. PromiseSound(Copied(r), file, object, promised)
    BY <1>0, <1>1, <1>2, <2>1, CopiedPromise DEF Copying
  <2>. QED  BY <1>2, <2>2, PromiseMover DEF ReadFile, stores
<1>3. CASE Becomes(m, [r EXCEPT !.step = "put"])
  <2>. DEFINE r2 == [r EXCEPT !.step = "put"]
  <2>. HIDE DEF r
  <2>1. /\ r2.step = "put" /\ r2.todo = r.todo /\ r2.key = r.key /\ r2.size = r.size
        /\ r2.whole = r.whole /\ r2.dry = r.dry /\ r2.failed = r.failed
    BY <1>1 DEF RunRecord
  <2>. HIDE DEF r2
  <2>2. r2.key \in r2.whole \cup promised => r2.size = "full"
    BY <1>0, <1>1, <2>1 DEF PromiseInv, PromiseSound
  <2>3. PromiseSound(r2, file, object, promised)
    BY <1>0, <1>1, <2>1, <2>2 DEF PromiseSound, Copying
  <2>4. Becomes(m, r2)
    BY <1>3 DEF r2
  <2>. QED  BY <2>3, <2>4, PromiseMover DEF ReadFile, stores
<1>. QED  BY <1>2, <1>3 DEF ReadFile

\* What is put over an object is all of the file, when the file was promised or was
\* complete when the run listed it.
LEMMA PromisePut ==
    ASSUME OneAtATime, PromiseInv, AvatarInv', NEW m \in Runs, Put(m)
    PROVE  PromiseInv'
<1>. DEFINE r == run[m]
            b == BucketFor(r.key, r.public)
<1>0. /\ r \in RunRecord /\ PromiseSound(r, file, object, promised)
      /\ r.step = "put" /\ r.key \in Keys /\ b \in Buckets
  BY PromiseWorks, BucketType DEF Put, At
<1>1. \A c \in Buckets, k \in Keys :
            object'[c][k] = IF c = b /\ k = r.key THEN r.size ELSE object[c][k]
  BY <1>0 DEF Put, PromiseInv, AvatarInv, TypeOK
<1>2. \A k \in Keys : Kept(object, k) /\ (k = r.key => r.size = "full") => Kept(object', k)
  BY <1>0, <1>1 DEF Kept
<1>3. r.key \in r.whole => Kept(object', r.key)
  BY <1>0, <1>1 DEF Kept, PromiseSound
<1>4. Becomes(m, Copied(r)) /\ UNCHANGED <<file, promised>>
  BY DEF Put
<1>5. r.whole \subseteq Keys /\ promised \subseteq Keys
  BY <1>0 DEF RunRecord, PromiseInv, AvatarInv, TypeOK
<1>. HIDE DEF r, b
<1>6. PromiseSound(r, file', object', promised')
  BY <1>0, <1>2, <1>3, <1>4, <1>5 DEF PromiseSound, Copying
<1>7. PromiseSound(Copied(r), file', object', promised')
  BY <1>0, <1>3, <1>6, CopiedPromise DEF Copying
<1>8. run'[m] = Copied(r) /\ \A n \in Runs : n = m
  BY <1>4 DEF OneAtATime, Becomes, PromiseInv, AvatarInv, TypeOK
<1>9. \A n \in Runs : PromiseSound(run'[n], file', object', promised')
  BY <1>7, <1>8
<1>10. \A k \in promised' : file'[k] = "full" /\ Kept(object', k)
  BY <1>0, <1>2, <1>4, <1>5 DEF PromiseInv, PromiseSound
<1>. QED  BY <1>9, <1>10 DEF PromiseInv

LEMMA PromiseRows ==
    ASSUME OneAtATime, PromiseInv, AvatarInv', NEW m \in Runs, NextRows(m) \/ Update(m)
    PROVE  PromiseInv'
<1>. DEFINE r == run[m]
<1>0. /\ r \in RunRecord /\ PromiseSound(r, file, object, promised)
      /\ r.step \in {"rows", "update"}
  BY PromiseWorks DEF NextRows, Update, At
<1>1. ASSUME NEW q, Becomes(m, q), q.whole = r.whole, q.dry = r.dry, q.failed = r.failed,
             q.step \in {"rows", "update"}
      PROVE  PromiseInv'
  <2>. HIDE DEF r
  <2>1. PromiseSound(q, file, object, promised)
    BY <1>0, <1>1 DEF PromiseSound, Copying
  <2>. QED  BY <1>1, <2>1, PromiseMover DEF NextRows, Update, stores
<1>2. CASE NextRows(m)
  <2>1. PICK k \in r.todo, rows \in SUBSET Users :
           \/ Becomes(m, [r EXCEPT !.todo = @ \ {k}])
           \/ \E seen : Becomes(m, [r EXCEPT !.step = "update", !.todo = @ \ {k}, !.key = k,
                                            !.rows = rows, !.seen = seen])
    BY <1>2 DEF NextRows
  <2>2. ASSUME Becomes(m, [r EXCEPT !.todo = @ \ {k}]) PROVE PromiseInv'
    <3>. DEFINE q == [r EXCEPT !.todo = @ \ {k}]
    <3>1. q.whole = r.whole /\ q.dry = r.dry /\ q.failed = r.failed /\ q.step = "rows"
      BY <1>0, <1>2 DEF RunRecord, NextRows, At
    <3>. QED  BY <2>2, <3>1, <1>1
  <2>3. ASSUME NEW seen,
               Becomes(m, [r EXCEPT !.step = "update", !.todo = @ \ {k}, !.key = k,
                                    !.rows = rows, !.seen = seen])
        PROVE  PromiseInv'
    <3>. DEFINE q == [r EXCEPT !.step = "update", !.todo = @ \ {k}, !.key = k,
                               !.rows = rows, !.seen = seen]
    <3>1. q.whole = r.whole /\ q.dry = r.dry /\ q.failed = r.failed /\ q.step = "update"
      BY <1>0 DEF RunRecord
    <3>. QED  BY <2>3, <3>1, <1>1
  <2>. QED  BY <2>1, <2>2, <2>3
<1>3. CASE Update(m)
  BY <1>0, <1>1, <1>3, RowsDone_Fields DEF Update
<1>. QED  BY <1>2, <1>3

LEMMA PromiseFinish ==
    ASSUME OneAtATime, PromiseInv, AvatarInv', NEW m \in Runs, Finish(m)
    PROVE  PromiseInv'
<1>. DEFINE r == run[m]
<1>0. /\ r \in RunRecord /\ PromiseSound(r, file, object, promised) /\ r.step = "rows"
  BY PromiseWorks DEF Finish, At
<1>1. UNCHANGED <<file, object>>
  BY DEF Finish, stores
<1>2. \A n \in Runs : PromiseSound(run'[n], file', object', promised')
  <2>1. run'[m] = Idle /\ \A n \in Runs : n = m
    BY DEF Finish, OneAtATime, Becomes, PromiseInv, AvatarInv, TypeOK
  <2>. QED  BY <2>1, IdlePromise
<1>3. \A k \in promised' : file[k] = "full" /\ Kept(object, k)
  BY <1>0 DEF Finish, PromiseInv, PromiseSound, Copying
<1>. QED  BY <1>1, <1>2, <1>3 DEF PromiseInv

LEMMA PromiseFails ==
    ASSUME OneAtATime, PromiseInv, AvatarInv', NEW m \in Runs, CallFails(m) \/ Killed(m)
    PROVE  PromiseInv'
<1>. DEFINE r == run[m]
<1>0. r \in RunRecord /\ PromiseSound(r, file, object, promised)
  BY PromiseWorks DEF CallFails, Killed, At
<1>1. CASE r.step \in {"head", "read", "put"} /\ Becomes(m, Failed(r)) /\ CallFails(m)
  <2>. HIDE DEF r
  <2>1. PromiseSound(Failed(r), file, object, promised)
    BY <1>0, <1>1, FailedPromise DEF Copying
  <2>. QED  BY <1>1, <2>1, PromiseMover DEF CallFails, stores
<1>2. CASE r.step = "update" /\ Becomes(m, [RowsDone(r) EXCEPT !.failed = TRUE]) /\ CallFails(m)
  <2>. DEFINE q == [RowsDone(r) EXCEPT !.failed = TRUE]
  <2>1. q.whole = r.whole /\ q.failed /\ q.step = "rows"
    BY <1>0, RowsDone_Fields DEF RunRecord
  <2>. HIDE DEF r, q
  <2>2. PromiseSound(q, file, object, promised)
    BY <1>0, <1>2, <2>1 DEF PromiseSound
  <2>3. Becomes(m, q)
    BY <1>2 DEF q
  <2>. QED  BY <1>2, <2>2, <2>3, PromiseMover DEF CallFails, stores
<1>3. CASE Killed(m)
  BY <1>3, IdlePromise, PromiseMover DEF Killed, stores
<1>. QED  BY <1>1, <1>2, <1>3 DEF CallFails, At

LEMMA PromiseApplication ==
    ASSUME PromiseInv, AvatarInv', Application PROVE PromiseInv'
<1>1. /\ Grows(file, object, file', object') /\ run' = run /\ promised' = promised
      /\ \A b \in Buckets, k \in Keys : object[b][k] = "full" => object'[b][k] = "full"
  BY ApplicationGrows DEF PromiseInv, AvatarInv
<1>2. /\ \A k \in Keys : Kept(object, k) => Kept(object', k)
      /\ \A k \in Keys : file[k] = "full" => file'[k] = "full"
  BY <1>1 DEF Kept, Grows
<1>3. ASSUME NEW m \in Runs PROVE PromiseSound(run'[m], file', object', promised')
  <2>1. CASE run[m] = Idle
    BY <1>1, <2>1, IdlePromise
  <2>2. CASE run[m] \in RunRecord
    <3>1. run[m].whole \subseteq Keys
      BY <2>2 DEF RunRecord
    <3>. QED  BY <1>1, <1>2, <3>1 DEF PromiseInv, PromiseSound
  <2>. QED  BY <2>1, <2>2 DEF PromiseInv, AvatarInv, TypeOK
<1>4. \A k \in promised' : file'[k] = "full" /\ Kept(object', k)
  BY <1>1, <1>2 DEF PromiseInv, AvatarInv, TypeOK
<1>. QED  BY <1>3, <1>4 DEF PromiseInv

LEMMA PromiseInit == Init => PromiseInv
BY AvatarInit, IdlePromise DEF PromiseInv, Init

LEMMA PromiseStep ==
    ASSUME OneAtATime PROVE PromiseInv /\ [Next]_vars => PromiseInv'
<1>. SUFFICES ASSUME PromiseInv, [Next]_vars PROVE PromiseInv'
  OBVIOUS
<1>0. AvatarInv'
  BY AvatarStep DEF PromiseInv
<1>1. CASE Application
  BY <1>0, <1>1, PromiseApplication
<1>2. ASSUME NEW m \in Runs, NEW dry \in BOOLEAN, StartRun(m, dry) PROVE PromiseInv'
  BY <1>0, <1>2, PromiseListing
<1>3. ASSUME NEW m \in Runs, Proceed(m) PROVE PromiseInv'
  BY <1>0, <1>3, PromiseListing, PromiseHead, PromiseRead, PromisePut, PromiseRows, PromiseFinish
     DEF Proceed
<1>4. ASSUME NEW m \in Runs, CallFails(m) \/ Killed(m) PROVE PromiseInv'
  BY <1>0, <1>4, PromiseFails
<1>5. CASE UNCHANGED vars
  BY <1>0, <1>5 DEF vars, PromiseInv
<1>. QED  BY <1>1, <1>2, <1>3, <1>4, <1>5 DEF Next, Migration

\* A run that ends "Done. ... delete them once the app is verified" has left every file
\* that was complete when it listed it in a bucket, and that stays so, provided that
\* runs do not overlap (cli/migrate-local-storage.ts, main).
THEOREM DoneMeansCopiedAlways ==
    ASSUME OneAtATime PROVE Spec => []DoneMeansCopied
<1>1. PromiseInv => DoneMeansCopied
  BY DEF PromiseInv, DoneMeansCopied, Kept
<1>. QED  BY <1>1, PromiseInit, PromiseStep, PTL DEF Spec

=============================================================================
