--------------------------- MODULE MemoryCacheProofs ---------------------------
(***************************************************************************)
(* Proofs about the cache of one process, for any set of keys, any limit   *)
(* and any lifetimes.  The Map stays within its limit because there is     *)
(* always a first key to evict: its order is total and, the Map being      *)
(* finite, well-founded.                                                   *)
(***************************************************************************)
EXTENDS MemoryCache, FiniteSetTheorems, WellFoundedInduction, TLAPS

-----------------------------------------------------------------------------
(* The order of the Map.                                                   *)

\* What a set of keys and their order must be like to be those of a Map.
Ordered(S, b) ==
    /\ \A k \in Keys : b[k] \subseteq S \ {k}
    /\ \A k \in Keys \ S : b[k] = {}
    /\ \A j, k \in S : j = k \/ j \in b[k] \/ k \in b[j]
    /\ \A j, k \in S : j \in b[k] => b[j] \subseteq b[k]

MapInv ==
    /\ before \in [Keys -> SUBSET Keys]
    /\ DOMAIN entry = Keys
    /\ Ordered(InMap, before)
    /\ IsFiniteSet(InMap)
    /\ Cardinality(InMap) <= MaxEntries

\* A finite Map that is not empty has a first key.
LEMMA FirstExists ==
    ASSUME NEW S \in SUBSET Keys, NEW b, Ordered(S, b), IsFiniteSet(S), S # {}
    PROVE  \E k \in S : b[k] = {}
<1>. DEFINE T == {b[k] : k \in S}
            R == StrictSubsetOrdering(S)
<1>1. T \subseteq FiniteSubsetsOf(S) /\ T # {}
  BY FS_Subset DEF Ordered, FiniteSubsetsOf
<1>2. PICK x \in T : \A y \in T : <<y, x>> \notin R
  <2>1. IsWellFoundedOn(R, FiniteSubsetsOf(S))
    BY FS_StrictSubsetOrderingWellFounded
  <2>. HIDE DEF T, R
  <2>. QED  BY <1>1, <2>1, WFMin
<1>3. PICK k \in S : x = b[k]
  BY <1>2
<1>4. ASSUME NEW j \in b[k] PROVE FALSE
  <2>1. j \in S /\ b[j] \subseteq b[k] /\ j \notin b[j]
    BY <1>3, <1>4 DEF Ordered
  <2>2. b[j] # b[k] /\ b[j] \subseteq S /\ b[k] \subseteq S
    BY <1>3, <1>4, <2>1 DEF Ordered
  <2>3. <<b[j], b[k]>> \in R
    BY <2>1, <2>2 DEF StrictSubsetOrdering
  <2>. QED  BY <1>2, <1>3, <2>1, <2>3
<1>. QED  BY <1>3, <1>4

\* Deleting keys leaves the others in their order.
LEMMA OrderedWithout ==
    ASSUME NEW S \in SUBSET Keys, NEW b, Ordered(S, b), NEW K
    PROVE  Ordered(S \ K, [k \in Keys |-> IF k \in K THEN {} ELSE b[k] \ K])
<1>. DEFINE b2 == [k \in Keys |-> IF k \in K THEN {} ELSE b[k] \ K]
<1>0. \A k \in Keys : b2[k] \subseteq b[k] \ K
  <2>1. ASSUME NEW k \in Keys PROVE b2[k] = {} \/ b2[k] = b[k] \ K
    OBVIOUS
  <2>. QED  BY <2>1
<1>1. \A k \in Keys : b2[k] \subseteq (S \ K) \ {k}
  BY <1>0 DEF Ordered
<1>2. \A k \in Keys \ (S \ K) : b2[k] = {}
  BY DEF Ordered
<1>3. \A j, k \in S \ K : b2[j] = b[j] \ K /\ b2[k] = b[k] \ K
  OBVIOUS
<1>4. \A j, k \in S \ K : j = k \/ j \in b2[k] \/ k \in b2[j]
  BY <1>3 DEF Ordered
<1>5. \A j, k \in S \ K : j \in b2[k] => b2[j] \subseteq b2[k]
  BY <1>3 DEF Ordered
<1>. QED  BY <1>1, <1>2, <1>4, <1>5 DEF Ordered

\* Setting a key keeps its place, or puts it after all others.
LEMMA OrderedWith ==
    ASSUME NEW S \in SUBSET Keys, NEW b, Ordered(S, b), NEW k \in Keys, NEW b2,
           \A j \in Keys : b2[j] = IF j = k /\ k \notin S THEN S ELSE b[j]
    PROVE  Ordered(S \cup {k}, b2)
BY DEF Ordered

LEMMA RemoveKeeps ==
    ASSUME MapInv, NEW K, Remove(K) PROVE MapInv' /\ InMap' = InMap \ K
<1>1. /\ before' \in [Keys -> SUBSET Keys] /\ DOMAIN entry' = Keys
      /\ \A k \in Keys : before'[k] = IF k \in K THEN {} ELSE before[k] \ K
  BY DEF MapInv, Remove
<1>2. InMap' = InMap \ K
  BY DEF MapInv, Remove, InMap
<1>3. Ordered(InMap', before')
  <2>1. InMap \in SUBSET Keys
    BY DEF InMap
  <2>2. Ordered(InMap, before)
    BY DEF MapInv
  <2>3. before' = [k \in Keys |-> IF k \in K THEN {} ELSE before[k] \ K]
    BY DEF Remove
  <2>4. Ordered(InMap \ K, before')
    BY <2>1, <2>2, <2>3, OrderedWithout
  <2>. QED  BY <1>2, <2>4
<1>4. IsFiniteSet(InMap') /\ Cardinality(InMap') <= Cardinality(InMap)
  BY <1>2, FS_Subset DEF MapInv
<1>5. Cardinality(InMap') <= MaxEntries
  BY <1>2, <1>4, FS_CardinalityType, CacheAssumption DEF MapInv
<1>. QED  BY <1>1, <1>2, <1>3, <1>4, <1>5 DEF MapInv

\* What is kept leaves room for one more.
LEMMA EvictionMakesRoom ==
    ASSUME MapInv
    PROVE  /\ Ordered(InMap \ Evicted, [k \in Keys |-> before[k] \cap (InMap \ Evicted)])
           /\ IsFiniteSet(InMap \ Evicted)
           /\ Cardinality(InMap \ Evicted) + 1 <= MaxEntries
<1>. DEFINE kept == InMap \ Evicted
<1>1. \A k \in Evicted : k \in InMap /\ before[k] = {}
  BY DEF Evicted, First
<1>2. Ordered(kept, [k \in Keys |-> before[k] \cap kept])
  <2>1. kept \subseteq InMap /\ InMap \subseteq Keys
    BY DEF InMap
  <2>2. \A k \in Keys \ kept : before[k] \cap kept = {}
    BY <1>1 DEF MapInv, Ordered
  <2>. HIDE DEF kept
  <2>. QED  BY <2>1, <2>2 DEF MapInv, Ordered
<1>3. IsFiniteSet(kept) /\ Cardinality(InMap) \in Nat /\ Cardinality(kept) \in Nat
      /\ Cardinality(kept) <= Cardinality(InMap)
  BY FS_Subset, FS_CardinalityType DEF MapInv
<1>4. CASE Cardinality(InMap) < MaxEntries
  BY <1>2, <1>3, <1>4, CacheAssumption
<1>5. CASE Cardinality(InMap) >= MaxEntries
  <2>1. InMap # {}
    BY <1>5, FS_EmptySet, CacheAssumption
  <2>2. PICK k \in InMap : before[k] = {}
    <3>1. InMap \in SUBSET Keys
      BY DEF InMap
    <3>. QED  BY <2>1, <3>1, FirstExists DEF MapInv
  <2>3. kept \in SUBSET (InMap \ {k})
    BY <1>5, <2>2 DEF Evicted, First
  <2>4. IsFiniteSet(InMap \ {k}) /\ Cardinality(InMap \ {k}) = Cardinality(InMap) - 1
    BY FS_RemoveElement DEF MapInv
  <2>5. Cardinality(kept) <= Cardinality(InMap) - 1
    <3>. HIDE DEF kept
    <3>. QED  BY <2>3, <2>4, FS_Subset
  <2>. QED  BY <1>2, <1>3, <2>5, CacheAssumption DEF MapInv
<1>. QED  BY <1>3, <1>4, <1>5, CacheAssumption

LEMMA SetKeeps ==
    ASSUME MapInv, NEW k \in Keys, NEW stale, NEW ttl, Set(k, stale, ttl),
           [ttl |-> ttl, left |-> Lifetime(ttl), stale |-> stale] \in Entries
    PROVE  MapInv'
<1>. DEFINE kept == InMap \ Evicted
            middle == [j \in Keys |-> before[j] \cap kept]
<1>0. /\ Ordered(kept, middle) /\ IsFiniteSet(kept)
      /\ Cardinality(kept) + 1 <= MaxEntries
      /\ kept \in SUBSET Keys
  BY EvictionMakesRoom DEF InMap
<1>1. /\ before' \in [Keys -> SUBSET Keys] /\ DOMAIN entry' = Keys
      /\ \A j \in Keys : before'[j] = IF j = k /\ k \notin kept THEN kept ELSE middle[j]
  BY <1>0 DEF MapInv, Set
<1>2. \A j \in Keys : entry'[j] # None <=> j = k \/ j \in kept
  <2>1. \A j \in Keys : entry'[j] = CASE j = k -> [ttl |-> ttl, left |-> Lifetime(ttl), stale |-> stale]
                                      [] j \in kept \ {k} -> entry[j]
                                      [] OTHER -> None
    BY DEF Set
  <2>2. [ttl |-> ttl, left |-> Lifetime(ttl), stale |-> stale] # None
    BY NullAssumption
  <2>3. \A j \in kept : entry[j] # None
    BY DEF InMap
  <2>. QED  BY <2>1, <2>2, <2>3
<1>3. InMap' = kept \cup {k}
  BY <1>0, <1>2 DEF InMap
<1>. HIDE DEF kept, middle
<1>4. Ordered(InMap', before')
  BY <1>0, <1>1, <1>3, OrderedWith
<1>5. IsFiniteSet(InMap') /\ Cardinality(InMap') <= MaxEntries
  <2>1. Cardinality(kept) \in Nat
    BY <1>0, FS_CardinalityType
  <2>2. /\ IsFiniteSet(kept \cup {k})
        /\ Cardinality(kept \cup {k}) \in {Cardinality(kept), Cardinality(kept) + 1}
    BY <1>0, FS_AddElement
  <2>3. IsFiniteSet(InMap')
    BY <1>3, <2>2
  <2>4. Cardinality(InMap') = Cardinality(kept \cup {k})
    BY <1>3
  <2>. QED  BY <1>0, <2>1, <2>2, <2>3, <2>4, CacheAssumption
<1>. QED  BY <1>1, <1>4, <1>5 DEF MapInv

-----------------------------------------------------------------------------
(* Lifetimes and ages.                                                     *)

LEMMA Numbers ==
    /\ MaxTtl \in Nat /\ MaxFactory \in Nat /\ DefaultTtl \in 0..MaxTtl /\ DefaultTtl # 0
    /\ Ttls \subseteq 0..MaxTtl /\ None \notin Int
    /\ Horizon = MaxTtl + MaxFactory + 1 /\ Horizon \in Nat
BY CacheAssumption DEF Horizon

LEMMA LifetimeType ==
    ASSUME NEW ttl \in Ttls \cup {None}
    PROVE  /\ ttl = 0 => Lifetime(ttl) = None
           /\ ttl # 0 => Lifetime(ttl) \in 0..MaxTtl
           /\ Lifetime(ttl) = None <=> ttl = 0
BY Numbers DEF Lifetime

\* What is left of an entry's lifetime, and since when its value is superseded: as the
\* one goes down the other goes up, and they started at most a factory's time apart.
EntrySound(e) ==
    e # None =>
        /\ e.left = None <=> e.ttl = 0
        /\ e.left # None => e.left <= Lifetime(e.ttl)
        /\ e.left # None /\ e.left # -1 /\ e.stale # None =>
              e.stale <= Lifetime(e.ttl) - e.left + MaxFactory

\* A factory's value was the present one when it was read.
CallSound(c) == c.step = "read" /\ c.stale # None => c.stale <= c.held

CacheInv ==
    /\ TypeOK
    /\ MapInv
    /\ \A k \in Keys : EntrySound(entry[k])
    /\ \A p \in Slots : CallSound(call[p])

\* A value is stored with all of its lifetime left.
LEMMA StoredSound ==
    ASSUME NEW ttl \in Ttls \cup {None}, NEW stale \in Ages,
           stale # None => stale <= MaxFactory
    PROVE  LET e == [ttl |-> ttl, left |-> Lifetime(ttl), stale |-> stale]
           IN  e \in Entries /\ EntrySound(e)
<1>. DEFINE e == [ttl |-> ttl, left |-> Lifetime(ttl), stale |-> stale]
<1>1. e \in Entries
  BY LifetimeType, Numbers DEF Entries
<1>2. e.left = None <=> e.ttl = 0
  BY LifetimeType
<1>3. e.left # None => e.left = Lifetime(e.ttl) /\ e.left \in Int
  BY LifetimeType
<1>4. e.stale # None => e.stale \in Int /\ e.stale <= MaxFactory
  BY Numbers DEF Ages
<1>. HIDE DEF e
<1>5. EntrySound(e)
  BY <1>2, <1>3, <1>4, Numbers DEF EntrySound
<1>. QED  BY <1>1, <1>5 DEF e

\* The fields of an entry.
LEMMA EntryFields ==
    ASSUME NEW e \in Entries
    PROVE  /\ e # None /\ e.ttl \in Ttls \cup {None}
           /\ e.left = None \/ (e.left \in Int /\ e.left >= -1 /\ e.left <= MaxTtl)
           /\ e.stale = None \/ (e.stale \in Nat /\ e.stale <= Horizon)
BY NullAssumption, Numbers DEF Entries, Ages

\* A change of the value behind a key, and a tick, keep an entry sound.
LEMMA SupersededSound ==
    ASSUME NEW e \in Entries, EntrySound(e)
    PROVE  Superseded(e) \in Entries /\ EntrySound(Superseded(e))
<1>1. CASE e.stale # None
  BY <1>1 DEF Superseded
<1>2. CASE e.stale = None
  <2>. DEFINE f == [e EXCEPT !.stale = 0]
  <2>1. /\ f \in Entries /\ f.ttl = e.ttl /\ f.left = e.left /\ f.stale = 0
    BY Numbers DEF Entries, Ages
  <2>. HIDE DEF f
  <2>2. e.left # None => e.left \in Int /\ Lifetime(e.ttl) \in Int
    BY EntryFields, LifetimeType DEF EntrySound
  <2>3. e.left # None => 0 <= Lifetime(e.ttl) - e.left + MaxFactory
    BY <2>2, EntryFields, Numbers DEF EntrySound
  <2>4. EntrySound(f)
    BY <2>1, <2>3, EntryFields DEF EntrySound
  <2>5. Superseded(e) = f
    BY <1>2 DEF Superseded, f
  <2>. QED  BY <2>1, <2>4, <2>5
<1>. QED  BY <1>1, <1>2

LEMMA OlderType ==
    ASSUME NEW n \in Ages
    PROVE  /\ Older(n) \in Ages
           /\ Older(n) = None <=> n = None
           /\ n # None => Older(n) <= n + 1
BY Numbers DEF Older, Ages

LEMMA TickedSound ==
    ASSUME NEW e \in Entries, EntrySound(e)
    PROVE  LET f == [e EXCEPT !.left = Nearer(@), !.stale = Older(@)]
           IN  f \in Entries /\ EntrySound(f)
<1>. DEFINE f == [e EXCEPT !.left = Nearer(@), !.stale = Older(@)]
<1>1. e.left \in (-1..MaxTtl) \cup {None} /\ e.stale \in Ages /\ e.ttl \in Ttls \cup {None}
  BY DEF Entries
<1>2. /\ Nearer(e.left) \in (-1..MaxTtl) \cup {None}
      /\ Nearer(e.left) = None <=> e.left = None
      /\ e.left # None => Nearer(e.left) <= e.left
      /\ Nearer(e.left) # None /\ Nearer(e.left) # -1 => e.left # -1 /\ e.left = Nearer(e.left) + 1
  BY <1>1, Numbers DEF Nearer
<1>3. /\ f \in Entries
      /\ f.ttl = e.ttl /\ f.left = Nearer(e.left) /\ f.stale = Older(e.stale)
  BY <1>1, <1>2, OlderType DEF Entries
<1>. HIDE DEF f
<1>4. e.left # None => Lifetime(e.ttl) \in Int /\ e.left \in Int /\ f.left \in Int
  <2>. SUFFICES ASSUME e.left # None
                PROVE  Lifetime(e.ttl) \in Int /\ e.left \in Int /\ f.left \in Int
    OBVIOUS
  <2>1. e.ttl # 0
    BY EntryFields DEF EntrySound
  <2>2. Lifetime(e.ttl) \in 0..MaxTtl
    BY <1>1, <2>1, LifetimeType
  <2>3. e.left \in -1..MaxTtl /\ f.left \in -1..MaxTtl
    BY <1>1, <1>2, <1>3
  <2>. QED  BY <2>2, <2>3, Numbers
<1>5. f.left = None <=> f.ttl = 0
  BY <1>2, <1>3, EntryFields DEF EntrySound
<1>6. f.left # None => f.left <= Lifetime(f.ttl)
  BY <1>2, <1>3, <1>4, EntryFields DEF EntrySound
<1>7. ASSUME f.left # None, f.left # -1, f.stale # None
      PROVE  f.stale <= Lifetime(f.ttl) - f.left + MaxFactory
  <2>1. /\ e.left # None /\ e.left # -1 /\ e.stale # None
        /\ e.left = f.left + 1 /\ f.stale <= e.stale + 1
        /\ e.stale \in Int /\ f.stale \in Int
    <3>1. e.left # None /\ e.left # -1 /\ e.left = f.left + 1
      BY <1>2, <1>3, <1>7
    <3>2. e.stale # None /\ f.stale <= e.stale + 1 /\ f.stale \in Ages
      BY <1>1, <1>3, <1>7, OlderType
    <3>. QED  BY <1>1, <1>7, <3>1, <3>2, Numbers DEF Ages
  <2>2. e.stale <= Lifetime(e.ttl) - e.left + MaxFactory
    BY <2>1, EntryFields DEF EntrySound
  <2>. QED  BY <1>3, <1>4, <2>1, <2>2, Numbers
<1>8. EntrySound(f)
  BY <1>5, <1>6, <1>7 DEF EntrySound
<1>. QED  BY <1>3, <1>8 DEF f

-----------------------------------------------------------------------------
(* One step of the cache.                                                  *)

\* A step whose entries are kept, dropped, or each replaced by a sound one.
LEMMA EntriesKept ==
    ASSUME CacheInv, MapInv', call' \in [Slots -> Calls],
           \A p \in Slots : CallSound(call'[p]),
           NEW f, entry' = [k \in Keys |-> f[k]],
           \A k \in Keys : f[k] = None \/ (f[k] \in Entries /\ EntrySound(f[k]))
    PROVE  CacheInv'
<1>1. entry' \in [Keys -> Entries \cup {None}] /\ \A k \in Keys : EntrySound(entry'[k])
  BY DEF EntrySound
<1>2. before' \in [Keys -> SUBSET Keys]
  BY DEF MapInv
<1>. QED  BY <1>1, <1>2 DEF CacheInv, TypeOK

LEMMA RemoveStep ==
    ASSUME CacheInv, NEW K, Remove(K), call' \in [Slots -> Calls],
           \A p \in Slots : CallSound(call'[p])
    PROVE  CacheInv'
<1>. DEFINE f == [k \in Keys |-> IF k \in K THEN None ELSE entry[k]]
<1>1. MapInv'
  BY RemoveKeeps DEF CacheInv
<1>2. entry' = [k \in Keys |-> f[k]]
  BY DEF Remove
<1>3. \A k \in Keys : f[k] = None \/ (f[k] \in Entries /\ EntrySound(f[k]))
  BY DEF CacheInv, TypeOK
<1>. HIDE DEF f
<1>. QED  BY <1>1, <1>2, <1>3, EntriesKept

LEMMA SetStep ==
    ASSUME CacheInv, NEW k \in Keys, NEW stale \in Ages, NEW ttl \in Ttls \cup {None},
           stale # None => stale <= MaxFactory, Set(k, stale, ttl),
           call' \in [Slots -> Calls], \A p \in Slots : CallSound(call'[p])
    PROVE  CacheInv'
<1>. DEFINE kept == InMap \ Evicted
            e == [ttl |-> ttl, left |-> Lifetime(ttl), stale |-> stale]
            f == [j \in Keys |-> CASE j = k -> e
                                   [] j \in kept \ {k} -> entry[j]
                                   [] OTHER -> None]
<1>1. e \in Entries /\ EntrySound(e)
  BY StoredSound
<1>2. MapInv'
  BY <1>1, SetKeeps DEF CacheInv
<1>3. entry' = [j \in Keys |-> f[j]]
  BY DEF Set
<1>. HIDE DEF e, kept
<1>4. \A j \in Keys : f[j] = None \/ (f[j] \in Entries /\ EntrySound(f[j]))
  BY <1>1 DEF CacheInv, TypeOK
<1>. HIDE DEF f
<1>. QED  BY <1>2, <1>3, <1>4, EntriesKept

LEMMA CallsUnchanged ==
    ASSUME CacheInv, UNCHANGED call
    PROVE  call' \in [Slots -> Calls] /\ \A p \in Slots : CallSound(call'[p])
BY DEF CacheInv, TypeOK

\* The order of the Map stays while its keys do.
LEMMA MapKept ==
    ASSUME MapInv, UNCHANGED before, DOMAIN entry' = Keys,
           \A k \in Keys : entry'[k] = None <=> entry[k] = None
    PROVE  MapInv'
<1>1. InMap' = InMap
  BY DEF InMap
<1>. QED  BY <1>1 DEF MapInv

LEMMA ReadCall ==
    ASSUME NEW c \in Calls, c.step = "read"
    PROVE  /\ c.key \in Keys /\ c.ttl \in Ttls \cup {None}
           /\ c.held \in 0..MaxFactory /\ c.stale \in Ages
           /\ c \in [step : {"read"}, key : Keys, ttl : Ttls \cup {None},
                     held : 0..MaxFactory, stale : Ages]
BY DEF Calls

LEMMA CallStep ==
    ASSUME CacheInv, NEW p \in Slots, NEW c \in Calls, CallSound(c),
           call' = [call EXCEPT ![p] = c]
    PROVE  call' \in [Slots -> Calls] /\ \A q \in Slots : CallSound(call'[q])
BY DEF CacheInv, TypeOK

LEMMA IdleCall == Idle \in Calls /\ CallSound(Idle)
BY DEF Idle, Calls, CallSound

LEMMA FactoryStep ==
    ASSUME CacheInv, NEW p \in Slots, FactoryReads(p) \/ FactoryThrows(p) \/ Store(p)
    PROVE  CacheInv'
<1>1. CASE FactoryReads(p)
  <2>. DEFINE c == [step |-> "read", key |-> call[p].key, ttl |-> call[p].ttl,
                    held |-> 0, stale |-> None]
  <2>1. c \in Calls
    BY <1>1, Numbers DEF FactoryReads, CacheInv, TypeOK, Calls, Ages
  <2>2. CallSound(c)
    BY DEF CallSound
  <2>3. call' = [call EXCEPT ![p] = c] /\ UNCHANGED <<entry, before>>
    BY <1>1 DEF FactoryReads
  <2>. HIDE DEF c
  <2>4. call' \in [Slots -> Calls] /\ \A q \in Slots : CallSound(call'[q])
    BY <2>1, <2>2, <2>3, CallStep
  <2>. QED  BY <2>3, <2>4 DEF CacheInv, TypeOK, MapInv, InMap
<1>2. CASE FactoryThrows(p)
  <2>1. call' \in [Slots -> Calls] /\ \A q \in Slots : CallSound(call'[q])
    BY <1>2, IdleCall, CallStep DEF FactoryThrows
  <2>. QED  BY <1>2, <2>1 DEF FactoryThrows, CacheInv, TypeOK, MapInv, InMap
<1>3. CASE Store(p)
  <2>1. /\ call[p].key \in Keys /\ call[p].ttl \in Ttls \cup {None}
        /\ call[p].stale \in Ages
        /\ call[p].stale # None => call[p].stale <= MaxFactory
    <3>1. call[p] \in Calls /\ call[p].step = "read" /\ CallSound(call[p])
      BY <1>3 DEF Store, CacheInv, TypeOK
    <3>2. call[p].held \in 0..MaxFactory /\ call[p].stale \in Ages
          /\ call[p].key \in Keys /\ call[p].ttl \in Ttls \cup {None}
      BY <3>1, ReadCall
    <3>3. call[p].stale # None => call[p].stale \in Int /\ call[p].stale <= call[p].held
      BY <3>1, <3>2, Numbers DEF CallSound, Ages
    <3>. QED  BY <3>2, <3>3, Numbers
  <2>2. call' \in [Slots -> Calls] /\ \A q \in Slots : CallSound(call'[q])
    BY <1>3, IdleCall, CallStep DEF Store
  <2>. QED  BY <1>3, <2>1, <2>2, SetStep DEF Store
<1>. QED  BY <1>1, <1>2, <1>3

LEMMA MissStep ==
    ASSUME CacheInv, NEW p \in Slots, NEW k \in Keys, NEW ttl \in Ttls \cup {None},
           Miss(p, k, ttl)
    PROVE  CacheInv'
<1>. DEFINE c == [step |-> "calling", key |-> k, ttl |-> ttl]
<1>1. c \in Calls /\ CallSound(c)
  BY DEF Calls, CallSound
<1>2. call' = [call EXCEPT ![p] = c] /\ Remove({k})
  BY DEF Miss
<1>. HIDE DEF c
<1>3. call' \in [Slots -> Calls] /\ \A q \in Slots : CallSound(call'[q])
  BY <1>1, <1>2, CallStep
<1>. QED  BY <1>2, <1>3, RemoveStep

LEMMA ChangeStep ==
    ASSUME CacheInv, NEW k \in Keys, Change(k) PROVE CacheInv'
<1>. DEFINE f == [entry EXCEPT ![k] = IF @ = None THEN None ELSE Superseded(@)]
<1>1. \A j \in Keys : entry[j] = None \/ (entry[j] \in Entries /\ EntrySound(entry[j]))
  BY DEF CacheInv, TypeOK
<1>2. \A j \in Keys : \/ f[j] = None /\ entry[j] = None
                      \/ entry[j] # None /\ f[j] \in Entries /\ EntrySound(f[j])
  BY <1>1, SupersededSound, EntryFields DEF CacheInv, TypeOK
<1>3. f = [j \in Keys |-> f[j]] /\ entry' = f /\ UNCHANGED before
  BY DEF Change, CacheInv, TypeOK
<1>. HIDE DEF f
<1>4. MapInv'
  BY <1>2, <1>3, MapKept, EntryFields DEF CacheInv
<1>5. call' \in [Slots -> Calls] /\ \A q \in Slots : CallSound(call'[q])
  <2>. DEFINE g == [p \in Slots |-> IF call[p].step = "read" /\ call[p].key = k
                                    THEN Superseded(call[p]) ELSE call[p]]
  <2>1. ASSUME NEW p \in Slots PROVE g[p] \in Calls /\ CallSound(g[p])
    <3>1. call[p] \in Calls /\ CallSound(call[p])
      BY DEF CacheInv, TypeOK
    <3>2. CASE call[p].step = "read" /\ call[p].key = k
      <4>1. g[p] = Superseded(call[p])
        BY <3>2
      <4>2. call[p] \in [step : {"read"}, key : Keys, ttl : Ttls \cup {None},
                         held : 0..MaxFactory, stale : Ages]
        BY <3>1, <3>2, ReadCall
      <4>3. 0 \in Ages
        BY Numbers DEF Ages
      <4>4. CASE call[p].stale = None
        <5>. DEFINE c == [call[p] EXCEPT !.stale = 0]
        <5>1. c \in Calls /\ c.held = call[p].held /\ c.stale = 0
          BY <4>2, <4>3 DEF Calls
        <5>2. CallSound(c)
          BY <4>2, <5>1, Numbers DEF CallSound
        <5>. QED  BY <4>1, <4>4, <5>1, <5>2 DEF Superseded
      <4>5. CASE call[p].stale # None
        BY <3>1, <4>1, <4>5 DEF Superseded
      <4>. QED  BY <4>4, <4>5
    <3>3. CASE ~(call[p].step = "read" /\ call[p].key = k)
      BY <3>1, <3>3
    <3>. QED  BY <3>2, <3>3
  <2>2. call' = g
    BY DEF Change
  <2>3. g \in [Slots -> Calls]
    BY <2>1
  <2>. HIDE DEF g
  <2>. QED  BY <2>1, <2>2, <2>3
<1>. QED  BY <1>2, <1>3, <1>4, <1>5, EntriesKept

LEMMA TickStep ==
    ASSUME CacheInv, Tick PROVE CacheInv'
<1>. DEFINE f == [k \in Keys |-> IF entry[k] = None THEN None
                                 ELSE [entry[k] EXCEPT !.left = Nearer(@), !.stale = Older(@)]]
<1>1. \A j \in Keys : \/ f[j] = None /\ entry[j] = None
                      \/ entry[j] # None /\ f[j] \in Entries /\ EntrySound(f[j])
  <2>1. ASSUME NEW j \in Keys, entry[j] # None
        PROVE  f[j] \in Entries /\ EntrySound(f[j])
    <3>1. entry[j] \in Entries /\ EntrySound(entry[j])
      BY <2>1 DEF CacheInv, TypeOK
    <3>2. f[j] = [entry[j] EXCEPT !.left = Nearer(@), !.stale = Older(@)]
      BY <2>1
    <3>. QED  BY <3>1, <3>2, TickedSound
  <2>. QED  BY <2>1
<1>2. f = [j \in Keys |-> f[j]] /\ entry' = f /\ UNCHANGED before
  BY DEF Tick
<1>. HIDE DEF f
<1>3. MapInv'
  BY <1>1, <1>2, MapKept, EntryFields DEF CacheInv
<1>4. call' \in [Slots -> Calls] /\ \A q \in Slots : CallSound(call'[q])
  <2>. DEFINE g == [p \in Slots |-> IF call[p].step = "read"
                                    THEN [call[p] EXCEPT !.held = @ + 1, !.stale = Older(@)]
                                    ELSE call[p]]
  <2>1. ASSUME NEW p \in Slots PROVE g[p] \in Calls /\ CallSound(g[p])
    <3>1. call[p] \in Calls /\ CallSound(call[p])
      BY DEF CacheInv, TypeOK
    <3>2. CASE call[p].step = "read"
      <4>. DEFINE c == [call[p] EXCEPT !.held = @ + 1, !.stale = Older(@)]
      <4>1. call[p] \in [step : {"read"}, key : Keys, ttl : Ttls \cup {None},
                         held : 0..MaxFactory, stale : Ages]
        BY <3>1, <3>2, ReadCall
      <4>2. call[p].held + 1 \in 0..MaxFactory /\ call[p].held \in Nat
        <5>1. call[p].held \in 0..MaxFactory
          BY <4>1
        <5>2. call[p].held < MaxFactory
          BY <3>2 DEF Tick
        <5>. QED  BY <5>1, <5>2, Numbers
      <4>3. Older(call[p].stale) \in Ages
        BY <4>1, OlderType
      <4>4. /\ c \in Calls /\ c.held = call[p].held + 1 /\ c.stale = Older(call[p].stale)
        BY <4>1, <4>2, <4>3 DEF Calls
      <4>. HIDE DEF c
      <4>5. ASSUME c.stale # None PROVE c.stale <= c.held
        <5>1. call[p].stale \in Ages /\ call[p].stale # None
          BY <4>1, <4>4, <4>5, OlderType
        <5>2. call[p].stale \in Int /\ call[p].stale <= call[p].held
          BY <3>1, <3>2, <5>1, Numbers DEF CallSound, Ages
        <5>3. c.stale <= call[p].stale + 1
          BY <4>4, <5>1, OlderType
        <5>4. c.stale \in Int
          BY <4>3, <4>4, <4>5, Numbers DEF Ages
        <5>. QED  BY <4>2, <4>4, <5>2, <5>3, <5>4
      <4>6. CallSound(c)
        BY <4>5 DEF CallSound
      <4>. QED  BY <3>2, <4>4, <4>6 DEF c
    <3>3. CASE call[p].step # "read"
      BY <3>1, <3>3
    <3>. QED  BY <3>2, <3>3
  <2>2. call' = g
    BY DEF Tick
  <2>3. g \in [Slots -> Calls]
    BY <2>1
  <2>. HIDE DEF g
  <2>. QED  BY <2>1, <2>2, <2>3
<1>. QED  BY <1>1, <1>2, <1>3, <1>4, EntriesKept

LEMMA CacheInit == Init => CacheInv
<1>. SUFFICES ASSUME Init PROVE CacheInv
  OBVIOUS
<1>1. TypeOK
  BY IdleCall DEF Init, TypeOK
<1>2. InMap = {}
  BY DEF Init, InMap
<1>3. MapInv
  BY <1>2, FS_EmptySet, CacheAssumption DEF Init, MapInv, Ordered
<1>4. \A k \in Keys : EntrySound(entry[k])
  BY DEF Init, EntrySound
<1>5. \A p \in Slots : CallSound(call[p])
  BY IdleCall DEF Init
<1>. QED  BY <1>1, <1>3, <1>4, <1>5 DEF CacheInv

LEMMA CacheStep == CacheInv /\ [Next]_vars => CacheInv'
<1>. SUFFICES ASSUME CacheInv, [Next]_vars PROVE CacheInv'
  OBVIOUS
<1>1. ASSUME NEW k \in Keys, Lookup(k) PROVE CacheInv'
  BY <1>1, CallsUnchanged, RemoveStep DEF Lookup
<1>2. ASSUME NEW k \in Keys, Change(k) PROVE CacheInv'
  BY <1>2, ChangeStep
<1>3. ASSUME NEW k \in Keys, NEW ttl \in Ttls \cup {None}, Put(k, ttl) PROVE CacheInv'
  <2>1. None \in Ages
    BY DEF Ages
  <2>. QED  BY <1>3, <2>1, CallsUnchanged, SetStep DEF Put
<1>4. ASSUME NEW k \in Keys, NEW ttl \in Ttls \cup {None}, NEW p \in Slots, Miss(p, k, ttl)
      PROVE  CacheInv'
  BY <1>4, MissStep
<1>5. ASSUME NEW K \in SUBSET InMap, Delete(K) PROVE CacheInv'
  BY <1>5, CallsUnchanged, RemoveStep DEF Delete
<1>6. CASE Cleanup
  BY <1>6, CallsUnchanged, RemoveStep DEF Cleanup
<1>7. ASSUME NEW p \in Slots, FactoryReads(p) \/ FactoryThrows(p) \/ Store(p) PROVE CacheInv'
  BY <1>7, FactoryStep
<1>8. CASE Tick
  BY <1>8, TickStep
<1>9. CASE UNCHANGED vars
  BY <1>9 DEF vars, CacheInv, TypeOK, MapInv, InMap
<1>. QED  BY <1>1, <1>2, <1>3, <1>4, <1>5, <1>6, <1>7, <1>8, <1>9 DEF Next

-----------------------------------------------------------------------------
(* Theorems.                                                               *)

\* Every variable stays in its type: no entry has more left than the longest lifetime,
\* none is counted older than the horizon (cache/).
THEOREM TypeCorrect == Spec => []TypeOK
<1>1. CacheInv => TypeOK
  BY DEF CacheInv
<1>. QED  BY <1>1, CacheInit, CacheStep, PTL DEF Spec

\* The Map never grows beyond its limit, for any limit and any set of keys, be it
\* infinite: evictIfNeeded always finds a first key to delete (memory-cache.provider.ts).
THEOREM MapBoundedAlways == Spec => []MapBounded
<1>1. CacheInv => MapBounded
  BY DEF CacheInv, MapInv, Ordered, MapBounded
<1>. QED  BY <1>1, CacheInit, CacheStep, PTL DEF Spec

\* A superseded value is served no longer than the rest of its lifetime and the time its
\* factory took, for any lifetimes: get-or-set may bring back what was deleted or
\* replaced meanwhile, but not for good (cache.service.ts, getOrSet).
THEOREM StaleOnlyForItsTtlAlways == Spec => []StaleOnlyForItsTtl
<1>1. ASSUME CacheInv, NEW k \in Keys,
             Hit(k), entry[k].stale # None, entry[k].ttl # 0
      PROVE  LET ttl == IF entry[k].ttl = None THEN DefaultTtl ELSE entry[k].ttl
             IN  entry[k].left # None /\ entry[k].stale <= ttl - entry[k].left + MaxFactory
  <2>. DEFINE e == entry[k]
  <2>1. e # None /\ e \in Entries /\ EntrySound(e) /\ e.left # -1
    BY <1>1 DEF Hit, Expired, CacheInv, TypeOK
  <2>2. e.left # None /\ e.stale <= Lifetime(e.ttl) - e.left + MaxFactory
    BY <1>1, <2>1 DEF EntrySound
  <2>3. Lifetime(e.ttl) = IF e.ttl = None THEN DefaultTtl ELSE e.ttl
    BY <1>1 DEF Lifetime
  <2>. QED  BY <2>2, <2>3
<1>2. CacheInv => StaleOnlyForItsTtl
  BY <1>1 DEF StaleOnlyForItsTtl
<1>. QED  BY <1>2, CacheInit, CacheStep, PTL DEF Spec

=============================================================================
