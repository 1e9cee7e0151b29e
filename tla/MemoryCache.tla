----------------------------- MODULE MemoryCache -----------------------------
(***************************************************************************)
(* The cache of one process: CacheService over MemoryCacheProvider         *)
(* (cache/), in front of values that others change.  It is the provider    *)
(* every deployment gets: CacheModule takes it unless configuration() has  *)
(* cache.type = 'redis', and configuration() has no "cache" at all.        *)
(*                                                                         *)
(* A provider call runs to its end without yielding, so each is one step;  *)
(* get-or-set yields while its factory runs.  Time is a tick.  A value is  *)
(* told apart only by how long ago the one behind its key changed.  Keys   *)
(* are not empty strings.                                                  *)
(***************************************************************************)
EXTENDS Integers, FiniteSets

CONSTANTS
    Keys,
    Slots,        \* calls of get-or-set that may run at once
    MaxEntries,   \* the constructor's max
    DefaultTtl,   \* the constructor's defaultTtl, in ticks
    Ttls,         \* what callers pass as ttl; 0 means no expiry
    MaxTtl,       \* bound: no lifetime, passed or the default, is longer
    MaxFactory,   \* bound: ticks between a factory's read and its return
    None

ASSUME CacheAssumption ==
    /\ MaxEntries \in Nat \ {0} /\ DefaultTtl \in Nat \ {0}
    /\ MaxTtl \in Nat /\ DefaultTtl <= MaxTtl /\ Ttls \subseteq 0..MaxTtl
    /\ MaxFactory \in Nat /\ None \notin Int

VARIABLES
    entry,    \* entry[k]: what the Map holds for k
    before,   \* the Map's order: before[k] is the set of keys in it that precede k
    call      \* call[p]: a get-or-set that missed

vars == <<entry, before, call>>

\* Ages are counted to one more than anything with an expiry reaches.
Horizon == MaxTtl + MaxFactory + 1

\* Ticks since the value behind the key changed; None while it is still the one.
Ages == (0..Horizon) \cup {None}

\* "left": ticks until expiresAt, -1 once it has passed; None without expiry.
\* "ttl": what was asked for, a history field.
Entries == [ttl : Ttls \cup {None}, left : (-1..MaxTtl) \cup {None}, stale : Ages]

ASSUME NullAssumption == None \notin Entries

\* "calling": the factory has not read yet; "read": it has, "held" ticks ago.
Calls == [step : {"idle"}] \cup [step : {"calling"}, key : Keys, ttl : Ttls \cup {None}]
            \cup [step : {"read"}, key : Keys, ttl : Ttls \cup {None},
                  held : 0..MaxFactory, stale : Ages]

Idle == [step |-> "idle"]

InMap == {k \in Keys : entry[k] # None}

TypeOK ==
    /\ entry \in [Keys -> Entries \cup {None}]
    /\ before \in [Keys -> SUBSET Keys]
    /\ call \in [Slots -> Calls]

Init ==
    /\ entry = [k \in Keys |-> None]
    /\ before = [k \in Keys |-> {}]
    /\ call = [p \in Slots |-> Idle]

-----------------------------------------------------------------------------
(* MemoryCacheProvider *)

\* Date.now() > expiresAt: at expiresAt an entry is still served.
Expired(k) == entry[k].left = -1

\* get and exists find k.
Hit(k) == entry[k] # None /\ ~Expired(k)

Remove(K) ==
    /\ entry' = [k \in Keys |-> IF k \in K THEN None ELSE entry[k]]
    /\ before' = [k \in Keys |-> IF k \in K THEN {} ELSE before[k] \ K]

\* The keys nothing precedes: one, unless the Map is empty.
First == {k \in InMap : before[k] = {}}

\* mutant: one too many
Evicted_ == IF Cardinality(InMap) > MaxEntries THEN First ELSE {}

\* evictIfNeeded: the first key goes, even when a key of the Map is overwritten.
Evicted == IF Cardinality(InMap) >= MaxEntries THEN First ELSE {}

\* mutant: an omitted ttl is no expiry
Lifetime_(ttl) == IF ttl \in {None, 0} THEN None ELSE ttl

\* An omitted ttl is the default; 0 is no expiry.
Lifetime(ttl) ==
    CASE ttl = None -> DefaultTtl
      [] ttl = 0    -> None
      [] OTHER      -> ttl

\* Map.set leaves a key that is still there in its place; another goes to the end.
Set(k, stale, ttl) ==
    LET kept == InMap \ Evicted
    IN /\ entry' = [j \in Keys |->
                      CASE j = k             -> [ttl |-> ttl, left |-> Lifetime(ttl), stale |-> stale]
                        [] j \in kept \ {k} -> entry[j]
                        [] OTHER             -> None]
       /\ before' = [j \in Keys |-> IF j = k /\ k \notin kept THEN kept ELSE before[j] \cap kept]

-----------------------------------------------------------------------------
(* CacheService *)

\* get, exists and mget delete what they find expired; otherwise they change nothing.
Lookup(k) ==
    /\ entry[k] # None /\ Expired(k)
    /\ Remove({k})
    /\ UNCHANGED call

\* set by a caller that has the present value; mset is a sequence of these.
Put(k, ttl) ==
    /\ Set(k, None, ttl)
    /\ UNCHANGED call

\* del of one key, delByPattern of those that match, clear of all.
Delete(K) ==
    /\ K # {}
    /\ Remove(K)
    /\ UNCHANGED call

\* The interval of the constructor.
Cleanup ==
    /\ \E k \in InMap : Expired(k)
    /\ Remove({k \in InMap : Expired(k)})
    /\ UNCHANGED call

\* getOrSet, also behind wrap: a hit answers, a miss calls the factory.
Miss(p, k, ttl) ==
    /\ call[p] = Idle
    /\ ~Hit(k)
    /\ Remove({k})
    /\ call' = [call EXCEPT ![p] = [step |-> "calling", key |-> k, ttl |-> ttl]]

FactoryReads(p) ==
    /\ call[p].step = "calling"
    /\ call' = [call EXCEPT ![p] = [step |-> "read", key |-> call[p].key, ttl |-> call[p].ttl,
                                    held |-> 0, stale |-> None]]
    /\ UNCHANGED <<entry, before>>

FactoryThrows(p) ==
    /\ call[p] # Idle
    /\ call' = [call EXCEPT ![p] = Idle]
    /\ UNCHANGED <<entry, before>>

\* Whatever was deleted or stored meanwhile, the factory's value is stored.
Store(p) ==
    /\ call[p].step = "read"
    /\ Set(call[p].key, call[p].stale, call[p].ttl)
    /\ call' = [call EXCEPT ![p] = Idle]

-----------------------------------------------------------------------------
(* The world around *)

Superseded(x) == IF x.stale = None THEN [x EXCEPT !.stale = 0] ELSE x

\* The value behind k changes, in the database.
Change(k) ==
    /\ entry' = [entry EXCEPT ![k] = IF @ = None THEN None ELSE Superseded(@)]
    /\ call' = [p \in Slots |-> IF call[p].step = "read" /\ call[p].key = k
                                THEN Superseded(call[p]) ELSE call[p]]
    /\ UNCHANGED before

Older(n) == IF n = None \/ n = Horizon THEN n ELSE n + 1

Nearer(n) == IF n = None \/ n = -1 THEN n ELSE n - 1

\* A factory returns within MaxFactory ticks of its read.
Tick ==
    /\ \A p \in Slots : call[p].step = "read" => call[p].held < MaxFactory
    /\ entry' = [k \in Keys |-> IF entry[k] = None THEN None
                                ELSE [entry[k] EXCEPT !.left = Nearer(@), !.stale = Older(@)]]
    /\ call' = [p \in Slots |-> IF call[p].step = "read"
                                THEN [call[p] EXCEPT !.held = @ + 1, !.stale = Older(@)]
                                ELSE call[p]]
    /\ UNCHANGED before

Next ==
    \/ \E k \in Keys : \/ Lookup(k) \/ Change(k)
                       \/ \E ttl \in Ttls \cup {None} :
                            \/ Put(k, ttl)
                            \/ \E p \in Slots : Miss(p, k, ttl)
    \/ \E K \in SUBSET InMap : Delete(K)
    \/ Cleanup
    \/ \E p \in Slots : FactoryReads(p) \/ FactoryThrows(p) \/ Store(p)
    \/ Tick

Spec == Init /\ [][Next]_vars

-----------------------------------------------------------------------------
(* The Map never grows beyond its limit, whatever order its keys are set, overwritten,    *)
(* deleted and expire in: there is always one first key to evict, because what precedes   *)
(* a key is in the Map and keys come one after the other (memory-cache.provider.ts        *)
(* :48-56).                                                                               *)
MapBounded ==
    /\ Cardinality(InMap) <= MaxEntries
    /\ \A k \in Keys : before[k] \subseteq InMap \ {k}
    /\ \A j, k \in InMap : j = k \/ j \in before[k] \/ k \in before[j]
    /\ \A j, k \in InMap : j \in before[k] => before[j] \subseteq before[k]

(* A superseded value is served no longer than the rest of the lifetime its caller asked  *)
(* for, plus the time a factory held it: get-or-set may store, after a deletion or a      *)
(* newer value, what its factory read before, but not for good (cache.service.ts :119-128)*)
StaleOnlyForItsTtl ==
    \A k \in Keys :
        Hit(k) /\ entry[k].stale # None /\ entry[k].ttl # 0
            => LET ttl == IF entry[k].ttl = None THEN DefaultTtl ELSE entry[k].ttl
               IN  entry[k].left # None /\ entry[k].stale <= ttl - entry[k].left + MaxFactory
=============================================================================
