--------------------------- MODULE ProviderProofs ---------------------------
(***************************************************************************)
(* Proofs about what the provider plugins share.  First the cache of the   *)
(* GCP provider, for any keys, cap and times to live: the index covers the *)
(* entries, the bounds hold, and an eviction takes the entry closest to    *)
(* expiry.  Then the streamed scan of the Kubernetes, Azure and GCP        *)
(* providers, for any requests and any buffers: a stream that ends cleanly *)
(* delivered, in order, all that was asked and that discovery listed.      *)
(***************************************************************************)
EXTENDS ExpiryCache, ResourceStream, FiniteSetTheorems, FunctionTheorems, SequenceTheorems, TLAPS

(***************************************************************************)
(* What a state of the cache, a pair of entries e and heap o, satisfies.   *)
(***************************************************************************)
Pair(e, o) ==
    /\ DOMAIN e \subseteq Keys
    /\ e \in [DOMAIN e -> Entry]
    /\ o \subseteq expiryItem
    /\ IsFiniteSet(o)
    /\ \A k \in DOMAIN e : ItemOf(e, k) \in o
    /\ \A i \in o : liveLocked(e, i) => i = ItemOf(e, i.key)

\* r is a state left by taking entries and items away from e and o.
Part(r, e, o) ==
    /\ Pair(r.entries, r.order)
    /\ DOMAIN r.entries \subseteq DOMAIN e
    /\ \A k \in DOMAIN r.entries : r.entries[k] = e[k]
    /\ r.order \subseteq o

\* Pops stop before every item of `last`.
LEMMA PopsSpareLast ==
    ASSUME NEW o, NEW last, last \subseteq expiryItem, o \subseteq expiryItem,
           NEW p \in PopsUntil(o, last)
    PROVE  p \subseteq o /\ p \cap last = {}
<1>1. PICK t \in SUBSET {i \in o \ last : \A s \in last : i.expiry <= s.expiry} :
         p = {i \in o : \A s \in last : i.expiry < s.expiry} \cup t
  BY DEF PopsUntil
<1>2. ASSUME NEW i \in last, \A s \in last : i.expiry < s.expiry PROVE FALSE
  BY <1>2 DEF expiryItem
<1> QED BY <1>1, <1>2

\* Taking live items out of the heap together with their entries, and stale
\* items alone, keeps a pair a pair.
LEMMA RemovalKeepsPair ==
    ASSUME NEW e, NEW o, Pair(e, o), NEW p, p \subseteq o
    PROVE  Part([entries |-> Without(e, {i.key : i \in {j \in p : liveLocked(e, j)}}),
                 order |-> o \ p], e, o)
<1> DEFINE gone == {i.key : i \in {j \in p : liveLocked(e, j)}}
<1> DEFINE r == Without(e, gone)
<1>1. DOMAIN r = DOMAIN e \ gone /\ \A k \in DOMAIN r : r[k] = e[k]
  BY DEF Without
<1>2. r \in [DOMAIN r -> Entry]
  BY <1>1 DEF Without, Pair
<1>3. IsFiniteSet(o \ p)
  BY FS_Subset DEF Pair
<1>4. ASSUME NEW k \in DOMAIN r PROVE ItemOf(r, k) \in o \ p
  <2>1. ItemOf(r, k) = ItemOf(e, k) /\ k \in DOMAIN e /\ ItemOf(e, k) \in o
    BY <1>1, <1>4 DEF ItemOf, Pair
  <2>2. liveLocked(e, ItemOf(e, k)) /\ ItemOf(e, k).key = k
    BY <2>1 DEF liveLocked, ItemOf
  <2>3. ItemOf(e, k) \notin p
    BY <1>1, <1>4, <2>2
  <2> QED BY <2>1, <2>3
<1>5. ASSUME NEW i \in o \ p, liveLocked(r, i) PROVE i = ItemOf(r, i.key)
  <2>1. i.key \in DOMAIN r /\ r[i.key] = e[i.key]
    BY <1>1, <1>5 DEF liveLocked
  <2>2. liveLocked(e, i)
    BY <1>1, <1>5, <2>1 DEF liveLocked
  <2>3. i = ItemOf(e, i.key)
    BY <2>2 DEF Pair
  <2> QED BY <2>1, <2>3 DEF ItemOf
<1>6. Pair(r, o \ p)
  BY <1>1, <1>2, <1>3, <1>4, <1>5 DEF Pair
<1> QED BY <1>1, <1>6 DEF Part

\* The sweep leaves a pair, and keeps every entry that has not expired.
LEMMA CleanIsPart ==
    ASSUME NEW e, NEW o, NEW t \in Nat, Pair(e, o), NEW r \in cleanExpiredLocked(e, o, t)
    PROVE  /\ Part(r, e, o)
           /\ \A k \in DOMAIN e : k \in DOMAIN r.entries <=> t <= e[k].expiry
<1> DEFINE kept == {i \in o : liveLocked(e, i) /\ t <= i.expiry}
<1>1. PICK p \in PopsUntil(o, kept) :
         r = [entries |-> Without(e, {i.key : i \in {j \in p : liveLocked(e, j)}}),
              order |-> o \ p]
  BY DEF cleanExpiredLocked
<1>2. p \subseteq o /\ p \cap kept = {}
  BY PopsSpareLast DEF Pair
<1>3. Part(r, e, o)
  BY <1>1, <1>2, RemovalKeepsPair
<1>4. ASSUME NEW k \in DOMAIN e, t <= e[k].expiry PROVE k \in DOMAIN r.entries
  <2>1. ASSUME NEW i \in p, liveLocked(e, i), i.key = k PROVE FALSE
    <3>1. i \in o /\ i = ItemOf(e, k)
      BY <1>2, <2>1 DEF Pair
    <3>2. i.expiry = e[k].expiry
      BY <3>1 DEF ItemOf
    <3> QED BY <1>2, <1>4, <2>1, <3>1, <3>2
  <2> QED BY <1>1, <2>1 DEF Without
<1>5. ASSUME NEW k \in DOMAIN e, ~(t <= e[k].expiry) PROVE k \notin DOMAIN r.entries
  <2> DEFINE i == ItemOf(e, k)
  <2>1. i \in o /\ liveLocked(e, i) /\ i.key = k /\ i.expiry = e[k].expiry
    BY DEF Pair, liveLocked, ItemOf
  <2>2. ASSUME NEW s \in kept PROVE i.expiry < s.expiry
    <3>1. s \in expiryItem /\ t <= s.expiry /\ i \in expiryItem
      BY <2>1 DEF Pair
    <3> QED BY <1>5, <2>1, <3>1 DEF expiryItem
  <2>3. i \in p
    BY <2>1, <2>2 DEF PopsUntil
  <2> QED BY <1>1, <2>1, <2>3 DEF Without
<1> QED BY <1>3, <1>4, <1>5

\* An eviction from a cache that holds something takes exactly one entry, one
\* that no other outlives.
LEMMA EvictTakesFirst ==
    ASSUME NEW e, NEW o, Pair(e, o), DOMAIN e # {}, NEW r \in EvictFirstLive(e, o)
    PROVE  /\ Part(r, e, o)
           /\ \E v \in DOMAIN e : /\ DOMAIN r.entries = DOMAIN e \ {v}
                                 /\ \A j \in DOMAIN e : e[v].expiry <= e[j].expiry
<1> DEFINE live == {i \in o : liveLocked(e, i)}
<1> DEFINE firsts == {i \in live : \A j \in live : i.expiry <= j.expiry}
<1>1. ASSUME NEW k \in DOMAIN e
      PROVE  ItemOf(e, k) \in live /\ ItemOf(e, k).expiry = e[k].expiry
  BY DEF Pair, liveLocked, ItemOf
<1>2. live # {}
  BY <1>1
<1>3. PICK v \in firsts, p \in PopsUntil(o, live) :
         r = [entries |-> Without(e, {v.key}), order |-> o \ (p \cup {v})]
  BY <1>2 DEF EvictFirstLive
<1>4. p \subseteq o /\ p \cap live = {} /\ v \in o /\ liveLocked(e, v)
  BY <1>3, PopsSpareLast DEF Pair
<1>5. v = ItemOf(e, v.key) /\ v.key \in DOMAIN e
  BY <1>4 DEF Pair, liveLocked
<1> DEFINE q == p \cup {v}
<1>6. {i.key : i \in {j \in q : liveLocked(e, j)}} = {v.key}
  BY <1>4
<1>7. Part(r, e, o)
  <2>1. q \subseteq o
    BY <1>4
  <2>2. Part([entries |-> Without(e, {i.key : i \in {j \in q : liveLocked(e, j)}}),
              order |-> o \ q], e, o)
    BY <2>1, RemovalKeepsPair
  <2> QED BY <1>3, <1>6, <2>2
<1>8. DOMAIN r.entries = DOMAIN e \ {v.key}
  BY <1>3 DEF Without
<1>9. ASSUME NEW j \in DOMAIN e PROVE e[v.key].expiry <= e[j].expiry
  <2>1. v.expiry <= ItemOf(e, j).expiry
    BY <1>1, <1>3
  <2>2. v.expiry = e[v.key].expiry
    BY <1>5 DEF ItemOf
  <2> QED BY <1>1, <2>1, <2>2
<1> QED BY <1>5, <1>7, <1>8, <1>9

\* makeRoomLocked frees a slot: the assertion at its end.  When it costs an
\* unexpired entry, the cache was full of them and exactly one went.
LEMMA RoomIsMade ==
    ASSUME NEW e, NEW o, NEW t \in Nat, Pair(e, o), IsFiniteSet(Keys),
           EntriesMax \in Nat \ {0}, Cardinality(DOMAIN e) <= EntriesMax,
           NEW r \in makeRoomLocked(e, o, t)
    PROVE  /\ Part(r, e, o)
           /\ Cardinality(DOMAIN r.entries) < EntriesMax
           /\ \A k \in DOMAIN e : t <= e[k].expiry /\ k \notin DOMAIN r.entries =>
                 /\ DOMAIN r.entries = DOMAIN e \ {k}
                 /\ Cardinality(DOMAIN e) = EntriesMax
                 /\ \A j \in DOMAIN e : t <= e[j].expiry /\ e[k].expiry <= e[j].expiry
<1>1. IsFiniteSet(DOMAIN e) /\ Cardinality(DOMAIN e) \in Nat
  BY FS_Subset, FS_CardinalityType DEF Pair
<1>2. CASE Cardinality(DOMAIN e) < EntriesMax
  <2>1. r = [entries |-> e, order |-> o]
    BY <1>1, <1>2 DEF makeRoomLocked
  <2> QED BY <1>2, <2>1 DEF Part
<1>3. CASE ~(Cardinality(DOMAIN e) < EntriesMax)
  <2>1. PICK c \in cleanExpiredLocked(e, o, t) :
           r \in IF Cardinality(DOMAIN c.entries) >= EntriesMax
                 THEN EvictFirstLive(c.entries, c.order) ELSE {c}
    BY <1>1, <1>3 DEF makeRoomLocked
  <2>2. /\ Part(c, e, o)
        /\ \A k \in DOMAIN e : k \in DOMAIN c.entries <=> t <= e[k].expiry
    BY CleanIsPart
  <2>3. /\ IsFiniteSet(DOMAIN c.entries)
        /\ Cardinality(DOMAIN c.entries) \in Nat
        /\ Cardinality(DOMAIN c.entries) <= Cardinality(DOMAIN e)
    BY <1>1, <2>2, FS_Subset, FS_CardinalityType DEF Part
  <2>4. CASE Cardinality(DOMAIN c.entries) >= EntriesMax
    <3>1. r \in EvictFirstLive(c.entries, c.order) /\ Pair(c.entries, c.order)
      BY <2>1, <2>2, <2>4 DEF Part
    <3>2. DOMAIN c.entries # {}
      BY <2>4, FS_EmptySet
    <3>3. PICK v \in DOMAIN c.entries :
             /\ DOMAIN r.entries = DOMAIN c.entries \ {v}
             /\ \A j \in DOMAIN c.entries : c.entries[v].expiry <= c.entries[j].expiry
      BY <3>1, <3>2, EvictTakesFirst
    <3>4. Part(r, c.entries, c.order)
      BY <3>1, <3>2, EvictTakesFirst
    <3>5. Part(r, e, o)
      BY <2>2, <3>4 DEF Part
    <3>6. Cardinality(DOMAIN r.entries) < EntriesMax
      <4>1. Cardinality(DOMAIN r.entries) = Cardinality(DOMAIN c.entries) - 1
        BY <2>3, <3>3, FS_RemoveElement
      <4> QED BY <1>1, <2>3, <4>1
    <3>7. DOMAIN c.entries = DOMAIN e /\ Cardinality(DOMAIN e) = EntriesMax
      <4>1. Cardinality(DOMAIN c.entries) = Cardinality(DOMAIN e)
        BY <1>1, <2>3, <2>4
      <4>2. DOMAIN c.entries \subseteq DOMAIN e
        BY <2>2 DEF Part
      <4>3. DOMAIN c.entries = DOMAIN e
        BY <1>1, <4>1, <4>2, FS_Subset
      <4> QED BY <1>1, <2>4, <4>3
    <3>8. ASSUME NEW k \in DOMAIN e, k \notin DOMAIN r.entries
          PROVE  /\ DOMAIN r.entries = DOMAIN e \ {k}
                 /\ \A j \in DOMAIN e : t <= e[j].expiry /\ e[k].expiry <= e[j].expiry
      <4>1. k = v
        BY <3>3, <3>7, <3>8
      <4>2. \A j \in DOMAIN e : c.entries[j] = e[j]
        BY <2>2, <3>7 DEF Part
      <4> QED BY <2>2, <3>3, <3>7, <4>1, <4>2
    <3> QED BY <3>5, <3>6, <3>7, <3>8
  <2>5. CASE ~(Cardinality(DOMAIN c.entries) >= EntriesMax)
    <3>1. r = c
      BY <2>1, <2>5
    <3>2. Cardinality(DOMAIN r.entries) < EntriesMax
      BY <2>3, <2>5, <3>1
    <3> QED BY <2>2, <3>1, <3>2
  <2> QED BY <2>4, <2>5
<1> QED BY <1>2, <1>3

\* The heap items of the entries are as many as the entries.
LEMMA ItemsAreAsMany ==
    ASSUME NEW e, IsFiniteSet(DOMAIN e)
    PROVE  /\ IsFiniteSet({ItemOf(e, k) : k \in DOMAIN e})
           /\ Cardinality({ItemOf(e, k) : k \in DOMAIN e}) = Cardinality(DOMAIN e)
<1> DEFINE T == {ItemOf(e, k) : k \in DOMAIN e}
<1> DEFINE f == [k \in DOMAIN e |-> ItemOf(e, k)]
<1>1. f \in Bijection(DOMAIN e, T)
  <2>1. f \in [DOMAIN e -> T]
    OBVIOUS
  <2>2. \A a, b \in DOMAIN e : f[a] = f[b] => a = b
    BY DEF ItemOf
  <2>3. \A t \in T : \E k \in DOMAIN e : f[k] = t
    OBVIOUS
  <2> HIDE DEF f, T
  <2> QED BY <2>1, <2>2, <2>3, Fun_IsBij
<1>2. ExistsBijection(DOMAIN e, T)
  BY <1>1, Fun_ExistsBij
<1> QED BY <1>2, FS_Bijection

(***************************************************************************)
(* The inductive invariant: TypeOK, the pair, generations that are never   *)
(* ahead of the counter (a stale item can then not look live again), and   *)
(* the two upper bounds.                                                   *)
(***************************************************************************)
GenerationsAreOld == \A i \in order : i.generation <= generationNext

CacheInv ==
    /\ TypeOK
    /\ Pair(entries, order)
    /\ GenerationsAreOld
    /\ Cardinality(DOMAIN entries) <= EntriesMax
    /\ Cardinality(order) <= 2 * EntriesMax

\* The invariant says what the run checks.
LEMMA InvImplies == CacheInv => IndexCoversEntries /\ BoundsHold
<1> SUFFICES ASSUME CacheInv PROVE IndexCoversEntries /\ BoundsHold
  OBVIOUS
<1> USE CacheAssumption
<1> DEFINE T == {ItemOf(entries, k) : k \in DOMAIN entries}
<1>1. IndexCoversEntries
  BY DEF CacheInv, Pair, IndexCoversEntries
<1>2. IsFiniteSet(DOMAIN entries) /\ IsFiniteSet(order)
  BY FS_Subset DEF CacheInv, Pair
<1>3. Cardinality(T) = Cardinality(DOMAIN entries)
  BY <1>2, ItemsAreAsMany
<1>4. T \subseteq order
  BY <1>1 DEF IndexCoversEntries
<1>5. Cardinality(T) <= Cardinality(order)
  BY <1>2, <1>4, FS_Subset
<1>6. Cardinality(DOMAIN entries) \in Nat /\ Cardinality(order) \in Nat
  BY <1>2, FS_CardinalityType
<1> QED BY <1>1, <1>3, <1>5, <1>6 DEF BoundsHold, CacheInv

\* A part of the cache is within the bounds the cache is in.
LEMMA PartKeepsBounds ==
    ASSUME CacheInv, NEW r, Part(r, entries, order)
    PROVE  /\ Cardinality(DOMAIN r.entries) <= EntriesMax
           /\ Cardinality(r.order) <= 2 * EntriesMax
           /\ \A i \in r.order : i.generation <= generationNext
           /\ DOMAIN r.entries \subseteq Keys
           /\ r.entries \in [DOMAIN r.entries -> Entry]
           /\ r.order \subseteq expiryItem
<1> USE CacheAssumption
<1>1. IsFiniteSet(DOMAIN entries) /\ IsFiniteSet(order)
  BY FS_Subset DEF CacheInv, Pair
<1>2. /\ Cardinality(DOMAIN r.entries) <= Cardinality(DOMAIN entries)
      /\ Cardinality(r.order) <= Cardinality(order)
      /\ IsFiniteSet(DOMAIN r.entries) /\ IsFiniteSet(r.order)
  BY <1>1, FS_Subset DEF Part
<1>3. /\ Cardinality(DOMAIN entries) \in Nat /\ Cardinality(order) \in Nat
      /\ Cardinality(DOMAIN r.entries) \in Nat /\ Cardinality(r.order) \in Nat
  BY <1>1, <1>2, FS_CardinalityType
<1>4. Cardinality(DOMAIN r.entries) <= EntriesMax /\ Cardinality(r.order) <= 2 * EntriesMax
  BY <1>2, <1>3 DEF CacheInv
<1>5. \A i \in r.order : i.generation <= generationNext
  BY DEF Part, CacheInv, GenerationsAreOld
<1>6. DOMAIN r.entries \subseteq Keys /\ r.order \subseteq expiryItem
  BY DEF Part, Pair
<1>7. r.entries \in [DOMAIN r.entries -> Entry]
  BY DEF Part, Pair
<1> QED BY <1>4, <1>5, <1>6, <1>7

\* Storing an entry under a new generation keeps the pair and, when there is
\* room for it, the bounds; compaction is what bounds the heap.
LEMMA StoreKeepsInv ==
    ASSUME CacheInv, NEW r, Part(r, entries, order), NEW key \in Keys, NEW x \in Nat,
           \/ Cardinality(DOMAIN r.entries) < EntriesMax
           \/ key \in DOMAIN r.entries,
           generationNext' = generationNext + 1,
           entries' = Stored(r, key, [expiry |-> x, generation |-> generationNext + 1]).entries,
           order' = Stored(r, key, [expiry |-> x, generation |-> generationNext + 1]).order,
           UNCHANGED <<now, deletes, stop, cleaner>>
    PROVE  CacheInv'
<1> USE CacheAssumption
<1> DEFINE g == generationNext + 1
<1> DEFINE entry == [expiry |-> x, generation |-> g]
<1> DEFINE e == [k \in DOMAIN r.entries \cup {key} |-> IF k = key THEN entry ELSE r.entries[k]]
<1> DEFINE o == r.order \cup {ItemOf(e, key)}
<1>1. entries' = e /\ order' = compactOrderLocked(e, o)
  BY DEF Stored
<1>2. generationNext \in Nat /\ g \in Nat /\ entry \in Entry
  BY DEF CacheInv, TypeOK, Entry
<1>3. /\ DOMAIN e = DOMAIN r.entries \cup {key}
      /\ e[key] = entry
      /\ \A k \in DOMAIN r.entries : k # key => e[k] = r.entries[k]
  OBVIOUS
<1>4. DOMAIN e \subseteq Keys /\ e \in [DOMAIN e -> Entry]
  BY <1>2, PartKeepsBounds
<1>5. ItemOf(e, key) = [expiry |-> x, key |-> key, generation |-> g]
  BY <1>3 DEF ItemOf
<1>6. o \subseteq expiryItem /\ IsFiniteSet(o)
  <2>1. ItemOf(e, key) \in expiryItem
    BY <1>2, <1>5 DEF expiryItem
  <2>2. IsFiniteSet(r.order)
    BY DEF Part, Pair
  <2>3. IsFiniteSet(o)
    BY <2>2, FS_AddElement
  <2> QED BY <2>1, <2>3, PartKeepsBounds
<1>7. ASSUME NEW k \in DOMAIN e PROVE ItemOf(e, k) \in o
  <2>1. CASE k = key
    BY <2>1
  <2>2. CASE k # key
    <3>1. k \in DOMAIN r.entries /\ ItemOf(e, k) = ItemOf(r.entries, k)
      BY <1>3, <2>2 DEF ItemOf
    <3> QED BY <3>1 DEF Part, Pair
  <2> QED BY <2>1, <2>2
<1>8. ASSUME NEW i \in o, liveLocked(e, i) PROVE i = ItemOf(e, i.key)
  <2>1. CASE i = ItemOf(e, key)
    BY <1>5, <2>1
  <2>2. CASE i \in r.order
    <3>1. i.generation <= generationNext /\ i \in expiryItem
      BY <2>2, PartKeepsBounds
    <3>2. i.key # key
      BY <1>2, <1>3, <1>8, <3>1 DEF liveLocked, expiryItem
    <3>3. liveLocked(r.entries, i)
      BY <1>3, <1>8, <3>2 DEF liveLocked
    <3>4. i = ItemOf(r.entries, i.key)
      BY <2>2, <3>3 DEF Part, Pair
    <3>5. i.key \in DOMAIN r.entries
      BY <3>3 DEF liveLocked
    <3> QED BY <1>3, <3>2, <3>4, <3>5 DEF ItemOf
  <2> QED BY <2>1, <2>2
<1>9. IsFiniteSet(DOMAIN e) /\ Cardinality(DOMAIN e) \in Nat /\ Cardinality(o) \in Nat
  BY <1>4, <1>6, FS_Subset, FS_CardinalityType
<1>10. Cardinality(DOMAIN e) <= EntriesMax
  <2>1. IsFiniteSet(DOMAIN r.entries) /\ Cardinality(DOMAIN r.entries) \in Nat
    BY PartKeepsBounds, FS_Subset, FS_CardinalityType
  <2>2. Cardinality(DOMAIN e) = IF key \in DOMAIN r.entries THEN Cardinality(DOMAIN r.entries)
                               ELSE Cardinality(DOMAIN r.entries) + 1
    BY <1>3, <2>1, FS_AddElement
  <2>3. Cardinality(DOMAIN r.entries) <= EntriesMax
    BY PartKeepsBounds
  <2> QED BY <2>1, <2>2, <2>3
<1> DEFINE T == {ItemOf(e, k) : k \in DOMAIN e}
<1>11. order' = o \/ order' = T
  BY <1>1 DEF compactOrderLocked
<1>12. T \subseteq o
  BY <1>7
<1>13. order' \subseteq o
  BY <1>11, <1>12
<1>14. Pair(e, order')
  <2>1. IsFiniteSet(order')
    BY <1>6, <1>13, FS_Subset
  <2>2. \A k \in DOMAIN e : ItemOf(e, k) \in order'
    BY <1>7, <1>11
  <2>3. \A i \in order' : liveLocked(e, i) => i = ItemOf(e, i.key)
    BY <1>8, <1>13
  <2> QED BY <1>4, <1>6, <1>13, <2>1, <2>2, <2>3 DEF Pair
<1>15. Cardinality(order') <= 2 * EntriesMax
  <2>1. CASE Cardinality(o) <= 2 * EntriesMax
    BY <1>1, <2>1 DEF compactOrderLocked
  <2>2. CASE ~(Cardinality(o) <= 2 * EntriesMax)
    <3>1. order' = T
      BY <1>1, <2>2 DEF compactOrderLocked
    <3>2. Cardinality(T) = Cardinality(DOMAIN e)
      BY <1>9, ItemsAreAsMany
    <3>3. Cardinality(DOMAIN e) <= 2 * EntriesMax
      <4> HIDE DEF e
      <4> QED BY <1>9, <1>10
    <3> HIDE DEF T
    <3> QED BY <3>1, <3>2, <3>3
  <2> QED BY <2>1, <2>2
<1>16. ASSUME NEW i \in order' PROVE i.generation <= generationNext'
  <2>1. CASE i = ItemOf(e, key)
    BY <1>2, <1>5, <2>1
  <2>2. CASE i \in r.order
    BY <1>2, <2>2, PartKeepsBounds DEF expiryItem
  <2> QED BY <1>13, <1>16, <2>1, <2>2
<1>17. TypeOK'
  BY <1>1, <1>2, <1>4, <1>6, <1>13 DEF TypeOK, CacheInv
<1> QED BY <1>1, <1>10, <1>14, <1>15, <1>16, <1>17 DEF CacheInv, GenerationsAreOld

\* A method that takes entries and items away keeps the invariant.
LEMMA PartKeepsInv ==
    ASSUME CacheInv, NEW r, Part(r, entries, order),
           entries' = r.entries, order' = r.order,
           now' \in Nat, deletes' \in [Keys -> Nat], cleaner' \in BOOLEAN,
           UNCHANGED <<generationNext, stop>>
    PROVE  CacheInv'
<1>1. Pair(entries', order')
  BY DEF Part
<1>2. TypeOK'
  BY PartKeepsBounds DEF CacheInv, TypeOK
<1> QED BY <1>1, <1>2, PartKeepsBounds DEF CacheInv, GenerationsAreOld

\* The cache that lost the entry of one key is a part of it: its item stays
\* in the heap and is stale.
LEMMA WithoutIsPart ==
    ASSUME CacheInv, NEW ks
    PROVE  Part([entries |-> Without(entries, ks), order |-> order], entries, order)
<1> DEFINE r == Without(entries, ks)
<1>1. DOMAIN r = DOMAIN entries \ ks /\ \A k \in DOMAIN r : r[k] = entries[k]
  BY DEF Without
<1>2. Pair(entries, order)
  BY DEF CacheInv
<1>3. r \in [DOMAIN r -> Entry]
  BY <1>1, <1>2 DEF Without, Pair
<1>4. \A k \in DOMAIN r : ItemOf(r, k) \in order
  BY <1>1, <1>2 DEF Pair, ItemOf
<1>5. \A i \in order : liveLocked(r, i) => i = ItemOf(r, i.key)
  BY <1>1, <1>2 DEF Pair, ItemOf, liveLocked
<1>6. Pair(r, order)
  BY <1>1, <1>2, <1>3, <1>4, <1>5 DEF Pair
<1> QED BY <1>1, <1>6 DEF Part

\* The empty cache is a part of every cache.
LEMMA EmptyIsPart ==
    Part([entries |-> [k \in {} |-> 0], order |-> {}], entries, order)
  BY FS_EmptySet DEF Part, Pair, expiryItem, Entry

\* What SetWithTTL does is the store of an entry into a part with room.
LEMMA SetMakesRoom ==
    ASSUME CacheInv, NEW key \in Keys,
           NEW r \in IF key \in DOMAIN entries THEN {[entries |-> entries, order |-> order]}
                    ELSE makeRoomLocked(entries, order, now)
    PROVE  /\ Part(r, entries, order)
           /\ \/ Cardinality(DOMAIN r.entries) < EntriesMax
              \/ key \in DOMAIN r.entries
<1> USE CacheAssumption
<1>1. CASE key \in DOMAIN entries
  <2>1. r = [entries |-> entries, order |-> order]
    BY <1>1
  <2> QED BY <1>1, <2>1 DEF Part, CacheInv
<1>2. CASE key \notin DOMAIN entries
  <2>1. r \in makeRoomLocked(entries, order, now) /\ now \in Nat
    BY <1>2 DEF CacheInv, TypeOK
  <2> QED BY <2>1, RoomIsMade DEF CacheInv
<1> QED BY <1>1, <1>2

\* Every step keeps the invariant.
LEMMA InvIsInductive == CacheInv /\ [Next]_vars => CacheInv'
<1> SUFFICES ASSUME CacheInv, [Next]_vars PROVE CacheInv'
  OBVIOUS
<1> USE CacheAssumption
<1>t. /\ now \in Nat /\ deletes \in [Keys -> Nat] /\ stop \in BOOLEAN
      /\ cleaner \in BOOLEAN
  BY DEF CacheInv, TypeOK
<1>self. Part([entries |-> entries, order |-> order], entries, order)
  BY DEF Part, CacheInv
<1>1. ASSUME NEW key \in Keys, Get(key) PROVE CacheInv'
  <2>1. deletes' \in [Keys -> Nat]
    BY <1>1, <1>t DEF Get
  <2> QED BY <1>1, <1>t, <1>self, <2>1, PartKeepsInv DEF Get
<1>2. ASSUME NEW key \in Keys, CallDelete(key) PROVE CacheInv'
  BY <1>2, <1>t, WithoutIsPart, PartKeepsInv DEF CallDelete, Delete
<1>3. ASSUME NEW key \in Keys, AsyncDelete(key) PROVE CacheInv'
  <2>1. deletes' \in [Keys -> Nat]
    BY <1>3, <1>t DEF AsyncDelete
  <2> QED BY <1>3, <1>t, <2>1, WithoutIsPart, PartKeepsInv DEF AsyncDelete, Delete
<1>4. ASSUME NEW key \in Keys, NEW ttl \in TTLs, SetWithTTL(key, ttl) PROVE CacheInv'
  <2>1. PICK r \in IF key \in DOMAIN entries THEN {[entries |-> entries, order |-> order]}
                   ELSE makeRoomLocked(entries, order, now) :
           /\ entries' = Stored(r, key, [expiry |-> now + ttl,
                                         generation |-> generationNext + 1]).entries
           /\ order' = Stored(r, key, [expiry |-> now + ttl,
                                       generation |-> generationNext + 1]).order
    BY <1>4 DEF SetWithTTL
  <2>2. now + ttl \in Nat
    BY <1>t
  <2> QED BY <1>4, <2>1, <2>2, SetMakesRoom, StoreKeepsInv DEF SetWithTTL
<1>5. ASSUME Clear PROVE CacheInv'
  BY <1>5, <1>t, EmptyIsPart, PartKeepsInv DEF Clear
<1>6. ASSUME CleanExpired PROVE CacheInv'
  <2>1. PICK r \in cleanExpiredLocked(entries, order, now) :
           entries' = r.entries /\ order' = r.order
    BY <1>6 DEF CleanExpired
  <2>2. Part(r, entries, order)
    BY <1>t, CleanIsPart DEF CacheInv
  <2> QED BY <1>6, <1>t, <2>1, <2>2, PartKeepsInv DEF CleanExpired
<1>7. ASSUME Stop PROVE CacheInv'
  BY <1>7 DEF Stop, CacheInv, TypeOK, GenerationsAreOld
<1>8. ASSUME CleanupEnds PROVE CacheInv'
  BY <1>8, <1>t, <1>self, PartKeepsInv DEF CleanupEnds
<1>9. ASSUME TimePasses PROVE CacheInv'
  <2>1. now' \in Nat
    BY <1>9, <1>t DEF TimePasses
  <2> QED BY <1>9, <1>t, <1>self, <2>1, PartKeepsInv DEF TimePasses
<1>10. ASSUME UNCHANGED vars PROVE CacheInv'
  BY <1>10, <1>t, <1>self, PartKeepsInv DEF vars
<1> QED BY <1>1, <1>2, <1>3, <1>4, <1>5, <1>6, <1>7, <1>8, <1>9, <1>10 DEF Next, Tick

\* The new cache satisfies the invariant.
LEMMA InitSatisfiesInv == NewCache => CacheInv
<1> SUFFICES ASSUME NewCache PROVE CacheInv
  OBVIOUS
<1> USE CacheAssumption
<1>1. DOMAIN entries = {} /\ order = {} /\ Cardinality({}) = 0
  BY FS_EmptySet DEF NewCache
<1>2. TypeOK
  BY DEF NewCache, TypeOK, Entry, expiryItem
<1>3. Pair(entries, order)
  BY <1>1, FS_EmptySet DEF NewCache, Pair, Entry, expiryItem
<1> QED BY <1>1, <1>2, <1>3 DEF CacheInv, GenerationsAreOld

\* The inductive invariant holds throughout.
LEMMA InvHolds == Spec => []CacheInv
  BY InitSatisfiesInv, InvIsInductive, PTL DEF Spec

\* For every set of keys and every cap: each entry has its item in the heap
\* (cache.go, lazy deletion), so that no eviction or sweep can miss it.
THEOREM CacheIsIndexed == Spec => []IndexCoversEntries
<1>1. CacheInv => IndexCoversEntries
  BY InvImplies
<1> QED BY <1>1, InvHolds, PTL

\* For every set of keys and every cap: the cap holds and the heap is never
\* larger than twice the cap, as the assertions of SetWithTTL say.
THEOREM CacheIsBounded == Spec => []BoundsHold
<1>1. CacheInv => BoundsHold
  BY InvImplies
<1> QED BY <1>1, InvHolds, PTL

\* For every set of keys and every cap: storing a value evicts an unexpired
\* entry only from a cache full of them, and then the one closest to expiry.
THEOREM CacheEvictsFairly == Spec => EvictionIsFair
<1> USE CacheAssumption
<1> DEFINE fresh == {k \in DOMAIN entries : now <= entries[k].expiry}
<1> DEFINE lost == fresh \ DOMAIN entries'
<1> DEFINE Fair == generationNext' # generationNext /\ lost # {} =>
              /\ fresh = DOMAIN entries
              /\ Cardinality(fresh) = EntriesMax
              /\ Cardinality(lost) = 1
              /\ \A k \in lost, j \in fresh : entries[k].expiry <= entries[j].expiry
<1>1. CacheInv /\ [Next]_vars => [Fair]_vars
  <2> SUFFICES ASSUME CacheInv, Next, generationNext' # generationNext, lost # {}
               PROVE  Fair
    BY DEF vars
  <2>1. PICK key \in Keys, ttl \in TTLs : SetWithTTL(key, ttl)
    BY DEF Next, Get, CallDelete, AsyncDelete, Delete, Clear, Tick, CleanExpired, Stop,
           CleanupEnds, TimePasses
  <2>2. PICK r \in IF key \in DOMAIN entries THEN {[entries |-> entries, order |-> order]}
                   ELSE makeRoomLocked(entries, order, now) :
           entries' = Stored(r, key, [expiry |-> now + ttl,
                                      generation |-> generationNext + 1]).entries
    BY <2>1 DEF SetWithTTL
  <2>3. DOMAIN entries' = DOMAIN r.entries \cup {key}
    BY <2>2 DEF Stored
  <2>4. key \notin DOMAIN entries
    BY <2>2, <2>3
  <2>5. r \in makeRoomLocked(entries, order, now) /\ now \in Nat
    BY <2>2, <2>4 DEF CacheInv, TypeOK
  <2>6. \A k \in DOMAIN entries : now <= entries[k].expiry /\ k \notin DOMAIN r.entries =>
           /\ DOMAIN r.entries = DOMAIN entries \ {k}
           /\ Cardinality(DOMAIN entries) = EntriesMax
           /\ \A j \in DOMAIN entries : /\ now <= entries[j].expiry
                                        /\ entries[k].expiry <= entries[j].expiry
    BY <2>5, RoomIsMade DEF CacheInv
  <2>7. PICK k \in lost : TRUE
    OBVIOUS
  <2>8. k \in DOMAIN entries /\ now <= entries[k].expiry /\ k \notin DOMAIN r.entries
    BY <2>3, <2>7
  <2>9. /\ DOMAIN r.entries = DOMAIN entries \ {k}
        /\ Cardinality(DOMAIN entries) = EntriesMax
        /\ \A j \in DOMAIN entries : /\ now <= entries[j].expiry
                                     /\ entries[k].expiry <= entries[j].expiry
    BY <2>6, <2>8
  <2>10. fresh = DOMAIN entries /\ lost = {k}
    BY <2>3, <2>4, <2>7, <2>9
  <2>11. Cardinality({k}) = 1
    BY FS_Singleton
  <2> HIDE DEF fresh, lost
  <2> QED BY <2>9, <2>10, <2>11
<1>2. CacheInv /\ [Next]_vars => CacheInv'
  BY InvIsInductive
<1>3. NewCache => CacheInv
  BY InitSatisfiesInv
<1> QED BY <1>1, <1>2, <1>3, PTL DEF Spec, EvictionIsFair

-----------------------------------------------------------------------------
(***************************************************************************)
(* The streamed scan.  As long as nothing has failed, what has been listed *)
(* is a prefix of the inventory of the plan, cut into six pieces: what the *)
(* host passed on, what it holds, the messages on the wire, what           *)
(* streamResources holds, the channel and what the producer has still to   *)
(* send (Flow).  The plan in turn covers what was asked of the clusters    *)
(* visited, but for what discovery left out (Covered).                     *)
(***************************************************************************)
Type == Nat \X Nat

Item == [of : Type, page : Nat]

Producers ==
    [pc : {"discover", "list", "send", "close", "report", "done"}, at : Nat, page : 1..Pages,
     refs : Seq(Item), failed : BOOLEAN, err : BOOLEAN]

Consumers == [pc : {"forward", "drain", "wait", "returned"}, held : Seq(Item), sendErr : BOOLEAN]

Hosts == [pc : {"recv", "send", "returned"}, held : Seq(Item), result : {"none", "nil", "error"}]

StreamTypes ==
    /\ request \in Requests /\ over \in BOOLEAN /\ alive \in BOOLEAN
    /\ cluster \in Nat /\ plan \in Seq(Type)
    /\ cancelled \in BOOLEAN /\ closed \in BOOLEAN
    /\ chan \in Seq(Item) /\ wire \in Seq(Item) /\ got \in Seq(Item)
    /\ prod \in Producers /\ cons \in Consumers /\ host \in Hosts
    /\ ended \in {"no", "nil", "error"}

\* Where the producer, streamResources and the host are, relative to each other.
StreamPhases ==
    /\ cancelled => cons.sendErr
    /\ prod.pc \in {"discover", "list"} => prod.refs = <<>>
    /\ prod.pc \in {"discover", "list", "send"} => ~prod.err
    /\ prod.pc = "discover" => ~prod.failed /\ prod.at = Len(plan) /\ cluster # 0
    /\ prod.pc \in {"list", "send"} => prod.at \in 1..Len(plan)
    /\ prod.pc = "list" /\ request.style = "refs" => prod.page = 1
    /\ prod.pc = "send" /\ request.style = "refs" => prod.page = Pages
    /\ prod.pc \in {"close", "report", "done"} /\ ~prod.err =>
           ~prod.failed /\ prod.refs = <<>> /\ prod.at = Len(plan)
    /\ closed => prod.pc \in {"report", "done"}
    /\ cons.pc = "drain" => cons.sendErr /\ cons.held = <<>>
    /\ cons.pc \in {"wait", "returned"} => closed /\ chan = <<>> /\ cons.held = <<>>
    /\ ended = "no" <=> cons.pc # "returned"
    /\ ended # "no" => prod.pc = "done"
    /\ ended = "nil" => cluster = Streams /\ ~prod.err
    /\ host.pc = "recv" => host.held = <<>> /\ host.result = "none"
    /\ host.pc = "send" => host.result = "none"
    /\ host.result = "nil" => wire = <<>> /\ host.held = <<>> /\ ended = "nil"

\* Nothing has failed so far, or the handler has already ended without an error.
Clean ==
    /\ host.result # "error"
    /\ ended = "nil" \/ ~(prod.failed \/ prod.err \/ cons.sendErr \/ over)

\* The place in the inventory of page p of the type at place n of the plan.
Rank(n, p) == (n - 1) * Pages + p

\* s is the inventory of the types y after its first x resources, as far as s goes.
RunFrom(y, x, s) == \A i \in 1..Len(s) : s[i] = Nth(y, x + i)

\* The pieces follow each other in the inventory of y.
Flow(y, g, h, w, k, c, r) ==
    /\ RunFrom(y, 0, g)
    /\ RunFrom(y, Len(g), h)
    /\ RunFrom(y, Len(g) + Len(h), w)
    /\ RunFrom(y, Len(g) + Len(h) + Len(w), k)
    /\ RunFrom(y, Len(g) + Len(h) + Len(w) + Len(k), c)
    /\ RunFrom(y, Len(g) + Len(h) + Len(w) + Len(k) + Len(c), r)

Total(g, h, w, k, c, r) == Len(g) + Len(h) + Len(w) + Len(k) + Len(c) + Len(r)

\* How far a producer at pc has listed.
Reached(pc, n, p) ==
    IF pc = "list" THEN Rank(n, p) - 1
    ELSE IF pc = "send" THEN Rank(n, p)
    ELSE Rank(n, Pages)

Conserved ==
    Clean =>
        /\ Flow(plan, got, host.held, wire, cons.held, chan, prod.refs)
        /\ Total(got, host.held, wire, cons.held, chan, prod.refs)
               = Reached(prod.pc, prod.at, prod.page)

StreamInv == StreamTypes /\ StreamPhases /\ Conserved

\* The types y are what was wanted of the first v clusters, but for `gone`.
Covers(y, v, wanted, gone) ==
    /\ TypesOf(y) = ((1..v) \X wanted) \ gone
    /\ \A x \in gone : \E c \in 1..v, t \in Nat : x = <<c, t>>

\* The clusters whose types are in the plan: all visited before this one, and
\* this one once its types are taken up.
Covered ==
    /\ prod.pc = "discover" => Covers(plan, cluster - 1, Wanted, skipped)
    /\ prod.pc # "discover" /\ ~prod.err => Covers(plan, cluster, Wanted, skipped)

-----------------------------------------------------------------------------
(***************************************************************************)
(* Ranks.                                                                  *)
(***************************************************************************)
\* Division undoes what the rank of a page is made of.
LEMMA DivMod ==
    ASSUME NEW q \in Nat, NEW d \in Nat \ {0}, NEW r \in 0..(d - 1)
    PROVE  (q * d + r) \div d = q /\ (q * d + r) % d = r
OBVIOUS

\* The resource at the rank of a page is the resource of that page.
LEMMA NthOfRank ==
    ASSUME NEW y, NEW n \in Nat \ {0}, NEW p \in 1..Pages
    PROVE  Rank(n, p) \in Nat \ {0} /\ Nth(y, Rank(n, p)) = Resource(y[n], p)
<1> USE StreamAssumption
<1> DEFINE a == n - 1
           s == p - 1
           m == a * Pages + s
<1>1. a \in Nat /\ s \in 0..(Pages - 1)
  OBVIOUS
<1>2. m \in Nat /\ a * Pages \in Nat
  <2> HIDE DEF a, s
  <2> QED BY <1>1
<1>3. Rank(n, p) = m + 1
  <2> DEFINE z == a * Pages
  <2>1. z \in Nat BY <1>2
  <2>2. Rank(n, p) = z + p
    BY DEF Rank
  <2> HIDE DEF z
  <2>3. z + p = (z + (p - 1)) + 1
    BY <2>1
  <2> QED BY <2>2, <2>3 DEF z
<1>4. m \div Pages = a /\ m % Pages = s
  <2> HIDE DEF a, s
  <2> QED BY <1>1, DivMod
<1>5. Nth(y, m + 1) = Resource(y[a + 1], s + 1)
  <2> HIDE DEF a, s, m
  <2>1. (m + 1) - 1 = m
    BY <1>2
  <2> QED BY <1>4, <2>1 DEF Nth
<1>6. a + 1 = n /\ s + 1 = p
  OBVIOUS
<1> QED
  <2> HIDE DEF a, s, m
  <2> QED BY <1>2, <1>3, <1>5, <1>6

\* The ranks of pages that follow each other.
LEMMA RankSteps ==
    ASSUME NEW n \in Nat, NEW p \in 1..Pages
    PROVE  /\ Rank(n, p + 1) = Rank(n, p) + 1
           /\ Rank(n, p) = Rank(n, 1) - 1 + p
           /\ Rank(n + 1, 1) - 1 = Rank(n, Pages)
           /\ Rank(n, Pages) = n * Pages
           /\ Rank(n, p) \in Int /\ Rank(n, Pages) \in Nat
<1> USE StreamAssumption DEF Rank
<1>1. Rank(n, p + 1) = Rank(n, p) + 1
  OBVIOUS
<1>2. Rank(n, p) = Rank(n, 1) - 1 + p
  OBVIOUS
<1>3. Rank(n + 1, 1) - 1 = Rank(n, Pages)
  OBVIOUS
<1>4. Rank(n, Pages) = n * Pages
  OBVIOUS
<1>5. Rank(n, p) \in Int /\ n * Pages \in Nat
  OBVIOUS
<1> HIDE DEF Rank
<1> QED BY <1>1, <1>2, <1>3, <1>4, <1>5

\* A number is made of its quotient and its remainder.
LEMMA Division ==
    ASSUME NEW m \in Nat, NEW d \in Nat \ {0}
    PROVE  m = (m \div d) * d + (m % d) /\ m \div d \in Nat /\ m % d \in 0..(d - 1)
OBVIOUS

\* Types added at the end leave the inventory before them as it was.
LEMMA NthOfLonger ==
    ASSUME NEW y \in Seq(Type), NEW z \in Seq(Type), NEW x \in 1..(Len(y) * Pages)
    PROVE  Nth(y \o z, x) = Nth(y, x)
<1> USE StreamAssumption
<1> DEFINE d == (x - 1) \div Pages
           e == (x - 1) % Pages
           L == Len(y)
<1>1. L \in Nat /\ x - 1 \in Nat
  OBVIOUS
<1>2. x - 1 = d * Pages + e /\ d \in Nat /\ e \in 0..(Pages - 1)
  BY <1>1, Division
<1>3. x - 1 < L * Pages
  BY <1>1
<1>4. d < L
  <2> HIDE DEF d, e, L
  <2> DEFINE u == d * Pages
             v == L * Pages
  <2>1. u < v
    <3>1. u \in Nat /\ v \in Nat
      BY <1>1, <1>2
    <3>2. x - 1 = u + e /\ x - 1 < v
      BY <1>2, <1>3
    <3> HIDE DEF u, v
    <3> QED BY <1>2, <3>1, <3>2
  <2> QED BY <1>1, <1>2, <2>1
<1>5. d + 1 \in 1..L
  <2> HIDE DEF d, L
  <2> QED BY <1>1, <1>2, <1>4
<1>6. (y \o z)[d + 1] = y[d + 1]
  BY <1>5
<1> QED BY <1>6 DEF Nth

(***************************************************************************)
(* Runs of the inventory, and the six pieces they are cut into.            *)
(***************************************************************************)
\* The head of a run moves to the end of the run before it.
LEMMA RunMoveHead ==
    ASSUME NEW y, NEW S, NEW x \in Nat, NEW a \in Seq(S), NEW b \in Seq(S), b # <<>>,
           RunFrom(y, x, a), RunFrom(y, x + Len(a), b)
    PROVE  /\ Append(a, Head(b)) \in Seq(S) /\ Tail(b) \in Seq(S)
           /\ Len(Append(a, Head(b))) = Len(a) + 1
           /\ Len(b) = Len(Tail(b)) + 1
           /\ RunFrom(y, x, Append(a, Head(b)))
           /\ RunFrom(y, x + (Len(a) + 1), Tail(b))
<1>1. Head(b) = b[1] /\ Head(b) \in S /\ Tail(b) \in Seq(S) /\ Len(Tail(b)) = Len(b) - 1
  OBVIOUS
<1>2. ASSUME NEW i \in 1..Len(Tail(b)) PROVE Tail(b)[i] = b[i + 1]
  OBVIOUS
<1>3. b[1] = Nth(y, x + Len(a) + 1)
  BY DEF RunFrom
<1>4. ASSUME NEW i \in 1..Len(Append(a, Head(b))) PROVE Append(a, Head(b))[i] = Nth(y, x + i)
  <2>1. CASE i \in 1..Len(a)
    BY <2>1 DEF RunFrom
  <2>2. CASE i = Len(a) + 1
    <3>1. Append(a, Head(b))[i] = Head(b)
      BY <1>1, <2>2
    <3>2. x + i = x + Len(a) + 1
      BY <2>2
    <3> QED BY <1>1, <1>3, <3>1, <3>2
  <2> QED BY <1>1, <2>1, <2>2
<1>5. ASSUME NEW i \in 1..Len(Tail(b)) PROVE Tail(b)[i] = Nth(y, x + (Len(a) + 1) + i)
  <2>1. i + 1 \in 1..Len(b)
    BY <1>1
  <2>2. b[i + 1] = Nth(y, x + Len(a) + (i + 1))
    BY <2>1 DEF RunFrom
  <2>3. x + Len(a) + (i + 1) = x + (Len(a) + 1) + i
    OBVIOUS
  <2> QED BY <1>2, <2>2, <2>3
<1> QED BY <1>1, <1>4, <1>5 DEF RunFrom

\* Two runs that follow each other are one.
LEMMA RunConcat ==
    ASSUME NEW y, NEW S, NEW x \in Nat, NEW a \in Seq(S), NEW b \in Seq(S),
           RunFrom(y, x, a), RunFrom(y, x + Len(a), b)
    PROVE  a \o b \in Seq(S) /\ Len(a \o b) = Len(a) + Len(b) /\ RunFrom(y, x, a \o b)
<1>1. a \o b \in Seq(S) /\ Len(a \o b) = Len(a) + Len(b)
  OBVIOUS
<1>2. ASSUME NEW i \in 1..Len(a \o b) PROVE (a \o b)[i] = Nth(y, x + i)
  <2>1. CASE i \in 1..Len(a)
    <3>1. (a \o b)[i] = a[i]
      BY <2>1
    <3> QED BY <2>1, <3>1 DEF RunFrom
  <2>2. CASE i \notin 1..Len(a)
    <3>1. i - Len(a) \in 1..Len(b) /\ (a \o b)[i] = b[i - Len(a)]
      BY <1>1, <2>2
    <3>2. b[i - Len(a)] = Nth(y, x + Len(a) + (i - Len(a)))
      BY <3>1 DEF RunFrom
    <3>3. x + Len(a) + (i - Len(a)) = x + i
      OBVIOUS
    <3> QED BY <3>1, <3>2, <3>3
  <2> QED BY <2>1, <2>2
<1> QED BY <1>1, <1>2 DEF RunFrom

\* Nothing is a run from anywhere.
LEMMA RunEmpty ==
    ASSUME NEW y, NEW x PROVE RunFrom(y, x, <<>>)
BY DEF RunFrom

\* The six pieces are sequences of resources.
Pieces(g, h, w, k, c, r) ==
    /\ g \in Seq(Item) /\ h \in Seq(Item) /\ w \in Seq(Item)
    /\ k \in Seq(Item) /\ c \in Seq(Item) /\ r \in Seq(Item)

\* The producer sends its first resource on the channel: the pieces hold the
\* same stretch of the inventory as before.  So in the four lemmas after this.
LEMMA FlowEmit ==
    ASSUME NEW y, NEW g, NEW h, NEW w, NEW k, NEW c, NEW r,
           Pieces(g, h, w, k, c, r), Flow(y, g, h, w, k, c, r), r # <<>>
    PROVE  /\ Pieces(g, h, w, k, Append(c, Head(r)), Tail(r))
           /\ Flow(y, g, h, w, k, Append(c, Head(r)), Tail(r))
           /\ Total(g, h, w, k, Append(c, Head(r)), Tail(r)) = Total(g, h, w, k, c, r)
<1> DEFINE x == Len(g) + Len(h) + Len(w) + Len(k)
<1>1. x \in Nat /\ c \in Seq(Item) /\ r \in Seq(Item) /\ Len(c) \in Nat
  BY DEF Pieces
<1>2. RunFrom(y, x, c) /\ RunFrom(y, x + Len(c), r)
  BY DEF Flow
<1> HIDE DEF x
<1>3. /\ Append(c, Head(r)) \in Seq(Item) /\ Tail(r) \in Seq(Item)
      /\ Len(Append(c, Head(r))) = Len(c) + 1
      /\ Len(r) = Len(Tail(r)) + 1
      /\ RunFrom(y, x, Append(c, Head(r)))
      /\ RunFrom(y, x + (Len(c) + 1), Tail(r))
  BY <1>1, <1>2, RunMoveHead
<1>4. Pieces(g, h, w, k, Append(c, Head(r)), Tail(r))
  BY <1>3 DEF Pieces
<1>5. Flow(y, g, h, w, k, Append(c, Head(r)), Tail(r))
  BY <1>3 DEF Flow, x
<1>6. Total(g, h, w, k, Append(c, Head(r)), Tail(r)) = Total(g, h, w, k, c, r)
  <2>1. x + (Len(c) + 1) + Len(Tail(r)) = x + Len(c) + (Len(Tail(r)) + 1)
    BY <1>1, <1>3
  <2> QED BY <1>3, <2>1 DEF Total, x
<1> QED BY <1>4, <1>5, <1>6

\* streamResources takes a resource from the channel.
LEMMA FlowReceive ==
    ASSUME NEW y, NEW g, NEW h, NEW w, NEW c, NEW r,
           Pieces(g, h, w, <<>>, c, r), Flow(y, g, h, w, <<>>, c, r), c # <<>>
    PROVE  /\ Pieces(g, h, w, <<Head(c)>>, Tail(c), r)
           /\ Flow(y, g, h, w, <<Head(c)>>, Tail(c), r)
           /\ Total(g, h, w, <<Head(c)>>, Tail(c), r) = Total(g, h, w, <<>>, c, r)
<1> DEFINE x == Len(g) + Len(h) + Len(w)
<1>1. x \in Nat /\ c \in Seq(Item) /\ <<>> \in Seq(Item) /\ Len(<<>>) = 0 /\ Len(c) \in Nat
      /\ r \in Seq(Item) /\ Len(r) \in Nat
  BY DEF Pieces
<1>2. RunFrom(y, x, <<>>) /\ RunFrom(y, x + Len(<<>>), c) /\ RunFrom(y, x + Len(<<>>) + Len(c), r)
  BY DEF Flow
<1> HIDE DEF x
<1>a. Append(<<>>, Head(c)) = <<Head(c)>>
  OBVIOUS
<1>3. /\ <<Head(c)>> \in Seq(Item) /\ Tail(c) \in Seq(Item)
      /\ Len(<<Head(c)>>) = 1
      /\ Len(c) = Len(Tail(c)) + 1
      /\ RunFrom(y, x, <<Head(c)>>)
      /\ RunFrom(y, x + 1, Tail(c))
  <2>1. /\ Append(<<>>, Head(c)) \in Seq(Item) /\ Tail(c) \in Seq(Item)
        /\ Len(Append(<<>>, Head(c))) = Len(<<>>) + 1
        /\ Len(c) = Len(Tail(c)) + 1
        /\ RunFrom(y, x, Append(<<>>, Head(c)))
        /\ RunFrom(y, x + (Len(<<>>) + 1), Tail(c))
    BY <1>1, <1>2, RunMoveHead
  <2> QED BY <1>1, <1>a, <2>1
<1>4. Pieces(g, h, w, <<Head(c)>>, Tail(c), r)
  BY <1>3 DEF Pieces
<1>5. RunFrom(y, x + 1 + Len(Tail(c)), r)
  <2>1. x + Len(<<>>) + Len(c) = x + 1 + Len(Tail(c))
    BY <1>1, <1>3
  <2> QED BY <1>2, <2>1
<1>6. Flow(y, g, h, w, <<Head(c)>>, Tail(c), r)
  BY <1>3, <1>5 DEF Flow, x
<1>7. Total(g, h, w, <<Head(c)>>, Tail(c), r) = Total(g, h, w, <<>>, c, r)
  <2>1. x + 1 + Len(Tail(c)) + Len(r) = x + 0 + Len(c) + Len(r)
    BY <1>1, <1>3
  <2> QED BY <1>1, <1>3, <2>1 DEF Total, x
<1> QED BY <1>4, <1>6, <1>7

\* What streamResources holds goes on the wire.
LEMMA FlowSend ==
    ASSUME NEW y, NEW g, NEW h, NEW w, NEW k, NEW c, NEW r,
           Pieces(g, h, w, k, c, r), Flow(y, g, h, w, k, c, r)
    PROVE  /\ Pieces(g, h, w \o k, <<>>, c, r)
           /\ Flow(y, g, h, w \o k, <<>>, c, r)
           /\ Total(g, h, w \o k, <<>>, c, r) = Total(g, h, w, k, c, r)
<1> DEFINE x == Len(g) + Len(h)
<1>1. x \in Nat /\ w \in Seq(Item) /\ k \in Seq(Item) /\ Len(w) \in Nat /\ Len(k) \in Nat
      /\ Len(<<>>) = 0 /\ Len(c) \in Nat /\ Len(r) \in Nat /\ <<>> \in Seq(Item)
  BY DEF Pieces
<1>2. RunFrom(y, x, w) /\ RunFrom(y, x + Len(w), k) /\ RunFrom(y, x + Len(w) + Len(k), c)
      /\ RunFrom(y, x + Len(w) + Len(k) + Len(c), r)
  BY DEF Flow
<1> HIDE DEF x
<1>3. w \o k \in Seq(Item) /\ Len(w \o k) = Len(w) + Len(k) /\ RunFrom(y, x, w \o k)
  BY <1>1, <1>2, RunConcat
<1>4. x + Len(w \o k) + Len(<<>>) = x + Len(w) + Len(k)
  BY <1>1, <1>3
<1>5. Pieces(g, h, w \o k, <<>>, c, r)
  BY <1>1, <1>3 DEF Pieces
<1>6. /\ RunFrom(y, x + Len(w \o k) + Len(<<>>), c)
      /\ RunFrom(y, x + Len(w \o k) + Len(<<>>) + Len(c), r)
  BY <1>2, <1>4
<1>7. Flow(y, g, h, w \o k, <<>>, c, r)
  BY <1>2, <1>3, <1>6, RunEmpty DEF Flow, x
<1>8. Total(g, h, w \o k, <<>>, c, r) = Total(g, h, w, k, c, r)
  BY <1>4 DEF Total, x
<1> QED BY <1>5, <1>7, <1>8

\* The host takes a message from the wire.
LEMMA FlowRecv ==
    ASSUME NEW y, NEW g, NEW w, NEW k, NEW c, NEW r,
           Pieces(g, <<>>, w, k, c, r), Flow(y, g, <<>>, w, k, c, r), w # <<>>
    PROVE  /\ Pieces(g, <<Head(w)>>, Tail(w), k, c, r)
           /\ Flow(y, g, <<Head(w)>>, Tail(w), k, c, r)
           /\ Total(g, <<Head(w)>>, Tail(w), k, c, r) = Total(g, <<>>, w, k, c, r)
<1> DEFINE x == Len(g)
<1>1. x \in Nat /\ w \in Seq(Item) /\ <<>> \in Seq(Item) /\ Len(<<>>) = 0 /\ Len(w) \in Nat
      /\ Len(k) \in Nat /\ Len(c) \in Nat /\ Len(r) \in Nat
  BY DEF Pieces
<1>2. RunFrom(y, x, <<>>) /\ RunFrom(y, x + Len(<<>>), w) /\ RunFrom(y, x + Len(<<>>) + Len(w), k)
      /\ RunFrom(y, x + Len(<<>>) + Len(w) + Len(k), c)
      /\ RunFrom(y, x + Len(<<>>) + Len(w) + Len(k) + Len(c), r)
  BY DEF Flow
<1> HIDE DEF x
<1>a. Append(<<>>, Head(w)) = <<Head(w)>>
  OBVIOUS
<1>3. /\ <<Head(w)>> \in Seq(Item) /\ Tail(w) \in Seq(Item)
      /\ Len(<<Head(w)>>) = 1
      /\ Len(w) = Len(Tail(w)) + 1 /\ Len(Tail(w)) \in Nat
      /\ RunFrom(y, x, <<Head(w)>>)
      /\ RunFrom(y, x + 1, Tail(w))
  <2>1. /\ Append(<<>>, Head(w)) \in Seq(Item) /\ Tail(w) \in Seq(Item)
        /\ Len(Append(<<>>, Head(w))) = Len(<<>>) + 1
        /\ Len(w) = Len(Tail(w)) + 1
        /\ RunFrom(y, x, Append(<<>>, Head(w)))
        /\ RunFrom(y, x + (Len(<<>>) + 1), Tail(w))
    BY <1>1, <1>2, RunMoveHead
  <2> QED BY <1>1, <1>a, <2>1
<1>4. x + 1 + Len(Tail(w)) = x + Len(<<>>) + Len(w)
  BY <1>1, <1>3
<1>5. Pieces(g, <<Head(w)>>, Tail(w), k, c, r)
  BY <1>3 DEF Pieces
<1>6. RunFrom(y, x + 1 + Len(Tail(w)), k) /\ RunFrom(y, x + 1 + Len(Tail(w)) + Len(k), c)
      /\ RunFrom(y, x + 1 + Len(Tail(w)) + Len(k) + Len(c), r)
  BY <1>2, <1>4
<1>7. Flow(y, g, <<Head(w)>>, Tail(w), k, c, r)
  BY <1>3, <1>6 DEF Flow, x
<1>8. Total(g, <<Head(w)>>, Tail(w), k, c, r) = Total(g, <<>>, w, k, c, r)
  BY <1>3, <1>4 DEF Total, x
<1> QED BY <1>5, <1>7, <1>8

\* The host passes on what it holds.
LEMMA FlowSink ==
    ASSUME NEW y, NEW g, NEW h, NEW w, NEW k, NEW c, NEW r,
           Pieces(g, h, w, k, c, r), Flow(y, g, h, w, k, c, r)
    PROVE  /\ Pieces(g \o h, <<>>, w, k, c, r)
           /\ Flow(y, g \o h, <<>>, w, k, c, r)
           /\ Total(g \o h, <<>>, w, k, c, r) = Total(g, h, w, k, c, r)
<1>1. g \in Seq(Item) /\ h \in Seq(Item) /\ Len(g) \in Nat /\ Len(h) \in Nat /\ Len(<<>>) = 0
      /\ <<>> \in Seq(Item) /\ 0 + Len(g) = Len(g)
  BY DEF Pieces
<1>2. RunFrom(y, 0, g) /\ RunFrom(y, 0 + Len(g), h)
  BY <1>1 DEF Flow
<1>3. g \o h \in Seq(Item) /\ Len(g \o h) = Len(g) + Len(h) /\ RunFrom(y, 0, g \o h)
  BY <1>1, <1>2, RunConcat
<1>4. Len(g \o h) + Len(<<>>) = Len(g) + Len(h)
  BY <1>1, <1>3
<1>5. Pieces(g \o h, <<>>, w, k, c, r)
  BY <1>1, <1>3 DEF Pieces
<1>6. Flow(y, g \o h, <<>>, w, k, c, r)
  BY <1>3, <1>4, RunEmpty DEF Flow
<1>7. Total(g \o h, <<>>, w, k, c, r) = Total(g, h, w, k, c, r)
  BY <1>4 DEF Total
<1> QED BY <1>5, <1>6, <1>7

\* The producer lists what follows all that was listed before.
LEMMA FlowList ==
    ASSUME NEW y, NEW g, NEW h, NEW w, NEW k, NEW c, NEW s \in Seq(Item),
           Pieces(g, h, w, k, c, <<>>), Flow(y, g, h, w, k, c, <<>>),
           RunFrom(y, Total(g, h, w, k, c, <<>>), s)
    PROVE  /\ Pieces(g, h, w, k, c, s)
           /\ Flow(y, g, h, w, k, c, s)
           /\ Total(g, h, w, k, c, s) = Total(g, h, w, k, c, <<>>) + Len(s)
<1> DEFINE x == Len(g) + Len(h) + Len(w) + Len(k) + Len(c)
<1>1. x \in Nat /\ Len(s) \in Nat /\ Len(<<>>) = 0
  BY DEF Pieces
<1>2. Total(g, h, w, k, c, <<>>) = x
  BY <1>1 DEF Total
<1>3. Total(g, h, w, k, c, s) = x + Len(s)
  BY DEF Total
<1>4. Flow(y, g, h, w, k, c, s)
  BY <1>2 DEF Flow
<1> HIDE DEF x
<1> QED BY <1>2, <1>3, <1>4 DEF Pieces

(***************************************************************************)
(* One lemma for each action.                                              *)
(***************************************************************************)
\* Every page holds a resource.
LEMMA ItemOfPage ==
    ASSUME StreamTypes, prod.at \in 1..Len(plan), NEW p \in 1..Pages
    PROVE  Resource(plan[prod.at], p) \in Item
<1>1. plan[prod.at] \in Type /\ p \in Nat
  BY StreamAssumption DEF StreamTypes
<1> QED BY <1>1 DEF Resource, Item

\* What the proofs use of the types.
LEMMA TypedPieces ==
    ASSUME StreamTypes
    PROVE  /\ Pieces(got, host.held, wire, cons.held, chan, prod.refs)
           /\ prod.at \in Nat /\ prod.page \in 1..Pages
           /\ cluster \in Nat /\ plan \in Seq(Type) /\ Len(plan) \in Nat
BY StreamAssumption DEF StreamTypes, Pieces, Producers, Consumers, Hosts

\* Nothing is listed in a stream that starts, or that ends before it starts.
LEMMA InitFields ==
    ASSUME StreamInit, prod \in Producers, cons \in Consumers,
           prod.at = 0, prod.refs = <<>>, ~prod.failed, ~prod.err,
           cons.held = <<>>, ~cons.sendErr,
           \/ prod.pc = "discover" /\ cons.pc = "forward" /\ closed = FALSE /\ ended = "no"
                 /\ cluster = 1
           \/ prod.pc = "done" /\ cons.pc = "returned" /\ closed = TRUE /\ ended = "nil"
                 /\ cluster = 0 /\ Streams = 0
    PROVE  StreamInv /\ Covered
<1> USE StreamAssumption
<1>0. /\ request \in Requests /\ over = FALSE /\ alive = TRUE /\ plan = <<>> /\ skipped = {}
      /\ cancelled = FALSE /\ chan = <<>> /\ wire = <<>> /\ got = <<>>
      /\ host = [pc |-> "recv", held |-> <<>>, result |-> "none"]
  BY DEF StreamInit
<1>1. StreamTypes
  <2>1. <<>> \in Seq(Item) /\ <<>> \in Seq(Type)
    OBVIOUS
  <2>2. host \in Hosts
    BY <1>0, <2>1 DEF Hosts
  <2>3. cluster \in Nat /\ closed \in BOOLEAN /\ ended \in {"no", "nil", "error"}
    <3>1. CASE cluster = 1 /\ closed = FALSE /\ ended = "no"
      BY <3>1
    <3>2. CASE cluster = 0 /\ closed = TRUE /\ ended = "nil"
      BY <3>2
    <3> QED BY <3>1, <3>2
  <2> QED BY <1>0, <2>1, <2>2, <2>3 DEF StreamTypes
<1>2. StreamPhases
  <2>1. Len(plan) = 0 /\ host.pc = "recv" /\ host.held = <<>> /\ host.result = "none"
    BY <1>0
  <2> QED BY <1>0, <2>1 DEF StreamPhases
<1>3. Conserved
  <2>1. Rank(0, Pages) = 0
    BY DEF Rank
  <2>2. Flow(plan, <<>>, <<>>, <<>>, <<>>, <<>>, <<>>)
        /\ Total(<<>>, <<>>, <<>>, <<>>, <<>>, <<>>) = 0
    BY RunEmpty DEF Flow, Total
  <2>3. Reached(prod.pc, 0, prod.page) = 0
    BY <2>1 DEF Reached
  <2> QED BY <1>0, <2>2, <2>3 DEF Conserved
<1>4. Covered
  <2>1. \A w : Covers(<<>>, 0, w, {})
    BY DEF Covers, TypesOf
  <2> QED BY <1>0, <2>1 DEF Covered
<1> QED BY <1>1, <1>2, <1>3, <1>4 DEF StreamInv

\* The stream starts with nothing listed.
LEMMA InitStream ==
    ASSUME StreamInit PROVE StreamInv /\ Covered
<1> USE StreamAssumption DEF StreamInit
<1>a. CASE Unlisted
  <2>1. /\ prod = [StartedProducer(0) EXCEPT !.pc = "done"]
        /\ cons = [ForwardingConsumer EXCEPT !.pc = "returned"]
        /\ closed = TRUE /\ ended = "nil" /\ cluster = 0 /\ Streams = 0
    BY <1>a DEF StartedProducer, ForwardingConsumer, Streams
  <2> HIDE DEF StreamInit
  <2>2. <<>> \in Seq(Item) /\ 1 \in 1..Pages
    OBVIOUS
  <2>p. prod \in Producers
    BY <2>1, <2>2 DEF StartedProducer, Producers
  <2>c. cons \in Consumers
    BY <2>1, <2>2 DEF ForwardingConsumer, Consumers
  <2>3. /\ prod.pc = "done" /\ prod.at = 0 /\ prod.refs = <<>> /\ ~prod.failed /\ ~prod.err
        /\ cons.pc = "returned" /\ cons.held = <<>> /\ ~cons.sendErr
    BY <2>1 DEF StartedProducer, ForwardingConsumer
  <2> QED BY <2>1, <2>3, <2>p, <2>c, InitFields
<1>b. CASE ~Unlisted
  <2>1. /\ prod = StartedProducer(0) /\ cons = ForwardingConsumer
        /\ closed = FALSE /\ ended = "no" /\ cluster = 1
    BY <1>b DEF StartedProducer, ForwardingConsumer
  <2> HIDE DEF StreamInit
  <2>2. <<>> \in Seq(Item) /\ 1 \in 1..Pages
    OBVIOUS
  <2>p. prod \in Producers
    BY <2>1, <2>2 DEF StartedProducer, Producers
  <2>c. cons \in Consumers
    BY <2>1, <2>2 DEF ForwardingConsumer, Consumers
  <2>3. /\ prod.pc = "discover" /\ prod.at = 0 /\ prod.refs = <<>> /\ ~prod.failed /\ ~prod.err
        /\ cons.pc = "forward" /\ cons.held = <<>> /\ ~cons.sendErr
    BY <2>1 DEF StartedProducer, ForwardingConsumer
  <2> QED BY <2>1, <2>3, <2>p, <2>c, InitFields
<1> QED BY <1>a, <1>b

\* A producer that goes on after a type, without a failure, has listed as far
\* as it had.
LEMMA AfterTypeReaches ==
    ASSUME NEW p, p \in Producers, NEW y \in Seq(Type), p.at <= Len(y)
    PROVE  /\ AfterType(p, y) \in Producers
           /\ AfterType(p, y).refs = p.refs /\ AfterType(p, y).failed = p.failed
           /\ AfterType(p, y).pc \in {"list", "close"}
           /\ AfterType(p, y).pc = "list" =>
                 AfterType(p, y).page = 1 /\ AfterType(p, y).err = p.err
                 /\ AfterType(p, y).at \in 1..Len(y)
           /\ AfterType(p, y).pc = "close" =>
                 AfterType(p, y).err = p.failed /\ AfterType(p, y).at = Len(y)
           /\ Reached(AfterType(p, y).pc, AfterType(p, y).at, AfterType(p, y).page)
                 = Rank(p.at, Pages)
<1> USE StreamAssumption DEF Producers
<1>0. p.at \in Nat /\ Len(y) \in Nat /\ 1 \in 1..Pages
  OBVIOUS
<1>1. CASE p.at < Len(y)
  <2> DEFINE q == [p EXCEPT !.pc = "list", !.at = @ + 1, !.page = 1]
  <2>1. AfterType(p, y) = q
    BY <1>1 DEF AfterType
  <2>2. p.at + 1 \in Nat /\ p.at + 1 \in 1..Len(y)
    BY <1>0, <1>1
  <2>3. q \in Producers
    BY <1>0, <2>2
  <2>4. q.refs = p.refs /\ q.failed = p.failed /\ q.pc = "list" /\ q.page = 1 /\ q.err = p.err
        /\ q.at = p.at + 1
    OBVIOUS
  <2>5. Rank(p.at + 1, 1) - 1 = Rank(p.at, Pages)
    BY <1>0, RankSteps
  <2> HIDE DEF q
  <2> QED BY <2>1, <2>2, <2>3, <2>4, <2>5 DEF Reached
<1>2. CASE ~(p.at < Len(y))
  <2> DEFINE q == [p EXCEPT !.pc = "close", !.err = p.failed]
  <2>1. AfterType(p, y) = q
    BY <1>2 DEF AfterType
  <2>2. p.at = Len(y)
    BY <1>0, <1>2
  <2>3. q \in Producers
    OBVIOUS
  <2>4. q.refs = p.refs /\ q.failed = p.failed /\ q.pc = "close" /\ q.err = p.failed
        /\ q.at = p.at
    OBVIOUS
  <2> HIDE DEF q
  <2> QED BY <2>1, <2>2, <2>3, <2>4 DEF Reached
<1> QED BY <1>1, <1>2

\* The pieces of a stream that has listed the types y are those of a longer list.
LEMMA FlowLonger ==
    ASSUME NEW y \in Seq(Type), NEW z \in Seq(Type),
           NEW g, NEW h, NEW w, NEW k, NEW c, NEW r,
           Pieces(g, h, w, k, c, r), Flow(y, g, h, w, k, c, r),
           Total(g, h, w, k, c, r) = Len(y) * Pages
    PROVE  Flow(y \o z, g, h, w, k, c, r)
<1>1. ASSUME NEW x \in Nat, NEW s \in Seq(Item), RunFrom(y, x, s), x + Len(s) <= Len(y) * Pages
      PROVE  RunFrom(y \o z, x, s)
  <2> SUFFICES ASSUME NEW i \in 1..Len(s) PROVE s[i] = Nth(y \o z, x + i)
    BY DEF RunFrom
  <2>1. s[i] = Nth(y, x + i)
    BY <1>1 DEF RunFrom
  <2>2. Len(y) * Pages \in Nat
    BY StreamAssumption
  <2>3. x + i \in 1..(Len(y) * Pages)
    <3> DEFINE m == Len(y) * Pages
    <3>1. m \in Nat /\ x + Len(s) <= m
      BY <1>1, <2>2
    <3> HIDE DEF m
    <3>2. x + i \in 1..m
      BY <3>1
    <3> QED BY <3>2 DEF m
  <2> QED BY <2>1, <2>3, NthOfLonger
<1> DEFINE m == Len(y) * Pages
<1>2. /\ Len(g) \in Nat /\ Len(h) \in Nat /\ Len(w) \in Nat /\ Len(k) \in Nat /\ Len(c) \in Nat
      /\ Len(r) \in Nat /\ m \in Nat
  BY StreamAssumption DEF Pieces
<1>3. Len(g) + Len(h) + Len(w) + Len(k) + Len(c) + Len(r) = m
  BY DEF Total
<1>4. \A x \in Nat, s \in Seq(Item) : RunFrom(y, x, s) /\ x + Len(s) <= m => RunFrom(y \o z, x, s)
  BY <1>1
<1> HIDE DEF m
<1>5. RunFrom(y \o z, 0, g) /\ RunFrom(y \o z, Len(g), h)
  <2>1. 0 + Len(g) <= m /\ Len(g) + Len(h) <= m
    BY <1>2, <1>3
  <2> QED BY <1>2, <1>4, <2>1 DEF Flow, Pieces
<1>6. RunFrom(y \o z, Len(g) + Len(h), w) /\ RunFrom(y \o z, Len(g) + Len(h) + Len(w), k)
  <2>1. /\ Len(g) + Len(h) \in Nat /\ Len(g) + Len(h) + Len(w) \in Nat
        /\ Len(g) + Len(h) + Len(w) <= m /\ Len(g) + Len(h) + Len(w) + Len(k) <= m
    BY <1>2, <1>3
  <2> QED BY <1>4, <2>1 DEF Flow, Pieces
<1>7. /\ RunFrom(y \o z, Len(g) + Len(h) + Len(w) + Len(k), c)
      /\ RunFrom(y \o z, Len(g) + Len(h) + Len(w) + Len(k) + Len(c), r)
  <2>1. /\ Len(g) + Len(h) + Len(w) + Len(k) \in Nat
        /\ Len(g) + Len(h) + Len(w) + Len(k) + Len(c) \in Nat
        /\ Len(g) + Len(h) + Len(w) + Len(k) + Len(c) <= m
        /\ Len(g) + Len(h) + Len(w) + Len(k) + Len(c) + Len(r) <= m
    BY <1>2, <1>3
  <2> QED BY <1>4, <2>1 DEF Flow, Pieces
<1> QED BY <1>5, <1>6, <1>7 DEF Flow

\* The types of a list, taken up for the cluster being streamed.
LEMMA OfClusterTypes ==
    ASSUME NEW names \in Seq(1..Types), cluster \in Nat
    PROVE  /\ OfCluster(names) \in Seq(Type)
           /\ Len(OfCluster(names)) = Len(names)
           /\ \A i \in 1..Len(names) : OfCluster(names)[i] = <<cluster, names[i]>>
<1> DEFINE f == [i \in 1..Len(names) |-> <<cluster, names[i]>>]
<1>1. \A i \in 1..Len(names) : <<cluster, names[i]>> \in Type
  BY StreamAssumption DEF Type
<1>2. f \in [1..Len(names) -> Type] /\ Len(names) \in Nat
  BY <1>1
<1>3. \A i \in 1..Len(names) : f[i] = <<cluster, names[i]>>
  OBVIOUS
<1>4. OfCluster(names) = f
  BY DEF OfCluster
<1> HIDE DEF f
<1> QED BY <1>2, <1>3, <1>4

\* A list that discovery comes to is a list of types.
LEMMA ListingsAreLists ==
    ASSUME NEW names \in Listings PROVE names \in Seq(1..Types)
BY StreamAssumption DEF Listings

\* The lists that are taken up, from the request or from discovery.
LEMMA TakenLists ==
    ASSUME StreamTypes, TakeTypes, plan' # plan \/ prod'.err # TRUE
    PROVE  \E names \in Seq(1..Types) :
              /\ TakeUp(names)
              /\ \/ names = request.names /\ UNCHANGED skipped
                       /\ (request.names # <<>> \/ request.style = "refs")
                 \/ request.names = <<>> /\ request.style = "pages"
                       /\ skipped' = skipped \cup LeftOut(names)
<1>1. request.names \in Seq(1..Types)
  BY StreamAssumption DEF StreamTypes
<1>2. CASE (request.names # <<>> \/ request.style = "refs") /\ TakeUp(request.names)
           /\ UNCHANGED skipped
  BY <1>1, <1>2
<1>3. CASE request.names = <<>> /\ request.style = "pages"
           /\ \E names \in Listings : TakeUp(names) /\ skipped' = skipped \cup LeftOut(names)
  BY <1>3, ListingsAreLists
<1>4. CASE prod' = [prod EXCEPT !.pc = "close", !.err = TRUE] /\ UNCHANGED <<plan, skipped>>
  <2>1. prod'.err = TRUE
    BY <1>4 DEF StreamTypes, Producers
  <2> QED BY <1>4, <2>1
<1> QED BY <1>2, <1>3, <1>4 DEF TakeTypes

\* The types are taken up after all that came before, or discovery fails.
LEMMA TakeTypesInv ==
    ASSUME StreamInv, TakeTypes PROVE StreamInv'
<1>0. /\ StreamTypes /\ StreamPhases /\ prod \in Producers /\ prod.refs = <<>> /\ ~prod.err
      /\ ~prod.failed /\ prod.at = Len(plan) /\ prod.at \in Nat /\ cluster \in Nat
      /\ plan \in Seq(Type) /\ prod.pc = "discover" /\ ended = "no"
  BY TypedPieces DEF StreamInv, StreamTypes, StreamPhases, TakeTypes
<1>u. /\ UNCHANGED <<chan, closed, request, over, alive, cluster, cancelled, cons, wire, ended,
                     host, got>>
      /\ Streams' = Streams
  BY DEF TakeTypes, ProducerOnly, Streams, Unlisted
<1>1. CASE \E names \in Seq(1..Types) : TakeUp(names)
  <2>1. PICK names \in Seq(1..Types) : TakeUp(names)
    BY <1>1
  <2> DEFINE z == OfCluster(names)
  <2>2. z \in Seq(Type)
    BY <1>0, OfClusterTypes
  <2>3. plan' = plan \o z /\ prod' = AfterType(prod, plan \o z)
    BY <2>1 DEF TakeUp
  <2> HIDE DEF z
  <2>4. plan' \in Seq(Type) /\ Len(plan') = Len(plan) + Len(z) /\ Len(z) \in Nat
    BY <1>0, <2>2, <2>3
  <2>5. /\ prod' \in Producers
        /\ prod'.refs = <<>> /\ prod'.failed = FALSE /\ prod'.err = FALSE
        /\ prod'.pc \in {"list", "close"}
        /\ prod'.pc = "list" => prod'.page = 1 /\ prod'.at \in 1..Len(plan')
        /\ prod'.pc = "close" => prod'.at = Len(plan')
        /\ Reached(prod'.pc, prod'.at, prod'.page) = Rank(prod.at, Pages)
    <3>1. prod.at <= Len(plan')
      BY <1>0, <2>4
    <3>2. /\ AfterType(prod, plan') \in Producers
          /\ AfterType(prod, plan').refs = prod.refs
          /\ AfterType(prod, plan').failed = prod.failed
          /\ AfterType(prod, plan').pc \in {"list", "close"}
          /\ AfterType(prod, plan').pc = "list" =>
                AfterType(prod, plan').page = 1 /\ AfterType(prod, plan').err = prod.err
                /\ AfterType(prod, plan').at \in 1..Len(plan')
          /\ AfterType(prod, plan').pc = "close" =>
                AfterType(prod, plan').err = prod.failed /\ AfterType(prod, plan').at = Len(plan')
          /\ Reached(AfterType(prod, plan').pc, AfterType(prod, plan').at,
                     AfterType(prod, plan').page) = Rank(prod.at, Pages)
      BY <1>0, <2>4, <3>1, AfterTypeReaches
    <3>3. prod.failed = FALSE /\ prod.err = FALSE
      BY <1>0 DEF Producers
    <3> QED BY <1>0, <2>3, <3>2, <3>3
  <2>6. StreamTypes'
    BY <1>0, <1>u, <2>4, <2>5 DEF StreamTypes
  <2>7. StreamPhases'
    BY <1>0, <1>u, <2>5 DEF StreamPhases, StreamTypes
  <2>8. Conserved'
    <3> SUFFICES ASSUME Clean' PROVE Conserved'
      BY DEF Conserved
    <3>1. Clean
      BY <1>0, <1>u, <2>5 DEF Clean
    <3>2. /\ Flow(plan, got, host.held, wire, cons.held, chan, <<>>)
          /\ Total(got, host.held, wire, cons.held, chan, <<>>) = Rank(prod.at, Pages)
          /\ Pieces(got, host.held, wire, cons.held, chan, <<>>)
      BY <1>0, <3>1, TypedPieces DEF StreamInv, Conserved, Reached
    <3>3. Rank(prod.at, Pages) = Len(plan) * Pages
      BY <1>0, StreamAssumption, 1 \in 1..Pages, RankSteps
    <3>4. Flow(plan', got, host.held, wire, cons.held, chan, <<>>)
      BY <1>0, <2>2, <2>3, <3>2, <3>3, FlowLonger
    <3> QED BY <1>u, <2>5, <3>2, <3>4 DEF Conserved
  <2> QED BY <2>6, <2>7, <2>8 DEF StreamInv
<1>2. CASE plan' = plan /\ prod' = [prod EXCEPT !.pc = "close", !.err = TRUE]
  <2>1. /\ prod' \in Producers /\ prod'.pc = "close" /\ prod'.err = TRUE
    BY <1>0, <1>2 DEF Producers
  <2>2. StreamTypes'
    BY <1>0, <1>2, <1>u, <2>1 DEF StreamTypes
  <2>3. StreamPhases'
    BY <1>0, <1>2, <1>u, <2>1 DEF StreamPhases, StreamTypes
  <2>4. ~Clean'
    BY <1>0, <1>u, <2>1 DEF Clean
  <2> QED BY <2>2, <2>3, <2>4 DEF StreamInv, Conserved
<1>3. ~(\E names \in Seq(1..Types) : TakeUp(names)) =>
         plan' = plan /\ prod' = [prod EXCEPT !.pc = "close", !.err = TRUE]
  <2>1. request.names \in Seq(1..Types)
    BY <1>0, StreamAssumption DEF StreamTypes
  <2> QED BY <2>1, ListingsAreLists DEF TakeTypes
<1> QED BY <1>1, <1>2, <1>3



\* A page is the next resource of the inventory, or its failure is recorded.
LEMMA ListPageInv ==
    ASSUME StreamInv, ListPage PROVE StreamInv'
<1> USE StreamAssumption DEF ListPage, ProducerOnly
<1>0. StreamTypes /\ prod \in Producers /\ prod.refs = <<>>
      /\ prod.at \in 1..Len(plan) /\ prod.page \in 1..Pages
      /\ prod.at \in Nat \ {0} /\ plan \in Seq(Type)
  BY TypedPieces DEF StreamInv, StreamTypes, StreamPhases
<1>s. Streams' = Streams
  BY DEF Streams, Unlisted
<1>1. CASE prod' = [prod EXCEPT !.pc = "send", !.refs = <<Resource(plan[prod.at], prod.page)>>]
  <2> DEFINE r == Resource(plan[prod.at], prod.page)
  <2>1. r \in Item
    BY <1>0, ItemOfPage
  <2> HIDE DEF r
  <2>2. <<r>> \in Seq(Item) /\ Len(<<r>>) = 1
    BY <2>1
  <2>3. prod' \in Producers
    BY <1>0, <1>1, <2>2 DEF Producers, r
  <2>4. /\ prod'.pc = "send" /\ prod'.refs = <<r>> /\ prod'.failed = prod.failed
        /\ prod'.err = prod.err /\ prod'.at = prod.at /\ prod'.page = prod.page
    BY <1>0, <1>1 DEF Producers, r
  <2>5. StreamTypes'
    BY <1>0, <1>s, <2>3 DEF StreamTypes
  <2>6. StreamPhases'
    BY <1>0, <1>s, <2>4 DEF StreamInv, StreamPhases, StreamTypes
  <2>7. Conserved'
    <3> SUFFICES ASSUME Clean' PROVE Conserved'
      BY DEF Conserved
    <3>1. Clean
      BY <2>4 DEF Clean
    <3> DEFINE m == Rank(prod.at, prod.page)
    <3>2. m \in Nat \ {0} /\ Nth(plan, m) = r
      <4> HIDE DEF ListPage, ProducerOnly
      <4> QED BY <1>0, NthOfRank DEF r
    <3>3. Flow(plan, got, host.held, wire, cons.held, chan, <<>>)
          /\ Total(got, host.held, wire, cons.held, chan, <<>>) = m - 1
          /\ Pieces(got, host.held, wire, cons.held, chan, <<>>)
      BY <1>0, <3>1, TypedPieces DEF StreamInv, Conserved, Reached
    <3> HIDE DEF m
    <3>4. RunFrom(plan, m - 1, <<r>>)
      <4>1. \A i \in 1..1 : <<r>>[i] = Nth(plan, (m - 1) + i)
        BY <3>2
      <4> QED BY <2>2, <4>1 DEF RunFrom
    <3>5. Flow(plan, got, host.held, wire, cons.held, chan, <<r>>)
          /\ Total(got, host.held, wire, cons.held, chan, <<r>>) = (m - 1) + 1
      <4> DEFINE s == <<r>>
      <4>1. s \in Seq(Item) /\ Len(s) = 1 /\ RunFrom(plan, m - 1, s)
        BY <2>2, <3>4
      <4> HIDE DEF s
      <4>2. RunFrom(plan, Total(got, host.held, wire, cons.held, chan, <<>>), s)
        BY <3>3, <4>1
      <4>3. Flow(plan, got, host.held, wire, cons.held, chan, s)
            /\ Total(got, host.held, wire, cons.held, chan, s)
                  = Total(got, host.held, wire, cons.held, chan, <<>>) + Len(s)
        <5> HIDE DEF ListPage, ProducerOnly
        <5> HIDE StreamAssumption
        <5> DEFINE h == host.held
                   k == cons.held
        <5>1. /\ Pieces(got, h, wire, k, chan, <<>>) /\ Flow(plan, got, h, wire, k, chan, <<>>)
              /\ s \in Seq(Item) /\ RunFrom(plan, Total(got, h, wire, k, chan, <<>>), s)
          BY <3>3, <4>1, <4>2
        <5> HIDE DEF h, k
        <5>2. /\ Flow(plan, got, h, wire, k, chan, s)
              /\ Total(got, h, wire, k, chan, s) = Total(got, h, wire, k, chan, <<>>) + Len(s)
          BY <5>1, FlowList
        <5> QED BY <5>2 DEF h, k
      <4> QED BY <3>3, <4>1, <4>3 DEF s
    <3>6. Reached("send", prod.at, prod.page) = m
      BY DEF Reached, m
    <3> QED BY <2>4, <3>2, <3>5, <3>6 DEF Conserved
  <2> QED BY <2>5, <2>6, <2>7 DEF StreamInv
<1>2. CASE prod' = IF Done THEN ReturnCtxErr(prod)
                   ELSE AfterType([prod EXCEPT !.failed = TRUE], plan)
  <2> DEFINE p == [prod EXCEPT !.failed = TRUE]
  <2>a. ~prod.err /\ prod.at <= Len(plan) /\ Len(plan) \in Nat
    BY <1>0 DEF StreamInv, StreamPhases
  <2>1. p \in Producers /\ p.failed = TRUE /\ p.refs = <<>> /\ p.err = prod.err
        /\ ~prod.err /\ p.at = prod.at /\ p.at <= Len(plan)
    <3> HIDE DEF ListPage, ProducerOnly
    <3> QED BY <1>0, <2>a DEF Producers
  <2> HIDE DEF p
  <2>2. /\ prod' \in Producers
        /\ prod'.refs = <<>> /\ prod'.pc \in {"list", "close"}
        /\ prod'.pc = "list" => prod'.page = 1 /\ ~prod'.err /\ prod'.at \in 1..Len(plan)
        /\ prod'.failed \/ prod'.err
        /\ prod'.pc = "close" => prod'.err
    <3>1. CASE Done
      <4>1. prod' = [prod EXCEPT !.pc = "close", !.err = TRUE]
        BY <1>2, <3>1 DEF ReturnCtxErr
      <4> QED BY <1>0, <4>1 DEF Producers
    <3>2. CASE ~Done
      <4>1. prod' = AfterType(p, plan)
        BY <1>2, <3>2 DEF p
      <4>2. /\ AfterType(p, plan) \in Producers
            /\ AfterType(p, plan).refs = p.refs /\ AfterType(p, plan).failed = p.failed
            /\ AfterType(p, plan).pc \in {"list", "close"}
            /\ AfterType(p, plan).pc = "list" =>
                  AfterType(p, plan).page = 1 /\ AfterType(p, plan).err = p.err
                  /\ AfterType(p, plan).at \in 1..Len(plan)
            /\ AfterType(p, plan).pc = "close" =>
                  AfterType(p, plan).err = p.failed /\ AfterType(p, plan).at = Len(plan)
        BY <1>0, <2>1, AfterTypeReaches
      <4> QED BY <2>1, <4>1, <4>2
    <3> QED BY <3>1, <3>2
  <2>3. StreamTypes'
    BY <1>0, <1>s, <2>2 DEF StreamTypes
  <2>4. StreamPhases'
    BY <1>0, <1>s, <2>2 DEF StreamInv, StreamPhases, StreamTypes
  <2>5. ~Clean'
    <3>1. ended = "no"
      BY DEF StreamInv, StreamPhases, StreamTypes
    <3> QED BY <2>2, <3>1 DEF Clean
  <2> QED BY <2>3, <2>4, <2>5 DEF StreamInv, Conserved
<1> QED BY <1>1, <1>2

\* A service scanned without an error is the next Pages resources.
LEMMA ScanServiceInv ==
    ASSUME StreamInv, ScanService PROVE StreamInv'
<1> USE StreamAssumption DEF ScanService, ProducerOnly
<1>0. StreamTypes /\ prod \in Producers /\ prod.refs = <<>> /\ prod.page = 1
      /\ prod.at \in 1..Len(plan) /\ 1 \in 1..Pages /\ Pages \in 1..Pages
      /\ cluster \in Nat /\ prod.at \in Nat \ {0} /\ plan \in Seq(Type) /\ ended = "no"
  BY TypedPieces DEF StreamInv, StreamTypes, StreamPhases
<1>s. Streams' = Streams
  BY DEF Streams, Unlisted
<1>1. PICK n \in 0..Pages, failed \in BOOLEAN :
         /\ n < Pages => failed \/ Done
         /\ prod' = [prod EXCEPT !.pc = "send", !.page = Pages,
                                 !.refs = [i \in 1..n |-> Resource(plan[prod.at], i)],
                                 !.failed = @ \/ failed]
  OBVIOUS
<1> DEFINE s == [i \in 1..n |-> Resource(plan[prod.at], i)]
<1>2. s \in Seq(Item) /\ Len(s) = n
  <2>1. \A i \in 1..n : Resource(plan[prod.at], i) \in Item
    BY <1>0, ItemOfPage
  <2>2. s \in [1..n -> Item] /\ n \in Nat
    BY <2>1
  <2> HIDE DEF s
  <2> QED BY <2>2
<1>3. /\ prod'.pc = "send" /\ prod'.refs = s /\ prod'.failed = (prod.failed \/ failed)
      /\ prod'.err = prod.err /\ prod'.at = prod.at /\ prod'.page = Pages
  BY <1>0, <1>1 DEF Producers
<1>e. \A i \in 1..n : s[i] = Resource(plan[prod.at], i)
  OBVIOUS
<1>4. prod' \in Producers
  <2> HIDE DEF s
  <2>1. prod' = [prod EXCEPT !.pc = "send", !.page = Pages, !.refs = s,
                             !.failed = prod.failed \/ failed]
    BY <1>0, <1>1 DEF Producers, s
  <2> QED BY <1>0, <1>2, <2>1 DEF Producers
<1> HIDE DEF s
<1>5. StreamTypes'
  BY <1>0, <1>s, <1>4 DEF StreamTypes
<1>6. StreamPhases'
  BY <1>0, <1>s, <1>3 DEF StreamInv, StreamPhases, StreamTypes
<1>7. Conserved'
  <2> SUFFICES ASSUME Clean' PROVE Conserved'
    BY DEF Conserved
  <2>1. Clean /\ ~failed /\ ~over /\ ~cons.sendErr
    BY <1>0, <1>3 DEF Clean
  <2>2. n = Pages
    <3>1. ~Done
      BY <2>1 DEF Done, StreamInv, StreamPhases
    <3> QED BY <1>1, <2>1, <3>1
  <2> DEFINE m == Rank(prod.at, 1)
  <2>3. m \in Nat \ {0}
    BY <1>0, NthOfRank
  <2>4. Flow(plan, got, host.held, wire, cons.held, chan, <<>>)
        /\ Total(got, host.held, wire, cons.held, chan, <<>>) = m - 1
        /\ Pieces(got, host.held, wire, cons.held, chan, <<>>)
    BY <1>0, <2>1, TypedPieces DEF StreamInv, Conserved, Reached
  <2>5. \A i \in 1..n : s[i] = Nth(plan, (m - 1) + i)
    <3> SUFFICES ASSUME NEW i \in 1..Pages PROVE Resource(plan[prod.at], i) = Nth(plan, (m - 1) + i)
      BY <1>e, <2>2
    <3>1. Rank(prod.at, i) = m - 1 + i
      BY <1>0, RankSteps
    <3> QED BY <1>0, <3>1, NthOfRank
  <2>6. Rank(prod.at, Pages) = m - 1 + Pages
    BY <1>0, RankSteps
  <2> HIDE DEF m
  <2>7. RunFrom(plan, m - 1, s)
    BY <1>2, <2>5 DEF RunFrom
  <2>8. Flow(plan, got, host.held, wire, cons.held, chan, s)
        /\ Total(got, host.held, wire, cons.held, chan, s) = (m - 1) + Pages
    <3>1. RunFrom(plan, Total(got, host.held, wire, cons.held, chan, <<>>), s)
      BY <2>4, <2>7
    <3>2. Flow(plan, got, host.held, wire, cons.held, chan, s)
          /\ Total(got, host.held, wire, cons.held, chan, s)
                = Total(got, host.held, wire, cons.held, chan, <<>>) + Len(s)
      BY <1>2, <2>4, <3>1, FlowList
    <3> QED BY <1>2, <2>2, <2>4, <3>2
  <2>9. Reached("send", prod.at, Pages) = m - 1 + Pages
    BY <2>6 DEF Reached
  <2> QED BY <1>3, <2>8, <2>9 DEF Conserved
<1> QED BY <1>5, <1>6, <1>7 DEF StreamInv

\* A resource is sent, the context is over, or the producer goes on to the next page.
LEMMA EmitInv ==
    ASSUME StreamInv, Emit PROVE StreamInv'
<1> USE StreamAssumption DEF Emit, ProducerOnly
<1>0. StreamTypes /\ prod \in Producers
      /\ prod.at \in 1..Len(plan) /\ prod.page \in 1..Pages
      /\ cluster \in Nat /\ prod.at \in Nat \ {0} /\ plan \in Seq(Type) /\ ended = "no"
  BY TypedPieces DEF StreamInv, StreamTypes, StreamPhases
<1>s. Streams' = Streams
  BY DEF Streams, Unlisted
<1>p. Pieces(got, host.held, wire, cons.held, chan, prod.refs)
  BY <1>0, TypedPieces
<1>1. CASE prod.refs # <<>> /\ chan' = Append(chan, Head(prod.refs))
           /\ prod' = [prod EXCEPT !.refs = Tail(@)]
  <2>1. chan' \in Seq(Item) /\ Tail(prod.refs) \in Seq(Item)
    BY <1>1, <1>p DEF Pieces
  <2>2. prod' \in Producers
    BY <1>0, <1>1, <2>1 DEF Producers
  <2>3. /\ prod'.pc = "send" /\ prod'.refs = Tail(prod.refs) /\ prod'.failed = prod.failed
        /\ prod'.err = prod.err /\ prod'.at = prod.at /\ prod'.page = prod.page
    BY <1>0, <1>1 DEF Producers
  <2>4. StreamTypes'
    BY <1>0, <1>s, <2>1, <2>2 DEF StreamTypes
  <2>5. StreamPhases'
    BY <1>0, <1>s, <2>3 DEF StreamInv, StreamPhases, StreamTypes
  <2>6. Conserved'
    <3> SUFFICES ASSUME Clean' PROVE Conserved'
      BY DEF Conserved
    <3>1. Clean
      BY <2>3 DEF Clean
    <3>2. Flow(plan, got, host.held, wire, cons.held, chan, prod.refs)
          /\ Total(got, host.held, wire, cons.held, chan, prod.refs)
                = Reached("send", prod.at, prod.page)
      BY <3>1 DEF StreamInv, Conserved
    <3>3. Flow(plan, got, host.held, wire, cons.held, chan', prod'.refs)
          /\ Total(got, host.held, wire, cons.held, chan', prod'.refs)
                = Total(got, host.held, wire, cons.held, chan, prod.refs)
      BY <1>1, <1>p, <2>3, <3>2, FlowEmit
    <3> QED BY <2>3, <3>2, <3>3 DEF Conserved
  <2> QED BY <2>4, <2>5, <2>6 DEF StreamInv
<1>2. CASE prod' = ReturnCtxErr(prod) /\ UNCHANGED chan
  <2>1. prod' \in Producers /\ prod'.pc = "close" /\ prod'.err = TRUE
    BY <1>0, <1>2 DEF Producers, ReturnCtxErr
  <2>2. StreamTypes'
    BY <1>0, <1>2, <1>s, <2>1 DEF StreamTypes
  <2>3. StreamPhases'
    BY <1>0, <1>2, <1>s, <2>1 DEF StreamInv, StreamPhases, StreamTypes
  <2>4. ~Clean'
    BY <1>0, <2>1 DEF Clean
  <2> QED BY <2>2, <2>3, <2>4 DEF StreamInv, Conserved
<1>3. CASE prod.refs = <<>> /\ UNCHANGED chan
           /\ prod' = IF prod.page < Pages THEN [prod EXCEPT !.pc = "list", !.page = @ + 1]
                      ELSE AfterType(prod, plan)
  <2>1. /\ prod' \in Producers /\ prod'.refs = <<>> /\ prod'.pc \in {"list", "close"}
        /\ prod'.failed = prod.failed
        /\ prod'.pc = "list" /\ request.style = "refs" => prod'.page = 1
        /\ prod'.pc = "list" => prod'.err = prod.err /\ prod'.at \in 1..Len(plan)
        /\ prod'.pc = "close" => prod'.err = prod.failed /\ prod'.at = Len(plan)
        /\ Reached(prod'.pc, prod'.at, prod'.page) = Rank(prod.at, prod.page)
    <3>1. CASE prod.page < Pages
      <4>1. prod' = [prod EXCEPT !.pc = "list", !.page = @ + 1]
        BY <1>3, <3>1
      <4>2. prod.page + 1 \in 1..Pages
        BY <1>0, <3>1
      <4>3. prod' \in Producers /\ prod'.pc = "list" /\ prod'.at = prod.at
            /\ prod'.page = prod.page + 1 /\ prod'.refs = <<>> /\ prod'.failed = prod.failed
            /\ prod'.err = prod.err
        BY <1>0, <1>3, <4>1, <4>2 DEF Producers
      <4>4. request.style # "refs"
        BY <3>1 DEF StreamInv, StreamPhases
      <4> DEFINE m == Rank(prod.at, prod.page)
      <4>5. Rank(prod.at, prod.page + 1) = m + 1 /\ m \in Int
        BY <1>0, prod.at \in Nat, RankSteps
      <4> HIDE DEF m
      <4>6. Reached("list", prod.at, prod.page + 1) = m
        BY <4>5 DEF Reached
      <4> QED BY <1>0, <4>3, <4>4, <4>6 DEF m
    <3>2. CASE ~(prod.page < Pages)
      <4>1. prod' = AfterType(prod, plan) /\ prod.page = Pages
        BY <1>0, <1>3, <3>2
      <4>2. /\ AfterType(prod, plan) \in Producers
            /\ AfterType(prod, plan).refs = prod.refs /\ AfterType(prod, plan).failed = prod.failed
            /\ AfterType(prod, plan).pc \in {"list", "close"}
            /\ AfterType(prod, plan).pc = "list" =>
                  AfterType(prod, plan).page = 1 /\ AfterType(prod, plan).err = prod.err
                  /\ AfterType(prod, plan).at \in 1..Len(plan)
            /\ AfterType(prod, plan).pc = "close" =>
                  AfterType(prod, plan).err = prod.failed /\ AfterType(prod, plan).at = Len(plan)
            /\ Reached(AfterType(prod, plan).pc, AfterType(prod, plan).at,
                       AfterType(prod, plan).page) = Rank(prod.at, Pages)
        BY <1>0, prod.at <= Len(plan), AfterTypeReaches
      <4> QED BY <1>3, <4>1, <4>2
    <3> QED BY <3>1, <3>2
  <2>2. StreamTypes'
    BY <1>0, <1>3, <1>s, <2>1 DEF StreamTypes
  <2>3. StreamPhases'
    BY <1>0, <1>3, <1>s, <2>1 DEF StreamInv, StreamPhases, StreamTypes
  <2>4. Conserved'
    <3> SUFFICES ASSUME Clean' PROVE Conserved'
      BY DEF Conserved
    <3>1. Clean
      BY <1>0, <2>1 DEF Clean, StreamInv, StreamPhases
    <3>2. Flow(plan, got, host.held, wire, cons.held, chan, prod.refs)
          /\ Total(got, host.held, wire, cons.held, chan, prod.refs)
                = Rank(prod.at, prod.page)
      BY <3>1 DEF StreamInv, Conserved, Reached
    <3> QED BY <1>3, <2>1, <3>2 DEF Conserved
  <2> QED BY <2>2, <2>3, <2>4 DEF StreamInv
<1> QED BY <1>1, <1>2, <1>3

\* The channel is closed when the producer has returned.
LEMMA CloseChanInv ==
    ASSUME StreamInv, CloseChan PROVE StreamInv'
<1> USE DEF CloseChan, ProducerOnly
<1>0. StreamTypes /\ prod \in Producers
  BY DEF StreamInv, StreamTypes
<1>1. /\ prod' \in Producers /\ prod'.pc = "report" /\ prod'.refs = prod.refs
      /\ prod'.failed = prod.failed /\ prod'.err = prod.err /\ prod'.at = prod.at
  BY <1>0 DEF Producers
<1>2. StreamTypes'
  BY <1>0, <1>1 DEF StreamTypes, Streams, Unlisted
<1>3. StreamPhases'
  BY <1>0, <1>1 DEF StreamInv, StreamPhases, StreamTypes, Streams, Unlisted
<1>4. Conserved'
  <2> SUFFICES ASSUME Clean' PROVE Conserved'
    BY DEF Conserved
  <2>1. Clean
    BY <1>1 DEF Clean
  <2> QED BY <1>1, <2>1 DEF StreamInv, Conserved, Reached
<1> QED BY <1>2, <1>3, <1>4 DEF StreamInv

\* The error is handed over after the close.
LEMMA ReportScanErrInv ==
    ASSUME StreamInv, ReportScanErr PROVE StreamInv'
<1> USE DEF ReportScanErr, ProducerOnly
<1>0. StreamTypes /\ prod \in Producers
  BY DEF StreamInv, StreamTypes
<1>1. /\ prod' \in Producers /\ prod'.pc = "done" /\ prod'.refs = prod.refs
      /\ prod'.failed = prod.failed /\ prod'.err = prod.err /\ prod'.at = prod.at
  BY <1>0 DEF Producers
<1>2. StreamTypes'
  BY <1>0, <1>1 DEF StreamTypes, Streams, Unlisted
<1>3. StreamPhases'
  BY <1>0, <1>1 DEF StreamInv, StreamPhases, StreamTypes, Streams, Unlisted
<1>4. Conserved'
  <2> SUFFICES ASSUME Clean' PROVE Conserved'
    BY DEF Conserved
  <2>1. Clean
    BY <1>1 DEF Clean
  <2> QED BY <1>1, <2>1 DEF StreamInv, Conserved, Reached
<1> QED BY <1>2, <1>3, <1>4 DEF StreamInv

\* The channel is read until it is closed and empty.
LEMMA ReceiveInv ==
    ASSUME StreamInv, Receive PROVE StreamInv'
<1> USE DEF Receive
<1>0. StreamTypes /\ cons \in Consumers /\ chan \in Seq(Item) /\ ended = "no"
  BY DEF StreamInv, StreamTypes, StreamPhases
<1>s. Streams' = Streams
  BY DEF Streams, Unlisted
<1>1. CASE chan # <<>> /\ cons' = [cons EXCEPT !.held = <<Head(chan)>>] /\ chan' = Tail(chan)
  <2>1. <<Head(chan)>> \in Seq(Item) /\ Tail(chan) \in Seq(Item)
    BY <1>0, <1>1
  <2>2. /\ cons' \in Consumers /\ cons'.pc = "forward" /\ cons'.held = <<Head(chan)>>
        /\ cons'.sendErr = cons.sendErr
    BY <1>0, <1>1, <2>1 DEF Consumers
  <2>3. StreamTypes'
    BY <1>0, <1>1, <1>s, <2>1, <2>2 DEF StreamTypes
  <2>4. StreamPhases'
    BY <1>0, <1>1, <1>s, <2>2 DEF StreamInv, StreamPhases, StreamTypes
  <2>5. Conserved'
    <3> SUFFICES ASSUME Clean' PROVE Conserved'
      BY DEF Conserved
    <3>1. Clean
      BY <2>2 DEF Clean
    <3>2. Flow(plan, got, host.held, wire, <<>>, chan, prod.refs)
          /\ Total(got, host.held, wire, <<>>, chan, prod.refs)
                = Reached(prod.pc, prod.at, prod.page)
          /\ Pieces(got, host.held, wire, <<>>, chan, prod.refs)
      BY <1>0, <3>1, TypedPieces DEF StreamInv, Conserved
    <3>3. Flow(plan, got, host.held, wire, <<Head(chan)>>, Tail(chan), prod.refs)
          /\ Total(got, host.held, wire, <<Head(chan)>>, Tail(chan), prod.refs)
                = Total(got, host.held, wire, <<>>, chan, prod.refs)
      BY <1>1, <3>2, FlowReceive
    <3> QED BY <1>1, <2>2, <3>2, <3>3 DEF Conserved
  <2> QED BY <2>3, <2>4, <2>5 DEF StreamInv
<1>2. CASE chan = <<>> /\ closed /\ cons' = [cons EXCEPT !.pc = "wait"] /\ UNCHANGED chan
  <2>1. /\ cons' \in Consumers /\ cons'.pc = "wait" /\ cons'.held = cons.held
        /\ cons'.sendErr = cons.sendErr
    BY <1>0, <1>2 DEF Consumers
  <2>2. StreamTypes'
    BY <1>0, <1>2, <1>s, <2>1 DEF StreamTypes
  <2>3. StreamPhases'
    BY <1>0, <1>2, <1>s, <2>1 DEF StreamInv, StreamPhases, StreamTypes
  <2>4. Clean' => Clean
    BY <2>1 DEF Clean
  <2>5. Conserved'
    BY <1>2, <2>1, <2>4 DEF StreamInv, Conserved
  <2> QED BY <2>2, <2>3, <2>5 DEF StreamInv
<1> QED BY <1>1, <1>2

\* A failed send is recorded before the drain.
LEMMA SendInv ==
    ASSUME StreamInv, Send PROVE StreamInv'
<1> USE DEF Send
<1>0. StreamTypes /\ cons \in Consumers /\ chan \in Seq(Item) /\ wire \in Seq(Item) /\ ended = "no"
      /\ cons.held \in Seq(Item)
  BY DEF StreamInv, StreamTypes, StreamPhases, Consumers
<1>s. Streams' = Streams
  BY DEF Streams, Unlisted
<1>1. CASE wire' = wire \o cons.held /\ cons' = [cons EXCEPT !.held = <<>>] /\ UNCHANGED cancelled
  <2>1. wire' \in Seq(Item) /\ <<>> \in Seq(Item)
    BY <1>0, <1>1
  <2>2. /\ cons' \in Consumers /\ cons'.pc = "forward" /\ cons'.held = <<>>
        /\ cons'.sendErr = cons.sendErr
    BY <1>0, <1>1, <2>1 DEF Consumers
  <2>3. StreamTypes'
    BY <1>0, <1>1, <1>s, <2>1, <2>2 DEF StreamTypes
  <2>4. StreamPhases'
    BY <1>0, <1>1, <1>s, <2>2 DEF StreamInv, StreamPhases, StreamTypes
  <2>5. Conserved'
    <3> SUFFICES ASSUME Clean' PROVE Conserved'
      BY DEF Conserved
    <3>1. Clean
      BY <2>2 DEF Clean
    <3>2. Flow(plan, got, host.held, wire, cons.held, chan, prod.refs)
          /\ Total(got, host.held, wire, cons.held, chan, prod.refs)
                = Reached(prod.pc, prod.at, prod.page)
          /\ Pieces(got, host.held, wire, cons.held, chan, prod.refs)
      BY <1>0, <3>1, TypedPieces DEF StreamInv, Conserved
    <3>3. Flow(plan, got, host.held, wire \o cons.held, <<>>, chan, prod.refs)
          /\ Total(got, host.held, wire \o cons.held, <<>>, chan, prod.refs)
                = Total(got, host.held, wire, cons.held, chan, prod.refs)
      BY <3>2, FlowSend
    <3> QED BY <1>1, <2>2, <3>2, <3>3 DEF Conserved
  <2> QED BY <2>3, <2>4, <2>5 DEF StreamInv
<1>2. CASE CancelAndDrain /\ UNCHANGED wire
  <2>1. /\ cons' \in Consumers /\ cons'.pc = "drain" /\ cons'.held = <<>>
        /\ cons'.sendErr = TRUE /\ cancelled' = TRUE
    <3>1. /\ cons' = [cons EXCEPT !.pc = "drain", !.held = <<>>, !.sendErr = TRUE]
          /\ cancelled' = TRUE /\ <<>> \in Seq(Item)
      BY <1>2 DEF CancelAndDrain
    <3> DEFINE q == [cons EXCEPT !.pc = "drain", !.held = <<>>]
    <3>2. q \in Consumers /\ q.pc = "drain" /\ q.held = <<>>
      BY <1>0, <3>1 DEF Consumers
    <3>3. cons' = [q EXCEPT !.sendErr = TRUE]
      BY <1>0, <3>1 DEF Consumers
    <3> HIDE DEF q
    <3> QED BY <3>1, <3>2, <3>3 DEF Consumers
  <2>2. StreamTypes'
    BY <1>0, <1>2, <1>s, <2>1 DEF StreamTypes
  <2>3. StreamPhases'
    BY <1>0, <1>2, <1>s, <2>1 DEF StreamInv, StreamPhases, StreamTypes
  <2>4. ~Clean'
    BY <1>0, <2>1 DEF Clean
  <2> QED BY <2>2, <2>3, <2>4 DEF StreamInv, Conserved
<1> QED BY <1>1, <1>2

\* What is drained is lost, and the stream already failed.
LEMMA DrainInv ==
    ASSUME StreamInv, Drain PROVE StreamInv'
<1> USE DEF Drain
<1>0. StreamTypes /\ cons \in Consumers /\ chan \in Seq(Item) /\ ended = "no" /\ cons.sendErr
  BY DEF StreamInv, StreamTypes, StreamPhases
<1>s. Streams' = Streams
  BY DEF Streams, Unlisted
<1>1. CASE chan # <<>> /\ chan' = Tail(chan) /\ UNCHANGED cons
  <2>1. StreamTypes'
    BY <1>0, <1>1, <1>s DEF StreamTypes
  <2>2. StreamPhases'
    BY <1>0, <1>1, <1>s DEF StreamInv, StreamPhases, StreamTypes
  <2>3. ~Clean'
    BY <1>0, <1>1 DEF Clean
  <2> QED BY <2>1, <2>2, <2>3 DEF StreamInv, Conserved
<1>2. CASE chan = <<>> /\ closed /\ cons' = [cons EXCEPT !.pc = "wait"] /\ UNCHANGED chan
  <2>1. /\ cons' \in Consumers /\ cons'.pc = "wait" /\ cons'.held = cons.held
        /\ cons'.sendErr = cons.sendErr
    BY <1>0, <1>2 DEF Consumers
  <2>2. StreamTypes'
    BY <1>0, <1>2, <1>s, <2>1 DEF StreamTypes
  <2>3. StreamPhases'
    BY <1>0, <1>2, <1>s, <2>1 DEF StreamInv, StreamPhases, StreamTypes
  <2>4. ~Clean'
    BY <1>0, <2>1 DEF Clean
  <2> QED BY <2>2, <2>3, <2>4 DEF StreamInv, Conserved
<1> QED BY <1>1, <1>2

\* The handler ends, or the next cluster follows the last resource of this one.
LEMMA ReturnInv ==
    ASSUME StreamInv, Return PROVE StreamInv'
<1> USE StreamAssumption DEF Return, ProducerReturned
<1>0. StreamTypes /\ cons \in Consumers /\ ended = "no" /\ closed /\ chan = <<>> /\ cons.held = <<>>
      /\ cluster \in Nat /\ plan \in Seq(Type) /\ Len(plan) \in Nat
  BY TypedPieces DEF StreamInv, StreamTypes, StreamPhases
<1>s. Streams' = Streams
  BY DEF Streams, Unlisted
<1>1. CASE StreamFailed \/ cluster = Streams
  <2>1. /\ cons' \in Consumers /\ cons'.pc = "returned" /\ cons'.held = cons.held
        /\ cons'.sendErr = cons.sendErr
    BY <1>0, <1>1 DEF Consumers
  <2>2. /\ ended' = IF StreamFailed THEN "error" ELSE "nil"
        /\ UNCHANGED <<cluster, cancelled, chan, closed, prod>>
    BY <1>1
  <2>3. StreamTypes'
    BY <1>0, <1>s, <2>1, <2>2 DEF StreamTypes
  <2>4. StreamPhases'
    BY <1>0, <1>1, <1>s, <2>1, <2>2 DEF StreamInv, StreamPhases, StreamTypes, StreamFailed
  <2>5. Clean' => Clean
    <3>1. CASE StreamFailed
      BY <2>1, <2>2, <3>1 DEF Clean, StreamFailed
    <3>2. CASE ~StreamFailed
      BY <2>1, <2>2, <3>2 DEF Clean, StreamFailed, StreamInv, StreamPhases
    <3> QED BY <3>1, <3>2
  <2>6. Conserved'
    BY <2>1, <2>2, <2>5 DEF StreamInv, Conserved
  <2> QED BY <2>3, <2>4, <2>6 DEF StreamInv
<1>2. CASE ~(StreamFailed \/ cluster = Streams)
  <2>1. /\ cluster' = cluster + 1 /\ cancelled' = FALSE
        /\ chan' = <<>> /\ closed' = FALSE
        /\ prod' = StartedProducer(Len(plan)) /\ cons' = ForwardingConsumer
        /\ UNCHANGED ended /\ UNCHANGED <<request, over, alive, plan, skipped, wire, host, got>>
    BY <1>2
  <2>2. prod' \in Producers /\ cons' \in Consumers /\ <<>> \in Seq(Item)
    BY <1>0, <2>1 DEF Producers, Consumers, StartedProducer, ForwardingConsumer
  <2>3. cluster' \in Nat /\ cluster' # 0
    BY <1>0, <2>1
  <2>4. /\ prod'.pc = "discover" /\ prod'.at = Len(plan) /\ prod'.page = 1 /\ prod'.refs = <<>>
        /\ prod'.err = FALSE /\ prod'.failed = FALSE /\ cons'.pc = "forward"
        /\ cons'.held = <<>>
    BY <2>1 DEF StartedProducer, ForwardingConsumer
  <2>5. StreamTypes'
    BY <1>0, <2>1, <2>2, <2>3 DEF StreamTypes
  <2>6. StreamPhases'
    BY <1>0, <1>s, <2>1, <2>3, <2>4 DEF StreamInv, StreamPhases, StreamTypes
  <2>7. prod.refs = <<>> /\ prod.at = Len(plan) /\ (Clean' => Clean)
    BY <1>0, <1>2, <2>1 DEF StreamFailed, StreamInv, StreamPhases, Clean
  <2>8. Conserved'
    <3> SUFFICES ASSUME Clean' PROVE Conserved'
      BY DEF Conserved
    <3>1. Flow(plan, got, host.held, wire, <<>>, <<>>, <<>>)
          /\ Total(got, host.held, wire, <<>>, <<>>, <<>>)
                = Reached("done", Len(plan), prod.page)
      BY <1>0, <2>7 DEF StreamInv, Conserved
    <3>2. Reached("done", Len(plan), prod.page) = Reached("discover", Len(plan), 1)
      BY DEF Reached
    <3> QED BY <2>1, <2>4, <3>1, <3>2 DEF Conserved
  <2> QED BY <2>5, <2>6, <2>8 DEF StreamInv
<1> QED BY <1>1, <1>2

\* The host as it returns.
LEMMA HostReturnFields ==
    ASSUME NEW result \in {"nil", "error"}, StreamTypes, HostReturn(result)
    PROVE  /\ host' \in Hosts /\ host'.pc = "returned" /\ host'.held = <<>>
           /\ host'.result = result /\ over' = TRUE /\ got' = got
<1>1. /\ host' = [host EXCEPT !.pc = "returned", !.held = <<>>, !.result = result]
      /\ over' = TRUE /\ got' = got /\ host \in Hosts /\ <<>> \in Seq(Item)
  BY DEF HostReturn, StreamTypes
<1> DEFINE q == [host EXCEPT !.pc = "returned", !.held = <<>>]
<1>2. q \in Hosts /\ q.pc = "returned" /\ q.held = <<>>
  BY <1>1 DEF Hosts
<1>3. host' = [q EXCEPT !.result = result]
  BY <1>1 DEF Hosts
<1> HIDE DEF q
<1> QED BY <1>1, <1>2, <1>3 DEF Hosts

\* The host returns with an error: nothing is claimed of what it passed on.
LEMMA HostErrorInv ==
    ASSUME StreamInv, HostReturn("error"), UNCHANGED wire, HostOnly, host.result = "none"
    PROVE  StreamInv'
<1> USE DEF HostOnly
<1>0. StreamTypes
  BY DEF StreamInv
<1>1. /\ host' \in Hosts /\ host'.pc = "returned" /\ host'.held = <<>>
      /\ host'.result = "error" /\ over' = TRUE /\ got' = got
  BY <1>0, HostReturnFields
<1>2. StreamTypes'
  BY <1>0, <1>1 DEF StreamTypes, Streams, Unlisted
<1>3. StreamPhases'
  BY <1>1 DEF StreamInv, StreamPhases, Streams, Unlisted
<1>4. ~Clean'
  BY <1>1 DEF Clean
<1> QED BY <1>2, <1>3, <1>4 DEF StreamInv, Conserved

\* The host reads a message, the end of the stream or an error.
LEMMA RecvInv ==
    ASSUME StreamInv, Recv PROVE StreamInv'
<1> USE DEF Recv
<1>0. StreamTypes /\ host \in Hosts /\ wire \in Seq(Item) /\ host.held = <<>>
      /\ host.result = "none"
  BY DEF StreamInv, StreamTypes, StreamPhases
<1>s. Streams' = Streams
  BY DEF Streams, Unlisted, HostOnly
<1>1. CASE wire # <<>> /\ host' = [host EXCEPT !.pc = "send", !.held = <<Head(wire)>>]
           /\ wire' = Tail(wire) /\ UNCHANGED <<over, got>>
  <2>1. <<Head(wire)>> \in Seq(Item) /\ Tail(wire) \in Seq(Item)
    BY <1>0, <1>1
  <2>2. /\ host' \in Hosts /\ host'.pc = "send" /\ host'.held = <<Head(wire)>>
        /\ host'.result = "none"
    BY <1>0, <1>1, <2>1 DEF Hosts
  <2>3. StreamTypes'
    BY <1>0, <1>1, <1>s, <2>1, <2>2 DEF StreamTypes, HostOnly
  <2>4. StreamPhases'
    BY <1>0, <1>1, <1>s, <2>2 DEF StreamInv, StreamPhases, HostOnly
  <2>5. Clean' => Clean
    BY <1>0, <1>1 DEF Clean, HostOnly
  <2>6. Conserved'
    <3> SUFFICES ASSUME Clean' PROVE Conserved'
      BY DEF Conserved
    <3>1. Flow(plan, got, <<>>, wire, cons.held, chan, prod.refs)
          /\ Total(got, <<>>, wire, cons.held, chan, prod.refs)
                = Reached(prod.pc, prod.at, prod.page)
          /\ Pieces(got, <<>>, wire, cons.held, chan, prod.refs)
      BY <1>0, <2>5, TypedPieces DEF StreamInv, Conserved
    <3>2. Flow(plan, got, <<Head(wire)>>, Tail(wire), cons.held, chan, prod.refs)
          /\ Total(got, <<Head(wire)>>, Tail(wire), cons.held, chan, prod.refs)
                = Total(got, <<>>, wire, cons.held, chan, prod.refs)
      BY <1>1, <3>1, FlowRecv
    <3> QED BY <1>1, <2>2, <3>1, <3>2 DEF Conserved, HostOnly
  <2> QED BY <2>3, <2>4, <2>6 DEF StreamInv
<1>2. CASE wire = <<>> /\ ended = "nil" /\ HostReturn("nil") /\ UNCHANGED wire
  <2>1. /\ host' \in Hosts /\ host'.pc = "returned" /\ host'.held = <<>>
        /\ host'.result = "nil" /\ over' = TRUE /\ got' = got
    BY <1>0, <1>2, HostReturnFields
  <2>2. StreamTypes'
    BY <1>0, <1>2, <1>s, <2>1 DEF StreamTypes, HostOnly
  <2>3. StreamPhases'
    BY <1>2, <1>s, <2>1 DEF StreamInv, StreamPhases, HostOnly
  <2>4. Clean
    BY <1>0, <1>2 DEF Clean
  <2>5. Conserved'
    BY <1>0, <1>2, <2>1, <2>4 DEF StreamInv, Conserved, HostOnly
  <2> QED BY <2>2, <2>3, <2>5 DEF StreamInv
<1>3. CASE HostReturn("error") /\ UNCHANGED wire
  BY <1>0, <1>3, HostErrorInv
<1> QED BY <1>1, <1>2, <1>3

\* The host's own caller takes the resource, or fails.
LEMMA SinkSendInv ==
    ASSUME StreamInv, SinkSend PROVE StreamInv'
<1> USE DEF SinkSend
<1>0. StreamTypes /\ host \in Hosts /\ host.held \in Seq(Item) /\ got \in Seq(Item)
      /\ host.result = "none"
  BY DEF StreamInv, StreamTypes, StreamPhases, Hosts
<1>s. Streams' = Streams
  BY DEF Streams, Unlisted, HostOnly
<1>1. CASE got' = got \o host.held /\ host' = [host EXCEPT !.pc = "recv", !.held = <<>>]
           /\ UNCHANGED over
  <2>1. got' \in Seq(Item) /\ <<>> \in Seq(Item)
    BY <1>0, <1>1
  <2>2. host' \in Hosts /\ host'.pc = "recv" /\ host'.held = <<>> /\ host'.result = "none"
    BY <1>0, <1>1, <2>1 DEF Hosts
  <2>3. StreamTypes'
    BY <1>0, <1>1, <1>s, <2>1, <2>2 DEF StreamTypes, HostOnly
  <2>4. StreamPhases'
    BY <1>0, <1>1, <1>s, <2>2 DEF StreamInv, StreamPhases, HostOnly
  <2>5. Clean' => Clean
    BY <1>0, <1>1 DEF Clean, HostOnly
  <2>6. Conserved'
    <3> SUFFICES ASSUME Clean' PROVE Conserved'
      BY DEF Conserved
    <3>1. Flow(plan, got, host.held, wire, cons.held, chan, prod.refs)
          /\ Total(got, host.held, wire, cons.held, chan, prod.refs)
                = Reached(prod.pc, prod.at, prod.page)
          /\ Pieces(got, host.held, wire, cons.held, chan, prod.refs)
      BY <1>0, <2>5, TypedPieces DEF StreamInv, Conserved
    <3>2. Flow(plan, got \o host.held, <<>>, wire, cons.held, chan, prod.refs)
          /\ Total(got \o host.held, <<>>, wire, cons.held, chan, prod.refs)
                = Total(got, host.held, wire, cons.held, chan, prod.refs)
      BY <3>1, FlowSink
    <3> QED BY <1>1, <2>2, <3>1, <3>2 DEF Conserved, HostOnly
  <2> QED BY <2>3, <2>4, <2>6 DEF StreamInv
<1>2. CASE HostReturn("error")
  BY <1>0, <1>2, HostErrorInv
<1> QED BY <1>1, <1>2

\* A cancellation or a crash does not make a failed stream clean.
LEMMA EnvironmentInv ==
    ASSUME StreamInv, CallerCancels \/ PluginDies PROVE StreamInv'
<1> USE DEF CallerCancels, PluginDies
<1>1. StreamTypes'
  BY DEF StreamInv, StreamTypes, Streams, Unlisted
<1>2. StreamPhases'
  BY DEF StreamInv, StreamPhases, Streams, Unlisted
<1>3. Clean' => Clean
  BY DEF Clean
<1>4. Conserved'
  BY <1>3 DEF StreamInv, Conserved
<1> QED BY <1>1, <1>2, <1>4 DEF StreamInv

\* Every step keeps the invariant.
LEMMA StreamInvStep ==
    ASSUME StreamInv, [StreamNext]_streamVars PROVE StreamInv'
<1>1. CASE StreamNext
  <2>1. CASE Producer
    BY <2>1, TakeTypesInv, ListPageInv, ScanServiceInv, EmitInv, CloseChanInv,
       ReportScanErrInv DEF Producer
  <2>2. CASE Consumer
    BY <2>2, ReceiveInv, SendInv, DrainInv, ReturnInv DEF Consumer
  <2>3. CASE Host
    BY <2>3, RecvInv, SinkSendInv DEF Host
  <2> QED BY <1>1, <2>1, <2>2, <2>3, EnvironmentInv DEF StreamNext
<1>2. CASE UNCHANGED streamVars
  BY <1>2 DEF streamVars, StreamInv, StreamTypes, StreamPhases, Conserved, Clean, Streams, Unlisted
<1> QED BY <1>1, <1>2

\* The types of two lists, one after the other.
LEMMA TypesOfBoth ==
    ASSUME NEW S, NEW a \in Seq(S), NEW b \in Seq(S)
    PROVE  TypesOf(a \o b) = TypesOf(a) \cup TypesOf(b)
<1>1. Len(a \o b) = Len(a) + Len(b) /\ Len(a) \in Nat /\ Len(b) \in Nat
  OBVIOUS
<1>2. \A i \in 1..Len(a) : (a \o b)[i] = a[i] /\ i \in 1..Len(a \o b)
  BY <1>1
<1>3. \A i \in 1..Len(b) : (a \o b)[Len(a) + i] = b[i] /\ Len(a) + i \in 1..Len(a \o b)
  BY <1>1
<1>4. \A i \in 1..Len(a \o b) :
         i \in 1..Len(a) \/ (i - Len(a) \in 1..Len(b) /\ (a \o b)[i] = b[i - Len(a)])
  BY <1>1
<1> QED BY <1>2, <1>3, <1>4 DEF TypesOf

\* The list of one more cluster, less what is left out of it.
LEMMA CoversOneMore ==
    ASSUME NEW y, NEW y2, NEW c \in Nat, c # 0, NEW w, NEW r, NEW gone, NEW gone2,
           Covers(y, c - 1, w, gone), r \subseteq w, \A t \in w : t \in Nat,
           TypesOf(y2) = TypesOf(y) \cup ({c} \X r),
           gone2 = gone \cup ({c} \X (w \ r))
    PROVE  Covers(y2, c, w, gone2)
<1> DEFINE old == TypesOf(y)
           new == TypesOf(y2)
<1>1. old = ((1..(c - 1)) \X w) \ gone /\ new = old \cup ({c} \X r)
      /\ \A x \in gone : \E d \in 1..(c - 1), t \in Nat : x = <<d, t>>
  BY DEF Covers
<1>2. (1..c) \X w = ((1..(c - 1)) \X w) \cup ({c} \X w)
  <2>1. 1..c = (1..(c - 1)) \cup {c}
    OBVIOUS
  <2> QED BY <2>1
<1>3. c \notin 1..(c - 1) /\ \A x \in {c} \X w : x \notin gone
  BY <1>1
<1>5. \A x \in gone2 : \E d \in 1..c, t \in Nat : x = <<d, t>>
  <2>1. ASSUME NEW x \in gone PROVE \E d \in 1..c, t \in Nat : x = <<d, t>>
    <3>1. PICK d \in 1..(c - 1), t \in Nat : x = <<d, t>>
      BY <1>1
    <3>2. d \in 1..c
      OBVIOUS
    <3> QED BY <3>1, <3>2
  <2>2. ASSUME NEW x \in {c} \X (w \ r) PROVE \E d \in 1..c, u \in Nat : x = <<d, u>>
    <3>1. PICK t \in w \ r : x = <<c, t>>
      OBVIOUS
    <3>2. c \in 1..c /\ t \in Nat
      OBVIOUS
    <3> QED BY <3>1, <3>2
  <2> QED BY <2>1, <2>2
<1> HIDE DEF old, new
<1>6. new = ((1..c) \X w) \ gone2
  <2>1. ((1..(c - 1)) \X w) \cap ({c} \X w) = {}
    BY <1>3
  <2>2. {c} \X w = ({c} \X r) \cup ({c} \X (w \ r))
    OBVIOUS
  <2>3. ({c} \X r) \cap ({c} \X (w \ r)) = {}
    OBVIOUS
  <2> DEFINE A == (1..(c - 1)) \X w
             B == {c} \X w
             C == {c} \X r
             D == {c} \X (w \ r)
  <2> HIDE DEF A, B, C, D
  <2> QED BY <1>1, <1>2, <1>3, <2>1, <2>2, <2>3 DEF A, B, C, D
<1> QED BY <1>5, <1>6 DEF Covers, new

\* Taking up types is over in one step.
LEMMA TakenPc ==
    ASSUME StreamTypes, TakeTypes PROVE prod'.pc # "discover"
BY DEF TakeTypes, TakeUp, AfterType, StreamTypes, Producers

\* The plan covers one more cluster when its types are taken up.
LEMMA TakeTypesCovers ==
    ASSUME StreamInv, Covered, TakeTypes PROVE Covered'
<1>0. StreamTypes /\ cluster \in Nat /\ plan \in Seq(Type) /\ prod.pc = "discover"
      /\ cluster' = cluster /\ request' = request /\ cluster # 0
  BY TypedPieces DEF StreamInv, StreamPhases, TakeTypes, ProducerOnly
<1>1. CASE prod'.err = TRUE
  <2>1. prod'.pc # "discover"
    BY <1>0, TakenPc
  <2> QED BY <1>1, <2>1 DEF Covered
<1>2. CASE prod'.err # TRUE
  <2>1. PICK names \in Seq(1..Types) :
              /\ TakeUp(names)
              /\ \/ names = request.names /\ UNCHANGED skipped
                       /\ (request.names # <<>> \/ request.style = "refs")
                 \/ request.names = <<>> /\ request.style = "pages"
                       /\ skipped' = skipped \cup LeftOut(names)
    BY <1>0, <1>2, TakenLists
  <2> DEFINE z == OfCluster(names)
             R == TypesOf(names)
  <2>2. /\ z \in Seq(Type) /\ Len(z) = Len(names)
        /\ \A i \in 1..Len(names) : z[i] = <<cluster, names[i]>>
    BY <1>0, OfClusterTypes
  <2>3. plan' = plan \o z
    BY <2>1 DEF TakeUp
  <2>4. TypesOf(z) = {cluster} \X R
    <3> HIDE DEF z
    <3>1. ASSUME NEW x \in TypesOf(z) PROVE x \in {cluster} \X R
      <4>1. PICK i \in 1..Len(z) : x = z[i]
        BY DEF TypesOf
      <4>2. x = <<cluster, names[i]>> /\ names[i] \in R
        BY <2>2, <4>1 DEF TypesOf
      <4> QED BY <4>2
    <3>2. ASSUME NEW x \in {cluster} \X R PROVE x \in TypesOf(z)
      <4>1. PICK i \in 1..Len(names) : x = <<cluster, names[i]>>
        BY DEF TypesOf
      <4>2. x = z[i] /\ i \in 1..Len(z)
        BY <2>2, <4>1
      <4> QED BY <4>2 DEF TypesOf
    <3> QED BY <3>1, <3>2
  <2>8. R \subseteq 1..Types
    BY StreamAssumption DEF TypesOf
  <2> HIDE DEF z, R
  <2>5. TypesOf(plan') = TypesOf(plan) \cup ({cluster} \X R)
    BY <1>0, <2>2, <2>3, <2>4, TypesOfBoth
  <2>6. Wanted' = Wanted
    BY <1>0 DEF Wanted
  <2>7. Covers(plan, cluster - 1, Wanted, skipped)
    BY <1>0 DEF Covered
  <2>9. Covers(plan', cluster, Wanted, skipped')
    <3>1. R \subseteq Wanted /\ skipped' = skipped \cup ({cluster} \X (Wanted \ R))
          /\ \A t \in Wanted : t \in Nat
      <4>1. CASE names = request.names /\ UNCHANGED skipped
                 /\ (request.names # <<>> \/ request.style = "refs")
        <5>1. Wanted = R
          BY <4>1 DEF Wanted, R
        <5>2. {cluster} \X (Wanted \ R) = {}
          BY <5>1
        <5>3. \A t \in 1..Types : t \in Nat
          BY StreamAssumption
        <5> QED BY <2>8, <4>1, <5>1, <5>2, <5>3
      <4>2. CASE request.names = <<>> /\ request.style = "pages"
                 /\ skipped' = skipped \cup LeftOut(names)
        <5>1. Wanted = 1..Types
          BY <4>2 DEF Wanted
        <5>2. LeftOut(names) = {cluster} \X (Wanted \ R)
          BY <5>1 DEF LeftOut, R
        <5>3. \A t \in 1..Types : t \in Nat
          BY StreamAssumption
        <5> QED BY <2>8, <4>2, <5>1, <5>2, <5>3
      <4> QED BY <2>1, <4>1, <4>2
    <3> QED BY <1>0, <2>5, <2>7, <3>1, CoversOneMore
  <2>10. prod'.pc # "discover"
    BY <1>0, TakenPc
  <2> QED BY <1>0, <2>6, <2>9, <2>10 DEF Covered
<1> QED BY <1>1, <1>2

\* The other steps leave the plan, or start on the next cluster.
LEMMA CoveredStep ==
    ASSUME StreamInv, Covered, [StreamNext]_streamVars PROVE Covered'
<1>0. StreamTypes /\ StreamPhases /\ prod \in Producers /\ cluster \in Nat
      /\ plan \in Seq(Type)
  BY TypedPieces DEF StreamInv, StreamTypes
<1>1. ASSUME UNCHANGED <<request, cluster, plan, skipped, prod>> PROVE Covered'
  <2>1. Wanted' = Wanted
    BY <1>1 DEF Wanted
  <2> QED BY <1>1, <2>1 DEF Covered
<1>2. ASSUME UNCHANGED <<request, cluster, plan, skipped>>, prod.pc # "discover",
             prod'.pc # "discover", prod.err => prod'.err
      PROVE  Covered'
  <2>1. Wanted' = Wanted
    BY <1>2 DEF Wanted
  <2> QED BY <1>2, <2>1 DEF Covered
<1>3. CASE TakeTypes
  BY <1>3, TakeTypesCovers
<1>4. CASE ListPage
  <2>1. UNCHANGED <<request, cluster, plan, skipped>> /\ prod.pc = "list" /\ ~prod.err
    BY <1>0, <1>4 DEF ListPage, ProducerOnly, StreamPhases
  <2>2. prod'.pc # "discover"
    BY <1>0, <1>4 DEF ListPage, Producers, AfterType, ReturnCtxErr
  <2> QED BY <1>2, <2>1, <2>2
<1>5. CASE ScanService
  <2>1. UNCHANGED <<request, cluster, plan, skipped>> /\ prod.pc = "list" /\ ~prod.err
    BY <1>0, <1>5 DEF ScanService, ProducerOnly, StreamPhases
  <2>2. prod'.pc # "discover"
    BY <1>0, <1>5 DEF ScanService, Producers
  <2> QED BY <1>2, <2>1, <2>2
<1>6. CASE Emit
  <2>1. UNCHANGED <<request, cluster, plan, skipped>> /\ prod.pc = "send" /\ ~prod.err
    BY <1>0, <1>6 DEF Emit, ProducerOnly, StreamPhases
  <2>2. prod'.pc # "discover"
    BY <1>0, <1>6 DEF Emit, Producers, AfterType, ReturnCtxErr
  <2> QED BY <1>2, <2>1, <2>2
<1>7. CASE CloseChan \/ ReportScanErr
  <2>1. UNCHANGED <<request, cluster, plan, skipped>> /\ prod.pc # "discover"
    BY <1>7 DEF CloseChan, ReportScanErr, ProducerOnly
  <2>2. prod'.pc # "discover" /\ prod'.err = prod.err
    BY <1>0, <1>7 DEF CloseChan, ReportScanErr, Producers
  <2> QED BY <1>2, <2>1, <2>2
<1>8. CASE Return
  <2>1. CASE StreamFailed \/ cluster = Streams
    BY <1>1, <1>8, <2>1 DEF Return
  <2>2. CASE ~(StreamFailed \/ cluster = Streams)
    <3>1. /\ cluster' = cluster + 1 /\ prod' = StartedProducer(Len(plan))
          /\ UNCHANGED <<request, plan, skipped>> /\ prod.pc = "done" /\ ~prod.err
      BY <1>8, <2>2 DEF Return, ProducerReturned, StreamFailed
    <3>2. prod'.pc = "discover" /\ cluster' - 1 = cluster
      BY <1>0, <3>1 DEF StartedProducer
    <3>3. Wanted' = Wanted
      BY <3>1 DEF Wanted
    <3> QED BY <3>1, <3>2, <3>3 DEF Covered
  <2> QED BY <2>1, <2>2
<1>9. CASE Receive \/ Send \/ Drain
  BY <1>1, <1>9 DEF Receive, Send, Drain
<1>10. CASE Host \/ CallerCancels \/ PluginDies \/ UNCHANGED streamVars
  BY <1>1, <1>10 DEF Host, Recv, SinkSend, HostOnly, CallerCancels, PluginDies, streamVars
<1> QED
  BY <1>3, <1>4, <1>5, <1>6, <1>7, <1>8, <1>9, <1>10 DEF StreamNext, Producer, Consumer

\* At a clean end all pieces but the delivered one are empty, and the last
\* cluster is covered.
LEMMA CleanEndOfInv ==
    ASSUME StreamInv, Covered PROVE CleanEndIsComplete
<1> SUFFICES ASSUME host.result = "nil"
             PROVE  /\ got = Inventory
                    /\ TypesOf(plan) = ((1..Streams) \X Wanted) \ skipped
  BY DEF CleanEndIsComplete
<1>0. /\ StreamTypes /\ got \in Seq(Item) /\ Len(got) \in Nat
      /\ cluster = Streams /\ prod.at = Len(plan) /\ Len(plan) \in Nat
      /\ host.held = <<>> /\ wire = <<>> /\ ended = "nil" /\ ~prod.err
      /\ prod.pc = "done" /\ cons.held = <<>> /\ chan = <<>> /\ prod.refs = <<>>
  BY TypedPieces DEF StreamInv, StreamPhases, StreamTypes
<1>1. Clean
  BY <1>0 DEF Clean
<1>2. RunFrom(plan, 0, got)
      /\ Total(got, <<>>, <<>>, <<>>, <<>>, <<>>) = Rank(Len(plan), Pages)
  BY <1>0, <1>1 DEF StreamInv, Conserved, Flow, Reached
<1>3. Rank(Len(plan), Pages) = Len(plan) * Pages
  BY <1>0, StreamAssumption, 1 \in 1..Pages, RankSteps
<1>4. Len(got) = Len(plan) * Pages
  BY <1>0, <1>2, <1>3 DEF Total
<1>5. \A i \in 1..Len(got) : got[i] = Nth(plan, i)
  BY <1>0, <1>2 DEF RunFrom
<1>6. got = [n \in 1..Len(got) |-> Nth(plan, n)]
  BY <1>0, <1>5
<1>7. got = Inventory
  BY <1>4, <1>6 DEF Inventory
<1>8. Covers(plan, Streams, Wanted, skipped)
  BY <1>0 DEF Covered
<1> QED BY <1>7, <1>8 DEF Covers

\* The pieces of a clean stream make up the inventory as far as it was listed.
THEOREM StreamConserves == StreamSpec => []StreamInv
<1>1. StreamInit => StreamInv
  BY InitStream
<1>2. StreamInv /\ [StreamNext]_streamVars => StreamInv'
  BY StreamInvStep
<1> QED BY <1>1, <1>2, PTL DEF StreamSpec

\* A stream that the host sees end cleanly delivered every page of every type
\* it took up, in order, and took up all that was asked for but what discovery
\* left out, whatever failed, was cancelled or died on the way (stream.go,
\* forwardStream), for any clusters, types, pages, requests and buffers.
THEOREM StreamsAreComplete == StreamSpec => []CleanEndIsComplete
<1>1. StreamInit => Covered
  BY InitStream
<1>2. StreamInv /\ Covered /\ [StreamNext]_streamVars => Covered'
  BY CoveredStep
<1>3. StreamInv /\ Covered => CleanEndIsComplete
  BY CleanEndOfInv
<1> QED BY <1>1, <1>2, <1>3, StreamConserves, PTL DEF StreamSpec

\* The safety part of StreamEnds: the handler of a stream does not return
\* before its producer has, so that nothing goes on sending on a channel that
\* no one reads (stream.go, <-scanErr before each return).
THEOREM HandlerOutlivesProducer ==
    StreamSpec => [](ended # "no" => prod.pc = "done" /\ closed)
<1>1. StreamInv => (ended # "no" => prod.pc = "done" /\ closed)
  BY DEF StreamInv, StreamPhases, StreamTypes
<1> QED BY <1>1, StreamConserves, PTL
=============================================================================
