---------------------------- MODULE ExpiryCache ----------------------------
(***************************************************************************)
(* The cache of the GCP provider (plugins/gcp-provider/cache.go): a map    *)
(* with a time to live per entry and at most EntriesMax entries, indexed   *)
(* by expiry in a heap that is cleaned lazily.                             *)
(*                                                                         *)
(* Every method holds the mutex for its whole body, so a method is one     *)
(* action; what interleaves is the calls of several goroutines, the        *)
(* deletions that Get starts on goroutines of their own, and the cleanup   *)
(* timer.  Time is a counter, so a method sees one instant.  The heap is   *)
(* the set of its items (generations make them distinct); items that       *)
(* expire at the same instant leave it in any order, as in the code.       *)
(* Values are left out: an entry is told apart by its generation.          *)
(***************************************************************************)
EXTENDS Integers, FiniteSets

CONSTANTS
    Keys,        \* the keys callers use
    TTLs,        \* the times to live they ask for
    EntriesMax,  \* entriesMax
    MaxTime,     \* bound: the last instant
    MaxWrites,   \* bound: how many values are stored
    MaxDeletes   \* bound: deletions of one key under way at once

ASSUME CacheAssumption ==
    /\ IsFiniteSet(Keys)
    /\ TTLs \subseteq Nat
    /\ EntriesMax \in Nat \ {0}
    /\ MaxTime \in Nat
    /\ MaxWrites \in Nat
    /\ MaxDeletes \in Nat

VARIABLES
    now,             \* time.Now()
    entries,         \* c.entries: key -> [expiry, generation]
    order,           \* c.order, the heap, as a set of items
    generationNext,  \* c.generationNext
    deletes,         \* key -> how many `go c.Delete(key)` have not run yet
    stop,            \* whether c.stop is closed
    cleaner          \* whether the cleanup goroutine is running

vars == <<now, entries, order, generationNext, deletes, stop, cleaner>>

Entry == [expiry : Nat, generation : Nat]

expiryItem == [expiry : Nat, key : Keys, generation : Nat]

\* The heap item that stands for key k of the entries e.
ItemOf(e, k) == [expiry |-> e[k].expiry, key |-> k, generation |-> e[k].generation]

(***************************************************************************)
(* The helpers that run under the lock.  A state of the cache is a pair of *)
(* entries e and heap o; a helper that pops the heap returns the set of    *)
(* the states it may leave.                                                *)
(***************************************************************************)
\* Bug variant: an item counts as live whenever its key is present.
liveByKey(e, i) == i.key \in DOMAIN e

liveLocked(e, i) == i.key \in DOMAIN e /\ e[i.key].generation = i.generation

Without(e, ks) == [k \in DOMAIN e \ ks |-> e[k]]

\* Pops of the heap that end at the first item of `last`: everything that
\* expires before it, and any of the other items that expire with it.
PopsUntil(o, last) ==
    LET before == {i \in o : \A s \in last : i.expiry < s.expiry}
        ties   == {i \in o \ last : \A s \in last : i.expiry <= s.expiry}
    IN  {before \cup t : t \in SUBSET ties}

\* Bug variant: the sweep pops an item before it looks at its expiry.
cleanPopsFirst(e, o, t) ==
    LET expired == {i \in o : liveLocked(e, i) /\ t > i.expiry}
        kept == {i \in o : liveLocked(e, i) /\ t <= i.expiry}
    IN  {[entries |-> Without(e, {x.key : x \in expired}), order |-> o \ (p \cup {f})] :
            p \in PopsUntil(o, kept), f \in {g \in kept : \A j \in kept : g.expiry <= j.expiry}}

cleanExpiredLocked(e, o, t) ==
    LET kept == {i \in o : liveLocked(e, i) /\ t <= i.expiry}
    IN  {[entries |-> Without(e, {i.key : i \in {j \in p : liveLocked(e, j)}}),
          order   |-> o \ p] : p \in PopsUntil(o, kept)}

\* The eviction: items are popped up to and with the first live one.
EvictFirstLive(e, o) ==
    LET live   == {i \in o : liveLocked(e, i)}
        firsts == {i \in live : \A j \in live : i.expiry <= j.expiry}
    IN  IF live = {} THEN {[entries |-> e, order |-> {}]}
        ELSE UNION {{[entries |-> Without(e, {v.key}), order |-> o \ (p \cup {v})] :
                        p \in PopsUntil(o, live)} : v \in firsts}

makeRoomLocked(e, o, t) ==
    LET Full(x) == Cardinality(DOMAIN x) >= EntriesMax
    IN  IF ~Full(e) THEN {[entries |-> e, order |-> o]}
        ELSE UNION {IF Full(c.entries) THEN EvictFirstLive(c.entries, c.order) ELSE {c} :
                       c \in cleanExpiredLocked(e, o, t)}

\* Bug variant: the index is compacted one item too late.
compactLate(e, o) ==
    IF Cardinality(o) <= 2 * EntriesMax + 1 THEN o ELSE {ItemOf(e, k) : k \in DOMAIN e}

compactOrderLocked(e, o) ==
    IF Cardinality(o) <= 2 * EntriesMax THEN o ELSE {ItemOf(e, k) : k \in DOMAIN e}

(***************************************************************************)
(* The methods.                                                            *)
(***************************************************************************)
\* NewMultiLevelCache makes each cache and starts its cleanup goroutine.
NewCache ==
    /\ now = 0
    /\ entries = [k \in {} |-> 0]
    /\ order = {}
    /\ generationNext = 0
    /\ deletes = [k \in Keys |-> 0]
    /\ stop = FALSE
    /\ cleaner = TRUE

\* A Get that finds an expired entry deletes it on a goroutine of its own;
\* any other Get changes nothing.
Get(key) ==
    /\ key \in DOMAIN entries
    /\ now > entries[key].expiry
    /\ deletes[key] < MaxDeletes
    /\ deletes' = [deletes EXCEPT ![key] = @ + 1]
    /\ UNCHANGED <<now, entries, order, generationNext, stop, cleaner>>

\* The state SetWithTTL leaves from one where there is room.
Stored(r, key, entry) ==
    LET e == [k \in DOMAIN r.entries \cup {key} |-> IF k = key THEN entry ELSE r.entries[k]]
    IN  [entries |-> e,
         order   |-> compactOrderLocked(e, r.order \cup {ItemOf(e, key)})]

SetWithTTL(key, ttl) ==
    /\ generationNext < MaxWrites
    /\ generationNext' = generationNext + 1
    /\ \E r \in IF key \in DOMAIN entries THEN {[entries |-> entries, order |-> order]}
                ELSE makeRoomLocked(entries, order, now) :
          LET entry == [expiry |-> now + ttl, generation |-> generationNext + 1]
              s == Stored(r, key, entry)
          IN  entries' = s.entries /\ order' = s.order
    /\ UNCHANGED <<now, deletes, stop, cleaner>>

Delete(key) ==
    /\ entries' = Without(entries, {key})
    /\ UNCHANGED <<now, order, generationNext, stop, cleaner>>

\* A caller deletes a key.
CallDelete(key) == Delete(key) /\ UNCHANGED deletes

\* A deletion that some Get started runs.
AsyncDelete(key) ==
    /\ deletes[key] > 0
    /\ deletes' = [deletes EXCEPT ![key] = @ - 1]
    /\ Delete(key)

Clear ==
    /\ entries' = [k \in {} |-> 0]
    /\ order' = {}
    /\ UNCHANGED <<now, generationNext, deletes, stop, cleaner>>

CleanExpired ==
    /\ \E r \in cleanExpiredLocked(entries, order, now) :
          entries' = r.entries /\ order' = r.order
    /\ UNCHANGED <<now, generationNext, deletes, stop, cleaner>>

\* The ticker's case of the cleanup loop; select may take it although stop is
\* closed too.
Tick == cleaner /\ CleanExpired

Stop ==
    /\ ~stop
    /\ stop' = TRUE
    /\ UNCHANGED <<now, entries, order, generationNext, deletes, cleaner>>

CleanupEnds ==
    /\ stop /\ cleaner
    /\ cleaner' = FALSE
    /\ UNCHANGED <<now, entries, order, generationNext, deletes, stop>>

TimePasses ==
    /\ now < MaxTime
    /\ now' = now + 1
    /\ UNCHANGED <<entries, order, generationNext, deletes, stop, cleaner>>

Next ==
    \/ \E key \in Keys : Get(key) \/ CallDelete(key) \/ AsyncDelete(key)
    \/ \E key \in Keys, ttl \in TTLs : SetWithTTL(key, ttl)
    \/ Clear
    \/ Tick \/ Stop \/ CleanupEnds
    \/ TimePasses

Spec == NewCache /\ [][Next]_vars

(***************************************************************************)
(* Properties.                                                             *)
(***************************************************************************)

\* Type correctness of the cache and of its index.
TypeOK ==
    /\ now \in Nat
    /\ DOMAIN entries \subseteq Keys
    /\ entries \in [DOMAIN entries -> Entry]
    /\ order \subseteq expiryItem
    /\ generationNext \in Nat
    /\ deletes \in [Keys -> Nat]
    /\ stop \in BOOLEAN
    /\ cleaner \in BOOLEAN

\* Every entry has its item in the heap, whatever overwrites, deletions and
\* compactions came before: the eviction always finds a live item, and an
\* expired entry is always reached by the sweep.
IndexCoversEntries == \A k \in DOMAIN entries : ItemOf(entries, k) \in order

\* What the assertions at the end of SetWithTTL, makeRoomLocked,
\* compactOrderLocked and cleanExpiredLocked state: the cache keeps its cap,
\* and the index is at least as large as the map and at most twice the cap,
\* although nothing removes the item of a deleted entry.
BoundsHold ==
    /\ Cardinality(DOMAIN entries) <= EntriesMax
    /\ Cardinality(order) >= Cardinality(DOMAIN entries)
    /\ Cardinality(order) <= 2 * EntriesMax

\* Storing a value costs an unexpired entry its place only when the cache is
\* full of unexpired entries and the key is new: then exactly one goes, and
\* none of those that stay expires sooner.
EvictionIsFair ==
    [][LET fresh == {k \in DOMAIN entries : now <= entries[k].expiry}
           lost  == fresh \ DOMAIN entries'
       IN  generationNext' # generationNext /\ lost # {} =>
              /\ fresh = DOMAIN entries
              /\ Cardinality(fresh) = EntriesMax
              /\ Cardinality(lost) = 1
              /\ \A k \in lost, j \in fresh : entries[k].expiry <= entries[j].expiry]_vars
=============================================================================
