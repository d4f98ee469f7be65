------------------------- MODULE ScanHistoryProofs -------------------------
(***************************************************************************)
(* Proofs about the scan history, for any number of scans, regions and     *)
(* resources.  The inductive invariant says of each scan what it may       *)
(* claim to have seen, of the committed tables how they follow from the    *)
(* scans committed so far, and of the open transaction that it is the      *)
(* committed tables and the statements executed so far.                    *)
(***************************************************************************)
EXTENDS ScanHistory, FiniteSetTheorems, SequenceTheorems, WellFoundedInduction, TLAPS

\* No two resources share an id: the stores, which key a resource by provider and
\* id alone, lose none.
IdsAreUnique == \A r, q \in Resources : r.id = q.id => r = q

-----------------------------------------------------------------------------
(* The rows of a scan *)

\* The row for an id is of a resource with that id that the scan saw.
LEMMA RowFacts ==
    ASSUME NEW seen \in [Resources -> Versions \cup {0}], NEW id
    PROVE  /\ RowOf(seen, id) \in Row \cup {None}
           /\ RowOf(seen, id) # None =>
                 /\ RowOf(seen, id).resource \in Resources
                 /\ RowOf(seen, id).resource.id = id
                 /\ seen[RowOf(seen, id).resource] # 0
<1> DEFINE S == storedResources(seen)
<1>1. ASSUME NEW r \in S PROVE r \in Resources /\ seen[r] # 0
  BY DEF storedResources, dedupeResources, FirstOf
<1>2. CASE \E r \in S : r.id = id
  <2> DEFINE c == CHOOSE q \in S : q.id = id
  <2>1. c \in S /\ c.id = id
    BY <1>2
  <2>2. RowOf(seen, id) = [resource |-> c, version |-> seen[c]]
    BY <1>2 DEF RowOf
  <2> HIDE DEF S, c
  <2>3. c \in Resources /\ seen[c] # 0 /\ seen[c] \in Versions
    BY <1>1, <2>1
  <2>4. RowOf(seen, id) \in Row
    BY <2>2, <2>3 DEF Row
  <2> QED BY <2>1, <2>2, <2>3, <2>4
<1>3. CASE ~ \E r \in S : r.id = id
  BY <1>3 DEF RowOf
<1> QED BY <1>2, <1>3

\* With unique ids every resource the scan saw has its row.
LEMMA RowOfSeen ==
    ASSUME IdsAreUnique, NEW seen \in [Resources -> Versions \cup {0}], NEW r \in Resources,
           seen[r] # 0
    PROVE  RowOf(seen, r.id) # None /\ RowOf(seen, r.id).resource = r
<1> DEFINE key == [q \in Resources |-> <<q.account, q.id>>]
           ids == [q \in Resources |-> q.id]
<1>1. \A q \in Resources : /\ key[q] = key[r] => q = r
                           /\ ids[q] = ids[r] => q = r
  BY DEF IdsAreUnique
<1>2. r.rank <= r.rank
  BY HistoryAssumption
<1>3. r \in dedupeResources(seen) /\ dedupeResources(seen) \subseteq Resources
  <2> HIDE DEF key
  <2>1. r \in FirstOf({q \in Resources : seen[q] # 0}, key)
    BY <1>1, <1>2 DEF FirstOf
  <2>2. FirstOf({q \in Resources : seen[q] # 0}, key) \subseteq Resources
    BY DEF FirstOf
  <2> QED BY <2>1, <2>2 DEF dedupeResources, key
<1>4. r \in storedResources(seen)
  <2> HIDE DEF ids
  <2>1. r \in FirstOf(dedupeResources(seen), ids)
    BY <1>1, <1>2, <1>3 DEF FirstOf
  <2> QED BY <2>1 DEF storedResources, ids
<1>5. RowOf(seen, r.id) # None
  <2> DEFINE c == CHOOSE q \in storedResources(seen) : q.id = r.id
  <2>1. RowOf(seen, r.id) = [resource |-> c, version |-> seen[c]]
    BY <1>4 DEF RowOf
  <2>2. c \in storedResources(seen)
    BY <1>4
  <2>3. c \in Resources /\ seen[c] # 0 /\ seen[c] \in Versions
    <3>1. c \in Resources /\ seen[c] # 0
      BY <2>2 DEF storedResources, dedupeResources, FirstOf
    <3> QED BY <3>1
  <2> HIDE DEF c
  <2>4. RowOf(seen, r.id) \in Row
    BY <2>1, <2>3 DEF Row
  <2> QED BY <2>4, NoneAssumption
<1> QED BY <1>5, RowFacts DEF IdsAreUnique

\* There are finitely many resource ids.
LEMMA IdsFinite == IsFiniteSet(Ids)
<1> DEFINE h == [r \in Resources |-> r.id]
<1>1. h \in Surjection(Resources, Ids)
  BY DEF Surjection, Ids
<1> QED BY <1>1, HistoryAssumption, FS_Surjection

\* The counts of a scan against a baseline.
Diff(before, after) ==
    [new |-> Cardinality(Added(before, after)),
     updated |-> Cardinality(Modified(before, after)),
     deleted |-> Cardinality(Removed(before, after))]

\* The counts are numbers.
LEMMA DiffType ==
    ASSUME NEW before, NEW after
    PROVE  Diff(before, after) \in [new : Nat, updated : Nat, deleted : Nat]
<1>1. /\ Added(before, after) \subseteq Ids /\ Modified(before, after) \subseteq Ids
      /\ Removed(before, after) \subseteq Ids
  BY DEF Added, Modified, Removed
<1>2. /\ Cardinality(Added(before, after)) \in Nat
      /\ Cardinality(Modified(before, after)) \in Nat
      /\ Cardinality(Removed(before, after)) \in Nat
  BY <1>1, IdsFinite, FS_Subset, FS_CardinalityType
<1> QED BY <1>2 DEF Diff

-----------------------------------------------------------------------------
(* The newest scan *)

\* A set of natural numbers has a least one.
LEMMA LeastNumber ==
    ASSUME NEW T, T \subseteq Nat, T # {}
    PROVE  \E x \in T : \A y \in T : x <= y
<1> DEFINE R == OpToRel(<, Nat)
<1>1. IsWellFoundedOn(R, Nat)
  BY NatLessThanWellFounded
<1> HIDE DEF R
<1>2. \E x \in T : \A y \in T : ~(<<y, x>> \in R)
  BY <1>1, WFMin
<1>3. ASSUME NEW x \in T, NEW y \in T, ~(<<y, x>> \in R) PROVE x <= y
  BY <1>3 DEF R, OpToRel
<1> QED BY <1>2, <1>3

\* A bounded one has a greatest.
LEMMA GreatestNumber ==
    ASSUME NEW T, T # {}, NEW n \in Nat, \A x \in T : x \in Nat /\ x <= n
    PROVE  \E x \in T : \A y \in T : y <= x
<1> DEFINE U == {n - x : x \in T}
<1>1. U \subseteq Nat /\ U # {}
  OBVIOUS
<1> HIDE DEF U
<1>2. PICK u \in U : \A v \in U : u <= v
  BY <1>1, LeastNumber
<1>3. PICK x \in T : u = n - x
  BY DEF U
<1>4. ASSUME NEW y \in T PROVE y <= x
  <2>1. n - y \in U
    BY DEF U
  <2> QED BY <1>2, <1>3, <2>1
<1> QED BY <1>4

\* A table whose rows in S have start times.
Dated(table, S) == S \subseteq Scans /\ \A s \in S : table[s].start \in 0..MaxTime

\* s comes first in the order of the history queries.
IsNewest(table, S, s) ==
    /\ s \in S
    /\ \A t \in S \ {s} : \/ table[t].start < table[s].start
                          \/ table[t].start = table[s].start /\ t < s

\* Start time and id decide which scan is the newest.
LEMMA NewestUnique ==
    ASSUME NEW table, NEW S, Dated(table, S), NEW s, NEW t,
           IsNewest(table, S, s), IsNewest(table, S, t)
    PROVE  s = t
  BY HistoryAssumption DEF Dated, IsNewest

\* Newest finds it, if there is one.
LEMMA NewestFacts ==
    ASSUME NEW table, NEW S, Dated(table, S)
    PROVE  /\ S = {} => Newest(table, S) = None
           /\ S # {} => IsNewest(table, S, Newest(table, S))
<1>1. ASSUME S # {} PROVE \E s \in S : IsNewest(table, S, s)
  <2> DEFINE T == {table[s].start : s \in S}
  <2>1. T # {} /\ \A x \in T : x \in Nat /\ x <= MaxTime
    <3>1. \A s \in S : table[s].start \in Nat /\ table[s].start <= MaxTime
      BY HistoryAssumption DEF Dated
    <3> QED BY <1>1, <3>1
  <2> HIDE DEF T
  <2>2. PICK m \in T : \A x \in T : x <= m
    BY <2>1, HistoryAssumption, GreatestNumber
  <2> DEFINE L == {s \in S : table[s].start = m}
  <2>3. L # {} /\ L \subseteq Scans
    BY <2>2 DEF T, Dated
  <2>4. PICK n \in Nat : \A s \in Scans : s \in Nat /\ s <= n
    BY HistoryAssumption
  <2>5. PICK s \in L : \A t \in L : t <= s
    <3> HIDE DEF L
    <3> QED BY <2>3, <2>4, GreatestNumber
  <2>6. ASSUME NEW t \in S \ {s}
        PROVE  \/ table[t].start < table[s].start
               \/ table[t].start = table[s].start /\ t < s
    <3>1. table[s].start = m /\ s \in S /\ s \in Nat /\ t \in Nat
      BY <2>4, <2>5 DEF Dated
    <3>2. table[t].start \in T /\ table[t].start \in Nat /\ m \in Nat
      BY <2>1, <2>2 DEF T
    <3>3. table[t].start <= m
      BY <2>2, <3>2
    <3>4. table[t].start = m => t <= s
      BY <2>5
    <3> QED BY <3>1, <3>2, <3>3, <3>4
  <2> QED BY <2>5, <2>6 DEF IsNewest
<1>2. ASSUME S # {}
      PROVE  Newest(table, S) = CHOOSE s \in S : \A t \in S \ {s} :
                 \/ table[t].start < table[s].start
                 \/ table[t].start = table[s].start /\ t < s
  BY <1>2 DEF Newest
<1>3. ASSUME S # {} PROVE IsNewest(table, S, Newest(table, S))
  BY <1>1, <1>2, <1>3 DEF IsNewest
<1> QED BY <1>3 DEF Newest

\* The newest scan depends only on the start times of the scans in question.
LEMMA NewestSame ==
    ASSUME NEW table, NEW other, NEW S, Dated(table, S),
           \A s \in S : other[s].start = table[s].start
    PROVE  Newest(other, S) = Newest(table, S)
<1>1. Dated(other, S)
  BY DEF Dated
<1>2. CASE S = {}
  BY <1>2 DEF Newest
<1>3. CASE S # {}
  <2>1. IsNewest(table, S, Newest(table, S)) /\ IsNewest(other, S, Newest(other, S))
    BY <1>1, <1>3, NewestFacts
  <2>2. IsNewest(table, S, Newest(other, S))
    BY <2>1 DEF IsNewest
  <2> QED BY <2>1, <2>2, NewestUnique
<1> QED BY <1>2, <1>3

-----------------------------------------------------------------------------
(* The inductive invariant *)

Open == {"resources", "observations", "metadata", "commit"}

ScanState ==
    [pc : {"new", "scanning", "scanned", "stored", "lost"} \cup Open,
     began : Nat, duration : Nat, start : Nat, end : Nat,
     scopes : SUBSET Regions, unread : SUBSET Regions, failed : SUBSET Regions,
     unreachable : SUBSET Regions, seen : [Resources -> Versions \cup {0}],
     hidden : SUBSET Resources, steady : SUBSET Resources, ever : SUBSET Resources]

\* What a scan has seen existed while it ran, and what existed all along in a scope
\* that answered without errors it has seen, or a notice hid it.
Honest(st, now, there) ==
    /\ st \in ScanState
    /\ st.pc = "scanning" =>
          /\ st.began <= now
          /\ \A r \in Resources : /\ there[r] # 0 => r \in st.ever
                                  /\ r \in st.steady => there[r] # 0
    /\ st.pc = "scanned" => st.duration <= now
    /\ st.pc \in Open \cup {"stored"} => st.start <= st.end /\ st.end <= MaxTime
    /\ st.pc # "scanning" => st.unread = {}
    /\ st.pc = "new" => \A r \in Resources : st.seen[r] = 0
    /\ \A r \in Resources :
          /\ st.seen[r] # 0 => r \in st.ever
          /\ r \in st.steady /\ r.region \in st.scopes /\ r.region \notin st.unread \cup st.failed
                => st.seen[r] # 0 \/ r \in st.hidden

\* A row of scan_metadata and the scan it is about.
Describes(row, st) ==
    /\ row \in MetadataRow
    /\ row.start <= row.end
    /\ row.scope = st.scopes
    /\ row.complete <=> row.status = "completed"
    /\ row.complete => st.failed = {}

\* The scans committed before s, and those of P that are comparable with s.
Earlier(C, s) == {p \in Scans : \E j, k \in DOMAIN C : C[j] = p /\ C[k] = s /\ j < k}

Comparable(table, s, P) ==
    {p \in P \ {s} : /\ IsSnapshot(table, p)
                     /\ table[p].scope = table[s].scope
                     /\ table[p].start <= table[s].start}

ObservationsOf(obs, p) == IF p = None THEN [id \in Ids |-> None] ELSE obs[p]

\* The counts of a snapshot are those against the newest comparable snapshot that
\* was committed before it.
Counted(m, obs, C, s) ==
    m[s].counts =
        Diff(ObservationsOf(obs, Newest(m, Comparable(m, s, Earlier(C, s)))), obs[s])

\* The committed tables, after the commits C of the scans sc.
Tables(m, obs, cur, C, sc) ==
    /\ m \in [Scans -> MetadataRow \cup {None}]
    /\ obs \in [Scans -> [Ids -> Row \cup {None}]]
    /\ cur \in [Ids -> Row \cup {None}]
    /\ C \in Seq(Scans)
    /\ \A j, k \in DOMAIN C : C[j] = C[k] => j = k
    /\ \A s \in Scans :
          /\ m[s] # None <=> \E k \in DOMAIN C : C[k] = s
          /\ m[s] # None <=> sc[s].pc = "stored"
          /\ m[s] = None => \A id \in Ids : obs[s][id] = None
          /\ m[s] # None =>
                /\ Describes(m[s], sc[s])
                /\ \A id \in Ids : obs[s][id] = RowOf(sc[s].seen, id)
                /\ m[s].complete => Counted(m, obs, C, s)
    /\ \A id \in Ids : cur[id] # None => \E s \in Scans : m[s] # None /\ obs[s][id] = cur[id]

\* The tables with the observations and the metadata of a scan.
WithObservations(obs, st, s) == [obs EXCEPT ![s] = [id \in Ids |-> RowOf(st.seen, id)]]

Inserted(m, st, s) == [m EXCEPT ![s] = OutcomeRow(st)]

WithMetadata(m, obs, st, s) ==
    IF OutcomeRow(st).complete
    THEN [Inserted(m, st, s) EXCEPT ![s].counts = Counts(Inserted(m, st, s), obs, s)]
    ELSE Inserted(m, st, s)

\* What the open transaction of scan s sees, by the statements executed so far.
View(m, obs, cur, st, s) ==
    [metadata |-> IF st.pc = "commit"
                  THEN WithMetadata(m, WithObservations(obs, st, s), st, s) ELSE m,
     observations |-> IF st.pc \in {"metadata", "commit"}
                      THEN WithObservations(obs, st, s) ELSE obs,
     current |-> IF st.pc = "resources" THEN cur ELSE Upserted(cur, st.seen)]

IInv ==
    /\ cloud \in [Resources -> Versions \cup {0}]
    /\ changes \in Nat /\ clock \in 0..MaxTime
    /\ scan \in [Scans -> ScanState]
    /\ session \in Scans \cup {None}
    /\ \A s \in Scans : /\ Honest(scan[s], clock, cloud)
                        /\ scan[s].pc \in Open <=> session = s
    /\ session # None => tx = View(metadata, observations, current, scan[session], session)
    /\ Tables(metadata, observations, current, commits, scan)

\* A scan that has not begun claims nothing.
LEMMA FreshIsHonest ==
    ASSUME NEW now, NEW there
    PROVE  /\ Honest(Fresh, now, there)
           /\ Honest([Fresh EXCEPT !.pc = "lost"], now, there)
           /\ [Fresh EXCEPT !.pc = "lost"].pc = "lost"
<1>1. /\ Fresh \in ScanState /\ Fresh.pc = "new" /\ Fresh.unread = {} /\ Fresh.steady = {}
      /\ \A r \in Resources : Fresh.seen[r] = 0
  BY DEF Fresh, ScanState
<1> DEFINE lost == [Fresh EXCEPT !.pc = "lost"]
<1>2. /\ lost \in ScanState /\ lost.pc = "lost" /\ lost.unread = {} /\ lost.steady = {}
      /\ \A r \in Resources : lost.seen[r] = 0
  BY DEF Fresh, ScanState
<1> HIDE DEF lost
<1>3. Honest(Fresh, now, there)
  BY <1>1 DEF Honest, Open
<1>4. Honest(lost, now, there)
  BY <1>2 DEF Honest, Open
<1> QED BY <1>2, <1>3, <1>4 DEF lost

\* The empty history satisfies the invariant.
LEMMA InitInv == Init => IInv
<1> SUFFICES ASSUME Init PROVE IInv
  OBVIOUS
<1>1. /\ cloud \in [Resources -> Versions \cup {0}] /\ changes \in Nat /\ clock \in 0..MaxTime
      /\ session = None
  BY HistoryAssumption DEF Init
<1>2. Fresh \in ScanState /\ Fresh.pc = "new"
  BY DEF Fresh, ScanState
<1>3. scan \in [Scans -> ScanState] /\ \A s \in Scans : scan[s] = Fresh
  BY <1>2 DEF Init
<1>4. \A s \in Scans : Honest(scan[s], clock, cloud) /\ scan[s].pc = "new"
  BY <1>2, <1>3, FreshIsHonest
<1>5. /\ metadata \in [Scans -> MetadataRow \cup {None}] /\ \A s \in Scans : metadata[s] = None
      /\ observations \in [Scans -> [Ids -> Row \cup {None}]]
      /\ \A s \in Scans, id \in Ids : observations[s][id] = None
      /\ current \in [Ids -> Row \cup {None}] /\ \A id \in Ids : current[id] = None
      /\ commits \in Seq(Scans) /\ DOMAIN commits = {}
  BY DEF Init
<1>6. Tables(metadata, observations, current, commits, scan)
  BY <1>4, <1>5 DEF Tables
<1> QED BY <1>1, <1>3, <1>4, <1>6, NoneAssumption DEF IInv, Open

-----------------------------------------------------------------------------
(* Steps that leave the committed tables alone *)

\* The tables speak of stored scans only.
LEMMA TablesKept ==
    ASSUME NEW m, NEW obs, NEW cur, NEW C, NEW sc, NEW other, Tables(m, obs, cur, C, sc),
           \A s \in Scans : /\ sc[s].pc = "stored" <=> other[s].pc = "stored"
                            /\ sc[s].pc = "stored" => other[s] = sc[s]
    PROVE  Tables(m, obs, cur, C, other)
  BY DEF Tables

\* One scan moves on, with or without the session.
LEMMA OneScan ==
    ASSUME IInv, NEW s \in Scans, NEW v, scan' = [scan EXCEPT ![s] = v],
           Honest(v, clock, cloud), scan[s].pc # "stored", v.pc # "stored",
           UNCHANGED <<cloud, changes, clock, metadata, observations, current, commits>>,
           session' \in Scans \cup {None}, v.pc \in Open <=> session' = s,
           \A t \in Scans \ {s} : session' = t <=> session = t,
           session' = s => tx' = View(metadata, observations, current, v, s),
           session' \notin {s, None} => tx' = tx
    PROVE  IInv'
<1>1. v \in ScanState
  BY DEF Honest
<1>2. /\ scan' \in [Scans -> ScanState] /\ scan'[s] = v
      /\ \A t \in Scans : t # s => scan'[t] = scan[t]
  BY <1>1 DEF IInv
<1>3. Tables(metadata, observations, current, commits, scan')
  <2>1. Tables(metadata, observations, current, commits, scan)
    BY DEF IInv
  <2>2. \A t \in Scans : /\ scan[t].pc = "stored" <=> scan'[t].pc = "stored"
                         /\ scan[t].pc = "stored" => scan'[t] = scan[t]
    BY <1>2
  <2> QED BY <2>1, <2>2, TablesKept
<1>4. \A t \in Scans : /\ Honest(scan'[t], clock, cloud)
                       /\ scan'[t].pc \in Open <=> session' = t
  BY <1>2 DEF IInv
<1>5. session' # None => tx' = View(metadata, observations, current, scan'[session'], session')
  <2>1. CASE session' = s
    BY <1>2, <2>1
  <2>2. CASE session' \notin {s, None}
    <3>1. session = session' /\ session' \in Scans /\ scan'[session'] = scan[session']
      BY <1>2, <2>2
    <3> QED BY <2>2, <3>1 DEF IInv
  <2> QED BY <2>1, <2>2
<1> QED BY <1>2, <1>3, <1>4, <1>5 DEF IInv

\* The cloud changes under the scans that read it.
LEMMA ChangeInv ==
    ASSUME IInv, NEW r \in Resources, NEW v \in Versions \cup {0}, Change(r, v)
    PROVE  IInv'
<1> DEFINE moved(st) == [st EXCEPT !.steady = IF v = 0 THEN @ \ {r} ELSE @,
                                   !.ever = IF v = 0 THEN @ ELSE @ \cup {r}]
<1>1. \A s \in Scans : scan'[s] = IF scan[s].pc # "scanning" THEN scan[s] ELSE moved(scan[s])
  BY DEF Change
<1>2. /\ cloud' \in [Resources -> Versions \cup {0}] /\ changes' \in Nat /\ cloud'[r] = v
      /\ \A q \in Resources : q # r => cloud'[q] = cloud[q]
      /\ UNCHANGED <<clock, session, tx, metadata, observations, current, commits>>
  <2>1. cloud \in [Resources -> Versions \cup {0}] /\ changes \in Nat
    BY DEF IInv
  <2>2. /\ cloud' = [cloud EXCEPT ![r] = v] /\ changes' = changes + 1
        /\ UNCHANGED <<clock, session, tx, metadata, observations, current, commits>>
    BY DEF Change
  <2> QED BY <2>1, <2>2
<1>3. ASSUME NEW s \in Scans, scan[s].pc = "scanning"
      PROVE  Honest(moved(scan[s]), clock, cloud') /\ moved(scan[s]).pc = "scanning"
  <2> DEFINE st == scan[s]
             n == moved(st)
  <2>1. st \in ScanState /\ Honest(st, clock, cloud)
    BY DEF IInv
  <2>2. /\ n \in ScanState
        /\ n.pc = st.pc /\ n.began = st.began /\ n.scopes = st.scopes /\ n.unread = st.unread
        /\ n.failed = st.failed /\ n.seen = st.seen /\ n.hidden = st.hidden
        /\ n.steady = (IF v = 0 THEN st.steady \ {r} ELSE st.steady)
        /\ n.ever = IF v = 0 THEN st.ever ELSE st.ever \cup {r}
    BY <2>1 DEF ScanState
  <2> HIDE DEF n, st, moved
  <2>3. st.pc = "scanning"
    BY <1>3 DEF st
  <2>4. Honest(n, clock, cloud')
    BY <1>2, <2>1, <2>2, <2>3 DEF Honest, Open
  <2> QED BY <2>2, <2>3, <2>4 DEF n, st
<1>4. ASSUME NEW s \in Scans, scan[s].pc # "scanning"
      PROVE  Honest(scan[s], clock, cloud')
  BY <1>4 DEF IInv, Honest
<1> HIDE DEF moved
<1>5. \A s \in Scans : /\ Honest(scan'[s], clock, cloud') /\ scan'[s].pc = scan[s].pc
                       /\ scan[s].pc # "scanning" => scan'[s] = scan[s]
  BY <1>1, <1>3, <1>4
<1>6. scan' \in [Scans -> ScanState]
  <2>1. \A s \in Scans : scan'[s] \in ScanState
    BY <1>5 DEF Honest
  <2>2. scan' = [s \in Scans |-> scan'[s]]
    BY DEF Change
  <2> QED BY <2>1, <2>2
<1>7. Tables(metadata, observations, current, commits, scan')
  <2>1. Tables(metadata, observations, current, commits, scan)
    BY DEF IInv
  <2> QED BY <1>5, <2>1, TablesKept
<1>8. session # None => tx = View(metadata, observations, current, scan'[session], session)
  <2>1. session # None => session \in Scans /\ scan[session].pc \in Open
    BY DEF IInv
  <2>2. session # None => scan'[session] = scan[session]
    BY <1>5, <2>1 DEF Open
  <2> QED BY <2>2 DEF IInv
<1> QED BY <1>2, <1>5, <1>6, <1>7, <1>8 DEF IInv

\* Time passes.
LEMMA TickInv ==
    ASSUME IInv, Tick
    PROVE  IInv'
<1>1. /\ clock' = clock + 1 /\ clock' \in 0..MaxTime /\ clock \in Nat
      /\ UNCHANGED <<cloud, changes, scan, session, tx, metadata, observations, current, commits>>
  BY HistoryAssumption DEF Tick, IInv
<1>2. ASSUME NEW s \in Scans PROVE Honest(scan[s], clock', cloud)
  <2>1. Honest(scan[s], clock, cloud)
    BY DEF IInv
  <2>2. scan[s].began \in Nat /\ scan[s].duration \in Nat
    BY <2>1 DEF Honest, ScanState
  <2> QED BY <1>1, <2>1, <2>2 DEF Honest
<1> QED BY <1>1, <1>2 DEF IInv

\* A scan notes what is there when it starts.
LEMMA StartInv ==
    ASSUME IInv, NEW s \in Scans, NEW scopes \in Requests, Start(s, scopes)
    PROVE  IInv'
<1> DEFINE st == scan[s]
           v == [st EXCEPT !.pc = "scanning", !.began = clock, !.scopes = scopes,
                           !.unread = scopes, !.steady = Alive, !.ever = Alive]
<1>1. st \in ScanState /\ Honest(st, clock, cloud) /\ st.pc = "new" /\ clock \in Nat
  BY DEF IInv, Start
<1>2. scopes \in SUBSET Regions /\ Alive \in SUBSET Resources
  BY HistoryAssumption DEF Alive
<1>3. /\ v \in ScanState /\ v.pc = "scanning" /\ v.began = clock /\ v.scopes = scopes
      /\ v.unread = scopes /\ v.steady = Alive /\ v.ever = Alive /\ v.seen = st.seen
  BY <1>1, <1>2 DEF ScanState
<1>4. scan' = [scan EXCEPT ![s] = v]
  BY DEF IInv, Start
<1> HIDE DEF v
<1>5. \A r \in Resources : st.seen[r] = 0
  BY <1>1 DEF Honest
<1> HIDE DEF st
<1>6. Honest(v, clock, cloud)
  BY <1>1, <1>3, <1>5 DEF Honest, Open, Alive
<1>7. session # s
  BY <1>1 DEF IInv, Open, st
<1>8. UNCHANGED <<cloud, changes, clock, session, tx, metadata, observations, current, commits>>
  BY DEF Start
<1>9. v.pc \notin Open /\ v.pc # "stored" /\ session \in Scans \cup {None}
  BY <1>3 DEF Open, IInv
<1> QED BY <1>1, <1>4, <1>6, <1>7, <1>8, <1>9, OneScan DEF st

\* A scope answers with what it holds now, with notices or errors, or not at all.
LEMMA AnswerInv ==
    ASSUME IInv, NEW s \in Scans, NEW region \in Regions, NEW part \in SUBSET Resources,
           NEW outcome \in NoErrors \cup {"errors", "unreachable"}, Answer(s, region, part, outcome)
    PROVE  IInv'
<1> DEFINE st == scan[s]
           seen == [r \in Resources |-> IF r \in part THEN cloud[r] ELSE st.seen[r]]
           there == {r \in Alive : r.region = region}
           hidden == IF outcome = "notices" THEN st.hidden \cup (there \ part) ELSE st.hidden
           failed == IF outcome \in NoErrors THEN st.failed ELSE st.failed \cup {region}
           un == IF outcome = "unreachable" THEN st.unreachable \cup {region}
                 ELSE st.unreachable
           v == [st EXCEPT !.unread = @ \ {region}, !.seen = seen, !.hidden = hidden,
                           !.failed = failed, !.unreachable = un]
<1>1. /\ st \in ScanState /\ Honest(st, clock, cloud) /\ st.pc = "scanning"
      /\ cloud \in [Resources -> Versions \cup {0}]
  BY DEF IInv, Answer
<1>2. /\ part \subseteq Alive
      /\ outcome = "clean" => \A r \in Alive : r.region = region => r \in part
  BY DEF Answer
<1>3. /\ seen \in [Resources -> Versions \cup {0}] /\ failed \in SUBSET Regions
      /\ un \in SUBSET Regions /\ hidden \in SUBSET Resources
  <2>1. /\ st.seen \in [Resources -> Versions \cup {0}] /\ st.failed \in SUBSET Regions
        /\ st.unreachable \in SUBSET Regions /\ st.hidden \in SUBSET Resources
    BY <1>1 DEF ScanState
  <2>2. there \in SUBSET Resources
    BY DEF Alive
  <2> QED BY <1>1, <2>1, <2>2
<1>4. scan' = [scan EXCEPT ![s] = v]
  <2>1. scan' = [scan EXCEPT ![s].unread = @ \ {region}, ![s].seen = seen, ![s].hidden = hidden,
                             ![s].failed = failed, ![s].unreachable = un]
    BY DEF Answer
  <2> HIDE DEF seen, failed, un, hidden
  <2> QED BY <2>1 DEF IInv
<1>5. \A r \in Resources : /\ seen[r] # 0 => cloud[r] # 0 \/ st.seen[r] # 0
                           /\ st.seen[r] # 0 => seen[r] # 0
                           /\ r \in part => seen[r] # 0
  BY <1>2 DEF Alive
<1>6. /\ (failed = st.failed /\ outcome \in {"clean", "notices"}) \/ failed = st.failed \cup {region}
      /\ st.hidden \subseteq hidden
      /\ outcome = "notices" => \A r \in Alive : r.region = region => r \in part \/ r \in hidden
  BY DEF NoErrors
<1> HIDE DEF seen, failed, un, hidden
<1>7. /\ v \in ScanState /\ v.pc = st.pc /\ v.began = st.began /\ v.scopes = st.scopes
      /\ v.unread = st.unread \ {region} /\ v.seen = seen /\ v.failed = failed
      /\ v.hidden = hidden /\ v.steady = st.steady /\ v.ever = st.ever
  BY <1>1, <1>3 DEF ScanState
<1> HIDE DEF v, st
<1>8. ASSUME NEW r \in Resources, r \in st.steady, r.region \in st.scopes,
             r.region \notin (st.unread \ {region}) \cup failed
      PROVE  seen[r] # 0 \/ r \in hidden
  <2>1. CASE r.region = region
    <3>1. outcome \in {"clean", "notices"}
      BY <1>6, <1>8, <2>1
    <3>2. r \in Alive
      BY <1>1, <1>8 DEF Honest, Alive
    <3> QED BY <1>2, <1>5, <1>6, <2>1, <3>1, <3>2
  <2>2. CASE r.region # region
    <3>1. r.region \notin st.unread \cup st.failed
      BY <1>6, <1>8, <2>2
    <3> QED BY <1>1, <1>5, <1>6, <1>8, <3>1 DEF Honest
  <2> QED BY <2>1, <2>2
<1>9. ASSUME NEW r \in Resources, seen[r] # 0 PROVE r \in st.ever
  BY <1>1, <1>5, <1>9 DEF Honest
<1>10. Honest(v, clock, cloud)
  BY <1>1, <1>7, <1>8, <1>9 DEF Honest, Open
<1>11. session # s /\ session \in Scans \cup {None}
  BY <1>1 DEF IInv, Open, st
<1>12. UNCHANGED <<cloud, changes, clock, session, tx, metadata, observations, current, commits>>
  BY DEF Answer
<1>13. v.pc \notin Open /\ v.pc # "stored"
  BY <1>1, <1>7 DEF Open
<1> QED BY <1>1, <1>4, <1>10, <1>11, <1>12, <1>13, OneScan DEF st

\* The outcome is merged and timed.
LEMMA FinishInv ==
    ASSUME IInv, NEW s \in Scans, Finish(s)
    PROVE  IInv'
<1> DEFINE st == scan[s]
           v == [st EXCEPT !.pc = "scanned", !.duration = clock - st.began]
<1>1. /\ st \in ScanState /\ Honest(st, clock, cloud) /\ st.pc = "scanning" /\ clock \in Nat
      /\ st.unread = {}
  BY DEF IInv, Finish
<1>2. st.began \in Nat /\ st.began <= clock
  BY <1>1 DEF Honest, ScanState
<1>3. clock - st.began \in Nat /\ clock - st.began <= clock
  BY <1>1, <1>2
<1>4. /\ v \in ScanState /\ v.pc = "scanned" /\ v.duration = clock - st.began
      /\ v.scopes = st.scopes /\ v.unread = st.unread /\ v.seen = st.seen
      /\ v.failed = st.failed /\ v.hidden = st.hidden
      /\ v.steady = st.steady /\ v.ever = st.ever
  BY <1>1, <1>3 DEF ScanState
<1>5. scan' = [scan EXCEPT ![s] = v]
  BY DEF IInv, Finish
<1> HIDE DEF v, st
<1>6. Honest(v, clock, cloud)
  BY <1>1, <1>3, <1>4 DEF Honest, Open
<1>7. session # s /\ session \in Scans \cup {None}
  BY <1>1 DEF IInv, Open, st
<1>8. UNCHANGED <<cloud, changes, clock, session, tx, metadata, observations, current, commits>>
  BY DEF Finish
<1>9. v.pc \notin Open /\ v.pc # "stored"
  BY <1>4 DEF Open
<1> QED BY <1>1, <1>5, <1>6, <1>7, <1>8, <1>9, OneScan DEF st

\* A lost scan takes its transaction with it.
LEMMA LoseInv ==
    ASSUME IInv, NEW s \in Scans, Lose(s)
    PROVE  IInv'
<1> DEFINE v == [Fresh EXCEPT !.pc = "lost"]
<1>1. scan' = [scan EXCEPT ![s] = v] /\ scan[s].pc # "stored"
  BY DEF Lose
<1>2. Honest(v, clock, cloud) /\ v.pc = "lost"
  BY FreshIsHonest
<1> HIDE DEF v
<1>3. session \in Scans \cup {None} /\ v.pc \notin Open /\ v.pc # "stored" /\ s # None
  BY <1>2, NoneAssumption DEF IInv, Open
<1>4. /\ session' = (IF session = s THEN None ELSE session)
      /\ session' \notin {s, None} => tx' = tx
      /\ UNCHANGED <<cloud, changes, clock, metadata, observations, current, commits>>
  BY DEF Lose
<1>5. \A t \in Scans \ {s} : t # None
  BY NoneAssumption
<1> QED BY <1>1, <1>2, <1>3, <1>4, <1>5, OneScan

-----------------------------------------------------------------------------
(* The steps of persist *)

\* The transaction begins with the committed tables.
LEMMA OpenSessionInv ==
    ASSUME IInv, NEW s \in Scans, OpenSession(s)
    PROVE  IInv'
<1> DEFINE st == scan[s]
           begin == clock - st.duration
           v == [st EXCEPT !.pc = "resources", !.start = begin, !.end = clock]
<1>1. /\ st \in ScanState /\ Honest(st, clock, cloud) /\ st.pc = "scanned" /\ clock \in Nat
      /\ clock <= MaxTime /\ session = None
  BY HistoryAssumption DEF IInv, OpenSession
<1>2. st.duration \in Nat /\ st.duration <= clock
  BY <1>1 DEF Honest, ScanState
<1>3. begin \in Nat /\ begin <= clock
  BY <1>1, <1>2
<1>4. scan' = [scan EXCEPT ![s] = v]
  BY DEF IInv, OpenSession, StartedAt
<1> HIDE DEF begin
<1>5. /\ v \in ScanState /\ v.pc = "resources" /\ v.start = begin /\ v.end = clock
      /\ v.scopes = st.scopes /\ v.unread = st.unread /\ v.seen = st.seen
      /\ v.failed = st.failed /\ v.hidden = st.hidden
      /\ v.steady = st.steady /\ v.ever = st.ever
  <2>1. begin \in Nat /\ clock \in Nat /\ st \in ScanState
    BY <1>1, <1>3
  <2> HIDE DEF st
  <2> QED BY <2>1 DEF ScanState, Open
<1> HIDE DEF v, st
<1>6. Honest(v, clock, cloud)
  BY <1>1, <1>3, <1>5 DEF Honest, Open
<1>7. /\ UNCHANGED <<cloud, changes, clock, metadata, observations, current, commits>>
      /\ session' = s
      /\ tx' = [metadata |-> metadata, observations |-> observations, current |-> current]
  BY DEF OpenSession
<1>8. tx' = View(metadata, observations, current, v, s)
  BY <1>5, <1>7 DEF View
<1>9. v.pc \in Open /\ v.pc # "stored"
  BY <1>5 DEF Open
<1>10. \A t \in Scans \ {s} : t # None
  BY NoneAssumption
<1> QED BY <1>1, <1>4, <1>6, <1>7, <1>8, <1>9, <1>10, OneScan DEF st

\* The transaction goes on to its next statement.
LEMMA NextStatement ==
    ASSUME IInv, NEW s \in Scans, scan[s].pc \in Open, NEW p \in Open,
           scan' = [scan EXCEPT ![s].pc = p],
           UNCHANGED <<cloud, changes, clock, session, metadata, observations, current, commits>>,
           tx' = View(metadata, observations, current, [scan[s] EXCEPT !.pc = p], s)
    PROVE  IInv'
<1> DEFINE st == scan[s]
           v == [st EXCEPT !.pc = p]
<1>1. st \in ScanState /\ Honest(st, clock, cloud) /\ session = s
  BY DEF IInv
<1>2. p \in Open
  OBVIOUS
<1>3. /\ v \in ScanState /\ v.pc = p /\ v.start = st.start /\ v.end = st.end
      /\ v.scopes = st.scopes /\ v.unread = st.unread /\ v.seen = st.seen
      /\ v.failed = st.failed /\ v.hidden = st.hidden
      /\ v.steady = st.steady /\ v.ever = st.ever
  BY <1>1, <1>2 DEF ScanState
<1>4. scan' = [scan EXCEPT ![s] = v] /\ tx' = View(metadata, observations, current, v, s)
  BY DEF IInv
<1> HIDE DEF v
<1>5. Honest(v, clock, cloud)
  BY <1>1, <1>2, <1>3 DEF Honest, Open
<1>6. v.pc \in Open /\ v.pc # "stored" /\ st.pc # "stored" /\ s # None
  BY <1>2, <1>3, NoneAssumption DEF Open
<1> QED BY <1>1, <1>4, <1>5, <1>6, OneScan

\* What the transaction sees when scan s is at one of its statements.
LEMMA TxFacts ==
    ASSUME IInv, NEW s \in Scans, scan[s].pc \in Open
    PROVE  /\ session = s
           /\ tx = View(metadata, observations, current, scan[s], s)
           /\ scan[s] \in ScanState
           /\ \A p : LET v == [scan[s] EXCEPT !.pc = p]
                     IN  /\ v.pc = p /\ v.seen = scan[s].seen
                         /\ OutcomeRow(v) = OutcomeRow(scan[s])
<1>1. session = s /\ s # None /\ scan[s] \in ScanState
  BY NoneAssumption DEF IInv
<1>2. tx = View(metadata, observations, current, scan[s], s)
  BY <1>1 DEF IInv
<1>3. ASSUME NEW p
      PROVE  LET v == [scan[s] EXCEPT !.pc = p]
             IN  /\ v.pc = p /\ v.seen = scan[s].seen
                 /\ OutcomeRow(v) = OutcomeRow(scan[s])
  <2> DEFINE v == [scan[s] EXCEPT !.pc = p]
  <2>1. /\ v.pc = p /\ v.seen = scan[s].seen /\ v.start = scan[s].start /\ v.end = scan[s].end
        /\ v.scopes = scan[s].scopes /\ v.failed = scan[s].failed
        /\ v.unreachable = scan[s].unreachable
    BY <1>1 DEF ScanState
  <2> HIDE DEF v
  <2>2. ScanStatus(v) = ScanStatus(scan[s])
    BY <2>1 DEF ScanStatus
  <2>3. OutcomeRow(v) = OutcomeRow(scan[s])
    BY <2>1, <2>2 DEF OutcomeRow
  <2> QED BY <2>1, <2>3 DEF v
<1> QED BY <1>1, <1>2, <1>3

\* The first statements: the resource rows.
LEMMA StoreResourcesInv ==
    ASSUME IInv, NEW s \in Scans, StoreResources(s)
    PROVE  IInv'
<1> DEFINE v == [scan[s] EXCEPT !.pc = "observations"]
<1>1. scan[s].pc = "resources" /\ scan[s].pc \in Open /\ "observations" \in Open
  BY DEF StoreResources, Open
<1>2. /\ tx = [metadata |-> metadata, observations |-> observations, current |-> current]
      /\ v.pc = "observations" /\ v.seen = scan[s].seen
  BY <1>1, TxFacts DEF View
<1> HIDE DEF v
<1>3. tx' = [metadata |-> metadata, observations |-> observations,
             current |-> Upserted(current, scan[s].seen)]
  BY <1>2 DEF StoreResources
<1>4. tx' = View(metadata, observations, current, v, s)
  BY <1>2, <1>3 DEF View
<1>5. /\ scan' = [scan EXCEPT ![s].pc = "observations"]
      /\ UNCHANGED <<cloud, changes, clock, session, metadata, observations, current, commits>>
  BY DEF StoreResources
<1> QED BY <1>1, <1>4, <1>5, NextStatement DEF v

\* The next: the observations.
LEMMA StoreObservationsInv ==
    ASSUME IInv, NEW s \in Scans, StoreObservations(s)
    PROVE  IInv'
<1> DEFINE v == [scan[s] EXCEPT !.pc = "metadata"]
           up == Upserted(current, scan[s].seen)
           rows == [id \in Ids |-> RowOf(scan[s].seen, id)]
<1>1. scan[s].pc = "observations" /\ scan[s].pc \in Open /\ "metadata" \in Open
  BY DEF StoreObservations, Open
<1>2. /\ tx = [metadata |-> metadata, observations |-> observations, current |-> up]
      /\ v.pc = "metadata" /\ v.seen = scan[s].seen
  BY <1>1, TxFacts DEF View
<1>3. tx' = [tx EXCEPT !.observations[s] = rows]
  BY DEF StoreObservations
<1>4. WithObservations(observations, v, s) = [observations EXCEPT ![s] = rows]
  BY <1>2 DEF WithObservations
<1>5. View(metadata, observations, current, v, s) =
         [metadata |-> metadata, observations |-> [observations EXCEPT ![s] = rows], current |-> up]
  BY <1>2, <1>4 DEF View
<1> HIDE DEF v, up, rows
<1>6. tx' = [metadata |-> metadata, observations |-> [observations EXCEPT ![s] = rows],
             current |-> up]
  BY <1>2, <1>3
<1>7. /\ scan' = [scan EXCEPT ![s].pc = "metadata"]
      /\ UNCHANGED <<cloud, changes, clock, session, metadata, observations, current, commits>>
  BY DEF StoreObservations
<1> QED BY <1>1, <1>5, <1>6, <1>7, NextStatement DEF v

\* The last: the metadata with the counts.
LEMMA StoreMetadataInv ==
    ASSUME IInv, NEW s \in Scans, StoreMetadata(s)
    PROVE  IInv'
<1> DEFINE v == [scan[s] EXCEPT !.pc = "commit"]
           up == Upserted(current, scan[s].seen)
           obs == WithObservations(observations, scan[s], s)
           new == WithMetadata(metadata, obs, scan[s], s)
<1>1. scan[s].pc = "metadata" /\ scan[s].pc \in Open /\ "commit" \in Open
  BY DEF StoreMetadata, Open
<1>2. /\ tx = [metadata |-> metadata, observations |-> obs, current |-> up]
      /\ v.pc = "commit" /\ v.seen = scan[s].seen /\ OutcomeRow(v) = OutcomeRow(scan[s])
  BY <1>1, TxFacts DEF View
<1>3. tx' = [tx EXCEPT !.metadata = WithMetadata(tx.metadata, tx.observations, scan[s], s)]
  BY DEF StoreMetadata, WithMetadata, Inserted
<1>4. WithObservations(observations, v, s) = obs
  BY <1>2 DEF WithObservations
<1>5. WithMetadata(metadata, obs, v, s) = new
  <2> HIDE DEF v, obs
  <2> QED BY <1>2 DEF WithMetadata, Inserted
<1> HIDE DEF v, up, obs
<1>6. View(metadata, observations, current, v, s) =
         [metadata |-> new, observations |-> obs, current |-> up]
  <2> HIDE DEF new
  <2> QED BY <1>2, <1>4, <1>5 DEF View, up
<1>7. tx' = [metadata |-> new, observations |-> obs, current |-> up]
  BY <1>2, <1>3
<1>8. /\ scan' = [scan EXCEPT ![s].pc = "commit"]
      /\ UNCHANGED <<cloud, changes, clock, session, metadata, observations, current, commits>>
  BY DEF StoreMetadata
<1> QED BY <1>1, <1>6, <1>7, <1>8, NextStatement DEF v

-----------------------------------------------------------------------------
(* Commit *)

\* The metadata row describes its scan.
LEMMA OutcomeRowFacts ==
    ASSUME NEW st \in ScanState, st.start <= st.end, st.end <= MaxTime
    PROVE  /\ Describes(OutcomeRow(st), st)
           /\ OutcomeRow(st).start = st.start /\ OutcomeRow(st).scope = st.scopes
<1> DEFINE row == OutcomeRow(st)
           status == ScanStatus(st)
           total == Cardinality(dedupeResources(st.seen))
<1>1. st \in ScanState
  OBVIOUS
<1>2. /\ st.start \in 0..MaxTime /\ st.end \in 0..MaxTime /\ st.scopes \in SUBSET Regions
  BY <1>1, HistoryAssumption DEF ScanState
<1>3. /\ status \in {"completed", "partial", "failed"}
      /\ status = "completed" => st.failed = {}
  BY DEF ScanStatus
<1>4. total \in Nat
  <2>1. dedupeResources(st.seen) \subseteq Resources
    BY DEF dedupeResources, FirstOf
  <2> QED BY <2>1, HistoryAssumption, FS_Subset, FS_CardinalityType
<1>5. SnapshotComplete(status) \in BOOLEAN /\ (SnapshotComplete(status) <=> status = "completed")
  BY DEF SnapshotComplete
<1> DEFINE ok == SnapshotComplete(status)
<1>6. row = [start |-> st.start, end |-> st.end, status |-> status, scope |-> st.scopes,
             complete |-> ok, counts |-> [new |-> 0, updated |-> 0, deleted |-> 0],
             total |-> total]
  BY DEF OutcomeRow
<1> HIDE DEF row, status, total, ok
<1>7. ok \in BOOLEAN /\ (ok <=> status = "completed")
  BY <1>5 DEF ok
<1>8. row \in MetadataRow
  BY <1>2, <1>3, <1>4, <1>6, <1>7 DEF MetadataRow
<1>9. Describes(row, st)
  BY <1>3, <1>6, <1>7, <1>8 DEF Describes
<1> QED BY <1>6, <1>9 DEF row

\* The table `new` is m with the row of scan s, and `inserted` the one the counts of
\* that row are taken from.
StoresOutcome(new, inserted, m, obs, st, s) ==
    /\ new \in [Scans -> MetadataRow \cup {None}]
    /\ \A t \in Scans : t # s => new[t] = m[t] /\ inserted[t] = m[t]
    /\ new[s] # None /\ Describes(new[s], st)
    /\ new[s].start = st.start /\ new[s].scope = st.scopes
    /\ inserted[s].start = st.start /\ inserted[s].scope = st.scopes
    /\ new[s].complete => new[s].counts = Counts(inserted, obs, s)

\* The row is stored with the counts against its baseline, if it is a snapshot.
LEMMA WithMetadataFacts ==
    ASSUME NEW m \in [Scans -> MetadataRow \cup {None}], NEW obs, NEW s \in Scans,
           NEW st \in ScanState, st.start <= st.end, st.end <= MaxTime
    PROVE  StoresOutcome(WithMetadata(m, obs, st, s), Inserted(m, st, s), m, obs, st, s)
<1> DEFINE row == OutcomeRow(st)
           inserted == Inserted(m, st, s)
           new == WithMetadata(m, obs, st, s)
           counts == Counts(inserted, obs, s)
<1>1. Describes(row, st) /\ row \in MetadataRow /\ row.start = st.start /\ row.scope = st.scopes
  BY OutcomeRowFacts DEF Describes
<1>2. new = IF row.complete THEN [inserted EXCEPT ![s].counts = counts] ELSE inserted
  BY DEF WithMetadata
<1>3. counts \in [new : Nat, updated : Nat, deleted : Nat]
  <2> HIDE DEF inserted
  <2> QED BY DiffType DEF Counts, Diff
<1> HIDE DEF row, new, counts
<1>4. /\ inserted \in [Scans -> MetadataRow \cup {None}] /\ inserted[s] = row
      /\ \A t \in Scans : t # s => inserted[t] = m[t]
  BY <1>1 DEF Inserted, row
<1> HIDE DEF inserted
<1>5. CASE ~row.complete
  <2>1. StoresOutcome(new, inserted, m, obs, st, s)
    BY <1>1, <1>2, <1>4, <1>5, NoneAssumption DEF StoresOutcome
  <2> QED BY <2>1 DEF new, inserted
<1>6. CASE row.complete
  <2> DEFINE full == [row EXCEPT !.counts = counts]
  <2>1. /\ full \in MetadataRow /\ full.start = row.start /\ full.end = row.end
        /\ full.scope = row.scope /\ full.complete = row.complete /\ full.status = row.status
        /\ full.counts = counts
    BY <1>1, <1>3 DEF MetadataRow
  <2>2. new = [inserted EXCEPT ![s] = full]
    BY <1>2, <1>4, <1>6
  <2> HIDE DEF full
  <2>3. /\ new \in [Scans -> MetadataRow \cup {None}] /\ new[s] = full
        /\ \A t \in Scans : t # s => new[t] = m[t]
    BY <1>4, <2>1, <2>2
  <2>4. Describes(full, st) /\ full # None
    BY <1>1, <2>1, NoneAssumption DEF Describes
  <2>5. StoresOutcome(new, inserted, m, obs, st, s)
    BY <1>1, <1>4, <2>1, <2>3, <2>4 DEF StoresOutcome, counts
  <2> QED BY <2>5 DEF new, inserted
<1> QED BY <1>5, <1>6

\* The scans that come earlier in the log of commits, before and after one more.
LEMMA EarlierStep ==
    ASSUME NEW C \in Seq(Scans), NEW s \in Scans, \A k \in DOMAIN C : C[k] # s
    PROVE  /\ Append(C, s) \in Seq(Scans)
           /\ \A t \in Scans :
                 (\E k \in DOMAIN Append(C, s) : Append(C, s)[k] = t)
                     <=> t = s \/ \E k \in DOMAIN C : C[k] = t
           /\ (\A j, k \in DOMAIN C : C[j] = C[k] => j = k) =>
                 \A j, k \in DOMAIN Append(C, s) : Append(C, s)[j] = Append(C, s)[k] => j = k
           /\ \A t \in Scans : t # s => Earlier(Append(C, s), t) = Earlier(C, t)
           /\ Earlier(Append(C, s), s) = {t \in Scans : \E k \in DOMAIN C : C[k] = t}
           /\ \A t \in Scans : s \notin Earlier(C, t)
<1> DEFINE D == Append(C, s)
           n == Len(C) + 1
<1>1. /\ D \in Seq(Scans) /\ DOMAIN D = DOMAIN C \cup {n} /\ n \in Nat /\ D[n] = s
      /\ \A k \in DOMAIN C : k \in Nat /\ k < n /\ D[k] = C[k]
  <2>1. /\ D \in Seq(Scans) /\ Len(C) \in Nat /\ DOMAIN C = 1..Len(C) /\ DOMAIN D = 1..n
        /\ D[n] = s /\ \A k \in 1..Len(C) : D[k] = C[k]
    OBVIOUS
  <2> QED BY <2>1
<1> HIDE DEF D, n
<1>2. \A t \in Scans : (\E k \in DOMAIN D : D[k] = t) <=> t = s \/ \E k \in DOMAIN C : C[k] = t
  BY <1>1
<1>3. ASSUME \A j, k \in DOMAIN C : C[j] = C[k] => j = k, NEW j \in DOMAIN D, NEW k \in DOMAIN D,
             D[j] = D[k]
      PROVE  j = k
  BY <1>1, <1>3
<1>4. ASSUME NEW t \in Scans, t # s PROVE Earlier(D, t) = Earlier(C, t)
  <2>1. ASSUME NEW q \in Scans
        PROVE  (\E j, k \in DOMAIN D : D[j] = q /\ D[k] = t /\ j < k)
                   <=> \E j, k \in DOMAIN C : C[j] = q /\ C[k] = t /\ j < k
    BY <1>1, <1>4
  <2> QED BY <2>1 DEF Earlier
<1>5. ASSUME NEW q \in Scans
      PROVE  (\E j, k \in DOMAIN D : D[j] = q /\ D[k] = s /\ j < k)
                 <=> \E k \in DOMAIN C : C[k] = q
  BY <1>1
<1>6. Earlier(D, s) = {t \in Scans : \E k \in DOMAIN C : C[k] = t}
  BY <1>5 DEF Earlier
<1>7. \A t \in Scans : s \notin Earlier(C, t)
  BY DEF Earlier
<1> QED BY <1>1, <1>2, <1>3, <1>4, <1>6, <1>7 DEF D

\* The scans compared are stored, and dated.
LEMMA ComparableDated ==
    ASSUME NEW m \in [Scans -> MetadataRow \cup {None}], NEW s \in Scans, NEW P, P \subseteq Scans
    PROVE  /\ Dated(m, Comparable(m, s, P))
           /\ \A p \in Comparable(m, s, P) : p \in P /\ p # s /\ m[p] # None
<1>1. ASSUME NEW p \in Comparable(m, s, P)
      PROVE  p \in P /\ p # s /\ p \in Scans /\ m[p] # None /\ m[p] \in MetadataRow
  BY DEF Comparable, IsSnapshot
<1>2. \A p \in Comparable(m, s, P) : m[p].start \in 0..MaxTime
  BY <1>1 DEF MetadataRow
<1> QED BY <1>1, <1>2 DEF Dated

\* The newest comparable scan, or none.
LEMMA NewestComparable ==
    ASSUME NEW m \in [Scans -> MetadataRow \cup {None}], NEW s \in Scans, NEW P, P \subseteq Scans
    PROVE  LET p == Newest(m, Comparable(m, s, P))
           IN  p = None \/ (p \in P /\ p # s /\ m[p] # None)
<1> DEFINE S == Comparable(m, s, P)
<1>1. Dated(m, S) /\ \A p \in S : p \in P /\ p # s /\ m[p] # None
  BY ComparableDated
<1> HIDE DEF S
<1>2. CASE S = {}
  BY <1>1, <1>2, NewestFacts DEF S
<1>3. CASE S # {}
  <2>1. IsNewest(m, S, Newest(m, S))
    BY <1>1, <1>3, NewestFacts
  <2> QED BY <1>1, <2>1 DEF IsNewest, S
<1> QED BY <1>2, <1>3

\* Committing a scan extends the tables by that scan.
LEMMA CommitTables ==
    ASSUME NEW m, NEW obs, NEW cur, NEW C, NEW sc, Tables(m, obs, cur, C, sc),
           NEW s \in Scans, sc[s] \in ScanState, sc[s].pc = "commit",
           sc[s].start <= sc[s].end, sc[s].end <= MaxTime,
           NEW other, other[s] = [sc[s] EXCEPT !.pc = "stored"],
           \A t \in Scans : t # s => other[t] = sc[t]
    PROVE  Tables(WithMetadata(m, WithObservations(obs, sc[s], s), sc[s], s),
                  WithObservations(obs, sc[s], s), Upserted(cur, sc[s].seen),
                  Append(C, s), other)
<1> DEFINE st == sc[s]
           o2 == WithObservations(obs, st, s)
           m2 == WithMetadata(m, o2, st, s)
           inserted == Inserted(m, st, s)
           c2 == Upserted(cur, st.seen)
           D == Append(C, s)
<1>1. /\ m \in [Scans -> MetadataRow \cup {None}] /\ obs \in [Scans -> [Ids -> Row \cup {None}]]
      /\ cur \in [Ids -> Row \cup {None}] /\ C \in Seq(Scans)
      /\ \A j, k \in DOMAIN C : C[j] = C[k] => j = k
  BY DEF Tables
<1>2. m[s] = None /\ \A k \in DOMAIN C : C[k] # s
  BY DEF Tables
<1>3. /\ other[s].pc = "stored" /\ other[s].seen = st.seen /\ other[s].scopes = st.scopes
      /\ other[s].failed = st.failed
  BY DEF ScanState
<1>4. st.seen \in [Resources -> Versions \cup {0}] /\ st \in ScanState
      /\ st.start <= st.end /\ st.end <= MaxTime
  BY DEF ScanState
<1>5. \A id \in Ids : RowOf(st.seen, id) \in Row \cup {None}
  BY <1>4, RowFacts
<1> HIDE DEF st
<1>6. /\ o2 \in [Scans -> [Ids -> Row \cup {None}]]
      /\ \A id \in Ids : o2[s][id] = RowOf(st.seen, id)
      /\ \A t \in Scans : t # s => o2[t] = obs[t]
  BY <1>1, <1>5 DEF WithObservations
<1> HIDE DEF o2
<1>7. /\ m2 \in [Scans -> MetadataRow \cup {None}]
      /\ \A t \in Scans : t # s => m2[t] = m[t] /\ inserted[t] = m[t]
      /\ m2[s] # None /\ Describes(m2[s], st)
      /\ m2[s].start = st.start /\ m2[s].scope = st.scopes
      /\ inserted[s].start = st.start /\ inserted[s].scope = st.scopes
      /\ m2[s].complete => m2[s].counts = Counts(inserted, o2, s)
  <2>1. StoresOutcome(m2, inserted, m, o2, st, s)
    BY <1>1, <1>4, WithMetadataFacts
  <2> HIDE DEF m2, inserted
  <2> QED BY <2>1 DEF StoresOutcome
<1>8. inserted \in [Scans -> MetadataRow \cup {None}]
  <2>1. OutcomeRow(st) \in MetadataRow
    BY <1>4, OutcomeRowFacts DEF Describes
  <2> QED BY <1>1, <2>1 DEF Inserted
<1> HIDE DEF m2, inserted
<1>9. /\ D \in Seq(Scans)
      /\ \A t \in Scans : (\E k \in DOMAIN D : D[k] = t) <=> t = s \/ \E k \in DOMAIN C : C[k] = t
      /\ \A j, k \in DOMAIN D : D[j] = D[k] => j = k
      /\ \A t \in Scans : t # s => Earlier(D, t) = Earlier(C, t)
      /\ Earlier(D, s) = {t \in Scans : \E k \in DOMAIN C : C[k] = t}
      /\ \A t \in Scans : s \notin Earlier(C, t)
  BY <1>1, <1>2, EarlierStep
<1> HIDE DEF D
<1>10. /\ c2 \in [Ids -> Row \cup {None}]
       /\ \A id \in Ids : c2[id] = IF RowOf(st.seen, id) # None THEN RowOf(st.seen, id) ELSE cur[id]
  BY <1>1, <1>5 DEF Upserted
<1> HIDE DEF c2
<1>11. ASSUME NEW id \in Ids, c2[id] # None
       PROVE  \E t \in Scans : m2[t] # None /\ o2[t][id] = c2[id]
  <2>1. CASE RowOf(st.seen, id) # None
    BY <1>6, <1>7, <1>10, <2>1
  <2>2. CASE RowOf(st.seen, id) = None
    <3>1. c2[id] = cur[id]
      BY <1>10, <2>2
    <3>2. PICK t \in Scans : m[t] # None /\ obs[t][id] = cur[id]
      BY <1>11, <3>1 DEF Tables
    <3> QED BY <1>2, <1>6, <1>7, <3>1, <3>2
  <2> QED BY <2>1, <2>2
<1>12. ASSUME NEW t \in Scans, t # s, m[t] # None, m[t].complete
       PROVE  Counted(m2, o2, D, t)
  <2> DEFINE E == Earlier(C, t)
             S == Comparable(m, t, E)
  <2>1. E \subseteq Scans /\ s \notin E
    BY <1>9 DEF Earlier
  <2>2. Dated(m, S) /\ \A p \in S : p \in E
    BY <1>1, <2>1, ComparableDated
  <2>3. Comparable(m2, t, Earlier(D, t)) = S
    <3>1. Earlier(D, t) = E
      BY <1>9, <1>12
    <3> HIDE DEF E
    <3> QED BY <1>7, <1>12, <2>1, <3>1 DEF Comparable, IsSnapshot
  <2>4. Newest(m, S) = None \/ Newest(m, S) \in E
    BY <1>1, <2>1, NewestComparable
  <2>5. m[t].counts = Diff(ObservationsOf(obs, Newest(m, S)), obs[t])
    BY <1>12 DEF Tables, Counted
  <2> HIDE DEF E, S
  <2>6. Newest(m2, S) = Newest(m, S)
    BY <1>7, <2>1, <2>2, NewestSame
  <2>7. ObservationsOf(o2, Newest(m, S)) = ObservationsOf(obs, Newest(m, S))
    BY <1>6, <2>1, <2>4 DEF ObservationsOf
  <2> QED BY <1>6, <1>7, <1>12, <2>3, <2>5, <2>6, <2>7 DEF Counted
<1>13. ASSUME m2[s].complete PROVE Counted(m2, o2, D, s)
  <2> DEFINE E == Earlier(D, s)
             S == Comparable(m2, s, E)
  <2>1. \A t \in Scans : m[t] # None <=> t \in E
    BY <1>9 DEF Tables
  <2>2. E \subseteq Scans
    BY <1>9
  <2>3. Dated(m2, S) /\ \A p \in S : p # s /\ p \in Scans
    BY <1>7, <2>2, ComparableDated
  <2>4. S = Comparable(inserted, s, Scans)
    <3> HIDE DEF E
    <3> QED BY <1>7, <2>1, <2>2 DEF Comparable, IsSnapshot
  <2> HIDE DEF S, E
  <2>5. Newest(inserted, S) = Newest(m2, S)
    BY <1>7, <2>3, NewestSame
  <2>6. PreviousComparableScan(inserted, s) = Newest(m2, S)
    BY <2>4, <2>5 DEF PreviousComparableScan, Comparable
  <2>7. Counts(inserted, o2, s) = Diff(ObservationsOf(o2, Newest(m2, S)), o2[s])
    BY <2>6 DEF Counts, Baseline, Diff, ObservationsOf
  <2> QED BY <1>7, <1>13, <2>7 DEF Counted, S, E
<1>14. ASSUME NEW t \in Scans
       PROVE  /\ m2[t] # None <=> \E k \in DOMAIN D : D[k] = t
              /\ m2[t] # None <=> other[t].pc = "stored"
              /\ m2[t] = None => \A id \in Ids : o2[t][id] = None
              /\ m2[t] # None =>
                    /\ Describes(m2[t], other[t])
                    /\ \A id \in Ids : o2[t][id] = RowOf(other[t].seen, id)
                    /\ m2[t].complete => Counted(m2, o2, D, t)
  <2>1. CASE t = s
    <3>1. Describes(m2[s], other[s])
      BY <1>3, <1>7 DEF Describes
    <3>2. \A id \in Ids : o2[s][id] = RowOf(other[s].seen, id)
      BY <1>3, <1>6
    <3>3. \E k \in DOMAIN D : D[k] = s
      BY <1>9
    <3> QED BY <1>3, <1>7, <1>13, <2>1, <3>1, <3>2, <3>3
  <2>2. CASE t # s
    <3>1. m2[t] = m[t] /\ o2[t] = obs[t] /\ other[t] = sc[t]
      BY <1>6, <1>7, <2>2
    <3>2. /\ m[t] # None <=> \E k \in DOMAIN C : C[k] = t
          /\ m[t] # None <=> sc[t].pc = "stored"
          /\ m[t] = None => \A id \in Ids : obs[t][id] = None
          /\ m[t] # None =>
                /\ Describes(m[t], sc[t])
                /\ \A id \in Ids : obs[t][id] = RowOf(sc[t].seen, id)
      BY DEF Tables
    <3> QED BY <1>9, <1>12, <2>2, <3>1, <3>2
  <2> QED BY <2>1, <2>2
<1>15. Tables(m2, o2, c2, D, other)
  BY <1>6, <1>7, <1>9, <1>10, <1>11, <1>14 DEF Tables
<1> QED BY <1>15 DEF st, o2, m2, c2, D

\* What the transaction showed becomes the tables.
LEMMA CommitInv ==
    ASSUME IInv, NEW s \in Scans, Commit(s)
    PROVE  IInv'
<1> DEFINE st == scan[s]
           v == [st EXCEPT !.pc = "stored"]
<1>1. st \in ScanState /\ Honest(st, clock, cloud) /\ st.pc = "commit" /\ st.pc \in Open
  BY DEF IInv, Commit, Open
<1>2. /\ v \in ScanState /\ v.pc = "stored" /\ v.start = st.start /\ v.end = st.end
      /\ v.scopes = st.scopes /\ v.unread = st.unread /\ v.seen = st.seen
      /\ v.failed = st.failed /\ v.hidden = st.hidden
      /\ v.steady = st.steady /\ v.ever = st.ever
  BY <1>1 DEF ScanState
<1>3. /\ scan' = [scan EXCEPT ![s] = v] /\ session' = None
      /\ metadata' = tx.metadata /\ observations' = tx.observations /\ current' = tx.current
      /\ commits' = Append(commits, s) /\ UNCHANGED <<cloud, changes, clock>>
  BY DEF Commit, IInv
<1>4. session = s /\ tx = View(metadata, observations, current, st, s)
  BY <1>1, TxFacts
<1> HIDE DEF v
<1>5. /\ scan' \in [Scans -> ScanState] /\ scan'[s] = v
      /\ \A t \in Scans : t # s => scan'[t] = scan[t]
  BY <1>2, <1>3 DEF IInv
<1>6. /\ metadata' = WithMetadata(metadata, WithObservations(observations, st, s), st, s)
      /\ observations' = WithObservations(observations, st, s)
      /\ current' = Upserted(current, st.seen)
  BY <1>1, <1>3, <1>4 DEF View
<1>7. Tables(metadata', observations', current', commits', scan')
  <2>1. Tables(metadata, observations, current, commits, scan)
    BY DEF IInv
  <2>2. st.start <= st.end /\ st.end <= MaxTime
    BY <1>1 DEF Honest
  <2>3. scan'[s] = [scan[s] EXCEPT !.pc = "stored"]
    BY <1>5 DEF v
  <2> DEFINE sc == scan'
             obs == WithObservations(observations, st, s)
  <2>4. Tables(WithMetadata(metadata, obs, st, s), obs, Upserted(current, st.seen),
               Append(commits, s), sc)
    <3> HIDE DEF sc
    <3>1. sc[s] = [scan[s] EXCEPT !.pc = "stored"] /\ \A t \in Scans : t # s => sc[t] = scan[t]
      BY <1>5, <2>3 DEF sc
    <3> QED BY <1>1, <2>1, <2>2, <3>1, CommitTables
  <2> QED BY <1>3, <1>6, <2>4
<1>8. Honest(v, clock, cloud)
  <2> HIDE DEF st
  <2> QED BY <1>1, <1>2 DEF Honest, Open
<1>9. \A t \in Scans : /\ Honest(scan'[t], clock, cloud)
                       /\ scan'[t].pc \notin Open /\ t # None
  BY <1>2, <1>4, <1>5, <1>8, NoneAssumption DEF IInv, Open
<1> QED BY <1>3, <1>5, <1>7, <1>9 DEF IInv

\* Every step keeps the invariant.
LEMMA NextInv ==
    ASSUME IInv, [Next]_vars
    PROVE  IInv'
<1>1. ASSUME NEW s \in Scans, Persist(s) PROVE IInv'
  BY <1>1, OpenSessionInv, StoreResourcesInv, StoreObservationsInv, StoreMetadataInv, CommitInv
     DEF Persist
<1>2. ASSUME UNCHANGED vars PROVE IInv'
  BY <1>2 DEF vars, IInv
<1>3. ASSUME NEW s \in Scans,
             \/ \E scopes \in Requests : Start(s, scopes)
             \/ \E region \in Regions, part \in SUBSET Resources,
                   outcome \in NoErrors \cup {"errors", "unreachable"} : Answer(s, region, part, outcome)
             \/ Finish(s)
             \/ Lose(s)
      PROVE  IInv'
  BY <1>3, StartInv, AnswerInv, FinishInv, LoseInv
<1> QED BY <1>1, <1>2, <1>3, ChangeInv, TickInv DEF Next

\* Every reachable state satisfies the inductive invariant.
THEOREM Invariance == Spec => []IInv
  BY InitInv, NextInv, PTL DEF Spec

-----------------------------------------------------------------------------
(* The properties *)

\* Tables and clock of the history stay well typed, and a stored scan ends no
\* earlier than it starts, although persist reckons the start time back from the
\* moment the session is open.
THEOREM TypeCorrect == Spec => []TypeOK
<1>1. ASSUME IInv PROVE TypeOK
  <2>1. \A s \in Scans : metadata[s] # None => metadata[s].start <= metadata[s].end
    BY <1>1 DEF IInv, Tables, Describes
  <2> QED BY <1>1, <2>1 DEF IInv, Tables, TypeOK
<1> QED BY <1>1, Invariance, PTL

\* The transaction of StoreScanOutcome makes a scan's metadata, observations and
\* resource rows appear together or not at all, wherever the scan is cancelled,
\* a statement fails or the process dies.
THEOREM StoredWholeOrNotAtAll == Spec => []WholeOrNothing
<1>1. ASSUME IInv PROVE WholeOrNothing
  BY <1>1 DEF IInv, Tables, WholeOrNothing, Stored
<1> QED BY <1>1, Invariance, PTL

\* With unique resource ids, a snapshot holds every resource of its scopes that
\* existed for as long as the scan ran and that no notice hid, and nothing that
\* never existed, however the cloud changes between the answers of its scopes.
LEMMA CompleteFromInv ==
    ASSUME IdsAreUnique, IInv
    PROVE  CompleteScanSawEverything
<1> SUFFICES ASSUME NEW s \in Stored, metadata[s].complete
             PROVE  /\ \A r \in scan[s].steady \ scan[s].hidden : r.region \in metadata[s].scope =>
                          observations[s][r.id] # None /\ observations[s][r.id].resource = r
                    /\ \A id \in Ids : observations[s][id] # None =>
                          observations[s][id].resource \in scan[s].ever
  BY DEF CompleteScanSawEverything
<1>1. s \in Scans /\ metadata[s] # None
  BY DEF Stored
<1>2. /\ scan[s].pc = "stored" /\ Describes(metadata[s], scan[s])
      /\ \A id \in Ids : observations[s][id] = RowOf(scan[s].seen, id)
  BY <1>1 DEF IInv, Tables
<1>3. Honest(scan[s], clock, cloud)
  BY <1>1 DEF IInv
<1>4. /\ scan[s].seen \in [Resources -> Versions \cup {0}] /\ scan[s].steady \subseteq Resources
      /\ scan[s].unread = {} /\ scan[s].failed = {} /\ metadata[s].scope = scan[s].scopes
  BY <1>2, <1>3 DEF Honest, ScanState, Describes
<1>5. ASSUME NEW r \in scan[s].steady \ scan[s].hidden, r.region \in metadata[s].scope
      PROVE  observations[s][r.id] # None /\ observations[s][r.id].resource = r
  <2>1. r \in Resources /\ scan[s].seen[r] # 0
    BY <1>3, <1>4, <1>5 DEF Honest
  <2>2. r.id \in Ids
    BY <2>1 DEF Ids
  <2> QED BY <1>2, <1>4, <2>1, <2>2, RowOfSeen
<1>6. ASSUME NEW id \in Ids, observations[s][id] # None
      PROVE  observations[s][id].resource \in scan[s].ever
  <2>1. /\ observations[s][id].resource \in Resources
        /\ scan[s].seen[observations[s][id].resource] # 0
    BY <1>2, <1>4, <1>6, RowFacts
  <2> QED BY <1>3, <2>1 DEF Honest
<1> QED BY <1>5, <1>6

\* What a snapshot claims is complete (see CompleteFromInv), in every behaviour.
THEOREM SnapshotsAreComplete == IdsAreUnique => (Spec => []CompleteScanSawEverything)
<1> SUFFICES ASSUME IdsAreUnique PROVE Spec => []CompleteScanSawEverything
  OBVIOUS
<1>1. IInv => CompleteScanSawEverything
  BY CompleteFromInv
<1> QED BY <1>1, Invariance, PTL

\* With unique resource ids, a drift that does not call itself incomplete is true of
\* the cloud: what it calls removed existed during the baseline scan and was
\* missing at some moment of the later one, or hidden by one of its notices, and
\* conversely for what it calls added.
THEOREM DriftTellsTheTruth == IdsAreUnique => (Spec => []DriftIsTrue)
<1> SUFFICES ASSUME IdsAreUnique PROVE Spec => []DriftIsTrue
  OBVIOUS
<1>1. ASSUME IInv PROVE DriftIsTrue
  <2> SUFFICES ASSUME NEW from \in Stored, NEW to \in Stored, ~Incomplete(from, to),
                      NEW r \in Resources, r.region \in metadata[from].scope
               PROVE  LET before == observations[from]
                          after == observations[to]
                      IN  /\ r.id \in Removed(before, after) =>
                                /\ r \in scan[from].ever
                                /\ r \notin scan[to].steady \/ r \in scan[to].hidden
                          /\ r.id \in Added(before, after) =>
                                /\ r \notin scan[from].steady \/ r \in scan[from].hidden
                                /\ r \in scan[to].ever
    BY DEF DriftIsTrue
  <2>1. CompleteScanSawEverything
    BY <1>1, CompleteFromInv
  <2>2. /\ metadata[from].complete /\ metadata[to].complete
        /\ metadata[from].scope = metadata[to].scope
    BY DEF Incomplete
  <2>3. ASSUME NEW s \in {from, to}
        PROVE  /\ r \in scan[s].steady \ scan[s].hidden => observations[s][r.id] # None
               /\ observations[s][r.id] # None => r \in scan[s].ever
    <3>1. s \in Stored /\ s \in Scans /\ metadata[s].complete
          /\ r.region \in metadata[s].scope /\ metadata[s] # None
      BY <2>2 DEF Stored
    <3>2. r.id \in Ids
      BY DEF Ids
    <3>3. ASSUME observations[s][r.id] # None PROVE observations[s][r.id].resource = r
      <4>1. observations[s][r.id] = RowOf(scan[s].seen, r.id)
        BY <1>1, <3>1, <3>2 DEF IInv, Tables
      <4>2. scan[s].seen \in [Resources -> Versions \cup {0}]
        BY <1>1, <3>1 DEF IInv, ScanState
      <4>3. observations[s][r.id].resource \in Resources
            /\ observations[s][r.id].resource.id = r.id
        BY <3>3, <4>1, <4>2, RowFacts
      <4> QED BY <4>3 DEF IdsAreUnique
    <3> QED BY <2>1, <3>1, <3>2, <3>3 DEF CompleteScanSawEverything
  <2> QED BY <2>3 DEF Removed, Added
<1> QED BY <1>1, Invariance, PTL

\* The counts computed in the transaction that stores a snapshot are those drift
\* reports for it, unless its baseline was stored after it.
THEOREM CountsAreThoseOfDrift == Spec => []CountsAgreeWithDrift
<1>1. ASSUME IInv PROVE CountsAgreeWithDrift
  <2> SUFFICES ASSUME NEW s \in Stored, metadata[s].complete,
                      LET p == PreviousComparableScan(metadata, s)
                      IN  p = None \/ CommitOf(p) < CommitOf(s)
               PROVE  LET p == PreviousComparableScan(metadata, s)
                      IN  metadata[s].counts =
                             Diff(ObservationsOf(observations, p), observations[s])
    BY DEF CountsAgreeWithDrift, Diff, ObservationsOf
  <2> DEFINE p == PreviousComparableScan(metadata, s)
             E == Earlier(commits, s)
             S == Comparable(metadata, s, E)
             T == Comparable(metadata, s, Scans)
  <2>1. s \in Scans /\ metadata[s] # None /\ E \subseteq Scans
    BY DEF Stored, Earlier
  <2>2. metadata \in [Scans -> MetadataRow \cup {None}]
    BY <1>1 DEF IInv, Tables
  <2>3. Dated(metadata, S) /\ Dated(metadata, T)
    BY <2>1, <2>2, ComparableDated
  <2>4. S \subseteq T /\ \A q \in T : q \in E => q \in S
    BY <2>1 DEF Comparable
  <2>5. p = Newest(metadata, T)
    BY DEF PreviousComparableScan, Comparable
  <2>6. metadata[s].counts =
           Diff(ObservationsOf(observations, Newest(metadata, S)), observations[s])
    BY <1>1, <2>1 DEF IInv, Tables, Counted
  <2>7. ASSUME NEW q \in Scans, metadata[q] # None
        PROVE  CommitOf(q) \in DOMAIN commits /\ commits[CommitOf(q)] = q
    <3>1. \E k \in DOMAIN commits : commits[k] = q
      BY <1>1, <2>7 DEF IInv, Tables
    <3> QED BY <3>1 DEF CommitOf
  <2>8. p # None => p \in T /\ IsNewest(metadata, T, p) /\ p \in Scans /\ metadata[p] # None
    <3>1. \A q \in T : q \in Scans /\ metadata[q] # None
      BY <2>1, <2>2, ComparableDated
    <3> HIDE DEF T, p
    <3>2. p # None => T # {}
      BY <2>3, <2>5, NewestFacts
    <3> QED BY <2>3, <2>5, <3>1, <3>2, NewestFacts DEF IsNewest
  <2>9. Newest(metadata, S) = p
    <3>1. CASE p = None
      <4> HIDE DEF S, T, p
      <4>1. T = {}
        <5>1. ASSUME T # {} PROVE FALSE
          <6>1. p \in Scans
            BY <2>3, <2>5, <5>1, NewestFacts DEF IsNewest, Dated
          <6> QED BY <3>1, <6>1, NoneAssumption
        <5> QED BY <5>1
      <4>2. S = {}
        BY <2>4, <4>1
      <4> QED BY <2>3, <3>1, <4>2, NewestFacts
    <3>2. CASE p # None
      <4>1. CommitOf(p) < CommitOf(s)
        BY <3>2
      <4> HIDE DEF S, T, p
      <4>2. p \in E
        BY <2>1, <2>7, <2>8, <3>2, <4>1 DEF Earlier
      <4>3. p \in S /\ IsNewest(metadata, S, p)
        BY <2>4, <2>8, <3>2, <4>2 DEF IsNewest
      <4>4. S # {}
        BY <4>3
      <4>5. IsNewest(metadata, S, Newest(metadata, S))
        BY <2>3, <4>4, NewestFacts
      <4> QED BY <2>3, <4>3, <4>5, NewestUnique
    <3> QED BY <3>1, <3>2
  <2> QED BY <2>6, <2>9
<1> QED BY <1>1, Invariance, PTL

=============================================================================
