---------------------------- MODULE LoaderProofs ----------------------------
(* Loads for any number of nodes, loads and versions.                      *)
EXTENDS Loader, TLAPS

\* The iteration hands out indexes of nodes.
LEMMA OrderType ==
    ASSUME NEW first \in Indexes, NEW k \in Indexes
    PROVE  Order(first)[k] \in Indexes
<1>1. first + k \in Nat /\ first + k < NodeCount + NodeCount
  BY NodeCountAssumption DEF Indexes
<1>2. (first + k) % NodeCount =
        IF first + k < NodeCount THEN first + k ELSE first + k - NodeCount
  BY <1>1, NodeCountAssumption DEF Indexes
<1> QED BY <1>1, <1>2, NodeCountAssumption DEF Order, Indexes

\* Going round once comes back to the same index.
LEMMA RoundOnce ==
    ASSUME NEW n \in Nat \ {0}, NEW k \in 0 .. n - 1
    PROVE  (k + n) % n = k
OBVIOUS

\* Wherever it starts, the iteration comes to every node.
LEMMA OrderIsOnto ==
    ASSUME NEW first \in Indexes, NEW node \in Indexes
    PROVE  \E k \in Indexes : Order(first)[k] = node
<1> DEFINE k == IF first <= node THEN node - first ELSE node - first + NodeCount
<1>1. k \in Indexes
  BY NodeCountAssumption DEF Indexes
<1>2. (first + k) % NodeCount = node
  <2>1. CASE first <= node
    <3>1. first + k = node
      BY <2>1 DEF Indexes
    <3>2. node % NodeCount = node
      BY NodeCountAssumption DEF Indexes
    <3> HIDE DEF k
    <3> QED BY <3>1, <3>2
  <2>2. CASE ~(first <= node)
    <3>1. first + k = node + NodeCount
      BY <2>2, NodeCountAssumption DEF Indexes
    <3>2. (node + NodeCount) % NodeCount = node
      BY RoundOnce, NodeCountAssumption DEF Indexes
    <3> HIDE DEF k
    <3> QED BY <3>1, <3>2
  <2> QED BY <2>1, <2>2
<1> HIDE DEF k
<1> QED BY <1>1, <1>2 DEF Order

-----------------------------------------------------------------------------
\* Snapshots and cache files, seen from outside.
LEMMA Records ==
    /\ EmptySnapshot \in Snapshots
    /\ \A v \in Versions, b \in BOOLEAN : [version |-> v, from_cache |-> b] \in Snapshots
    /\ \A p \in Snapshots : p.version \in Versions /\ p.from_cache \in BOOLEAN
    /\ Absent \in Files /\ Blank \in Files
    /\ \A v \in Versions : Torn(v) \in Files /\ Whole(v) \in Files
    /\ \A f \in Files : f.version \in Versions
    /\ \A f \in Files : f.kind = "whole" => f = Whole(f.version)
    /\ 0 \in Versions /\ 1 \in Versions
<1>1. 0 \in Versions /\ 1 \in Versions
  BY LoaderAssumption DEF Versions
<1>2. /\ EmptySnapshot \in Snapshots
      /\ \A v \in Versions, b \in BOOLEAN : [version |-> v, from_cache |-> b] \in Snapshots
      /\ \A p \in Snapshots : p.version \in Versions /\ p.from_cache \in BOOLEAN
  BY <1>1 DEF EmptySnapshot, Snapshots
<1>3. /\ Absent \in Files /\ Blank \in Files
      /\ \A v \in Versions : Torn(v) \in Files /\ Whole(v) \in Files
  BY DEF Files
<1>4. \A f \in Files : f.version \in Versions
  BY <1>1 DEF Files, Absent, Blank, Torn, Whole
<1>5. \A f \in Files : f.kind = "whole" => f = Whole(f.version)
  BY DEF Files, Absent, Blank, Torn, Whole
<1> QED BY <1>1, <1>2, <1>3, <1>4, <1>5

\* Writing a part of a body to a file leaves a file, and a whole one only where one
\* of the two was.
LEMMA CutIs ==
    ASSUME NEW f \in Files, NEW v \in Versions, NEW g \in Cut(f, v)
    PROVE  /\ g \in Files
           /\ g.version \in {f.version, v}
           /\ g.kind = "whole" => g = f \/ f = Torn(v)
<1>1. f.version \in Versions
  BY Records
<1>2. g = f \/ g = Torn(f.version) \/ g = Torn(v) \/ (g = Whole(v) /\ f = Torn(v))
  BY DEF Cut
<1>3. g \in Files
  BY <1>1, <1>2, Records
<1>4. g.version \in {f.version, v}
  BY <1>2 DEF Torn, Whole
<1>5. g.kind = "whole" => g = f \/ f = Torn(v)
  BY <1>2 DEF Torn
<1> QED BY <1>3, <1>4, <1>5

\* Writing all of it leaves the body, or one that is longer, torn.
LEMMA WriteIs ==
    ASSUME NEW l \in Loads, file \in Files, payload[l] \in Snapshots, Write(l)
    PROVE  /\ file' \in Files
           /\ file' = Whole(payload[l].version) \/ file' = Torn(file.version)
<1>1. file.version \in Versions /\ payload[l].version \in Versions
  BY Records
<1>2. file' = Whole(payload[l].version) \/ file' = Torn(file.version)
  BY DEF Write
<1> QED BY <1>1, <1>2, Records

\* The type invariant is inductive.
LEMMA TypeInductive ==
    ASSUME TypeOK, [Next]_vars
    PROVE  TypeOK'
<1> USE DEF TypeOK, Goto, Return, Steps, Errors, Endings, local, shared, fixed
<1>0. 0 \in 0 .. NodeCount /\ 0 \in Indexes
  BY NodeCountAssumption DEF Indexes
<1>1. ASSUME NEW l \in Loads, Begin(l) PROVE TypeOK'
  BY <1>1, Records, <1>0 DEF Begin
<1>2. ASSUME NEW l \in Loads, AlreadyLoaded(l) PROVE TypeOK'
  BY <1>2, Records DEF AlreadyLoaded
<1>3. ASSUME NEW l \in Loads, Abandon(l) PROVE TypeOK'
  BY <1>3 DEF Abandon
<1>4. ASSUME NEW l \in Loads, Answer(l) PROVE TypeOK'
  BY <1>4, Records DEF Answer
<1>5. ASSUME NEW l \in Loads, NodeFails(l) PROVE TypeOK'
  BY <1>5, NodeCountAssumption DEF NodeFails
<1>6. ASSUME NEW l \in Loads, Exhausted(l) PROVE TypeOK'
  BY <1>6 DEF Exhausted
<1>7. ASSUME NEW l \in Loads, Replace(l) PROVE TypeOK'
  BY <1>7 DEF Replace
<1>8. ASSUME NEW l \in Loads, MarkLoaded(l) PROVE TypeOK'
  BY <1>8 DEF MarkLoaded
<1>9. ASSUME NEW l \in Loads, SkipCache(l) PROVE TypeOK'
  BY <1>9 DEF SkipCache
<1>10. ASSUME NEW l \in Loads, Truncate(l) PROVE TypeOK'
  BY <1>10, Records DEF Truncate
<1>11. ASSUME NEW l \in Loads, Write(l) PROVE TypeOK'
  <2>1. file' \in Files
    BY <1>11, WriteIs
  <2> QED BY <1>11, <2>1 DEF Write
<1>12. ASSUME NEW l \in Loads, OpenFails(l) PROVE TypeOK'
  BY <1>12 DEF OpenFails
<1>13. ASSUME NEW l \in Loads, WriteFails(l) PROVE TypeOK'
  <2>1. file' \in Files
    BY <1>13, CutIs, Records DEF WriteFails
  <2> QED BY <1>13, <2>1 DEF WriteFails
<1>14. ASSUME NEW l \in Loads, Notify(l) PROVE TypeOK'
  BY <1>14 DEF Notify
<1>15. ASSUME NEW l \in Loads, ReadCache(l) PROVE TypeOK'
  BY <1>15, Records DEF ReadCache
<1>16. ASSUME NEW l \in Loads, CacheUnavailable(l) PROVE TypeOK'
  BY <1>16 DEF CacheUnavailable
<1>17. CASE Publish
  BY <1>17, LoaderAssumption DEF Publish, Versions
<1>18. CASE Crash
  <2>1. file' \in Files /\ saved' \in Endings
    BY <1>18, CutIs, Records DEF Crash
  <2> QED BY <1>18, <1>0, <2>1, Records DEF Crash
<1>19. CASE UNCHANGED vars
  BY <1>19 DEF vars
<1> QED
  BY <1>1, <1>2, <1>3, <1>4, <1>5, <1>6, <1>7, <1>8, <1>9, <1>10,
     <1>11, <1>12, <1>13, <1>14, <1>15, <1>16, <1>17, <1>18, <1>19 DEF Next, Call, LoadStep

\* Every variable keeps its type; in particular the iteration stays in the list
\* of nodes and the cache file is of one of its four kinds.
THEOREM TypeCorrect == Spec => []TypeOK
<1>1. Init => TypeOK
  <2> SUFFICES ASSUME Init PROVE TypeOK
    OBVIOUS
  <2>0. cache_enabled \in BOOLEAN /\ reliable \in SUBSET Indexes
    BY DEF Init
  <2>1. file \in Files /\ saved \in Endings
    BY Records DEF Init, Endings
  <2>2. 0 \in 0 .. NodeCount /\ 0 \in Indexes
    BY NodeCountAssumption DEF Indexes
  <2>3. /\ published \in Versions \ {0}
        /\ store \in Snapshots
        /\ loaded \in BOOLEAN
    <3>1. published \in Versions \ {0}
      BY LoaderAssumption DEF Init, Versions
    <3>2. store \in Snapshots
      BY Records DEF Init
    <3>3. loaded \in BOOLEAN
      BY DEF Init
    <3> QED BY <3>1, <3>2, <3>3
  <2>4. /\ pc \in [Loads -> Steps]
        /\ last_error \in [Loads -> Errors \cup {"none"}]
        /\ result \in [Loads -> Errors \cup {"none", "ok"}]
    BY DEF Init, Steps
  <2>5. /\ start \in [Loads -> Indexes] /\ next \in [Loads -> 0 .. NodeCount]
        /\ payload \in [Loads -> Snapshots] /\ asked \in [Loads -> Versions]
    BY <2>2, Records DEF Init
  <2> QED BY <2>0, <2>1, <2>3, <2>4, <2>5 DEF TypeOK
<1>2. TypeOK /\ [Next]_vars => TypeOK'
  BY TypeInductive
<1> QED BY <1>1, <1>2, PTL DEF Spec

-----------------------------------------------------------------------------
\* The snapshot is there before the flag says so.
LEMMA SnapshotBeforeFlagInductive ==
    ASSUME TypeOK, SnapshotBeforeFlag, [Next]_vars
    PROVE  SnapshotBeforeFlag'
<1> USE DEF TypeOK, SnapshotBeforeFlag, OkMeansSnapshot, Goto, Return, local, shared, fixed
<1>1. ASSUME NEW l \in Loads, Begin(l) PROVE SnapshotBeforeFlag'
  BY <1>1 DEF Begin
<1>2. ASSUME NEW l \in Loads,
             AlreadyLoaded(l) \/ Abandon(l)
      PROVE  SnapshotBeforeFlag'
  BY <1>2 DEF AlreadyLoaded, Abandon
<1>3. ASSUME NEW l \in Loads, Answer(l) PROVE SnapshotBeforeFlag'
  BY <1>3 DEF Answer
<1>4. ASSUME NEW l \in Loads,
             NodeFails(l) \/ Exhausted(l)
      PROVE  SnapshotBeforeFlag'
  BY <1>4 DEF NodeFails, Exhausted
<1>5. ASSUME NEW l \in Loads, Replace(l) PROVE SnapshotBeforeFlag'
  BY <1>5 DEF Replace
<1>6. ASSUME NEW l \in Loads, MarkLoaded(l) PROVE SnapshotBeforeFlag'
  BY <1>6 DEF MarkLoaded
<1>7. ASSUME NEW l \in Loads,
             SkipCache(l) \/ OpenFails(l)
      PROVE  SnapshotBeforeFlag'
  BY <1>7 DEF SkipCache, OpenFails
<1>8. ASSUME NEW l \in Loads,
             Truncate(l) \/ Write(l) \/ WriteFails(l)
      PROVE  SnapshotBeforeFlag'
  <2>2. file'.kind = "whole" => file'.version # 0
    <3>1. CASE Truncate(l)
      BY <3>1 DEF Truncate, Blank
    <3>2. CASE Write(l)
      BY <3>2, WriteIs DEF Write, Torn, Whole
    <3>3. CASE WriteFails(l)
      <4>1. file'.version \in {file.version, payload[l].version} /\ payload[l].version # 0
        BY <3>3, CutIs, Records DEF WriteFails
      <4>2. file'.kind = "whole" => file' = file \/ file = Torn(payload[l].version)
        BY <3>3, CutIs, Records DEF WriteFails
      <4> QED BY <4>1, <4>2 DEF Torn
    <3> QED BY <1>8, <3>1, <3>2, <3>3
  <2> QED BY <1>8, <2>2 DEF Truncate, Write, WriteFails
<1>9. ASSUME NEW l \in Loads, Notify(l) PROVE SnapshotBeforeFlag'
  BY <1>9 DEF Notify
<1>10. ASSUME NEW l \in Loads, ReadCache(l) PROVE SnapshotBeforeFlag'
  BY <1>10 DEF ReadCache
<1>11. ASSUME NEW l \in Loads, CacheUnavailable(l) PROVE SnapshotBeforeFlag'
  BY <1>11 DEF CacheUnavailable, Errors
<1>12. CASE Publish
  BY <1>12 DEF Publish
<1>13. CASE Crash
  <2>1. file'.kind = "whole" => file'.version # 0
    <3>1. ASSUME NEW l \in Loads, pc[l] = "write", file' \in Cut(file, payload[l].version)
          PROVE  file'.kind = "whole" => file'.version # 0
      <4>1. file'.version \in {file.version, payload[l].version} /\ payload[l].version # 0
        BY <3>1, CutIs, Records
      <4>2. file'.kind = "whole" => file' = file \/ file = Torn(payload[l].version)
        BY <3>1, CutIs, Records
      <4> QED BY <4>1, <4>2 DEF Torn
    <3> QED BY <1>13, <3>1 DEF Crash
  <2> QED BY <1>13, <2>1 DEF Crash
<1>14. CASE UNCHANGED vars
  BY <1>14 DEF vars
<1> QED
  BY <1>1, <1>2, <1>3, <1>4, <1>5, <1>6, <1>7, <1>8, <1>9, <1>10, <1>11, <1>12,
     <1>13, <1>14 DEF Next, Call, LoadStep

\* collect() and load() never report success on the empty snapshot, however
\* many loads overlap and whatever fails.
THEOREM OkHasSnapshot == Spec => []OkMeansSnapshot
<1>1. Init => SnapshotBeforeFlag
  BY DEF Init, SnapshotBeforeFlag, OkMeansSnapshot, EmptySnapshot, Absent, Whole
<1>2. TypeOK /\ SnapshotBeforeFlag /\ [Next]_vars => SnapshotBeforeFlag'
  BY SnapshotBeforeFlagInductive
<1>3. SnapshotBeforeFlag => OkMeansSnapshot
  BY DEF SnapshotBeforeFlag
<1> QED BY <1>1, <1>2, <1>3, TypeCorrect, PTL DEF Spec

-----------------------------------------------------------------------------
\* A load passes over a node only when that node has failed.
LEMMA ReliableAheadInductive ==
    ASSUME TypeOK, ReliableAhead, [Next]_vars
    PROVE  ReliableAhead'
<1> USE DEF TypeOK, ReliableAhead, Goto, local, shared, fixed
<1>1. ASSUME NEW l \in Loads, Begin(l) PROVE ReliableAhead'
  <2>1. \A first : Visited(first, 0) = {}
    BY DEF Visited
  <2> QED BY <1>1, <2>1 DEF Begin
<1>2. ASSUME NEW l \in Loads,
             AlreadyLoaded(l) \/ Abandon(l)
      PROVE  ReliableAhead'
  BY <1>2 DEF AlreadyLoaded, Abandon
<1>3. ASSUME NEW l \in Loads, Answer(l) \/ Exhausted(l) PROVE ReliableAhead'
  BY <1>3 DEF Answer, Exhausted
<1>4. ASSUME NEW l \in Loads, NodeFails(l) PROVE ReliableAhead'
  <2>1. Visited(start[l], next[l] + 1) = Visited(start[l], next[l]) \cup {Node(l)}
    BY <1>4 DEF NodeFails, Visited, Node
  <2> QED BY <1>4, <2>1 DEF NodeFails
<1>5. ASSUME NEW l \in Loads, Replace(l) \/ MarkLoaded(l) PROVE ReliableAhead'
  BY <1>5 DEF Replace, MarkLoaded
<1>6. ASSUME NEW l \in Loads,
             SkipCache(l) \/ Truncate(l) \/ Write(l) \/ OpenFails(l) \/ WriteFails(l)
      PROVE  ReliableAhead'
  BY <1>6 DEF SkipCache, Truncate, Write, OpenFails, WriteFails
<1>7. ASSUME NEW l \in Loads,
             Notify(l) \/ ReadCache(l) \/ CacheUnavailable(l)
      PROVE  ReliableAhead'
  BY <1>7 DEF Notify, ReadCache, CacheUnavailable
<1>8. CASE Publish
  BY <1>8 DEF Publish
<1>9. CASE Crash
  BY <1>9 DEF Crash
<1>10. CASE UNCHANGED vars
  BY <1>10 DEF vars
<1> QED
  BY <1>1, <1>2, <1>3, <1>4, <1>5, <1>6, <1>7, <1>8, <1>9, <1>10 DEF Next,
     Call, LoadStep

\* With a reliable node the iteration is never exhausted.
LEMMA NotExhausted ==
    ASSUME TypeOK, ReliableAhead, reliable # {}, NEW l \in Loads
    PROVE  ~Exhausted(l)
<1> SUFFICES ASSUME Exhausted(l) PROVE FALSE
  OBVIOUS
<1>1. Visited(start[l], NodeCount) \cap reliable = {}
  BY DEF Exhausted, Goto, ReliableAhead
<1>2. PICK node \in Indexes : node \in reliable
  BY DEF TypeOK
<1>3. PICK k \in Indexes : Order(start[l])[k] = node
  BY OrderIsOnto DEF TypeOK
<1>4. node \in Visited(start[l], NodeCount)
  BY <1>3 DEF Visited, Indexes
<1> QED BY <1>1, <1>2, <1>4

\* So the cache stays out of it.
LEMMA CacheUnusedInductive ==
    ASSUME TypeOK, ReliableAhead, CacheUnused, [Next]_vars
    PROVE  CacheUnused'
<1> SUFFICES ASSUME reliable' # {} PROVE CacheUnused'
  BY DEF CacheUnused, OneReliableNodeSuffices
<1> USE DEF TypeOK, CacheUnused, OneReliableNodeSuffices, Errors, EmptySnapshot,
            Goto, Return, local, shared, fixed
<1>1. ASSUME NEW l \in Loads, Begin(l) PROVE CacheUnused'
  BY <1>1 DEF Begin
<1>2. ASSUME NEW l \in Loads, AlreadyLoaded(l) \/ Abandon(l) PROVE CacheUnused'
  BY <1>2 DEF AlreadyLoaded, Abandon
<1>3. ASSUME NEW l \in Loads, Answer(l) \/ NodeFails(l) PROVE CacheUnused'
  BY <1>3 DEF Answer, NodeFails
<1>4. ASSUME NEW l \in Loads, Exhausted(l) PROVE CacheUnused'
  BY <1>4, NotExhausted DEF Exhausted
<1>5. ASSUME NEW l \in Loads, Replace(l) \/ MarkLoaded(l) PROVE CacheUnused'
  BY <1>5 DEF Replace, MarkLoaded
<1>6. ASSUME NEW l \in Loads,
             SkipCache(l) \/ Truncate(l) \/ Write(l) \/ OpenFails(l) \/ WriteFails(l)
      PROVE  CacheUnused'
  BY <1>6 DEF SkipCache, Truncate, Write, OpenFails, WriteFails
<1>7. ASSUME NEW l \in Loads,
             Notify(l) \/ ReadCache(l) \/ CacheUnavailable(l)
      PROVE  CacheUnused'
  BY <1>7 DEF Notify, ReadCache, CacheUnavailable
<1>8. CASE Publish
  BY <1>8 DEF Publish
<1>9. CASE Crash
  BY <1>9 DEF Crash
<1>10. CASE UNCHANGED vars
  BY <1>10 DEF vars
<1> QED
  BY <1>1, <1>2, <1>3, <1>4, <1>5, <1>6, <1>7, <1>8, <1>9, <1>10 DEF Next,
     Call, LoadStep

\* For any number of nodes and loads, wherever the iterations start and whatever
\* the others do, one node that answers keeps every load off the cache and free
\* of errors.
THEOREM OneNodeIsEnough == Spec => []OneReliableNodeSuffices
<1>1. Init => ReliableAhead /\ CacheUnused
  BY DEF Init, ReliableAhead, CacheUnused, OneReliableNodeSuffices, EmptySnapshot,
         Errors
<1>2. TypeOK /\ ReliableAhead /\ CacheUnused /\ [Next]_vars
        => ReliableAhead' /\ CacheUnused'
  BY ReliableAheadInductive, CacheUnusedInductive
<1>3. CacheUnused => OneReliableNodeSuffices
  BY DEF CacheUnused
<1> QED BY <1>1, <1>2, <1>3, TypeCorrect, PTL DEF Spec

-----------------------------------------------------------------------------
\* One load at a time: the snapshot, the file and what the load holds stay in step
\* as long as the disk works, and a failure is remembered in saved.
LEMMA SerialInductive ==
    ASSUME NEW l, Loads = {l}, TypeOK, Serial(l), [Next]_vars
    PROVE  Serial(l)'
<1> USE DEF Serial, LoadIsFresh, Goto, Return, local, shared, fixed
<1> USE DEF TypeOK, Whole
<1>0. /\ published \in Nat /\ MaxVersion \in Nat
      /\ store.version \in Nat /\ store.from_cache \in BOOLEAN
      /\ payload[l].version \in Nat /\ payload[l].from_cache \in BOOLEAN
      /\ file.version \in Nat /\ asked[l] \in Nat
  BY Records, LoaderAssumption DEF Versions
<1>1. CASE Begin(l)
  BY <1>0, <1>1 DEF Begin, EmptySnapshot
<1>2. CASE AlreadyLoaded(l)
  BY <1>0, <1>2 DEF AlreadyLoaded
<1>3. CASE Abandon(l)
  BY <1>0, <1>3 DEF Abandon
<1>4. CASE Answer(l)
  BY <1>0, <1>4 DEF Answer
<1>5. CASE NodeFails(l)
  BY <1>0, <1>5 DEF NodeFails
<1>6. CASE Exhausted(l)
  BY <1>0, <1>6 DEF Exhausted
<1>7. CASE Replace(l)
  BY <1>0, <1>7 DEF Replace
<1>8. CASE MarkLoaded(l)
  BY <1>0, <1>8 DEF MarkLoaded
<1>9. CASE SkipCache(l)
  BY <1>0, <1>9 DEF SkipCache
<1>10. CASE Truncate(l)
  BY <1>0, <1>10 DEF Truncate, Blank
<1>11. CASE Write(l)
  <2>1. file' = Whole(payload[l].version)
    BY <1>11 DEF Write, Longer, Blank
  <2> QED BY <1>0, <1>11, <2>1 DEF Write
<1>12. CASE OpenFails(l)
  BY <1>0, <1>12 DEF OpenFails
<1>13. CASE WriteFails(l)
  <2>1. file' = Blank \/ file' = Torn(payload[l].version)
    BY <1>13 DEF WriteFails, Cut, Longer, Blank, Torn
  <2>2. file'.version <= published
    BY <1>0, <2>1 DEF Blank, Torn
  <2> QED BY <1>0, <1>13, <2>2 DEF WriteFails
<1>14. CASE Notify(l)
  BY <1>0, <1>14 DEF Notify
<1>15. CASE ReadCache(l)
  BY <1>0, <1>15, Records DEF ReadCache
<1>16. CASE CacheUnavailable(l)
  BY <1>0, <1>16 DEF CacheUnavailable, Errors
<1>17. CASE Publish
  BY <1>0, <1>17 DEF Publish
<1>18. CASE Crash
  <2>1. CASE pc[l] # "write"
    BY <1>0, <1>18, <2>1 DEF Crash, EmptySnapshot
  <2>2. CASE pc[l] = "write"
    <3>1. saved' = "killed" /\ (file' = Blank \/ file' = Torn(payload[l].version))
      BY <1>18, <2>2 DEF Crash, Cut, Longer, Blank, Torn
    <3>2. file'.version <= published
      BY <1>0, <3>1 DEF Blank, Torn
    <3> QED BY <1>0, <1>18, <2>2, <3>1, <3>2 DEF Crash, EmptySnapshot
  <2> QED BY <2>1, <2>2
<1>19. CASE UNCHANGED vars
  BY <1>19 DEF vars
<1> QED
  BY <1>1, <1>2, <1>3, <1>4, <1>5, <1>6, <1>7, <1>8, <1>9, <1>10, <1>11, <1>12,
     <1>13, <1>14, <1>15, <1>16, <1>17, <1>18, <1>19 DEF Next, Call, LoadStep

\* Serial is an invariant when loads do not overlap.
LEMMA SerialLoads ==
    ASSUME NEW l, Loads = {l}
    PROVE  Spec => []Serial(l)
<1>1. Init => Serial(l)
  BY DEF Init, Serial, LoadIsFresh, EmptySnapshot, Absent, Whole
<1>2. TypeOK /\ Serial(l) /\ [Next]_vars => Serial(l)'
  BY SerialInductive
<1> QED BY <1>1, <1>2, TypeCorrect, PTL DEF Spec

\* A load that runs alone leaves a snapshot no older than what was published
\* when it was called, whatever the nodes, the disk and crashes do.
THEOREM FreshAlone ==
    ASSUME NEW l, Loads = {l}
    PROVE  Spec => []LoadIsFresh
<1>1. Serial(l) => LoadIsFresh
  BY DEF Serial
<1> QED BY <1>1, SerialLoads, PTL

\* Loads that do not overlap keep the cache equal to the snapshot unless the last
\* write_cache has failed; a write that was killed does not matter once a load has
\* succeeded again.
THEOREM CacheInStepAlone ==
    ASSUME NEW l, Loads = {l}
    PROVE  Spec => []CacheMatchesSnapshot
<1>1. Serial(l) => CacheMatchesSnapshot
  BY DEF Serial, CacheMatchesSnapshot, AtRest
<1> QED BY <1>1, SerialLoads, PTL

\* Loads that do not overlap go back to an older configuration only when they fall
\* back to a cache whose last write has failed.
THEOREM ForwardAlone ==
    ASSUME NEW l, Loads = {l}
    PROVE  Spec => SnapshotNeverRegresses
<1>1. TypeOK /\ Serial(l) /\ [Next]_vars
        => [loaded' => \/ store'.version >= store.version
                       \/ store'.from_cache /\ saved = "failed"]_vars
  <2> SUFFICES ASSUME TypeOK, Serial(l), [Next]_vars, loaded'
               PROVE  \/ store'.version >= store.version
                      \/ store'.from_cache /\ saved = "failed"
    OBVIOUS
  <2>1. store.version \in Nat
    BY Records, LoaderAssumption DEF TypeOK, Versions
  <2>2. CASE Replace(l)
    BY <2>1, <2>2 DEF Replace, Goto, Serial
  <2>3. CASE store' = store
    BY <2>1, <2>3
  <2>4. Crash => FALSE
    BY DEF Crash
  <2> QED
    BY <2>2, <2>3, <2>4
       DEF Next, Call, LoadStep, Begin, AlreadyLoaded, Abandon, Answer, NodeFails,
           Exhausted, MarkLoaded, SkipCache, Truncate, Write, OpenFails, WriteFails,
           Notify, ReadCache, CacheUnavailable, Publish, vars, shared, fixed
<1> QED BY <1>1, SerialLoads, TypeCorrect, PTL DEF Spec, SnapshotNeverRegresses

\* With one load at a time a cached configuration is only lost by a write that fails
\* or is killed: without those it takes two loads that overlap.
THEOREM CacheSurvivesAlone ==
    ASSUME NEW l, Loads = {l}
    PROVE  Spec => []PullSurvives
<1>1. Serial(l) => PullSurvives
  BY DEF Serial, PullSurvives, AtRest
<1> QED BY <1>1, SerialLoads, PTL

-----------------------------------------------------------------------------
\* The iteration is exhausted only after a node has failed.
LEMMA CauseKnownInductive ==
    ASSUME TypeOK, CauseKnown, [Next]_vars
    PROVE  CauseKnown'
<1> USE DEF TypeOK, CauseKnown, NeverLoadFailed, Goto, Return, local, shared, fixed
<1>1. ASSUME NEW l \in Loads, Begin(l) PROVE CauseKnown'
  BY <1>1 DEF Begin
<1>2. ASSUME NEW l \in Loads, AlreadyLoaded(l) \/ Abandon(l) PROVE CauseKnown'
  BY <1>2 DEF AlreadyLoaded, Abandon
<1>3. ASSUME NEW l \in Loads, Answer(l) PROVE CauseKnown'
  BY <1>3 DEF Answer
<1>4. ASSUME NEW l \in Loads, NodeFails(l) PROVE CauseKnown'
  BY <1>4 DEF NodeFails
<1>5. ASSUME NEW l \in Loads, Exhausted(l) PROVE CauseKnown'
  BY <1>5, NodeCountAssumption DEF Exhausted
<1>6. ASSUME NEW l \in Loads, Replace(l) \/ MarkLoaded(l) PROVE CauseKnown'
  BY <1>6 DEF Replace, MarkLoaded
<1>7. ASSUME NEW l \in Loads,
             SkipCache(l) \/ Truncate(l) \/ Write(l) \/ OpenFails(l) \/ WriteFails(l)
      PROVE  CauseKnown'
  BY <1>7 DEF SkipCache, Truncate, Write, OpenFails, WriteFails
<1>8. ASSUME NEW l \in Loads, Notify(l) \/ ReadCache(l) PROVE CauseKnown'
  BY <1>8 DEF Notify, ReadCache
<1>9. ASSUME NEW l \in Loads, CacheUnavailable(l) PROVE CauseKnown'
  BY <1>9 DEF CacheUnavailable
<1>10. CASE Publish
  BY <1>10 DEF Publish
<1>11. CASE Crash
  BY <1>11 DEF Crash
<1>12. CASE UNCHANGED vars
  BY <1>12 DEF vars
<1> QED
  BY <1>1, <1>2, <1>3, <1>4, <1>5, <1>6, <1>7, <1>8, <1>9, <1>10, <1>11, <1>12
     DEF Next, Call, LoadStep

\* With at least one node, which build_options() sees to, no load returns the
\* LoadFailed that its documentation names: there is always a node's error.
THEOREM LoadFailedIsUnreachable == Spec => []NeverLoadFailed
<1>1. Init => CauseKnown
  BY DEF Init, CauseKnown, NeverLoadFailed
<1>2. TypeOK /\ CauseKnown /\ [Next]_vars => CauseKnown'
  BY CauseKnownInductive
<1>3. CauseKnown => NeverLoadFailed
  BY DEF CauseKnown
<1> QED BY <1>1, <1>2, <1>3, TypeCorrect, PTL DEF Spec

-----------------------------------------------------------------------------
\* What loads hold and the file contains has been published.
LEMMA PendingInductive ==
    ASSUME TypeOK, Pending, [Next]_vars
    PROVE  Pending'
<1> USE DEF Pending, Goto, Return, local, shared, fixed
<1>0. /\ published \in Nat /\ file.version \in Nat
      /\ \A l \in Loads : asked[l] \in Nat /\ payload[l].version \in Nat
  BY Records, LoaderAssumption DEF TypeOK, Versions
<1> USE DEF TypeOK
<1>1. ASSUME NEW l \in Loads, Begin(l) PROVE Pending'
  BY <1>0, <1>1 DEF Begin, EmptySnapshot
<1>2. ASSUME NEW l \in Loads, AlreadyLoaded(l) \/ Abandon(l) PROVE Pending'
  BY <1>0, <1>2 DEF AlreadyLoaded, Abandon
<1>3. ASSUME NEW l \in Loads, Answer(l) PROVE Pending'
  BY <1>0, <1>3 DEF Answer
<1>4. ASSUME NEW l \in Loads, NodeFails(l) \/ Exhausted(l) PROVE Pending'
  BY <1>4 DEF NodeFails, Exhausted
<1>5. ASSUME NEW l \in Loads, Replace(l) \/ MarkLoaded(l) PROVE Pending'
  BY <1>5 DEF Replace, MarkLoaded
<1>6. ASSUME NEW l \in Loads, SkipCache(l) \/ OpenFails(l) PROVE Pending'
  BY <1>6 DEF SkipCache, OpenFails
<1>7. ASSUME NEW l \in Loads, Truncate(l) \/ Write(l) \/ WriteFails(l) PROVE Pending'
  <2>1. file'.version \in {0, file.version, payload[l].version}
    <3>1. CASE Truncate(l)
      BY <3>1 DEF Truncate, Blank
    <3>2. CASE Write(l)
      BY <3>2, WriteIs DEF Torn, Whole
    <3>3. CASE WriteFails(l)
      BY <3>3, CutIs, Records DEF WriteFails
    <3> QED BY <1>7, <3>1, <3>2, <3>3
  <2>2. file'.version <= published
    BY <1>0, <2>1
  <2> QED BY <1>7, <2>2 DEF Truncate, Write, WriteFails
<1>8. ASSUME NEW l \in Loads, Notify(l) PROVE Pending'
  BY <1>8 DEF Notify
<1>9. ASSUME NEW l \in Loads, ReadCache(l) PROVE Pending'
  BY <1>9 DEF ReadCache
<1>10. ASSUME NEW l \in Loads, CacheUnavailable(l) PROVE Pending'
  BY <1>10 DEF CacheUnavailable
<1>11. CASE Publish
  BY <1>0, <1>11 DEF Publish
<1>12. CASE Crash
  <2>1. file'.version = file.version \/ \E l \in Loads : file'.version = payload[l].version
    BY <1>12, CutIs, Records DEF Crash
  <2>2. file'.version <= published
    BY <1>0, <2>1
  <2> QED BY <1>0, <1>12, <2>2 DEF Crash, EmptySnapshot
<1>13. CASE UNCHANGED vars
  BY <1>13 DEF vars
<1> QED
  BY <1>1, <1>2, <1>3, <1>4, <1>5, <1>6, <1>7, <1>8, <1>9, <1>10, <1>11, <1>12,
     <1>13 DEF Next, Call, LoadStep

\* A step of one load changes its phase and nobody else's.
LEMMA OnePhase ==
    ASSUME NEW l \in Loads,
           \A k \in Loads \ {l} :
             pc'[k] = pc[k] /\ result'[k] = result[k] /\ asked'[k] = asked[k]
    PROVE  /\ Phases[l] = Phase(l) /\ Since[l] = SinceOf(l)
           /\ Phases' = [Phases EXCEPT ![l] = Phase(l)']
           /\ Since' = [Since EXCEPT ![l] = SinceOf(l)']
           /\ Phase(l)' = Phase(l) => UNCHANGED Phases
           /\ SinceOf(l)' = SinceOf(l) => UNCHANGED Since
<1>1. \A k \in Loads \ {l} : Phase(k)' = Phase(k) /\ SinceOf(k)' = SinceOf(k)
  BY DEF Phase, SinceOf
<1> QED BY <1>1 DEF Phases, Since

\* Every step of the loader is one of LoadService or none.
LEMMA StepServes ==
    ASSUME TypeOK, TypeOK', SnapshotBeforeFlag, CacheUnused, Pending, [Next]_vars
    PROVE  Service!Next \/ UNCHANGED <<reliable, published, store, Phases, Since>>
<1> DEFINE Same == UNCHANGED <<reliable, published, store, Phases, Since>>
<1>0. /\ published \in Nat /\ file.version \in Nat
      /\ \A l \in Loads : asked[l] \in Nat /\ payload[l].version \in Nat
  BY Records, LoaderAssumption DEF TypeOK, Versions
<1> USE DEF TypeOK, Goto, Return, local, shared, fixed
<1>1. ASSUME NEW l \in Loads, Begin(l) PROVE Service!Begin(l)
  BY <1>1, OnePhase DEF Begin, Phase, SinceOf, Service!Begin, Service!Resting
<1>2. ASSUME NEW l \in Loads, AlreadyLoaded(l) PROVE Service!Reuse(l)
  <2>1. store # Service!Nothing
    BY <1>2 DEF AlreadyLoaded, Service!Nothing, SnapshotBeforeFlag, OkMeansSnapshot
  <2>2. Phase(l) \in Service!Resting /\ Phase(l)' = "ok" /\ SinceOf(l)' = SinceOf(l)
    BY <1>2 DEF AlreadyLoaded, Phase, SinceOf, Errors, Service!Resting
  <2> QED BY <1>2, <2>1, <2>2, OnePhase DEF AlreadyLoaded, Service!Reuse
<1>3. ASSUME NEW l \in Loads, Abandon(l) PROVE Service!Rest(l, "idle")
  BY <1>3, OnePhase DEF Abandon, Phase, SinceOf, Pending, Errors, Service!Rest, Service!Resting
<1>4. ASSUME NEW l \in Loads, Answer(l) \/ NodeFails(l) \/ Exhausted(l) \/ ReadCache(l)
      PROVE  Same
  <2>1. Phase(l)' = Phase(l) /\ SinceOf(l)' = SinceOf(l)
    BY <1>4 DEF Answer, NodeFails, Exhausted, ReadCache, Phase, SinceOf
  <2> QED BY <1>4, <2>1, OnePhase DEF Answer, NodeFails, Exhausted, ReadCache
<1>5. ASSUME NEW l \in Loads, Replace(l)
      PROVE  Service!Pull(l) \/ Service!Restore(l)
  <2>1. /\ Phases[l] = "waiting" /\ Since[l] = asked[l]
        /\ Since' = [Since EXCEPT ![l] = 0]
        /\ Phases' = [Phases EXCEPT ![l] = "applied"]
    BY <1>5, OnePhase DEF Replace, Phase, SinceOf
  <2>2. payload[l] = [version |-> payload[l].version, from_cache |-> payload[l].from_cache]
    BY DEF Snapshots
  <2>3. payload[l].version \in 1 .. published
    BY <1>0, <1>5 DEF Replace, Pending, SnapshotBeforeFlag
  <2>4. CASE payload[l].from_cache
    BY <1>5, <2>1, <2>2, <2>3, <2>4 DEF Replace, CacheUnused, Service!Restore
  <2>5. CASE ~payload[l].from_cache
    <3>1. payload[l].version \in asked[l] .. published
      BY <1>0, <1>5, <2>3, <2>5 DEF Replace, Pending
    <3>2. payload[l].from_cache = FALSE
      BY <2>5, Records
    <3> QED BY <1>5, <2>1, <2>2, <3>1, <3>2 DEF Replace, Service!Pull
  <2> QED BY <2>4, <2>5
<1>6. ASSUME NEW l \in Loads, MarkLoaded(l) PROVE Service!Rest(l, "ok") \/ Same
  <2>1. CASE payload[l].from_cache
    BY <1>6, <2>1, OnePhase DEF MarkLoaded, Phase, SinceOf, Errors, Service!Rest
  <2>2. CASE ~payload[l].from_cache
    BY <1>6, <2>2, OnePhase DEF MarkLoaded, Phase, SinceOf
  <2> QED BY <2>1, <2>2
<1>7. ASSUME NEW l \in Loads,
             SkipCache(l) \/ Truncate(l) \/ Write(l) \/ OpenFails(l) \/ WriteFails(l)
      PROVE  Same
  <2>1. Phase(l)' = Phase(l) /\ SinceOf(l)' = SinceOf(l)
    BY <1>7 DEF SkipCache, Truncate, Write, OpenFails, WriteFails, Phase, SinceOf
  <2> QED BY <1>7, <2>1, OnePhase DEF SkipCache, Truncate, Write, OpenFails, WriteFails
<1>8. ASSUME NEW l \in Loads, Notify(l) PROVE Service!Rest(l, "ok")
  BY <1>8, OnePhase DEF Notify, Phase, SinceOf, Errors, Service!Rest
<1>9. ASSUME NEW l \in Loads, CacheUnavailable(l) PROVE Service!Rest(l, "failed")
  BY <1>9, OnePhase DEF CacheUnavailable, Phase, SinceOf, Errors, CacheUnused,
     OneReliableNodeSuffices, Service!Rest
<1>10. ASSUME Publish PROVE Service!Publish
  <2>1. UNCHANGED <<Phases, Since>>
    BY <1>10 DEF Publish, Phases, Since, SinceOf, Phase
  <2> QED BY <1>10, <2>1 DEF Publish, Service!Publish
<1>11. ASSUME Crash PROVE Service!Restart
  <2>1. /\ Phases' = [l \in Loads |-> "idle"]
        /\ Since' = [l \in Loads |-> 0]
    BY <1>11 DEF Crash, Phases, Since, SinceOf, Phase, Errors
  <2> QED BY <1>11, <2>1 DEF Crash, EmptySnapshot, Service!Restart, Service!Nothing
<1>12. CASE UNCHANGED vars
  BY <1>12 DEF vars, Phases, Since, SinceOf, Phase
<1> QED
  BY <1>1, <1>2, <1>3, <1>4, <1>5, <1>6, <1>7, <1>8, <1>9, <1>10, <1>11, <1>12
     DEF Next, Call, LoadStep, Service!Next, Service!Resting

\* Overlapping loads, failing nodes, a failing disk, crashes and dropped calls
\* included: every load is one replacement of the snapshot, by a configuration
\* at least as new as the call unless no node has to answer.
THEOREM LoaderImplementsLoadService == Spec => ImplementsLoadService
<1>1. Init => Service!Init
  BY DEF Init, Service!Init, Service!Nothing, EmptySnapshot, Phases, Since, SinceOf,
         Phase, Errors
<1>2. TypeOK /\ TypeOK' /\ SnapshotBeforeFlag /\ CacheUnused /\ Pending /\ [Next]_vars
        => [Service!Next]_(Service!svars)
  BY StepServes DEF Service!svars
<1>3. Init => SnapshotBeforeFlag /\ ReliableAhead /\ CacheUnused
  BY DEF Init, SnapshotBeforeFlag, OkMeansSnapshot, EmptySnapshot, Absent, Whole,
         ReliableAhead, CacheUnused, OneReliableNodeSuffices, Errors
<1>4. Init => Pending
  BY DEF Init, Pending, EmptySnapshot, Absent, Whole
<1>5. /\ TypeOK /\ SnapshotBeforeFlag /\ [Next]_vars => SnapshotBeforeFlag'
      /\ TypeOK /\ ReliableAhead /\ CacheUnused /\ [Next]_vars
           => ReliableAhead' /\ CacheUnused'
      /\ TypeOK /\ Pending /\ [Next]_vars => Pending'
  BY SnapshotBeforeFlagInductive, ReliableAheadInductive, CacheUnusedInductive,
     PendingInductive
<1> QED
  BY <1>1, <1>2, <1>3, <1>4, <1>5, TypeCorrect, PTL
     DEF Spec, ImplementsLoadService, Service!Spec
-----------------------------------------------------------------------------
\* A load called after the last publication pulls what was published then, so it
\* puts back the same version.
LEMMA NewestStep ==
    ASSUME TypeOK, Pending, CacheUnused, Unrivalled, [Next]_vars
    PROVE  Unrivalled' \/ published' # published \/ store' = EmptySnapshot
<1> USE DEF TypeOK, Unrivalled, Goto, Return, local, shared, fixed
<1>0. published \in Nat /\ \A l \in Loads : asked[l] \in Nat /\ payload[l].version \in Nat
  BY Records, LoaderAssumption DEF Versions
<1>1. ASSUME NEW l \in Loads, Begin(l) \/ AlreadyLoaded(l) \/ Abandon(l) PROVE Unrivalled'
  BY <1>1 DEF Begin, AlreadyLoaded, Abandon
<1>2. ASSUME NEW l \in Loads, Answer(l) \/ NodeFails(l) \/ Exhausted(l) PROVE Unrivalled'
  BY <1>2 DEF Answer, NodeFails, Exhausted
<1>3. ASSUME NEW l \in Loads, Replace(l) PROVE Unrivalled'
  <2>1. ~payload[l].from_cache /\ asked[l] = published
    BY <1>3 DEF Replace, CacheUnused
  <2>2. published <= payload[l].version /\ payload[l].version <= published
    BY <1>3, <2>1 DEF Replace, Pending
  <2>3. payload[l].version = published
    BY <1>0, <2>2
  <2> QED BY <1>3, <2>3 DEF Replace
<1>4. ASSUME NEW l \in Loads,
             \/ MarkLoaded(l) \/ SkipCache(l) \/ Truncate(l) \/ Write(l)
             \/ OpenFails(l) \/ WriteFails(l) \/ Notify(l)
      PROVE  Unrivalled'
  BY <1>4 DEF MarkLoaded, SkipCache, Truncate, Write, OpenFails, WriteFails, Notify
<1>5. ASSUME NEW l \in Loads, ReadCache(l) \/ CacheUnavailable(l) PROVE FALSE
  BY <1>5 DEF ReadCache, CacheUnavailable, CacheUnused, OneReliableNodeSuffices
<1>6. CASE Publish
  BY <1>0, <1>6 DEF Publish
<1>7. CASE Crash
  BY <1>7 DEF Crash
<1>8. CASE UNCHANGED vars
  BY <1>8 DEF vars
<1> QED
  BY <1>1, <1>2, <1>3, <1>4, <1>5, <1>6, <1>7, <1>8 DEF Next, Call, LoadStep

\* For any number of loads and nodes, overlapping loads only bring back an older
\* configuration when one of them was called before the last publication.
THEOREM NewestStaysInPlace == Spec => NewestStays
<1>1. Init => ReliableAhead /\ CacheUnused
  BY DEF Init, ReliableAhead, CacheUnused, OneReliableNodeSuffices, EmptySnapshot,
         Errors
<1>2. Init => Pending
  BY DEF Init, Pending, EmptySnapshot, Absent, Whole
<1>3. /\ TypeOK /\ ReliableAhead /\ CacheUnused /\ [Next]_vars
           => ReliableAhead' /\ CacheUnused'
      /\ TypeOK /\ Pending /\ [Next]_vars => Pending'
  BY ReliableAheadInductive, CacheUnusedInductive, PendingInductive
<1>4. TypeOK /\ Pending /\ CacheUnused /\ [Next]_vars
        => [Unrivalled => Unrivalled' \/ published' # published \/ store' = EmptySnapshot]_vars
  BY NewestStep
<1> QED BY <1>1, <1>2, <1>3, <1>4, TypeCorrect, PTL DEF Spec, NewestStays
=============================================================================
