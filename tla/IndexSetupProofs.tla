--------------------------- MODULE IndexSetupProofs ---------------------------
(***************************************************************************)
(* That a worker which serves has its indexes, for any set of workers.     *)
(***************************************************************************)
EXTENDS IndexSetup, TLAPS

\* The collection and the indexes only grow, and only the step of worker w
\* changes where w is and what it has skipped.
Grows ==
  /\ collection => collection'
  /\ indexes \subseteq indexes'
  /\ taken' = taken

Alone(w) ==
  \A v \in Worker \ {w} : phase'[v] = phase[v] /\ skipped'[v] = skipped[v]

\* IndexInv of one worker: what it has passed is there, or skipped.
HasPassed(w) ==
  /\ phase[w] \notin {"stopped", "failed", "list_collections", "create_collection"} => collection
  /\ Passed(w) \ skipped[w] \subseteq indexes \cup taken

-----------------------------------------------------------------------------
(* The variables keep their types: each step of a worker moves it to one of *)
(* its phases and skips or adds indexes that the code defines.             *)
LEMMA TypeStep == TypeOK /\ [Next]_vars => TypeOK'
<1> SUFFICES ASSUME TypeOK, [Next]_vars PROVE TypeOK'
  OBVIOUS
<1> USE DEF TypeOK, Phase, Waiting, Uncaught, Standard, Index, Goes, Skips, Made, database
<1>1. ASSUME NEW w \in Worker, Start(w) \/ Stop(w) PROVE TypeOK'
  BY <1>1 DEF Start, Stop
<1>2. ASSUME NEW w \in Worker, ListCollections(w) PROVE TypeOK'
  BY <1>2 DEF ListCollections
<1>3. ASSUME NEW w \in Worker, CreateCollection(w) PROVE TypeOK'
  <2>1. phase' \in [Worker -> Phase] /\ skipped' \in [Worker -> SUBSET Index]
    BY <1>3 DEF CreateCollection
  <2>2. collection' \in BOOLEAN /\ search' \in BOOLEAN /\ reachable' \in BOOLEAN
    BY <1>3, Zenon DEF CreateCollection
  <2>3. indexes' \in SUBSET Index /\ taken' \in SUBSET Index /\ refuses' \in SUBSET Uncaught
    BY <1>3 DEF CreateCollection
  <2> QED
    BY <2>1, <2>2, <2>3
<1>4. ASSUME NEW w \in Worker, NEW i \in Standard, CreateIndex(w, i) PROVE TypeOK'
  <2>1. After(i) \in Phase
    BY DEF After
  <2>2. phase' \in [Worker -> Phase]
    BY <1>4, <2>1 DEF CreateIndex
  <2>3. skipped' = skipped \/ Skips(w, i)
    BY <1>4, Zenon DEF CreateIndex
  <2>4. skipped' \in [Worker -> SUBSET Index]
    BY <2>3
  <2>5. indexes' \in SUBSET Index
    BY <1>4 DEF CreateIndex
  <2> QED
    BY <1>4, <2>2, <2>4, <2>5 DEF CreateIndex
<1>5. ASSUME NEW w \in Worker, ListSearchIndexes(w) PROVE TypeOK'
  BY <1>5 DEF ListSearchIndexes
<1>6. ASSUME NEW w \in Worker, CreateSearchIndex(w) PROVE TypeOK'
  BY <1>6 DEF CreateSearchIndex
<1>7. ASSUME NEW w \in Worker, LoseConnection(w) PROVE TypeOK'
  <2>1. phase' \in [Worker -> Phase] /\ skipped' \in [Worker -> SUBSET Index]
    BY <1>7 DEF LoseConnection
  <2>2. collection' \in BOOLEAN
    BY <1>7, Zenon DEF LoseConnection
  <2>3. search' \in BOOLEAN /\ reachable' \in BOOLEAN
    BY <1>7, Zenon DEF LoseConnection
  <2>4. indexes' \in SUBSET Index /\ taken' \in SUBSET Index /\ refuses' \in SUBSET Uncaught
    BY <1>7 DEF LoseConnection
  <2> QED
    BY <2>1, <2>2, <2>3, <2>4
<1>8. CASE Reach
  <2>1. reachable' \in BOOLEAN
    BY <1>8, Zenon DEF Reach
  <2> QED
    BY <1>8, <2>1 DEF Reach
<1>9. CASE Refuse
  BY <1>9 DEF Refuse
<1>10. CASE UNCHANGED vars
  BY <1>10 DEF vars
<1> QED
  BY <1>1, <1>2, <1>3, <1>4, <1>5, <1>6, <1>7, <1>8, <1>9, <1>10 DEF Next, Answer

-----------------------------------------------------------------------------
(* The other workers take nothing away from a worker.                      *)
LEMMA OthersKeep ==
  ASSUME IndexInv, Grows, NEW w \in Worker, Alone(w), HasPassed(w)'
  PROVE  IndexInv'
<1> SUFFICES ASSUME NEW v \in Worker PROVE HasPassed(v)'
  BY DEF IndexInv, HasPassed
<1>1. CASE v = w
  BY <1>1
<1>2. CASE v # w
  <2>1. phase'[v] = phase[v] /\ skipped'[v] = skipped[v]
    BY <1>2 DEF Alone
  <2>2. Passed(v)' = Passed(v)
    BY <2>1 DEF Passed
  <2>3. HasPassed(v)
    BY DEF IndexInv, HasPassed
  <2> QED
    BY <2>1, <2>2, <2>3 DEF HasPassed, Grows
<1> QED
  BY <1>1, <1>2

(* Every step keeps IndexInv: one step of the proof for each call.         *)
LEMMA IndexStep == TypeOK /\ IndexInv /\ [Next]_vars => IndexInv'
<1> SUFFICES ASSUME TypeOK, IndexInv, [Next]_vars PROVE IndexInv'
  OBVIOUS
<1>1. ASSUME NEW w \in Worker, Start(w) \/ Stop(w) \/ Answer(w) \/ LoseConnection(w)
      PROVE  IndexInv'
  <2>1. HasPassed(w)
    BY DEF IndexInv, HasPassed
  <2>2. Grows
    <3>1. ASSUME NEW i \in Standard, CreateIndex(w, i) PROVE Grows
      BY <3>1 DEF CreateIndex, Made, Grows
    <3>2. CASE CreateCollection(w)
      <4>1. collection => collection'
        BY <3>2, Zenon DEF CreateCollection
      <4> QED
        BY <3>2, <4>1 DEF CreateCollection, Grows
    <3>3. CASE LoseConnection(w)
      <4>1. collection => collection'
        BY <3>3, Zenon DEF LoseConnection, TypeOK
      <4>2. indexes \subseteq indexes' /\ taken' = taken
        BY <3>3 DEF LoseConnection, Made
      <4> QED
        BY <4>1, <4>2 DEF Grows
    <3>4. CASE CreateSearchIndex(w)
      BY <3>4 DEF CreateSearchIndex, Made, Grows
    <3> QED
      BY <1>1, <3>1, <3>2, <3>3, <3>4
      DEF Grows, Answer, Start, Stop, ListCollections, ListSearchIndexes, database
  <2>3. Alone(w)
    BY <1>1 DEF Alone, TypeOK, Goes, Skips, Answer, Start, Stop, ListCollections,
      CreateCollection, CreateIndex, ListSearchIndexes, CreateSearchIndex, LoseConnection
  <2>4. HasPassed(w)'
    <3> USE <2>1, <2>2 DEF HasPassed, Passed, TypeOK, Goes, Skips, Made, Standard, Index, Grows
    <3>1. CASE Start(w) \/ Stop(w)
      BY <3>1 DEF Start, Stop
    <3>2. CASE ListCollections(w)
      BY <3>2 DEF ListCollections, database
    <3>3. CASE CreateCollection(w)
      BY <3>3 DEF CreateCollection
    <3>4. ASSUME NEW i \in Standard, CreateIndex(w, i) PROVE HasPassed(w)'
      <4>1. CASE i = "file_path_idx"
        BY <3>4, <4>1 DEF CreateIndex, After
      <4>2. CASE i = "file_path_chunk_idx"
        BY <3>4, <4>2 DEF CreateIndex, After
      <4> QED
        BY <4>1, <4>2
    <3>5. CASE ListSearchIndexes(w)
      BY <3>5 DEF ListSearchIndexes, database
    <3>6. CASE CreateSearchIndex(w)
      BY <3>6 DEF CreateSearchIndex
    <3>7. CASE LoseConnection(w)
      BY <3>7 DEF LoseConnection, Waiting
    <3> QED
      BY <1>1, <3>1, <3>2, <3>3, <3>4, <3>5, <3>6, <3>7 DEF Answer
  <2> QED
    BY <2>2, <2>3, <2>4, OthersKeep
<1>2. CASE Reach
  BY <1>2 DEF Reach, IndexInv, Passed
<1>3. CASE Refuse
  BY <1>3 DEF Refuse, IndexInv, Passed
<1>4. CASE UNCHANGED vars
  BY <1>4 DEF vars, database, IndexInv, Passed
<1> QED
  BY <1>1, <1>2, <1>3, <1>4 DEF Next

-----------------------------------------------------------------------------
(* Every variable of IndexSetup keeps its type, and what a worker has      *)
(* passed in ensure_collection_indexes is there or was skipped.            *)
THEOREM SetupInvariance == Spec => [](TypeOK /\ IndexInv)
<1>1. Init => TypeOK
  <2> SUFFICES ASSUME Init PROVE TypeOK
    OBVIOUS
  <2>1. taken \in SUBSET Index
    BY DEF Init, Index
  <2> QED
    BY <2>1 DEF Init, TypeOK, Phase
<1>2. Init => IndexInv
  BY DEF Init, IndexInv, Passed
<1> QED
  BY <1>1, <1>2, TypeStep, IndexStep, PTL DEF Spec

(* A worker of the AI service that serves has the collection and every     *)
(* index it has not logged as skipped, however many workers start at once. *)
THEOREM Indexed == Spec => []ServingIndexed
<1>1. IndexInv => ServingIndexed
  BY DEF IndexInv, ServingIndexed, Passed
<1> QED
  BY <1>1, SetupInvariance, PTL
=============================================================================
