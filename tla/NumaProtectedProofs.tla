------------------------- MODULE NumaProtectedProofs -------------------------
(***************************************************************************)
(* Proofs about NumaProtected, for any number of nodes, readers, updaters  *)
(* and calls, any thresholds and any queue capacity: the NUMA variant of   *)
(* the class keeps to the update protocol, to the memory side and to the   *)
(* epochs; its nodes agree; on one node readers are protected; without     *)
(* NUMA support it is RcuProtected.                                        *)
(***************************************************************************)
EXTENDS NumaProtected, FiniteSetTheorems, TLAPS

\* The theorems about the update protocol.
Proto == INSTANCE UpdateProtocolProofs

\* What a callback leaves in the object.
Contents == (SUBSET (Protocol!Updates \cup {NoUpdate})) \ {Garbage}

-----------------------------------------------------------------------------
(* The memory side: each part of its inductive invariant is kept by every  *)
(* step, from the parts named in the lemma.                                *)

LEMMA MemoryCases ==
  ASSUME Reclamation!Next, NEW P,
    ASSUME NEW r \in Readers, Reclamation!LoadEpoch(r) PROVE P,
    ASSUME NEW r \in Readers, Reclamation!StoreMark(r) PROVE P,
    ASSUME NEW r \in Readers, NEW i \in Reclamation!Nodes, Reclamation!LoadPtr(r, i)
    PROVE P,
    ASSUME NEW r \in Readers, Reclamation!Unlock(r) PROVE P,
    ASSUME NEW t \in Updaters, Reclamation!NoUpdater, NEW o \in Objects,
           NEW i \in Reclamation!Nodes, Reclamation!GetCopy(t, o, i)
    PROVE P,
    ASSUME NEW t \in Updaters, NEW v \in Contents, Reclamation!Apply(t, v) PROVE P,
    ASSUME NEW t \in Updaters, Reclamation!Exchange(t) PROVE P,
    ASSUME NEW t \in Updaters, Reclamation!Retire(t) PROVE P,
    ASSUME NEW t \in Updaters, NEW r \in Readers, Reclamation!SkipReader(t, r) PROVE P,
    ASSUME NEW t \in Updaters, NEW r \in Readers, Reclamation!FindReader(t, r) PROVE P,
    ASSUME NEW t \in Updaters, Reclamation!Reclaim(t) PROVE P,
    ASSUME NEW t \in Updaters, Reclamation!AdvanceEpoch(t) PROVE P
  PROVE P
BY DEF Reclamation!Next, Reclamation!ReaderStep, Reclamation!UpdaterStep,
       Reclamation!RetireStep, Contents

\* What the end of retire does to the loop over the nodes.
LEMMA LeaveTypes ==
  ASSUME Reclamation!TypeOK, NEW t \in Updaters, Reclamation!LeaveRetire(t)
  PROVE  /\ phase' = [phase EXCEPT ![t] = phase'[t]] /\ phase'[t] \in {"idle", "exchange"}
         /\ node' = [node EXCEPT ![t] = node'[t]] /\ node'[t] \in Reclamation!Nodes
<1>1. /\ phase' = [phase EXCEPT ![t] = IF node[t] = maxNode THEN "idle" ELSE "exchange"]
      /\ node' = [node EXCEPT ![t] = IF node[t] = maxNode THEN 0 ELSE node[t] + 1]
  BY DEF Reclamation!LeaveRetire, Reclamation!Leave
<1>2. /\ phase \in [Updaters -> {"idle", "private", "exchange", "retire", "scan", "advance"}]
      /\ node \in [Updaters -> 0..maxNode] /\ maxNode \in Nat
  BY NumaAssumption DEF Reclamation!TypeOK, Reclamation!Nodes
<1>3. node[t] \in 0..maxNode /\ (node[t] # maxNode => node[t] + 1 \in 0..maxNode)
  BY <1>2
<1>4. node'[t] \in 0..maxNode
  BY <1>1, <1>2, <1>3
<1> QED BY <1>1, <1>2, <1>4 DEF Reclamation!Nodes

\* Lists with an entry more or less.
LEMMA AddEntry ==
  ASSUME NEW list \in [Objects -> Nat], NEW o
  PROVE  [list EXCEPT ![o] = @ + 1] \in [Objects -> Nat]
<1> SUFFICES ASSUME o \in Objects PROVE list[o] + 1 \in Nat
  OBVIOUS
<1> QED OBVIOUS

LEMMA TakeEntry ==
  ASSUME NEW list \in [Objects -> Nat], NEW o, list[o] > 0
  PROVE  [list EXCEPT ![o] = @ - 1] \in [Objects -> Nat]
<1> SUFFICES ASSUME o \in Objects PROVE list[o] - 1 \in Nat
  OBVIOUS
<1> QED OBVIOUS

LEMMA TypeStep ==
  ASSUME Reclamation!TypeOK, Reclamation!PhasesAreTrue, Reclamation!Next
  PROVE  Reclamation!TypeOK'
<1>0. UNCHANGED <<isNumaAvailable, maxNode, hardwareConcurrency>> /\ maxNode \in Nat
  BY NumaAssumption DEF Reclamation!Next, Reclamation!machine, Reclamation!TypeOK
<1>a. Reclamation!prev \in 0..1 /\ Reclamation!Epochs = 0..1
  BY DEF Reclamation!TypeOK, Reclamation!prev, Reclamation!Epochs
<1>b. \A t \in Updaters : Reclamation!LeaveRetire(t) =>
        /\ phase' \in [Updaters -> {"idle", "private", "exchange", "retire", "scan", "advance"}]
        /\ node' \in [Updaters -> Reclamation!Nodes]
  <2> TAKE t \in Updaters
  <2> HAVE Reclamation!LeaveRetire(t)
  <2>1. /\ phase' = [phase EXCEPT ![t] = phase'[t]] /\ phase'[t] \in {"idle", "exchange"}
        /\ node' = [node EXCEPT ![t] = node'[t]] /\ node'[t] \in Reclamation!Nodes
    BY LeaveTypes
  <2>2. /\ phase \in [Updaters -> {"idle", "private", "exchange", "retire", "scan", "advance"}]
        /\ node \in [Updaters -> Reclamation!Nodes]
    BY DEF Reclamation!TypeOK
  <2> HIDE DEF Reclamation!Nodes
  <2> QED BY <1>0, <2>1, <2>2
<1> USE <1>0
    DEF Contents, Reclamation!TypeOK, Reclamation!Nodes, Reclamation!Epochs,
        Reclamation!Counters!TypeOK, Reclamation!Counters!Bytes,
        Reclamation!Counters!Epochs, Reclamation!Counters!NoCall,
        Reclamation!Counters!EpochReading, Reclamation!objectVars, Reclamation!counterVars,
        Reclamation!readerVars, Reclamation!updaterVars, Reclamation!At
<1>1. ASSUME NEW r \in Readers, Reclamation!LoadEpoch(r)
      PROVE  Reclamation!TypeOK'
  BY <1>1 DEF Reclamation!LoadEpoch
<1>2. ASSUME NEW r \in Readers, Reclamation!StoreMark(r)
      PROVE  Reclamation!TypeOK'
  BY <1>2 DEF Reclamation!StoreMark, Reclamation!Counters!Increment
<1>3. ASSUME NEW r \in Readers, NEW i \in Reclamation!Nodes, Reclamation!LoadPtr(r, i)
      PROVE  Reclamation!TypeOK'
  BY <1>3 DEF Reclamation!LoadPtr
<1>4. ASSUME NEW r \in Readers, Reclamation!Unlock(r)
      PROVE  Reclamation!TypeOK'
  BY <1>4 DEF Reclamation!Unlock, Reclamation!Counters!Decrement
<1>5. ASSUME NEW t \in Updaters, Reclamation!NoUpdater, NEW o \in Objects,
             NEW i \in Reclamation!Nodes, Reclamation!GetCopy(t, o, i)
      PROVE  Reclamation!TypeOK'
  <2>1. heap' \subseteq Objects /\ finished' \in [Reclamation!Nodes -> [Objects -> Nat]]
    <3>1. CASE heap' = heap \ {o} /\ UNCHANGED finished
      BY <3>1
    <3>2. CASE /\ o \in Reclamation!Listed(finished[i])
               /\ finished' = [finished EXCEPT ![i][o] = @ - 1] /\ UNCHANGED heap
      <4>1. finished[i] \in [Objects -> Nat] /\ finished[i][o] > 0
        BY <3>2 DEF Reclamation!Listed
      <4>2. [finished[i] EXCEPT ![o] = @ - 1] \in [Objects -> Nat]
        BY <4>1, TakeEntry
      <4>3. finished' = [finished EXCEPT ![i] = [finished[i] EXCEPT ![o] = @ - 1]]
        BY <3>2
      <4> QED BY <3>2, <4>2, <4>3
    <3> QED BY <1>5, <3>1, <3>2 DEF Reclamation!GetCopy
  <2>2. value' \in [Objects -> Contents \cup {Garbage}]
    <3>1. \E w \in Contents \cup {Garbage} : value' = [value EXCEPT ![o] = w]
      BY <1>5 DEF Reclamation!GetCopy
    <3> QED BY <3>1
  <2>3. /\ copied' \in [Updaters -> Objects \cup {Null}]
        /\ phase' \in [Updaters -> {"idle", "private", "exchange", "retire", "scan", "advance"}]
    BY <1>5 DEF Reclamation!GetCopy
  <2> QED BY <1>5, <2>1, <2>2, <2>3 DEF Reclamation!GetCopy
<1>6. ASSUME NEW t \in Updaters, NEW v \in Contents, Reclamation!Apply(t, v)
      PROVE  Reclamation!TypeOK'
  BY <1>6 DEF Reclamation!Apply
<1>7. ASSUME NEW t \in Updaters, Reclamation!Exchange(t)
      PROVE  Reclamation!TypeOK'
  BY <1>7 DEF Reclamation!Exchange, Reclamation!PhasesAreTrue
<1>8. ASSUME NEW t \in Updaters, Reclamation!Retire(t)
      PROVE  Reclamation!TypeOK'
  <2> DEFINE i == node[t]
             list == [retireLists[i][epoch] EXCEPT ![old[t]] = @ + 1]
  <2>1. /\ retireLists' = [retireLists EXCEPT ![i][epoch] = list]
        /\ old' = [old EXCEPT ![t] = Null]
    BY <1>8 DEF Reclamation!Retire, Reclamation!Push
  <2>2. list \in [Objects -> Nat] /\ i \in 0..maxNode /\ epoch \in 0..1
    <3>1. retireLists[i][epoch] \in [Objects -> Nat] /\ i \in 0..maxNode /\ epoch \in 0..1
      OBVIOUS
    <3> QED BY <3>1, AddEntry
  <2>3. retireLists' \in [Reclamation!Nodes -> [Reclamation!Epochs -> [Objects -> Nat]]]
    BY <2>1, <2>2
  <2>4. old' \in [Updaters -> Objects \cup {Null}]
    BY <2>1
  <2>5. CASE Reclamation!LeaveRetire(t) /\ UNCHANGED Reclamation!counterVars
    BY <1>8, <1>b, <2>3, <2>4, <2>5 DEF Reclamation!Retire, Reclamation!Push
  <2>6. CASE /\ Reclamation!Counters!ScanBegin(t, Reclamation!prev)
             /\ phase' = [phase EXCEPT ![t] = "scan"] /\ UNCHANGED node
    <3>1. /\ scanned' = [scanned EXCEPT ![t] = Reclamation!prev]
          /\ unscanned' = [unscanned EXCEPT ![t] = Readers]
          /\ UNCHANGED epochReading
      BY <2>6 DEF Reclamation!Counters!ScanBegin
    <3>2. Reclamation!Counters!TypeOK'
      BY <1>a, <3>1
    <3>3. phase' \in [Updaters -> {"idle", "private", "exchange", "retire", "scan", "advance"}]
      BY <2>6
    <3> QED
      BY <1>8, <2>3, <2>4, <2>6, <3>2, <3>3 DEF Reclamation!Retire, Reclamation!Push
  <2> QED BY <1>8, <2>5, <2>6 DEF Reclamation!Retire, Reclamation!Push
<1>9. ASSUME NEW t \in Updaters, NEW r \in Readers, Reclamation!SkipReader(t, r)
      PROVE  Reclamation!TypeOK'
  BY <1>9 DEF Reclamation!SkipReader, Reclamation!Counters!ScanMiss
<1>10. ASSUME NEW t \in Updaters, NEW r \in Readers, Reclamation!FindReader(t, r)
      PROVE  Reclamation!TypeOK'
  BY <1>10, <1>b DEF Reclamation!FindReader, Reclamation!Counters!ScanHit
<1>11. ASSUME NEW t \in Updaters, Reclamation!Reclaim(t)
      PROVE  Reclamation!TypeOK'
  <2> DEFINE i == node[t]
  <2>1. /\ finished' = [finished EXCEPT ![i] = retireLists[i][Reclamation!prev]]
        /\ retireLists' = [retireLists EXCEPT ![i][Reclamation!prev] = Reclamation!EmptyList]
        /\ heap' = heap \cup Reclamation!Listed(finished[i])
    BY <1>11 DEF Reclamation!Reclaim, Reclamation!TakeList
  <2>2. /\ i \in 0..maxNode /\ Reclamation!EmptyList \in [Objects -> Nat]
        /\ retireLists[i][Reclamation!prev] \in [Objects -> Nat]
    BY <1>a DEF Reclamation!EmptyList
  <2>3. finished' \in [Reclamation!Nodes -> [Objects -> Nat]] /\ heap' \subseteq Objects
    BY <2>1, <2>2 DEF Reclamation!Listed
  <2>4. retireLists' \in [Reclamation!Nodes -> [Reclamation!Epochs -> [Objects -> Nat]]]
    BY <2>1, <2>2
  <2> QED
    BY <1>11, <2>3, <2>4
    DEF Reclamation!Reclaim, Reclamation!TakeList, Reclamation!Counters!ScanClear
<1>12. ASSUME NEW t \in Updaters, Reclamation!AdvanceEpoch(t)
      PROVE  Reclamation!TypeOK'
  BY <1>12, <1>a, <1>b DEF Reclamation!AdvanceEpoch
<1> QED
  BY <1>1, <1>2, <1>3, <1>4, <1>5, <1>6, <1>7, <1>8, <1>9, <1>10, <1>11, <1>12,
     MemoryCases

LEMMA OneUpdaterStep ==
  ASSUME Reclamation!TypeOK, Reclamation!OneUpdater, Reclamation!Next
  PROVE  Reclamation!OneUpdater'
<1>0. phase \in [Updaters -> {"idle", "private", "exchange", "retire", "scan", "advance"}]
  BY DEF Reclamation!TypeOK
<1> USE <1>0 DEF Reclamation!OneUpdater, Reclamation!At, Reclamation!updaterVars
<1>1. ASSUME NEW r \in Readers, Reclamation!LoadEpoch(r)
      PROVE  Reclamation!OneUpdater'
  BY <1>1 DEF Reclamation!LoadEpoch
<1>2. ASSUME NEW r \in Readers, Reclamation!StoreMark(r)
      PROVE  Reclamation!OneUpdater'
  BY <1>2 DEF Reclamation!StoreMark, Reclamation!Counters!Increment
<1>3. ASSUME NEW r \in Readers, NEW i \in Reclamation!Nodes, Reclamation!LoadPtr(r, i)
      PROVE  Reclamation!OneUpdater'
  BY <1>3 DEF Reclamation!LoadPtr
<1>4. ASSUME NEW r \in Readers, Reclamation!Unlock(r)
      PROVE  Reclamation!OneUpdater'
  BY <1>4 DEF Reclamation!Unlock, Reclamation!Counters!Decrement
<1>5. ASSUME NEW t \in Updaters, Reclamation!NoUpdater, NEW o \in Objects,
             NEW i \in Reclamation!Nodes, Reclamation!GetCopy(t, o, i)
      PROVE  Reclamation!OneUpdater'
  BY <1>5 DEF Reclamation!GetCopy, Reclamation!NoUpdater
<1>6. ASSUME NEW t \in Updaters, NEW v \in Contents, Reclamation!Apply(t, v)
      PROVE  Reclamation!OneUpdater'
  BY <1>6 DEF Reclamation!Apply
<1>7. ASSUME NEW t \in Updaters, Reclamation!Exchange(t)
      PROVE  Reclamation!OneUpdater'
  BY <1>7 DEF Reclamation!Exchange
<1>8. ASSUME NEW t \in Updaters, Reclamation!Retire(t)
      PROVE  Reclamation!OneUpdater'
  BY <1>8 DEF Reclamation!Retire, Reclamation!Push, Reclamation!Counters!ScanBegin,
              Reclamation!LeaveRetire, Reclamation!Leave
<1>9. ASSUME NEW t \in Updaters, NEW r \in Readers, Reclamation!SkipReader(t, r)
      PROVE  Reclamation!OneUpdater'
  BY <1>9 DEF Reclamation!SkipReader, Reclamation!Counters!ScanMiss
<1>10. ASSUME NEW t \in Updaters, NEW r \in Readers, Reclamation!FindReader(t, r)
      PROVE  Reclamation!OneUpdater'
  BY <1>10 DEF Reclamation!FindReader, Reclamation!Counters!ScanHit, Reclamation!LeaveRetire,
               Reclamation!Leave
<1>11. ASSUME NEW t \in Updaters, Reclamation!Reclaim(t)
      PROVE  Reclamation!OneUpdater'
  BY <1>11 DEF Reclamation!Reclaim, Reclamation!TakeList, Reclamation!Counters!ScanClear
<1>12. ASSUME NEW t \in Updaters, Reclamation!AdvanceEpoch(t)
      PROVE  Reclamation!OneUpdater'
  BY <1>12 DEF Reclamation!AdvanceEpoch, Reclamation!LeaveRetire, Reclamation!Leave
<1> QED
  BY <1>1, <1>2, <1>3, <1>4, <1>5, <1>6, <1>7, <1>8, <1>9, <1>10, <1>11, <1>12,
     MemoryCases

LEMMA MarksStep ==
  ASSUME Reclamation!TypeOK, Reclamation!MarksAreTrue, Reclamation!Next
  PROVE  Reclamation!MarksAreTrue'
<1>0. /\ rpc \in [Readers -> {"out", "locking", "locked", "reading"}]
      /\ epochReading \in [Readers -> Reclamation!Counters!Bytes]
  BY DEF Reclamation!TypeOK, Reclamation!Counters!TypeOK
<1> USE <1>0 DEF Reclamation!MarksAreTrue, Reclamation!Marked,
                 Reclamation!Counters!EpochReading, Reclamation!counterVars,
                 Reclamation!readerVars
<1>1. ASSUME NEW r \in Readers, Reclamation!LoadEpoch(r)
      PROVE  Reclamation!MarksAreTrue'
  BY <1>1 DEF Reclamation!LoadEpoch
<1>2. ASSUME NEW r \in Readers, Reclamation!StoreMark(r)
      PROVE  Reclamation!MarksAreTrue'
  BY <1>2 DEF Reclamation!StoreMark, Reclamation!Counters!Increment
<1>3. ASSUME NEW r \in Readers, NEW i \in Reclamation!Nodes, Reclamation!LoadPtr(r, i)
      PROVE  Reclamation!MarksAreTrue'
  BY <1>3 DEF Reclamation!LoadPtr
<1>4. ASSUME NEW r \in Readers, Reclamation!Unlock(r)
      PROVE  Reclamation!MarksAreTrue'
  BY <1>4 DEF Reclamation!Unlock, Reclamation!Counters!Decrement
<1>5. ASSUME NEW t \in Updaters, Reclamation!NoUpdater, NEW o \in Objects,
             NEW i \in Reclamation!Nodes, Reclamation!GetCopy(t, o, i)
      PROVE  Reclamation!MarksAreTrue'
  BY <1>5 DEF Reclamation!GetCopy
<1>6. ASSUME NEW t \in Updaters, NEW v \in Contents, Reclamation!Apply(t, v)
      PROVE  Reclamation!MarksAreTrue'
  BY <1>6 DEF Reclamation!Apply
<1>7. ASSUME NEW t \in Updaters, Reclamation!Exchange(t)
      PROVE  Reclamation!MarksAreTrue'
  BY <1>7 DEF Reclamation!Exchange
<1>8. ASSUME NEW t \in Updaters, Reclamation!Retire(t)
      PROVE  Reclamation!MarksAreTrue'
  BY <1>8 DEF Reclamation!Retire, Reclamation!Push, Reclamation!Counters!ScanBegin,
              Reclamation!LeaveRetire, Reclamation!Leave
<1>9. ASSUME NEW t \in Updaters, NEW r \in Readers, Reclamation!SkipReader(t, r)
      PROVE  Reclamation!MarksAreTrue'
  BY <1>9 DEF Reclamation!SkipReader, Reclamation!Counters!ScanMiss
<1>10. ASSUME NEW t \in Updaters, NEW r \in Readers, Reclamation!FindReader(t, r)
      PROVE  Reclamation!MarksAreTrue'
  BY <1>10 DEF Reclamation!FindReader, Reclamation!Counters!ScanHit, Reclamation!LeaveRetire,
               Reclamation!Leave
<1>11. ASSUME NEW t \in Updaters, Reclamation!Reclaim(t)
      PROVE  Reclamation!MarksAreTrue'
  BY <1>11 DEF Reclamation!Reclaim, Reclamation!TakeList, Reclamation!Counters!ScanClear
<1>12. ASSUME NEW t \in Updaters, Reclamation!AdvanceEpoch(t)
      PROVE  Reclamation!MarksAreTrue'
  BY <1>12 DEF Reclamation!AdvanceEpoch, Reclamation!LeaveRetire, Reclamation!Leave
<1> QED
  BY <1>1, <1>2, <1>3, <1>4, <1>5, <1>6, <1>7, <1>8, <1>9, <1>10, <1>11, <1>12,
     MemoryCases

LEMMA PhasesStep ==
  ASSUME Reclamation!TypeOK, Reclamation!OneUpdater, Reclamation!PhasesAreTrue,
         Reclamation!Next
  PROVE  Reclamation!PhasesAreTrue'
<1>0. /\ phase \in [Updaters -> {"idle", "private", "exchange", "retire", "scan", "advance"}]
      /\ copied \in [Updaters -> Objects \cup {Null}]
      /\ old \in [Updaters -> Objects \cup {Null}]
      /\ scanned \in [Updaters -> 0..1 \cup {2}]
      /\ node \in [Updaters -> 0..maxNode]
      /\ nodePtrs \in [0..maxNode -> Objects]
      /\ epoch \in 0..1
  BY DEF Reclamation!TypeOK, Reclamation!Nodes, Reclamation!Epochs,
         Reclamation!Counters!TypeOK, Reclamation!Counters!Epochs,
         Reclamation!Counters!NoCall
<1>a. maxNode \in Nat /\ maxNode' = maxNode /\ Null \notin Objects
  BY NumaAssumption DEF Reclamation!TypeOK, Reclamation!Next, Reclamation!machine
<1> USE <1>0, <1>a DEF Reclamation!OneUpdater, Reclamation!PhasesAreTrue, Reclamation!prev,
                 Reclamation!Counters!NoCall, Reclamation!objectVars,
                 Reclamation!counterVars, Reclamation!readerVars,
                 Reclamation!updaterVars, Reclamation!At
<1>1. ASSUME NEW r \in Readers, Reclamation!LoadEpoch(r)
      PROVE  Reclamation!PhasesAreTrue'
  BY <1>1 DEF Reclamation!LoadEpoch
<1>2. ASSUME NEW r \in Readers, Reclamation!StoreMark(r)
      PROVE  Reclamation!PhasesAreTrue'
  BY <1>2 DEF Reclamation!StoreMark, Reclamation!Counters!Increment
<1>3. ASSUME NEW r \in Readers, NEW i \in Reclamation!Nodes, Reclamation!LoadPtr(r, i)
      PROVE  Reclamation!PhasesAreTrue'
  BY <1>3 DEF Reclamation!LoadPtr
<1>4. ASSUME NEW r \in Readers, Reclamation!Unlock(r)
      PROVE  Reclamation!PhasesAreTrue'
  BY <1>4 DEF Reclamation!Unlock, Reclamation!Counters!Decrement
<1>5. ASSUME NEW t \in Updaters, Reclamation!NoUpdater, NEW o \in Objects,
             NEW i \in Reclamation!Nodes, Reclamation!GetCopy(t, o, i)
      PROVE  Reclamation!PhasesAreTrue'
  BY <1>5 DEF Reclamation!GetCopy
<1>6. ASSUME NEW t \in Updaters, NEW v \in Contents, Reclamation!Apply(t, v)
      PROVE  Reclamation!PhasesAreTrue'
  BY <1>6 DEF Reclamation!Apply
<1>7. ASSUME NEW t \in Updaters, Reclamation!Exchange(t)
      PROVE  Reclamation!PhasesAreTrue'
  BY <1>7 DEF Reclamation!Exchange
<1>8. ASSUME NEW t \in Updaters, Reclamation!Retire(t)
      PROVE  Reclamation!PhasesAreTrue'
  BY <1>8 DEF Reclamation!Retire, Reclamation!Push, Reclamation!Counters!ScanBegin,
              Reclamation!LeaveRetire, Reclamation!Leave
<1>9. ASSUME NEW t \in Updaters, NEW r \in Readers, Reclamation!SkipReader(t, r)
      PROVE  Reclamation!PhasesAreTrue'
  BY <1>9 DEF Reclamation!SkipReader, Reclamation!Counters!ScanMiss
<1>10. ASSUME NEW t \in Updaters, NEW r \in Readers, Reclamation!FindReader(t, r)
      PROVE  Reclamation!PhasesAreTrue'
  BY <1>10 DEF Reclamation!FindReader, Reclamation!Counters!ScanHit, Reclamation!LeaveRetire,
               Reclamation!Leave
<1>11. ASSUME NEW t \in Updaters, Reclamation!Reclaim(t)
      PROVE  Reclamation!PhasesAreTrue'
  BY <1>11 DEF Reclamation!Reclaim, Reclamation!TakeList, Reclamation!Counters!ScanClear
<1>12. ASSUME NEW t \in Updaters, Reclamation!AdvanceEpoch(t)
      PROVE  Reclamation!PhasesAreTrue'
  BY <1>12 DEF Reclamation!AdvanceEpoch, Reclamation!LeaveRetire, Reclamation!Leave
<1> QED
  BY <1>1, <1>2, <1>3, <1>4, <1>5, <1>6, <1>7, <1>8, <1>9, <1>10, <1>11, <1>12,
     MemoryCases


LEMMA NodesBehindStep ==
  ASSUME Reclamation!TypeOK, Reclamation!OneUpdater, Reclamation!PhasesAreTrue,
         Reclamation!NodesBehindHaveCopy, Reclamation!Next
  PROVE  Reclamation!NodesBehindHaveCopy'
<1>0. /\ phase \in [Updaters -> {"idle", "private", "exchange", "retire", "scan", "advance"}]
      /\ copied \in [Updaters -> Objects \cup {Null}]
      /\ node \in [Updaters -> 0..maxNode]
      /\ nodePtrs \in [0..maxNode -> Objects]
  BY DEF Reclamation!TypeOK, Reclamation!Nodes
<1>a. maxNode \in Nat /\ maxNode' = maxNode /\ Null \notin Objects
  BY NumaAssumption DEF Reclamation!TypeOK, Reclamation!Next, Reclamation!machine
<1>b. \A t \in Updaters :
        /\ phase[t] \in {"idle", "private"} => node[t] = 0
        /\ phase[t] \in {"private", "exchange"} => copied[t] # Null
  BY DEF Reclamation!PhasesAreTrue
<1> USE <1>0, <1>a, <1>b
    DEF Reclamation!OneUpdater, Reclamation!NodesBehindHaveCopy, Reclamation!Behind,
        Reclamation!Nodes, Reclamation!objectVars, Reclamation!counterVars,
        Reclamation!readerVars, Reclamation!updaterVars, Reclamation!At
<1>1. ASSUME NEW r \in Readers, Reclamation!LoadEpoch(r)
      PROVE  Reclamation!NodesBehindHaveCopy'
  BY <1>1 DEF Reclamation!LoadEpoch
<1>2. ASSUME NEW r \in Readers, Reclamation!StoreMark(r)
      PROVE  Reclamation!NodesBehindHaveCopy'
  BY <1>2 DEF Reclamation!StoreMark, Reclamation!Counters!Increment
<1>3. ASSUME NEW r \in Readers, NEW i \in Reclamation!Nodes, Reclamation!LoadPtr(r, i)
      PROVE  Reclamation!NodesBehindHaveCopy'
  BY <1>3 DEF Reclamation!LoadPtr
<1>4. ASSUME NEW r \in Readers, Reclamation!Unlock(r)
      PROVE  Reclamation!NodesBehindHaveCopy'
  BY <1>4 DEF Reclamation!Unlock, Reclamation!Counters!Decrement
<1>5. ASSUME NEW t \in Updaters, Reclamation!NoUpdater, NEW o \in Objects,
             NEW i \in Reclamation!Nodes, Reclamation!GetCopy(t, o, i)
      PROVE  Reclamation!NodesBehindHaveCopy'
  <2>1. /\ phase' = [phase EXCEPT ![t] = "private"] /\ phase[t] = "idle"
        /\ UNCHANGED node /\ \A u \in Updaters : phase[u] = "idle"
    BY <1>5 DEF Reclamation!GetCopy, Reclamation!NoUpdater
  <2>2. \A u \in Updaters : phase'[u] \in {"idle", "private"} /\ node'[u] = 0
    BY <2>1
  <2>3. \A u \in Updaters, k \in 0..maxNode : ~Reclamation!Behind(u, k)'
    BY <2>2
  <2> QED BY <2>3
<1>6. ASSUME NEW t \in Updaters, NEW v \in Contents, Reclamation!Apply(t, v)
      PROVE  Reclamation!NodesBehindHaveCopy'
  BY <1>6 DEF Reclamation!Apply
<1>7. ASSUME NEW t \in Updaters, Reclamation!Exchange(t)
      PROVE  Reclamation!NodesBehindHaveCopy'
  <2>1. /\ phase[t] \in {"private", "exchange"} /\ UNCHANGED node
        /\ nodePtrs' = [nodePtrs EXCEPT ![node[t]] = copied[t]]
        /\ copied' = [copied EXCEPT ![t] = IF node[t] = maxNode THEN Null ELSE @]
        /\ phase' = [phase EXCEPT ![t] = "retire"]
    BY <1>7 DEF Reclamation!Exchange
  <2>2. /\ copied[t] # Null /\ copied'[t] \in {copied[t], Null}
        /\ phase'[t] = "retire" /\ node'[t] = node[t]
    BY <2>1
  <2>3. \A k \in 0..node[t] : nodePtrs'[k] = copied[t]
    BY <2>1, <2>2
  <2>4. \A k \in 0..maxNode : Reclamation!Behind(t, k)' => k \in 0..node[t]
    BY <2>1, <2>2
  <2>5. \A u \in Updaters : u # t => phase[u] = "idle" /\ phase'[u] = "idle" /\ node'[u] = 0
    BY <2>1
  <2>6. \A u \in Updaters, k \in 0..maxNode : u # t => ~Reclamation!Behind(u, k)'
    BY <2>5
  <2>7. 0 \in 0..node[t]
    OBVIOUS
  <2> QED BY <2>2, <2>3, <2>4, <2>6, <2>7
<1>8. ASSUME NEW t \in Updaters, Reclamation!Retire(t)
      PROVE  Reclamation!NodesBehindHaveCopy'
  BY <1>8 DEF Reclamation!Retire, Reclamation!Push, Reclamation!Counters!ScanBegin,
              Reclamation!LeaveRetire, Reclamation!Leave
<1>9. ASSUME NEW t \in Updaters, NEW r \in Readers, Reclamation!SkipReader(t, r)
      PROVE  Reclamation!NodesBehindHaveCopy'
  BY <1>9 DEF Reclamation!SkipReader, Reclamation!Counters!ScanMiss
<1>10. ASSUME NEW t \in Updaters, NEW r \in Readers, Reclamation!FindReader(t, r)
      PROVE  Reclamation!NodesBehindHaveCopy'
  BY <1>10 DEF Reclamation!FindReader, Reclamation!Counters!ScanHit, Reclamation!LeaveRetire,
               Reclamation!Leave
<1>11. ASSUME NEW t \in Updaters, Reclamation!Reclaim(t)
      PROVE  Reclamation!NodesBehindHaveCopy'
  BY <1>11 DEF Reclamation!Reclaim, Reclamation!TakeList, Reclamation!Counters!ScanClear
<1>12. ASSUME NEW t \in Updaters, Reclamation!AdvanceEpoch(t)
      PROVE  Reclamation!NodesBehindHaveCopy'
  BY <1>12 DEF Reclamation!AdvanceEpoch, Reclamation!LeaveRetire, Reclamation!Leave
<1> QED
  BY <1>1, <1>2, <1>3, <1>4, <1>5, <1>6, <1>7, <1>8, <1>9, <1>10, <1>11, <1>12,
     MemoryCases

\* An updater that is done has its copy on every node.
LEMMA NodesAgreeStep ==
  ASSUME Reclamation!TypeOK, Reclamation!OneUpdater, Reclamation!PhasesAreTrue,
         Reclamation!NodesBehindHaveCopy, Reclamation!NodesAgree, Reclamation!Next
  PROVE  Reclamation!NodesAgree'
<1>0. /\ phase \in [Updaters -> {"idle", "private", "exchange", "retire", "scan", "advance"}]
      /\ node \in [Updaters -> 0..maxNode]
  BY DEF Reclamation!TypeOK, Reclamation!Nodes
<1>a. maxNode \in Nat /\ maxNode' = maxNode
  BY NumaAssumption DEF Reclamation!TypeOK, Reclamation!Next, Reclamation!machine
<1>b. ASSUME NEW t \in Updaters, phase[t] \in {"retire", "scan", "advance"},
             Reclamation!LeaveRetire(t), UNCHANGED <<nodePtrs, value>>
      PROVE  Reclamation!NodesAgree'
  <2> SUFFICES ASSUME Reclamation!NoUpdater', NEW i \in 0..maxNode, NEW j \in 0..maxNode
               PROVE  nodePtrs[i] = nodePtrs[j]
    BY <1>a, <1>b DEF Reclamation!NodesAgree, Reclamation!Nodes
  <2>1. node[t] = maxNode
    BY <1>0, <1>b DEF Reclamation!NoUpdater, Reclamation!LeaveRetire, Reclamation!Leave
  <2>2. \A k \in 0..maxNode : nodePtrs[k] = nodePtrs[0]
    BY <1>a, <1>b, <2>1
    DEF Reclamation!NodesBehindHaveCopy, Reclamation!Behind, Reclamation!Nodes
  <2> QED BY <2>2
<1>c. ASSUME UNCHANGED <<nodePtrs, value, phase>>
      PROVE  Reclamation!NodesAgree'
  BY <1>a, <1>c DEF Reclamation!NodesAgree, Reclamation!NoUpdater, Reclamation!Nodes
<1>d. ASSUME NEW t \in Updaters, phase'[t] # "idle" PROVE Reclamation!NodesAgree'
  BY <1>d DEF Reclamation!NodesAgree, Reclamation!NoUpdater
<1> USE DEF Reclamation!objectVars, Reclamation!counterVars, Reclamation!readerVars,
            Reclamation!updaterVars, Reclamation!At
<1>1. ASSUME NEW r \in Readers, Reclamation!LoadEpoch(r)
      PROVE  Reclamation!NodesAgree'
  BY <1>1, <1>c DEF Reclamation!LoadEpoch
<1>2. ASSUME NEW r \in Readers, Reclamation!StoreMark(r)
      PROVE  Reclamation!NodesAgree'
  BY <1>2, <1>c DEF Reclamation!StoreMark
<1>3. ASSUME NEW r \in Readers, NEW i \in Reclamation!Nodes, Reclamation!LoadPtr(r, i)
      PROVE  Reclamation!NodesAgree'
  BY <1>3, <1>c DEF Reclamation!LoadPtr
<1>4. ASSUME NEW r \in Readers, Reclamation!Unlock(r)
      PROVE  Reclamation!NodesAgree'
  BY <1>4, <1>c DEF Reclamation!Unlock
<1>5. ASSUME NEW t \in Updaters, Reclamation!NoUpdater, NEW o \in Objects,
             NEW i \in Reclamation!Nodes, Reclamation!GetCopy(t, o, i)
      PROVE  Reclamation!NodesAgree'
  BY <1>5, <1>0, <1>d DEF Reclamation!GetCopy
<1>6. ASSUME NEW t \in Updaters, NEW v \in Contents, Reclamation!Apply(t, v)
      PROVE  Reclamation!NodesAgree'
  BY <1>6, <1>0, <1>d DEF Reclamation!Apply
<1>7. ASSUME NEW t \in Updaters, Reclamation!Exchange(t)
      PROVE  Reclamation!NodesAgree'
  BY <1>7, <1>0, <1>d DEF Reclamation!Exchange
<1>8. ASSUME NEW t \in Updaters, Reclamation!Retire(t)
      PROVE  Reclamation!NodesAgree'
  <2>1. \/ Reclamation!LeaveRetire(t) /\ UNCHANGED <<nodePtrs, value>>
        \/ phase' = [phase EXCEPT ![t] = "scan"]
    BY <1>8 DEF Reclamation!Retire, Reclamation!Push
  <2> QED BY <1>8, <1>0, <1>b, <1>d, <2>1 DEF Reclamation!Retire, Reclamation!Push
<1>9. ASSUME NEW t \in Updaters, NEW r \in Readers, Reclamation!SkipReader(t, r)
      PROVE  Reclamation!NodesAgree'
  BY <1>9, <1>c DEF Reclamation!SkipReader
<1>10. ASSUME NEW t \in Updaters, NEW r \in Readers, Reclamation!FindReader(t, r)
      PROVE  Reclamation!NodesAgree'
  BY <1>10, <1>b DEF Reclamation!FindReader
<1>11. ASSUME NEW t \in Updaters, Reclamation!Reclaim(t)
      PROVE  Reclamation!NodesAgree'
  BY <1>11, <1>0, <1>d DEF Reclamation!Reclaim, Reclamation!TakeList
<1>12. ASSUME NEW t \in Updaters, Reclamation!AdvanceEpoch(t)
      PROVE  Reclamation!NodesAgree'
  BY <1>12, <1>b DEF Reclamation!AdvanceEpoch
<1> QED
  BY <1>1, <1>2, <1>3, <1>4, <1>5, <1>6, <1>7, <1>8, <1>9, <1>10, <1>11, <1>12,
     MemoryCases

-----------------------------------------------------------------------------
(* One node. What a step does to the pool and the lists, as sets; then the *)
(* argument is that of EpochReclamationProofs.                             *)

LEMMA NothingListed ==
  /\ Reclamation!Listed(Reclamation!EmptyList) = {}
  /\ \A o \in Objects : Reclamation!EmptyList[o] <= 1
BY DEF Reclamation!Listed, Reclamation!EmptyList

LEMMA ListedAfterAdd ==
  ASSUME NEW list \in [Objects -> Nat], \A x \in Objects : list[x] <= 1,
         NEW o \in Objects
  PROVE  LET more == [list EXCEPT ![o] = @ + 1] IN
         /\ Reclamation!Listed(more) = Reclamation!Listed(list) \cup {o}
         /\ o \notin Reclamation!Listed(list) => \A x \in Objects : more[x] <= 1
<1> DEFINE more == [list EXCEPT ![o] = @ + 1]
<1>1. /\ more[o] = list[o] + 1 /\ \A x \in Objects : x # o => more[x] = list[x]
      /\ \A x \in Objects : list[x] \in Nat
  OBVIOUS
<1> HIDE DEF more
<1>2. Reclamation!Listed(more) = Reclamation!Listed(list) \cup {o}
  BY <1>1 DEF Reclamation!Listed
<1>3. o \notin Reclamation!Listed(list) => \A x \in Objects : more[x] <= 1
  BY <1>1 DEF Reclamation!Listed
<1> QED BY <1>2, <1>3 DEF more

LEMMA ListedAfterTake ==
  ASSUME NEW list \in [Objects -> Nat], \A x \in Objects : list[x] <= 1,
         NEW o \in Reclamation!Listed(list)
  PROVE  LET less == [list EXCEPT ![o] = @ - 1] IN
         /\ Reclamation!Listed(less) = Reclamation!Listed(list) \ {o}
         /\ \A x \in Objects : less[x] <= 1
<1> DEFINE less == [list EXCEPT ![o] = @ - 1]
<1>0. o \in Objects /\ list[o] = 1
  BY DEF Reclamation!Listed
<1>1. /\ less[o] = 0 /\ \A x \in Objects : x # o => less[x] = list[x]
      /\ \A x \in Objects : list[x] \in Nat
  BY <1>0
<1> HIDE DEF less
<1>2. Reclamation!Listed(less) = Reclamation!Listed(list) \ {o}
  BY <1>0, <1>1 DEF Reclamation!Listed
<1>3. \A x \in Objects : less[x] <= 1
  BY <1>0, <1>1
<1> QED BY <1>2, <1>3 DEF less

\* GetCopy, Retire and Reclaim on the only node.
LEMMA PoolOnOneNode ==
  ASSUME Reclamation!TypeOK, Reclamation!NothingIsListedTwice, maxNode = 0,
         NEW t \in Updaters, NEW o \in Objects, NEW i \in Reclamation!Nodes,
         Reclamation!GetCopy(t, o, i)
  PROVE  /\ \A e \in 0..1 : Reclamation!List(e)' = Reclamation!List(e)
         /\ Reclamation!NothingIsListedTwice'
         /\ \/ /\ o \in heap /\ heap' = heap \ {o}
               /\ Reclamation!Pool' = Reclamation!Pool
            \/ /\ o \in Reclamation!Pool /\ heap' = heap
               /\ Reclamation!Pool' = Reclamation!Pool \ {o}
<1>1. i = 0 /\ UNCHANGED retireLists
  BY DEF Reclamation!Nodes, Reclamation!GetCopy
<1>2. /\ finished \in [0..0 -> [Objects -> Nat]] /\ finished[0] \in [Objects -> Nat]
      /\ \A x \in Objects : finished[0][x] <= 1
      /\ \A x \in Objects, e \in 0..1 : retireLists[0][e][x] <= 1
  BY DEF Reclamation!TypeOK, Reclamation!Nodes, Reclamation!Epochs,
         Reclamation!NothingIsListedTwice
<1>3. CASE o \in heap /\ heap' = heap \ {o} /\ UNCHANGED finished
  BY <1>1, <1>2, <1>3 DEF Reclamation!Pool, Reclamation!List, Reclamation!Listed,
                          Reclamation!NothingIsListedTwice, Reclamation!Epochs
<1>4. CASE /\ o \in Reclamation!Listed(finished[i])
           /\ finished' = [finished EXCEPT ![i][o] = @ - 1] /\ UNCHANGED heap
  <2>1. finished'[0] = [finished[0] EXCEPT ![o] = @ - 1] /\ o \in Reclamation!Pool
    BY <1>1, <1>2, <1>4 DEF Reclamation!Pool
  <2>2. /\ Reclamation!Listed(finished'[0]) = Reclamation!Pool \ {o}
        /\ \A x \in Objects : finished'[0][x] <= 1
    BY <1>2, <2>1, ListedAfterTake DEF Reclamation!Pool
  <2>3. Reclamation!Pool' = Reclamation!Pool \ {o}
    BY <2>2 DEF Reclamation!Pool, Reclamation!Listed
  <2>4. \A e \in 0..1 : Reclamation!List(e)' = Reclamation!List(e)
    BY <1>1 DEF Reclamation!List, Reclamation!Listed
  <2>5. Reclamation!NothingIsListedTwice'
    BY <1>1, <1>2, <2>2 DEF Reclamation!NothingIsListedTwice, Reclamation!Epochs
  <2> QED BY <1>4, <2>1, <2>3, <2>4, <2>5
<1> QED BY <1>3, <1>4 DEF Reclamation!GetCopy

LEMMA RetireOnOneNode ==
  ASSUME Reclamation!TypeOK, Reclamation!PhasesAreTrue, Reclamation!NothingIsListedTwice,
         Reclamation!EveryObjectHasOneOwner, maxNode = 0,
         NEW t \in Updaters, Reclamation!Retire(t)
  PROVE  /\ old[t] \in Objects
         /\ Reclamation!Pool' = Reclamation!Pool
         /\ \A e \in 0..1 :
              Reclamation!List(e)' = IF e = epoch THEN Reclamation!List(e) \cup {old[t]}
                                                  ELSE Reclamation!List(e)
         /\ Reclamation!NothingIsListedTwice'
<1>0. node[t] = 0 /\ epoch \in 0..1
  BY DEF Reclamation!TypeOK, Reclamation!Nodes, Reclamation!Epochs
<1>1. /\ node[t] = 0 /\ epoch \in 0..1 /\ epoch' = epoch /\ UNCHANGED finished
      /\ old[t] \in Objects /\ phase[t] = "retire" /\ old[t] # Null
      /\ retireLists' = [retireLists EXCEPT ![0][epoch] =
                           [retireLists[0][epoch] EXCEPT ![old[t]] = @ + 1]]
  <2>1. old \in [Updaters -> Objects \cup {Null}]
    BY DEF Reclamation!TypeOK
  <2>2. phase[t] = "retire" => old[t] # Null
    BY DEF Reclamation!PhasesAreTrue
  <2> QED
    BY <1>0, <2>1, <2>2 DEF Reclamation!Retire, Reclamation!Push, Reclamation!At
<1>2. /\ retireLists \in [0..0 -> [0..1 -> [Objects -> Nat]]]
      /\ retireLists[0][epoch] \in [Objects -> Nat]
      /\ \A x \in Objects : finished[0][x] <= 1
      /\ \A x \in Objects, e \in 0..1 : retireLists[0][e][x] <= 1
  BY <1>1 DEF Reclamation!TypeOK, Reclamation!Nodes, Reclamation!Epochs,
              Reclamation!NothingIsListedTwice
<1>3. old[t] \notin Reclamation!Listed(retireLists[0][epoch])
  BY <1>1 DEF Reclamation!EveryObjectHasOneOwner, Reclamation!Outgoing, Reclamation!List
<1>4. /\ retireLists'[0][epoch] = [retireLists[0][epoch] EXCEPT ![old[t]] = @ + 1]
      /\ retireLists'[0][1 - epoch] = retireLists[0][1 - epoch]
  BY <1>1, <1>2
<1>5. /\ Reclamation!Listed(retireLists'[0][epoch])
           = Reclamation!Listed(retireLists[0][epoch]) \cup {old[t]}
      /\ \A x \in Objects : retireLists'[0][epoch][x] <= 1
  BY <1>1, <1>2, <1>3, <1>4, ListedAfterAdd
<1>6. \A e \in 0..1 : e = epoch \/ e = 1 - epoch
  BY <1>1
<1>7. Reclamation!NothingIsListedTwice'
  BY <1>1, <1>2, <1>4, <1>5, <1>6 DEF Reclamation!NothingIsListedTwice, Reclamation!Epochs
<1> QED
  BY <1>1, <1>4, <1>5, <1>6, <1>7 DEF Reclamation!Pool, Reclamation!List, Reclamation!Listed

LEMMA ReclaimOnOneNode ==
  ASSUME Reclamation!TypeOK, Reclamation!NothingIsListedTwice, maxNode = 0,
         NEW t \in Updaters, Reclamation!Reclaim(t)
  PROVE  /\ \A e \in 0..1 :
              IF e = epoch THEN Reclamation!List(e)' = Reclamation!List(e)
                           ELSE /\ Reclamation!List(e)' = {}
                                /\ Reclamation!Pool' = Reclamation!List(e)
         /\ heap' = heap \cup Reclamation!Pool
         /\ Reclamation!NothingIsListedTwice'
<1>0. node[t] = 0 /\ epoch \in 0..1
  BY DEF Reclamation!TypeOK, Reclamation!Nodes, Reclamation!Epochs
<1>1. /\ node[t] = 0 /\ epoch \in 0..1 /\ epoch' = epoch
      /\ finished' = [finished EXCEPT ![0] = retireLists[0][1 - epoch]]
      /\ retireLists' = [retireLists EXCEPT ![0][1 - epoch] = Reclamation!EmptyList]
      /\ heap' = heap \cup Reclamation!Listed(finished[0])
  BY <1>0 DEF Reclamation!Reclaim, Reclamation!TakeList, Reclamation!prev
<1>2. /\ retireLists \in [0..0 -> [0..1 -> [Objects -> Nat]]]
      /\ finished \in [0..0 -> [Objects -> Nat]]
      /\ \A x \in Objects, e \in 0..1 : retireLists[0][e][x] <= 1
  BY DEF Reclamation!TypeOK, Reclamation!Nodes, Reclamation!Epochs,
         Reclamation!NothingIsListedTwice
<1>3. /\ finished'[0] = retireLists[0][1 - epoch]
      /\ retireLists'[0][epoch] = retireLists[0][epoch]
      /\ retireLists'[0][1 - epoch] = Reclamation!EmptyList
  BY <1>1, <1>2
<1>4. \A e \in 0..1 : e = epoch \/ e = 1 - epoch
  BY <1>1
<1>5. Reclamation!NothingIsListedTwice'
  BY <1>1, <1>2, <1>3, <1>4, NothingListed
  DEF Reclamation!NothingIsListedTwice, Reclamation!Epochs
<1>6. Reclamation!Listed(retireLists'[0][1 - epoch]) = {}
  BY <1>3, NothingListed
<1> QED
  BY <1>1, <1>3, <1>4, <1>5, <1>6
  DEF Reclamation!Pool, Reclamation!List, Reclamation!Listed

LEMMA ListsUnchanged ==
  ASSUME UNCHANGED <<retireLists, finished>>
  PROVE  /\ Reclamation!Pool' = Reclamation!Pool
         /\ \A e \in 0..1 : Reclamation!List(e)' = Reclamation!List(e)
         /\ Reclamation!NothingIsListedTwice => Reclamation!NothingIsListedTwice'
BY DEF Reclamation!Pool, Reclamation!List, Reclamation!Listed,
       Reclamation!NothingIsListedTwice, Reclamation!Epochs

LEMMA OwnershipStep ==
  ASSUME Reclamation!TypeOK, Reclamation!OneUpdater, Reclamation!PhasesAreTrue,
         Reclamation!NothingIsListedTwice, Reclamation!EveryObjectHasOneOwner,
         maxNode = 0, Reclamation!Next
  PROVE  Reclamation!NothingIsListedTwice' /\ Reclamation!EveryObjectHasOneOwner'
<1> DEFINE Kept == Reclamation!NothingIsListedTwice' /\ Reclamation!EveryObjectHasOneOwner'
<1>0. /\ phase \in [Updaters -> {"idle", "private", "exchange", "retire", "scan", "advance"}]
      /\ copied \in [Updaters -> Objects \cup {Null}]
      /\ old \in [Updaters -> Objects \cup {Null}]
      /\ nodePtrs \in [0..0 -> Objects] /\ heap \subseteq Objects
      /\ epoch \in 0..1 /\ Null \notin Objects
  BY NumaAssumption DEF Reclamation!TypeOK, Reclamation!Nodes, Reclamation!Epochs
<1>a. \A t \in Updaters :
        /\ node[t] = 0
        /\ copied[t] = Null <=> phase[t] \in {"idle", "retire", "scan", "advance"}
        /\ old[t] # Null <=> phase[t] = "retire"
  BY DEF Reclamation!TypeOK, Reclamation!Nodes, Reclamation!PhasesAreTrue
<1>b. ASSUME UNCHANGED <<nodePtrs, copied, old, heap, retireLists, finished>>
      PROVE  Kept
  BY <1>b, ListsUnchanged
  DEF Reclamation!EveryObjectHasOneOwner, Reclamation!Copies, Reclamation!Outgoing
<1> HIDE DEF Kept
<1> USE <1>0, <1>a
    DEF Reclamation!OneUpdater, Reclamation!EveryObjectHasOneOwner, Reclamation!Copies,
        Reclamation!Outgoing, Reclamation!objectVars, Reclamation!updaterVars,
        Reclamation!At
<1>1. ASSUME NEW r \in Readers, Reclamation!LoadEpoch(r)
      PROVE  Kept
  BY <1>1, <1>b DEF Reclamation!LoadEpoch
<1>2. ASSUME NEW r \in Readers, Reclamation!StoreMark(r)
      PROVE  Kept
  BY <1>2, <1>b DEF Reclamation!StoreMark
<1>3. ASSUME NEW r \in Readers, NEW i \in Reclamation!Nodes, Reclamation!LoadPtr(r, i)
      PROVE  Kept
  BY <1>3, <1>b DEF Reclamation!LoadPtr
<1>4. ASSUME NEW r \in Readers, Reclamation!Unlock(r)
      PROVE  Kept
  BY <1>4, <1>b DEF Reclamation!Unlock
<1>5. ASSUME NEW t \in Updaters, Reclamation!NoUpdater, NEW o \in Objects,
             NEW i \in Reclamation!Nodes, Reclamation!GetCopy(t, o, i)
      PROVE  Kept
  <2>1. /\ \A u \in Updaters : phase[u] = "idle"
        /\ copied' = [copied EXCEPT ![t] = o] /\ UNCHANGED <<nodePtrs, old>>
    BY <1>5 DEF Reclamation!GetCopy, Reclamation!NoUpdater
  <2>2. Reclamation!Copies = {} /\ Reclamation!Outgoing = {}
    BY <2>1
  <2>3. Reclamation!Copies' = {o} /\ Reclamation!Outgoing' = {}
    BY <2>1
  <2> HIDE DEF Reclamation!Copies, Reclamation!Outgoing
  <2> QED BY <1>5, <2>1, <2>2, <2>3, PoolOnOneNode DEF Kept
<1>6. ASSUME NEW t \in Updaters, NEW v \in Contents, Reclamation!Apply(t, v)
      PROVE  Kept
  BY <1>6, <1>b DEF Reclamation!Apply
<1>7. ASSUME NEW t \in Updaters, Reclamation!Exchange(t)
      PROVE  Kept
  <2>1. /\ phase[t] \in {"private", "exchange"} /\ UNCHANGED <<heap, retireLists, finished>>
        /\ nodePtrs' = [nodePtrs EXCEPT ![0] = copied[t]]
        /\ copied' = [copied EXCEPT ![t] = Null]
        /\ old' = [old EXCEPT ![t] = nodePtrs[0]]
    BY <1>7 DEF Reclamation!Exchange
  <2>2. \A u \in Updaters : u # t => phase[u] = "idle"
    BY <2>1
  <2>3. /\ Reclamation!Copies = {copied[t]} /\ Reclamation!Outgoing = {}
        /\ nodePtrs'[0] = copied[t]
    BY <2>1, <2>2
  <2>4. Reclamation!Copies' = {} /\ Reclamation!Outgoing' = {nodePtrs[0]}
    BY <2>1, <2>2
  <2> HIDE DEF Reclamation!Copies, Reclamation!Outgoing
  <2> QED BY <2>1, <2>3, <2>4, ListsUnchanged DEF Kept
<1>8. ASSUME NEW t \in Updaters, Reclamation!Retire(t)
      PROVE  Kept
  <2>1. /\ phase[t] = "retire" /\ UNCHANGED <<nodePtrs, copied, heap>>
        /\ old' = [old EXCEPT ![t] = Null]
    BY <1>8 DEF Reclamation!Retire, Reclamation!Push
  <2>2. \A u \in Updaters : u # t => phase[u] = "idle"
    BY <2>1
  <2>3. Reclamation!Outgoing = {old[t]} /\ Reclamation!Outgoing' = {}
    BY <2>1, <2>2
  <2>4. Reclamation!Copies' = Reclamation!Copies
    BY <2>1
  <2>5. /\ Reclamation!Pool' = Reclamation!Pool
        /\ Reclamation!List(0)' = IF epoch = 0 THEN Reclamation!List(0) \cup {old[t]}
                                              ELSE Reclamation!List(0)
        /\ Reclamation!List(1)' = IF epoch = 1 THEN Reclamation!List(1) \cup {old[t]}
                                              ELSE Reclamation!List(1)
        /\ Reclamation!NothingIsListedTwice'
    BY <1>8, RetireOnOneNode
  <2> HIDE DEF Reclamation!Copies, Reclamation!Outgoing
  <2> QED BY <2>1, <2>3, <2>4, <2>5 DEF Kept
<1>9. ASSUME NEW t \in Updaters, NEW r \in Readers, Reclamation!SkipReader(t, r)
      PROVE  Kept
  BY <1>9, <1>b DEF Reclamation!SkipReader
<1>10. ASSUME NEW t \in Updaters, NEW r \in Readers, Reclamation!FindReader(t, r)
      PROVE  Kept
  BY <1>10, <1>b DEF Reclamation!FindReader
<1>11. ASSUME NEW t \in Updaters, Reclamation!Reclaim(t)
      PROVE  Kept
  <2>1. UNCHANGED <<nodePtrs, copied, old>>
    BY <1>11 DEF Reclamation!Reclaim, Reclamation!TakeList
  <2>2. Reclamation!Outgoing' = Reclamation!Outgoing /\ Reclamation!Copies' = Reclamation!Copies
    BY <2>1
  <2> HIDE DEF Reclamation!Copies, Reclamation!Outgoing
  <2> QED BY <1>11, <2>1, <2>2, ReclaimOnOneNode DEF Kept
<1>12. ASSUME NEW t \in Updaters, Reclamation!AdvanceEpoch(t)
      PROVE  Kept
  BY <1>12, <1>b DEF Reclamation!AdvanceEpoch
<1>13. Kept
  BY <1>1, <1>2, <1>3, <1>4, <1>5, <1>6, <1>7, <1>8, <1>9, <1>10, <1>11, <1>12,
     MemoryCases
<1> QED BY <1>13 DEF Kept

\* The heart of the argument, as in EpochReclamationProofs.
LEMMA HeldStep ==
  ASSUME Reclamation!TypeOK, Reclamation!OneUpdater, Reclamation!PhasesAreTrue,
         Reclamation!MarksAreTrue, Reclamation!OneNodeInv, maxNode = 0, Reclamation!Next
  PROVE  Reclamation!HeldIsSafe'
<1>0. /\ phase \in [Updaters -> {"idle", "private", "exchange", "retire", "scan", "advance"}]
      /\ old \in [Updaters -> Objects \cup {Null}]
      /\ nodePtrs \in [0..0 -> Objects] /\ epoch \in 0..1
      /\ rpc \in [Readers -> {"out", "locking", "locked", "reading"}]
      /\ loaded \in [Readers -> 0..1]
      /\ held \in [Readers -> Objects \cup {Null}]
      /\ unscanned \in [Updaters -> SUBSET Readers]
      /\ Null \notin Objects
  BY NumaAssumption
  DEF Reclamation!TypeOK, Reclamation!Nodes, Reclamation!Epochs,
      Reclamation!Counters!TypeOK
<1>a. /\ \A t \in Updaters : old[t] # Null <=> phase[t] = "retire"
      /\ \A t \in Updaters : node[t] = 0
  BY DEF Reclamation!PhasesAreTrue, Reclamation!TypeOK, Reclamation!Nodes
<1>b. /\ Reclamation!HeldIsSafe /\ Reclamation!NothingIsListedTwice
      /\ Reclamation!EveryObjectHasOneOwner
  BY DEF Reclamation!OneNodeInv
<1>c. ASSUME UNCHANGED <<retireLists, finished>>
      PROVE  /\ \A e \in 0..1 : Reclamation!List(e)' = Reclamation!List(e)
             /\ Reclamation!List(0)' = Reclamation!List(0)
             /\ Reclamation!List(1)' = Reclamation!List(1)
  BY <1>c, ListsUnchanged
<1> USE <1>0, <1>a, <1>b
    DEF Reclamation!OneUpdater, Reclamation!HeldIsSafe, Reclamation!PassedBy,
        Reclamation!Epochs, Reclamation!Outgoing, Reclamation!objectVars,
        Reclamation!counterVars, Reclamation!readerVars, Reclamation!updaterVars,
        Reclamation!At
<1>1. ASSUME NEW r \in Readers, Reclamation!LoadEpoch(r)
      PROVE  Reclamation!HeldIsSafe'
  BY <1>1, <1>c DEF Reclamation!LoadEpoch
<1>2. ASSUME NEW r \in Readers, Reclamation!StoreMark(r)
      PROVE  Reclamation!HeldIsSafe'
  BY <1>2, <1>c DEF Reclamation!StoreMark, Reclamation!Counters!Increment
<1>3. ASSUME NEW r \in Readers, NEW i \in Reclamation!Nodes, Reclamation!LoadPtr(r, i)
      PROVE  Reclamation!HeldIsSafe'
  BY <1>3, <1>c DEF Reclamation!LoadPtr, Reclamation!Nodes, Reclamation!EveryObjectHasOneOwner
<1>4. ASSUME NEW r \in Readers, Reclamation!Unlock(r)
      PROVE  Reclamation!HeldIsSafe'
  BY <1>4, <1>c DEF Reclamation!Unlock, Reclamation!Counters!Decrement
<1>5. ASSUME NEW t \in Updaters, Reclamation!NoUpdater, NEW o \in Objects,
             NEW i \in Reclamation!Nodes, Reclamation!GetCopy(t, o, i)
      PROVE  Reclamation!HeldIsSafe'
  <2>1. /\ \A e \in 0..1 : Reclamation!List(e)' = Reclamation!List(e)
        /\ Reclamation!List(0)' = Reclamation!List(0)
        /\ Reclamation!List(1)' = Reclamation!List(1)
    BY <1>5, PoolOnOneNode
  <2>2. /\ \A u \in Updaters : phase[u] = "idle"
        /\ phase' = [phase EXCEPT ![t] = "private"]
        /\ UNCHANGED <<nodePtrs, old, epoch, rpc, loaded, held>>
    BY <1>5 DEF Reclamation!GetCopy, Reclamation!NoUpdater
  <2>3. \A u \in Updaters, r \in Readers : ~Reclamation!PassedBy(u, r)'
    BY <2>2
  <2> QED BY <2>1, <2>2, <2>3
<1>6. ASSUME NEW t \in Updaters, NEW v \in Contents, Reclamation!Apply(t, v)
      PROVE  Reclamation!HeldIsSafe'
  BY <1>6, <1>c DEF Reclamation!Apply
<1>7. ASSUME NEW t \in Updaters, Reclamation!Exchange(t)
      PROVE  Reclamation!HeldIsSafe'
  BY <1>7, <1>c DEF Reclamation!Exchange
<1>8. ASSUME NEW t \in Updaters, Reclamation!Retire(t)
      PROVE  Reclamation!HeldIsSafe'
  <2>1. /\ old[t] \in Objects
        /\ \A e \in 0..1 :
             Reclamation!List(e)' = IF e = epoch THEN Reclamation!List(e) \cup {old[t]}
                                                 ELSE Reclamation!List(e)
        /\ Reclamation!List(0)' = IF epoch = 0 THEN Reclamation!List(0) \cup {old[t]}
                                              ELSE Reclamation!List(0)
        /\ Reclamation!List(1)' = IF epoch = 1 THEN Reclamation!List(1) \cup {old[t]}
                                              ELSE Reclamation!List(1)
    BY <1>8, RetireOnOneNode
  <2>2. /\ phase[t] = "retire" /\ old' = [old EXCEPT ![t] = Null]
        /\ UNCHANGED <<nodePtrs, epoch, rpc, loaded, held>>
        /\ \/ phase' = [phase EXCEPT ![t] = phase'[t]] /\ phase'[t] \in {"idle", "exchange"}
           \/ /\ phase' = [phase EXCEPT ![t] = "scan"]
              /\ unscanned' = [unscanned EXCEPT ![t] = Readers]
    BY <1>8, LeaveTypes
    DEF Reclamation!Retire, Reclamation!Push, Reclamation!Counters!ScanBegin
  <2>3. \A u \in Updaters : u # t => phase[u] = "idle"
    BY <2>2
  <2>4. \A u \in Updaters, r \in Readers : ~Reclamation!PassedBy(u, r)'
    BY <2>2, <2>3
  <2>5. Reclamation!Outgoing = {old[t]} /\ Reclamation!Outgoing' = {}
    BY <2>2, <2>3
  <2>6. \A r \in Readers : rpc'[r] = "reading" =>
          held'[r] \in {nodePtrs'[0]} \cup Reclamation!List(0)' \cup Reclamation!List(1)'
    BY <2>1, <2>2, <2>5
  <2>7. \A r \in Readers, e \in 0..1 : rpc'[r] = "reading" /\ held'[r] \in Reclamation!List(e)'
          => e \in {loaded'[r], epoch'}
    BY <2>1, <2>2
  <2> QED BY <2>4, <2>5, <2>6, <2>7
<1>9. ASSUME NEW t \in Updaters, NEW r \in Readers, Reclamation!SkipReader(t, r)
      PROVE  Reclamation!HeldIsSafe'
  \* Its byte differs, so r is outside or in the current epoch.
  <2>1. rpc[r] = "reading" => loaded[r] = epoch
    BY <1>9
    DEF Reclamation!SkipReader, Reclamation!Counters!ScanMiss, Reclamation!PhasesAreTrue,
        Reclamation!prev, Reclamation!MarksAreTrue, Reclamation!Marked,
        Reclamation!Counters!EpochReading
  <2>2. \A q \in Readers \ {r} : Reclamation!PassedBy(t, q)' => Reclamation!PassedBy(t, q)
    BY <1>9 DEF Reclamation!SkipReader, Reclamation!Counters!ScanMiss
  <2>3. \A u \in Updaters : u # t => phase[u] = "idle"
    BY <1>9 DEF Reclamation!SkipReader
  <2> QED
    BY <1>9, <1>c, <2>1, <2>2, <2>3 DEF Reclamation!SkipReader, Reclamation!Counters!ScanMiss
<1>10. ASSUME NEW t \in Updaters, NEW r \in Readers, Reclamation!FindReader(t, r)
      PROVE  Reclamation!HeldIsSafe'
  BY <1>10, <1>c
  DEF Reclamation!FindReader, Reclamation!LeaveRetire, Reclamation!Leave,
      Reclamation!Counters!ScanHit
<1>11. ASSUME NEW t \in Updaters, Reclamation!Reclaim(t)
      PROVE  Reclamation!HeldIsSafe'
  \* The scan has passed by every reader of the previous epoch, so none of them
  \* holds a retired object; those of the current epoch hold none of the
  \* previous list.
  <2>1. /\ \A e \in 0..1 : Reclamation!List(e)' = IF e = epoch THEN Reclamation!List(e)
                                                             ELSE {}
        /\ Reclamation!List(0)' = IF epoch = 0 THEN Reclamation!List(0) ELSE {}
        /\ Reclamation!List(1)' = IF epoch = 1 THEN Reclamation!List(1) ELSE {}
    BY <1>11, ReclaimOnOneNode
  <2>2. /\ phase[t] = "scan" /\ unscanned[t] = {}
        /\ phase' = [phase EXCEPT ![t] = "advance"]
        /\ UNCHANGED <<nodePtrs, old, epoch, rpc, loaded, held>>
    BY <1>11
    DEF Reclamation!Reclaim, Reclamation!TakeList, Reclamation!Counters!ScanClear
  <2>3. \A r \in Readers : rpc[r] = "reading" /\ loaded[r] # epoch => held[r] = nodePtrs[0]
    BY <2>2
  <2>4. \A r \in Readers, e \in 0..1 : rpc[r] = "reading" /\ e # epoch =>
          held[r] \notin Reclamation!List(e)
    <3>1. \A e \in 0..1 : nodePtrs[0] \notin Reclamation!List(e)
      BY DEF Reclamation!EveryObjectHasOneOwner
    <3> QED BY <2>3, <3>1
  <2>5. Reclamation!Outgoing' = Reclamation!Outgoing
    BY <2>2
  <2>6. \A r \in Readers : rpc'[r] = "reading" =>
          held'[r] \in {nodePtrs'[0]} \cup Reclamation!Outgoing'
                        \cup Reclamation!List(0)' \cup Reclamation!List(1)'
    BY <2>1, <2>2, <2>4, <2>5
  <2>7. \A r \in Readers, e \in 0..1 : rpc'[r] = "reading" /\ held'[r] \in Reclamation!List(e)'
          => e \in {loaded'[r], epoch'}
    BY <2>1, <2>2
  <2>8. \A r \in Readers : rpc'[r] = "reading" /\ loaded'[r] # epoch' => held'[r] = nodePtrs'[0]
    BY <2>2, <2>3
  <2> QED BY <2>6, <2>7, <2>8
<1>12. ASSUME NEW t \in Updaters, Reclamation!AdvanceEpoch(t)
      PROVE  Reclamation!HeldIsSafe'
  \* The current list becomes the previous one: readers of the previous epoch
  \* must not be holding any of it.
  <2>1. /\ phase[t] = "advance" /\ epoch' = 1 - epoch
        /\ UNCHANGED <<nodePtrs, old, rpc, loaded, held, retireLists, finished>>
        /\ phase' = [phase EXCEPT ![t] = phase'[t]] /\ phase'[t] \in {"idle", "exchange"}
    BY <1>12, LeaveTypes DEF Reclamation!AdvanceEpoch, Reclamation!prev
  <2>2. \A r \in Readers : rpc[r] = "reading" /\ loaded[r] # epoch => held[r] = nodePtrs[0]
    BY <2>1
  <2>3. \A r \in Readers, e \in 0..1 : rpc[r] = "reading" /\ held[r] \in Reclamation!List(e) =>
          e = loaded[r] \/ e = 1 - epoch
    <3>1. \A e \in 0..1 : nodePtrs[0] \notin Reclamation!List(e)
      BY DEF Reclamation!EveryObjectHasOneOwner
    <3> QED BY <2>2, <3>1
  <2>4. \A u \in Updaters : u # t => phase[u] = "idle"
    BY <2>1
  <2>5. \A u \in Updaters, r \in Readers : ~Reclamation!PassedBy(u, r)'
    BY <2>1, <2>4
  <2> QED BY <1>c, <2>1, <2>3, <2>5
<1> QED
  BY <1>1, <1>2, <1>3, <1>4, <1>5, <1>6, <1>7, <1>8, <1>9, <1>10, <1>11, <1>12,
     MemoryCases

-----------------------------------------------------------------------------
(* The inductive invariant of the memory side *)

LEMMA MemoryInit == Reclamation!Init => Reclamation!NumaInv
<1> SUFFICES ASSUME Reclamation!Init PROVE Reclamation!NumaInv
  OBVIOUS
<1>0. /\ isNumaAvailable \in BOOLEAN /\ maxNode \in 0..LastNode
      /\ hardwareConcurrency \in 1..MaxConcurrency
      /\ 0 \in Reclamation!Nodes
  BY NumaAssumption DEF Reclamation!Init, Reclamation!Nodes
<1>1. Reclamation!TypeOK
  <2>1. Reclamation!Counters!TypeOK
    BY DEF Reclamation!Init, Reclamation!Counters!Init, Reclamation!Counters!TypeOK,
           Reclamation!Counters!Bytes, Reclamation!Counters!Epochs,
           Reclamation!Counters!NoCall, Reclamation!Counters!EpochReading
  <2>2. value \in [Objects -> Contents \cup {Garbage}]
    BY DEF Reclamation!Init, Contents
  <2>3. /\ epoch \in Reclamation!Epochs /\ nodePtrs \in [Reclamation!Nodes -> Objects]
        /\ heap \subseteq Objects
        /\ rpc \in [Readers -> {"out", "locking", "locked", "reading"}]
        /\ loaded \in [Readers -> Reclamation!Epochs]
        /\ held \in [Readers -> Objects \cup {Null}]
    BY DEF Reclamation!Init, Reclamation!Epochs
  <2>4. /\ phase \in [Updaters -> {"idle", "private", "exchange", "retire", "scan", "advance"}]
        /\ copied \in [Updaters -> Objects \cup {Null}]
        /\ old \in [Updaters -> Objects \cup {Null}]
        /\ node \in [Updaters -> Reclamation!Nodes]
    BY <1>0 DEF Reclamation!Init
  <2>5. /\ finished \in [Reclamation!Nodes -> [Objects -> Nat]]
        /\ retireLists \in [Reclamation!Nodes -> [Reclamation!Epochs -> [Objects -> Nat]]]
    <3>1. Reclamation!EmptyList \in [Objects -> Nat]
      BY DEF Reclamation!EmptyList
    <3> QED BY <3>1 DEF Reclamation!Init
  <2> QED BY <1>0, <2>1, <2>2, <2>3, <2>4, <2>5 DEF Reclamation!TypeOK, Contents
<1>2. /\ Reclamation!MarksAreTrue /\ Reclamation!OneUpdater
      /\ Reclamation!PhasesAreTrue /\ Reclamation!NodesBehindHaveCopy
  BY <1>0, NumaAssumption
  DEF Reclamation!Init, Reclamation!Counters!Init, Reclamation!MarksAreTrue,
      Reclamation!Marked, Reclamation!OneUpdater, Reclamation!PhasesAreTrue,
      Reclamation!NodesBehindHaveCopy, Reclamation!Behind, Reclamation!Nodes
<1>3. Reclamation!NodesAgree
  <2>1. PICK v : value = [o \in Objects |-> IF o \in Reclamation!Published THEN v ELSE Garbage]
    BY DEF Reclamation!Init
  <2>2. \A i \in Reclamation!Nodes :
          nodePtrs[i] \in Objects /\ nodePtrs[i] \in Reclamation!Published
    BY <1>1 DEF Reclamation!TypeOK, Reclamation!Published
  <2> QED BY <2>1, <2>2 DEF Reclamation!NodesAgree
<1>4. ASSUME maxNode = 0 PROVE Reclamation!OneNodeInv
  <2>1. Reclamation!Nodes = {0}
    BY <1>4 DEF Reclamation!Nodes
  <2>2. /\ finished[0] = Reclamation!EmptyList
        /\ \A e \in 0..1 : retireLists[0][e] = Reclamation!EmptyList
    BY <2>1 DEF Reclamation!Init, Reclamation!Epochs
  <2>3. Reclamation!NothingIsListedTwice
    BY <2>2, NothingListed DEF Reclamation!NothingIsListedTwice, Reclamation!Epochs
  <2>4. Reclamation!Pool = {} /\ Reclamation!List(0) = {} /\ Reclamation!List(1) = {}
    BY <2>2, NothingListed DEF Reclamation!Pool, Reclamation!List
  <2>5. Reclamation!Copies = {} /\ Reclamation!Outgoing = {}
    BY DEF Reclamation!Init, Reclamation!Copies, Reclamation!Outgoing
  <2>6. heap = Objects \ {nodePtrs[0]} /\ nodePtrs[0] \in Objects
    BY <2>1 DEF Reclamation!Init, Reclamation!Published
  <2>7. Reclamation!EveryObjectHasOneOwner
    BY <2>4, <2>5, <2>6 DEF Reclamation!EveryObjectHasOneOwner
  <2>8. Reclamation!HeldIsSafe
    BY DEF Reclamation!Init, Reclamation!HeldIsSafe
  <2> QED BY <2>3, <2>7, <2>8 DEF Reclamation!OneNodeInv
<1> QED BY <1>1, <1>2, <1>3, <1>4 DEF Reclamation!NumaInv

LEMMA MemoryStep ==
  ASSUME Reclamation!NumaInv, Reclamation!Next \/ UNCHANGED Reclamation!vars
  PROVE  Reclamation!NumaInv'
<1>0. /\ Reclamation!TypeOK /\ Reclamation!MarksAreTrue /\ Reclamation!OneUpdater
      /\ Reclamation!PhasesAreTrue /\ Reclamation!NodesBehindHaveCopy
      /\ Reclamation!NodesAgree /\ (maxNode = 0 => Reclamation!OneNodeInv)
  BY DEF Reclamation!NumaInv
<1>1. CASE Reclamation!Next
  <2>1. /\ Reclamation!TypeOK' /\ Reclamation!MarksAreTrue' /\ Reclamation!OneUpdater'
        /\ Reclamation!PhasesAreTrue' /\ Reclamation!NodesBehindHaveCopy'
        /\ Reclamation!NodesAgree'
    BY <1>0, <1>1, TypeStep, MarksStep, OneUpdaterStep, PhasesStep, NodesBehindStep,
       NodesAgreeStep
  <2>2. maxNode' = maxNode
    BY <1>1 DEF Reclamation!Next, Reclamation!machine
  <2>3. maxNode = 0 => Reclamation!OneNodeInv'
    <3>1. Reclamation!OneNodeInv =>
            Reclamation!NothingIsListedTwice /\ Reclamation!EveryObjectHasOneOwner
      BY DEF Reclamation!OneNodeInv
    <3>2. maxNode = 0 =>
            /\ Reclamation!NothingIsListedTwice' /\ Reclamation!EveryObjectHasOneOwner'
            /\ Reclamation!HeldIsSafe'
      BY <1>0, <1>1, <3>1, OwnershipStep, HeldStep
    <3> QED BY <3>2 DEF Reclamation!OneNodeInv
  <2> QED BY <2>1, <2>2, <2>3 DEF Reclamation!NumaInv
<1>2. CASE UNCHANGED Reclamation!vars
  <2>1. UNCHANGED <<machine, reclamationVars>>
    BY <1>2
    DEF Reclamation!vars, Reclamation!machine, Reclamation!objectVars,
        Reclamation!counterVars, Reclamation!readerVars, Reclamation!updaterVars,
        machine, reclamationVars
  <2> USE DEF machine, reclamationVars
  <2>2. Reclamation!TypeOK'
    BY <1>0, <2>1 DEF Reclamation!TypeOK, Reclamation!Nodes, Reclamation!Counters!TypeOK
  <2>3. Reclamation!MarksAreTrue' /\ Reclamation!OneUpdater'
    BY <1>0, <2>1 DEF Reclamation!MarksAreTrue, Reclamation!Marked, Reclamation!OneUpdater
  <2>4. Reclamation!PhasesAreTrue'
    BY <1>0, <2>1 DEF Reclamation!PhasesAreTrue, Reclamation!prev
  <2>5. Reclamation!NodesBehindHaveCopy'
    BY <1>0, <2>1 DEF Reclamation!NodesBehindHaveCopy, Reclamation!Behind, Reclamation!Nodes
  <2>6. Reclamation!NodesAgree'
    BY <1>0, <2>1 DEF Reclamation!NodesAgree, Reclamation!NoUpdater, Reclamation!Nodes
  <2>7. maxNode = 0 => Reclamation!OneNodeInv'
    BY <1>0, <2>1
    DEF Reclamation!OneNodeInv, Reclamation!NothingIsListedTwice,
        Reclamation!EveryObjectHasOneOwner, Reclamation!HeldIsSafe, Reclamation!PassedBy,
        Reclamation!Copies, Reclamation!Outgoing, Reclamation!Pool, Reclamation!List,
        Reclamation!Listed
  <2> QED
    BY <2>1, <2>2, <2>3, <2>4, <2>5, <2>6, <2>7 DEF Reclamation!NumaInv
<1> QED BY <1>1, <1>2

\* On one node what a reader holds is published, on its way out or in a list,
\* so it is neither free nor in the pool.
LEMMA HeldIsProtected ==
  Reclamation!NumaInv => Reclamation!ReaderProtectionOnOneNode
<1> SUFFICES ASSUME Reclamation!NumaInv, maxNode = 0, NEW r \in Readers, rpc[r] = "reading"
             PROVE  held[r] \notin heap
                      \cup UNION {Reclamation!Listed(finished[i]) : i \in Reclamation!Nodes}
  BY DEF Reclamation!ReaderProtectionOnOneNode, Reclamation!ReaderProtection
<1>1. Reclamation!Nodes = {0}
  BY DEF Reclamation!Nodes
<1>2. UNION {Reclamation!Listed(finished[i]) : i \in Reclamation!Nodes} = Reclamation!Pool
  BY <1>1 DEF Reclamation!Pool
<1>3. /\ held[r] \in {nodePtrs[0]} \cup Reclamation!Outgoing \cup Reclamation!List(0)
                     \cup Reclamation!List(1)
      /\ Reclamation!EveryObjectHasOneOwner
  BY DEF Reclamation!NumaInv, Reclamation!OneNodeInv, Reclamation!HeldIsSafe
<1> QED BY <1>2, <1>3 DEF Reclamation!EveryObjectHasOneOwner

-----------------------------------------------------------------------------
(* The update protocol: the definitions of its two instances are the same, *)
(* and a step of the class is one of its steps or leaves it alone.         *)

LEMMA ProtoAssumption == Proto!ProtocolAssumption
BY NumaAssumption
DEF Proto!ProtocolAssumption, Proto!Updates, Protocol!Updates,
    IsFiniteSet, Proto!IsFiniteSet

LEMMA SameInv == Protocol!ProtocolInv <=> Proto!ProtocolInv
<1>1. \A S : Protocol!Cardinality(S) = Proto!Cardinality(S)
  BY DEF Protocol!Cardinality, Proto!Cardinality
<1>2. Protocol!TypeOK <=> Proto!TypeOK
  BY DEF Protocol!TypeOK, Protocol!Updates, Protocol!Inside,
         Proto!TypeOK, Proto!Updates, Proto!Inside
<1>3. Protocol!CountMeansOneUpdater <=> Proto!CountMeansOneUpdater
  BY DEF Protocol!CountMeansOneUpdater, Protocol!Registered, Protocol!Inside,
         Proto!CountMeansOneUpdater, Proto!Registered, Proto!Inside
<1>4. Protocol!CountIsExact <=> Proto!CountIsExact
  BY <1>1
  DEF Protocol!CountIsExact, Protocol!Registered, Protocol!Inside, Protocol!Writing,
      Proto!CountIsExact, Proto!Registered, Proto!Inside, Proto!Writing
<1>5. Protocol!LocalsFollowPc <=> Proto!LocalsFollowPc
  BY DEF Protocol!LocalsFollowPc, Proto!LocalsFollowPc
<1>6. Protocol!LoopIsBounded <=> Proto!LoopIsBounded
  BY DEF Protocol!LoopIsBounded, Proto!LoopIsBounded
<1>7. Protocol!UnflushedIsBounded <=> Proto!UnflushedIsBounded
  BY DEF Protocol!UnflushedIsBounded, Proto!UnflushedIsBounded
<1> QED
  BY <1>2, <1>3, <1>4, <1>5, <1>6, <1>7
  DEF Protocol!ProtocolInv, Proto!ProtocolInv

LEMMA SameProtocolStep ==
  ASSUME NEW t \in Updaters
  PROVE  /\ Protocol!TryRegister(t) <=> Proto!TryRegister(t)
         /\ Protocol!LocalStep(t) <=> Proto!LocalStep(t)
         /\ Protocol!HaveCopy(t) <=> Proto!HaveCopy(t)
         /\ Protocol!CallbackReturns(t) <=> Proto!CallbackReturns(t)
         /\ Protocol!Publish(t) <=> Proto!Publish(t)
         /\ Protocol!CheckStep(t) <=> Proto!CheckStep(t)
<1> USE DEF Protocol!queueVars, Protocol!loopVars, Protocol!Goto, Protocol!LatestCall,
            Proto!queueVars, Proto!loopVars, Proto!Goto, Proto!LatestCall
<1>1. Protocol!TryRegister(t) <=> Proto!TryRegister(t)
  BY DEF Protocol!TryRegister, Protocol!Call, Proto!TryRegister, Proto!Call
<1>2. Protocol!Write(t) <=> Proto!Write(t)
  BY DEF Protocol!Write, Protocol!Enqueue, Proto!Write, Proto!Enqueue
<1>3. Protocol!Enter(t) <=> Proto!Enter(t)
  BY DEF Protocol!Enter, Protocol!ExpectAndDrain, Proto!Enter, Proto!ExpectAndDrain
<1>4. Protocol!Read(t) <=> Proto!Read(t)
  BY DEF Protocol!Read, Proto!Read
<1>5. Protocol!Reload(t) <=> Proto!Reload(t)
  BY DEF Protocol!Reload, Proto!Reload
<1>6. Protocol!HaveCopy(t) <=> Proto!HaveCopy(t)
  BY DEF Protocol!HaveCopy, Proto!HaveCopy
<1>7. Protocol!CallbackReturns(t) <=> Proto!CallbackReturns(t)
  BY DEF Protocol!CallbackReturns, Proto!CallbackReturns
<1>8. Protocol!Publish(t) <=> Proto!Publish(t)
  BY DEF Protocol!Publish, Proto!Publish
<1>9. Protocol!Resign(t) <=> Proto!Resign(t)
  BY DEF Protocol!Resign, Protocol!Leave, Proto!Resign, Proto!Leave
<1>10. Protocol!NextBatch(t) <=> Proto!NextBatch(t)
  BY DEF Protocol!NextBatch, Protocol!Again, Proto!NextBatch, Proto!Again
<1> QED
  BY <1>1, <1>2, <1>3, <1>4, <1>5, <1>6, <1>7, <1>8, <1>9, <1>10
  DEF Protocol!LocalStep, Protocol!CheckStep, Proto!LocalStep, Proto!CheckStep

LEMMA NextCases ==
  ASSUME Next, NEW P,
    ASSUME NEW r \in Readers, ReaderStep(r) PROVE P,
    ASSUME NEW t \in Updaters, TryRegister(t) PROVE P,
    ASSUME NEW t \in Updaters, LocalStep(t) PROVE P,
    ASSUME NEW t \in Updaters, GetCopy(t) PROVE P,
    ASSUME NEW t \in Updaters, RunCallback(t) PROVE P,
    ASSUME NEW t \in Updaters, Publish(t) PROVE P,
    ASSUME NEW t \in Updaters, RetireStep(t) PROVE P,
    ASSUME NEW t \in Updaters, CheckStep(t) PROVE P
  PROVE P
BY DEF Next, UpdaterStep

LEMMA ProtocolStep ==
  ASSUME Next
  PROVE  Protocol!Next \/ UNCHANGED protocolVars
<1> USE DEF Protocol!Next, Protocol!UpdaterStep
<1>1. ASSUME NEW r \in Readers, ReaderStep(r) PROVE UNCHANGED protocolVars
  BY <1>1 DEF ReaderStep
<1>2. ASSUME NEW t \in Updaters, TryRegister(t) PROVE Protocol!Next
  BY <1>2 DEF TryRegister
<1>3. ASSUME NEW t \in Updaters, LocalStep(t) PROVE Protocol!Next
  BY <1>3 DEF LocalStep
<1>4. ASSUME NEW t \in Updaters, GetCopy(t) PROVE Protocol!Next
  BY <1>4 DEF GetCopy
<1>5. ASSUME NEW t \in Updaters, RunCallback(t) PROVE Protocol!Next
  BY <1>5 DEF RunCallback
<1>6. ASSUME NEW t \in Updaters, Publish(t) PROVE Protocol!Next
  BY <1>6 DEF Publish
<1>7. ASSUME NEW t \in Updaters, RetireStep(t) PROVE UNCHANGED protocolVars
  BY <1>7 DEF RetireStep
<1>8. ASSUME NEW t \in Updaters, CheckStep(t) PROVE Protocol!Next
  BY <1>8 DEF CheckStep
<1> QED
  BY <1>1, <1>2, <1>3, <1>4, <1>5, <1>6, <1>7, <1>8, NextCases

LEMMA ProtocolInvStep ==
  ASSUME Protocol!ProtocolInv, [Next]_vars
  PROVE  Protocol!ProtocolInv'
<1>1. [Proto!Next]_(Proto!vars)
  <2>1. Protocol!Next => Proto!Next
    BY SameProtocolStep
    DEF Protocol!Next, Protocol!UpdaterStep, Proto!Next, Proto!UpdaterStep
  <2>2. Next => Protocol!Next \/ UNCHANGED protocolVars
    BY ProtocolStep
  <2> QED
    BY <2>1, <2>2 DEF vars, protocolVars, Proto!vars, Proto!queueVars, Proto!loopVars
<1>2. Proto!ProtocolInv'
  BY <1>1, SameInv, ProtoAssumption, Proto!InvStep
<1> QED BY <1>2, SameInv, PTL

-----------------------------------------------------------------------------
(* The two halves together *)

LEMMA PhaseStep ==
  ASSUME ClassInv, Next
  PROVE  ProgressMatchesPhase'
<1>0. /\ pc \in [Updaters -> Protocol!Inside \cup {"idle", "write"}]
      /\ phase \in [Updaters -> {"idle", "private", "exchange", "retire", "scan", "advance"}]
      /\ ProgressMatchesPhase
  BY DEF ClassInv, Protocol!ProtocolInv, Protocol!TypeOK,
         Reclamation!NumaInv, Reclamation!TypeOK
<1> USE <1>0 DEF ProgressMatchesPhase, Protocol!Inside, Protocol!Goto, reclamationVars,
                 protocolVars, Reclamation!At, Reclamation!updaterVars
<1>1. ASSUME NEW r \in Readers, ReaderStep(r) PROVE ProgressMatchesPhase'
  BY <1>1
  DEF ReaderStep, Reclamation!ReaderStep, Reclamation!LoadEpoch, Reclamation!StoreMark,
      Reclamation!LoadPtr, Reclamation!Unlock
<1>2. ASSUME NEW t \in Updaters, TryRegister(t) PROVE ProgressMatchesPhase'
  <2>1. updateCnt = 0 => pc[t] # "callback"
    BY DEF ClassInv, Protocol!ProtocolInv,
           Protocol!CountMeansOneUpdater, Protocol!Registered
  <2>2. \/ pc[t] = "idle" /\ pc' = [pc EXCEPT ![t] = "get_copy"]
        \/ pc[t] = "idle" /\ pc' = [pc EXCEPT ![t] = "write"]
        \/ pc[t] = "callback" /\ pc' = [pc EXCEPT ![t] = "nested_write"]
    BY <1>2, <2>1 DEF TryRegister, Protocol!TryRegister, Protocol!Call
  <2>3. UNCHANGED phase
    BY <1>2 DEF TryRegister
  <2> QED BY <2>2, <2>3
<1>3. ASSUME NEW t \in Updaters, LocalStep(t) PROVE ProgressMatchesPhase'
  <2>1. UNCHANGED phase
    BY <1>3 DEF LocalStep
  <2>2. CASE Protocol!Write(t)
    BY <2>1, <2>2 DEF Protocol!Write, Protocol!Enqueue
  <2>3. CASE Protocol!Enter(t)
    BY <2>1, <2>3 DEF Protocol!Enter, Protocol!ExpectAndDrain
  <2>4. CASE Protocol!Read(t)
    BY <2>1, <2>4 DEF Protocol!Read
  <2>5. CASE Protocol!Reload(t)
    BY <2>1, <2>5 DEF Protocol!Reload
  <2> QED
    BY <1>3, <2>2, <2>3, <2>4, <2>5 DEF LocalStep, Protocol!LocalStep
<1>4. ASSUME NEW t \in Updaters, GetCopy(t) PROVE ProgressMatchesPhase'
  BY <1>4 DEF GetCopy, Protocol!HaveCopy, Reclamation!GetCopy
<1>5. ASSUME NEW t \in Updaters, RunCallback(t) PROVE ProgressMatchesPhase'
  <2>1. /\ pc' = [pc EXCEPT ![t] = pc'[t]] /\ pc'[t] \in {"enter", "drain", "publish"}
        /\ UNCHANGED phase /\ phase[t] = "private"
    BY <1>5 DEF RunCallback, Protocol!CallbackReturns, Reclamation!Apply
  <2> QED BY <2>1
<1>6. ASSUME NEW t \in Updaters, Publish(t) PROVE ProgressMatchesPhase'
  BY <1>6 DEF Publish, Protocol!Publish, Reclamation!Exchange
<1>7. ASSUME NEW t \in Updaters, RetireStep(t) PROVE ProgressMatchesPhase'
  <2>1. phase' = [phase EXCEPT ![t] = phase'[t]] /\ phase'[t] # "private"
    <3>1. Reclamation!TypeOK
      BY DEF ClassInv, Reclamation!NumaInv
    <3>2. CASE Reclamation!Retire(t)
      BY <3>1, <3>2, LeaveTypes DEF Reclamation!Retire, Reclamation!Push
    <3>3. ASSUME NEW r \in Readers, Reclamation!FindReader(t, r)
          PROVE  phase' = [phase EXCEPT ![t] = phase'[t]] /\ phase'[t] # "private"
      BY <3>1, <3>3, LeaveTypes DEF Reclamation!FindReader
    <3>4. CASE Reclamation!AdvanceEpoch(t)
      BY <3>1, <3>4, LeaveTypes DEF Reclamation!AdvanceEpoch
    <3>5. ASSUME NEW r \in Readers, Reclamation!SkipReader(t, r)
          PROVE  phase' = [phase EXCEPT ![t] = phase'[t]] /\ phase'[t] # "private"
      BY <3>5 DEF Reclamation!SkipReader
    <3>6. CASE Reclamation!Reclaim(t)
      BY <3>6 DEF Reclamation!Reclaim, Reclamation!TakeList
    <3>7. CASE Reclamation!Exchange(t)
      BY <3>7 DEF Reclamation!Exchange
    <3> QED
      BY <1>7, <3>2, <3>3, <3>4, <3>5, <3>6, <3>7 DEF RetireStep, Reclamation!RetireStep
  <2>2. pc[t] = "retire" /\ UNCHANGED pc
    BY <1>7 DEF RetireStep
  <2> QED BY <2>1, <2>2
<1>8. ASSUME NEW t \in Updaters, CheckStep(t) PROVE ProgressMatchesPhase'
  BY <1>8
  DEF CheckStep, Protocol!CheckStep, Protocol!Resign, Protocol!Leave,
      Protocol!NextBatch, Protocol!Again
<1> QED
  BY <1>1, <1>2, <1>3, <1>4, <1>5, <1>6, <1>7, <1>8, NextCases

\* A thread about to call get_copy is the updater, and there is no other.
LEMMA NoUpdaterBeforeCopy ==
  ASSUME ClassInv, NEW t \in Updaters, pc[t] = "get_copy"
  PROVE  Reclamation!NoUpdater
BY DEF ClassInv, Protocol!ProtocolInv, Protocol!TypeOK,
       Protocol!CountMeansOneUpdater, Protocol!Registered, Protocol!Inside,
       ProgressMatchesPhase, Reclamation!NoUpdater

\* What a callback leaves is the content of a T.
LEMMA CallbackContent ==
  ASSUME ClassInv, NEW t \in Updaters, RunCallback(t)
  PROVE  value[copied[t]] \cup {running[t]} \in Contents
<1>1. running[t] \in Protocol!Updates
  BY DEF RunCallback, ClassInv, Protocol!ProtocolInv, Protocol!TypeOK,
         Protocol!LocalsFollowPc, Protocol!CallbackReturns
<1>2. copied[t] \in Objects
  BY DEF RunCallback, Reclamation!Apply, Reclamation!At, ClassInv, Reclamation!NumaInv,
         Reclamation!PhasesAreTrue, Reclamation!TypeOK
<1>3. value[copied[t]] \in Contents \cup {Garbage}
  BY <1>2 DEF ClassInv, Reclamation!NumaInv, Reclamation!TypeOK, Contents
<1> QED
  BY <1>1, <1>3, NumaAssumption DEF Contents, Garbage

\* A step of the class is a step of NumaReclamation or leaves it alone.
LEMMA ReclamationStep ==
  ASSUME ClassInv, Next
  PROVE  Reclamation!Next \/ UNCHANGED <<machine, reclamationVars>>
<1>0. UNCHANGED machine /\ UNCHANGED Reclamation!machine
  BY DEF Next, machine, Reclamation!machine
<1> USE <1>0 DEF Reclamation!Next
<1>1. ASSUME NEW r \in Readers, ReaderStep(r) PROVE Reclamation!Next
  BY <1>1 DEF ReaderStep
<1>2. ASSUME NEW t \in Updaters, TryRegister(t) PROVE UNCHANGED reclamationVars
  BY <1>2 DEF TryRegister
<1>3. ASSUME NEW t \in Updaters, LocalStep(t) PROVE UNCHANGED reclamationVars
  BY <1>3 DEF LocalStep
<1>4. ASSUME NEW t \in Updaters, GetCopy(t) PROVE Reclamation!Next
  BY <1>4, NoUpdaterBeforeCopy DEF GetCopy, Protocol!HaveCopy, Reclamation!UpdaterStep
<1>5. ASSUME NEW t \in Updaters, RunCallback(t) PROVE Reclamation!Next
  BY <1>5, CallbackContent DEF RunCallback, Contents, Reclamation!UpdaterStep
<1>6. ASSUME NEW t \in Updaters, Publish(t) PROVE Reclamation!Next
  BY <1>6 DEF Publish, Reclamation!UpdaterStep
<1>7. ASSUME NEW t \in Updaters, RetireStep(t) PROVE Reclamation!Next
  BY <1>7 DEF RetireStep, Reclamation!UpdaterStep
<1>8. ASSUME NEW t \in Updaters, CheckStep(t) PROVE UNCHANGED reclamationVars
  BY <1>8 DEF CheckStep
<1> QED
  BY <1>1, <1>2, <1>3, <1>4, <1>5, <1>6, <1>7, <1>8, NextCases

LEMMA ReclamationVars ==
  UNCHANGED Reclamation!vars <=> UNCHANGED <<machine, reclamationVars>>
BY DEF machine, reclamationVars, Reclamation!vars, Reclamation!machine,
       Reclamation!objectVars, Reclamation!counterVars, Reclamation!readerVars,
       Reclamation!updaterVars

-----------------------------------------------------------------------------
(* Without NUMA support: where an update is. *)

LEMMA WrittenAtEnd ==
  ASSUME NEW S, NEW q \in Seq(S), NEW e \in S, NEW p, p = Append(q, e), NEW u
  PROVE  (\E i \in 1..Len(p) : p[i] = u) <=> (\E i \in 1..Len(q) : q[i] = u) \/ u = e
<1>1. Len(q) \in Nat /\ Len(p) = Len(q) + 1 /\ p[Len(p)] = e
  OBVIOUS
<1>2. \A i \in 1..Len(q) : p[i] = q[i]
  OBVIOUS
<1>3. /\ \A i \in 1..Len(p) : i = Len(p) \/ i \in 1..Len(q)
      /\ \A i \in 1..Len(q) : i \in 1..Len(p)
      /\ Len(p) \in 1..Len(p)
  BY <1>1
<1> QED BY <1>1, <1>2, <1>3, Zenon

LEMMA ReadAtFront ==
  ASSUME NEW S, NEW q \in Seq(S), q # <<>>, NEW p, p = Tail(q), NEW u
  PROVE  (\E i \in 1..Len(q) : q[i] = u) <=> (\E i \in 1..Len(p) : p[i] = u) \/ u = Head(q)
<1>1. Len(q) \in Nat \ {0} /\ Len(p) = Len(q) - 1 /\ q[1] = Head(q)
  OBVIOUS
<1>2. \A i \in 1..Len(p) : p[i] = q[i + 1]
  BY <1>1
<1>3. /\ \A i \in 1..Len(p) : i + 1 \in 1..Len(q)
      /\ \A i \in 1..Len(q) : i = 1 \/ (i - 1 \in 1..Len(p) /\ (i - 1) + 1 = i)
      /\ 1 \in 1..Len(q)
  BY <1>1
<1>4. \A i \in 1..Len(q) : i = 1 \/ (i - 1 \in 1..Len(p) /\ q[i] = p[i - 1])
  BY <1>2, <1>3
<1> QED BY <1>1, <1>2, <1>3, <1>4, Zenon

\* A call adds its update to the submitted ones and to those on their way.
LEMMA CallOnItsWay ==
  ASSUME Protocol!ProtocolInv, NEW t \in Updaters, Protocol!TryRegister(t),
         NEW u \in Protocol!Updates
  PROVE  /\ u \in Protocol!Submitted' <=> u \in Protocol!Submitted \/ u = <<t, calls[t] + 1>>
         /\ OnItsWay(u)' <=> OnItsWay(u) \/ u = <<t, calls[t] + 1>>
<1> DEFINE u0 == <<t, calls[t] + 1>>
<1>1. /\ pc \in [Updaters -> Protocol!Inside \cup {"idle", "write"}]
      /\ running \in [Updaters -> Protocol!Updates \cup {NoUpdate}]
      /\ calls \in [Updaters -> 0..MaxCalls] /\ MaxCalls \in Nat
      /\ updateQueue \in Seq(Protocol!Updates)
  BY NumaAssumption DEF Protocol!ProtocolInv, Protocol!TypeOK
<1>2. /\ pc[t] \in {"idle", "callback"} /\ calls[t] < MaxCalls
      /\ calls' = [calls EXCEPT ![t] = @ + 1] /\ UNCHANGED updateQueue
  BY DEF Protocol!TryRegister, Protocol!Call
<1>3. /\ calls'[t] = calls[t] + 1 /\ calls[t] \in Nat
      /\ \A w \in Updaters : w # t => calls'[w] = calls[w]
  BY <1>1, <1>2
<1>4. u \in Protocol!Submitted' <=> u \in Protocol!Submitted \/ u = u0
  <2>1. /\ u = <<u[1], u[2]>> /\ u[1] \in Updaters /\ u[2] \in Nat
        /\ u \in Protocol!Submitted <=> u[2] <= calls[u[1]]
        /\ u \in Protocol!Submitted' <=> u[2] <= calls'[u[1]]
    BY <1>1 DEF Protocol!Updates, Protocol!Submitted
  <2>2. CASE u[1] # t
    BY <1>3, <2>1, <2>2
  <2>3. CASE u[1] = t
    <3>1. u = u0 <=> u[2] = calls[t] + 1
      BY <2>1, <2>3
    <3>2. u[2] <= calls[t] + 1 <=> u[2] <= calls[t] \/ u[2] = calls[t] + 1
      BY <1>3, <2>1
    <3> QED BY <1>3, <2>1, <2>3, <3>1, <3>2
  <2> QED BY <2>2, <2>3
<1>5. Queued(u)' <=> Queued(u)
  BY <1>2 DEF Queued
<1>6. CASE updateCnt = 0
  \* t becomes the updater and was none before.
  <2>1. pc[t] = "idle" /\ running[t] = NoUpdate
    BY <1>2, <1>6
    DEF Protocol!ProtocolInv, Protocol!LocalsFollowPc,
        Protocol!CountMeansOneUpdater, Protocol!Registered, Protocol!Inside
  <2>2. running' = [running EXCEPT ![t] = u0] /\ pc' = [pc EXCEPT ![t] = "get_copy"]
    BY <1>3, <1>6 DEF Protocol!TryRegister, Protocol!Call, Protocol!LatestCall,
                      Protocol!Goto
  <2>3. Protocol!Writing' = Protocol!Writing /\ t \notin Protocol!Writing
    BY <1>1, <2>1, <2>2 DEF Protocol!Writing
  <2>4. Written(u)' <=> Written(u)
    BY <1>3, <2>3 DEF Written, Protocol!Writing
  <2>5. Running(u)' <=> Running(u) \/ u = u0
    BY <1>1, <2>1, <2>2, NumaAssumption DEF Running
  <2> QED BY <1>4, <1>5, <2>4, <2>5 DEF OnItsWay
<1>7. CASE updateCnt # 0
  <2>1. /\ UNCHANGED running
        /\ \E label \in {"write", "nested_write"} : pc' = [pc EXCEPT ![t] = label]
    BY <1>2, <1>7 DEF Protocol!TryRegister, Protocol!Call, Protocol!Goto
  <2>2. Protocol!Writing' = Protocol!Writing \cup {t} /\ t \notin Protocol!Writing
    BY <1>1, <1>2, <2>1 DEF Protocol!Writing
  <2>3. Written(u)' <=> Written(u) \/ u = u0
    BY <1>3, <2>2 DEF Written, Protocol!Writing
  <2>4. Running(u)' <=> Running(u)
    BY <2>1 DEF Running
  <2> QED BY <1>4, <1>5, <2>3, <2>4 DEF OnItsWay
<1> QED BY <1>6, <1>7

\* A callback that returns is on its way no longer, and no other is affected.
LEMMA CallbackOnItsWay ==
  ASSUME Protocol!ProtocolInv, NEW t \in Updaters, Protocol!CallbackReturns(t),
         NEW u \in Protocol!Updates
  PROVE  /\ u \in Protocol!Submitted' <=> u \in Protocol!Submitted
         /\ OnItsWay(running[t])
         /\ OnItsWay(u)' \/ u = running[t] <=> OnItsWay(u) \/ u = running[t]
<1>1. /\ pc \in [Updaters -> Protocol!Inside \cup {"idle", "write"}]
      /\ running \in [Updaters -> Protocol!Updates \cup {NoUpdate}]
  BY DEF Protocol!ProtocolInv, Protocol!TypeOK
<1>2. /\ UNCHANGED <<updateQueue, calls>>
      /\ running' = [running EXCEPT ![t] = NoUpdate]
      /\ pc[t] = "callback"
      /\ \E label \in {"enter", "drain", "publish"} : pc' = [pc EXCEPT ![t] = label]
  BY DEF Protocol!CallbackReturns, Protocol!queueVars, Protocol!Goto
<1>3. Protocol!Writing' = Protocol!Writing
  BY <1>1, <1>2 DEF Protocol!Writing
<1>4. (Queued(u)' <=> Queued(u)) /\ (Written(u)' <=> Written(u))
  BY <1>2, <1>3 DEF Queued, Written
<1>5. Running(running[t]) /\ (Running(u)' \/ u = running[t] <=> Running(u) \/ u = running[t])
  BY <1>1, <1>2, NumaAssumption DEF Running
<1> QED BY <1>2, <1>4, <1>5 DEF OnItsWay, Protocol!Submitted

\* The other steps of update at most move an update along its way.
LEMMA OthersOnItsWay ==
  ASSUME Protocol!ProtocolInv, NEW t \in Updaters,
         \/ Protocol!LocalStep(t)
         \/ Protocol!HaveCopy(t)
         \/ Protocol!Publish(t)
         \/ Protocol!CheckStep(t),
         NEW u \in Protocol!Updates
  PROVE  /\ u \in Protocol!Submitted' <=> u \in Protocol!Submitted
         /\ OnItsWay(u)' <=> OnItsWay(u)
<1>1. /\ pc \in [Updaters -> Protocol!Inside \cup {"idle", "write"}]
      /\ running \in [Updaters -> Protocol!Updates \cup {NoUpdate}]
      /\ updateQueue \in Seq(Protocol!Updates)
      /\ calls \in [Updaters -> 0..MaxCalls] /\ MaxCalls \in Nat
  BY NumaAssumption DEF Protocol!ProtocolInv, Protocol!TypeOK
<1>2. UNCHANGED calls
  BY DEF Protocol!LocalStep, Protocol!Write, Protocol!Enqueue, Protocol!Enter,
         Protocol!ExpectAndDrain, Protocol!Read, Protocol!Reload, Protocol!HaveCopy,
         Protocol!Publish, Protocol!CheckStep, Protocol!Resign, Protocol!Leave,
         Protocol!NextBatch, Protocol!Again
<1>3. u \in Protocol!Submitted' <=> u \in Protocol!Submitted
  BY <1>2 DEF Protocol!Submitted
<1>4. CASE Protocol!Write(t)
  <2> DEFINE u0 == <<t, calls[t]>>
  <2>1. /\ pc[t] \in {"write", "nested_write"} /\ UNCHANGED running
        /\ updateQueue' = Append(updateQueue, u0)
        /\ \E label \in {"idle", "callback"} : pc' = [pc EXCEPT ![t] = label]
    BY <1>4 DEF Protocol!Write, Protocol!Enqueue, Protocol!LatestCall, Protocol!Goto
  <2>2. u0 \in Protocol!Updates
    <3>1. calls[t] \in 1..MaxCalls
      BY <1>1, <2>1
      DEF Protocol!ProtocolInv, Protocol!LocalsFollowPc
    <3> QED BY <3>1 DEF Protocol!Updates
  <2>3. Queued(u)' <=> Queued(u) \/ u = u0
    BY <1>1, <2>1, <2>2, WrittenAtEnd DEF Queued
  <2>4. Protocol!Writing' = Protocol!Writing \ {t} /\ t \in Protocol!Writing
    BY <1>1, <2>1 DEF Protocol!Writing
  <2>5. Written(u)' \/ u = u0 <=> Written(u)
    BY <1>2, <2>4 DEF Written
  <2>6. Running(u)' <=> Running(u)
    BY <2>1 DEF Running
  <2> QED BY <1>3, <2>3, <2>5, <2>6 DEF OnItsWay
<1>5. CASE Protocol!Read(t)
  <2>1. /\ pc[t] = "drain" /\ updateQueue # <<>> /\ pc' = [pc EXCEPT ![t] = "callback"]
        /\ updateQueue' = Tail(updateQueue)
        /\ running' = [running EXCEPT ![t] = Head(updateQueue)]
    BY <1>5 DEF Protocol!Read, Protocol!Goto
  <2>2. Queued(u) <=> Queued(u)' \/ u = Head(updateQueue)
    <3> DEFINE In(q) == \E i \in 1..Len(q) : q[i] = u
    <3>1. \A S : \A q \in Seq(S) :
            q # <<>> => (In(q) <=> In(Tail(q)) \/ u = Head(q))
      BY ReadAtFront
    <3> HIDE DEF In
    <3>2. In(updateQueue) <=> In(Tail(updateQueue)) \/ u = Head(updateQueue)
      BY <1>1, <2>1, <3>1
    <3> USE DEF In
    <3> QED BY <2>1, <3>2 DEF Queued
  <2>3. running[t] = NoUpdate
    BY <2>1 DEF Protocol!ProtocolInv, Protocol!LocalsFollowPc
  <2>4. Running(u)' <=> Running(u) \/ u = Head(updateQueue)
    BY <1>1, <2>1, <2>3, NumaAssumption DEF Running
  <2>5. Protocol!Writing' = Protocol!Writing
    BY <1>1, <2>1 DEF Protocol!Writing
  <2>6. Written(u)' <=> Written(u)
    BY <1>2, <2>5 DEF Written
  <2> QED BY <1>3, <2>2, <2>4, <2>6 DEF OnItsWay
<1>6. CASE /\ UNCHANGED <<running, updateQueue>>
           /\ pc[t] \notin {"write", "nested_write"}
           /\ \E label \in {"get_copy", "callback", "drain", "publish", "retire", "idle"} :
                pc' = [pc EXCEPT ![t] = label]
  <2>1. Protocol!Writing' = Protocol!Writing
    BY <1>1, <1>6 DEF Protocol!Writing
  <2> QED BY <1>2, <1>3, <1>6, <2>1 DEF OnItsWay, Running, Queued, Written
<1>7. \/ Protocol!Enter(t) \/ Protocol!Reload(t) \/ Protocol!HaveCopy(t)
      \/ Protocol!Publish(t) \/ Protocol!CheckStep(t)
      => /\ UNCHANGED <<running, updateQueue>>
         /\ pc[t] \notin {"write", "nested_write"}
         /\ \E label \in {"get_copy", "callback", "drain", "publish", "retire", "idle"} :
              pc' = [pc EXCEPT ![t] = label]
  BY DEF Protocol!Enter, Protocol!ExpectAndDrain, Protocol!Reload, Protocol!HaveCopy,
         Protocol!Publish, Protocol!CheckStep, Protocol!Resign, Protocol!Leave,
         Protocol!NextBatch, Protocol!Again, Protocol!Goto, Protocol!queueVars
<1> QED BY <1>4, <1>5, <1>6, <1>7 DEF Protocol!LocalStep

-----------------------------------------------------------------------------
(* Without NUMA support: what has run stays in the objects. *)

\* A step submits an update or not, and loses none on its way.
MovesOn(u) ==
  /\ u \in Protocol!Submitted => u \in Protocol!Submitted'
  /\ u \in Protocol!Submitted' => u \in Protocol!Submitted \/ OnItsWay(u)'
  /\ OnItsWay(u) => OnItsWay(u)'
  /\ OnItsWay(u)' => OnItsWay(u) \/ u \in Protocol!Submitted'

\* Such a step loses nothing if it leaves the published object and the private
\* copy as they are.
LEMMA LostNothingKept ==
  ASSUME NothingIsLost, \A u \in Protocol!Updates : MovesOn(u),
         UNCHANGED <<nodePtrs, copied>>,
         value'[nodePtrs[0]] = value[nodePtrs[0]],
         \A t \in Updaters : copied[t] # Null => value'[copied[t]] = value[copied[t]]
  PROVE  NothingIsLost'
<1>1. \A u : Applied(u)' <=> Applied(u)
  BY DEF Applied
<1>2. Protocol!Updates' = Protocol!Updates
  BY DEF Protocol!Updates
<1>3. \A u \in Protocol!Updates : u \in Protocol!Submitted' <=> Applied(u)' \/ OnItsWay(u)'
  BY <1>1 DEF NothingIsLost, MovesOn
<1>4. /\ value'[nodePtrs'[0]] \subseteq Protocol!Updates
      /\ \A t \in Updaters : copied'[t] # Null =>
           /\ value'[nodePtrs'[0]] \subseteq value'[copied'[t]]
           /\ value'[copied'[t]] \subseteq Protocol!Updates
  BY DEF NothingIsLost
<1> QED BY <1>2, <1>3, <1>4 DEF NothingIsLost

\* Only the updater has a copy.
LEMMA OnlyCopy ==
  ASSUME Reclamation!NumaInv, NEW t \in Updaters, phase[t] # "idle"
  PROVE  \A w \in Updaters : copied[w] # Null => w = t
BY DEF Reclamation!NumaInv, Reclamation!OneUpdater, Reclamation!PhasesAreTrue

\* The steps of readers and of retire change neither the published object nor the
\* copy: what a scan frees comes out of the pool.
LEMMA ContentKept ==
  ASSUME Reclamation!NumaInv, maxNode = 0,
         \/ \E r \in Readers : Reclamation!ReaderStep(r)
         \/ \E t \in Updaters : Reclamation!RetireStep(t)
  PROVE  /\ UNCHANGED <<nodePtrs, copied>>
         /\ value'[nodePtrs[0]] = value[nodePtrs[0]]
         /\ \A t \in Updaters : copied[t] # Null => value'[copied[t]] = value[copied[t]]
<1>1. CASE \E t \in Updaters : Reclamation!Reclaim(t)
  <2>1. PICK t \in Updaters : Reclamation!Reclaim(t)
    BY <1>1
  <2>2. node[t] = 0
    BY DEF Reclamation!NumaInv, Reclamation!TypeOK, Reclamation!Nodes
  <2>3. /\ UNCHANGED <<nodePtrs, copied>>
        /\ value' = [o \in Objects |-> IF o \in Reclamation!Pool THEN Garbage ELSE value[o]]
    BY <2>1, <2>2 DEF Reclamation!Reclaim, Reclamation!TakeList, Reclamation!Pool, Garbage
  <2>4. nodePtrs[0] \in Objects \ Reclamation!Pool
    BY DEF Reclamation!NumaInv, Reclamation!TypeOK, Reclamation!Nodes,
           Reclamation!OneNodeInv, Reclamation!EveryObjectHasOneOwner
  <2>5. \A w \in Updaters : copied[w] # Null => copied[w] \in Objects \ Reclamation!Pool
    <3>1. Reclamation!Copies \cap Reclamation!Pool = {}
      BY DEF Reclamation!NumaInv, Reclamation!OneNodeInv,
             Reclamation!EveryObjectHasOneOwner
    <3> QED BY <3>1 DEF Reclamation!NumaInv, Reclamation!TypeOK, Reclamation!Copies
  <2> QED BY <2>3, <2>4, <2>5
<1>2. CASE ~\E t \in Updaters : Reclamation!Reclaim(t)
  <2>1. UNCHANGED <<nodePtrs, copied, value>>
    BY <1>2
    DEF Reclamation!ReaderStep, Reclamation!LoadEpoch, Reclamation!StoreMark,
        Reclamation!LoadPtr, Reclamation!Unlock, Reclamation!RetireStep,
        Reclamation!Retire, Reclamation!Push, Reclamation!SkipReader,
        Reclamation!FindReader, Reclamation!AdvanceEpoch, Reclamation!objectVars,
        Reclamation!updaterVars
  <2> QED BY <2>1
<1> QED BY <1>1, <1>2

\* get_copy: the copy is one of the published object.
LEMMA LostNothingByCopy ==
  ASSUME ClassInv, ~isNumaAvailable, NEW t \in Updaters, GetCopy(t)
  PROVE  NothingIsLost'
<1>1. PICK o \in Objects, i \in Reclamation!Nodes : Reclamation!GetCopy(t, o, i)
  BY DEF GetCopy
<1>2. /\ Reclamation!TypeOK /\ Reclamation!PhasesAreTrue /\ NothingIsLost
      /\ Reclamation!EveryObjectHasOneOwner /\ i = 0 /\ 0 \in Reclamation!Nodes
  BY DEF ClassInv, Reclamation!NumaInv, Reclamation!OneNodeInv, Reclamation!Nodes
<1>3. \A w \in Updaters : copied[w] = Null
  BY <1>2, NoUpdaterBeforeCopy
  DEF GetCopy, Protocol!HaveCopy, Reclamation!NoUpdater, Reclamation!PhasesAreTrue
<1>4. o # nodePtrs[0]
  BY <1>1, <1>2
  DEF Reclamation!GetCopy, Reclamation!EveryObjectHasOneOwner, Reclamation!Pool
<1>5. /\ UNCHANGED nodePtrs /\ copied' = [copied EXCEPT ![t] = o]
      /\ value' = [value EXCEPT ![o] = value[nodePtrs[0]]]
  BY <1>1, <1>2 DEF Reclamation!GetCopy
<1>6. copied'[t] = o /\ \A w \in Updaters : w # t => copied'[w] = Null
  BY <1>2, <1>3, <1>5 DEF Reclamation!TypeOK
<1>7. value'[o] = value[nodePtrs[0]] /\ value'[nodePtrs'[0]] = value[nodePtrs[0]]
  BY <1>2, <1>4, <1>5 DEF Reclamation!TypeOK
<1>8. /\ \A u : Applied(u) <=> u \in value[nodePtrs[0]]
      /\ \A u : Applied(u)' <=> u \in value[nodePtrs[0]]
  BY <1>3, <1>6, <1>7 DEF Applied
<1>9. \A u \in Protocol!Updates :
        /\ u \in Protocol!Submitted' <=> u \in Protocol!Submitted
        /\ OnItsWay(u)' <=> OnItsWay(u)
  BY OthersOnItsWay DEF GetCopy, ClassInv
<1>10. Protocol!Updates' = Protocol!Updates
  BY DEF Protocol!Updates
<1>11. value[nodePtrs[0]] \subseteq Protocol!Updates
  BY <1>2 DEF NothingIsLost
<1>12. \A u \in Protocol!Updates : u \in Protocol!Submitted' <=> Applied(u)' \/ OnItsWay(u)'
  BY <1>2, <1>8, <1>9 DEF NothingIsLost
<1>13. \A w \in Updaters : copied'[w] # Null => value'[copied'[w]] = value[nodePtrs[0]]
  BY <1>6, <1>7
<1> QED
  BY <1>7, <1>10, <1>11, <1>12, <1>13 DEF NothingIsLost

\* A callback: what was on its way is in the copy now.
LEMMA LostNothingByCallback ==
  ASSUME ClassInv, ~isNumaAvailable, NEW t \in Updaters, RunCallback(t)
  PROVE  NothingIsLost'
<1> DEFINE u0 == running[t]
           c == copied[t]
<1>1. /\ Reclamation!NumaInv /\ Reclamation!TypeOK /\ NothingIsLost /\ maxNode = 0
      /\ Reclamation!EveryObjectHasOneOwner /\ 0 \in Reclamation!Nodes
  BY DEF ClassInv, Reclamation!NumaInv, Reclamation!OneNodeInv, Reclamation!Nodes
<1>2. /\ phase[t] = "private" /\ UNCHANGED <<nodePtrs, copied>>
      /\ value' = [value EXCEPT ![c] = value[c] \cup {u0}]
  BY DEF RunCallback, Reclamation!Apply, Reclamation!At, Reclamation!updaterVars
<1>3. c \in Objects \ {Null}
  BY <1>1, <1>2, NumaAssumption
  DEF Reclamation!NumaInv, Reclamation!TypeOK, Reclamation!PhasesAreTrue
<1>4. \A w \in Updaters : copied[w] # Null => w = t
  BY <1>1, <1>2, OnlyCopy
<1>5. c # nodePtrs[0]
  BY <1>1, <1>3 DEF Reclamation!EveryObjectHasOneOwner, Reclamation!Copies
<1>6. value'[c] = value[c] \cup {u0} /\ value'[nodePtrs[0]] = value[nodePtrs[0]]
  BY <1>1, <1>2, <1>3, <1>5 DEF Reclamation!TypeOK
<1>7. u0 \in Protocol!Updates
  BY DEF RunCallback, ClassInv, Protocol!ProtocolInv, Protocol!TypeOK,
         Protocol!LocalsFollowPc, Protocol!CallbackReturns
<1>8. \A u : Applied(u)' <=> Applied(u) \/ u = u0
  BY <1>2, <1>3, <1>4, <1>6 DEF Applied
<1>9. \A u \in Protocol!Updates :
        /\ u \in Protocol!Submitted' <=> u \in Protocol!Submitted
        /\ OnItsWay(u0)
        /\ OnItsWay(u)' \/ u = u0 <=> OnItsWay(u) \/ u = u0
  BY CallbackOnItsWay DEF RunCallback, ClassInv
<1>10. Protocol!Updates' = Protocol!Updates
  BY DEF Protocol!Updates
<1>11. \A u \in Protocol!Updates : u \in Protocol!Submitted' <=> Applied(u)' \/ OnItsWay(u)'
  BY <1>1, <1>7, <1>8, <1>9 DEF NothingIsLost
<1>12. value[nodePtrs[0]] \subseteq value[c] /\ value[c] \subseteq Protocol!Updates
  BY <1>1, <1>3 DEF NothingIsLost
<1>13. \A w \in Updaters : copied'[w] # Null =>
         /\ value'[nodePtrs'[0]] \subseteq value'[copied'[w]]
         /\ value'[copied'[w]] \subseteq Protocol!Updates
  BY <1>2, <1>4, <1>6, <1>7, <1>12
<1>14. value'[nodePtrs'[0]] \subseteq Protocol!Updates
  BY <1>1, <1>2, <1>6 DEF NothingIsLost
<1> QED
  BY <1>10, <1>11, <1>13, <1>14 DEF NothingIsLost

\* The exchange: the copy takes the place of an object it has everything of.
LEMMA LostNothingByExchange ==
  ASSUME ClassInv, ~isNumaAvailable, NEW t \in Updaters, Reclamation!Exchange(t),
         \A u \in Protocol!Updates :
           /\ u \in Protocol!Submitted' <=> u \in Protocol!Submitted
           /\ OnItsWay(u)' <=> OnItsWay(u)
  PROVE  NothingIsLost'
<1> DEFINE c == copied[t]
<1>1. /\ Reclamation!NumaInv /\ Reclamation!TypeOK /\ NothingIsLost /\ maxNode = 0
      /\ 0 \in Reclamation!Nodes
  BY DEF ClassInv, Reclamation!NumaInv, Reclamation!Nodes
<1>a. node[t] = 0
  <2>1. node[t] \in 0..0
    BY <1>1 DEF Reclamation!TypeOK, Reclamation!Nodes
  <2> QED BY <2>1
<1>2. /\ phase[t] \in {"private", "exchange"} /\ UNCHANGED value
      /\ nodePtrs' = [nodePtrs EXCEPT ![0] = c]
      /\ copied' = [copied EXCEPT ![t] = Null]
  BY <1>1, <1>a DEF Reclamation!Exchange, Reclamation!At
<1>3. c # Null
  BY <1>1, <1>2 DEF Reclamation!NumaInv, Reclamation!PhasesAreTrue
<1>4. \A w \in Updaters : copied[w] # Null => w = t
  BY <1>1, <1>2, OnlyCopy
<1>5. nodePtrs'[0] = c /\ \A w \in Updaters : copied'[w] = Null
  BY <1>1, <1>2, <1>4 DEF Reclamation!TypeOK
<1>6. value[nodePtrs[0]] \subseteq value[c] /\ value[c] \subseteq Protocol!Updates
  BY <1>1, <1>3 DEF NothingIsLost
<1>7. \A u : Applied(u)' <=> Applied(u)
  BY <1>2, <1>3, <1>4, <1>5, <1>6 DEF Applied
<1>8. Protocol!Updates' = Protocol!Updates
  BY DEF Protocol!Updates
<1>9. \A u \in Protocol!Updates : u \in Protocol!Submitted' <=> Applied(u)' \/ OnItsWay(u)'
  BY <1>1, <1>7 DEF NothingIsLost
<1> QED
  BY <1>2, <1>5, <1>6, <1>8, <1>9 DEF NothingIsLost

\* No step of the class loses an update.
LEMMA LostNothingStep ==
  ASSUME ClassInv, ~isNumaAvailable, Next
  PROVE  NothingIsLost'
<1>0. NothingIsLost /\ maxNode = 0 /\ Reclamation!NumaInv /\ Protocol!ProtocolInv
  BY DEF ClassInv
<1>a. ASSUME UNCHANGED protocolVars, NEW u \in Protocol!Updates
      PROVE  /\ u \in Protocol!Submitted' <=> u \in Protocol!Submitted
             /\ OnItsWay(u)' <=> OnItsWay(u)
  BY <1>a DEF protocolVars, Protocol!Submitted, OnItsWay, Running, Queued, Written,
              Protocol!Writing, Protocol!Updates
<1>b. ASSUME UNCHANGED reclamationVars
      PROVE  /\ UNCHANGED <<nodePtrs, copied>>
             /\ value'[nodePtrs[0]] = value[nodePtrs[0]]
             /\ \A t \in Updaters : copied[t] # Null => value'[copied[t]] = value[copied[t]]
  BY <1>b DEF reclamationVars
<1>1. ASSUME NEW r \in Readers, ReaderStep(r) PROVE NothingIsLost'
  <2>1. UNCHANGED protocolVars
    BY <1>1 DEF ReaderStep
  <2>2. \A u \in Protocol!Updates : MovesOn(u)
    BY <1>a, <2>1 DEF MovesOn
  <2> QED BY <1>0, <1>1, <2>2, ContentKept, LostNothingKept DEF ReaderStep
<1>2. ASSUME NEW t \in Updaters, TryRegister(t) PROVE NothingIsLost'
  <2>1. \A u \in Protocol!Updates : MovesOn(u)
    BY <1>0, <1>2, CallOnItsWay DEF TryRegister, MovesOn
  <2>2. UNCHANGED reclamationVars
    BY <1>2 DEF TryRegister
  <2> QED BY <1>0, <1>b, <2>1, <2>2, LostNothingKept
<1>3. ASSUME NEW t \in Updaters, LocalStep(t) \/ CheckStep(t) PROVE NothingIsLost'
  <2>1. \A u \in Protocol!Updates : MovesOn(u)
    BY <1>0, <1>3, OthersOnItsWay DEF LocalStep, CheckStep, MovesOn
  <2>2. UNCHANGED reclamationVars
    BY <1>3 DEF LocalStep, CheckStep
  <2> QED BY <1>0, <1>b, <2>1, <2>2, LostNothingKept
<1>4. ASSUME NEW t \in Updaters, GetCopy(t) PROVE NothingIsLost'
  BY <1>4, LostNothingByCopy
<1>5. ASSUME NEW t \in Updaters, RunCallback(t) PROVE NothingIsLost'
  BY <1>5, LostNothingByCallback
<1>6. ASSUME NEW t \in Updaters, Publish(t) PROVE NothingIsLost'
  BY <1>0, <1>6, OthersOnItsWay, LostNothingByExchange DEF Publish
<1>7. ASSUME NEW t \in Updaters, RetireStep(t) PROVE NothingIsLost'
  <2>1. UNCHANGED protocolVars
    BY <1>7 DEF RetireStep
  <2>2. CASE Reclamation!Exchange(t)
    BY <1>a, <2>1, <2>2, LostNothingByExchange
  <2>3. CASE Reclamation!RetireStep(t)
    <3>1. \A u \in Protocol!Updates : MovesOn(u)
      BY <1>a, <2>1 DEF MovesOn
    <3> QED BY <1>0, <2>3, <3>1, ContentKept, LostNothingKept
  <2> QED BY <1>7, <2>2, <2>3 DEF RetireStep
<1> QED
  BY <1>1, <1>2, <1>3, <1>4, <1>5, <1>6, <1>7, NextCases

-----------------------------------------------------------------------------
(* The theorems *)

LEMMA ClassInit == Init => ClassInv
<1> SUFFICES ASSUME Init PROVE ClassInv
  OBVIOUS
<1>1. Protocol!Init <=> Proto!Init
  BY DEF Protocol!Init, Proto!Init
<1>2. Protocol!ProtocolInv
  BY <1>1, ProtoAssumption, SameInv, Proto!ProtocolInit DEF Init
<1>3. ProgressMatchesPhase
  BY DEF Init, Reclamation!Init, Protocol!Init, ProgressMatchesPhase
<1>4. NothingIsLost
  <2>1. Protocol!Submitted = {} /\ \A u \in Protocol!Updates : ~OnItsWay(u)
    <3>1. \A u \in Protocol!Updates : u[1] \in Updaters /\ u[2] >= 1 /\ u # NoUpdate
      BY NumaAssumption DEF Protocol!Updates
    <3>2. Protocol!Writing = {}
      BY DEF Init, Protocol!Init, Protocol!Writing
    <3> QED
      BY <3>1, <3>2
      DEF Init, Protocol!Init, Protocol!Submitted, Protocol!Updates, OnItsWay, Running,
          Queued, Written
  <2>2. value[nodePtrs[0]] = {} /\ \A t \in Updaters : copied[t] = Null
    BY DEF Init, Reclamation!Init
  <2> QED BY <2>1, <2>2 DEF NothingIsLost, Applied
<1>5. ~isNumaAvailable => maxNode = 0
  BY DEF Init, Reclamation!Init
<1> QED BY <1>2, <1>3, <1>4, <1>5, MemoryInit DEF Init, ClassInv

LEMMA ClassStep == ClassInv /\ [Next]_vars => ClassInv'
<1> SUFFICES ASSUME ClassInv, [Next]_vars PROVE ClassInv'
  OBVIOUS
<1>1. Protocol!ProtocolInv'
  BY ProtocolInvStep DEF ClassInv
<1>2. Reclamation!Next \/ UNCHANGED Reclamation!vars
  BY ReclamationStep, ReclamationVars DEF vars
<1>3. Reclamation!NumaInv'
  BY <1>2, MemoryStep DEF ClassInv
<1>4. CASE Next
  <2>1. UNCHANGED <<isNumaAvailable, maxNode>>
    BY <1>4 DEF Next, machine
  <2> QED BY <1>1, <1>3, <1>4, <2>1, PhaseStep, LostNothingStep DEF ClassInv
<1>5. CASE UNCHANGED vars
  <2> USE <1>5 DEF vars, machine, reclamationVars, protocolVars
  <2>1. ProgressMatchesPhase'
    BY DEF ClassInv, ProgressMatchesPhase
  <2>2. UNCHANGED <<isNumaAvailable, maxNode>>
    OBVIOUS
  <2>3. NothingIsLost' <=> NothingIsLost
    BY DEF NothingIsLost, Applied, OnItsWay, Running, Queued, Written, Protocol!Writing,
           Protocol!Submitted, Protocol!Updates
  <2> QED BY <1>1, <1>3, <2>1, <2>2, <2>3 DEF ClassInv
<1> QED BY <1>4, <1>5

\* The inductive invariant holds in every reachable state.
THEOREM ClassInvariant == Spec => []ClassInv
BY ClassInit, ClassStep, PTL DEF Spec

\* The variables always have their types.
THEOREM TypeCorrect == Spec => []TypeOK
<1>1. ClassInv => TypeOK
  BY DEF ClassInv, TypeOK, Protocol!ProtocolInv, Reclamation!NumaInv
<1> QED BY <1>1, ClassInvariant, PTL

\* On any number of nodes the class takes only steps of NumaReclamation: its counter
\* provides the one updater that module assumes.
THEOREM NumaImplementsReclamation == Spec => ImplementsReclamation
<1>1. Init => Reclamation!Init
  BY DEF Init
<1>2. ClassInv /\ [Next]_vars => [Reclamation!Next]_(Reclamation!vars)
  BY ReclamationStep, ReclamationVars DEF vars
<1> QED
  BY <1>1, <1>2, ClassInvariant, PTL DEF Spec, ImplementsReclamation, Reclamation!Spec

\* When no update is under way readers see the same content on every node.
THEOREM QuietNodesAgree == Spec => []NodesAgree
<1>1. ClassInv => NodesAgree
  BY DEF ClassInv, Reclamation!NumaInv, NodesAgree
<1> QED BY <1>1, ClassInvariant, PTL

\* On one node a reader's object is neither free nor in the pool, whatever
\* callbacks, batches and nested calls do.
THEOREM OneNodeProtectsReaders == Spec => []ReaderProtectionOnOneNode
<1>1. ClassInv => ReaderProtectionOnOneNode
  BY HeldIsProtected DEF ClassInv, ReaderProtectionOnOneNode
<1> QED BY <1>1, ClassInvariant, PTL

LEMMA HeldIsNoCopy ==
  ASSUME Reclamation!NumaInv, maxNode = 0, NEW r \in Readers, rpc[r] = "reading"
  PROVE  /\ held[r] \in Objects
         /\ held[r] \notin heap \cup Reclamation!Pool \cup Reclamation!Copies
<1>1. /\ held[r] \in {nodePtrs[0]} \cup Reclamation!Outgoing \cup Reclamation!List(0)
                     \cup Reclamation!List(1)
      /\ Reclamation!EveryObjectHasOneOwner
  BY DEF Reclamation!NumaInv, Reclamation!OneNodeInv, Reclamation!HeldIsSafe
<1> QED BY <1>1 DEF Reclamation!EveryObjectHasOneOwner

LEMMA HeldStaysOnOneNode ==
  ASSUME Reclamation!NumaInv, maxNode = 0, Reclamation!Next,
         NEW r \in Readers, rpc[r] = "reading", rpc'[r] = "reading"
  PROVE  held'[r] = held[r] /\ value'[held[r]] = value[held[r]]
<1> DEFINE Kept == held'[r] = held[r] /\ value'[held[r]] = value[held[r]]
<1>0. /\ held \in [Readers -> Objects \cup {Null}]
      /\ rpc \in [Readers -> {"out", "locking", "locked", "reading"}]
      /\ value \in [Objects -> Contents \cup {Garbage}]
      /\ Reclamation!Nodes = {0}
  BY DEF Reclamation!NumaInv, Reclamation!TypeOK, Reclamation!Nodes, Contents
<1>1. held[r] \in Objects /\ held[r] \notin heap \cup Reclamation!Pool \cup Reclamation!Copies
  BY HeldIsNoCopy
<1> USE <1>0 DEF Reclamation!objectVars, Reclamation!counterVars, Reclamation!readerVars,
                 Reclamation!updaterVars
<1>2. ASSUME NEW q \in Readers,
             \/ Reclamation!LoadEpoch(q) \/ Reclamation!StoreMark(q)
             \/ Reclamation!Unlock(q)
             \/ \E i \in Reclamation!Nodes : Reclamation!LoadPtr(q, i)
      PROVE  Kept
  \* Whoever loads a pointer or drops one is not r.
  BY <1>2 DEF Reclamation!LoadEpoch, Reclamation!StoreMark, Reclamation!Unlock,
              Reclamation!LoadPtr
<1>3. ASSUME NEW t \in Updaters, NEW o \in Objects, NEW i \in Reclamation!Nodes,
             Reclamation!GetCopy(t, o, i)
      PROVE  Kept
  <2>1. o # held[r]
    \* o is from the heap or the pool.
    BY <1>1, <1>3 DEF Reclamation!GetCopy, Reclamation!Pool
  <2>2. /\ UNCHANGED held
        /\ \E x : value' = [value EXCEPT ![o] = x]
    BY <1>3 DEF Reclamation!GetCopy
  <2> QED BY <1>1, <2>1, <2>2
<1>4. ASSUME NEW t \in Updaters, NEW v \in Contents, Reclamation!Apply(t, v) PROVE Kept
  <2>1. copied[t] # held[r]
    BY <1>1, NumaAssumption DEF Reclamation!Copies
  <2> QED BY <1>1, <1>4, <2>1 DEF Reclamation!Apply
<1>5. ASSUME NEW t \in Updaters, Reclamation!Reclaim(t) PROVE Kept
  <2>1. node[t] = 0
    BY DEF Reclamation!NumaInv, Reclamation!TypeOK
  <2>2. held[r] \notin Reclamation!Listed(finished[node[t]])
    BY <1>1, <2>1 DEF Reclamation!Pool
  <2> QED BY <1>1, <1>5, <2>2 DEF Reclamation!Reclaim, Reclamation!TakeList
<1>6. ASSUME UNCHANGED <<value, Reclamation!readerVars>> PROVE Kept
  BY <1>6
<1> HIDE DEF Kept
<1>7. Kept
  BY <1>2, <1>3, <1>4, <1>5, <1>6, MemoryCases
  DEF Reclamation!Exchange, Reclamation!Retire, Reclamation!Push, Reclamation!SkipReader,
      Reclamation!FindReader, Reclamation!AdvanceEpoch
<1> QED BY <1>7 DEF Kept

\* On one node a held object does not change until the reader drops it.
THEOREM OneNodeKeepsHeldObjects == Spec => HeldObjectIsImmutableOnOneNode
<1> DEFINE Immutable ==
      maxNode = 0 =>
        \A r \in Readers : rpc[r] = "reading" /\ rpc'[r] = "reading"
          => held'[r] = held[r] /\ value'[held[r]] = value[held[r]]
<1>1. ASSUME ClassInv, Next PROVE Immutable
  <2>1. CASE Reclamation!Next
    BY <1>1, <2>1, HeldStaysOnOneNode DEF ClassInv
  <2>2. CASE UNCHANGED <<machine, reclamationVars>>
    BY <2>2 DEF reclamationVars
  <2> QED BY <1>1, <2>1, <2>2, ReclamationStep
<1>2. ClassInv /\ [Next]_vars => [Immutable]_vars
  BY <1>1
<1> QED BY <1>2, ClassInvariant, PTL DEF Spec, HeldObjectIsImmutableOnOneNode

\* A step of NumaReclamation is a step of EpochAdvance or changes nothing it
\* speaks of.
LEMMA AdvanceStep ==
  ASSUME Reclamation!TypeOK, Reclamation!OneUpdater, Reclamation!Next
  PROVE  Reclamation!Advance!Next \/ UNCHANGED Reclamation!Advance!vars
<1> DEFINE Mapped == Reclamation!Advance!Next \/ UNCHANGED Reclamation!Advance!vars
<1>0. /\ phase \in [Updaters -> {"idle", "private", "exchange", "retire", "scan", "advance"}]
      /\ rpc \in [Readers -> {"out", "locking", "locked", "reading"}]
      /\ loaded \in [Readers -> 0..1] /\ epoch \in 0..1
      /\ scanned \in [Updaters -> 0..1 \cup {2}]
  BY DEF Reclamation!TypeOK, Reclamation!Epochs, Reclamation!Counters!TypeOK,
         Reclamation!Counters!Epochs, Reclamation!Counters!NoCall
<1>a. \A t \in Updaters : Reclamation!LeaveRetire(t) =>
        phase' = [phase EXCEPT ![t] = phase'[t]] /\ phase'[t] \in {"idle", "exchange"}
  BY LeaveTypes
<1>b. /\ \A r \in Readers : Reclamation!Advance!ReaderStep(r) => Mapped
      /\ \A t \in Updaters :
           Reclamation!Advance!TryAdvance(t) \/ Reclamation!Advance!ScanStep(t) => Mapped
  BY DEF Reclamation!Advance!Next
<1> USE <1>0
    DEF Reclamation!prev, Reclamation!Advance!prev, Reclamation!objectVars,
        Reclamation!counterVars, Reclamation!readerVars, Reclamation!updaterVars,
        Reclamation!At, Reclamation!Advance!vars, Reclamation!Advance!counterVars
<1>1. ASSUME NEW r \in Readers, Reclamation!LoadEpoch(r)
      PROVE  Reclamation!Advance!LoadEpoch(r)
  BY <1>1 DEF Reclamation!LoadEpoch, Reclamation!Advance!LoadEpoch
<1>2. ASSUME NEW r \in Readers, Reclamation!StoreMark(r)
      PROVE  Reclamation!Advance!StoreMark(r)
  BY <1>2
  DEF Reclamation!StoreMark, Reclamation!Counters!Increment,
      Reclamation!Counters!EpochReading, Reclamation!Advance!StoreMark,
      Reclamation!Advance!Counters!Increment, Reclamation!Advance!Counters!EpochReading
<1>3. ASSUME NEW r \in Readers, NEW i \in Reclamation!Nodes, Reclamation!LoadPtr(r, i)
      PROVE  UNCHANGED Reclamation!Advance!vars
  BY <1>3 DEF Reclamation!LoadPtr
<1>4. ASSUME NEW r \in Readers, Reclamation!Unlock(r)
      PROVE  Reclamation!Advance!Unlock(r)
  BY <1>4
  DEF Reclamation!Unlock, Reclamation!Counters!Decrement, Reclamation!Advance!Unlock,
      Reclamation!Advance!Counters!Decrement
<1>5. ASSUME NEW t \in Updaters, Reclamation!NoUpdater, NEW o \in Objects,
             NEW i \in Reclamation!Nodes, Reclamation!GetCopy(t, o, i)
      PROVE  UNCHANGED Reclamation!Advance!vars
  BY <1>5 DEF Reclamation!GetCopy
<1>6. ASSUME NEW t \in Updaters, NEW v \in Contents, Reclamation!Apply(t, v)
      PROVE  UNCHANGED Reclamation!Advance!vars
  BY <1>6 DEF Reclamation!Apply
<1>7. ASSUME NEW t \in Updaters, Reclamation!Exchange(t)
      PROVE  UNCHANGED Reclamation!Advance!vars
  BY <1>7 DEF Reclamation!Exchange
<1>8. ASSUME NEW t \in Updaters, Reclamation!Retire(t)
      PROVE  Reclamation!Advance!TryAdvance(t) \/ UNCHANGED Reclamation!Advance!vars
  <2>1. /\ phase[t] = "retire"
        /\ UNCHANGED <<epoch, rpc, loaded>>
        /\ \/ /\ Reclamation!LeaveRetire(t)
              /\ UNCHANGED <<epochReading, scanned, unscanned>>
           \/ /\ Reclamation!Counters!ScanBegin(t, Reclamation!prev)
              /\ phase' = [phase EXCEPT ![t] = "scan"]
    BY <1>8 DEF Reclamation!Retire, Reclamation!Push
  <2>2. CASE Reclamation!LeaveRetire(t) /\ UNCHANGED <<epochReading, scanned, unscanned>>
    BY <1>a, <2>1, <2>2
  <2>3. CASE /\ Reclamation!Counters!ScanBegin(t, Reclamation!prev)
             /\ phase' = [phase EXCEPT ![t] = "scan"]
    BY <2>1, <2>3
    DEF Reclamation!OneUpdater, Reclamation!Counters!ScanBegin,
        Reclamation!Counters!NoCall, Reclamation!Advance!TryAdvance,
        Reclamation!Advance!Counters!ScanBegin, Reclamation!Advance!Counters!NoCall
  <2> QED BY <2>1, <2>2, <2>3
<1>9. ASSUME NEW t \in Updaters, NEW r \in Readers, Reclamation!SkipReader(t, r)
      PROVE  Reclamation!Advance!SkipReader(t, r)
  BY <1>9
  DEF Reclamation!SkipReader, Reclamation!Counters!ScanMiss, Reclamation!Counters!NoCall,
      Reclamation!Counters!EpochReading, Reclamation!Advance!SkipReader,
      Reclamation!Advance!Counters!ScanMiss, Reclamation!Advance!Counters!NoCall,
      Reclamation!Advance!Counters!EpochReading
<1>10. ASSUME NEW t \in Updaters, NEW r \in Readers, Reclamation!FindReader(t, r)
       PROVE  Reclamation!Advance!FindReader(t, r)
  BY <1>10, <1>a
  DEF Reclamation!FindReader, Reclamation!Counters!ScanHit, Reclamation!Counters!NoCall,
      Reclamation!Counters!EpochReading, Reclamation!Advance!FindReader,
      Reclamation!Advance!Counters!ScanHit, Reclamation!Advance!Counters!NoCall,
      Reclamation!Advance!Counters!EpochReading
<1>11. ASSUME NEW t \in Updaters, Reclamation!Reclaim(t)
       PROVE  Reclamation!Advance!Clear(t)
  BY <1>11
  DEF Reclamation!Reclaim, Reclamation!TakeList, Reclamation!Counters!ScanClear,
      Reclamation!Counters!NoCall, Reclamation!Advance!Clear,
      Reclamation!Advance!Counters!ScanClear, Reclamation!Advance!Counters!NoCall
<1>12. ASSUME NEW t \in Updaters, Reclamation!AdvanceEpoch(t)
       PROVE  Reclamation!Advance!AdvanceEpoch(t)
  BY <1>12, <1>a DEF Reclamation!AdvanceEpoch, Reclamation!Advance!AdvanceEpoch
<1> HIDE <1>0 DEF Reclamation!prev, Reclamation!Advance!prev, Reclamation!objectVars,
        Reclamation!counterVars, Reclamation!readerVars, Reclamation!updaterVars,
        Reclamation!At, Reclamation!Advance!vars, Reclamation!Advance!counterVars
<1> HIDE DEF Mapped
<1>13. ASSUME NEW r \in Readers, Reclamation!ReaderStep(r) PROVE Mapped
  BY <1>13, <1>b, <1>1, <1>2, <1>3, <1>4
  DEF Mapped, Reclamation!ReaderStep, Reclamation!Advance!ReaderStep
<1>14. ASSUME NEW t \in Updaters, Reclamation!RetireStep(t) PROVE Mapped
  BY <1>14, <1>b, <1>8, <1>9, <1>10, <1>11, <1>12
  DEF Mapped, Reclamation!RetireStep, Reclamation!Advance!ScanStep
<1>15. ASSUME NEW t \in Updaters, Reclamation!UpdaterStep(t) PROVE Mapped
  BY <1>15, <1>5, <1>6, <1>7, <1>14 DEF Mapped, Reclamation!UpdaterStep, Contents
<1> QED
  BY <1>13, <1>15 DEF Mapped, Reclamation!Next

\* On any number of nodes the variant takes only steps of EpochAdvance: the
\* progress that module shows is progress of this class.
THEOREM NumaImplementsAdvance == Spec => ImplementsAdvance
<1>1. Init => Reclamation!Advance!Init
  BY DEF Init, Reclamation!Init, Reclamation!Counters!Init, Reclamation!Counters!NoCall,
         Reclamation!Advance!Init, Reclamation!Advance!Counters!Init,
         Reclamation!Advance!Counters!NoCall
<1>2. ClassInv /\ [Next]_vars => [Reclamation!Advance!Next]_(Reclamation!Advance!vars)
  <2> SUFFICES ASSUME ClassInv, [Next]_vars
               PROVE  Reclamation!Advance!Next \/ UNCHANGED Reclamation!Advance!vars
    OBVIOUS
  <2>1. Reclamation!Next \/ UNCHANGED <<machine, reclamationVars>>
    BY ReclamationStep DEF vars
  <2>2. CASE Reclamation!Next
    BY <2>2, AdvanceStep DEF ClassInv, Reclamation!NumaInv
  <2>3. CASE UNCHANGED <<machine, reclamationVars>>
    BY <2>3 DEF reclamationVars, Reclamation!Advance!vars, Reclamation!Advance!counterVars
  <2> QED BY <2>1, <2>2, <2>3
<1> QED
  BY <1>1, <1>2, ClassInvariant, PTL
  DEF Spec, ImplementsAdvance, Reclamation!ImplementsAdvance, Reclamation!Advance!Spec

-----------------------------------------------------------------------------
(* On one node the destructor frees every allocated object once.           *)

\* What the destructor frees on node i.
TimesFreedOn(i, o) ==
  (IF nodePtrs[i] = o THEN 1 ELSE 0) + finished[i][o]
     + retireLists[i][0][o] + retireLists[i][1][o]

\* The sum over the only node.
LEMMA OneNodeSum ==
  ASSUME Reclamation!Nodes = {0}, NEW o \in Objects, TimesFreedOn(0, o) \in Nat
  PROVE  Reclamation!TimesFreed(o) = TimesFreedOn(0, o)
<1> DEFINE next(h, s) == LET x == CHOOSE y \in s : TRUE IN TimesFreedOn(x, o) + h[s \ {x}]
           IsSum(h) == h = [s \in SUBSET {0} |-> IF s = {} THEN 0 ELSE next(h, s)]
           w == [s \in SUBSET {0} |-> IF s = {} THEN 0 ELSE TimesFreedOn(0, o)]
           sum == CHOOSE h : IsSum(h)
<1>0. SUBSET {0} = {{}, {0}} /\ {0} \ {0} = {} /\ (CHOOSE y \in {0} : TRUE) = 0
  OBVIOUS
<1>1. \A h : next(h, {0}) = TimesFreedOn(0, o) + h[{}]
  BY <1>0
<1>2. IsSum(w)
  <2>1. w[{}] = 0
    BY <1>0
  <2>2. \A s \in SUBSET {0} : s # {} => TimesFreedOn(0, o) = next(w, s)
    <3> HIDE DEF w, next
    <3>1. next(w, {0}) = TimesFreedOn(0, o)
      BY <1>1, <2>1
    <3> QED BY <1>0, <3>1
  <2> HIDE DEF next
  <2> QED BY <2>2
<1>3. IsSum(sum)
  <2> HIDE DEF w, IsSum
  <2> QED BY <1>2
<1>4. Reclamation!TimesFreed(o) = sum[{0}]
  BY DEF Reclamation!TimesFreed, Reclamation!MapThenSumSet, Reclamation!MapThenFoldSet,
         TimesFreedOn
<1> HIDE DEF sum, next
<1>5. sum[{}] = 0 /\ sum[{0}] = next(sum, {0})
  BY <1>0, <1>3
<1> QED BY <1>1, <1>4, <1>5

LEMMA OneNodeFreesOnce == Reclamation!NumaInv => Reclamation!DestructorFreesOnce
<1> SUFFICES ASSUME Reclamation!NumaInv, Reclamation!NoUpdater, maxNode = 0,
                    NEW o \in Objects
             PROVE  Reclamation!TimesFreed(o) = IF o \in heap THEN 0 ELSE 1
  BY DEF Reclamation!DestructorFreesOnce
<1>1. Reclamation!Nodes = {0} /\ Reclamation!Epochs = 0..1
  BY DEF Reclamation!Nodes, Reclamation!Epochs
<1>2. Reclamation!Copies = {} /\ Reclamation!Outgoing = {}
  BY DEF Reclamation!NumaInv, Reclamation!PhasesAreTrue, Reclamation!NoUpdater,
         Reclamation!Copies, Reclamation!Outgoing
<1>3. Reclamation!EveryObjectHasOneOwner /\ Reclamation!NothingIsListedTwice
  BY DEF Reclamation!NumaInv, Reclamation!OneNodeInv
<1>4. /\ finished[0] \in [Objects -> Nat]
      /\ retireLists[0][0] \in [Objects -> Nat] /\ retireLists[0][1] \in [Objects -> Nat]
  BY <1>1 DEF Reclamation!NumaInv, Reclamation!TypeOK
<1>5. /\ finished[0][o] = IF o \in Reclamation!Pool THEN 1 ELSE 0
      /\ retireLists[0][0][o] = IF o \in Reclamation!List(0) THEN 1 ELSE 0
      /\ retireLists[0][1][o] = IF o \in Reclamation!List(1) THEN 1 ELSE 0
  <2>1. \A list \in [Objects -> Nat] : list[o] <= 1 =>
          list[o] = IF o \in Reclamation!Listed(list) THEN 1 ELSE 0
    <3> TAKE list \in [Objects -> Nat]
    <3>1. list[o] \in Nat
      OBVIOUS
    <3> QED BY <3>1 DEF Reclamation!Listed
  <2>2. finished[0][o] <= 1 /\ retireLists[0][0][o] <= 1 /\ retireLists[0][1][o] <= 1
    BY <1>1, <1>3 DEF Reclamation!NothingIsListedTwice
  <2> QED BY <1>4, <2>1, <2>2 DEF Reclamation!Pool, Reclamation!List
<1>6. TimesFreedOn(0, o) =
        (IF nodePtrs[0] = o THEN 1 ELSE 0) + (IF o \in Reclamation!Pool THEN 1 ELSE 0)
          + (IF o \in Reclamation!List(0) THEN 1 ELSE 0)
          + (IF o \in Reclamation!List(1) THEN 1 ELSE 0)
  BY <1>5 DEF TimesFreedOn
<1>7. TimesFreedOn(0, o) = IF o \in heap THEN 0 ELSE 1
  BY <1>2, <1>3, <1>6 DEF Reclamation!EveryObjectHasOneOwner
<1> QED BY <1>1, <1>7, OneNodeSum

\* On one node, when no update is under way, the destructor frees every object
\* that is not free exactly once.
THEOREM OneNodeDestructorFreesOnce == Spec => []DestructorFreesOnce
<1>1. ClassInv => DestructorFreesOnce
  BY OneNodeFreesOnce DEF ClassInv, DestructorFreesOnce
<1> QED BY <1>1, ClassInvariant, PTL

\* Without NUMA support, once no updater is at work every update passed to update
\* is in the published object, and nothing else is.
THEOREM AllIsPublished == Spec => []NoUpdaterMeansAllPublished
<1>1. ASSUME ClassInv, ~isNumaAvailable, Protocol!Registered = {}
      PROVE  value[nodePtrs[0]] = Protocol!Submitted
  <2>1. NothingIsLost /\ Protocol!ProtocolInv /\ ProgressMatchesPhase /\ Reclamation!PhasesAreTrue
    BY <1>1 DEF ClassInv, Reclamation!NumaInv
  <2>2. \A t \in Updaters : pc[t] \in {"idle", "write"}
    BY <1>1, <2>1 DEF Protocol!ProtocolInv, Protocol!TypeOK,
                      Protocol!Registered
  <2>3. \A t \in Updaters : running[t] = NoUpdate
    BY <2>1, <2>2 DEF Protocol!ProtocolInv, Protocol!LocalsFollowPc
  <2>4. updateQueue = <<>> /\ Protocol!Writing = {}
    BY <1>1, <2>1 DEF Protocol!ProtocolInv, Protocol!CountIsExact
  <2>5. \A u \in Protocol!Updates : ~OnItsWay(u)
    BY <2>3, <2>4, NumaAssumption DEF OnItsWay, Running, Queued, Written
  <2>6. \A t \in Updaters : pc[t] = "idle"
    BY <2>2, <2>4 DEF Protocol!Writing
  <2>7. \A t \in Updaters : copied[t] = Null
    BY <2>1, <2>6 DEF ProgressMatchesPhase, Reclamation!PhasesAreTrue
  <2>8. \A u \in Protocol!Updates : u \in Protocol!Submitted <=> u \in value[nodePtrs[0]]
    BY <2>1, <2>5, <2>7 DEF NothingIsLost, Applied
  <2> QED
    BY <2>1, <2>8 DEF NothingIsLost, Protocol!Submitted
<1>2. ClassInv => NoUpdaterMeansAllPublished
  BY <1>1 DEF NoUpdaterMeansAllPublished
<1> QED BY <1>2, ClassInvariant, PTL

-----------------------------------------------------------------------------
(* Without NUMA support the class is RcuProtected: every step of it is the *)
(* step of that module which does the same to sets instead of lists.       *)

\* Size: on a list without an object listed twice, the fold that adds up the
\* entries counts the objects. The fold is recursive over the subsets of Objects;
\* a smallest subset on which it is wrong would have a smaller one in it.
LEMMA SizeIsCardinality ==
  ASSUME NEW list \in [Objects -> Nat], \A o \in Objects : list[o] <= 1
  PROVE  Reclamation!Size(list) = Cardinality(Reclamation!Listed(list))
<1> DEFINE listed(s) == {o \in s : list[o] > 0}
           pick(s) == CHOOSE x \in s : TRUE
           next(h, s) == list[pick(s)] + h[s \ {pick(s)}]
           IsSum(h) == h = [s \in SUBSET Objects |-> IF s = {} THEN 0 ELSE next(h, s)]
           sum == CHOOSE h : IsSum(h)
           count == [s \in SUBSET Objects |-> Cardinality(listed(s))]
           wrong == {s \in SUBSET Objects : sum[s] # count[s]}
<1>1. \A s \in SUBSET Objects : IsFiniteSet(s) /\ IsFiniteSet(listed(s))
  BY NumaAssumption, FS_Subset
<1>2. \A s \in SUBSET Objects : s # {} => pick(s) \in s /\ s \ {pick(s)} \in SUBSET Objects
  OBVIOUS
<1>3. count[{}] = 0
  BY FS_EmptySet
<1>4. ASSUME NEW s \in SUBSET Objects, NEW x \in s
      PROVE  count[s] = list[x] + count[s \ {x}]
  <2>1. listed(s \ {x}) = listed(s) \ {x}
    OBVIOUS
  <2>2. IsFiniteSet(listed(s)) /\ Cardinality(listed(s)) \in Nat
    BY <1>1, FS_CardinalityType
  <2>3. Cardinality(listed(s) \ {x}) =
          IF x \in listed(s) THEN Cardinality(listed(s)) - 1 ELSE Cardinality(listed(s))
    BY <2>2, FS_RemoveElement
  <2>4. list[x] = IF x \in listed(s) THEN 1 ELSE 0
    OBVIOUS
  <2>5. s \ {x} \in SUBSET Objects
    OBVIOUS
  <2>6. count[s] = Cardinality(listed(s)) /\ count[s \ {x}] = Cardinality(listed(s) \ {x})
    BY <2>1, <2>5
  <2> HIDE DEF listed, count
  <2> QED BY <2>2, <2>3, <2>4, <2>6
<1>5. \A s \in SUBSET Objects : s # {} => count[s] = next(count, s)
  <2> HIDE DEF pick, count
  <2> QED BY <1>2, <1>4
<1>6. IsSum(sum)
  <2>1. count = [s \in SUBSET Objects |-> count[s]]
    OBVIOUS
  <2>2. IsSum(count)
    <3> HIDE DEF next, count
    <3> QED BY <1>3, <1>5, <2>1
  <2> HIDE DEF IsSum, count
  <2> QED BY <2>2
<1>7. Reclamation!Size(list) = sum[Objects]
  BY DEF Reclamation!Size, Reclamation!MapThenSumSet, Reclamation!MapThenFoldSet
<1>8. /\ sum[{}] = 0
      /\ \A s \in SUBSET Objects : s # {} => sum[s] = next(sum, s)
  <2> HIDE DEF sum, next
  <2> QED BY <1>6
<1>9. wrong = {}
  <2> SUFFICES ASSUME wrong # {} PROVE FALSE
    OBVIOUS
  <2>1. wrong \subseteq FiniteSubsetsOf(Objects)
    BY <1>1 DEF FiniteSubsetsOf
  <2>2. IsWellFoundedOn(StrictSubsetOrdering(Objects), FiniteSubsetsOf(Objects))
    BY FS_StrictSubsetOrderingWellFounded
  <2>3. PICK s \in wrong : \A u \in wrong : <<u, s>> \notin StrictSubsetOrdering(Objects)
    <3> HIDE DEF wrong
    <3> QED BY <2>1, <2>2, WFMin
  <2>4. s \in SUBSET Objects /\ sum[s] # count[s] /\ s # {}
    BY <1>3, <1>8
  <2> DEFINE u == s \ {pick(s)}
  <2>5. u \in SUBSET Objects /\ u \subseteq s /\ u # s
    BY <1>2, <2>4
  <2>6. <<u, s>> \in StrictSubsetOrdering(Objects)
    BY <2>4, <2>5 DEF StrictSubsetOrdering
  <2>7. sum[u] = count[u]
    <3> HIDE DEF sum, count, u
    <3> QED BY <2>3, <2>5, <2>6
  <2>8. sum[s] = next(sum, s) /\ count[s] = next(count, s)
    BY <1>5, <1>8, <2>4
  <2> QED BY <2>4, <2>7, <2>8
<1>10. sum[Objects] = count[Objects]
  BY <1>9
<1>11. count[Objects] = Cardinality(Reclamation!Listed(list))
  BY DEF Reclamation!Listed
<1> QED BY <1>7, <1>10, <1>11

\* What a machine without NUMA support makes of the invariant.
LEMMA PlainMachine ==
  ASSUME ClassInv, IsPlain
  PROVE  /\ Reclamation!Nodes = {0} /\ Reclamation!OneNodeInv
         /\ \A t \in Updaters : node[t] = 0 /\ phase[t] # "exchange"
         /\ Reclamation!CleanupThreshold = MaxConcurrency
<1>1. maxNode = 0 /\ Reclamation!NumaInv
  BY DEF ClassInv, IsPlain
<1>2. Reclamation!Nodes = {0} /\ Reclamation!OneNodeInv
  BY <1>1 DEF Reclamation!Nodes, Reclamation!NumaInv
<1>3. \A t \in Updaters : node[t] = 0
  BY <1>1, <1>2 DEF Reclamation!NumaInv, Reclamation!TypeOK
<1>4. \A t \in Updaters : phase[t] # "exchange"
  BY <1>1, <1>3 DEF Reclamation!NumaInv, Reclamation!PhasesAreTrue
<1>5. Reclamation!CleanupThreshold = MaxConcurrency
  BY <1>1, NumaAssumption DEF IsPlain, Reclamation!CleanupThreshold
<1> QED BY <1>2, <1>3, <1>4, <1>5

\* get_ptr and the deleter touch no list.
LEMMA PlainReaderStep ==
  ASSUME ClassInv, IsPlain, NEW r \in Readers, ReaderStep(r)
  PROVE  Plain!ReaderStep(r)
<1>0. Reclamation!Nodes = {0}
  BY PlainMachine
<1>a. /\ r \in Updaters => pc[r] \in {"idle", "callback"}
      /\ UNCHANGED protocolVars
      /\ Reclamation!ReaderStep(r)
  BY DEF ReaderStep
<1> USE DEF Reclamation!objectVars, Reclamation!counterVars, Reclamation!readerVars,
            Reclamation!updaterVars, Plain!Reclamation!objectVars,
            Plain!Reclamation!counterVars, Plain!Reclamation!readerVars,
            Plain!Reclamation!updaterVars, Reclamation!InUserCode, Plain!InUserCode,
            Plain!Reclamation!InUserCode, Reclamation!Listed, protocolVars,
            Plain!protocolVars
<1>1. CASE Reclamation!LoadEpoch(r)
  <2>1. Plain!Reclamation!LoadEpoch(r)
    BY <1>1 DEF Reclamation!LoadEpoch, Plain!Reclamation!LoadEpoch
  <2> QED BY <1>a, <2>1 DEF Plain!ReaderStep, Plain!LoadEpoch
<1>2. CASE Reclamation!StoreMark(r)
  <2>1. Plain!Reclamation!StoreMark(r)
    BY <1>2
    DEF Reclamation!StoreMark, Plain!Reclamation!StoreMark,
        Reclamation!Counters!Increment, Plain!Reclamation!Counters!Increment,
        Reclamation!Counters!EpochReading, Plain!Reclamation!Counters!EpochReading
  <2> QED BY <1>a, <2>1 DEF Plain!ReaderStep, Plain!StoreMark
<1>3. ASSUME NEW i \in Reclamation!Nodes, Reclamation!LoadPtr(r, i)
      PROVE  Plain!ReaderStep(r)
  <2>0. i = 0
    BY <1>0
  <2>1. Plain!Reclamation!LoadPtr(r)
    BY <1>3, <2>0 DEF Reclamation!LoadPtr, Plain!Reclamation!LoadPtr
  <2> QED BY <1>a, <2>1 DEF Plain!ReaderStep, Plain!LoadPtr
<1>4. CASE Reclamation!Unlock(r)
  <2>1. Plain!Reclamation!Unlock(r)
    BY <1>4
    DEF Reclamation!Unlock, Plain!Reclamation!Unlock,
        Reclamation!Counters!Decrement, Plain!Reclamation!Counters!Decrement
  <2> QED BY <1>a, <2>1 DEF Plain!ReaderStep, Plain!Unlock
<1> QED BY <1>a, <1>1, <1>2, <1>3, <1>4 DEF Reclamation!ReaderStep

\* The update protocol is the same.
LEMMA PlainProtocolStep ==
  ASSUME NEW t \in Updaters
  PROVE  /\ Protocol!TryRegister(t) <=> Plain!Protocol!TryRegister(t)
         /\ Protocol!LocalStep(t) <=> Plain!Protocol!LocalStep(t)
         /\ Protocol!HaveCopy(t) <=> Plain!Protocol!HaveCopy(t)
         /\ Protocol!CallbackReturns(t) <=> Plain!Protocol!CallbackReturns(t)
         /\ Protocol!Publish(t) <=> Plain!Protocol!Publish(t)
         /\ Protocol!CheckStep(t) <=> Plain!Protocol!CheckStep(t)
<1> USE DEF Protocol!queueVars, Protocol!loopVars, Protocol!Goto, Protocol!LatestCall,
            Plain!Protocol!queueVars, Plain!Protocol!loopVars, Plain!Protocol!Goto,
            Plain!Protocol!LatestCall
<1>1. Protocol!TryRegister(t) <=> Plain!Protocol!TryRegister(t)
  BY DEF Protocol!TryRegister, Protocol!Call, Plain!Protocol!TryRegister,
         Plain!Protocol!Call
<1>2. Protocol!Write(t) <=> Plain!Protocol!Write(t)
  BY DEF Protocol!Write, Protocol!Enqueue, Plain!Protocol!Write, Plain!Protocol!Enqueue
<1>3. Protocol!Enter(t) <=> Plain!Protocol!Enter(t)
  BY DEF Protocol!Enter, Protocol!ExpectAndDrain, Plain!Protocol!Enter,
         Plain!Protocol!ExpectAndDrain
<1>4. Protocol!Read(t) <=> Plain!Protocol!Read(t)
  BY DEF Protocol!Read, Plain!Protocol!Read
<1>5. Protocol!Reload(t) <=> Plain!Protocol!Reload(t)
  BY DEF Protocol!Reload, Plain!Protocol!Reload
<1>6. Protocol!HaveCopy(t) <=> Plain!Protocol!HaveCopy(t)
  BY DEF Protocol!HaveCopy, Plain!Protocol!HaveCopy
<1>7. Protocol!CallbackReturns(t) <=> Plain!Protocol!CallbackReturns(t)
  BY DEF Protocol!CallbackReturns, Plain!Protocol!CallbackReturns
<1>8. Protocol!Publish(t) <=> Plain!Protocol!Publish(t)
  BY DEF Protocol!Publish, Plain!Protocol!Publish
<1>9. Protocol!Resign(t) <=> Plain!Protocol!Resign(t)
  BY DEF Protocol!Resign, Protocol!Leave, Plain!Protocol!Resign, Plain!Protocol!Leave
<1>10. Protocol!NextBatch(t) <=> Plain!Protocol!NextBatch(t)
  BY DEF Protocol!NextBatch, Protocol!Again, Plain!Protocol!NextBatch,
         Plain!Protocol!Again
<1> QED
  BY <1>1, <1>2, <1>3, <1>4, <1>5, <1>6, <1>7, <1>8, <1>9, <1>10
  DEF Protocol!LocalStep, Protocol!CheckStep, Plain!Protocol!LocalStep,
      Plain!Protocol!CheckStep

\* get_copy takes memory out of the pool, or new memory, which without NUMA
\* support is assigned the current object too.
LEMMA PlainCopyStep ==
  ASSUME ClassInv, IsPlain, NEW t \in Updaters, GetCopy(t)
  PROVE  Plain!GetCopy(t)
<1>0. Reclamation!Nodes = {0} /\ Reclamation!TypeOK /\ Reclamation!NothingIsListedTwice
      /\ maxNode = 0 /\ ~isNumaAvailable
  BY PlainMachine
  DEF ClassInv, IsPlain, Reclamation!NumaInv, Reclamation!OneNodeInv
<1>1. PICK o \in Objects : Reclamation!GetCopy(t, o, 0)
  BY <1>0 DEF GetCopy
<1>2. \A e \in 0..1 : Reclamation!List(e)' = Reclamation!List(e)
  BY <1>0, <1>1, PoolOnOneNode
<1>3. \/ /\ Reclamation!Pool = {} /\ o \in heap /\ heap' = heap \ {o}
         /\ Reclamation!Pool' = Reclamation!Pool
      \/ /\ o \in Reclamation!Pool /\ Reclamation!Pool' = Reclamation!Pool \ {o}
         /\ UNCHANGED heap
  <2>1. CASE finished[0] = Reclamation!EmptyList /\ o \in heap /\ heap' = heap \ {o}
               /\ UNCHANGED finished
    BY <2>1, NothingListed DEF Reclamation!Pool, Reclamation!Listed
  <2>2. CASE o \in Reclamation!Listed(finished[0]) /\ UNCHANGED heap
             /\ finished' = [finished EXCEPT ![0][o] = @ - 1]
    <3>1. /\ finished[0] \in [Objects -> Nat] /\ \A x \in Objects : finished[0][x] <= 1
          /\ finished'[0] = [finished[0] EXCEPT ![o] = @ - 1]
      BY <1>0, <2>2 DEF Reclamation!TypeOK, Reclamation!NothingIsListedTwice
    <3>2. Reclamation!Listed(finished'[0]) = Reclamation!Listed(finished[0]) \ {o}
      BY <2>2, <3>1, ListedAfterTake
    <3> QED BY <2>2, <3>2 DEF Reclamation!Pool, Reclamation!Listed
  <2> QED BY <1>1, <2>1, <2>2 DEF Reclamation!GetCopy
<1>4. Plain!Reclamation!GetCopy(t, o)
  <2>1. [e \in 0..1 |-> Reclamation!List(e)]' = [e \in 0..1 |-> Reclamation!List(e)]
    BY <1>2
  <2>2. value' = [value EXCEPT ![o] = value[nodePtrs[0]]]
    BY <1>0, <1>1 DEF Reclamation!GetCopy
  <2>3. /\ Reclamation!At(t, {"idle"})
        /\ copied' = [copied EXCEPT ![t] = o]
        /\ phase' = [phase EXCEPT ![t] = "private"]
        /\ UNCHANGED <<nodePtrs, epoch, epochReading, scanned, unscanned, rpc, loaded,
                       held, old>>
    BY <1>1 DEF Reclamation!GetCopy, Reclamation!counterVars, Reclamation!readerVars
  <2> QED
    BY <1>3, <2>1, <2>2, <2>3
    DEF Reclamation!At, Plain!Reclamation!GetCopy, Plain!Reclamation!At,
        Plain!Reclamation!counterVars, Plain!Reclamation!readerVars,
        Reclamation!Pool, Reclamation!List, Reclamation!Listed
<1>5. Plain!Protocol!HaveCopy(t)
  BY PlainProtocolStep DEF GetCopy
<1> QED BY <1>4, <1>5 DEF Plain!GetCopy

LEMMA PlainCallbackStep ==
  ASSUME NEW t \in Updaters, RunCallback(t)
  PROVE  Plain!RunCallback(t)
<1>1. Plain!Protocol!CallbackReturns(t)
  BY PlainProtocolStep DEF RunCallback
<1>2. Plain!Reclamation!Apply(t, value[copied[t]] \cup {running[t]})
  BY DEF RunCallback, Reclamation!Apply, Plain!Reclamation!Apply, Reclamation!At,
         Plain!Reclamation!At, Reclamation!counterVars, Plain!Reclamation!counterVars,
         Reclamation!readerVars, Plain!Reclamation!readerVars, Reclamation!updaterVars,
         Plain!Reclamation!updaterVars, Reclamation!Listed
<1> QED BY <1>1, <1>2 DEF Plain!RunCallback

\* The exchange on the only node is the one of m_ptr.
LEMMA PlainPublishStep ==
  ASSUME ClassInv, IsPlain, NEW t \in Updaters, Publish(t)
  PROVE  Plain!Publish(t)
<1>0. /\ node[t] = 0 /\ phase[t] # "exchange" /\ maxNode = 0
      /\ nodePtrs \in [{0} -> Objects]
  BY PlainMachine DEF ClassInv, IsPlain, Reclamation!NumaInv, Reclamation!TypeOK
<1>1. Plain!Protocol!Publish(t)
  BY PlainProtocolStep DEF Publish
<1>2. Plain!Reclamation!Publish(t)
  <2>1. nodePtrs'[0] = copied[t]
    BY <1>0 DEF Publish, Reclamation!Exchange
  <2> QED
    BY <1>0, <2>1
    DEF Publish, Reclamation!Exchange, Plain!Reclamation!Publish, Reclamation!At,
        Plain!Reclamation!At, Reclamation!counterVars, Plain!Reclamation!counterVars,
        Reclamation!readerVars, Plain!Reclamation!readerVars, Reclamation!Listed
<1> QED BY <1>1, <1>2 DEF Plain!Publish

\* retire compares the length of the list with the threshold, that is, how many
\* objects are in it.
LEMMA PlainRetire ==
  ASSUME ClassInv, IsPlain, NEW t \in Updaters, Reclamation!Retire(t)
  PROVE  Plain!Reclamation!Retire(t)
<1>0. /\ node[t] = 0 /\ maxNode = 0 /\ Reclamation!CleanupThreshold = MaxConcurrency
      /\ Reclamation!TypeOK /\ Reclamation!PhasesAreTrue
      /\ Reclamation!NothingIsListedTwice /\ Reclamation!EveryObjectHasOneOwner
  BY PlainMachine
  DEF ClassInv, IsPlain, Reclamation!NumaInv, Reclamation!OneNodeInv
<1>1. /\ epoch \in 0..1
      /\ retireLists \in [{0} -> [0..1 -> [Objects -> Nat]]]
      /\ retireLists[0][epoch] \in [Objects -> Nat]
  BY <1>0, PlainMachine DEF Reclamation!TypeOK, Reclamation!Epochs
<1>2. /\ old[t] \in Objects
      /\ Reclamation!Pool' = Reclamation!Pool
      /\ \A e \in 0..1 :
           Reclamation!List(e)' = IF e = epoch THEN Reclamation!List(e) \cup {old[t]}
                                               ELSE Reclamation!List(e)
      /\ Reclamation!NothingIsListedTwice'
  BY <1>0, RetireOnOneNode
<1> DEFINE list == [retireLists[0][epoch] EXCEPT ![old[t]] = @ + 1]
           set == Reclamation!List(epoch) \cup {old[t]}
<1>3. retireLists' = [retireLists EXCEPT ![0][epoch] = list]
  BY <1>0 DEF Reclamation!Retire, Reclamation!Push
<1>4. list \in [Objects -> Nat]
  BY <1>1, AddEntry
<1>5. retireLists'[0][epoch] = list /\ epoch' = epoch
  BY <1>1, <1>3 DEF Reclamation!Retire, Reclamation!Push
<1>6. \A o \in Objects : list[o] <= 1
  BY <1>1, <1>2, <1>5 DEF Reclamation!NothingIsListedTwice, Reclamation!Epochs
<1>7. Reclamation!Listed(list) = set
  BY <1>1, <1>2, <1>5 DEF Reclamation!List, Reclamation!Listed
<1>8. Reclamation!Size(list) = Cardinality(set)
  BY <1>4, <1>6, <1>7, SizeIsCardinality
<1>9. \/ /\ Cardinality(set) < MaxConcurrency
         /\ phase' = [phase EXCEPT ![t] = "idle"]
         /\ UNCHANGED <<epochReading, scanned, unscanned>>
      \/ /\ Cardinality(set) >= MaxConcurrency
         /\ Plain!Reclamation!Counters!ScanBegin(t, Plain!Reclamation!prev)
         /\ phase' = [phase EXCEPT ![t] = "scan"]
  <2> HIDE DEF set
  <2>1. CASE /\ Reclamation!Size(list) < Reclamation!CleanupThreshold
             /\ Reclamation!LeaveRetire(t)
             /\ UNCHANGED Reclamation!counterVars
    BY <1>0, <1>8, <2>1
    DEF Reclamation!LeaveRetire, Reclamation!Leave, Reclamation!counterVars
  <2>2. CASE /\ Reclamation!Size(list) >= Reclamation!CleanupThreshold
             /\ Reclamation!Counters!ScanBegin(t, Reclamation!prev)
             /\ phase' = [phase EXCEPT ![t] = "scan"]
    BY <1>0, <1>8, <2>2
    DEF Reclamation!Counters!ScanBegin, Reclamation!Counters!NoCall, Reclamation!prev,
        Plain!Reclamation!Counters!ScanBegin, Plain!Reclamation!Counters!NoCall,
        Plain!Reclamation!prev
  <2> QED
    BY <1>0, <2>1, <2>2 DEF Reclamation!Retire, Reclamation!Push
<1>10. [e \in 0..1 |-> Reclamation!List(e)]'
         = [[e \in 0..1 |-> Reclamation!List(e)] EXCEPT ![epoch] = set]
  BY <1>1, <1>2
<1>11. /\ Reclamation!At(t, {"retire"})
       /\ old' = [old EXCEPT ![t] = Null]
       /\ UNCHANGED <<nodePtrs, heap, value, epoch, rpc, loaded, held, copied>>
  BY DEF Reclamation!Retire, Reclamation!Push, Reclamation!readerVars
<1>12. Plain!Reclamation!Cardinality(set) = Cardinality(set)
  BY DEF Plain!Reclamation!Cardinality, Cardinality
<1> QED
  BY <1>1, <1>2, <1>9, <1>10, <1>11, <1>12
  DEF Plain!Reclamation!Retire, Plain!Reclamation!At, Reclamation!At,
      Plain!Reclamation!counterVars, Plain!Reclamation!readerVars,
      Reclamation!Pool, Reclamation!List, Reclamation!Listed

\* The list that becomes the pool becomes it as a set, and what is deleted is the
\* set of what was left in the pool.
LEMMA PlainReclaim ==
  ASSUME ClassInv, IsPlain, NEW t \in Updaters, Reclamation!Reclaim(t)
  PROVE  Plain!Reclamation!Reclaim(t)
<1>0. /\ node[t] = 0 /\ maxNode = 0 /\ epoch \in 0..1
      /\ Reclamation!TypeOK /\ Reclamation!NothingIsListedTwice
  BY PlainMachine
  DEF ClassInv, IsPlain, Reclamation!NumaInv, Reclamation!OneNodeInv,
      Reclamation!TypeOK, Reclamation!Epochs
<1>1. /\ \A e \in 0..1 :
           IF e = epoch THEN Reclamation!List(e)' = Reclamation!List(e)
                        ELSE /\ Reclamation!List(e)' = {}
                             /\ Reclamation!Pool' = Reclamation!List(e)
      /\ heap' = heap \cup Reclamation!Pool
  BY <1>0, ReclaimOnOneNode
<1>2. 1 - epoch \in 0..1 /\ 1 - epoch # epoch
      /\ \A e \in 0..1 : e = epoch \/ e = 1 - epoch
  BY <1>0
<1>3. Reclamation!Pool' = Reclamation!List(1 - epoch)
  BY <1>1, <1>2
<1>4. [e \in 0..1 |-> Reclamation!List(e)]'
        = [[e \in 0..1 |-> Reclamation!List(e)] EXCEPT ![1 - epoch] = {}]
  BY <1>1, <1>2
<1>5. /\ Reclamation!At(t, {"scan"})
      /\ Plain!Reclamation!Counters!ScanClear(t)
      /\ value' = [o \in Objects |-> IF o \in Reclamation!Pool
                                     THEN Plain!Garbage ELSE value[o]]
      /\ phase' = [phase EXCEPT ![t] = "advance"]
      /\ UNCHANGED <<nodePtrs, epoch, rpc, loaded, held, copied, old>>
  BY <1>0
  DEF Reclamation!Reclaim, Reclamation!TakeList, Reclamation!Counters!ScanClear,
      Reclamation!Counters!NoCall, Plain!Reclamation!Counters!ScanClear,
      Plain!Reclamation!Counters!NoCall, Garbage, Plain!Garbage, Reclamation!Pool,
      Reclamation!readerVars
<1> QED
  BY <1>1, <1>2, <1>3, <1>4, <1>5
  DEF Plain!Reclamation!Reclaim, Plain!Reclamation!At, Reclamation!At,
      Plain!Reclamation!readerVars, Plain!Reclamation!prev,
      Reclamation!Pool, Reclamation!List, Reclamation!Listed

LEMMA PlainRetireStep ==
  ASSUME ClassInv, IsPlain, NEW t \in Updaters, RetireStep(t)
  PROVE  Plain!RetireStep(t)
<1>0. /\ node[t] = 0 /\ maxNode = 0 /\ phase[t] # "exchange" /\ phase[t] # "private"
      /\ pc[t] = "retire" /\ UNCHANGED protocolVars
  BY PlainMachine DEF ClassInv, IsPlain, ProgressMatchesPhase, RetireStep
<1>1. Reclamation!RetireStep(t)
  BY <1>0 DEF RetireStep, Reclamation!Exchange, Reclamation!At
<1> USE DEF Reclamation!objectVars, Reclamation!counterVars, Reclamation!readerVars,
            Reclamation!updaterVars, Plain!Reclamation!objectVars,
            Plain!Reclamation!counterVars, Plain!Reclamation!readerVars,
            Plain!Reclamation!updaterVars, Reclamation!Listed, Reclamation!At,
            Plain!Reclamation!At, Reclamation!Counters!NoCall,
            Reclamation!Counters!EpochReading, Plain!Reclamation!Counters!NoCall,
            Plain!Reclamation!Counters!EpochReading
<1>2. ASSUME NEW r \in Readers, Reclamation!SkipReader(t, r)
      PROVE  Plain!Reclamation!SkipReader(t, r)
  BY <1>2
  DEF Reclamation!SkipReader, Plain!Reclamation!SkipReader,
      Reclamation!Counters!ScanMiss, Plain!Reclamation!Counters!ScanMiss
<1>3. ASSUME NEW r \in Readers, Reclamation!FindReader(t, r)
      PROVE  Plain!Reclamation!FindReader(t, r)
  BY <1>0, <1>3
  DEF Reclamation!FindReader, Plain!Reclamation!FindReader, Reclamation!Counters!ScanHit,
      Plain!Reclamation!Counters!ScanHit, Reclamation!LeaveRetire, Reclamation!Leave
<1>4. ASSUME Reclamation!AdvanceEpoch(t)
      PROVE  Plain!Reclamation!AdvanceEpoch(t)
  BY <1>0, <1>4
  DEF Reclamation!AdvanceEpoch, Plain!Reclamation!AdvanceEpoch, Reclamation!prev,
      Plain!Reclamation!prev, Reclamation!LeaveRetire, Reclamation!Leave
<1> HIDE DEF Reclamation!objectVars, Reclamation!counterVars, Reclamation!readerVars,
             Reclamation!updaterVars, Reclamation!Listed, Reclamation!At
<1>5. Plain!Reclamation!RetireStep(t)
  BY <1>1, <1>2, <1>3, <1>4, PlainRetire, PlainReclaim
  DEF Reclamation!RetireStep, Plain!Reclamation!RetireStep
<1> QED
  BY <1>0, <1>5 DEF Plain!RetireStep, protocolVars, Plain!protocolVars

\* The steps that leave the objects alone.
LEMMA PlainLocalStep ==
  ASSUME NEW t \in Updaters, UNCHANGED reclamationVars
  PROVE  /\ TryRegister(t) => Plain!TryRegister(t)
         /\ LocalStep(t) => Plain!LocalStep(t)
         /\ CheckStep(t) => Plain!CheckStep(t)
<1>1. UNCHANGED Plain!reclamationVars
  BY DEF reclamationVars, Plain!reclamationVars, Reclamation!Listed
<1> QED
  BY <1>1, PlainProtocolStep
  DEF TryRegister, LocalStep, CheckStep, OutsideGetPtr, Plain!TryRegister,
      Plain!LocalStep, Plain!CheckStep, Plain!OutsideGetPtr

LEMMA PlainStep ==
  ASSUME ClassInv, IsPlain, Next
  PROVE  Plain!Next
<1> USE DEF Plain!Next, Plain!UpdaterStep
<1>1. ASSUME NEW r \in Readers, ReaderStep(r) PROVE Plain!Next
  BY <1>1, PlainReaderStep
<1>2. ASSUME NEW t \in Updaters, TryRegister(t) PROVE Plain!Next
  BY <1>2, PlainLocalStep DEF TryRegister
<1>3. ASSUME NEW t \in Updaters, LocalStep(t) PROVE Plain!Next
  BY <1>3, PlainLocalStep DEF LocalStep
<1>4. ASSUME NEW t \in Updaters, GetCopy(t) PROVE Plain!Next
  BY <1>4, PlainCopyStep
<1>5. ASSUME NEW t \in Updaters, RunCallback(t) PROVE Plain!Next
  BY <1>5, PlainCallbackStep
<1>6. ASSUME NEW t \in Updaters, Publish(t) PROVE Plain!Next
  BY <1>6, PlainPublishStep
<1>7. ASSUME NEW t \in Updaters, RetireStep(t) PROVE Plain!Next
  BY <1>7, PlainRetireStep
<1>8. ASSUME NEW t \in Updaters, CheckStep(t) PROVE Plain!Next
  BY <1>8, PlainLocalStep DEF CheckStep
<1> QED
  BY <1>1, <1>2, <1>3, <1>4, <1>5, <1>6, <1>7, <1>8, NextCases

LEMMA PlainInit ==
  ASSUME Init, IsPlain
  PROVE  Plain!Init
<1>1. Reclamation!Init /\ Protocol!Init /\ value[nodePtrs[0]] = {} /\ maxNode = 0
  BY DEF Init, IsPlain, Reclamation!Init
<1>2. Reclamation!Nodes = {0} /\ Reclamation!Published = {nodePtrs[0]} /\ nodePtrs[0] \in Objects
  BY <1>1 DEF Reclamation!Init, Reclamation!Nodes, Reclamation!Published
<1>3. Reclamation!Listed(finished[0]) = {}
      /\ \A e \in 0..1 : Reclamation!Listed(retireLists[0][e]) = {}
  BY <1>1, <1>2, NothingListed DEF Reclamation!Init, Reclamation!Epochs
<1>4. \E v \in SUBSET Plain!Updates :
         value = [o \in Objects |-> IF o = nodePtrs[0] THEN v ELSE Plain!Garbage]
  <2>1. PICK v : value = [o \in Objects |-> IF o \in Reclamation!Published THEN v ELSE Garbage]
    BY <1>1 DEF Reclamation!Init
  <2>2. v = {}
    BY <1>1, <1>2, <2>1
  <2> QED BY <1>2, <2>1, <2>2 DEF Garbage, Plain!Garbage
<1>5. Plain!Reclamation!Init
  BY <1>1, <1>2, <1>3, <1>4
  DEF Reclamation!Init, Plain!Reclamation!Init, Reclamation!Counters!Init,
      Plain!Reclamation!Counters!Init, Reclamation!Counters!NoCall,
      Plain!Reclamation!Counters!NoCall, Plain!Reclamation!Epochs
<1>6. Plain!Protocol!Init
  BY <1>1 DEF Protocol!Init, Plain!Protocol!Init
<1> QED BY <1>1, <1>5, <1>6 DEF Plain!Init

\* Without NUMA support the variant is the class of rcu_protected.hpp, for every
\* number of cores: it starts as RcuProtected does and takes only its steps, with
\* the length of a list for the number of objects in it.
THEOREM NumaImplementsPlain == Spec => ImplementsPlain
<1>1. Init => (IsPlain => Plain!Init)
  BY PlainInit
<1>2. ClassInv /\ [Next]_vars => [IsPlain => [Plain!Next]_(Plain!vars)]_vars
  BY PlainStep
<1> QED
  BY <1>1, <1>2, ClassInvariant, PTL DEF Spec, ImplementsPlain

\* The same class with its theorems.
Class == INSTANCE RcuProtectedProofs WITH
  CleanupThreshold <- MaxConcurrency,
  ptr <- nodePtrs[0],
  retireLists <- [e \in 0..1 |-> Reclamation!Listed(retireLists[0][e])],
  finished <- Reclamation!Listed(finished[0])

LEMMA ClassAssumption == Class!RcuAssumption
BY NumaAssumption
DEF Class!RcuAssumption, Class!Updates, Class!Protocol!Updates, Protocol!Updates,
    IsFiniteSet, Class!IsFiniteSet

\* The definitions of the two instances are the same.
LEMMA SameProtocol ==
  ASSUME NEW t \in Updaters
  PROVE  /\ Plain!Protocol!TryRegister(t) <=> Class!Protocol!TryRegister(t)
         /\ Plain!Protocol!LocalStep(t) <=> Class!Protocol!LocalStep(t)
         /\ Plain!Protocol!HaveCopy(t) <=> Class!Protocol!HaveCopy(t)
         /\ Plain!Protocol!CallbackReturns(t) <=> Class!Protocol!CallbackReturns(t)
         /\ Plain!Protocol!Publish(t) <=> Class!Protocol!Publish(t)
         /\ Plain!Protocol!CheckStep(t) <=> Class!Protocol!CheckStep(t)
<1> USE DEF Class!Protocol!queueVars, Class!Protocol!loopVars, Class!Protocol!Goto,
            Class!Protocol!LatestCall, Plain!Protocol!queueVars,
            Plain!Protocol!loopVars, Plain!Protocol!Goto, Plain!Protocol!LatestCall
<1>1. Plain!Protocol!TryRegister(t) <=> Class!Protocol!TryRegister(t)
  BY DEF Class!Protocol!TryRegister, Class!Protocol!Call, Plain!Protocol!TryRegister,
         Plain!Protocol!Call
<1>2. Plain!Protocol!Write(t) <=> Class!Protocol!Write(t)
  BY DEF Class!Protocol!Write, Class!Protocol!Enqueue, Plain!Protocol!Write,
         Plain!Protocol!Enqueue
<1>3. Plain!Protocol!Enter(t) <=> Class!Protocol!Enter(t)
  BY DEF Class!Protocol!Enter, Class!Protocol!ExpectAndDrain, Plain!Protocol!Enter,
         Plain!Protocol!ExpectAndDrain
<1>4. Plain!Protocol!Read(t) <=> Class!Protocol!Read(t)
  BY DEF Class!Protocol!Read, Plain!Protocol!Read
<1>5. Plain!Protocol!Reload(t) <=> Class!Protocol!Reload(t)
  BY DEF Class!Protocol!Reload, Plain!Protocol!Reload
<1>6. Plain!Protocol!Resign(t) <=> Class!Protocol!Resign(t)
  BY DEF Class!Protocol!Resign, Class!Protocol!Leave, Plain!Protocol!Resign,
         Plain!Protocol!Leave
<1>7. Plain!Protocol!NextBatch(t) <=> Class!Protocol!NextBatch(t)
  BY DEF Class!Protocol!NextBatch, Class!Protocol!Again, Plain!Protocol!NextBatch,
         Plain!Protocol!Again
<1> QED
  BY <1>1, <1>2, <1>3, <1>4, <1>5, <1>6, <1>7
  DEF Class!Protocol!LocalStep, Class!Protocol!CheckStep, Plain!Protocol!LocalStep,
      Plain!Protocol!CheckStep, Class!Protocol!HaveCopy, Plain!Protocol!HaveCopy,
      Class!Protocol!CallbackReturns, Plain!Protocol!CallbackReturns,
      Class!Protocol!Publish, Plain!Protocol!Publish

LEMMA SameReclamation ==
  /\ \A r \in Readers :
       /\ Plain!Reclamation!LoadEpoch(r) <=> Class!Reclamation!LoadEpoch(r)
       /\ Plain!Reclamation!StoreMark(r) <=> Class!Reclamation!StoreMark(r)
       /\ Plain!Reclamation!LoadPtr(r) <=> Class!Reclamation!LoadPtr(r)
       /\ Plain!Reclamation!Unlock(r) <=> Class!Reclamation!Unlock(r)
  /\ \A t \in Updaters :
       /\ \A o : Plain!Reclamation!GetCopy(t, o) <=> Class!Reclamation!GetCopy(t, o)
       /\ \A v : Plain!Reclamation!Apply(t, v) <=> Class!Reclamation!Apply(t, v)
       /\ Plain!Reclamation!Publish(t) <=> Class!Reclamation!Publish(t)
       /\ Plain!Reclamation!RetireStep(t) <=> Class!Reclamation!RetireStep(t)
<1> USE DEF Plain!Reclamation!objectVars, Plain!Reclamation!counterVars,
            Plain!Reclamation!readerVars, Plain!Reclamation!updaterVars,
            Plain!Reclamation!At, Plain!Reclamation!prev, Plain!Reclamation!InUserCode,
            Class!Reclamation!objectVars, Class!Reclamation!counterVars,
            Class!Reclamation!readerVars, Class!Reclamation!updaterVars,
            Class!Reclamation!At, Class!Reclamation!prev, Class!Reclamation!InUserCode
<1>1. ASSUME NEW r \in Readers
      PROVE  /\ Plain!Reclamation!LoadEpoch(r) <=> Class!Reclamation!LoadEpoch(r)
             /\ Plain!Reclamation!StoreMark(r) <=> Class!Reclamation!StoreMark(r)
             /\ Plain!Reclamation!LoadPtr(r) <=> Class!Reclamation!LoadPtr(r)
             /\ Plain!Reclamation!Unlock(r) <=> Class!Reclamation!Unlock(r)
  BY DEF Plain!Reclamation!LoadEpoch, Plain!Reclamation!StoreMark,
         Plain!Reclamation!LoadPtr, Plain!Reclamation!Unlock,
         Plain!Reclamation!Counters!Increment, Plain!Reclamation!Counters!Decrement,
         Plain!Reclamation!Counters!EpochReading,
         Class!Reclamation!LoadEpoch, Class!Reclamation!StoreMark,
         Class!Reclamation!LoadPtr, Class!Reclamation!Unlock,
         Class!Reclamation!Counters!Increment, Class!Reclamation!Counters!Decrement,
         Class!Reclamation!Counters!EpochReading
<1>2. ASSUME NEW t \in Updaters
      PROVE  /\ \A o : Plain!Reclamation!GetCopy(t, o) <=> Class!Reclamation!GetCopy(t, o)
             /\ \A v : Plain!Reclamation!Apply(t, v) <=> Class!Reclamation!Apply(t, v)
             /\ Plain!Reclamation!Publish(t) <=> Class!Reclamation!Publish(t)
  BY DEF Plain!Reclamation!GetCopy, Plain!Reclamation!Apply, Plain!Reclamation!Publish,
         Class!Reclamation!GetCopy, Class!Reclamation!Apply, Class!Reclamation!Publish
<1>3. ASSUME NEW t \in Updaters
      PROVE  Plain!Reclamation!Retire(t) <=> Class!Reclamation!Retire(t)
  <2>1. \A S : Plain!Reclamation!Cardinality(S) = Class!Reclamation!Cardinality(S)
    BY DEF Plain!Reclamation!Cardinality, Class!Reclamation!Cardinality
  <2> QED
    BY <2>1
    DEF Plain!Reclamation!Retire, Plain!Reclamation!Counters!ScanBegin,
        Plain!Reclamation!Counters!NoCall,
        Class!Reclamation!Retire, Class!Reclamation!Counters!ScanBegin,
        Class!Reclamation!Counters!NoCall
<1>4. ASSUME NEW t \in Updaters, NEW r \in Readers
      PROVE  /\ Plain!Reclamation!SkipReader(t, r) <=> Class!Reclamation!SkipReader(t, r)
             /\ Plain!Reclamation!FindReader(t, r) <=> Class!Reclamation!FindReader(t, r)
  BY DEF Plain!Reclamation!SkipReader, Plain!Reclamation!FindReader,
         Plain!Reclamation!Counters!ScanMiss, Plain!Reclamation!Counters!ScanHit,
         Plain!Reclamation!Counters!NoCall, Plain!Reclamation!Counters!EpochReading,
         Class!Reclamation!SkipReader, Class!Reclamation!FindReader,
         Class!Reclamation!Counters!ScanMiss, Class!Reclamation!Counters!ScanHit,
         Class!Reclamation!Counters!NoCall, Class!Reclamation!Counters!EpochReading
<1>5. ASSUME NEW t \in Updaters
      PROVE  /\ Plain!Reclamation!Reclaim(t) <=> Class!Reclamation!Reclaim(t)
             /\ Plain!Reclamation!AdvanceEpoch(t) <=> Class!Reclamation!AdvanceEpoch(t)
  BY DEF Plain!Reclamation!Reclaim, Plain!Reclamation!AdvanceEpoch,
         Plain!Reclamation!Counters!ScanClear, Plain!Reclamation!Counters!NoCall,
         Plain!Garbage, Class!Reclamation!Reclaim, Class!Reclamation!AdvanceEpoch,
         Class!Reclamation!Counters!ScanClear, Class!Reclamation!Counters!NoCall,
         Class!Garbage
<1>6. ASSUME NEW t \in Updaters
      PROVE  Plain!Reclamation!RetireStep(t) <=> Class!Reclamation!RetireStep(t)
  BY <1>3, <1>4, <1>5 DEF Plain!Reclamation!RetireStep, Class!Reclamation!RetireStep
<1> QED BY <1>1, <1>2, <1>6

LEMMA SameClass ==
  /\ Plain!Init => Class!Init
  /\ Plain!Next => Class!Next
  /\ Plain!vars = Class!vars
<1>1. Plain!Init => Class!Init
  BY DEF Plain!Init, Plain!Reclamation!Init, Plain!Reclamation!Counters!Init,
         Plain!Reclamation!Counters!NoCall, Plain!Reclamation!Epochs, Plain!Garbage,
         Plain!Updates, Plain!Protocol!Updates, Plain!Protocol!Init,
         Class!Init, Class!Reclamation!Init, Class!Reclamation!Counters!Init,
         Class!Reclamation!Counters!NoCall, Class!Reclamation!Epochs, Class!Garbage,
         Class!Updates, Class!Protocol!Updates, Class!Protocol!Init
<1>2. Plain!vars = Class!vars /\ Plain!reclamationVars = Class!reclamationVars
      /\ Plain!protocolVars = Class!protocolVars
  BY DEF Plain!vars, Plain!reclamationVars, Plain!protocolVars,
         Class!vars, Class!reclamationVars, Class!protocolVars
<1>3. ASSUME NEW r \in Readers PROVE Plain!ReaderStep(r) => Class!ReaderStep(r)
  BY SameReclamation
  DEF Plain!ReaderStep, Plain!LoadEpoch, Plain!StoreMark, Plain!LoadPtr, Plain!Unlock,
      Plain!InUserCode, Plain!protocolVars, Class!ReaderStep, Class!LoadEpoch,
      Class!StoreMark, Class!LoadPtr, Class!Unlock, Class!InUserCode, Class!protocolVars
<1>4. ASSUME NEW t \in Updaters
      PROVE  /\ Plain!TryRegister(t) => Class!TryRegister(t)
             /\ Plain!LocalStep(t) => Class!LocalStep(t)
             /\ Plain!CheckStep(t) => Class!CheckStep(t)
  BY SameProtocol
  DEF Plain!TryRegister, Plain!LocalStep, Plain!CheckStep, Plain!OutsideGetPtr,
      Plain!reclamationVars, Class!TryRegister, Class!LocalStep, Class!CheckStep,
      Class!OutsideGetPtr, Class!reclamationVars
<1>5. ASSUME NEW t \in Updaters
      PROVE  /\ Plain!GetCopy(t) => Class!GetCopy(t)
             /\ Plain!RunCallback(t) => Class!RunCallback(t)
             /\ Plain!Publish(t) => Class!Publish(t)
             /\ Plain!RetireStep(t) => Class!RetireStep(t)
  BY SameProtocol, SameReclamation
  DEF Plain!GetCopy, Plain!RunCallback, Plain!Publish, Plain!RetireStep,
      Plain!protocolVars, Class!GetCopy, Class!RunCallback, Class!Publish,
      Class!RetireStep, Class!protocolVars
<1> QED
  BY <1>1, <1>2, <1>3, <1>4, <1>5
  DEF Plain!Next, Plain!UpdaterStep, Class!Next, Class!UpdaterStep

\* So what is proved of RcuProtected holds of the variant without NUMA support: it
\* implements the contract, and its callbacks and batches are as they should be.
THEOREM PlainKeepsPromises ==
  Spec /\ IsPlain =>
    Class!ImplementsContract /\ Class!RunsOnceInCallOrder /\ []Class!BatchIsBounded
<1>1. Init /\ IsPlain => Class!Init
  BY PlainInit, SameClass
<1>2. ClassInv /\ IsPlain /\ [Next]_vars => [Class!Next]_(Class!vars) /\ IsPlain'
  <2>1. ASSUME ClassInv, IsPlain, Next PROVE Class!Next /\ IsPlain'
    BY <2>1, PlainStep, SameClass DEF Next, machine, IsPlain
  <2>2. ASSUME UNCHANGED vars, IsPlain PROVE UNCHANGED Class!vars /\ IsPlain'
    BY <2>2 DEF vars, machine, reclamationVars, protocolVars, IsPlain,
                Class!vars, Class!reclamationVars, Class!protocolVars, Reclamation!Listed
  <2> QED BY <2>1, <2>2
<1>3. Spec /\ IsPlain => Class!Spec
  BY <1>1, <1>2, ClassInvariant, PTL DEF Spec, Class!Spec
<1> QED
  BY <1>3, ClassAssumption, Class!ClassImplementsContract,
     Class!CallbacksRunOnceInCallOrder, Class!BatchesAreBounded, PTL

=============================================================================
