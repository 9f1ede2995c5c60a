------------------------ MODULE UpdateProtocolProofs ------------------------
(***************************************************************************)
(* Proofs about UpdateProtocol, for any finite set of updaters, thresholds,*)
(* queue capacity and number of calls: there is exactly one updater while  *)
(* there is work, and m_updateCnt is exact.                                *)
(***************************************************************************)
EXTENDS UpdateProtocol, FiniteSetTheorems, TLAPS

LEMMA NextCases ==
  ASSUME Next, NEW P,
    ASSUME NEW t \in Updaters, TryRegister(t) PROVE P,
    ASSUME NEW t \in Updaters, Write(t) PROVE P,
    ASSUME NEW t \in Updaters, HaveCopy(t) PROVE P,
    ASSUME NEW t \in Updaters, CallbackReturns(t) PROVE P,
    ASSUME NEW t \in Updaters, Enter(t) PROVE P,
    ASSUME NEW t \in Updaters, Read(t) PROVE P,
    ASSUME NEW t \in Updaters, Reload(t) PROVE P,
    ASSUME NEW t \in Updaters, Publish(t) PROVE P,
    ASSUME NEW t \in Updaters, Resign(t) PROVE P,
    ASSUME NEW t \in Updaters, NextBatch(t) PROVE P
  PROVE P
BY DEF Next, UpdaterStep, LocalStep, CheckStep

-----------------------------------------------------------------------------

LEMMA TypesStep ==
  ASSUME ProtocolInv, Next
  PROVE  TypeOK'
<1> USE ProtocolAssumption
    DEF ProtocolInv, TypeOK, LocalsFollowPc, Inside, Goto, queueVars, loopVars
<1>1. ASSUME NEW t \in Updaters, TryRegister(t) PROVE TypeOK'
  <2>1. calls' = [calls EXCEPT ![t] = @ + 1] /\ calls[t] + 1 \in 1..MaxCalls
    BY <1>1 DEF TryRegister, Call
  <2>2. LatestCall(t)' \in Updates
    BY <2>1 DEF LatestCall, Updates
  <2>3. running' \in [Updaters -> Updates \cup {NoUpdate}]
    BY <1>1, <2>2 DEF TryRegister, Call
  <2>4. calls' \in [Updaters -> 0..MaxCalls]
    BY <2>1
  <2>5. /\ updateCnt' \in Nat
        /\ UNCHANGED <<updateQueue, done, expected, unflushed>>
    BY <1>1 DEF TryRegister, Call
  <2>6. pc' \in [Updaters -> Inside \cup {"idle", "write"}]
    BY <1>1 DEF TryRegister, Call
  <2> QED
    BY <2>3, <2>4, <2>5, <2>6
<1>2. ASSUME NEW t \in Updaters, Write(t) PROVE TypeOK'
  <2>1. LatestCall(t) \in Updates
    BY <1>2 DEF Write, Enqueue, LatestCall, Updates
  <2> QED
    BY <1>2, <2>1 DEF Write, Enqueue
<1>3. ASSUME NEW t \in Updaters, HaveCopy(t) PROVE TypeOK'
  BY <1>3 DEF HaveCopy
<1>4. ASSUME NEW t \in Updaters, CallbackReturns(t) PROVE TypeOK'
  <2>1. running' \in [Updaters -> Updates \cup {NoUpdate}]
    BY <1>4 DEF CallbackReturns
  <2>2. done' \in [Updaters -> Nat]
    <3>1. done' = [done EXCEPT ![t] = done[t] + 1]
      BY <1>4 DEF CallbackReturns
    <3> QED BY <3>1
  <2>3. unflushed' \in [Updaters -> Nat]
    <3>1. \/ UNCHANGED unflushed
          \/ unflushed' = [unflushed EXCEPT ![t] = unflushed[t] + 1]
      BY <1>4 DEF CallbackReturns
    <3>2. CASE UNCHANGED unflushed
      BY <3>2
    <3>3. CASE unflushed' = [unflushed EXCEPT ![t] = unflushed[t] + 1]
      BY <3>3
    <3> QED BY <3>1, <3>2, <3>3
  <2>4. pc' \in [Updaters -> Inside \cup {"idle", "write"}]
    BY <1>4 DEF CallbackReturns
  <2>5. UNCHANGED <<queueVars, expected, calls>>
    BY <1>4 DEF CallbackReturns
  <2> QED
    BY <2>1, <2>2, <2>3, <2>4, <2>5
<1>5. ASSUME NEW t \in Updaters, Enter(t) PROVE TypeOK'
  BY <1>5 DEF Enter, ExpectAndDrain
<1>6. ASSUME NEW t \in Updaters, Read(t) PROVE TypeOK'
  BY <1>6 DEF Read
<1>7. ASSUME NEW t \in Updaters, Reload(t) PROVE TypeOK'
  BY <1>7 DEF Reload
<1>8. ASSUME NEW t \in Updaters, Publish(t) PROVE TypeOK'
  BY <1>8 DEF Publish
<1>9. ASSUME NEW t \in Updaters, Resign(t) PROVE TypeOK'
  BY <1>9 DEF Resign, Leave
<1>10. ASSUME NEW t \in Updaters, NextBatch(t) PROVE TypeOK'
  BY <1>10 DEF NextBatch, Again
<1> QED
  BY <1>1, <1>2, <1>3, <1>4, <1>5, <1>6, <1>7, <1>8, <1>9, <1>10, NextCases

LEMMA LocalsStep ==
  ASSUME ProtocolInv, Next
  PROVE  LocalsFollowPc'
<1> USE ProtocolAssumption
    DEF ProtocolInv, TypeOK, LocalsFollowPc, CountMeansOneUpdater, Registered, Inside,
        Goto, queueVars, loopVars
<1>1. ASSUME NEW t \in Updaters, TryRegister(t) PROVE LocalsFollowPc'
  <2>1. calls' = [calls EXCEPT ![t] = @ + 1] /\ calls[t] + 1 \in 1..MaxCalls
    BY <1>1 DEF TryRegister, Call
  <2>2. LatestCall(t)' # NoUpdate
    BY <2>1 DEF LatestCall, Updates
  <2> QED
    BY <1>1, <2>1, <2>2 DEF TryRegister, Call
<1>2. ASSUME NEW t \in Updaters, Write(t) PROVE LocalsFollowPc'
  BY <1>2 DEF Write, Enqueue
<1>3. ASSUME NEW t \in Updaters, HaveCopy(t) PROVE LocalsFollowPc'
  BY <1>3 DEF HaveCopy
<1>4. ASSUME NEW t \in Updaters, CallbackReturns(t) PROVE LocalsFollowPc'
  <2>1. /\ pc' = [pc EXCEPT ![t] = pc'[t]]
        /\ pc'[t] \in {"enter", "drain", "publish"}
        /\ running' = [running EXCEPT ![t] = NoUpdate]
        /\ \A u \in Updaters : u # t => done'[u] = done[u]
        /\ UNCHANGED calls
    BY <1>4 DEF CallbackReturns
  <2> QED
    BY <2>1
<1>5. ASSUME NEW t \in Updaters, Enter(t) PROVE LocalsFollowPc'
  BY <1>5 DEF Enter, ExpectAndDrain
<1>6. ASSUME NEW t \in Updaters, Read(t) PROVE LocalsFollowPc'
  BY <1>6 DEF Read
<1>7. ASSUME NEW t \in Updaters, Reload(t) PROVE LocalsFollowPc'
  BY <1>7 DEF Reload
<1>8. ASSUME NEW t \in Updaters, Publish(t) PROVE LocalsFollowPc'
  BY <1>8 DEF Publish
<1>9. ASSUME NEW t \in Updaters, Resign(t) PROVE LocalsFollowPc'
  BY <1>9 DEF Resign, Leave
<1>10. ASSUME NEW t \in Updaters, NextBatch(t) PROVE LocalsFollowPc'
  BY <1>10 DEF NextBatch, Again
<1> QED
  BY <1>1, <1>2, <1>3, <1>4, <1>5, <1>6, <1>7, <1>8, <1>9, <1>10, NextCases

LEMMA OneUpdaterStep ==
  ASSUME ProtocolInv, Next
  PROVE  CountMeansOneUpdater'
<1> USE DEF ProtocolInv, TypeOK, CountMeansOneUpdater, Registered, Inside, Goto,
            queueVars, loopVars
<1>1. ASSUME NEW t \in Updaters, TryRegister(t) PROVE CountMeansOneUpdater'
  <2>1. CASE updateCnt = 0
    <3>1. Registered = {}
      BY <2>1
    <3>2. updateCnt' = 1 /\ pc' = [pc EXCEPT ![t] = "get_copy"]
      BY <1>1, <2>1 DEF TryRegister, Call
    <3>3. Registered' = {t}
      BY <3>1, <3>2
    <3> QED BY <3>2, <3>3
  <2>2. CASE updateCnt # 0
    <3>1. updateCnt > 0 /\ updateCnt' > 0
      BY <1>1, <2>2 DEF TryRegister, Call
    <3>2. pc' = [pc EXCEPT ![t] = IF pc[t] = "callback" THEN "nested_write" ELSE "write"]
      BY <1>1, <2>2 DEF TryRegister, Call
    <3>3. UNCHANGED Registered
      BY <1>1, <3>2 DEF TryRegister, Call
    <3> QED BY <3>1, <3>3
  <2> QED BY <2>1, <2>2
<1>2. ASSUME NEW t \in Updaters, Write(t) PROVE CountMeansOneUpdater'
  BY <1>2 DEF Write, Enqueue
<1>3. ASSUME NEW t \in Updaters, HaveCopy(t) PROVE CountMeansOneUpdater'
  BY <1>3 DEF HaveCopy
<1>4. ASSUME NEW t \in Updaters, CallbackReturns(t) PROVE CountMeansOneUpdater'
  BY <1>4 DEF CallbackReturns
<1>5. ASSUME NEW t \in Updaters, Enter(t) PROVE CountMeansOneUpdater'
  BY <1>5 DEF Enter, ExpectAndDrain
<1>6. ASSUME NEW t \in Updaters, Read(t) PROVE CountMeansOneUpdater'
  BY <1>6 DEF Read
<1>7. ASSUME NEW t \in Updaters, Reload(t) PROVE CountMeansOneUpdater'
  BY <1>7 DEF Reload
<1>8. ASSUME NEW t \in Updaters, Publish(t) PROVE CountMeansOneUpdater'
  BY <1>8 DEF Publish
<1>9. ASSUME NEW t \in Updaters, Resign(t) PROVE CountMeansOneUpdater'
  BY <1>9 DEF Resign, Leave
<1>10. ASSUME NEW t \in Updaters, NextBatch(t) PROVE CountMeansOneUpdater'
  BY <1>10 DEF NextBatch, Again
<1> QED
  BY <1>1, <1>2, <1>3, <1>4, <1>5, <1>6, <1>7, <1>8, <1>9, <1>10, NextCases

-----------------------------------------------------------------------------
(* CountIsExact. What the lemmas need of a step is how it changes Writing. *)

\* The threads that have counted a callback and not enqueued it are finitely
\* many; one more or one less changes their number by one.
LEMMA WritingCounted ==
  ASSUME NEW W, W \subseteq Updaters
  PROVE  /\ Cardinality(W) \in Nat
         /\ Cardinality(W) = 0 <=> W = {}
         /\ \A t : t \notin W => Cardinality(W \cup {t}) = Cardinality(W) + 1
         /\ \A t \in W : Cardinality(W \ {t}) = Cardinality(W) - 1
<1>1. IsFiniteSet(W)
  BY ProtocolAssumption, FS_Subset
<1> QED
  BY <1>1, FS_CardinalityType, FS_AddElement, FS_RemoveElement, FS_EmptySet

LEMMA CountStep ==
  ASSUME ProtocolInv, TypeOK', Next
  PROVE  CountIsExact'
<1> DEFINE n == Cardinality(Writing)
           atHand(t) == IF running[t] = NoUpdate THEN 0 ELSE 1
           Exact(t) == updateCnt = done[t] + atHand(t) + Len(updateQueue) + n
           Kept == /\ \A t \in Registered : Exact(t)
                   /\ Registered = {} => updateQueue = <<>> /\ Writing = {}
<1>a. /\ n \in Nat /\ n' \in Nat
      /\ n = 0 <=> Writing = {}
      /\ \A t : t \notin Writing => Cardinality(Writing \cup {t}) = n + 1
      /\ \A t \in Writing : Cardinality(Writing \ {t}) = n - 1
  <2>1. Writing \subseteq Updaters /\ Writing' \subseteq Updaters
    BY DEF Writing
  <2>2. n' = Cardinality(Writing')
    OBVIOUS
  <2> QED BY <2>1, <2>2, WritingCounted
<1>b. /\ \A t \in Registered : Exact(t)
      /\ Registered = {} => updateQueue = <<>> /\ Writing = {}
      /\ \A t, u \in Registered : t = u
      /\ updateCnt > 0 <=> Registered # {}
  BY DEF ProtocolInv, CountIsExact, CountMeansOneUpdater
<1>c. \A t \in Updaters : atHand(t) \in Nat /\ done[t] \in Nat /\ atHand(t)' \in Nat
  BY DEF ProtocolInv, TypeOK
<1>d. updateCnt \in Nat /\ updateQueue \in Seq(Updates) /\ Len(updateQueue) \in Nat
  BY DEF ProtocolInv, TypeOK
<1> USE DEF ProtocolInv, TypeOK, LocalsFollowPc, Goto, queueVars, loopVars
\* A step that leaves the registered thread, the queue and the counted alone.
<1>e. ASSUME UNCHANGED <<Registered, Writing, updateCnt, updateQueue>>,
             \A t \in Registered : UNCHANGED <<done[t], atHand(t)>>
      PROVE  Kept'
  <2>1. n' = n
    BY <1>e
  <2> QED BY <1>b, <1>e, <2>1
<1> HIDE DEF n, atHand
<1>1. ASSUME NEW t \in Updaters, TryRegister(t) PROVE Kept'
  <2>0. updateCnt' = updateCnt + 1 /\ UNCHANGED <<updateQueue, done>>
    BY <1>1 DEF TryRegister, Call
  <2>1. CASE updateCnt = 0
    <3>1. pc' = [pc EXCEPT ![t] = "get_copy"] /\ pc[t] = "idle" /\ running'[t] # NoUpdate
      BY <1>1, <2>1, <1>b, ProtocolAssumption
      DEF TryRegister, Call, LatestCall, Updates, Registered, Inside
    <3>2. Registered' = {t}
      BY <3>1, <2>1, <1>b DEF Registered, Inside
    <3>3. UNCHANGED Writing
      BY <3>1 DEF Writing
    <3>4. /\ n' = 0 /\ Len(updateQueue) = 0
          /\ done[t] = 0 /\ atHand(t)' = 1
      BY <1>a, <1>b, <1>d, <2>1, <3>1, <3>3 DEF n, atHand
    <3> QED BY <2>0, <2>1, <3>1, <3>2, <3>4
  <2>2. CASE updateCnt # 0
    <3>1. /\ pc[t] \in {"idle", "callback"}
          /\ pc' = [pc EXCEPT ![t] = IF pc[t] = "callback" THEN "nested_write" ELSE "write"]
          /\ UNCHANGED running
      BY <1>1, <2>2 DEF TryRegister, Call
    <3>2. UNCHANGED Registered
      BY <3>1 DEF Registered, Inside
    <3>3. Writing' = Writing \cup {t} /\ t \notin Writing
      BY <3>1 DEF Writing
    <3>4. n' = n + 1
      BY <1>a, <3>3 DEF n
    <3>5. \A u \in Registered : u \in Updaters /\ UNCHANGED <<done[u], atHand(u)>>
      BY <2>0, <3>1 DEF Registered, atHand
    <3>6. Registered' # {}
      BY <1>b, <1>d, <2>2, <3>2
    <3>7. ASSUME NEW u \in Registered PROVE Exact(u)'
      <4>1. Exact(u) /\ u \in Updaters /\ done'[u] = done[u] /\ atHand(u)' = atHand(u)
        BY <1>b, <3>5
      <4>2. /\ done[u] \in Nat /\ atHand(u) \in Nat /\ Len(updateQueue) \in Nat
            /\ Len(updateQueue') = Len(updateQueue) /\ updateCnt' = updateCnt + 1
        BY <4>1, <2>0, <1>c, <1>d
      <4> HIDE DEF ProtocolInv, TypeOK, LocalsFollowPc
      <4>3. n \in Nat
        BY <1>a
      <4> QED BY <4>1, <4>2, <4>3, <3>4
    <3> QED BY <3>2, <3>6, <3>7
  <2> QED BY <2>1, <2>2
<1>2. ASSUME NEW t \in Updaters, Write(t) PROVE Kept'
  <2>1. /\ pc[t] \in {"write", "nested_write"}
        /\ pc' = [pc EXCEPT ![t] = IF pc[t] = "nested_write" THEN "callback" ELSE "idle"]
        /\ UNCHANGED <<running, done, updateCnt>>
        /\ updateQueue' = Append(updateQueue, LatestCall(t))
    BY <1>2 DEF Write, Enqueue
  <2>2. UNCHANGED Registered
    BY <2>1 DEF Registered, Inside
  <2>3. Writing' = Writing \ {t} /\ t \in Writing
    BY <2>1 DEF Writing
  <2>4. n' = n - 1
    BY <1>a, <2>3 DEF n
  <2>5. LatestCall(t) \in Updates
    BY <2>1 DEF LatestCall, Updates
  <2>6. Len(updateQueue') = Len(updateQueue) + 1
    BY <2>1, <2>5, <1>d
  <2>7. ASSUME NEW u \in Registered PROVE Exact(u)'
    <3>1. Exact(u) /\ u \in Updaters /\ atHand(u)' = atHand(u)
      BY <1>b, <2>1 DEF Registered, atHand
    <3>2. done'[u] = done[u] /\ done[u] \in Nat /\ atHand(u) \in Nat /\ updateCnt' = updateCnt
      BY <3>1, <2>1, <1>c
    <3> HIDE DEF ProtocolInv, TypeOK, LocalsFollowPc
    <3>3. n \in Nat
      BY <1>a
    <3> QED BY <3>1, <3>2, <3>3, <2>4, <2>6, <1>d
  <2> QED BY <2>2, <2>3, <2>7, <1>b
<1>3. ASSUME NEW t \in Updaters, HaveCopy(t) PROVE Kept'
  BY <1>e, <1>3 DEF HaveCopy, Writing, Registered, Inside, atHand
<1>4. ASSUME NEW t \in Updaters, CallbackReturns(t) PROVE Kept'
  <2>1. /\ pc[t] = "callback"
        /\ pc' = [pc EXCEPT ![t] = pc'[t]]
        /\ pc'[t] \in {"enter", "drain", "publish"}
        /\ running[t] # NoUpdate
        /\ running' = [running EXCEPT ![t] = NoUpdate]
        /\ done' = [done EXCEPT ![t] = @ + 1]
        /\ UNCHANGED queueVars
    BY <1>4 DEF CallbackReturns
  <2>2. UNCHANGED <<Registered, Writing>> /\ t \in Registered
    BY <2>1 DEF Registered, Writing, Inside
  <2>3. n' = n
    BY <2>2 DEF n
  <2>4. atHand(t) = 1 /\ atHand(t)' = 0 /\ done'[t] = done[t] + 1
    BY <2>1 DEF atHand
  <2>5. Exact(t)'
    BY <2>1, <2>2, <2>3, <2>4, <1>a, <1>b, <1>c, <1>d
  <2> QED BY <2>2, <2>5, <1>b
<1>5. ASSUME NEW t \in Updaters, Enter(t) PROVE Kept'
  BY <1>e, <1>5 DEF Enter, ExpectAndDrain, Writing, Registered, Inside, atHand
<1>6. ASSUME NEW t \in Updaters, Read(t) PROVE Kept'
  <2>1. /\ pc[t] = "drain" /\ running[t] = NoUpdate
        /\ updateQueue # <<>>
        /\ pc' = [pc EXCEPT ![t] = "callback"]
        /\ running' = [running EXCEPT ![t] = Head(updateQueue)]
        /\ updateQueue' = Tail(updateQueue)
        /\ UNCHANGED <<updateCnt, done>>
    BY <1>6 DEF Read
  <2>2. UNCHANGED <<Registered, Writing>> /\ t \in Registered
    BY <2>1 DEF Registered, Writing, Inside
  <2>3. n' = n
    BY <2>2 DEF n
  <2>4. Head(updateQueue) \in Updates /\ Len(updateQueue') = Len(updateQueue) - 1
    BY <2>1, <1>d
  <2>5. atHand(t) = 0 /\ atHand(t)' = 1
    BY <2>1, <2>4, ProtocolAssumption DEF atHand
  <2>6. Exact(t)'
    BY <2>1, <2>2, <2>3, <2>4, <2>5, <1>a, <1>b, <1>c, <1>d
  <2> QED BY <2>2, <2>6, <1>b
<1>7. ASSUME NEW t \in Updaters, Reload(t) PROVE Kept'
  <2>1. /\ pc[t] = "drain" /\ pc' = [pc EXCEPT ![t] = pc'[t]]
        /\ pc'[t] \in {"publish", "drain"}
        /\ UNCHANGED <<queueVars, running, done>>
    BY <1>7 DEF Reload
  <2> QED BY <1>e, <2>1 DEF Writing, Registered, Inside, atHand
<1>8. ASSUME NEW t \in Updaters, Publish(t) PROVE Kept'
  BY <1>e, <1>8 DEF Publish, Writing, Registered, Inside, atHand
<1>9. ASSUME NEW t \in Updaters, Resign(t) PROVE Kept'
  <2>1. /\ pc[t] = "retire" /\ running[t] = NoUpdate
        /\ pc' = [pc EXCEPT ![t] = "idle"]
        /\ updateCnt = done[t]
        /\ UNCHANGED updateQueue
    BY <1>9 DEF Resign, Leave
  <2>2. t \in Registered /\ Exact(t) /\ atHand(t) = 0
    BY <2>1, <1>b DEF Registered, Inside, atHand
  <2>3. n = 0 /\ Len(updateQueue) = 0
    <3>1. done[t] \in Nat
      BY <1>c
    <3> HIDE DEF ProtocolInv, TypeOK, LocalsFollowPc
    <3> QED BY <2>1, <2>2, <3>1, <1>a, <1>d
  <2>4. Writing' = {} /\ updateQueue' = <<>>
    BY <2>1, <2>3, <1>a, <1>d DEF Writing
  <2>5. Registered' = {}
    BY <2>1, <2>2, <1>b DEF Registered, Inside
  <2> QED BY <2>3, <2>4, <2>5
<1>10. ASSUME NEW t \in Updaters, NextBatch(t) PROVE Kept'
  <2>1. /\ pc[t] = "retire" /\ pc' = [pc EXCEPT ![t] = "get_copy"]
        /\ UNCHANGED <<queueVars, running>>
        /\ \A u \in Updaters : UNCHANGED done[u]
    BY <1>10 DEF NextBatch, Again
  <2> QED BY <1>e, <2>1 DEF Writing, Registered, Inside, atHand
<1> QED
  <2>1. Kept'
    <3> HIDE DEF Kept
    <3> QED
      BY <1>1, <1>2, <1>3, <1>4, <1>5, <1>6, <1>7, <1>8, <1>9, <1>10, NextCases
  <2> QED BY <2>1 DEF CountIsExact, n, atHand

-----------------------------------------------------------------------------
(* The theorems *)

\* Whoever finds m_updateCnt at 0 is not in a callback.
LEMMA CallerIsIdle ==
  ASSUME ProtocolInv, NEW t \in Updaters, updateCnt = 0,
         pc[t] \in {"idle", "callback"}
  PROVE  pc[t] = "idle"
BY DEF ProtocolInv, CountMeansOneUpdater, Registered, Inside

LEMMA LatestCallIsUpdate ==
  ASSUME ProtocolInv, NEW t \in Updaters, Call(t, updateCnt = 0)
  PROVE  LatestCall(t)' \in Updates /\ LatestCall(t)' # NoUpdate
<1>1. calls' = [calls EXCEPT ![t] = @ + 1] /\ calls[t] + 1 \in 1..MaxCalls
  BY ProtocolAssumption DEF Call, ProtocolInv, TypeOK
<1> QED BY <1>1, ProtocolAssumption DEF LatestCall, Updates, ProtocolInv, TypeOK

LEMMA LoopStep ==
  ASSUME ProtocolInv, Next
  PROVE  LoopIsBounded'
<1> USE DEF ProtocolInv, TypeOK, LocalsFollowPc, LoopIsBounded, Inside, Goto, queueVars,
            loopVars
<1>1. ASSUME NEW t \in Updaters, TryRegister(t) PROVE LoopIsBounded'
  <2>1. updateCnt' = updateCnt + 1 /\ UNCHANGED <<done, expected>>
    BY <1>1 DEF TryRegister, Call
  <2>2. \/ pc[t] = "idle" /\ pc' = [pc EXCEPT ![t] = "write"] /\ UNCHANGED running
        \/ pc[t] = "callback" /\ pc' = [pc EXCEPT ![t] = "nested_write"] /\ UNCHANGED running
        \/ /\ pc[t] = "idle" /\ pc' = [pc EXCEPT ![t] = "get_copy"]
           /\ running' = [running EXCEPT ![t] = LatestCall(t)']
    BY <1>1, CallerIsIdle DEF TryRegister, Call
  <2>3. LatestCall(t)' # NoUpdate
    BY <1>1, LatestCallIsUpdate DEF TryRegister
  <2> QED BY <2>1, <2>2, <2>3
<1>2. ASSUME NEW t \in Updaters, Write(t) PROVE LoopIsBounded'
  BY <1>2 DEF Write, Enqueue
<1>3. ASSUME NEW t \in Updaters, HaveCopy(t) PROVE LoopIsBounded'
  BY <1>3 DEF HaveCopy
<1>4. ASSUME NEW t \in Updaters, CallbackReturns(t) PROVE LoopIsBounded'
  BY <1>4 DEF CallbackReturns
<1>5. ASSUME NEW t \in Updaters, Enter(t) PROVE LoopIsBounded'
  <2>1. done[t] <= updateCnt
    <3>1. t \in Registered /\ pc[t] = "enter" /\ running[t] = NoUpdate
      BY <1>5 DEF Enter, ExpectAndDrain, Registered
    <3>2. Cardinality(Writing) \in Nat
      BY WritingCounted DEF Writing
    <3>3. updateCnt = done[t] + 0 + Len(updateQueue) + Cardinality(Writing)
      BY <3>1 DEF CountIsExact
    <3>4. Len(updateQueue) \in Nat /\ done[t] \in Nat
      OBVIOUS
    <3> HIDE DEF ProtocolInv, TypeOK, LocalsFollowPc, LoopIsBounded
    <3> QED BY <3>2, <3>3, <3>4
  <2> QED BY <1>5, <2>1 DEF Enter, ExpectAndDrain
<1>6. ASSUME NEW t \in Updaters, Read(t) PROVE LoopIsBounded'
  BY <1>6 DEF Read
<1>7. ASSUME NEW t \in Updaters, Reload(t) PROVE LoopIsBounded'
  BY <1>7 DEF Reload
<1>8. ASSUME NEW t \in Updaters, Publish(t) PROVE LoopIsBounded'
  BY <1>8 DEF Publish
<1>9. ASSUME NEW t \in Updaters, Resign(t) PROVE LoopIsBounded'
  <2>1. /\ pc[t] = "retire" /\ pc' = [pc EXCEPT ![t] = "idle"] /\ updateCnt' = 0
        /\ done' = [done EXCEPT ![t] = 0] /\ expected' = [expected EXCEPT ![t] = 0]
        /\ UNCHANGED running
    BY <1>9 DEF Resign, Leave
  <2>2. \A w \in Updaters : w # t => pc[w] \in {"idle", "write"}
    BY <2>1 DEF CountMeansOneUpdater, Registered
  <2>3. \A w \in Updaters : w # t => done[w] = 0 /\ expected[w] = 0
    BY <2>2
  <2> QED BY <2>1, <2>2, <2>3
<1>10. ASSUME NEW t \in Updaters, NextBatch(t) PROVE LoopIsBounded'
  BY <1>10 DEF NextBatch, Again
<1> QED
  BY <1>1, <1>2, <1>3, <1>4, <1>5, <1>6, <1>7, <1>8, <1>9, <1>10, NextCases

LEMMA UnflushedStep ==
  ASSUME ProtocolInv, Next
  PROVE  UnflushedIsBounded'
<1> USE ProtocolAssumption
    DEF ProtocolInv, TypeOK, LocalsFollowPc, LoopIsBounded, UnflushedIsBounded, Inside,
        Goto, queueVars, loopVars
<1>1. ASSUME NEW t \in Updaters, TryRegister(t) PROVE UnflushedIsBounded'
  <2>1. \/ pc[t] = "idle" /\ pc' = [pc EXCEPT ![t] = "write"]
        \/ pc[t] = "callback" /\ pc' = [pc EXCEPT ![t] = "nested_write"]
        \/ pc[t] = "idle" /\ pc' = [pc EXCEPT ![t] = "get_copy"]
    BY <1>1, CallerIsIdle DEF TryRegister, Call
  <2>2. UNCHANGED <<done, unflushed>>
    BY <1>1 DEF TryRegister, Call
  <2> QED BY <2>1, <2>2
<1>2. ASSUME NEW t \in Updaters, Write(t) PROVE UnflushedIsBounded'
  BY <1>2 DEF Write, Enqueue
<1>3. ASSUME NEW t \in Updaters, HaveCopy(t) PROVE UnflushedIsBounded'
  BY <1>3 DEF HaveCopy
<1>4. ASSUME NEW t \in Updaters, CallbackReturns(t) PROVE UnflushedIsBounded'
  BY <1>4 DEF CallbackReturns
<1>5. ASSUME NEW t \in Updaters, Enter(t) PROVE UnflushedIsBounded'
  BY <1>5 DEF Enter, ExpectAndDrain
<1>6. ASSUME NEW t \in Updaters, Read(t) PROVE UnflushedIsBounded'
  BY <1>6 DEF Read
<1>7. ASSUME NEW t \in Updaters, Reload(t) PROVE UnflushedIsBounded'
  BY <1>7 DEF Reload
<1>8. ASSUME NEW t \in Updaters, Publish(t) PROVE UnflushedIsBounded'
  BY <1>8 DEF Publish
<1>9. ASSUME NEW t \in Updaters, Resign(t) PROVE UnflushedIsBounded'
  BY <1>9 DEF Resign, Leave
<1>10. ASSUME NEW t \in Updaters, NextBatch(t) PROVE UnflushedIsBounded'
  BY <1>10 DEF NextBatch, Again
<1> QED
  BY <1>1, <1>2, <1>3, <1>4, <1>5, <1>6, <1>7, <1>8, <1>9, <1>10, NextCases

LEMMA ProtocolInit == Init => ProtocolInv
<1> SUFFICES ASSUME Init PROVE ProtocolInv
  OBVIOUS
<1>1. TypeOK /\ CountMeansOneUpdater /\ LocalsFollowPc
  BY ProtocolAssumption
  DEF Init, TypeOK, CountMeansOneUpdater, LocalsFollowPc, Registered, Inside
<1>2. CountIsExact
  BY DEF Init, CountIsExact, Registered, Inside, Writing
<1>3. LoopIsBounded /\ UnflushedIsBounded
  BY ProtocolAssumption DEF Init, LoopIsBounded, UnflushedIsBounded
<1> QED BY <1>1, <1>2, <1>3 DEF ProtocolInv

LEMMA InvStep ==
  ASSUME ProtocolInv, [Next]_vars
  PROVE  ProtocolInv'
<1>1. CASE Next
  <2>1. TypeOK'
    BY <1>1, TypesStep
  <2>2. CountMeansOneUpdater'
    BY <1>1, <2>1, OneUpdaterStep
  <2>3. CountIsExact'
    BY <1>1, <2>1, CountStep
  <2>4. LocalsFollowPc'
    BY <1>1, LocalsStep
  <2>5. LoopIsBounded'
    BY <1>1, LoopStep
  <2>6. UnflushedIsBounded'
    BY <1>1, UnflushedStep
  <2> QED BY <2>1, <2>2, <2>3, <2>4, <2>5, <2>6 DEF ProtocolInv
<1>2. CASE UNCHANGED vars
  BY <1>2
  DEF ProtocolInv, TypeOK, CountMeansOneUpdater, CountIsExact, LocalsFollowPc,
      LoopIsBounded, UnflushedIsBounded, Registered, Writing, vars, queueVars, loopVars
<1> QED BY <1>1, <1>2

\* The inductive invariant holds in every reachable state.
THEOREM ProtocolInvariant == Spec => []ProtocolInv
<1>1. ProtocolInv /\ [Next]_vars => ProtocolInv'
  BY InvStep
<1> QED BY <1>1, ProtocolInit, PTL DEF Spec

\* m_updateCnt is above 0 exactly while one thread is the updater.
THEOREM OneUpdaterInWork == Spec => []CountMeansOneUpdater
BY ProtocolInvariant, PTL DEF ProtocolInv

\* m_updateCnt counts what is done, running, queued and about to be queued; an
\* updater that resigns leaves nothing behind.
THEOREM CountStaysExact == Spec => []CountIsExact
BY ProtocolInvariant, PTL DEF ProtocolInv

-----------------------------------------------------------------------------
(* Who can get stuck. ENABLED is beyond the provers: CanGo stands for it.  *)

\* The queue keeps to its capacity.
QueueFits == Len(updateQueue) <= QueueCapacity

LEMMA QueueStep ==
  ASSUME TypeOK, QueueFits, [Next]_vars
  PROVE  QueueFits'
<1>0. updateQueue \in Seq(Updates) /\ QueueCapacity \in Nat
  BY ProtocolAssumption DEF TypeOK
<1>1. \/ UNCHANGED updateQueue
      \/ \E u : Len(updateQueue) < QueueCapacity /\ updateQueue' = Append(updateQueue, u)
      \/ updateQueue # <<>> /\ updateQueue' = Tail(updateQueue)
  <2>1. CASE UNCHANGED vars
    BY <2>1 DEF vars, queueVars
  <2>2. ASSUME NEW t \in Updaters, TryRegister(t) PROVE UNCHANGED updateQueue
    BY <2>2 DEF TryRegister, Call
  <2>3. ASSUME NEW t \in Updaters, Write(t)
        PROVE  \E u : Len(updateQueue) < QueueCapacity /\ updateQueue' = Append(updateQueue, u)
    BY <2>3 DEF Write, Enqueue
  <2>4. ASSUME NEW t \in Updaters, Read(t)
        PROVE  updateQueue # <<>> /\ updateQueue' = Tail(updateQueue)
    BY <2>4 DEF Read
  <2>5. ASSUME NEW t \in Updaters,
               \/ Enter(t) \/ Reload(t) \/ HaveCopy(t) \/ CallbackReturns(t)
               \/ Publish(t) \/ CheckStep(t)
        PROVE  UNCHANGED updateQueue
    BY <2>5
    DEF Enter, ExpectAndDrain, Reload, HaveCopy, CallbackReturns, Publish, CheckStep,
        Resign, Leave, NextBatch, Again, queueVars
  <2> QED
    BY <2>1, <2>2, <2>3, <2>4, <2>5 DEF Next, UpdaterStep, LocalStep
<1>2. ASSUME NEW u, Len(updateQueue) < QueueCapacity,
             updateQueue' = Append(updateQueue, u)
      PROVE  Len(updateQueue') = Len(updateQueue) + 1
  BY <1>0, <1>2
<1>3. ASSUME updateQueue # <<>>, updateQueue' = Tail(updateQueue)
      PROVE  Len(updateQueue') = Len(updateQueue) - 1
  BY <1>0, <1>3
<1>4. Len(updateQueue) \in Nat
  BY <1>0
<1> QED
  BY <1>0, <1>1, <1>2, <1>3, <1>4 DEF QueueFits

\* If anybody is inside update, somebody there can take a step, unless a callback
\* waits for room in a queue that only its own thread empties.
SomebodyCanGo ==
  (\E t \in Updaters : pc[t] # "idle") =>
    (\E t \in Updaters : CanGo(t)) \/ StuckInNestedCall

LEMMA WaitersHaveSomebody ==
  ASSUME ProtocolInv, QueueFits
  PROVE  SomebodyCanGo
<1> SUFFICES ASSUME NEW t \in Updaters, pc[t] # "idle",
                    \A u \in Updaters : ~CanGo(u)
             PROVE  StuckInNestedCall
  BY DEF SomebodyCanGo
<1>0. /\ pc \in [Updaters -> Inside \cup {"idle", "write"}]
      /\ updateQueue \in Seq(Updates) /\ Len(updateQueue) \in Nat
      /\ QueueCapacity \in Nat \ {0}
      /\ done \in [Updaters -> Nat] /\ expected \in [Updaters -> Nat] /\ updateCnt \in Nat
  BY ProtocolAssumption DEF ProtocolInv, TypeOK
<1>1. \A u \in Updaters : pc[u] \in {"idle", "write", "nested_write", "drain"}
  BY <1>0 DEF CanGo, Inside
\* Whoever drains and waits, waits for one that writes and has room.
<1>2. ASSUME NEW u \in Updaters, pc[u] = "drain" PROVE FALSE
  <2>1. done[u] < expected[u] /\ updateQueue = <<>>
    BY <1>0, <1>2 DEF CanGo
  <2>2. /\ expected[u] <= updateCnt
        /\ updateCnt = done[u] + 0 + Len(updateQueue) + Cardinality(Writing)
    BY <1>2 DEF ProtocolInv, LoopIsBounded, LocalsFollowPc, CountIsExact, Registered,
                Inside
  <2>3. Writing # {}
    <3> SUFFICES ASSUME Writing = {} PROVE FALSE
      OBVIOUS
    <3>1. Cardinality(Writing) = 0 /\ Len(updateQueue) = 0
      BY <2>1, FS_EmptySet
    <3> HIDE DEF Writing
    <3> QED BY <1>0, <2>1, <2>2, <3>1
  <2> QED BY <1>0, <2>1, <2>3 DEF Writing, CanGo
\* So the queue is full, and then there is an updater, which can only be in a
\* callback.
<1>3. Len(updateQueue) = QueueCapacity
  BY <1>0, <1>1, <1>2 DEF CanGo, QueueFits
<1>4. PICK r \in Registered : TRUE
  <2>1. updateQueue # <<>>
    BY <1>0, <1>3
  <2> QED BY <2>1 DEF ProtocolInv, CountIsExact
<1>5. r \in Updaters /\ pc[r] = "nested_write"
  BY <1>1, <1>2, <1>4 DEF Registered, Inside
<1> QED BY <1>3, <1>5 DEF StuckInNestedCall

\* Nobody is left waiting by the others: what StuckOnlyInNestedCall says, with the
\* guards in the place of ENABLED.
THEOREM NobodyWaitsForNobody == Spec => []SomebodyCanGo
<1>1. Init => QueueFits
  BY ProtocolAssumption DEF Init, QueueFits
<1>2. ProtocolInv /\ QueueFits /\ [Next]_vars => QueueFits'
  BY QueueStep DEF ProtocolInv
<1>3. ProtocolInv /\ QueueFits => SomebodyCanGo
  BY WaitersHaveSomebody
<1> QED BY <1>1, <1>2, <1>3, ProtocolInvariant, PTL DEF Spec

=============================================================================
