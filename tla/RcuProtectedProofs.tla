------------------------- MODULE RcuProtectedProofs -------------------------
(***************************************************************************)
(* Proofs about RcuProtected, for any readers, updaters, thresholds, queue *)
(* capacity and number of calls. First, the class takes only steps of      *)
(* EpochReclamation, whose single updater the counter provides, so its     *)
(* readers are protected. Then, it implements its contract: no update is   *)
(* lost, doubled or overtaken by a later one of the same thread, no batch  *)
(* is empty, and a reader sees one published version.                      *)
(***************************************************************************)
EXTENDS RcuInvariant, FiniteSetTheorems, TLAPS

\* The theorems about the two halves, with the contents of this module.
Core == INSTANCE EpochReclamationProofs WITH Values <- SUBSET Updates
Proto == INSTANCE UpdateProtocolProofs

LEMMA CoreAssumption == Core!ReclamationAssumption
BY RcuAssumption DEF Garbage, Core!ReclamationAssumption

LEMMA ProtoAssumption == Proto!ProtocolAssumption
BY RcuAssumption
DEF Proto!ProtocolAssumption, Proto!Updates, Updates, Protocol!Updates,
    IsFiniteSet, Proto!IsFiniteSet

LEMMA NextCases ==
  ASSUME Next, NEW P,
    ASSUME NEW r \in Readers, ReaderStep(r) PROVE P,
    ASSUME NEW t \in Updaters, TryRegister(t) PROVE P,
    ASSUME NEW t \in Updaters, LocalStep(t) PROVE P,
    ASSUME NEW t \in Updaters, GetCopy(t) PROVE P,
    ASSUME NEW t \in Updaters, RunCallback(t) PROVE P,
    ASSUME NEW t \in Updaters, Publish(t) PROVE P,
    ASSUME NEW t \in Updaters, RetireStep(t) PROVE P,
    ASSUME NEW t \in Updaters, CheckStep(t) PROVE P
  PROVE P
BY DEF Next, UpdaterStep

-----------------------------------------------------------------------------
(* The definitions of the two instances of UpdateProtocol are the same.    *)

LEMMA SameInv == Protocol!ProtocolInv <=> Proto!ProtocolInv
<1>1. \A S : Protocol!Cardinality(S) = Proto!Cardinality(S)
  BY DEF Protocol!Cardinality, Proto!Cardinality
<1>2. Protocol!TypeOK <=> Proto!TypeOK
  BY DEF Protocol!TypeOK, Protocol!Updates, Protocol!Inside,
         Proto!TypeOK, Proto!Updates, Proto!Inside
<1>3. Protocol!CountMeansOneUpdater <=> Proto!CountMeansOneUpdater
  BY DEF Protocol!CountMeansOneUpdater, Protocol!Registered, Protocol!Inside,
         Proto!CountMeansOneUpdater, Proto!Registered, Proto!Inside
<1>4. Protocol!CountIsExact <=> Proto!CountIsExact
  BY <1>1
  DEF Protocol!CountIsExact, Protocol!Registered, Protocol!Inside, Protocol!Writing,
      Proto!CountIsExact, Proto!Registered, Proto!Inside, Proto!Writing
<1>5. Protocol!LocalsFollowPc <=> Proto!LocalsFollowPc
  BY DEF Protocol!LocalsFollowPc, Proto!LocalsFollowPc
<1>6. Protocol!LoopIsBounded <=> Proto!LoopIsBounded
  BY DEF Protocol!LoopIsBounded, Proto!LoopIsBounded
<1>7. Protocol!UnflushedIsBounded <=> Proto!UnflushedIsBounded
  BY DEF Protocol!UnflushedIsBounded, Proto!UnflushedIsBounded
<1> QED
  BY <1>2, <1>3, <1>4, <1>5, <1>6, <1>7 DEF Protocol!ProtocolInv, Proto!ProtocolInv

LEMMA SameInvPrime == Protocol!ProtocolInv' <=> Proto!ProtocolInv'
BY SameInv, PTL

LEMMA SameProtocolStep ==
  ASSUME NEW t \in Updaters
  PROVE  /\ Protocol!TryRegister(t) <=> Proto!TryRegister(t)
         /\ Protocol!LocalStep(t) <=> Proto!LocalStep(t)
         /\ Protocol!HaveCopy(t) <=> Proto!HaveCopy(t)
         /\ Protocol!CallbackReturns(t) <=> Proto!CallbackReturns(t)
         /\ Protocol!Publish(t) <=> Proto!Publish(t)
         /\ Protocol!CheckStep(t) <=> Proto!CheckStep(t)
<1> USE DEF Protocol!queueVars, Protocol!loopVars, Protocol!Goto, Protocol!LatestCall,
            Proto!queueVars, Proto!loopVars, Proto!Goto, Proto!LatestCall
<1>1. Protocol!TryRegister(t) <=> Proto!TryRegister(t)
  BY DEF Protocol!TryRegister, Protocol!Call, Proto!TryRegister, Proto!Call
<1>2. Protocol!Write(t) <=> Proto!Write(t)
  BY DEF Protocol!Write, Protocol!Enqueue, Proto!Write, Proto!Enqueue
<1>3. Protocol!Enter(t) <=> Proto!Enter(t)
  BY DEF Protocol!Enter, Protocol!ExpectAndDrain, Proto!Enter, Proto!ExpectAndDrain
<1>4. Protocol!Read(t) <=> Proto!Read(t)
  BY DEF Protocol!Read, Proto!Read
<1>5. Protocol!Reload(t) <=> Proto!Reload(t)
  BY DEF Protocol!Reload, Proto!Reload
<1>6. Protocol!HaveCopy(t) <=> Proto!HaveCopy(t)
  BY DEF Protocol!HaveCopy, Proto!HaveCopy
<1>7. Protocol!CallbackReturns(t) <=> Proto!CallbackReturns(t)
  BY DEF Protocol!CallbackReturns, Proto!CallbackReturns
<1>8. Protocol!Publish(t) <=> Proto!Publish(t)
  BY DEF Protocol!Publish, Proto!Publish
<1>9. Protocol!Resign(t) <=> Proto!Resign(t)
  BY DEF Protocol!Resign, Protocol!Leave, Proto!Resign, Proto!Leave
<1>10. Protocol!NextBatch(t) <=> Proto!NextBatch(t)
  BY DEF Protocol!NextBatch, Protocol!Again, Proto!NextBatch, Proto!Again
<1> QED
  BY <1>1, <1>2, <1>3, <1>4, <1>5, <1>6, <1>7, <1>8, <1>9, <1>10
  DEF Protocol!LocalStep, Protocol!CheckStep, Proto!LocalStep, Proto!CheckStep

\* A step of the class is a step of the update protocol or leaves its
\* variables alone.
LEMMA ProtocolStep ==
  ASSUME Next
  PROVE  Proto!Next \/ UNCHANGED Proto!vars
<1> USE SameProtocolStep
    DEF protocolVars, Proto!Next, Proto!UpdaterStep, Proto!vars, Proto!queueVars,
        Proto!loopVars
<1>1. ASSUME NEW r \in Readers, ReaderStep(r) PROVE UNCHANGED Proto!vars
  BY <1>1 DEF ReaderStep, LoadEpoch, StoreMark, LoadPtr, Unlock
<1>2. ASSUME NEW t \in Updaters, TryRegister(t) PROVE Proto!Next
  BY <1>2 DEF TryRegister
<1>3. ASSUME NEW t \in Updaters, LocalStep(t) PROVE Proto!Next
  BY <1>3 DEF LocalStep
<1>4. ASSUME NEW t \in Updaters, GetCopy(t) PROVE Proto!Next
  BY <1>4 DEF GetCopy
<1>5. ASSUME NEW t \in Updaters, RunCallback(t) PROVE Proto!Next
  BY <1>5 DEF RunCallback
<1>6. ASSUME NEW t \in Updaters, Publish(t) PROVE Proto!Next
  BY <1>6 DEF Publish
<1>7. ASSUME NEW t \in Updaters, RetireStep(t) PROVE UNCHANGED Proto!vars
  BY <1>7 DEF RetireStep
<1>8. ASSUME NEW t \in Updaters, CheckStep(t) PROVE Proto!Next
  BY <1>8 DEF CheckStep
<1> QED
  BY <1>1, <1>2, <1>3, <1>4, <1>5, <1>6, <1>7, <1>8, NextCases

LEMMA PhaseStep ==
  ASSUME RcuInv, Reclamation!TypeOK, Next
  PROVE  ProgressMatchesPhase'
<1> USE DEF RcuInv, Protocol!ProtocolInv, Protocol!TypeOK, ProgressMatchesPhase,
        Protocol!LocalsFollowPc, Protocol!Inside, Protocol!Goto,
        Reclamation!TypeOK, Reclamation!At, reclamationVars, protocolVars,
        Reclamation!updaterVars
<1>1. ASSUME NEW r \in Readers, ReaderStep(r) PROVE ProgressMatchesPhase'
  BY <1>1
  DEF ReaderStep, LoadEpoch, StoreMark, LoadPtr, Unlock, Reclamation!LoadEpoch,
      Reclamation!StoreMark, Reclamation!LoadPtr, Reclamation!Unlock
<1>2. ASSUME NEW t \in Updaters, TryRegister(t) PROVE ProgressMatchesPhase'
  <2>1. updateCnt = 0 => pc[t] # "callback"
    BY DEF Protocol!CountMeansOneUpdater, Protocol!Registered
  <2>2. \/ pc[t] = "idle" /\ pc' = [pc EXCEPT ![t] = "get_copy"]
        \/ pc[t] = "idle" /\ pc' = [pc EXCEPT ![t] = "write"]
        \/ pc[t] = "callback" /\ pc' = [pc EXCEPT ![t] = "nested_write"]
    BY <1>2, <2>1 DEF TryRegister, Protocol!TryRegister, Protocol!Call
  <2>3. UNCHANGED phase
    BY <1>2 DEF TryRegister
  <2> QED BY <2>2, <2>3
<1>3. ASSUME NEW t \in Updaters, LocalStep(t) PROVE ProgressMatchesPhase'
  <2>1. UNCHANGED phase
    BY <1>3 DEF LocalStep
  <2>2. CASE Protocol!Write(t)
    BY <2>1, <2>2 DEF Protocol!Write, Protocol!Enqueue
  <2>3. CASE Protocol!Enter(t)
    BY <2>1, <2>3 DEF Protocol!Enter, Protocol!ExpectAndDrain
  <2>4. CASE Protocol!Read(t)
    BY <2>1, <2>4 DEF Protocol!Read
  <2>5. CASE Protocol!Reload(t)
    BY <2>1, <2>5 DEF Protocol!Reload
  <2> QED
    BY <1>3, <2>2, <2>3, <2>4, <2>5 DEF LocalStep, Protocol!LocalStep
<1>4. ASSUME NEW t \in Updaters, GetCopy(t) PROVE ProgressMatchesPhase'
  BY <1>4 DEF GetCopy, Protocol!HaveCopy, Reclamation!GetCopy
<1>5. ASSUME NEW t \in Updaters, RunCallback(t) PROVE ProgressMatchesPhase'
  <2>1. /\ pc' = [pc EXCEPT ![t] = pc'[t]] /\ pc'[t] \in {"enter", "drain", "publish"}
        /\ UNCHANGED phase /\ phase[t] = "private"
    BY <1>5 DEF RunCallback, Protocol!CallbackReturns, Reclamation!Apply
  <2> QED BY <2>1
<1>6. ASSUME NEW t \in Updaters, Publish(t) PROVE ProgressMatchesPhase'
  BY <1>6 DEF Publish, Protocol!Publish, Reclamation!Publish
<1>7. ASSUME NEW t \in Updaters, RetireStep(t) PROVE ProgressMatchesPhase'
  BY <1>7
  DEF RetireStep, Reclamation!RetireStep, Reclamation!Retire,
      Reclamation!SkipReader, Reclamation!FindReader, Reclamation!Reclaim,
      Reclamation!AdvanceEpoch
<1>8. ASSUME NEW t \in Updaters, CheckStep(t) PROVE ProgressMatchesPhase'
  BY <1>8
  DEF CheckStep, Protocol!CheckStep, Protocol!Resign, Protocol!Leave,
      Protocol!NextBatch, Protocol!Again
<1> QED
  BY <1>1, <1>2, <1>3, <1>4, <1>5, <1>6, <1>7, <1>8, NextCases

-----------------------------------------------------------------------------
(* The actions of the two instances of EpochReclamation are the same.      *)

LEMMA SameReaderStep ==
  ASSUME NEW r \in Readers
  PROVE  /\ Reclamation!LoadEpoch(r) <=> Core!LoadEpoch(r)
         /\ Reclamation!StoreMark(r) <=> Core!StoreMark(r)
         /\ Reclamation!LoadPtr(r) <=> Core!LoadPtr(r)
         /\ Reclamation!Unlock(r) <=> Core!Unlock(r)
<1> USE DEF Reclamation!objectVars, Reclamation!counterVars, Reclamation!readerVars,
            Reclamation!updaterVars, Reclamation!InUserCode,
            Core!objectVars, Core!counterVars, Core!readerVars, Core!updaterVars,
            Core!InUserCode
<1>1. Reclamation!LoadEpoch(r) <=> Core!LoadEpoch(r)
  BY DEF Reclamation!LoadEpoch, Core!LoadEpoch
<1>2. Reclamation!StoreMark(r) <=> Core!StoreMark(r)
  BY DEF Reclamation!StoreMark, Reclamation!Counters!Increment,
         Reclamation!Counters!EpochReading,
         Core!StoreMark, Core!Counters!Increment, Core!Counters!EpochReading
<1>3. Reclamation!LoadPtr(r) <=> Core!LoadPtr(r)
  BY DEF Reclamation!LoadPtr, Core!LoadPtr
<1>4. Reclamation!Unlock(r) <=> Core!Unlock(r)
  BY DEF Reclamation!Unlock, Reclamation!Counters!Decrement, Core!Unlock,
         Core!Counters!Decrement
<1> QED BY <1>1, <1>2, <1>3, <1>4

LEMMA SameCopyStep ==
  ASSUME NEW t \in Updaters
  PROVE  /\ \A o \in Objects : Reclamation!GetCopy(t, o) <=> Core!GetCopy(t, o)
         /\ \A v \in SUBSET Updates : Reclamation!Apply(t, v) <=> Core!Apply(t, v)
         /\ Reclamation!Publish(t) <=> Core!Publish(t)
<1> USE DEF Reclamation!objectVars, Reclamation!counterVars, Reclamation!readerVars,
            Reclamation!updaterVars, Reclamation!At,
            Core!objectVars, Core!counterVars, Core!readerVars, Core!updaterVars, Core!At
<1>1. \A o \in Objects : Reclamation!GetCopy(t, o) <=> Core!GetCopy(t, o)
  BY DEF Reclamation!GetCopy, Core!GetCopy
<1>2. \A v \in SUBSET Updates : Reclamation!Apply(t, v) <=> Core!Apply(t, v)
  BY DEF Reclamation!Apply, Core!Apply
<1>3. Reclamation!Publish(t) <=> Core!Publish(t)
  BY DEF Reclamation!Publish, Core!Publish
<1> QED BY <1>1, <1>2, <1>3

LEMMA SameRetireStep ==
  ASSUME NEW t \in Updaters
  PROVE  Reclamation!RetireStep(t) <=> Core!RetireStep(t)
<1> USE DEF Reclamation!objectVars, Reclamation!counterVars, Reclamation!readerVars,
            Reclamation!updaterVars, Reclamation!At, Reclamation!prev,
            Reclamation!Counters!NoCall, Reclamation!Counters!EpochReading,
            Core!objectVars, Core!counterVars, Core!readerVars, Core!updaterVars, Core!At,
            Core!prev, Core!Counters!NoCall, Core!Counters!EpochReading
<1>0. \A S : Reclamation!Cardinality(S) = Core!Cardinality(S)
  BY DEF Reclamation!Cardinality, Core!Cardinality
<1>1. Reclamation!Retire(t) <=> Core!Retire(t)
  BY <1>0 DEF Reclamation!Retire, Reclamation!Counters!ScanBegin, Core!Retire,
              Core!Counters!ScanBegin
<1>2. \A r \in Readers : Reclamation!SkipReader(t, r) <=> Core!SkipReader(t, r)
  BY DEF Reclamation!SkipReader, Reclamation!Counters!ScanMiss, Core!SkipReader,
         Core!Counters!ScanMiss
<1>3. \A r \in Readers : Reclamation!FindReader(t, r) <=> Core!FindReader(t, r)
  BY DEF Reclamation!FindReader, Reclamation!Counters!ScanHit, Core!FindReader,
         Core!Counters!ScanHit
<1>4. Reclamation!Reclaim(t) <=> Core!Reclaim(t)
  BY DEF Reclamation!Reclaim, Reclamation!Counters!ScanClear, Core!Reclaim,
         Core!Counters!ScanClear
<1>5. Reclamation!AdvanceEpoch(t) <=> Core!AdvanceEpoch(t)
  BY DEF Reclamation!AdvanceEpoch, Core!AdvanceEpoch
<1> QED
  BY <1>1, <1>2, <1>3, <1>4, <1>5 DEF Reclamation!RetireStep, Core!RetireStep

-----------------------------------------------------------------------------
(* A step of the class is a step of EpochReclamation or leaves its         *)
(* variables alone.                                                        *)

\* A thread about to call get_copy is the updater, and there is no other.
LEMMA NoUpdaterBeforeCopy ==
  ASSUME RcuInv, NEW t \in Updaters, pc[t] = "get_copy"
  PROVE  Core!NoUpdater
BY DEF RcuInv, Protocol!ProtocolInv, Protocol!TypeOK, Protocol!CountMeansOneUpdater,
       Protocol!Registered, Protocol!Inside, ProgressMatchesPhase, Core!NoUpdater

\* A callback turns a set of updates into a set of updates.
LEMMA CallbackContent ==
  ASSUME RcuInv, Core!IInv, NEW t \in Updaters, RunCallback(t)
  PROVE  value[copied[t]] \cup {running[t]} \in SUBSET Updates
<1>1. running[t] \in Updates
  BY DEF RunCallback, RcuInv, Protocol!ProtocolInv, Protocol!TypeOK,
         Protocol!LocalsFollowPc, Protocol!CallbackReturns, Updates
<1>2. copied[t] # Null
  BY DEF RunCallback, Reclamation!Apply, Reclamation!At, Core!IInv, Core!PhasesAreTrue
<1> QED
  BY <1>1, <1>2 DEF RcuInv, ContentIsReal

LEMMA CoreStep ==
  ASSUME RcuInv, Core!IInv, Next
  PROVE  Core!Next \/ UNCHANGED Core!vars
<1> USE DEF reclamationVars, Core!vars, Core!objectVars, Core!counterVars,
            Core!readerVars, Core!updaterVars
<1>1. ASSUME NEW r \in Readers, ReaderStep(r) PROVE Core!Next
  BY <1>1, SameReaderStep
  DEF ReaderStep, LoadEpoch, StoreMark, LoadPtr, Unlock, Core!Next,
      Core!ReaderStep
<1>2. ASSUME NEW t \in Updaters, TryRegister(t) PROVE UNCHANGED Core!vars
  BY <1>2 DEF TryRegister
<1>3. ASSUME NEW t \in Updaters, LocalStep(t) PROVE UNCHANGED Core!vars
  BY <1>3 DEF LocalStep
<1>4. ASSUME NEW t \in Updaters, GetCopy(t) PROVE Core!Next
  BY <1>4, SameCopyStep, NoUpdaterBeforeCopy
  DEF GetCopy, Protocol!HaveCopy, Core!Next, Core!UpdaterStep
<1>5. ASSUME NEW t \in Updaters, RunCallback(t) PROVE Core!Next
  BY <1>5, SameCopyStep, CallbackContent
  DEF RunCallback, Core!Next, Core!UpdaterStep
<1>6. ASSUME NEW t \in Updaters, Publish(t) PROVE Core!Next
  BY <1>6, SameCopyStep DEF Publish, Core!Next, Core!UpdaterStep
<1>7. ASSUME NEW t \in Updaters, RetireStep(t) PROVE Core!Next
  BY <1>7, SameRetireStep DEF RetireStep, Core!Next, Core!UpdaterStep
<1>8. ASSUME NEW t \in Updaters, CheckStep(t) PROVE UNCHANGED Core!vars
  BY <1>8 DEF CheckStep
<1> QED
  BY <1>1, <1>2, <1>3, <1>4, <1>5, <1>6, <1>7, <1>8, NextCases

\* Only get_copy writes to an object that had none of the updates, and only
\* objects out of the pool become garbage.
LEMMA ContentStep ==
  ASSUME RcuInv, Core!IInv, Next
  PROVE  ContentIsReal'
<1> USE CoreAssumption
    DEF RcuInv, ContentIsReal, Reclamation!At, Reclamation!prev, reclamationVars,
        Reclamation!objectVars, Reclamation!counterVars, Reclamation!readerVars,
        Reclamation!updaterVars, Core!IInv, Core!TypeOK, Core!PhasesAreTrue,
        Core!EveryObjectHasOneOwner, Core!Copies, Core!Outgoing, Core!Epochs,
        Core!ReclamationAssumption
<1>1. ASSUME NEW r \in Readers, ReaderStep(r) PROVE ContentIsReal'
  BY <1>1
  DEF ReaderStep, LoadEpoch, StoreMark, LoadPtr, Unlock, Reclamation!LoadEpoch,
      Reclamation!StoreMark, Reclamation!LoadPtr, Reclamation!Unlock
<1>2. ASSUME NEW t \in Updaters, TryRegister(t) PROVE ContentIsReal'
  BY <1>2 DEF TryRegister
<1>3. ASSUME NEW t \in Updaters, LocalStep(t) PROVE ContentIsReal'
  BY <1>3 DEF LocalStep
<1>4. ASSUME NEW t \in Updaters, GetCopy(t) PROVE ContentIsReal'
  BY <1>4 DEF GetCopy, Reclamation!GetCopy
<1>5. ASSUME NEW t \in Updaters, RunCallback(t) PROVE ContentIsReal'
  <2> DEFINE content == value[copied[t]] \cup {running[t]}
  <2>1. content \in SUBSET Updates
    BY <1>5, CallbackContent
  <2>2. value' = [value EXCEPT ![copied[t]] = content] /\ UNCHANGED <<ptr, copied>>
    BY <1>5 DEF RunCallback, Reclamation!Apply
  <2>3. \A o \in Objects : value'[o] = value[o] \/ value'[o] = content
    BY <2>2
  <2> QED
    BY <2>1, <2>2, <2>3
<1>6. ASSUME NEW t \in Updaters, Publish(t) PROVE ContentIsReal'
  BY <1>6 DEF Publish, Reclamation!Publish
<1>7. ASSUME NEW t \in Updaters, RetireStep(t) PROVE ContentIsReal'
  BY <1>7
  DEF RetireStep, Reclamation!RetireStep, Reclamation!Retire,
      Reclamation!SkipReader, Reclamation!FindReader, Reclamation!Reclaim,
      Reclamation!AdvanceEpoch
<1>8. ASSUME NEW t \in Updaters, CheckStep(t) PROVE ContentIsReal'
  BY <1>8 DEF CheckStep
<1> QED
  BY <1>1, <1>2, <1>3, <1>4, <1>5, <1>6, <1>7, <1>8, NextCases

-----------------------------------------------------------------------------
(* The theorems *)

FullInv == RcuInv /\ Core!IInv

LEMMA SameInit ==
  /\ Reclamation!Init <=> Core!Init
  /\ Protocol!Init <=> Proto!Init
BY DEF Reclamation!Init, Reclamation!Counters!Init, Reclamation!Counters!NoCall,
       Reclamation!Epochs, Core!Init, Core!Counters!Init, Core!Counters!NoCall,
       Core!Epochs, Protocol!Init, Proto!Init

LEMMA SameNext ==
  /\ Reclamation!Next <=> Core!Next
  /\ Protocol!Next <=> Proto!Next
BY SameReaderStep, SameCopyStep, SameRetireStep, SameProtocolStep
DEF Reclamation!Next, Reclamation!ReaderStep, Reclamation!UpdaterStep,
    Reclamation!NoUpdater, Core!Next, Core!ReaderStep, Core!UpdaterStep, Core!NoUpdater,
    Protocol!Next, Protocol!UpdaterStep, Proto!Next, Proto!UpdaterStep

LEMMA FullInit == Init => FullInv
<1> SUFFICES ASSUME Init PROVE FullInv
  OBVIOUS
<1>1. Core!IInv
  BY CoreAssumption, SameInit, Core!InvariantInit DEF Init
<1>2. Protocol!ProtocolInv
  BY ProtoAssumption, SameInit, SameInv, Proto!ProtocolInit DEF Init
<1>3. ProgressMatchesPhase /\ ContentIsReal
  BY DEF Init, Reclamation!Init, Protocol!Init, ProgressMatchesPhase, ContentIsReal
<1> QED BY <1>1, <1>2, <1>3 DEF FullInv, RcuInv

LEMMA FullStep ==
  ASSUME FullInv, [Next]_vars
  PROVE  FullInv'
<1>0. Proto!ProtocolInv /\ (Proto!ProtocolInv' => Protocol!ProtocolInv')
  BY SameInv, SameInvPrime DEF FullInv, RcuInv
<1>1. CASE Next
  <2> USE DEF FullInv, RcuInv
  <2>1. Core!IInv'
    BY <1>1, CoreStep, CoreAssumption, Core!InvariantStep
  <2>2. Core!IInv => Reclamation!TypeOK
    BY DEF Core!IInv, Core!TypeOK, Core!Counters!TypeOK, Core!Counters!Bytes,
           Core!Counters!Epochs, Core!Counters!NoCall, Core!Counters!EpochReading,
           Core!Epochs, Core!Phases, Reclamation!TypeOK, Reclamation!Counters!TypeOK,
           Reclamation!Counters!Bytes, Reclamation!Counters!Epochs,
           Reclamation!Counters!NoCall, Reclamation!Counters!EpochReading,
           Reclamation!Epochs, Reclamation!Phases
  <2>3. Proto!ProtocolInv'
    BY <1>0, <1>1, ProtocolStep, ProtoAssumption, Proto!InvStep
  <2>4. ProgressMatchesPhase' BY <1>1, <2>2, PhaseStep
  <2>5. ContentIsReal' BY <1>1, ContentStep
  <2> QED BY <1>0, <2>1, <2>3, <2>4, <2>5
<1>2. CASE UNCHANGED vars
  <2>1. UNCHANGED Core!vars /\ UNCHANGED Proto!vars
    BY <1>2 DEF vars, reclamationVars, protocolVars, Core!vars, Core!objectVars,
                Core!counterVars, Core!readerVars, Core!updaterVars, Proto!vars,
                Proto!queueVars, Proto!loopVars
  <2>2. Core!IInv'
    BY <2>1, CoreAssumption, Core!InvariantStep DEF FullInv
  <2>3. Proto!ProtocolInv'
    BY <1>0, <2>1, ProtoAssumption, Proto!InvStep
  <2>4. ProgressMatchesPhase' /\ ContentIsReal'
    BY <1>2 DEF FullInv, RcuInv, ProgressMatchesPhase, ContentIsReal, vars,
                reclamationVars, protocolVars
  <2> QED BY <1>0, <2>2, <2>3, <2>4 DEF FullInv, RcuInv
<1> QED BY <1>1, <1>2

LEMMA ReadersAreProtected ==
  ASSUME FullInv
  PROVE  ReaderProtection
BY CoreAssumption, Core!HeldIsProtected
DEF FullInv, ReaderProtection, Reclamation!ReaderProtection, Reclamation!Copies,
    Core!ReaderProtection, Core!Copies

LEMMA FullInvariant == Spec => []FullInv
<1>1. FullInv /\ [Next]_vars => FullInv'
  BY FullStep
<1> QED BY <1>1, FullInit, PTL DEF Spec

\* The class takes only steps that EpochReclamation allows. In particular its
\* counter provides the one updater that module assumes.
THEOREM ClassImplementsReclamation == Spec => ImplementsReclamation
<1>1. Init => Reclamation!Init
  BY DEF Init
<1>2. FullInv /\ [Next]_vars => [Reclamation!Next]_(Reclamation!vars)
  <2> SUFFICES ASSUME FullInv, [Next]_vars
               PROVE  [Reclamation!Next]_(Reclamation!vars)
    OBVIOUS
  <2> USE DEF Reclamation!vars, Reclamation!objectVars, Reclamation!counterVars,
              Reclamation!readerVars, Reclamation!updaterVars
  <2>1. CASE Next
    BY <2>1, CoreStep, SameNext
    DEF FullInv, Core!vars, Core!objectVars, Core!counterVars, Core!readerVars,
        Core!updaterVars
  <2>2. CASE UNCHANGED vars
    BY <2>2 DEF vars, reclamationVars
  <2> QED BY <2>1, <2>2
<1> QED
  BY <1>1, <1>2, FullInvariant, PTL DEF Spec, ImplementsReclamation, Reclamation!Spec

\* Whatever callbacks, batches and nested calls do, a reader's object is never
\* deleted, pooled or a private copy.
THEOREM ClassProtectsReaders == Spec => []ReaderProtection
<1>1. FullInv => ReaderProtection
  BY ReadersAreProtected
<1> QED BY <1>1, FullInvariant, PTL

-----------------------------------------------------------------------------
(* The contract *)

\* What is proved of the state before a step.
StateInv == ContractInv /\ Core!IInv

-----------------------------------------------------------------------------
(* Sequences without repetition, written at the end and read at the front. *)

LEMMA AppendIsOneMore ==
  ASSUME NEW S, NEW q \in Seq(S), NEW e \in S, NEW p, p = Append(q, e)
  PROVE  /\ Len(q) \in Nat /\ Len(p) = Len(q) + 1 /\ p[Len(p)] = e
         /\ \A i \in 1..Len(p) : i = Len(p) \/ (i \in 1..Len(q) /\ p[i] = q[i])
         /\ \A i \in 1..Len(q) : i \in 1..Len(p) /\ p[i] = q[i]
<1>1. Len(q) \in Nat /\ Len(p) = Len(q) + 1 /\ p[Len(p)] = e
  OBVIOUS
<1>2. \A i \in 1..Len(q) : p[i] = q[i]
  OBVIOUS
<1>3. /\ \A i \in 1..Len(p) : i = Len(p) \/ i \in 1..Len(q)
      /\ \A i \in 1..Len(q) : i \in 1..Len(p)
  BY <1>1
<1> QED BY <1>1, <1>2, <1>3

LEMMA WriteAtEnd ==
  ASSUME NEW S, NEW q \in Seq(S), NEW e \in S, NEW p, p = Append(q, e)
  PROVE  /\ \A u : In(p, u) <=> In(q, u) \/ u = e
         /\ NoRepeat(q) /\ ~In(q, e) => NoRepeat(p)
         /\ \A u, v : Ahead(q, v, u) /\ (u = e => In(q, v)) => Ahead(p, v, u)
<1>1. /\ Len(q) \in Nat /\ Len(p) = Len(q) + 1 /\ p[Len(p)] = e
      /\ \A i \in 1..Len(p) : i = Len(p) \/ (i \in 1..Len(q) /\ p[i] = q[i])
      /\ \A i \in 1..Len(q) : i \in 1..Len(p) /\ p[i] = q[i]
  BY AppendIsOneMore
<1>2. \A u : In(p, u) <=> In(q, u) \/ u = e
  <2>1. Len(p) \in 1..Len(p)
    BY <1>1
  <2> QED BY <1>1, <2>1, Zenon DEF In
<1>3. NoRepeat(q) /\ ~In(q, e) => NoRepeat(p)
  BY <1>1 DEF In, NoRepeat
<1>4. ASSUME NEW u, NEW v, Ahead(q, v, u), u = e => In(q, v)
      PROVE  Ahead(p, v, u)
  <2> SUFFICES ASSUME NEW i \in 1..Len(p), p[i] = u
               PROVE  \E h \in 1..(i - 1) : p[h] = v
    BY DEF Ahead
  <2>1. CASE i = Len(p)
    <3>1. PICK h \in 1..Len(q) : q[h] = v
      BY <1>1, <1>4, <2>1 DEF In
    <3>2. h \in 1..(i - 1) /\ p[h] = v
      BY <1>1, <2>1, <3>1
    <3> QED BY <3>2
  <2>2. CASE i \in 1..Len(q) /\ p[i] = q[i]
    <3>1. PICK h \in 1..(i - 1) : q[h] = v
      BY <1>4, <2>2 DEF Ahead
    <3>2. h \in 1..Len(q)
      BY <1>1, <2>2, <3>1
    <3> QED BY <1>1, <3>1, <3>2
  <2> QED BY <1>1, <2>1, <2>2
<1> QED BY <1>2, <1>3, <1>4

LEMMA TailIsOneLess ==
  ASSUME NEW S, NEW q \in Seq(S), q # <<>>, NEW p, p = Tail(q)
  PROVE  /\ Len(q) \in Nat \ {0} /\ Len(p) = Len(q) - 1
         /\ q[1] = Head(q) /\ Head(q) \in S
         /\ \A i \in 1..Len(p) : i + 1 \in 1..Len(q) /\ p[i] = q[i + 1]
         /\ \A i \in 1..Len(q) : i = 1 \/ (i - 1 \in 1..Len(p) /\ q[i] = p[i - 1])
<1>1. Len(q) \in Nat \ {0} /\ Len(p) = Len(q) - 1 /\ q[1] = Head(q) /\ Head(q) \in S
  OBVIOUS
<1>2. \A i \in 1..Len(p) : p[i] = q[i + 1]
  BY <1>1
<1>3. /\ \A i \in 1..Len(p) : i + 1 \in 1..Len(q)
      /\ \A i \in 1..Len(q) : i = 1 \/ i - 1 \in 1..Len(p)
      /\ \A i \in 1..Len(q) : (i - 1) + 1 = i
  BY <1>1
<1> QED BY <1>1, <1>2, <1>3

LEMMA ReadAtFront ==
  ASSUME NEW S, NEW q \in Seq(S), q # <<>>, NEW p, p = Tail(q)
  PROVE  /\ Head(q) \in S
         /\ \A u : In(q, u) <=> In(p, u) \/ u = Head(q)
         /\ NoRepeat(q) => NoRepeat(p) /\ ~In(p, Head(q))
         /\ \A u, v : Ahead(q, v, u) => v = Head(q) \/ Ahead(p, v, u)
         /\ \A v : ~Ahead(q, v, Head(q))
<1>1. /\ Len(q) \in Nat \ {0} /\ Len(p) = Len(q) - 1
      /\ q[1] = Head(q) /\ Head(q) \in S
      /\ \A i \in 1..Len(p) : i + 1 \in 1..Len(q) /\ p[i] = q[i + 1]
      /\ \A i \in 1..Len(q) : i = 1 \/ (i - 1 \in 1..Len(p) /\ q[i] = p[i - 1])
  BY TailIsOneLess
<1>2. \A u : In(q, u) <=> In(p, u) \/ u = Head(q)
  <2>1. 1 \in 1..Len(q)
    BY <1>1
  <2> QED BY <1>1, <2>1, Zenon DEF In
<1>3. NoRepeat(q) => NoRepeat(p) /\ ~In(p, Head(q))
  BY <1>1 DEF In, NoRepeat
<1>4. ASSUME NEW u, NEW v, Ahead(q, v, u), v # Head(q)
      PROVE  Ahead(p, v, u)
  <2> SUFFICES ASSUME NEW i \in 1..Len(p), p[i] = u
               PROVE  \E h \in 1..(i - 1) : p[h] = v
    BY DEF Ahead
  <2>1. PICK h \in 1..i : q[h] = v
    BY <1>1, <1>4 DEF Ahead
  <2>2. h - 1 \in 1..(i - 1) /\ p[h - 1] = v
    BY <1>1, <1>4, <2>1
  <2> QED BY <2>2
<1>5. \A v : ~Ahead(q, v, Head(q))
  BY <1>1 DEF Ahead
<1> QED BY <1>1, <1>2, <1>3, <1>4, <1>5

-----------------------------------------------------------------------------
(* One updater has one private copy and one callback at hand.              *)

LEMMA OneRegistered ==
  ASSUME StateInv, NEW t \in Updaters, pc[t] \in Protocol!Inside,
         NEW w \in Updaters, w # t
  PROVE  /\ pc[w] \in {"idle", "write"} /\ running[w] = NoUpdate
         /\ copied[w] = Null
<1>1. pc[w] \in {"idle", "write"}
  BY DEF StateInv, ContractInv, RcuInv, Protocol!ProtocolInv, Protocol!TypeOK,
         Protocol!CountMeansOneUpdater, Protocol!Registered
<1>2. phase[w] = "idle"
  BY <1>1 DEF StateInv, ContractInv, RcuInv, ProgressMatchesPhase
<1> QED
  BY <1>1, <1>2
  DEF StateInv, ContractInv, RcuInv, Protocol!ProtocolInv, Protocol!LocalsFollowPc,
      Core!IInv, Core!PhasesAreTrue

\* Where a private copy is.
LEMMA WhoHasACopy ==
  ASSUME StateInv, NEW t \in Updaters
  PROVE  /\ copied[t] # Null <=>
              pc[t] \in {"callback", "nested_write", "enter", "drain", "publish"}
         /\ copied[t] # Null => copied[t] \in Objects /\ copied[t] # ptr
         /\ ptr \in Objects
<1>1. copied[t] # Null <=> phase[t] = "private"
  BY DEF StateInv, Core!IInv, Core!PhasesAreTrue
<1>2. phase[t] = "private" <=>
        pc[t] \in {"callback", "nested_write", "enter", "drain", "publish"}
  BY DEF StateInv, ContractInv, RcuInv, ProgressMatchesPhase, Protocol!ProtocolInv,
         Protocol!TypeOK, Protocol!Inside
<1> QED
  BY <1>1, <1>2
  DEF StateInv, Core!IInv, Core!TypeOK, Core!EveryObjectHasOneOwner, Core!Copies

\* With a copy, what is applied is what it contains; without, what is published.
LEMMA AppliedIsContent ==
  ASSUME StateInv
  PROVE  /\ \A t \in Updaters : copied[t] # Null =>
              \A u : Applied(u) <=> u \in value[copied[t]]
         /\ (\A t \in Updaters : copied[t] = Null) =>
              \A u : Applied(u) <=> u \in value[ptr]
<1>1. ASSUME NEW t \in Updaters, copied[t] # Null, NEW u
      PROVE  Applied(u) <=> u \in value[copied[t]]
  <2>1. \A w \in Updaters : copied[w] # Null => w = t
    BY <1>1, WhoHasACopy, OneRegistered DEF Protocol!Inside
  <2> QED BY <1>1, <2>1 DEF Applied, StateInv, ContractInv, CopyExtendsPublished
<1> QED BY <1>1 DEF Applied

-----------------------------------------------------------------------------
(* What the steps do to the places an update can be in.                    *)

Places == NothingIsLost /\ NothingIsDoubled /\ CallsAreInOrder

LEMMA SamePlaces ==
  ASSUME StateInv, UNCHANGED <<running, updateQueue, calls>>,
         Protocol!Writing' = Protocol!Writing,
         \A u \in Updates : Applied(u)' <=> Applied(u)
  PROVE  Places'
<1>1. \A u : (Running(u)' <=> Running(u)) /\ (Queued(u)' <=> Queued(u))
               /\ (Written(u)' <=> Written(u))
  BY DEF Running, Queued, Written
<1>2. Submitted' = Submitted
  BY DEF Submitted, Protocol!Submitted
<1>3. NothingIsLost'
  BY <1>1, <1>2 DEF StateInv, ContractInv, NothingIsLost
<1>4. NothingIsDoubled'
  BY <1>1 DEF StateInv, ContractInv, NothingIsDoubled
<1>5. CallsAreInOrder'
  BY <1>1 DEF StateInv, ContractInv, CallsAreInOrder, Queued
<1> QED BY <1>3, <1>4, <1>5 DEF Places

\* Steps that write neither to the published object nor to a private copy.
LEMMA SameContent ==
  ASSUME UNCHANGED <<ptr, copied>>, value'[ptr] = value[ptr],
         \A t \in Updaters : copied[t] # Null => value'[copied[t]] = value[copied[t]]
  PROVE  /\ \A u : Applied(u)' <=> Applied(u)
         /\ CopyExtendsPublished => CopyExtendsPublished'
BY DEF Applied, CopyExtendsPublished

LEMMA SameWriting ==
  ASSUME StateInv, NEW t \in Updaters, NEW label,
         pc' = [pc EXCEPT ![t] = label],
         pc[t] \notin {"write", "nested_write"}, label \notin {"write", "nested_write"}
  PROVE  Protocol!Writing' = Protocol!Writing
BY DEF StateInv, ContractInv, RcuInv, Protocol!ProtocolInv, Protocol!TypeOK,
       Protocol!Writing

LEMMA RunningIsOne ==
  ASSUME StateInv, NEW t \in Updaters, pc[t] \in Protocol!Inside
  PROVE  \A u \in Updates : Running(u) <=> running[t] = u
<1>1. \A w \in Updaters : w # t => running[w] = NoUpdate
  BY OneRegistered
<1> QED BY <1>1, RcuAssumption DEF Running

LEMMA CallbackPlaces ==
  ASSUME StateInv, NEW t \in Updaters, RunCallback(t)
  PROVE  Places' /\ CopyExtendsPublished'
<1> DEFINE u0 == running[t]
<1>1. pc[t] = "callback" /\ pc[t] \in Protocol!Inside
  BY DEF RunCallback, Protocol!CallbackReturns, Protocol!Inside
<1>2. u0 \in Updates
  BY <1>1 DEF StateInv, ContractInv, RcuInv, Protocol!ProtocolInv, Protocol!TypeOK,
              Protocol!LocalsFollowPc, Updates
<1>3. /\ copied[t] # Null /\ copied[t] \in Objects /\ copied[t] # ptr
      /\ \A w \in Updaters : w # t => copied[w] = Null
  BY <1>1, WhoHasACopy, OneRegistered
<1>4. /\ UNCHANGED <<ptr, copied, updateQueue, calls>>
      /\ value' = [value EXCEPT ![copied[t]] = value[copied[t]] \cup {u0}]
      /\ running' = [running EXCEPT ![t] = NoUpdate]
  BY DEF RunCallback, Protocol!CallbackReturns, Protocol!queueVars,
         Reclamation!Apply, Reclamation!updaterVars
<1>5. value \in [Objects -> (SUBSET Updates) \cup {Garbage}] /\ ptr \in Objects
  BY DEF StateInv, Core!IInv, Core!TypeOK
<1>6. value'[copied[t]] = value[copied[t]] \cup {u0} /\ value'[ptr] = value[ptr]
  BY <1>3, <1>4, <1>5
<1>7. CopyExtendsPublished'
  BY <1>3, <1>4, <1>6 DEF StateInv, ContractInv, CopyExtendsPublished
<1>8. \A u : Applied(u)' <=> Applied(u) \/ u = u0
  BY <1>3, <1>4, <1>6 DEF Applied
<1>9. \A u \in Updates : (Running(u) <=> u = u0) /\ ~Running(u)'
  BY <1>1, <1>4, RunningIsOne, OneRegistered, RcuAssumption
  DEF Running, StateInv, ContractInv, RcuInv, Protocol!ProtocolInv, Protocol!TypeOK
<1>10. Protocol!Writing' = Protocol!Writing
  <2>1. pc' = [pc EXCEPT ![t] = pc'[t]] /\ pc'[t] \in {"enter", "drain", "publish"}
    BY DEF RunCallback, Protocol!CallbackReturns, Protocol!Goto,
           StateInv, ContractInv, RcuInv, Protocol!ProtocolInv, Protocol!TypeOK
  <2> QED BY <1>1, <2>1, SameWriting
<1>11. \A u : (Queued(u)' <=> Queued(u)) /\ (Written(u)' <=> Written(u))
  BY <1>4, <1>10 DEF Queued, Written
<1>12. Submitted' = Submitted
  BY <1>4 DEF Submitted, Protocol!Submitted
<1>13. NothingIsLost'
  BY <1>2, <1>8, <1>9, <1>11, <1>12 DEF StateInv, ContractInv, NothingIsLost
<1>14. NothingIsDoubled'
  BY <1>2, <1>4, <1>8, <1>9, <1>11 DEF StateInv, ContractInv, NothingIsDoubled
<1>15. CallsAreInOrder'
  <2>1. \A u \in Updates : ~Running(u)' /\ (Applied(u)' <=> Applied(u) \/ Running(u))
    BY <1>8, <1>9
  <2> QED BY <1>4, <1>8, <2>1 DEF StateInv, ContractInv, CallsAreInOrder
<1> QED BY <1>7, <1>13, <1>14, <1>15 DEF Places

\* The next call of t: its number is new, and the next after the earlier ones.
LEMMA SubmittedGrows ==
  ASSUME StateInv, NEW t \in Updaters, calls[t] < MaxCalls,
         calls' = [calls EXCEPT ![t] = @ + 1], NEW u0, u0 = <<t, calls[t] + 1>>
  PROVE  /\ u0 \in Updates /\ u0 \notin Submitted
         /\ \A u \in Updates : u \in Submitted' <=> u \in Submitted \/ u = u0
         /\ \A u \in Updates : Earlier(u, u0) => u \in Submitted
         /\ \A u \in Updates : Earlier(u0, u) => u \notin Submitted
<1>1. calls \in [Updaters -> 0..MaxCalls] /\ MaxCalls \in Nat
  BY RcuAssumption
  DEF StateInv, ContractInv, RcuInv, Protocol!ProtocolInv, Protocol!TypeOK
<1>2. /\ calls'[t] = calls[t] + 1 /\ calls[t] \in Nat
      /\ \A w \in Updaters : w # t => calls'[w] = calls[w]
  BY <1>1
<1>3. u0[1] = t /\ u0[2] = calls[t] + 1 /\ u0 \in Updates
  BY <1>1, <1>2 DEF Updates, Protocol!Updates
<1>4. ASSUME NEW u \in Updates
      PROVE  /\ u = <<u[1], u[2]>> /\ u[1] \in Updaters /\ u[2] \in Nat
             /\ u \in Submitted <=> u[2] <= calls[u[1]]
             /\ u \in Submitted' <=> u[2] <= calls'[u[1]]
  BY <1>1 DEF Updates, Protocol!Updates, Submitted, Protocol!Submitted
<1>5. ASSUME NEW u \in Updates
      PROVE  u \in Submitted' <=> u \in Submitted \/ u = u0
  <2>1. CASE u[1] # t
    BY <1>2, <1>3, <1>4, <2>1
  <2>2. CASE u[1] = t
    <3>1. u = u0 <=> u[2] = calls[t] + 1
      BY <1>3, <1>4, <2>2
    <3>2. u[2] <= calls[t] + 1 <=> u[2] <= calls[t] \/ u[2] = calls[t] + 1
      BY <1>2, <1>4
    <3> QED BY <1>2, <1>4, <2>2, <3>1, <3>2
  <2> QED BY <2>1, <2>2
<1>6. \A u \in Updates :
        (Earlier(u, u0) => u \in Submitted) /\ (Earlier(u0, u) => u \notin Submitted)
  BY <1>2, <1>3, <1>4 DEF Earlier
<1>7. u0 \notin Submitted
  BY <1>2, <1>3, <1>4
<1> QED BY <1>3, <1>5, <1>6, <1>7

\* A call adds its update to the submitted ones: at hand if the thread becomes
\* the updater, which it does when there is nothing else on its way.
LEMMA CallPlaces ==
  ASSUME StateInv, NEW t \in Updaters, TryRegister(t)
  PROVE  Places' /\ CopyExtendsPublished'
<1> DEFINE u0 == <<t, calls[t] + 1>>
<1>1. /\ pc[t] \in {"idle", "callback"} /\ calls[t] < MaxCalls
      /\ calls' = [calls EXCEPT ![t] = @ + 1]
      /\ UNCHANGED <<updateQueue, ptr, copied, value>>
  BY DEF TryRegister, Protocol!TryRegister, Protocol!Call, reclamationVars
<1>2. /\ u0 \in Updates /\ u0 \notin Submitted
      /\ \A u \in Updates : u \in Submitted' <=> u \in Submitted \/ u = u0
      /\ \A u \in Updates : Earlier(u, u0) => u \in Submitted
      /\ \A u \in Updates : Earlier(u0, u) => u \notin Submitted
  BY <1>1, SubmittedGrows
<1>3. /\ \A u : (Applied(u)' <=> Applied(u)) /\ (Queued(u)' <=> Queued(u))
      /\ CopyExtendsPublished'
  BY <1>1 DEF Applied, Queued, CopyExtendsPublished, StateInv, ContractInv
<1>4. NothingIsLost /\ NothingIsDoubled /\ CallsAreInOrder
  BY DEF StateInv, ContractInv
<1>5. ~Applied(u0) /\ ~Running(u0) /\ ~Queued(u0) /\ ~Written(u0)
  BY <1>2, <1>4 DEF NothingIsLost
<1>6. /\ pc \in [Updaters -> Protocol!Inside \cup {"idle", "write"}]
      /\ running \in [Updaters -> Updates \cup {NoUpdate}]
      /\ calls \in [Updaters -> 0..MaxCalls]
      /\ updateQueue \in Seq(Updates)
  BY DEF StateInv, ContractInv, RcuInv, Protocol!ProtocolInv, Protocol!TypeOK, Updates
<1>7. CASE updateCnt = 0
  <2>1. /\ Protocol!Registered = {} /\ updateQueue = <<>> /\ Protocol!Writing = {}
        /\ pc[t] = "idle"
    BY <1>1, <1>7
    DEF StateInv, ContractInv, RcuInv, Protocol!ProtocolInv,
        Protocol!CountMeansOneUpdater, Protocol!CountIsExact, Protocol!Registered,
        Protocol!Inside
  <2>2. running' = [running EXCEPT ![t] = u0] /\ pc' = [pc EXCEPT ![t] = "get_copy"]
    <3>1. calls'[t] = calls[t] + 1
      BY <1>1, <1>6
    <3> QED
      BY <1>7, <3>1 DEF TryRegister, Protocol!TryRegister, Protocol!Call,
                        Protocol!LatestCall, Protocol!Goto
  <2>3. Protocol!Writing' = {}
    BY <2>1, <2>2, SameWriting
  <2>4. \A w \in Updaters : running[w] = NoUpdate
    BY <1>6, <2>1
    DEF StateInv, ContractInv, RcuInv, Protocol!ProtocolInv, Protocol!Registered,
        Protocol!LocalsFollowPc, Protocol!Inside
  <2>5. \A u \in Updates : ~Queued(u) /\ ~Written(u) /\ ~Written(u)' /\ ~Running(u)
                              /\ (Running(u)' <=> u = u0)
    <3>1. Len(updateQueue) = 0
      BY <2>1
    <3>2. \A u : ~Queued(u)
      BY <3>1 DEF Queued, In
    <3>3. \A u : ~Written(u) /\ ~Written(u)'
      BY <2>1, <2>3 DEF Written
    <3>4. \A u \in Updates : ~Running(u) /\ (Running(u)' <=> u = u0)
      BY <1>6, <2>2, <2>4, RcuAssumption DEF Running
    <3> QED BY <3>2, <3>3, <3>4
  <2>6. NothingIsLost'
    BY <1>2, <1>3, <1>4, <2>5 DEF NothingIsLost
  <2>7. NothingIsDoubled'
    BY <1>1, <1>3, <1>4, <1>5, <2>5 DEF NothingIsDoubled
  <2>8. CallsAreInOrder'
    <3> SUFFICES ASSUME NEW u \in Updates, NEW v \in Updates, Earlier(v, u)
                 PROVE  /\ Applied(u)' \/ Running(u)' => Applied(v)'
                        /\ Applied(v)' \/ Running(v)' \/ Ahead(updateQueue', v, u)
      BY DEF CallsAreInOrder, Earlier
    <3>1. u = u0 => Applied(v)
      BY <1>2, <1>4, <2>5 DEF NothingIsLost
    <3>2. Ahead(updateQueue', v, u)
      <4>1. Len(updateQueue') = 0
        BY <1>1, <2>1
      <4> QED BY <4>1 DEF Ahead
    <3> QED BY <1>3, <1>4, <2>5, <3>1, <3>2 DEF CallsAreInOrder
  <2> QED BY <1>3, <2>6, <2>7, <2>8 DEF Places
<1>8. CASE updateCnt # 0
  <2>1. /\ UNCHANGED running
        /\ \E label \in {"write", "nested_write"} : pc' = [pc EXCEPT ![t] = label]
    BY <1>1, <1>8 DEF TryRegister, Protocol!TryRegister, Protocol!Call, Protocol!Goto
  <2>2. Protocol!Writing' = Protocol!Writing \cup {t} /\ t \notin Protocol!Writing
    BY <1>1, <1>6, <2>1 DEF Protocol!Writing
  <2>3. \A u : Running(u)' <=> Running(u)
    BY <2>1 DEF Running
  <2>4. \A u \in Updates : Written(u)' <=> Written(u) \/ u = u0
    <3>1. calls'[t] = calls[t] + 1 /\ \A w \in Updaters : w # t => calls'[w] = calls[w]
      BY <1>1, <1>6
    <3> QED BY <2>2, <3>1 DEF Written, Protocol!Writing
  <2>5. NothingIsLost'
    BY <1>2, <1>3, <1>4, <2>3, <2>4 DEF NothingIsLost
  <2>6. NothingIsDoubled'
    BY <1>1, <1>3, <1>4, <1>5, <2>3, <2>4 DEF NothingIsDoubled
  <2>7. CallsAreInOrder'
    BY <1>1, <1>3, <1>4, <2>3 DEF CallsAreInOrder
  <2> QED BY <1>3, <2>5, <2>6, <2>7 DEF Places
<1> QED BY <1>7, <1>8

\* blockingWrite puts the callback behind the earlier ones of its thread.
LEMMA WritePlaces ==
  ASSUME StateInv, NEW t \in Updaters, Protocol!Write(t), UNCHANGED reclamationVars
  PROVE  Places' /\ CopyExtendsPublished'
<1> DEFINE u0 == <<t, calls[t]>>
<1>1. /\ pc[t] \in {"write", "nested_write"}
      /\ UNCHANGED <<running, calls, ptr, copied, value>>
      /\ updateQueue' = Append(updateQueue, u0)
      /\ \E label \in {"idle", "callback"} : pc' = [pc EXCEPT ![t] = label]
  BY DEF Protocol!Write, Protocol!Enqueue, Protocol!Goto, Protocol!LatestCall,
         Protocol!loopVars, reclamationVars
<1>2. /\ pc \in [Updaters -> Protocol!Inside \cup {"idle", "write"}]
      /\ calls \in [Updaters -> 0..MaxCalls] /\ calls[t] > 0 /\ MaxCalls \in Nat
      /\ updateQueue \in Seq(Updates)
  BY <1>1, RcuAssumption
  DEF StateInv, ContractInv, RcuInv, Protocol!ProtocolInv, Protocol!TypeOK, Updates,
      Protocol!LocalsFollowPc
<1>3. u0 \in Updates /\ Written(u0)
  BY <1>1, <1>2 DEF Updates, Protocol!Updates, Written, Protocol!Writing
<1>4. NothingIsLost /\ NothingIsDoubled /\ CallsAreInOrder
  BY DEF StateInv, ContractInv
<1>5. ~Applied(u0) /\ ~Running(u0) /\ ~Queued(u0)
  BY <1>3, <1>4 DEF NothingIsDoubled
<1>6. /\ \A u : In(updateQueue', u) <=> In(updateQueue, u) \/ u = u0
      /\ NoRepeat(updateQueue) /\ ~In(updateQueue, u0) => NoRepeat(updateQueue')
      /\ \A u, v : Ahead(updateQueue, v, u) /\ (u = u0 => In(updateQueue, v))
                     => Ahead(updateQueue', v, u)
  <2>1. updateQueue \in Seq(Updates) /\ u0 \in Updates /\ updateQueue' = Append(updateQueue, u0)
    BY <1>1, <1>2, <1>3
  <2> HIDE DEF u0
  <2> QED BY <2>1, WriteAtEnd
<1>7. \A u : /\ Applied(u)' <=> Applied(u)
             /\ Running(u)' <=> Running(u)
             /\ Queued(u)' <=> Queued(u) \/ u = u0
  BY <1>1, <1>6 DEF Applied, Running, Queued
<1>8. CopyExtendsPublished' /\ Submitted' = Submitted
  BY <1>1 DEF StateInv, ContractInv, CopyExtendsPublished, Submitted, Protocol!Submitted
<1>9. \A u : Written(u)' <=> Written(u) /\ u # u0
  <2>1. Protocol!Writing' = Protocol!Writing \ {t}
    BY <1>1, <1>2 DEF Protocol!Writing
  <2> QED BY <1>1, <2>1 DEF Written, Protocol!Writing
<1>10. NothingIsLost'
  BY <1>3, <1>4, <1>7, <1>8, <1>9 DEF NothingIsLost
<1>11. NothingIsDoubled'
  BY <1>4, <1>5, <1>6, <1>7, <1>9 DEF NothingIsDoubled, Queued
<1>12. CallsAreInOrder'
  <2> SUFFICES ASSUME NEW u \in Updates, NEW v \in Updates, Earlier(v, u)
               PROVE  /\ Applied(u)' \/ Running(u)' => Applied(v)'
                      /\ Applied(v)' \/ Running(v)' \/ Ahead(updateQueue', v, u)
    BY DEF CallsAreInOrder, Earlier
  <2>1. ASSUME u = u0
        PROVE  Applied(v) \/ Running(v) \/ Queued(v)
    <3>1. v \in Submitted /\ v # u0 /\ ~Written(v)
      <4>1. v = <<v[1], v[2]>> /\ v[1] = t /\ v[2] < calls[t] /\ v[2] \in Nat
        BY <1>2, <2>1 DEF Earlier, Updates, Protocol!Updates
      <4>2. v \in Submitted
        BY <1>2, <4>1 DEF Submitted, Protocol!Submitted, Updates
      <4>3. ~Written(v) /\ v # u0
        BY <1>2, <4>1 DEF Written, Protocol!Writing
      <4> QED BY <4>2, <4>3
    <3> QED BY <1>4, <3>1 DEF NothingIsLost
  <2> QED BY <1>4, <1>6, <1>7, <2>1 DEF CallsAreInOrder, Queued
<1> QED BY <1>8, <1>10, <1>11, <1>12 DEF Places

\* blockingRead takes the first: nothing of its thread is ahead of it.
LEMMA ReadPlaces ==
  ASSUME StateInv, NEW t \in Updaters, Protocol!Read(t), UNCHANGED reclamationVars
  PROVE  Places' /\ CopyExtendsPublished'
<1> DEFINE u0 == Head(updateQueue)
<1>1. /\ pc[t] = "drain" /\ updateQueue # <<>> /\ updateQueue' = Tail(updateQueue)
      /\ running' = [running EXCEPT ![t] = u0] /\ pc' = [pc EXCEPT ![t] = "callback"]
      /\ UNCHANGED <<calls, ptr, copied, value>>
  BY DEF Protocol!Read, Protocol!Goto, Protocol!loopVars, reclamationVars
<1>2. /\ running \in [Updaters -> Updates \cup {NoUpdate}] /\ running[t] = NoUpdate
      /\ updateQueue \in Seq(Updates)
  BY <1>1
  DEF StateInv, ContractInv, RcuInv, Protocol!ProtocolInv, Protocol!TypeOK, Updates,
      Protocol!LocalsFollowPc
<1>3. /\ u0 \in Updates
      /\ \A u : In(updateQueue, u) <=> In(updateQueue', u) \/ u = u0
      /\ NoRepeat(updateQueue) => NoRepeat(updateQueue') /\ ~In(updateQueue', u0)
      /\ \A u, v : Ahead(updateQueue, v, u) => v = u0 \/ Ahead(updateQueue', v, u)
      /\ \A v : ~Ahead(updateQueue, v, u0)
  BY <1>1, <1>2, ReadAtFront
<1>4. NothingIsLost /\ NothingIsDoubled /\ CallsAreInOrder
  BY DEF StateInv, ContractInv
<1>5. Queued(u0) /\ ~Applied(u0) /\ ~Running(u0) /\ ~Written(u0)
  BY <1>3, <1>4 DEF NothingIsDoubled, Queued
<1>6. \A u \in Updates : ~Running(u) /\ (Running(u)' <=> u = u0)
  <2>1. \A u \in Updates : Running(u) <=> running[t] = u
    BY <1>1, RunningIsOne DEF Protocol!Inside
  <2>2. \A u \in Updates : ~Running(u)
    BY <1>2, <2>1, RcuAssumption
  <2> QED BY <1>1, <1>2, <1>3, <2>2 DEF Running
<1>7. Protocol!Writing' = Protocol!Writing
  BY <1>1, SameWriting
<1>8. \A u : /\ Applied(u)' <=> Applied(u)
             /\ Queued(u) <=> Queued(u)' \/ u = u0
             /\ Written(u)' <=> Written(u)
  BY <1>1, <1>3, <1>7 DEF Applied, Queued, Written
<1>9. CopyExtendsPublished' /\ Submitted' = Submitted
  BY <1>1 DEF StateInv, ContractInv, CopyExtendsPublished, Submitted, Protocol!Submitted
<1>10. NothingIsLost'
  BY <1>4, <1>6, <1>8, <1>9 DEF NothingIsLost
<1>11. NothingIsDoubled'
  BY <1>3, <1>4, <1>5, <1>6, <1>8 DEF NothingIsDoubled, Queued
<1>12. CallsAreInOrder'
  <2> SUFFICES ASSUME NEW u \in Updates, NEW v \in Updates, Earlier(v, u)
               PROVE  /\ Applied(u)' \/ Running(u)' => Applied(v)'
                      /\ Applied(v)' \/ Running(v)' \/ Ahead(updateQueue', v, u)
    BY DEF CallsAreInOrder, Earlier
  <2>1. u = u0 => Applied(v)
    BY <1>3, <1>4, <1>6 DEF CallsAreInOrder
  <2> QED BY <1>3, <1>4, <1>6, <1>8, <2>1 DEF CallsAreInOrder
<1> QED BY <1>9, <1>10, <1>11, <1>12 DEF Places

\* Steps that leave the protocol's variables alone.
LEMMA ReaderPlaces ==
  ASSUME StateInv, NEW r \in Readers, ReaderStep(r)
  PROVE  Places' /\ CopyExtendsPublished'
<1>1. UNCHANGED <<ptr, copied, value>> /\ UNCHANGED protocolVars
  BY DEF ReaderStep, LoadEpoch, StoreMark, LoadPtr, Unlock, Reclamation!LoadEpoch,
         Reclamation!StoreMark, Reclamation!LoadPtr, Reclamation!Unlock,
         Reclamation!objectVars, Reclamation!updaterVars
<1>2. (\A u : Applied(u)' <=> Applied(u)) /\ CopyExtendsPublished'
  BY <1>1, SameContent DEF StateInv, ContractInv
<1> QED BY <1>1, <1>2, SamePlaces DEF protocolVars, Protocol!Writing

\* What retire deletes was in the pool.
LEMMA RetireContent ==
  ASSUME StateInv, NEW t \in Updaters, RetireStep(t)
  PROVE  /\ UNCHANGED <<ptr, copied>> /\ value'[ptr] = value[ptr]
         /\ \A w \in Updaters : copied[w] # Null => value'[copied[w]] = value[copied[w]]
<1> USE DEF RetireStep, Reclamation!RetireStep, Reclamation!Retire,
            Reclamation!SkipReader, Reclamation!FindReader, Reclamation!Reclaim,
            Reclamation!AdvanceEpoch, Reclamation!objectVars, Reclamation!updaterVars
<1>1. UNCHANGED <<ptr, copied>>
  OBVIOUS
<1>2. \A o \in Objects : o \notin finished => value'[o] = value[o]
  OBVIOUS
<1>3. /\ ptr \in Objects /\ ptr \notin finished
      /\ \A w \in Updaters : copied[w] # Null =>
           copied[w] \in Objects /\ copied[w] \notin finished
  BY DEF StateInv, Core!IInv, Core!TypeOK, Core!EveryObjectHasOneOwner, Core!Copies
<1> QED BY <1>1, <1>2, <1>3

LEMMA RetirePlaces ==
  ASSUME StateInv, NEW t \in Updaters, RetireStep(t)
  PROVE  Places' /\ CopyExtendsPublished'
<1>1. UNCHANGED protocolVars
  BY DEF RetireStep
<1>2. (\A u : Applied(u)' <=> Applied(u)) /\ CopyExtendsPublished'
  BY RetireContent, SameContent DEF StateInv, ContractInv
<1> QED BY <1>1, <1>2, SamePlaces DEF protocolVars, Protocol!Writing

\* Steps of the loop that only count.
LEMMA CountingPlaces ==
  ASSUME StateInv, NEW t \in Updaters, UNCHANGED reclamationVars,
         Protocol!Enter(t) \/ Protocol!Reload(t) \/ Protocol!CheckStep(t)
  PROVE  Places' /\ CopyExtendsPublished'
<1>1. UNCHANGED <<ptr, copied, value, running, updateQueue, calls>>
  BY DEF reclamationVars, Protocol!Enter, Protocol!ExpectAndDrain, Protocol!Reload,
         Protocol!CheckStep, Protocol!Resign, Protocol!Leave, Protocol!NextBatch,
         Protocol!Again, Protocol!queueVars
<1>2. Protocol!Writing' = Protocol!Writing
  <2>1. /\ pc[t] \notin {"write", "nested_write"}
        /\ \E label : label \notin {"write", "nested_write"} /\ pc' = [pc EXCEPT ![t] = label]
    BY DEF Protocol!Enter, Protocol!ExpectAndDrain, Protocol!Reload, Protocol!Goto,
           Protocol!CheckStep, Protocol!Resign, Protocol!Leave, Protocol!NextBatch,
           Protocol!Again
  <2> QED BY <2>1, SameWriting
<1>3. (\A u : Applied(u)' <=> Applied(u)) /\ CopyExtendsPublished'
  BY <1>1, SameContent DEF StateInv, ContractInv
<1> QED BY <1>1, <1>2, <1>3, SamePlaces

\* A new private copy has what is published.
LEMMA CopyPlaces ==
  ASSUME StateInv, NEW t \in Updaters, NEW o \in Objects,
         Protocol!HaveCopy(t), Reclamation!GetCopy(t, o)
  PROVE  /\ Places' /\ CopyExtendsPublished'
         /\ ptr' = ptr /\ copied' = [copied EXCEPT ![t] = o]
         /\ value'[ptr] = value[ptr] /\ value'[o] = value[ptr]
<1>1. /\ pc[t] = "get_copy" /\ UNCHANGED <<ptr, running, updateQueue, calls>>
      /\ \E label \in {"drain", "callback"} : pc' = [pc EXCEPT ![t] = label]
      /\ value' = [value EXCEPT ![o] = value[ptr]] /\ copied' = [copied EXCEPT ![t] = o]
      /\ o \in heap \cup finished
  BY DEF Protocol!HaveCopy, Protocol!Goto, Protocol!queueVars, Reclamation!GetCopy
<1>2. /\ ptr \in Objects /\ o # ptr /\ o # Null
      /\ value \in [Objects -> (SUBSET Updates) \cup {Garbage}]
      /\ copied \in [Updaters -> Objects \cup {Null}]
  BY <1>1, RcuAssumption
  DEF StateInv, Core!IInv, Core!TypeOK, Core!EveryObjectHasOneOwner
<1>3. \A w \in Updaters : copied[w] = Null
  BY <1>1, WhoHasACopy, OneRegistered DEF Protocol!Inside
<1>4. value'[ptr] = value[ptr] /\ value'[o] = value[ptr]
  BY <1>1, <1>2
<1>5. \A u : Applied(u)' <=> Applied(u)
  BY <1>1, <1>2, <1>3, <1>4 DEF Applied
<1>6. CopyExtendsPublished'
  BY <1>1, <1>2, <1>3, <1>4 DEF CopyExtendsPublished
<1>7. Protocol!Writing' = Protocol!Writing
  BY <1>1, SameWriting
<1> QED BY <1>1, <1>4, <1>5, <1>6, <1>7, SamePlaces

\* The private copy becomes the published object.
LEMMA PublishPlaces ==
  ASSUME StateInv, NEW t \in Updaters, Publish(t)
  PROVE  /\ Places' /\ CopyExtendsPublished'
         /\ ptr' = copied[t] /\ value' = value
         /\ \A w \in Updaters : copied'[w] = Null
<1>1. /\ pc[t] = "publish" /\ UNCHANGED <<value, running, updateQueue, calls>>
      /\ pc' = [pc EXCEPT ![t] = "retire"]
      /\ ptr' = copied[t] /\ copied' = [copied EXCEPT ![t] = Null]
  BY DEF Publish, Protocol!Publish, Protocol!Goto, Protocol!queueVars,
         Reclamation!Publish
<1>2. /\ copied \in [Updaters -> Objects \cup {Null}]
      /\ copied[t] # Null
      /\ \A w \in Updaters : w # t => copied[w] = Null
  BY <1>1, WhoHasACopy, OneRegistered
  DEF StateInv, Core!IInv, Core!TypeOK, Protocol!Inside
<1>3. \A w \in Updaters : copied'[w] = Null
  BY <1>1, <1>2
<1>4. \A u : Applied(u)' <=> Applied(u)
  <2>1. \A u : Applied(u) <=> u \in value[copied[t]]
    BY <1>2, AppliedIsContent
  <2> QED BY <1>1, <1>3, <2>1 DEF Applied
<1>5. CopyExtendsPublished'
  BY <1>3 DEF CopyExtendsPublished
<1>6. Protocol!Writing' = Protocol!Writing
  BY <1>1, SameWriting
<1> QED BY <1>1, <1>3, <1>4, <1>5, <1>6, SamePlaces

LEMMA PlacesStep ==
  ASSUME StateInv, Next
  PROVE  Places' /\ CopyExtendsPublished'
<1>1. ASSUME NEW t \in Updaters, LocalStep(t)
      PROVE  Places' /\ CopyExtendsPublished'
  BY <1>1, WritePlaces, ReadPlaces, CountingPlaces DEF LocalStep, Protocol!LocalStep
<1>2. ASSUME NEW t \in Updaters, GetCopy(t)
      PROVE  Places' /\ CopyExtendsPublished'
  BY <1>2, CopyPlaces DEF GetCopy
<1>3. ASSUME NEW t \in Updaters, CheckStep(t)
      PROVE  Places' /\ CopyExtendsPublished'
  BY <1>3, CountingPlaces DEF CheckStep
<1> HIDE DEF Places, CopyExtendsPublished
<1> QED
  BY <1>1, <1>2, <1>3, ReaderPlaces, CallPlaces, CallbackPlaces, PublishPlaces,
     RetirePlaces, NextCases

-----------------------------------------------------------------------------
(* What is in a batch.                                                     *)

LEMMA UpdatesAreFinite == IsFiniteSet(Updates)
<1>1. IsFiniteSet(1..MaxCalls)
  BY RcuAssumption, FS_Interval
<1> QED BY <1>1, RcuAssumption, FS_Product DEF Updates, Protocol!Updates

\* The callback adds one to what the batch has.
LEMMA CallbackBatch ==
  ASSUME StateInv, NEW t \in Updaters, RunCallback(t)
  PROVE  BatchIsCounted' /\ BatchIsNew'
<1> DEFINE size == Cardinality(value[copied[t]] \ value[ptr])
           u0 == running[t]
<1>1. /\ pc[t] = "callback" /\ UNCHANGED <<ptr, copied>>
      /\ pc' = [pc EXCEPT ![t] = pc'[t]] /\ pc'[t] # "get_copy"
      /\ value' = [value EXCEPT ![copied[t]] = value[copied[t]] \cup {u0}]
      /\ done' = [done EXCEPT ![t] = @ + 1]
      /\ \/ done[t] = 0 /\ unflushed' = unflushed
         \/ done[t] > 0 /\ unflushed' = [unflushed EXCEPT ![t] = @ + 1]
  BY DEF RunCallback, Protocol!CallbackReturns, Protocol!queueVars, Protocol!Goto,
         Reclamation!Apply, Reclamation!updaterVars, StateInv, ContractInv, RcuInv,
         Protocol!ProtocolInv, Protocol!TypeOK
<1>2. /\ copied[t] # Null /\ copied[t] \in Objects /\ copied[t] # ptr
      /\ \A w \in Updaters : w # t => copied[w] = Null /\ pc[w] \in {"idle", "write"}
  BY <1>1, WhoHasACopy, OneRegistered DEF Protocol!Inside
<1>3. /\ value \in [Objects -> (SUBSET Updates) \cup {Garbage}] /\ ptr \in Objects
      /\ pc \in [Updaters -> Protocol!Inside \cup {"idle", "write"}]
      /\ done \in [Updaters -> Nat] /\ unflushed \in [Updaters -> Nat]
      /\ done[t] = 0 => unflushed[t] = 0
      /\ u0 \in Updates
      /\ value[copied[t]] \in SUBSET Updates /\ value[ptr] \subseteq value[copied[t]]
  BY <1>1, <1>2
  DEF StateInv, ContractInv, RcuInv, ContentIsReal, CopyExtendsPublished, Core!IInv,
      Core!TypeOK, Protocol!ProtocolInv, Protocol!TypeOK, Protocol!LocalsFollowPc,
      Protocol!UnflushedIsBounded, Updates
<1>4. u0 \notin value[copied[t]]
  <2>1. Running(u0)
    BY DEF Running
  <2> QED BY <1>2, <1>3, <2>1 DEF StateInv, ContractInv, NothingIsDoubled, Applied
<1>5. value'[copied[t]] = value[copied[t]] \cup {u0} /\ value'[ptr] = value[ptr]
  BY <1>1, <1>2, <1>3
<1>6. size \in Nat /\ Cardinality(value'[copied[t]] \ value'[ptr]) = size + 1
  <2>1. IsFiniteSet(value[copied[t]] \ value[ptr])
    BY <1>3, UpdatesAreFinite, FS_Subset
  <2>2. value'[copied[t]] \ value'[ptr] = (value[copied[t]] \ value[ptr]) \cup {u0}
    BY <1>3, <1>4, <1>5
  <2> QED BY <1>4, <2>1, <2>2, FS_AddElement, FS_CardinalityType
<1>7. BatchIsCounted'
  <2>1. size = unflushed[t] \/ (size = unflushed[t] + 1 /\ done[t] = size)
    BY <1>2 DEF StateInv, ContractInv, BatchIsCounted
  <2>2. done'[t] = done[t] + 1 /\ done[t] \in Nat /\ unflushed[t] \in Nat
        /\ \/ done[t] = 0 /\ unflushed'[t] = 0 /\ unflushed[t] = 0
           \/ done[t] > 0 /\ unflushed'[t] = unflushed[t] + 1
    BY <1>1, <1>3
  <2>3. \/ size + 1 = unflushed'[t]
        \/ size + 1 = unflushed'[t] + 1 /\ done'[t] = size + 1
    BY <1>6, <2>1, <2>2
  <2> QED BY <1>1, <1>2, <1>6, <2>3 DEF BatchIsCounted
<1>8. BatchIsNew'
  <2>1. value'[copied'[t]] # value'[ptr']
    BY <1>1, <1>3, <1>4, <1>5
  <2>2. \A w \in Updaters : w # t => pc'[w] \in {"idle", "write"}
    BY <1>1, <1>2, <1>3
  <2> QED BY <2>1, <2>2 DEF BatchIsNew
<1> QED BY <1>7, <1>8

\* A new batch has nothing yet; it is not the first, or its own callback is next.
LEMMA CopyBatch ==
  ASSUME StateInv, NEW t \in Updaters, NEW o \in Objects,
         Protocol!HaveCopy(t), Reclamation!GetCopy(t, o)
  PROVE  BatchIsCounted' /\ BatchIsNew'
<1>1. /\ pc[t] = "get_copy" /\ UNCHANGED <<done, unflushed, expected>>
      /\ pc' = [pc EXCEPT ![t] = IF running[t] = NoUpdate THEN "drain" ELSE "callback"]
  BY DEF Protocol!HaveCopy, Protocol!Goto, Protocol!loopVars
<1>2. /\ unflushed[t] = 0
      /\ running[t] = NoUpdate => done[t] < expected[t]
      /\ copied \in [Updaters -> Objects \cup {Null}]
      /\ pc \in [Updaters -> Protocol!Inside \cup {"idle", "write"}]
  BY <1>1
  DEF StateInv, ContractInv, RcuInv, Core!IInv, Core!TypeOK, Protocol!ProtocolInv,
      Protocol!TypeOK, Protocol!UnflushedIsBounded, Protocol!LoopIsBounded
<1>3. \A w \in Updaters : w # t => copied[w] = Null /\ pc[w] \in {"idle", "write"}
  BY <1>1, OneRegistered DEF Protocol!Inside
<1>4. /\ ptr' = ptr /\ copied' = [copied EXCEPT ![t] = o]
      /\ value'[ptr] = value[ptr] /\ value'[o] = value[ptr]
  BY CopyPlaces
<1>5. BatchIsCounted'
  <2>1. copied'[t] = o /\ \A w \in Updaters : w # t => copied'[w] = Null
    BY <1>2, <1>3, <1>4
  <2>2. Cardinality(value'[o] \ value'[ptr']) = 0
    BY <1>4, FS_EmptySet
  <2> QED BY <1>1, <1>2, <2>1, <2>2 DEF BatchIsCounted
<1>6. BatchIsNew'
  BY <1>1, <1>2, <1>3 DEF BatchIsNew
<1> QED BY <1>5, <1>6

\* Steps that neither write to the objects in question nor count.
LEMMA SameBatch ==
  ASSUME StateInv, UNCHANGED <<ptr, copied, done, unflushed>>, value'[ptr] = value[ptr],
         \A t \in Updaters : copied[t] # Null => value'[copied[t]] = value[copied[t]]
  PROVE  BatchIsCounted'
BY DEF StateInv, ContractInv, BatchIsCounted

\* ... and stay where they are in do_updates.
LEMMA SameNews ==
  ASSUME StateInv, UNCHANGED <<pc, ptr, copied, done, expected>>, value'[ptr] = value[ptr],
         \A t \in Updaters : copied[t] # Null => value'[copied[t]] = value[copied[t]]
  PROVE  BatchIsNew'
<1>1. \A t \in Updaters : pc[t] \in {"enter", "drain", "publish"} => copied[t] # Null
  BY WhoHasACopy
<1> QED BY <1>1 DEF StateInv, ContractInv, BatchIsNew

\* The steps of update and do_updates outside get_copy, callbacks and publishing.
LEMMA LocalBatch ==
  ASSUME StateInv, NEW t \in Updaters, UNCHANGED reclamationVars,
         Protocol!TryRegister(t) \/ Protocol!LocalStep(t) \/ Protocol!CheckStep(t)
  PROVE  BatchIsCounted' /\ BatchIsNew'
<1>1. UNCHANGED <<ptr, copied, value>>
  BY DEF reclamationVars
<1>2. /\ pc \in [Updaters -> Protocol!Inside \cup {"idle", "write"}]
      /\ done \in [Updaters -> Nat] /\ expected \in [Updaters -> Nat]
      /\ updateCnt \in Nat /\ done[t] \in Nat /\ expected[t] \in Nat
  BY DEF StateInv, ContractInv, RcuInv, Protocol!ProtocolInv, Protocol!TypeOK
<1>3. BatchIsCounted'
  <2>1. CASE Protocol!TryRegister(t) \/ Protocol!LocalStep(t)
    <3>1. UNCHANGED <<done, unflushed>>
      BY <2>1
      DEF Protocol!TryRegister, Protocol!Call, Protocol!LocalStep, Protocol!Write,
          Protocol!Enqueue, Protocol!Enter, Protocol!ExpectAndDrain, Protocol!Read,
          Protocol!Reload, Protocol!loopVars
    <3> QED BY <1>1, <3>1, SameBatch
  <2>2. CASE Protocol!CheckStep(t)
    <3>1. pc[t] = "retire"
      BY <2>2 DEF Protocol!CheckStep, Protocol!Resign, Protocol!Leave,
                  Protocol!NextBatch, Protocol!Again
    <3>2. \A w \in Updaters : copied[w] = Null
      BY <3>1, WhoHasACopy, OneRegistered DEF Protocol!Inside
    <3> QED BY <1>1, <3>2 DEF BatchIsCounted
  <2> QED BY <2>1, <2>2
<1>4. BatchIsNew'
  <2>1. ASSUME NEW label, label \notin {"enter", "drain", "publish"},
               pc' = [pc EXCEPT ![t] = label], UNCHANGED <<done, expected>>
        PROVE  BatchIsNew'
    BY <1>1, <1>2, <2>1 DEF StateInv, ContractInv, BatchIsNew
  <2>2. CASE Protocol!TryRegister(t)
    <3>1. /\ \E label \in {"get_copy", "write", "nested_write"} :
               pc' = [pc EXCEPT ![t] = label]
          /\ UNCHANGED <<done, expected>>
      BY <2>2 DEF Protocol!TryRegister, Protocol!Call, Protocol!Goto, Protocol!loopVars
    <3> QED BY <2>1, <3>1
  <2>3. CASE Protocol!Write(t)
    <3>1. /\ \E label \in {"idle", "callback"} : pc' = [pc EXCEPT ![t] = label]
          /\ UNCHANGED <<done, expected>>
      BY <2>3 DEF Protocol!Write, Protocol!Enqueue, Protocol!Goto, Protocol!loopVars
    <3> QED BY <2>1, <3>1
  <2>4. CASE Protocol!Read(t)
    <3>1. pc' = [pc EXCEPT ![t] = "callback"] /\ UNCHANGED <<done, expected>>
      BY <2>4 DEF Protocol!Read, Protocol!Goto, Protocol!loopVars
    <3> QED BY <2>1, <3>1
  <2>5. CASE Protocol!Enter(t)
    BY <1>1, <1>2, <2>5
    DEF StateInv, ContractInv, BatchIsNew, Protocol!Enter, Protocol!ExpectAndDrain,
        Protocol!Goto
  <2>6. CASE Protocol!Reload(t)
    \* done >= expected, so there is something new in the batch already.
    <3>1. /\ pc[t] = "drain" /\ ~(done[t] < expected[t])
          /\ \E label \in {"drain", "publish"} : pc' = [pc EXCEPT ![t] = label]
          /\ UNCHANGED done /\ \A w \in Updaters : w # t => expected'[w] = expected[w]
      BY <1>2, <2>6 DEF Protocol!Reload, Protocol!Goto
    <3>2. value[copied[t]] # value[ptr]
      BY <3>1 DEF StateInv, ContractInv, BatchIsNew
    <3> QED BY <1>1, <1>2, <3>1, <3>2 DEF StateInv, ContractInv, BatchIsNew
  <2>7. CASE Protocol!CheckStep(t)
    <3>1. /\ pc[t] = "retire"
          /\ \E label \in {"idle", "get_copy"} : pc' = [pc EXCEPT ![t] = label]
      BY <2>7 DEF Protocol!CheckStep, Protocol!Resign, Protocol!Leave,
                  Protocol!NextBatch, Protocol!Again, Protocol!Goto
    <3>2. \A w \in Updaters : w # t => pc[w] \in {"idle", "write"}
      BY <3>1, OneRegistered DEF Protocol!Inside
    <3> QED BY <1>2, <3>1, <3>2 DEF BatchIsNew
  <2> QED BY <2>2, <2>3, <2>4, <2>5, <2>6, <2>7 DEF Protocol!LocalStep
<1> QED BY <1>3, <1>4

LEMMA BatchStep ==
  ASSUME StateInv, Next
  PROVE  BatchIsCounted' /\ BatchIsNew'
<1>1. ASSUME NEW r \in Readers, ReaderStep(r)
      PROVE  BatchIsCounted' /\ BatchIsNew'
  <2>1. UNCHANGED <<ptr, copied, value>> /\ UNCHANGED protocolVars
    BY <1>1
    DEF ReaderStep, LoadEpoch, StoreMark, LoadPtr, Unlock, Reclamation!LoadEpoch,
        Reclamation!StoreMark, Reclamation!LoadPtr, Reclamation!Unlock,
        Reclamation!objectVars, Reclamation!updaterVars
  <2> QED BY <2>1, SameBatch, SameNews DEF protocolVars
<1>2. ASSUME NEW t \in Updaters, Publish(t)
      PROVE  BatchIsCounted' /\ BatchIsNew'
  <2>1. \A w \in Updaters : copied'[w] = Null
    BY <1>2, PublishPlaces
  <2>2. pc[t] = "publish" /\ pc' = [pc EXCEPT ![t] = "retire"]
    BY <1>2 DEF Publish, Protocol!Publish, Protocol!Goto
  <2>3. /\ pc \in [Updaters -> Protocol!Inside \cup {"idle", "write"}]
        /\ \A w \in Updaters : w # t => pc[w] \in {"idle", "write"}
    BY <2>2, OneRegistered
    DEF Protocol!Inside, StateInv, ContractInv, RcuInv, Protocol!ProtocolInv,
        Protocol!TypeOK
  <2> QED BY <2>1, <2>2, <2>3 DEF BatchIsCounted, BatchIsNew
<1>3. ASSUME NEW t \in Updaters, RetireStep(t)
      PROVE  BatchIsCounted' /\ BatchIsNew'
  <2>1. UNCHANGED protocolVars
    BY <1>3 DEF RetireStep
  <2> QED BY <1>3, <2>1, RetireContent, SameBatch, SameNews DEF protocolVars
<1>4. ASSUME NEW t \in Updaters, GetCopy(t)
      PROVE  BatchIsCounted' /\ BatchIsNew'
  BY <1>4, CopyBatch DEF GetCopy
<1> HIDE DEF BatchIsCounted, BatchIsNew
<1> QED
  BY <1>1, <1>2, <1>3, <1>4, LocalBatch, CallbackBatch, NextCases
  DEF TryRegister, LocalStep, CheckStep

-----------------------------------------------------------------------------
(* The invariant *)

\* An object a reader holds does not change.
LEMMA HeldStays ==
  ASSUME StateInv, Next
  PROVE  \A r \in Readers : rpc[r] = "reading" /\ rpc'[r] = "reading" =>
           held'[r] = held[r] /\ value'[held[r]] = value[held[r]]
<1>1. CASE Core!Next
  <2>1. /\ Core!TypeOK /\ Core!PhasesAreTrue /\ Core!ReaderProtection
        /\ \A r \in Readers : rpc[r] = "reading" => held[r] \in Objects
    BY CoreAssumption, Core!HeldIsProtected, Core!HeldIsAnObject DEF StateInv, Core!IInv
  <2> QED BY <1>1, <2>1, CoreAssumption, Core!ImmutableStep
<1>2. CASE UNCHANGED Core!vars
  BY <1>2 DEF Core!vars, Core!objectVars, Core!readerVars
<1> QED BY <1>1, <1>2, CoreStep DEF StateInv, ContractInv

\* A reader takes its pointer from m_ptr only.
LEMMA PointersAreLoaded ==
  ASSUME StateInv, Next, NEW r \in Readers, rpc'[r] = "reading", rpc[r] # "reading"
  PROVE  LoadPtr(r)
<1>1. rpc \in [Readers -> {"out", "locking", "locked", "reading"}]
  BY DEF StateInv, Core!IInv, Core!TypeOK
<1>2. ASSUME NEW s \in Readers, ReaderStep(s) PROVE LoadPtr(r)
  BY <1>1, <1>2
  DEF ReaderStep, LoadEpoch, StoreMark, LoadPtr, Unlock, Reclamation!LoadEpoch,
      Reclamation!StoreMark, Reclamation!LoadPtr, Reclamation!Unlock
<1>3. ASSUME NEW t \in Updaters,
             TryRegister(t) \/ LocalStep(t) \/ GetCopy(t) \/ RunCallback(t)
               \/ Publish(t) \/ RetireStep(t) \/ CheckStep(t)
      PROVE  UNCHANGED rpc
  BY <1>3
  DEF TryRegister, LocalStep, GetCopy, RunCallback, Publish, RetireStep, CheckStep,
      Reclamation!GetCopy, Reclamation!Apply, Reclamation!Publish,
      Reclamation!RetireStep, Reclamation!Retire, Reclamation!SkipReader,
      Reclamation!FindReader, Reclamation!Reclaim, Reclamation!AdvanceEpoch,
      reclamationVars, Reclamation!readerVars
<1> QED BY <1>2, <1>3, NextCases

LEMMA HeldContentStep ==
  ASSUME StateInv, Next
  PROVE  HeldIsReal'
<1> SUFFICES ASSUME NEW r \in Readers, rpc'[r] = "reading"
             PROVE  value'[held'[r]] \in SUBSET Updates
  BY DEF HeldIsReal
<1>1. CASE rpc[r] = "reading"
  BY <1>1, HeldStays DEF StateInv, ContractInv, HeldIsReal
<1>2. CASE rpc[r] # "reading"
  <2>1. LoadPtr(r)
    BY <1>2, PointersAreLoaded
  <2>2. held'[r] = ptr /\ value' = value
    BY <2>1 DEF LoadPtr, Reclamation!LoadPtr, Reclamation!objectVars, StateInv,
                Core!IInv, Core!TypeOK
  <2> QED BY <2>2 DEF StateInv, ContractInv, RcuInv, ContentIsReal
<1> QED BY <1>1, <1>2

LEMMA ContractInit == Init => StateInv
<1> SUFFICES ASSUME Init PROVE StateInv
  OBVIOUS
<1>1. RcuInv /\ Core!IInv
  BY FullInit DEF FullInv
<1>2. /\ value[ptr] = {} /\ updateQueue = <<>> /\ Len(updateQueue) = 0
      /\ \A t \in Updaters :
           pc[t] = "idle" /\ copied[t] = Null /\ running[t] = NoUpdate /\ calls[t] = 0
      /\ \A r \in Readers : rpc[r] = "out"
  BY DEF Init, Reclamation!Init, Protocol!Init
<1>3. \A u \in Updates :
        ~Applied(u) /\ ~Running(u) /\ ~Queued(u) /\ ~Written(u) /\ u \notin Submitted
  <2>1. \A u : ~Queued(u)
    BY <1>2 DEF Queued, In
  <2>2. \A u : ~Applied(u) /\ ~Written(u)
    BY <1>2 DEF Applied, Written, Protocol!Writing
  <2>3. \A u \in Updates : ~Running(u)
    BY <1>2, RcuAssumption DEF Running
  <2>4. \A u \in Updates : u \notin Submitted
    BY <1>2 DEF Submitted, Protocol!Submitted, Updates, Protocol!Updates
  <2> QED BY <2>1, <2>2, <2>3, <2>4
<1>4. NothingIsLost
  BY <1>3 DEF NothingIsLost
<1>5. NothingIsDoubled
  BY <1>2, <1>3 DEF NothingIsDoubled, NoRepeat
<1>6. CallsAreInOrder
  BY <1>2, <1>3 DEF CallsAreInOrder, Ahead
<1>7. CopyExtendsPublished /\ BatchIsCounted /\ BatchIsNew /\ HeldIsReal
  BY <1>2 DEF CopyExtendsPublished, BatchIsCounted, BatchIsNew, HeldIsReal
<1> QED BY <1>1, <1>4, <1>5, <1>6, <1>7 DEF StateInv, ContractInv

LEMMA ContractStep == StateInv /\ [Next]_vars => StateInv'
<1> SUFFICES ASSUME StateInv, [Next]_vars PROVE StateInv'
  OBVIOUS
<1>1. FullInv'
  BY FullStep DEF FullInv, StateInv, ContractInv
<1>2. CASE Next
  BY <1>1, <1>2, PlacesStep, BatchStep, HeldContentStep
  DEF FullInv, StateInv, ContractInv, Places
<1>3. CASE UNCHANGED vars
  <2>1. UNCHANGED <<ptr, value, copied, rpc, held>> /\ UNCHANGED protocolVars
    BY <1>3 DEF vars, reclamationVars
  <2>2. Places' /\ CopyExtendsPublished'
    <3>1. (\A u : Applied(u)' <=> Applied(u)) /\ CopyExtendsPublished'
      BY <2>1, SameContent DEF StateInv, ContractInv
    <3> QED BY <2>1, <3>1, SamePlaces DEF protocolVars, Protocol!Writing
  <2>3. BatchIsCounted' /\ BatchIsNew'
    BY <2>1, SameBatch, SameNews DEF protocolVars
  <2>4. HeldIsReal'
    BY <2>1 DEF StateInv, ContractInv, HeldIsReal
  <2> QED BY <1>1, <2>2, <2>3, <2>4 DEF FullInv, StateInv, ContractInv, Places
<1> QED BY <1>2, <1>3

LEMMA StateInvariant == Spec => []StateInv
BY ContractInit, ContractStep, PTL DEF Spec

\* With no updater in work there is no private copy, no callback at hand, none
\* queued and none about to be: all are in the published object.
LEMMA PublishedWithoutUpdater ==
  ASSUME StateInv, Protocol!Registered = {}
  PROVE  value[ptr] = Submitted
<1>1. \A t \in Updaters : pc[t] \in {"idle", "write"}
  BY DEF StateInv, ContractInv, RcuInv, Protocol!ProtocolInv, Protocol!TypeOK,
         Protocol!Registered
<1>2. updateQueue = <<>> /\ Protocol!Writing = {}
  BY DEF StateInv, ContractInv, RcuInv, Protocol!ProtocolInv, Protocol!CountIsExact
<1>3. \A t \in Updaters : running[t] = NoUpdate /\ copied[t] = Null
  BY <1>1, WhoHasACopy
  DEF StateInv, ContractInv, RcuInv, Protocol!ProtocolInv, Protocol!LocalsFollowPc
<1>4. \A u \in Updates : ~Running(u) /\ ~Queued(u) /\ ~Written(u)
  <2>1. Len(updateQueue) = 0
    BY <1>2
  <2> QED BY <1>2, <1>3, <2>1, RcuAssumption DEF Running, Queued, In, Written
<1>5. \A u \in Updates : u \in value[ptr] <=> u \in Submitted
  BY <1>3, <1>4, AppliedIsContent DEF StateInv, ContractInv, NothingIsLost
<1>6. value[ptr] \subseteq Updates /\ Submitted \subseteq Updates
  BY DEF StateInv, ContractInv, RcuInv, ContentIsReal, Submitted, Protocol!Submitted,
         Updates
<1> QED BY <1>5, <1>6

-----------------------------------------------------------------------------
(* The theorems *)

\* The inductive invariant holds in every reachable state of the class: an
\* update is in one place from its call to its publication.
THEOREM ContractInvariant == Spec => []ContractInv
BY StateInvariant, PTL DEF StateInv

\* With no updater in work the published object has every update there was.
THEOREM AllIsPublished == Spec => []NoUpdaterMeansAllPublished
<1>1. StateInv => NoUpdaterMeansAllPublished
  BY PublishedWithoutUpdater DEF NoUpdaterMeansAllPublished
<1> QED BY <1>1, StateInvariant, PTL

\* A callback runs once, on a copy that has the earlier calls of its thread and
\* none of the later ones.
THEOREM CallbacksRunOnceInCallOrder == Spec => RunsOnceInCallOrder
<1>1. ASSUME StateInv, NEW t \in Updaters, RunCallback(t)
      PROVE  /\ running[t] \in Submitted
             /\ \A k \in 1..MaxCalls :
                  <<running[t][1], k>> \in value[copied[t]] <=> k < running[t][2]
  <2> DEFINE u == running[t]
  <2>1. pc[t] = "callback" /\ copied[t] # Null
    BY <1>1, WhoHasACopy DEF RunCallback, Protocol!CallbackReturns
  <2>2. u \in Updates /\ Running(u)
    BY <1>1, <2>1
    DEF Running, StateInv, ContractInv, RcuInv, Protocol!ProtocolInv, Protocol!TypeOK,
        Protocol!LocalsFollowPc, Updates
  <2>3. u \in Submitted /\ ~Applied(u)
    BY <1>1, <2>2 DEF StateInv, ContractInv, NothingIsLost, NothingIsDoubled
  <2>4. ASSUME NEW k \in 1..MaxCalls
        PROVE  <<u[1], k>> \in value[copied[t]] <=> k < u[2]
    <3> DEFINE v == <<u[1], k>>
    <3>1. v \in Updates /\ u = <<u[1], u[2]>> /\ u[2] \in Nat /\ k \in Nat
      BY <2>2, RcuAssumption DEF Updates, Protocol!Updates
    <3>2. Applied(v) <=> v \in value[copied[t]]
      BY <1>1, <2>1, AppliedIsContent
    <3>3. CASE k < u[2]
      <4>1. Earlier(v, u)
        BY <3>3 DEF Earlier
      <4> QED
        BY <1>1, <2>2, <3>1, <3>2, <3>3, <4>1 DEF StateInv, ContractInv, CallsAreInOrder
    <3>4. CASE k = u[2]
      BY <2>3, <3>1, <3>2, <3>4
    <3>5. CASE k > u[2]
      <4>1. Earlier(u, v)
        BY <3>5 DEF Earlier
      <4> QED
        BY <1>1, <2>2, <2>3, <3>1, <3>2, <3>5, <4>1
        DEF StateInv, ContractInv, CallsAreInOrder
    <3> QED BY <3>1, <3>3, <3>4, <3>5
  <2> QED BY <2>3, <2>4
<1>2. StateInv /\ [Next]_vars =>
        [\A t \in Updaters : RunCallback(t) =>
           LET u == running[t] IN
           /\ u \in Submitted
           /\ \A k \in 1..MaxCalls : <<u[1], k>> \in value[copied[t]] <=> k < u[2]]_vars
  BY <1>1
<1> QED BY <1>2, StateInvariant, PTL DEF Spec, RunsOnceInCallOrder

\* What is published is new and not more than the threshold allows.
THEOREM BatchesAreBounded == Spec => []BatchIsBounded
<1>1. StateInv => BatchIsBounded
  <2> SUFFICES ASSUME StateInv, NEW t \in Updaters, pc[t] = "publish",
                      NEW size, size = Cardinality(value[copied[t]] \ value[ptr])
               PROVE  /\ size > 0
                      /\ FlushingThreshold > 0 =>
                           size <= FlushingThreshold + IF size = done[t] THEN 1 ELSE 0
    BY DEF BatchIsBounded
  <2>1. copied[t] # Null
    BY WhoHasACopy
  <2>2. /\ value[copied[t]] \subseteq Updates /\ value[ptr] \subseteq value[copied[t]]
        /\ value[copied[t]] # value[ptr]
        /\ size = unflushed[t] \/ (size = unflushed[t] + 1 /\ done[t] = size)
        /\ FlushingThreshold > 0 => unflushed[t] <= FlushingThreshold
        /\ unflushed[t] \in Nat
    BY <2>1
    DEF StateInv, ContractInv, RcuInv, ContentIsReal, CopyExtendsPublished, BatchIsNew,
        BatchIsCounted, Protocol!ProtocolInv, Protocol!TypeOK,
        Protocol!UnflushedIsBounded
  <2>3. size \in Nat /\ size # 0
    <3>1. IsFiniteSet(value[copied[t]] \ value[ptr])
      BY <2>2, UpdatesAreFinite, FS_Subset
    <3>2. value[copied[t]] \ value[ptr] # {}
      BY <2>2
    <3> QED BY <3>1, <3>2, FS_CardinalityType, FS_EmptySet
  <2> QED BY <2>2, <2>3, RcuAssumption
<1> QED BY <1>1, StateInvariant, PTL

-----------------------------------------------------------------------------
(* The refinement of RcuContract *)

\* What each reader sees, as RcuContract has it.
viewOf == [r \in Readers |-> IF rpc[r] = "reading" THEN value[held[r]] ELSE Null]

\* Every step but LoadPtr and Unlock leaves what readers see alone.
LEMMA SameView ==
  ASSUME StateInv, Next,
         \A r \in Readers : rpc'[r] = "reading" <=> rpc[r] = "reading"
  PROVE  UNCHANGED viewOf
<1>1. \A r \in Readers : rpc[r] = "reading" => value'[held'[r]] = value[held[r]]
  BY HeldStays
<1> QED BY <1>1 DEF viewOf

LEMMA ReaderContract ==
  ASSUME StateInv, NEW r \in Readers, ReaderStep(r)
  PROVE  Contract!TakePointer(r) \/ Contract!DropPointer(r) \/ UNCHANGED Contract!vars
<1> USE DEF Contract!TakePointer, Contract!DropPointer, Contract!vars
<1>1. /\ UNCHANGED <<ptr, value>> /\ UNCHANGED Submitted
      /\ \A s \in Readers : s # r => rpc'[s] = rpc[s] /\ held'[s] = held[s]
  BY DEF ReaderStep, LoadEpoch, StoreMark, LoadPtr, Unlock, Reclamation!LoadEpoch,
         Reclamation!StoreMark, Reclamation!LoadPtr, Reclamation!Unlock,
         Reclamation!objectVars, protocolVars, Submitted, Protocol!Submitted, StateInv,
         Core!IInv, Core!TypeOK
<1>2. /\ rpc \in [Readers -> {"out", "locking", "locked", "reading"}]
      /\ held \in [Readers -> Objects \cup {Null}]
  BY DEF StateInv, Core!IInv, Core!TypeOK
<1>3. CASE LoadEpoch(r) \/ StoreMark(r)
  <2>1. rpc[r] # "reading" /\ rpc'[r] # "reading"
    BY <1>2, <1>3 DEF LoadEpoch, StoreMark, Reclamation!LoadEpoch, Reclamation!StoreMark
  <2> QED BY <1>1, <2>1
<1>4. CASE LoadPtr(r)
  <2>1. rpc[r] # "reading" /\ rpc'[r] = "reading" /\ held'[r] = ptr
    BY <1>2, <1>4 DEF LoadPtr, Reclamation!LoadPtr
  <2> QED BY <1>1, <2>1
<1>5. CASE Unlock(r)
  <2>1. rpc[r] = "reading" /\ rpc'[r] # "reading"
    BY <1>2, <1>5 DEF Unlock, Reclamation!Unlock
  <2>2. value[held[r]] # Null
    BY <2>1, RcuAssumption DEF StateInv, ContractInv, HeldIsReal
  <2> QED BY <1>1, <2>1, <2>2
<1> QED BY <1>3, <1>4, <1>5 DEF ReaderStep

LEMMA CallContract ==
  ASSUME StateInv, NEW t \in Updaters, TryRegister(t)
  PROVE  \E u \in Contract!Updates : Contract!Submit(u)
<1> DEFINE u0 == <<t, calls[t] + 1>>
<1>1. /\ calls[t] < MaxCalls /\ calls' = [calls EXCEPT ![t] = @ + 1]
      /\ UNCHANGED <<ptr, value, rpc, held>>
  BY DEF TryRegister, Protocol!TryRegister, Protocol!Call, reclamationVars
<1>2. /\ u0 \in Updates /\ u0 \notin Submitted
      /\ \A u \in Updates : u \in Submitted' <=> u \in Submitted \/ u = u0
  BY <1>1, SubmittedGrows
<1>3. Submitted \subseteq Updates /\ Submitted' \subseteq Updates
  BY DEF Submitted, Protocol!Submitted, Updates
<1>4. Submitted' = Submitted \cup {u0}
  BY <1>2, <1>3
<1>5. Contract!InCallOrder(Submitted')
  <2> SUFFICES ASSUME NEW u \in Submitted', NEW k \in 1..(u[2] - 1)
               PROVE  <<u[1], k>> \in Submitted'
    BY DEF Contract!InCallOrder
  <2>1. calls' \in [Updaters -> Int] /\ MaxCalls \in Nat
    BY <1>1, RcuAssumption
    DEF StateInv, ContractInv, RcuInv, Protocol!ProtocolInv, Protocol!TypeOK
  <2>2. u[1] \in Updaters /\ u[2] \in 1..MaxCalls /\ u[2] <= calls'[u[1]]
    BY DEF Submitted, Protocol!Submitted, Protocol!Updates
  <2>3. k \in 1..MaxCalls /\ k <= calls'[u[1]]
    BY <2>1, <2>2
  <2> QED BY <2>2, <2>3 DEF Submitted, Protocol!Submitted, Protocol!Updates
<1> QED
  BY <1>1, <1>2, <1>4, <1>5 DEF Contract!Submit, Contract!Updates, Updates, Protocol!Updates

LEMMA PublishContract ==
  ASSUME StateInv, NEW t \in Updaters, Publish(t)
  PROVE  \E batch \in SUBSET (Submitted \ value[ptr]) : Contract!PublishBatch(batch)
<1> DEFINE batch == value[copied[t]] \ value[ptr]
<1>1. /\ pc[t] = "publish" /\ UNCHANGED <<value, rpc, held, calls>>
  BY DEF Publish, Protocol!Publish, Reclamation!Publish, Reclamation!readerVars
<1>2. ptr' = copied[t] /\ Places' /\ \A w \in Updaters : copied'[w] = Null
  BY PublishPlaces
<1>3. /\ copied[t] # Null /\ value[copied[t]] \in SUBSET Updates
      /\ value[ptr] \subseteq value[copied[t]] /\ value[copied[t]] # value[ptr]
  BY <1>1, WhoHasACopy
  DEF StateInv, ContractInv, RcuInv, ContentIsReal, CopyExtendsPublished, BatchIsNew
<1>4. batch # {} /\ value'[ptr'] = value[ptr] \cup batch
  BY <1>1, <1>2, <1>3
<1>5. batch \in SUBSET (Submitted \ value[ptr])
  <2>1. \A u \in Updates : u \in value[copied[t]] => u \in Submitted
    BY <1>3, AppliedIsContent DEF StateInv, ContractInv, NothingIsLost
  <2> QED BY <1>3, <2>1
<1>6. Contract!InCallOrder(value'[ptr'])
  <2> SUFFICES ASSUME NEW u \in value[copied[t]], NEW k \in 1..(u[2] - 1)
               PROVE  <<u[1], k>> \in value[copied[t]]
    BY <1>1, <1>2 DEF Contract!InCallOrder
  <2> DEFINE v == <<u[1], k>>
  <2>1. u \in Updates /\ u[1] \in Updaters /\ u[2] \in 1..MaxCalls
    BY <1>3 DEF Updates, Protocol!Updates
  <2>2. v \in Updates /\ Earlier(v, u)
    BY <2>1, RcuAssumption DEF Updates, Protocol!Updates, Earlier
  <2>3. Applied(u) /\ (Applied(v) <=> v \in value[copied[t]])
    BY <1>3, AppliedIsContent
  <2> QED BY <2>1, <2>2, <2>3 DEF StateInv, ContractInv, CallsAreInOrder
<1>7. UNCHANGED Submitted
  BY <1>1 DEF Submitted, Protocol!Submitted
<1> QED BY <1>1, <1>4, <1>5, <1>6, <1>7 DEF Contract!PublishBatch

\* The other steps of a thread inside update publish nothing and submit nothing.
LEMMA InnerContract ==
  ASSUME StateInv, Next, NEW t \in Updaters,
         LocalStep(t) \/ GetCopy(t) \/ RunCallback(t) \/ RetireStep(t) \/ CheckStep(t)
  PROVE  UNCHANGED Contract!vars
<1>1. UNCHANGED <<ptr, rpc>> /\ value'[ptr] = value[ptr]
  <2>1. CASE LocalStep(t) \/ CheckStep(t)
    BY <2>1 DEF LocalStep, CheckStep, reclamationVars
  <2>2. CASE GetCopy(t)
    BY <2>2, CopyPlaces DEF GetCopy, Reclamation!GetCopy, Reclamation!readerVars
  <2>3. CASE RunCallback(t)
    <3>1. /\ UNCHANGED <<ptr, rpc>> /\ pc[t] = "callback"
          /\ value' = [value EXCEPT ![copied[t]] = value[copied[t]] \cup {running[t]}]
      BY <2>3 DEF RunCallback, Protocol!CallbackReturns, Reclamation!Apply,
                  Reclamation!readerVars
    <3>2. copied[t] # ptr /\ ptr \in Objects
      BY <3>1, WhoHasACopy
    <3>3. value \in [Objects -> (SUBSET Updates) \cup {Garbage}]
      BY DEF StateInv, Core!IInv, Core!TypeOK
    <3> QED BY <3>1, <3>2, <3>3
  <2>4. CASE RetireStep(t)
    <3>1. UNCHANGED rpc
      BY <2>4
      DEF RetireStep, Reclamation!RetireStep, Reclamation!Retire,
          Reclamation!SkipReader, Reclamation!FindReader, Reclamation!Reclaim,
          Reclamation!AdvanceEpoch, Reclamation!readerVars
    <3> QED BY <2>4, <3>1, RetireContent
  <2> QED BY <2>1, <2>2, <2>3, <2>4
<1>2. UNCHANGED calls
  BY DEF LocalStep, Protocol!LocalStep, Protocol!Write, Protocol!Enqueue,
         Protocol!Enter, Protocol!ExpectAndDrain, Protocol!Read, Protocol!Reload,
         GetCopy, Protocol!HaveCopy, RunCallback, Protocol!CallbackReturns,
         RetireStep, protocolVars, CheckStep, Protocol!CheckStep, Protocol!Resign,
         Protocol!Leave, Protocol!NextBatch, Protocol!Again
<1>3. UNCHANGED viewOf
  BY <1>1, SameView
<1> QED BY <1>1, <1>2, <1>3 DEF Contract!vars, viewOf, Submitted, Protocol!Submitted

\* The class implements its contract: every step submits one update, publishes
\* a batch, takes or drops one pointer, or is invisible.
THEOREM ClassImplementsContract == Spec => ImplementsContract
<1>1. Init => Contract!Init
  <2> SUFFICES ASSUME Init PROVE Contract!Init
    OBVIOUS
  <2>1. /\ value[ptr] = {} /\ \A t \in Updaters : calls[t] = 0
        /\ \A r \in Readers : rpc[r] = "out"
    BY DEF Init, Reclamation!Init, Protocol!Init
  <2>2. Submitted = {}
    BY <2>1 DEF Submitted, Protocol!Submitted, Protocol!Updates
  <2> QED BY <2>1, <2>2 DEF Contract!Init
<1>2. StateInv /\ [Next]_vars => [Contract!Next]_(Contract!vars)
  <2> SUFFICES ASSUME StateInv, [Next]_vars PROVE [Contract!Next]_(Contract!vars)
    OBVIOUS
  <2>1. ASSUME NEW r \in Readers, ReaderStep(r)
        PROVE  [Contract!Next]_(Contract!vars)
    BY <2>1, ReaderContract DEF Contract!Next
  <2>2. ASSUME NEW t \in Updaters, TryRegister(t)
        PROVE  [Contract!Next]_(Contract!vars)
    BY <2>2, CallContract DEF Contract!Next
  <2>3. ASSUME NEW t \in Updaters, Publish(t)
        PROVE  [Contract!Next]_(Contract!vars)
    BY <2>3, PublishContract DEF Contract!Next
  <2>4. CASE Next
    <3>1. ASSUME NEW t \in Updaters,
                 LocalStep(t) \/ GetCopy(t) \/ RunCallback(t) \/ RetireStep(t)
                   \/ CheckStep(t)
          PROVE  [Contract!Next]_(Contract!vars)
      BY <2>4, <3>1, InnerContract
    <3> QED BY <2>1, <2>2, <2>3, <2>4, <3>1, NextCases
  <2>5. CASE UNCHANGED vars
    BY <2>5 DEF vars, reclamationVars, protocolVars, Contract!vars, Submitted,
                Protocol!Submitted
  <2> QED BY <2>4, <2>5
<1> QED
  BY <1>1, <1>2, StateInvariant, PTL DEF Spec, ImplementsContract, Contract!Spec

=============================================================================
