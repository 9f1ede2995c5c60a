----------------------- MODULE EpochReclamationProofs -----------------------
(***************************************************************************)
(* Proofs about EpochReclamation, for any numbers of readers, updaters and *)
(* objects and any cleanup threshold.                                      *)
(***************************************************************************)
EXTENDS EpochInvariant, TLAPS

\* A step is a step of one of the twelve actions.
LEMMA NextCases ==
  ASSUME Next, NEW P,
    ASSUME NEW r \in Readers, LoadEpoch(r) PROVE P,
    ASSUME NEW r \in Readers, StoreMark(r) PROVE P,
    ASSUME NEW r \in Readers, LoadPtr(r) PROVE P,
    ASSUME NEW r \in Readers, Unlock(r) PROVE P,
    ASSUME NEW t \in Updaters, NoUpdater, NEW o \in Objects, GetCopy(t, o) PROVE P,
    ASSUME NEW t \in Updaters, NEW v \in Values, Apply(t, v) PROVE P,
    ASSUME NEW t \in Updaters, Publish(t) PROVE P,
    ASSUME NEW t \in Updaters, Retire(t) PROVE P,
    ASSUME NEW t \in Updaters, NEW r \in Readers, SkipReader(t, r) PROVE P,
    ASSUME NEW t \in Updaters, NEW r \in Readers, FindReader(t, r) PROVE P,
    ASSUME NEW t \in Updaters, Reclaim(t) PROVE P,
    ASSUME NEW t \in Updaters, AdvanceEpoch(t) PROVE P
  PROVE P
BY DEF Next, ReaderStep, UpdaterStep, RetireStep

-----------------------------------------------------------------------------
(* Each part of the inductive invariant is kept by every step, from the    *)
(* parts named in the lemma.                                               *)

LEMMA TypeStep ==
  ASSUME TypeOK, PhasesAreTrue, Next
  PROVE  TypeOK'
<1> USE DEF TypeOK, Phases, Epochs, prev, Counters!TypeOK, Counters!Bytes,
            Counters!Epochs, Counters!NoCall, Counters!EpochReading,
            objectVars, counterVars, readerVars, updaterVars, At
<1>1. ASSUME NEW r \in Readers, LoadEpoch(r) PROVE TypeOK'
  BY <1>1 DEF LoadEpoch
<1>2. ASSUME NEW r \in Readers, StoreMark(r) PROVE TypeOK'
  BY <1>2 DEF StoreMark, Counters!Increment
<1>3. ASSUME NEW r \in Readers, LoadPtr(r) PROVE TypeOK'
  BY <1>3 DEF LoadPtr
<1>4. ASSUME NEW r \in Readers, Unlock(r) PROVE TypeOK'
  BY <1>4 DEF Unlock, Counters!Decrement
<1>5. ASSUME NEW t \in Updaters, NoUpdater, NEW o \in Objects, GetCopy(t, o)
      PROVE  TypeOK'
  BY <1>5 DEF GetCopy
<1>6. ASSUME NEW t \in Updaters, NEW v \in Values, Apply(t, v) PROVE TypeOK'
  BY <1>6 DEF Apply
<1>7. ASSUME NEW t \in Updaters, Publish(t) PROVE TypeOK'
  BY <1>7 DEF Publish, PhasesAreTrue
<1>8. ASSUME NEW t \in Updaters, Retire(t) PROVE TypeOK'
  BY <1>8 DEF Retire, Counters!ScanBegin, PhasesAreTrue
<1>9. ASSUME NEW t \in Updaters, NEW r \in Readers, SkipReader(t, r) PROVE TypeOK'
  BY <1>9 DEF SkipReader, Counters!ScanMiss
<1>10. ASSUME NEW t \in Updaters, NEW r \in Readers, FindReader(t, r) PROVE TypeOK'
  BY <1>10 DEF FindReader, Counters!ScanHit
<1>11. ASSUME NEW t \in Updaters, Reclaim(t) PROVE TypeOK'
  BY <1>11 DEF Reclaim, Counters!ScanClear
<1>12. ASSUME NEW t \in Updaters, AdvanceEpoch(t) PROVE TypeOK'
  BY <1>12 DEF AdvanceEpoch
<1> QED
  BY <1>1, <1>2, <1>3, <1>4, <1>5, <1>6, <1>7,
     <1>8, <1>9, <1>10, <1>11, <1>12, NextCases

LEMMA OneUpdaterStep ==
  ASSUME TypeOK, OneUpdater, Next
  PROVE  OneUpdater'
<1> USE DEF TypeOK, OneUpdater, objectVars, counterVars, readerVars, updaterVars, At
<1>1. ASSUME NEW r \in Readers, LoadEpoch(r) PROVE OneUpdater'
  BY <1>1 DEF LoadEpoch
<1>2. ASSUME NEW r \in Readers, StoreMark(r) PROVE OneUpdater'
  BY <1>2 DEF StoreMark, Counters!Increment
<1>3. ASSUME NEW r \in Readers, LoadPtr(r) PROVE OneUpdater'
  BY <1>3 DEF LoadPtr
<1>4. ASSUME NEW r \in Readers, Unlock(r) PROVE OneUpdater'
  BY <1>4 DEF Unlock, Counters!Decrement
<1>5. ASSUME NEW t \in Updaters, NoUpdater, NEW o \in Objects, GetCopy(t, o)
      PROVE  OneUpdater'
  BY <1>5 DEF GetCopy, NoUpdater
<1>6. ASSUME NEW t \in Updaters, NEW v \in Values, Apply(t, v) PROVE OneUpdater'
  BY <1>6 DEF Apply
<1>7. ASSUME NEW t \in Updaters, Publish(t) PROVE OneUpdater'
  BY <1>7 DEF Publish
<1>8. ASSUME NEW t \in Updaters, Retire(t) PROVE OneUpdater'
  BY <1>8 DEF Retire, Counters!ScanBegin
<1>9. ASSUME NEW t \in Updaters, NEW r \in Readers, SkipReader(t, r)
      PROVE  OneUpdater'
  BY <1>9 DEF SkipReader, Counters!ScanMiss
<1>10. ASSUME NEW t \in Updaters, NEW r \in Readers, FindReader(t, r)
      PROVE  OneUpdater'
  BY <1>10 DEF FindReader, Counters!ScanHit
<1>11. ASSUME NEW t \in Updaters, Reclaim(t) PROVE OneUpdater'
  BY <1>11 DEF Reclaim, Counters!ScanClear
<1>12. ASSUME NEW t \in Updaters, AdvanceEpoch(t) PROVE OneUpdater'
  BY <1>12 DEF AdvanceEpoch
<1> QED
  BY <1>1, <1>2, <1>3, <1>4, <1>5, <1>6, <1>7,
     <1>8, <1>9, <1>10, <1>11, <1>12, NextCases

LEMMA PhasesStep ==
  ASSUME TypeOK, OneUpdater, PhasesAreTrue, Next
  PROVE  PhasesAreTrue'
<1> USE ReclamationAssumption
    DEF TypeOK, OneUpdater, PhasesAreTrue, Epochs, prev, Counters!TypeOK,
        Counters!Epochs, Counters!NoCall,
        objectVars, counterVars, readerVars, updaterVars, At
<1>1. ASSUME NEW r \in Readers, LoadEpoch(r) PROVE PhasesAreTrue'
  BY <1>1 DEF LoadEpoch
<1>2. ASSUME NEW r \in Readers, StoreMark(r) PROVE PhasesAreTrue'
  BY <1>2 DEF StoreMark, Counters!Increment
<1>3. ASSUME NEW r \in Readers, LoadPtr(r) PROVE PhasesAreTrue'
  BY <1>3 DEF LoadPtr
<1>4. ASSUME NEW r \in Readers, Unlock(r) PROVE PhasesAreTrue'
  BY <1>4 DEF Unlock, Counters!Decrement
<1>5. ASSUME NEW t \in Updaters, NoUpdater, NEW o \in Objects, GetCopy(t, o)
      PROVE  PhasesAreTrue'
  BY <1>5 DEF GetCopy
<1>6. ASSUME NEW t \in Updaters, NEW v \in Values, Apply(t, v) PROVE PhasesAreTrue'
  BY <1>6 DEF Apply
<1>7. ASSUME NEW t \in Updaters, Publish(t) PROVE PhasesAreTrue'
  BY <1>7 DEF Publish
<1>8. ASSUME NEW t \in Updaters, Retire(t) PROVE PhasesAreTrue'
  BY <1>8 DEF Retire, Counters!ScanBegin
<1>9. ASSUME NEW t \in Updaters, NEW r \in Readers, SkipReader(t, r)
      PROVE  PhasesAreTrue'
  BY <1>9 DEF SkipReader, Counters!ScanMiss
<1>10. ASSUME NEW t \in Updaters, NEW r \in Readers, FindReader(t, r)
      PROVE  PhasesAreTrue'
  BY <1>10 DEF FindReader, Counters!ScanHit
<1>11. ASSUME NEW t \in Updaters, Reclaim(t) PROVE PhasesAreTrue'
  BY <1>11 DEF Reclaim, Counters!ScanClear
<1>12. ASSUME NEW t \in Updaters, AdvanceEpoch(t) PROVE PhasesAreTrue'
  BY <1>12 DEF AdvanceEpoch
<1> QED
  BY <1>1, <1>2, <1>3, <1>4, <1>5, <1>6, <1>7,
     <1>8, <1>9, <1>10, <1>11, <1>12, NextCases

LEMMA MarksStep ==
  ASSUME TypeOK, MarksAreTrue, Next
  PROVE  MarksAreTrue'
<1> USE DEF TypeOK, MarksAreTrue, Marked, Counters!TypeOK, Counters!EpochReading,
            objectVars, counterVars, readerVars, updaterVars, At
<1>1. ASSUME NEW r \in Readers, LoadEpoch(r) PROVE MarksAreTrue'
  BY <1>1 DEF LoadEpoch
<1>2. ASSUME NEW r \in Readers, StoreMark(r) PROVE MarksAreTrue'
  BY <1>2 DEF StoreMark, Counters!Increment
<1>3. ASSUME NEW r \in Readers, LoadPtr(r) PROVE MarksAreTrue'
  BY <1>3 DEF LoadPtr
<1>4. ASSUME NEW r \in Readers, Unlock(r) PROVE MarksAreTrue'
  BY <1>4 DEF Unlock, Counters!Decrement
<1>5. ASSUME NEW t \in Updaters, NoUpdater, NEW o \in Objects, GetCopy(t, o)
      PROVE  MarksAreTrue'
  BY <1>5 DEF GetCopy
<1>6. ASSUME NEW t \in Updaters, NEW v \in Values, Apply(t, v) PROVE MarksAreTrue'
  BY <1>6 DEF Apply
<1>7. ASSUME NEW t \in Updaters, Publish(t) PROVE MarksAreTrue'
  BY <1>7 DEF Publish
<1>8. ASSUME NEW t \in Updaters, Retire(t) PROVE MarksAreTrue'
  BY <1>8 DEF Retire, Counters!ScanBegin
<1>9. ASSUME NEW t \in Updaters, NEW r \in Readers, SkipReader(t, r)
      PROVE  MarksAreTrue'
  BY <1>9 DEF SkipReader, Counters!ScanMiss
<1>10. ASSUME NEW t \in Updaters, NEW r \in Readers, FindReader(t, r)
      PROVE  MarksAreTrue'
  BY <1>10 DEF FindReader, Counters!ScanHit
<1>11. ASSUME NEW t \in Updaters, Reclaim(t) PROVE MarksAreTrue'
  BY <1>11 DEF Reclaim, Counters!ScanClear
<1>12. ASSUME NEW t \in Updaters, AdvanceEpoch(t) PROVE MarksAreTrue'
  BY <1>12 DEF AdvanceEpoch
<1> QED
  BY <1>1, <1>2, <1>3, <1>4, <1>5, <1>6, <1>7,
     <1>8, <1>9, <1>10, <1>11, <1>12, NextCases

LEMMA OwnershipStep ==
  ASSUME TypeOK, OneUpdater, PhasesAreTrue, EveryObjectHasOneOwner, Next
  PROVE  EveryObjectHasOneOwner'
<1> USE ReclamationAssumption
    DEF TypeOK, OneUpdater, PhasesAreTrue, EveryObjectHasOneOwner, Copies, Outgoing,
        Epochs, prev, objectVars, counterVars, readerVars, updaterVars, At
<1>1. ASSUME NEW r \in Readers, LoadEpoch(r) PROVE EveryObjectHasOneOwner'
  BY <1>1 DEF LoadEpoch
<1>2. ASSUME NEW r \in Readers, StoreMark(r) PROVE EveryObjectHasOneOwner'
  BY <1>2 DEF StoreMark, Counters!Increment
<1>3. ASSUME NEW r \in Readers, LoadPtr(r) PROVE EveryObjectHasOneOwner'
  BY <1>3 DEF LoadPtr
<1>4. ASSUME NEW r \in Readers, Unlock(r) PROVE EveryObjectHasOneOwner'
  BY <1>4 DEF Unlock, Counters!Decrement
<1>5. ASSUME NEW t \in Updaters, NoUpdater, NEW o \in Objects, GetCopy(t, o)
      PROVE  EveryObjectHasOneOwner'
  BY <1>5 DEF GetCopy, NoUpdater
<1>6. ASSUME NEW t \in Updaters, NEW v \in Values, Apply(t, v)
      PROVE  EveryObjectHasOneOwner'
  BY <1>6 DEF Apply
<1>7. ASSUME NEW t \in Updaters, Publish(t) PROVE EveryObjectHasOneOwner'
  BY <1>7 DEF Publish
<1>8. ASSUME NEW t \in Updaters, Retire(t) PROVE EveryObjectHasOneOwner'
  BY <1>8 DEF Retire, Counters!ScanBegin
<1>9. ASSUME NEW t \in Updaters, NEW r \in Readers, SkipReader(t, r)
      PROVE  EveryObjectHasOneOwner'
  BY <1>9 DEF SkipReader, Counters!ScanMiss
<1>10. ASSUME NEW t \in Updaters, NEW r \in Readers, FindReader(t, r)
      PROVE  EveryObjectHasOneOwner'
  BY <1>10 DEF FindReader, Counters!ScanHit
<1>11. ASSUME NEW t \in Updaters, Reclaim(t) PROVE EveryObjectHasOneOwner'
  BY <1>11 DEF Reclaim, Counters!ScanClear
<1>12. ASSUME NEW t \in Updaters, AdvanceEpoch(t) PROVE EveryObjectHasOneOwner'
  BY <1>12 DEF AdvanceEpoch
<1> QED
  BY <1>1, <1>2, <1>3, <1>4, <1>5, <1>6, <1>7,
     <1>8, <1>9, <1>10, <1>11, <1>12, NextCases

\* The heart of the argument. The steps that could break it are the scan
\* passing by a reader, and Reclaim and AdvanceEpoch acting on a complete scan.
LEMMA HeldStep ==
  ASSUME IInv, Next
  PROVE  HeldIsSafe'
<1> USE ReclamationAssumption
    DEF IInv, TypeOK, OneUpdater, PhasesAreTrue, MarksAreTrue, HeldIsSafe, Marked,
        PassedBy, EveryObjectHasOneOwner, Copies, Outgoing, Epochs, prev,
        Counters!TypeOK, Counters!Epochs, Counters!NoCall, Counters!EpochReading,
        objectVars, counterVars, readerVars, updaterVars, At
<1>1. ASSUME NEW r \in Readers, LoadEpoch(r) PROVE HeldIsSafe'
  BY <1>1 DEF LoadEpoch
<1>2. ASSUME NEW r \in Readers, StoreMark(r) PROVE HeldIsSafe'
  BY <1>2 DEF StoreMark, Counters!Increment
<1>3. ASSUME NEW r \in Readers, LoadPtr(r) PROVE HeldIsSafe'
  BY <1>3 DEF LoadPtr
<1>4. ASSUME NEW r \in Readers, Unlock(r) PROVE HeldIsSafe'
  BY <1>4 DEF Unlock, Counters!Decrement
<1>5. ASSUME NEW t \in Updaters, NoUpdater, NEW o \in Objects, GetCopy(t, o)
      PROVE  HeldIsSafe'
  BY <1>5 DEF GetCopy, NoUpdater
<1>6. ASSUME NEW t \in Updaters, NEW v \in Values, Apply(t, v) PROVE HeldIsSafe'
  BY <1>6 DEF Apply
<1>7. ASSUME NEW t \in Updaters, Publish(t) PROVE HeldIsSafe'
  BY <1>7 DEF Publish
<1>8. ASSUME NEW t \in Updaters, Retire(t) PROVE HeldIsSafe'
  BY <1>8 DEF Retire, Counters!ScanBegin
<1>9. ASSUME NEW t \in Updaters, NEW r \in Readers, SkipReader(t, r)
      PROVE  HeldIsSafe'
  \* Its byte differs, so r is outside or in the current epoch.
  <2>1. rpc[r] = "reading" => loaded[r] = epoch
    BY <1>9 DEF SkipReader, Counters!ScanMiss
  <2>2. \A q \in Readers \ {r} : PassedBy(t, q)' => PassedBy(t, q)
    BY <1>9 DEF SkipReader, Counters!ScanMiss
  <2> QED
    BY <1>9, <2>1, <2>2 DEF SkipReader, Counters!ScanMiss
<1>10. ASSUME NEW t \in Updaters, NEW r \in Readers, FindReader(t, r)
      PROVE  HeldIsSafe'
  BY <1>10 DEF FindReader, Counters!ScanHit
<1>11. ASSUME NEW t \in Updaters, Reclaim(t) PROVE HeldIsSafe'
  \* The scan has passed by every reader of the previous epoch, so none of
  \* them holds a retired object; those of the current epoch hold none of the
  \* previous list.
  <2>1. \A r \in Readers : rpc[r] = "reading" /\ loaded[r] = prev => held[r] = ptr
    BY <1>11 DEF Reclaim, Counters!ScanClear
  <2>2. \A r \in Readers : rpc[r] = "reading" => held[r] \notin retireLists[prev]
    BY <2>1
  <2> QED
    BY <1>11, <2>1, <2>2 DEF Reclaim, Counters!ScanClear
<1>12. ASSUME NEW t \in Updaters, AdvanceEpoch(t) PROVE HeldIsSafe'
  \* The current list becomes the previous one: readers of the previous epoch
  \* must not be holding any of it.
  <2>1. \A r \in Readers : rpc[r] = "reading" /\ loaded[r] = prev => held[r] = ptr
    BY <1>12 DEF AdvanceEpoch
  <2>2. \A r \in Readers : rpc[r] = "reading" =>
          held[r] \notin retireLists[1 - loaded[r]]
    BY <2>1
  <2> QED
    BY <1>12, <2>2 DEF AdvanceEpoch
<1> QED
  BY <1>1, <1>2, <1>3, <1>4, <1>5, <1>6, <1>7,
     <1>8, <1>9, <1>10, <1>11, <1>12, NextCases

-----------------------------------------------------------------------------
(* The theorems *)

LEMMA InvariantInit == Init => IInv
<1> SUFFICES ASSUME Init PROVE IInv
  OBVIOUS
<1> USE ReclamationAssumption DEF Init, Counters!Init
<1>1. TypeOK
  BY DEF TypeOK, Phases, Epochs, Counters!TypeOK, Counters!Bytes,
         Counters!Epochs, Counters!NoCall, Counters!EpochReading
<1>2. EveryObjectHasOneOwner
  BY DEF EveryObjectHasOneOwner, Copies, Outgoing, Epochs
<1>3. MarksAreTrue /\ OneUpdater /\ PhasesAreTrue /\ HeldIsSafe
  BY DEF MarksAreTrue, Marked, OneUpdater, PhasesAreTrue, HeldIsSafe
<1> QED BY <1>1, <1>2, <1>3 DEF IInv

LEMMA InvariantStep == IInv /\ [Next]_vars => IInv'
<1> SUFFICES ASSUME IInv, [Next]_vars PROVE IInv'
  OBVIOUS
<1>1. CASE Next
  <2> USE DEF IInv
  <2>1. TypeOK' BY <1>1, TypeStep
  <2>2. OneUpdater' BY <1>1, OneUpdaterStep
  <2>3. PhasesAreTrue' BY <1>1, PhasesStep
  <2>4. MarksAreTrue' BY <1>1, MarksStep
  <2>5. EveryObjectHasOneOwner' BY <1>1, OwnershipStep
  <2>6. HeldIsSafe' BY <1>1, HeldStep
  <2> QED BY <2>1, <2>2, <2>3, <2>4, <2>5, <2>6
<1>2. CASE UNCHANGED vars
  BY <1>2
  DEF IInv, TypeOK, EveryObjectHasOneOwner, MarksAreTrue, OneUpdater, PhasesAreTrue,
      HeldIsSafe, Marked, PassedBy, Copies, Outgoing, prev, Counters!TypeOK,
      vars, objectVars, counterVars, readerVars, updaterVars
<1> QED BY <1>1, <1>2

\* Every reachable state satisfies the inductive invariant.
THEOREM InductiveInvariant == Spec => []IInv
BY InvariantInit, InvariantStep, PTL DEF Spec

\* The variables always have their types.
THEOREM TypeCorrect == Spec => []TypeOK
BY InductiveInvariant, PTL DEF IInv

\* No object is ever lost or in two places, so each is deleted once.
THEOREM ObjectsHaveOneOwner == Spec => []EveryObjectHasOneOwner
BY InductiveInvariant, PTL DEF IInv

\* What the invariant says of one state.
LEMMA HeldIsProtected == IInv => ReaderProtection
BY DEF IInv, HeldIsSafe, EveryObjectHasOneOwner, ReaderProtection

LEMMA HeldIsAnObject ==
  IInv => \A r \in Readers : rpc[r] = "reading" => held[r] \in Objects
BY DEF IInv, TypeOK, HeldIsSafe, Outgoing, Epochs

\* A reader's object is never deleted, pooled or written to as a copy.
THEOREM ReadersAreProtected == Spec => []ReaderProtection
BY InductiveInvariant, HeldIsProtected, PTL

LEMMA ImmutableStep ==
  ASSUME TypeOK, PhasesAreTrue, ReaderProtection, Next,
         \A r \in Readers : rpc[r] = "reading" => held[r] \in Objects
  PROVE  \A r \in Readers : rpc[r] = "reading" /\ rpc'[r] = "reading"
           => held'[r] = held[r] /\ value'[held[r]] = value[held[r]]
<1> DEFINE Immutable ==
      \A r \in Readers : rpc[r] = "reading" /\ rpc'[r] = "reading"
        => held'[r] = held[r] /\ value'[held[r]] = value[held[r]]
<1> USE DEF TypeOK, PhasesAreTrue, ReaderProtection, Copies,
        objectVars, counterVars, readerVars, updaterVars, At
<1>1. ASSUME NEW r \in Readers, LoadEpoch(r) PROVE Immutable
  BY <1>1 DEF LoadEpoch
<1>2. ASSUME NEW r \in Readers, StoreMark(r) PROVE Immutable
  BY <1>2 DEF StoreMark
<1>3. ASSUME NEW r \in Readers, LoadPtr(r) PROVE Immutable
  BY <1>3 DEF LoadPtr
<1>4. ASSUME NEW r \in Readers, Unlock(r) PROVE Immutable
  BY <1>4 DEF Unlock
<1>5. ASSUME NEW t \in Updaters, NoUpdater, NEW o \in Objects, GetCopy(t, o)
      PROVE  Immutable
  \* o is from the heap or the pool.
  BY <1>5 DEF GetCopy
<1>6. ASSUME NEW t \in Updaters, NEW v \in Values, Apply(t, v) PROVE Immutable
  \* copied[t] is a private copy.
  BY <1>6 DEF Apply
<1>7. ASSUME NEW t \in Updaters, Publish(t) PROVE Immutable
  BY <1>7 DEF Publish
<1>8. ASSUME NEW t \in Updaters, Retire(t) PROVE Immutable
  BY <1>8 DEF Retire
<1>9. ASSUME NEW t \in Updaters, NEW r \in Readers, SkipReader(t, r)
      PROVE  Immutable
  BY <1>9 DEF SkipReader
<1>10. ASSUME NEW t \in Updaters, NEW r \in Readers, FindReader(t, r)
       PROVE  Immutable
  BY <1>10 DEF FindReader
<1>11. ASSUME NEW t \in Updaters, Reclaim(t) PROVE Immutable
  \* What is deleted was in the pool.
  BY <1>11 DEF Reclaim
<1>12. ASSUME NEW t \in Updaters, AdvanceEpoch(t) PROVE Immutable
  BY <1>12 DEF AdvanceEpoch
<1> QED
  BY <1>1, <1>2, <1>3, <1>4, <1>5, <1>6, <1>7,
     <1>8, <1>9, <1>10, <1>11, <1>12, NextCases

\* A reader's object never changes as long as the reader holds it.
THEOREM HeldObjectsAreImmutable == Spec => HeldObjectIsImmutable
<1>1. IInv /\ Next =>
        \A r \in Readers : rpc[r] = "reading" /\ rpc'[r] = "reading"
          => held'[r] = held[r] /\ value'[held[r]] = value[held[r]]
  BY ImmutableStep, HeldIsProtected, HeldIsAnObject DEF IInv
<1> QED BY <1>1, InductiveInvariant, PTL DEF Spec, HeldObjectIsImmutable

\* Every step is a step of EpochAdvance or changes nothing it speaks of: the
\* progress that module shows is progress of this one.
THEOREM ReclamationImplementsAdvance == Spec => ImplementsAdvance
<1>1. Init => Advance!Init
  BY DEF Init, Counters!Init, Counters!NoCall,
         Advance!Init, Advance!Counters!Init, Advance!Counters!NoCall
<1>2. IInv /\ [Next]_vars => [Advance!Next]_(Advance!vars)
  <2> SUFFICES ASSUME IInv, Next PROVE [Advance!Next]_(Advance!vars)
    BY DEF vars, objectVars, counterVars, readerVars, updaterVars,
           Advance!vars, Advance!counterVars
  <2> USE DEF IInv, TypeOK, Counters!TypeOK, Phases, Epochs, prev, Advance!prev,
              objectVars, counterVars, readerVars, updaterVars, At,
              Advance!vars, Advance!counterVars
  <2>1. ASSUME NEW r \in Readers, LoadEpoch(r) PROVE Advance!LoadEpoch(r)
    BY <2>1 DEF LoadEpoch, Advance!LoadEpoch
  <2>2. ASSUME NEW r \in Readers, StoreMark(r) PROVE Advance!StoreMark(r)
    BY <2>2 DEF StoreMark, Counters!Increment, Counters!EpochReading,
                Advance!StoreMark, Advance!Counters!Increment, Advance!Counters!EpochReading
  <2>3. ASSUME NEW r \in Readers, LoadPtr(r) PROVE UNCHANGED Advance!vars
    BY <2>3 DEF LoadPtr
  <2>4. ASSUME NEW r \in Readers, Unlock(r) PROVE Advance!Unlock(r)
    BY <2>4 DEF Unlock, Counters!Decrement, Advance!Unlock, Advance!Counters!Decrement
  <2>5. ASSUME NEW t \in Updaters, NoUpdater, NEW o \in Objects, GetCopy(t, o)
        PROVE  UNCHANGED Advance!vars
    BY <2>5 DEF GetCopy
  <2>6. ASSUME NEW t \in Updaters, NEW v \in Values, Apply(t, v)
        PROVE  UNCHANGED Advance!vars
    BY <2>6 DEF Apply
  <2>7. ASSUME NEW t \in Updaters, Publish(t) PROVE UNCHANGED Advance!vars
    BY <2>7 DEF Publish
  <2>8. ASSUME NEW t \in Updaters, Retire(t)
        PROVE  Advance!TryAdvance(t) \/ UNCHANGED Advance!vars
    BY <2>8 DEF Retire, OneUpdater, Counters!ScanBegin, Counters!NoCall,
                Advance!TryAdvance, Advance!Counters!ScanBegin, Advance!Counters!NoCall
  <2>9. ASSUME NEW t \in Updaters, NEW r \in Readers, SkipReader(t, r)
        PROVE  Advance!SkipReader(t, r)
    BY <2>9 DEF SkipReader, Counters!ScanMiss, Counters!NoCall, Counters!EpochReading,
                Advance!SkipReader, Advance!Counters!ScanMiss, Advance!Counters!NoCall,
                Advance!Counters!EpochReading
  <2>10. ASSUME NEW t \in Updaters, NEW r \in Readers, FindReader(t, r)
         PROVE  Advance!FindReader(t, r)
    BY <2>10 DEF FindReader, Counters!ScanHit, Counters!NoCall, Counters!EpochReading,
                 Advance!FindReader, Advance!Counters!ScanHit, Advance!Counters!NoCall,
                 Advance!Counters!EpochReading
  <2>11. ASSUME NEW t \in Updaters, Reclaim(t) PROVE Advance!Clear(t)
    BY <2>11 DEF Reclaim, Counters!ScanClear, Counters!NoCall,
                 Advance!Clear, Advance!Counters!ScanClear, Advance!Counters!NoCall
  <2>12. ASSUME NEW t \in Updaters, AdvanceEpoch(t) PROVE Advance!AdvanceEpoch(t)
    BY <2>12 DEF AdvanceEpoch, Advance!AdvanceEpoch
  <2> QED
    BY <2>1, <2>2, <2>3, <2>4, <2>5, <2>6, <2>7, <2>8, <2>9, <2>10, <2>11, <2>12,
       NextCases
    DEF Advance!Next, Advance!ReaderStep, Advance!ScanStep
<1> QED
  BY <1>1, <1>2, InductiveInvariant, PTL DEF Spec, ImplementsAdvance, Advance!Spec

=============================================================================
