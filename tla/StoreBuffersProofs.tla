------------------------- MODULE StoreBuffersProofs -------------------------
(***************************************************************************)
(* Proofs about StoreBuffers, for any readers, updaters, objects and       *)
(* thresholds: whatever the relaxed stores do, readers are protected until *)
(* a scan passes by one that holds an object while its mark is late.       *)
(***************************************************************************)
EXTENDS StoreBuffers, EpochReclamationProofs, SequenceTheorems

\* A step of EpochReclamation as it is, or one that goes through a buffer.
LEMMA BufferCases ==
  ASSUME BufferNext, NEW P,
    ASSUME NEW r \in Readers, LoadEpochForwarded(r), UNCHANGED <<bufferVars, missed>>
    PROVE P,
    ASSUME NEW r \in Readers, MarkRelaxed(r), UNCHANGED missed PROVE P,
    ASSUME NEW r \in Readers, LoadPtr(r), UNCHANGED <<bufferVars, missed>> PROVE P,
    ASSUME NEW r \in Readers, UnlockRelaxed(r), UNCHANGED missed PROVE P,
    ASSUME NEW r \in Readers, DrainMark(r), UNCHANGED missed PROVE P,
    ASSUME NEW t \in Updaters, GetCopySynchronised(t), UNCHANGED <<bufferVars, missed>>
    PROVE P,
    ASSUME NEW t \in Updaters, NEW v \in Values, Apply(t, v),
           UNCHANGED <<bufferVars, missed>>
    PROVE P,
    ASSUME NEW t \in Updaters, PublishReleased(t), UNCHANGED <<bufferVars, missed>>
    PROVE P,
    ASSUME NEW t \in Updaters, Retire(t), UNCHANGED <<bufferVars, missed>> PROVE P,
    ASSUME NEW t \in Updaters, NEW r \in Readers, SkipReader(t, r), UNCHANGED bufferVars,
           missed' = (missed \/ MarkIsLate(t, r))
    PROVE P,
    ASSUME NEW t \in Updaters, NEW r \in Readers, FindReader(t, r),
           UNCHANGED <<bufferVars, missed>>
    PROVE P,
    ASSUME NEW t \in Updaters, Reclaim(t), UNCHANGED <<bufferVars, missed>> PROVE P,
    ASSUME NEW t \in Updaters, AdvanceEpochRelaxed(t), UNCHANGED missed PROVE P,
    ASSUME NEW t \in Updaters, DrainEpoch(t), UNCHANGED missed PROVE P
  PROVE P
BY DEF BufferNext, PlainStep

-----------------------------------------------------------------------------
(* Buffers *)

LEMMA OnlyStore == ASSUME NEW x PROVE Head(<<x>>) = x /\ Tail(<<x>>) = <<>> /\ <<x>> # <<>>
OBVIOUS

LEMMA FirstStore == ASSUME NEW x PROVE Append(<<>>, x) = <<x>>
OBVIOUS

LEMMA StoreLast ==
  ASSUME NEW S, NEW s \in Seq(S), NEW x \in S
  PROVE  /\ Append(s, x) \in Seq(S)
         /\ Append(s, x) # <<>>
         /\ Append(s, x)[Len(Append(s, x))] = x
OBVIOUS

LEMMA DrainFirst ==
  ASSUME NEW S, NEW s \in Seq(S), s # <<>>
  PROVE  /\ Head(s) \in S
         /\ Tail(s) \in Seq(S)
         /\ Tail(s) = <<>> => Head(s) = s[Len(s)]
         /\ Tail(s) # <<>> => Tail(s)[Len(Tail(s))] = s[Len(s)]
<1>1. /\ Head(s) \in S
      /\ Tail(s) \in Seq(S)
      /\ Len(Tail(s)) = Len(s) - 1
      /\ \A i \in 1..Len(Tail(s)) : Tail(s)[i] = s[i + 1]
  BY HeadTailProperties
<1>2. Len(s) \in Nat /\ Len(Tail(s)) \in Nat
  BY <1>1, LenProperties
<1>3. Tail(s) = <<>> <=> Len(Tail(s)) = 0
  BY <1>1, EmptySeq
<1>4. Head(s) = s[1]
  BY HeadTailProperties
<1>5. CASE Tail(s) = <<>>
  BY <1>1, <1>2, <1>3, <1>4, <1>5
<1>6. CASE Tail(s) # <<>>
  <2>1. Len(Tail(s)) \in 1..Len(Tail(s)) /\ Len(Tail(s)) + 1 = Len(s)
    BY <1>1, <1>2, <1>3, <1>6
  <2> QED BY <1>1, <1>6, <2>1
<1> QED BY <1>5, <1>6

\* What is in the way of an epoch that is not in memory yet.
LEMMA OneStorer ==
  ASSUME EpochIsSettled, NEW t \in Updaters, phase[t] \notin {"idle", "private"}
  PROVE  Settled
BY DEF EpochIsSettled, Settled

\* The epoch a thread loads, from memory or from its buffer.
LEMMA LoadedEpoch ==
  ASSUME TypeOK, EpochIsSettled, NEW r \in Readers, LoadEpochForwarded(r)
  PROVE  /\ rpc[r] = "out"
         /\ rpc' = [rpc EXCEPT ![r] = "locking"]
         /\ \E e \in Epochs : loaded' = [loaded EXCEPT ![r] = e]
         /\ UNCHANGED <<objectVars, epoch, counterVars, held, updaterVars>>
<1>1. CASE r \in Updaters /\ epochStores[r] # <<>>
  <2>1. epochStores[r] = <<prev>>
    BY <1>1 DEF EpochIsSettled
  <2>2. epochStores[r][Len(epochStores[r])] = prev
    BY <2>1
  <2>3. prev \in Epochs
    BY DEF TypeOK, prev, Epochs
  <2> QED BY <1>1, <2>2, <2>3 DEF LoadEpochForwarded
<1>2. CASE ~(r \in Updaters /\ epochStores[r] # <<>>)
  BY <1>2 DEF LoadEpochForwarded, LoadEpoch, TypeOK
<1> QED BY <1>1, <1>2

-----------------------------------------------------------------------------
(* The parts of the invariant *)

BaseInv == TypeOK /\ EveryObjectHasOneOwner /\ OneUpdater /\ PhasesAreTrue

LEMMA BaseNext ==
  ASSUME BaseInv, Next
  PROVE  BaseInv'
BY TypeStep, OneUpdaterStep, PhasesStep, OwnershipStep DEF BaseInv

LEMMA BaseStep ==
  ASSUME BaseInv, EpochIsSettled, MarksAreStored, BufferNext
  PROVE  BaseInv'
<1> USE DEF UpdaterStep, ReaderStep, RetireStep, Next
<1>1. ASSUME NEW r \in Readers, LoadPtr(r) PROVE BaseInv'
  BY <1>1, BaseNext
<1>2. ASSUME NEW t \in Updaters, GetCopySynchronised(t) PROVE BaseInv'
  BY <1>2, BaseNext DEF GetCopySynchronised
<1>3. ASSUME NEW t \in Updaters, NEW v \in Values, Apply(t, v) PROVE BaseInv'
  BY <1>3, BaseNext
<1>4. ASSUME NEW t \in Updaters, PublishReleased(t) PROVE BaseInv'
  BY <1>4, BaseNext DEF PublishReleased
<1>5. ASSUME NEW t \in Updaters, Retire(t) PROVE BaseInv'
  BY <1>5, BaseNext
<1>6. ASSUME NEW t \in Updaters, NEW r \in Readers, SkipReader(t, r) PROVE BaseInv'
  BY <1>6, BaseNext
<1>7. ASSUME NEW t \in Updaters, NEW r \in Readers, FindReader(t, r) PROVE BaseInv'
  BY <1>7, BaseNext
<1>8. ASSUME NEW t \in Updaters, Reclaim(t) PROVE BaseInv'
  BY <1>8, BaseNext
<1> USE DEF BaseInv, TypeOK, EveryObjectHasOneOwner, Copies, Outgoing, OneUpdater,
            PhasesAreTrue, Epochs, prev, Counters!TypeOK, Counters!Epochs,
            Counters!NoCall, objectVars, counterVars, readerVars, updaterVars, At, Phases
<1>9. ASSUME NEW r \in Readers, LoadEpochForwarded(r) PROVE BaseInv'
  <2>1. /\ rpc' = [rpc EXCEPT ![r] = "locking"]
        /\ \E e \in Epochs : loaded' = [loaded EXCEPT ![r] = e]
        /\ UNCHANGED <<objectVars, epoch, counterVars, held, updaterVars>>
    BY <1>9, LoadedEpoch
  <2> QED BY <2>1
<1>10. ASSUME NEW r \in Readers, MarkRelaxed(r) PROVE BaseInv'
  BY <1>10 DEF MarkRelaxed, Buffer
<1>11. ASSUME NEW r \in Readers, UnlockRelaxed(r) PROVE BaseInv'
  BY <1>11 DEF UnlockRelaxed, Buffer
<1>12. ASSUME NEW r \in Readers, DrainMark(r) PROVE BaseInv'
  <2>1. Head(marks[r]) \in Counters!Bytes
    BY <1>12, DrainFirst DEF DrainMark, MarksAreStored
  <2>2. epochReading' = [epochReading EXCEPT ![r] = Head(marks[r])]
    BY <1>12 DEF DrainMark
  <2>3. UNCHANGED <<objectVars, epoch, scanned, unscanned, readerVars, updaterVars>>
    BY <1>12 DEF DrainMark
  <2> QED BY <2>1, <2>2, <2>3
<1>13. ASSUME NEW t \in Updaters, AdvanceEpochRelaxed(t) PROVE BaseInv'
  BY <1>13 DEF AdvanceEpochRelaxed
<1>14. ASSUME NEW t \in Updaters, DrainEpoch(t) PROVE BaseInv'
  <2>1. Head(epochStores[t]) = prev
    BY <1>14, OnlyStore DEF DrainEpoch, EpochIsSettled
  <2>2. \A u \in Updaters : phase[u] # "scan"
    BY <1>14 DEF DrainEpoch, EpochIsSettled
  <2> QED BY <1>14, <2>1, <2>2 DEF DrainEpoch
<1> QED
  BY <1>1, <1>2, <1>3, <1>4, <1>5, <1>6, <1>7, <1>8, <1>9, <1>10, <1>11, <1>12, <1>13,
     <1>14, BufferCases

\* The epoch is settled by the time it is read for a list, or changed again.
LEMMA SettledStep ==
  ASSUME BaseInv, EpochIsSettled, BufferNext
  PROVE  EpochIsSettled'
<1> USE DEF BaseInv, TypeOK, OneUpdater, EpochIsSettled, prev, Epochs,
            objectVars, counterVars, readerVars, updaterVars, bufferVars, At
<1>1. ASSUME NEW r \in Readers, LoadEpochForwarded(r), UNCHANGED bufferVars
      PROVE  EpochIsSettled'
  BY <1>1, LoadedEpoch
<1>2. ASSUME NEW r \in Readers, MarkRelaxed(r) PROVE EpochIsSettled'
  BY <1>2 DEF MarkRelaxed, Buffer
<1>3. ASSUME NEW r \in Readers, LoadPtr(r), UNCHANGED bufferVars PROVE EpochIsSettled'
  BY <1>3 DEF LoadPtr
<1>4. ASSUME NEW r \in Readers, UnlockRelaxed(r) PROVE EpochIsSettled'
  BY <1>4 DEF UnlockRelaxed, Buffer
<1>5. ASSUME NEW r \in Readers, DrainMark(r) PROVE EpochIsSettled'
  BY <1>5 DEF DrainMark
<1>6. ASSUME NEW t \in Updaters, GetCopySynchronised(t), UNCHANGED bufferVars
      PROVE  EpochIsSettled'
  BY <1>6 DEF GetCopySynchronised, GetCopy, NoUpdater
<1>7. ASSUME NEW t \in Updaters, NEW v \in Values, Apply(t, v), UNCHANGED bufferVars
      PROVE  EpochIsSettled'
  BY <1>7 DEF Apply
<1>8. ASSUME NEW t \in Updaters, PublishReleased(t), UNCHANGED bufferVars
      PROVE  EpochIsSettled'
  BY <1>8 DEF PublishReleased, Publish
<1>9. ASSUME NEW t \in Updaters, Retire(t), UNCHANGED bufferVars PROVE EpochIsSettled'
  <2>1. Settled
    BY <1>9, OneStorer DEF Retire
  <2> QED BY <1>9, <2>1 DEF Retire, Settled
<1>10. ASSUME NEW t \in Updaters, NEW r \in Readers, SkipReader(t, r), UNCHANGED bufferVars
       PROVE  EpochIsSettled'
  BY <1>10 DEF SkipReader
<1>11. ASSUME NEW t \in Updaters, NEW r \in Readers, FindReader(t, r), UNCHANGED bufferVars
       PROVE  EpochIsSettled'
  <2>1. Settled
    BY <1>11, OneStorer DEF FindReader
  <2> QED BY <1>11, <2>1 DEF FindReader, Settled
<1>12. ASSUME NEW t \in Updaters, Reclaim(t), UNCHANGED bufferVars PROVE EpochIsSettled'
  <2>1. Settled
    BY <1>12, OneStorer DEF Reclaim
  <2> QED BY <1>12, <2>1 DEF Reclaim, Settled
<1>13. ASSUME NEW t \in Updaters, AdvanceEpochRelaxed(t) PROVE EpochIsSettled'
  <2>1. Settled /\ \A u \in Updaters \ {t} : phase[u] = "idle"
    BY <1>13, OneStorer DEF AdvanceEpochRelaxed
  <2>2. Append(epochStores[t], prev) = <<prev>>
    BY <2>1, FirstStore DEF Settled
  <2>3. /\ epochStores' = [epochStores EXCEPT ![t] = <<prev>>]
        /\ phase' = [phase EXCEPT ![t] = "idle"]
        /\ UNCHANGED epoch
    BY <1>13, <2>2 DEF AdvanceEpochRelaxed
  <2>4. \A u \in Updaters : epochStores'[u] = IF u = t THEN <<prev>> ELSE <<>>
    BY <2>1, <2>3 DEF Settled
  <2> QED BY <2>1, <2>3, <2>4
<1>14. ASSUME NEW t \in Updaters, DrainEpoch(t) PROVE EpochIsSettled'
  <2>1. epochStores[t] = <<prev>> /\ \A u \in Updaters \ {t} : epochStores[u] = <<>>
    BY <1>14 DEF DrainEpoch
  <2>2. Tail(epochStores[t]) = <<>>
    BY <2>1, OnlyStore
  <2>3. epochStores' = [epochStores EXCEPT ![t] = <<>>]
    BY <1>14, <2>2 DEF DrainEpoch
  <2>4. \A u \in Updaters : epochStores'[u] = <<>>
    BY <2>1, <2>3
  <2> QED BY <2>3, <2>4
<1> QED
  BY <1>1, <1>2, <1>3, <1>4, <1>5, <1>6, <1>7, <1>8, <1>9, <1>10, <1>11, <1>12, <1>13,
     <1>14, BufferCases

LEMMA MarkStored ==
  ASSUME TypeOK, MarksAreStored, NEW r \in Readers, MarkRelaxed(r),
         NEW byte \in Counters!Bytes, byte = Counters!EpochReading(loaded[r])
  PROVE  MarksAreStored'
<1> USE DEF TypeOK, MarksAreStored, lastMark, Marked, Counters!TypeOK, counterVars
<1>1. /\ Append(marks[r], byte) \in Seq(Counters!Bytes)
      /\ Append(marks[r], byte) # <<>>
      /\ Append(marks[r], byte)[Len(Append(marks[r], byte))] = byte
  BY StoreLast
<1>2. /\ marks' = [marks EXCEPT ![r] = Append(marks[r], byte)]
      /\ rpc' = [rpc EXCEPT ![r] = "locked"]
      /\ UNCHANGED <<epochReading, loaded>>
  BY DEF MarkRelaxed, Buffer
<1>3. marks' \in [Readers -> Seq(Counters!Bytes)] /\ lastMark(r)' = byte
  BY <1>1, <1>2
<1>4. \A q \in Readers \ {r} : lastMark(q)' = lastMark(q) /\ (Marked(q)' <=> Marked(q))
  BY <1>2
<1> QED BY <1>2, <1>3, <1>4

LEMMA StoredMarksStep ==
  ASSUME BaseInv, EpochIsSettled, MarksAreStored, BufferNext
  PROVE  MarksAreStored'
<1> USE DEF BaseInv, TypeOK, MarksAreStored, lastMark, Marked, Counters!TypeOK,
            objectVars, counterVars, readerVars, updaterVars, bufferVars, At
\* Steps that touch neither marks nor bytes, and mark no reader.
<1>a. ASSUME UNCHANGED <<marks, epochReading>>,
             \A r \in Readers : Marked(r)' => Marked(r) /\ loaded'[r] = loaded[r]
      PROVE  MarksAreStored'
  BY <1>a
<1>1. ASSUME NEW r \in Readers, LoadEpochForwarded(r), UNCHANGED bufferVars
      PROVE  MarksAreStored'
  <2>1. /\ rpc' = [rpc EXCEPT ![r] = "locking"]
        /\ \E e \in Epochs : loaded' = [loaded EXCEPT ![r] = e]
        /\ UNCHANGED epochReading
    BY <1>1, LoadedEpoch
  <2> QED BY <1>1, <1>a, <2>1
<1>2. ASSUME NEW r \in Readers, MarkRelaxed(r) PROVE MarksAreStored'
  <2>1. Counters!EpochReading(loaded[r]) \in Counters!Bytes
    <3>1. loaded[r] \in Counters!Epochs
      BY DEF Counters!Epochs, Epochs
    <3> QED BY <3>1, Zenon DEF Counters!Bytes
  <2> QED BY <1>2, <2>1, MarkStored
<1>3. ASSUME NEW r \in Readers, LoadPtr(r), UNCHANGED bufferVars PROVE MarksAreStored'
  BY <1>3, <1>a DEF LoadPtr
<1>4. ASSUME NEW r \in Readers, UnlockRelaxed(r) PROVE MarksAreStored'
  <2>1. 0 \in Counters!Bytes
    BY DEF Counters!Bytes
  <2>2. Append(marks[r], 0) \in Seq(Counters!Bytes)
    BY <2>1, StoreLast
  <2>3. /\ marks' = [marks EXCEPT ![r] = Append(marks[r], 0)]
        /\ rpc' = [rpc EXCEPT ![r] = "out"]
        /\ UNCHANGED <<epochReading, loaded>>
    BY <1>4 DEF UnlockRelaxed, Buffer
  <2>4. marks' \in [Readers -> Seq(Counters!Bytes)]
    BY <2>2, <2>3
  <2>5. \A q \in Readers \ {r} : lastMark(q)' = lastMark(q) /\ (Marked(q)' <=> Marked(q))
    BY <2>3
  <2>6. ~Marked(r)'
    BY <2>3
  <2> QED BY <2>3, <2>4, <2>5, <2>6
<1>5. ASSUME NEW r \in Readers, DrainMark(r) PROVE MarksAreStored'
  <2>1. marks[r] \in Seq(Counters!Bytes) /\ marks[r] # <<>>
    BY <1>5 DEF DrainMark
  <2>2. /\ Tail(marks[r]) \in Seq(Counters!Bytes)
        /\ Tail(marks[r]) = <<>> => Head(marks[r]) = marks[r][Len(marks[r])]
        /\ Tail(marks[r]) # <<>> =>
             Tail(marks[r])[Len(Tail(marks[r]))] = marks[r][Len(marks[r])]
    BY <2>1, DrainFirst
  <2>3. /\ epochReading' = [epochReading EXCEPT ![r] = Head(marks[r])]
        /\ marks' = [marks EXCEPT ![r] = Tail(marks[r])]
        /\ UNCHANGED readerVars
    BY <1>5 DEF DrainMark
  <2>4. marks' \in [Readers -> Seq(Counters!Bytes)]
    BY <2>2, <2>3
  <2>5. \A q \in Readers : lastMark(q)' = lastMark(q)
    BY <2>1, <2>2, <2>3
  <2> QED BY <2>3, <2>4, <2>5
<1>6. ASSUME NEW t \in Updaters, GetCopySynchronised(t), UNCHANGED bufferVars
      PROVE  MarksAreStored'
  BY <1>6, <1>a DEF GetCopySynchronised, GetCopy
<1>7. ASSUME NEW t \in Updaters, NEW v \in Values, Apply(t, v), UNCHANGED bufferVars
      PROVE  MarksAreStored'
  BY <1>7, <1>a DEF Apply
<1>8. ASSUME NEW t \in Updaters, PublishReleased(t), UNCHANGED bufferVars
      PROVE  MarksAreStored'
  BY <1>8, <1>a DEF PublishReleased, Publish
<1>9. ASSUME NEW t \in Updaters, Retire(t), UNCHANGED bufferVars PROVE MarksAreStored'
  BY <1>9, <1>a DEF Retire, Counters!ScanBegin
<1>10. ASSUME NEW t \in Updaters, NEW r \in Readers, SkipReader(t, r), UNCHANGED bufferVars
       PROVE  MarksAreStored'
  BY <1>10, <1>a DEF SkipReader, Counters!ScanMiss
<1>11. ASSUME NEW t \in Updaters, NEW r \in Readers, FindReader(t, r), UNCHANGED bufferVars
       PROVE  MarksAreStored'
  BY <1>11, <1>a DEF FindReader, Counters!ScanHit
<1>12. ASSUME NEW t \in Updaters, Reclaim(t), UNCHANGED bufferVars PROVE MarksAreStored'
  BY <1>12, <1>a DEF Reclaim, Counters!ScanClear
<1>13. ASSUME NEW t \in Updaters, AdvanceEpochRelaxed(t) PROVE MarksAreStored'
  BY <1>13, <1>a DEF AdvanceEpochRelaxed
<1>14. ASSUME NEW t \in Updaters, DrainEpoch(t) PROVE MarksAreStored'
  BY <1>14, <1>a DEF DrainEpoch
<1> QED
  BY <1>1, <1>2, <1>3, <1>4, <1>5, <1>6, <1>7, <1>8, <1>9, <1>10, <1>11, <1>12, <1>13,
     <1>14, BufferCases

\* As HeldStep. From its exchange to the end of the scan an updater finds the
\* newest epoch in memory.
LEMMA BufferedHeldStep ==
  ASSUME BufferInv, BufferNext, ~missed'
  PROVE  BufferedHeldIsSafe'
<1>a. ~missed
  BY DEF BufferNext
<1>b. BufferedHeldIsSafe
  BY <1>a DEF BufferInv
<1> USE <1>b, ReclamationAssumption
    DEF BufferInv, TypeOK, OneUpdater, PhasesAreTrue, BufferedHeldIsSafe, PassedBy, EveryObjectHasOneOwner, Copies, Outgoing, Epochs, prev,
        newest, Counters!TypeOK, Counters!Epochs, Counters!NoCall,
        objectVars, counterVars, readerVars, updaterVars, At
<1>0. UNCHANGED bufferVars => (Settled' <=> Settled)
  BY DEF Settled, bufferVars
<1>1. ASSUME NEW r \in Readers, LoadEpochForwarded(r), UNCHANGED <<bufferVars, missed>>
      PROVE  BufferedHeldIsSafe'
  <2>1. /\ rpc[r] = "out" /\ rpc' = [rpc EXCEPT ![r] = "locking"]
        /\ \E e \in Epochs : loaded' = [loaded EXCEPT ![r] = e]
        /\ UNCHANGED <<objectVars, epoch, counterVars, held, updaterVars>>
    BY <1>1, LoadedEpoch
  <2> QED BY <1>0, <1>1, <2>1
<1>2. ASSUME NEW r \in Readers, MarkRelaxed(r), UNCHANGED missed PROVE BufferedHeldIsSafe'
  <2>1. Settled' <=> Settled
    BY <1>2 DEF MarkRelaxed, Buffer, Settled
  <2> QED BY <1>2, <2>1 DEF MarkRelaxed, Buffer
<1>3. ASSUME NEW r \in Readers, LoadPtr(r), UNCHANGED <<bufferVars, missed>>
      PROVE  BufferedHeldIsSafe'
  BY <1>0, <1>3 DEF LoadPtr
<1>4. ASSUME NEW r \in Readers, UnlockRelaxed(r), UNCHANGED missed PROVE BufferedHeldIsSafe'
  <2>1. Settled' <=> Settled
    BY <1>4 DEF UnlockRelaxed, Buffer, Settled
  <2> QED BY <1>4, <2>1 DEF UnlockRelaxed, Buffer
<1>5. ASSUME NEW r \in Readers, DrainMark(r), UNCHANGED missed PROVE BufferedHeldIsSafe'
  <2>1. Settled' <=> Settled
    BY <1>5 DEF DrainMark, Settled
  <2> QED BY <1>5, <2>1 DEF DrainMark
<1>6. ASSUME NEW t \in Updaters, GetCopySynchronised(t), UNCHANGED <<bufferVars, missed>>
      PROVE  BufferedHeldIsSafe'
  BY <1>0, <1>6 DEF GetCopySynchronised, GetCopy, NoUpdater
<1>7. ASSUME NEW t \in Updaters, NEW v \in Values, Apply(t, v),
             UNCHANGED <<bufferVars, missed>>
      PROVE  BufferedHeldIsSafe'
  BY <1>0, <1>7 DEF Apply
<1>8. ASSUME NEW t \in Updaters, PublishReleased(t), UNCHANGED <<bufferVars, missed>>
      PROVE  BufferedHeldIsSafe'
  BY <1>0, <1>8 DEF PublishReleased, Publish
<1>9. ASSUME NEW t \in Updaters, Retire(t), UNCHANGED <<bufferVars, missed>>
      PROVE  BufferedHeldIsSafe'
  <2>1. Settled
    BY <1>9, OneStorer DEF Retire
  <2> QED BY <1>0, <1>9, <2>1 DEF Retire, Counters!ScanBegin
<1>10. ASSUME NEW t \in Updaters, NEW r \in Readers, SkipReader(t, r), UNCHANGED bufferVars,
              missed' = (missed \/ MarkIsLate(t, r))
       PROVE  BufferedHeldIsSafe'
  \* Its mark is not late, so it would have been found in the previous epoch.
  <2>1. rpc[r] = "reading" => loaded[r] = epoch
    <3>1. SUFFICES ASSUME rpc[r] = "reading", loaded[r] # epoch PROVE FALSE
      OBVIOUS
    <3>2. loaded[r] = prev /\ scanned[t] = prev
      BY <1>10, <3>1 DEF SkipReader
    <3>3. marks[r] = <<>>
      BY <1>a, <1>10, <3>1, <3>2 DEF MarkIsLate
    <3>4. epochReading[r] = Counters!EpochReading(scanned[t])
      BY <3>1, <3>2, <3>3 DEF MarksAreStored, lastMark, Marked
    <3> QED BY <1>10, <3>4 DEF SkipReader, Counters!ScanMiss
  <2>2. \A q \in Readers \ {r} : PassedBy(t, q)' => PassedBy(t, q)
    BY <1>10 DEF SkipReader, Counters!ScanMiss
  <2> QED BY <1>0, <1>10, <2>1, <2>2 DEF SkipReader, Counters!ScanMiss
<1>11. ASSUME NEW t \in Updaters, NEW r \in Readers, FindReader(t, r),
              UNCHANGED <<bufferVars, missed>>
       PROVE  BufferedHeldIsSafe'
  BY <1>0, <1>11 DEF FindReader, Counters!ScanHit
<1>12. ASSUME NEW t \in Updaters, Reclaim(t), UNCHANGED <<bufferVars, missed>>
       PROVE  BufferedHeldIsSafe'
  \* As in HeldStep: nobody holds an object of the previous list.
  <2>1. Settled
    BY <1>12, OneStorer DEF Reclaim
  <2>2. \A r \in Readers : rpc[r] = "reading" /\ loaded[r] = prev => held[r] = ptr
    BY <1>12 DEF Reclaim, Counters!ScanClear
  <2>3. \A r \in Readers : rpc[r] = "reading" => held[r] \notin retireLists[prev]
    BY <2>1, <2>2
  <2> QED BY <1>0, <1>12, <2>1, <2>2, <2>3 DEF Reclaim, Counters!ScanClear
<1>13. ASSUME NEW t \in Updaters, AdvanceEpochRelaxed(t), UNCHANGED missed PROVE BufferedHeldIsSafe'
  \* The lists change their roles now, whatever is in memory.
  <2>1. Settled
    BY <1>13, OneStorer DEF AdvanceEpochRelaxed
  <2>2. ~Settled' /\ epoch' = epoch
    <3>1. Append(epochStores[t], prev) = <<prev>> /\ <<prev>> # <<>>
      BY <2>1, FirstStore, OnlyStore DEF Settled
    <3>2. epochStores'[t] = <<prev>>
      BY <1>13, <3>1 DEF AdvanceEpochRelaxed, EpochIsSettled
    <3> QED BY <1>13, <3>1, <3>2 DEF AdvanceEpochRelaxed, Settled
  <2>3. \A r \in Readers : rpc[r] = "reading" /\ loaded[r] = prev => held[r] = ptr
    BY <1>13 DEF AdvanceEpochRelaxed
  <2>4. \A r \in Readers : rpc[r] = "reading" =>
          (held[r] \in retireLists[1 - loaded[r]] => loaded[r] # prev)
    BY <2>3
  <2> QED BY <1>13, <2>2, <2>4 DEF AdvanceEpochRelaxed
<1>14. ASSUME NEW t \in Updaters, DrainEpoch(t), UNCHANGED missed PROVE BufferedHeldIsSafe'
  \* The epoch gets to memory; nobody scans.
  <2>1. epochStores[t] = <<prev>> /\ \A u \in Updaters \ {t} : epochStores[u] = <<>>
    BY <1>14 DEF DrainEpoch, EpochIsSettled
  <2>2. ~Settled /\ Settled' /\ epoch' = prev
    <3>1. Head(epochStores[t]) = prev /\ Tail(epochStores[t]) = <<>> /\ <<prev>> # <<>>
      BY <2>1, OnlyStore
    <3>2. epochStores' = [epochStores EXCEPT ![t] = <<>>] /\ epoch' = prev
      BY <1>14, <3>1 DEF DrainEpoch
    <3>3. \A u \in Updaters : epochStores'[u] = <<>>
      BY <2>1, <3>2 DEF EpochIsSettled
    <3>4. epochStores[t] # <<>>
      BY <1>14 DEF DrainEpoch
    <3> QED BY <3>2, <3>3, <3>4 DEF Settled
  <2>3. \A u \in Updaters, r \in Readers : ~PassedBy(u, r)
    BY <1>14 DEF DrainEpoch, EpochIsSettled
  <2> QED BY <1>14, <2>2, <2>3 DEF DrainEpoch
<1> QED
  BY <1>1, <1>2, <1>3, <1>4, <1>5, <1>6, <1>7, <1>8, <1>9, <1>10, <1>11, <1>12, <1>13,
     <1>14, BufferCases

-----------------------------------------------------------------------------
(* The theorems *)

LEMMA BufferInvInit == BufferInit => BufferInv
<1> SUFFICES ASSUME BufferInit PROVE BufferInv
  OBVIOUS
<1>1. IInv
  BY InvariantInit DEF BufferInit
<1>2. EpochIsSettled /\ newest = epoch
  BY DEF BufferInit, Init, EpochIsSettled, newest, Settled
<1>3. MarksAreStored
  <2>1. marks = [r \in Readers |-> <<>>] /\ <<>> \in Seq(Counters!Bytes)
    BY DEF BufferInit
  <2>2. \A r \in Readers : ~Marked(r)
    BY DEF BufferInit, Init, Marked
  <2> QED BY <2>1, <2>2 DEF MarksAreStored
<1>4. BufferedHeldIsSafe /\ missed \in BOOLEAN
  BY DEF BufferInit, Init, BufferedHeldIsSafe
<1> QED BY <1>1, <1>2, <1>3, <1>4 DEF IInv, BufferInv

LEMMA MissedStep ==
  ASSUME missed \in BOOLEAN, BufferNext
  PROVE  missed' \in BOOLEAN
BY DEF BufferNext, MarkIsLate

LEMMA BufferInvStep ==
  BufferInv /\ [BufferNext]_<<vars, bufferVars, missed>> => BufferInv'
<1> SUFFICES ASSUME BufferInv, [BufferNext]_<<vars, bufferVars, missed>>
             PROVE  BufferInv'
  OBVIOUS
<1>1. CASE BufferNext
  <2>1. BaseInv /\ EpochIsSettled /\ MarksAreStored /\ missed \in BOOLEAN
    BY DEF BufferInv, BaseInv
  <2>2. BaseInv' /\ EpochIsSettled' /\ MarksAreStored' /\ missed' \in BOOLEAN
    BY <1>1, <2>1, BaseStep, SettledStep, StoredMarksStep, MissedStep
  <2>3. ~missed' => BufferedHeldIsSafe'
    BY <1>1, BufferedHeldStep
  <2> QED BY <2>2, <2>3 DEF BufferInv, BaseInv
<1>2. CASE UNCHANGED <<vars, bufferVars, missed>>
  <2> USE <1>2 DEF BufferInv, vars, objectVars, counterVars, readerVars, updaterVars,
                   bufferVars, Marked, PassedBy, Copies, Outgoing, prev
  <2>1. TypeOK' /\ EveryObjectHasOneOwner' /\ OneUpdater' /\ PhasesAreTrue'
    BY DEF TypeOK, EveryObjectHasOneOwner, OneUpdater, PhasesAreTrue, Counters!TypeOK
  <2>2. EpochIsSettled'
    BY DEF EpochIsSettled
  <2>3. MarksAreStored'
    BY DEF MarksAreStored, lastMark
  <2>4. missed' \in BOOLEAN /\ (~missed' => BufferedHeldIsSafe')
    BY DEF BufferedHeldIsSafe, Settled, newest
  <2> QED BY <2>1, <2>2, <2>3, <2>4
<1> QED BY <1>1, <1>2

\* Every reachable state of the class on a machine with store buffers satisfies
\* the invariant: objects keep one owner, the epoch is settled when it is used,
\* and until a scan misses a mark what readers hold waits in a list whose turn
\* has not come.
THEOREM BufferInvariant == BufferSpec => []BufferInv
BY BufferInvInit, BufferInvStep, PTL DEF BufferSpec

LEMMA BufferedHeldIsProtected ==
  ASSUME BufferInv, ~missed
  PROVE  /\ ReaderProtection
         /\ \A r \in Readers : rpc[r] = "reading" => held[r] \in Objects
BY DEF BufferInv, TypeOK, BufferedHeldIsSafe, EveryObjectHasOneOwner, Outgoing, Epochs,
       ReaderProtection

\* Readers are protected until a scan misses a mark: no other delay of the
\* code's relaxed stores takes an object from its reader.
THEOREM OnlyMissedMarksHarm == BufferSpec => []ProtectedUnlessMissed
<1>1. BufferInv => ProtectedUnlessMissed
  BY BufferedHeldIsProtected DEF ProtectedUnlessMissed
<1> QED BY <1>1, BufferInvariant, PTL

\* Nor does any other delay change an object in its reader's hands.
THEOREM KeptUntilMissed == BufferSpec => KeptUnlessMissed
<1> DEFINE Immutable ==
      \A r \in Readers : rpc[r] = "reading" /\ rpc'[r] = "reading"
        => held'[r] = held[r] /\ value'[held[r]] = value[held[r]]
<1>1. ASSUME BufferInv, BufferNext, ~missed PROVE Immutable
  <2>1. Next => Immutable
    BY <1>1, ImmutableStep, BufferedHeldIsProtected DEF BufferInv
  <2> HIDE DEF Immutable
  <2> USE <2>1 DEF Next, ReaderStep, UpdaterStep, RetireStep
  <2>2. ASSUME NEW r \in Readers, LoadPtr(r) PROVE Immutable BY <2>2
  <2>3. ASSUME NEW t \in Updaters, GetCopySynchronised(t) PROVE Immutable
    BY <2>3 DEF GetCopySynchronised
  <2>4. ASSUME NEW t \in Updaters, NEW v \in Values, Apply(t, v) PROVE Immutable BY <2>4
  <2>5. ASSUME NEW t \in Updaters, PublishReleased(t) PROVE Immutable
    BY <2>5 DEF PublishReleased
  <2>6. ASSUME NEW t \in Updaters, Retire(t) PROVE Immutable BY <2>6
  <2>7. ASSUME NEW t \in Updaters, NEW r \in Readers, SkipReader(t, r) PROVE Immutable
    BY <2>7
  <2>8. ASSUME NEW t \in Updaters, NEW r \in Readers, FindReader(t, r) PROVE Immutable
    BY <2>8
  <2>9. ASSUME NEW t \in Updaters, Reclaim(t) PROVE Immutable BY <2>9
  <2>10. ASSUME UNCHANGED value,
                \A r \in Readers : rpc'[r] = "reading" => held'[r] = held[r]
         PROVE  Immutable
    BY <2>10 DEF Immutable
  <2> USE <1>1 DEF BufferInv, TypeOK, objectVars, readerVars
  <2>11. ASSUME NEW r \in Readers, LoadEpochForwarded(r) PROVE Immutable
    BY <2>10, <2>11, LoadedEpoch
  <2>12. ASSUME NEW r \in Readers, MarkRelaxed(r) PROVE Immutable
    BY <2>10, <2>12 DEF MarkRelaxed
  <2>13. ASSUME NEW r \in Readers, UnlockRelaxed(r) PROVE Immutable
    BY <2>10, <2>13 DEF UnlockRelaxed
  <2>14. ASSUME NEW r \in Readers, DrainMark(r) PROVE Immutable
    BY <2>10, <2>14 DEF DrainMark
  <2>15. ASSUME NEW t \in Updaters, AdvanceEpochRelaxed(t) PROVE Immutable
    BY <2>10, <2>15 DEF AdvanceEpochRelaxed
  <2>16. ASSUME NEW t \in Updaters, DrainEpoch(t) PROVE Immutable
    BY <2>10, <2>16 DEF DrainEpoch
  <2> QED
    BY <1>1, <2>2, <2>3, <2>4, <2>5, <2>6, <2>7, <2>8, <2>9, <2>11, <2>12, <2>13, <2>14,
       <2>15, <2>16, BufferCases
<1>2. BufferInv /\ [BufferNext]_<<vars, bufferVars, missed>> => [~missed => Immutable]_vars
  BY <1>1
<1> QED BY <1>2, BufferInvariant, PTL DEF BufferSpec, KeptUnlessMissed

=============================================================================
