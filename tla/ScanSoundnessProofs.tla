------------------------ MODULE ScanSoundnessProofs ------------------------
(***************************************************************************)
(* Proofs about the scan of the reader marks, for any numbers of readers   *)
(* and of scans at once.                                                   *)
(***************************************************************************)
EXTENDS ScanSoundness, TLAPS

\* StayersAreAhead is inductive together with what stayed stands for.
StayersStay ==
  \A s \in Scanners : scanned[s] # NoCall => stayed[s] \subseteq InEpoch(scanned[s])

ScanInv == TypeOK /\ StayersAreAhead /\ StayersStay

LEMMA ScanInvStep == ScanInv /\ [HNext]_<<vars, stayed>> => ScanInv'
<1> SUFFICES ASSUME ScanInv, [HNext]_<<vars, stayed>> PROVE ScanInv'
  OBVIOUS
<1> USE DEF ScanInv, TypeOK, StayersAreAhead, StayersStay, InEpoch, Bytes, Epochs,
            NoCall, EpochReading
<1>1. ASSUME HNext, NEW r \in Readers, NEW e \in Epochs, epochReading[r] = 0,
             Increment(r, e)
      PROVE  ScanInv'
  BY <1>1 DEF HNext, Increment
<1>2. ASSUME HNext, NEW r \in Readers, epochReading[r] # 0, Decrement(r)
      PROVE  ScanInv'
  BY <1>2 DEF HNext, Decrement
<1>3. ASSUME HNext, NEW s \in Scanners, NEW e \in Epochs, ScanBegin(s, e)
      PROVE  ScanInv'
  BY <1>3 DEF HNext, ScanBegin
<1>4. ASSUME HNext, NEW s \in Scanners, NEW r \in Readers, ScanMiss(s, r)
      PROVE  ScanInv'
  BY <1>4 DEF HNext, ScanMiss
<1>5. ASSUME HNext, NEW s \in Scanners, NEW r \in Readers, ScanHit(s, r)
      PROVE  ScanInv'
  BY <1>5 DEF HNext, ScanHit
<1>6. ASSUME HNext, NEW s \in Scanners, ScanClear(s)
      PROVE  ScanInv'
  BY <1>6 DEF HNext, ScanClear
<1>7. CASE UNCHANGED <<vars, stayed>>
  BY <1>7 DEF vars
<1> QED
  BY <1>1, <1>2, <1>3, <1>4, <1>5, <1>6, <1>7 DEF HNext, Next

LEMMA ScanInvariant == HSpec => []ScanInv
<1>1. HInit => ScanInv
  BY DEF HInit, Init, ScanInv, TypeOK, StayersAreAhead, StayersStay, Bytes, Epochs,
         NoCall, EpochReading
<1> QED BY <1>1, ScanInvStep, PTL DEF HSpec

\* The bytes and the state of the scans have their types.
THEOREM MarksTypeCorrect == HSpec => []TypeOK
BY ScanInvariant, PTL DEF ScanInv

\* A scan never passes a reader by that has been in the epoch all along.
THEOREM ScanOvertakesNoStayer == HSpec => []StayersAreAhead
BY ScanInvariant, PTL DEF ScanInv

\* When epochIsClear answers TRUE, nobody has been in the epoch since it was
\* called.
THEOREM ScanIsSound == HSpec => ClearMeansNobodyStayed
<1>1. ScanInv /\ [HNext]_<<vars, stayed>> =>
        [\A s \in Scanners : ScanClear(s) => stayed[s] = {}]_<<vars, stayed>>
  BY DEF ScanInv, StayersAreAhead, ScanClear
<1> QED BY <1>1, ScanInvariant, PTL DEF HSpec, ClearMeansNobodyStayed

=============================================================================
