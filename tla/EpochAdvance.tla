---------------------------- MODULE EpochAdvance ----------------------------
(***************************************************************************)
(* The epoch and the readers, without the objects: what decides whether    *)
(* rcu_protected<T>::retire gets to reclaim. Each retire at or above the   *)
(* cleanup threshold asks whether the previous epoch is clear, and changes *)
(* the epoch if it is. EpochReclamation implements this specification; it  *)
(* states progress, which a model with finitely many objects cannot: there *)
(* a class that never reclaims just runs out of memory.                    *)
(***************************************************************************)
EXTENDS Naturals

CONSTANTS Readers, Scanners

VARIABLES
  epoch,                            \* m_epoch
  epochReading, scanned, unscanned, \* m_counters, as in ThreadCachedReaders
  rpc,                              \* where each reader is: out, locking, locked
  loaded,                           \* the epoch its rcu_read_lock loaded
  phase                             \* where each scanner is: idle, scan, advance

counterVars == <<epochReading, scanned, unscanned>>
vars == <<epoch, counterVars, rpc, loaded, phase>>

Counters == INSTANCE ThreadCachedReaders

prev == 1 - epoch

Init ==
  /\ Counters!Init
  /\ epoch = 0
  /\ rpc = [r \in Readers |-> "out"]
  /\ loaded = [r \in Readers |-> 0]
  /\ phase = [t \in Scanners |-> "idle"]

-----------------------------------------------------------------------------

LoadEpoch(r) ==
  /\ rpc[r] = "out"
  /\ loaded' = [loaded EXCEPT ![r] = epoch]
  /\ rpc' = [rpc EXCEPT ![r] = "locking"]
  /\ UNCHANGED <<epoch, counterVars, phase>>

StoreMark(r) ==
  /\ rpc[r] = "locking"
  /\ Counters!Increment(r, loaded[r])
  /\ rpc' = [rpc EXCEPT ![r] = "locked"]
  /\ UNCHANGED <<epoch, loaded, phase>>

Unlock(r) ==
  /\ rpc[r] = "locked"
  /\ Counters!Decrement(r)
  /\ rpc' = [rpc EXCEPT ![r] = "out"]
  /\ UNCHANGED <<epoch, loaded, phase>>

\* Mutant of TryAdvance: the scan looks for readers of the current epoch. That
\* is safe, and newcomers can keep the epoch from changing forever.
TryAdvanceCurrent(t) ==
  /\ \A u \in Scanners : phase[u] = "idle"
  /\ Counters!ScanBegin(t, epoch)
  /\ phase' = [phase EXCEPT ![t] = "scan"]
  /\ UNCHANGED <<epoch, rpc, loaded>>

\* retire finds the list long enough and calls epochIsClear.
TryAdvance(t) ==
  /\ \A u \in Scanners : phase[u] = "idle"
  /\ Counters!ScanBegin(t, prev)
  /\ phase' = [phase EXCEPT ![t] = "scan"]
  /\ UNCHANGED <<epoch, rpc, loaded>>

SkipReader(t, r) ==
  /\ phase[t] = "scan"
  /\ Counters!ScanMiss(t, r)
  /\ UNCHANGED <<epoch, rpc, loaded, phase>>

FindReader(t, r) ==
  /\ phase[t] = "scan"
  /\ Counters!ScanHit(t, r)
  /\ phase' = [phase EXCEPT ![t] = "idle"]
  /\ UNCHANGED <<epoch, rpc, loaded>>

\* epochIsClear answers TRUE; retire reclaims.
Clear(t) ==
  /\ phase[t] = "scan"
  /\ Counters!ScanClear(t)
  /\ phase' = [phase EXCEPT ![t] = "advance"]
  /\ UNCHANGED <<epoch, rpc, loaded>>

AdvanceEpoch(t) ==
  /\ phase[t] = "advance"
  /\ epoch' = prev
  /\ phase' = [phase EXCEPT ![t] = "idle"]
  /\ UNCHANGED <<counterVars, rpc, loaded>>

-----------------------------------------------------------------------------

ReaderStep(r) == LoadEpoch(r) \/ StoreMark(r) \/ Unlock(r)

ScanStep(t) ==
  \/ \E r \in Readers : SkipReader(t, r)
  \/ \E r \in Readers : FindReader(t, r)
  \/ Clear(t)
  \/ AdvanceEpoch(t)

Next ==
  \/ \E r \in Readers : ReaderStep(r)
  \/ \E t \in Scanners : TryAdvance(t) \/ ScanStep(t)

Spec == Init /\ [][Next]_vars

\* Readers let go of their pointers, and updates keep coming: there is always
\* another retire. Nobody has to lock.
Fairness ==
  /\ \A r \in Readers : WF_vars(StoreMark(r) \/ Unlock(r))
  /\ \A t \in Scanners : WF_vars(ScanStep(t))
  /\ WF_vars(\E t \in Scanners : TryAdvance(t))

FairSpec == Spec /\ Fairness

-----------------------------------------------------------------------------

\* If updates keep coming and each reader lets go of its pointer, the epoch
\* keeps changing, and every change frees a list of retired objects for reuse.
\* Readers that come and go, the bytes that a scan happens to visit first, and
\* stale marks cannot hold up reclamation for good.
ReclamationNeverStops == \A e \in Counters!Epochs : []<>(epoch = e)

=============================================================================
