------------------------ MODULE ThreadCachedReaders ------------------------
(***************************************************************************)
(* Per-thread epoch marks of readers and the scan over them               *)
(* (include/wbrcu/detail/ThreadCachedReaders.hpp).                         *)
(*                                                                         *)
(* Every reader thread owns one byte, epochReading: bit 0 says the thread  *)
(* is in a read-side critical section, bit 1 in which epoch it locked.     *)
(* The byte of a thread that never locked, or that has exited, is not in   *)
(* folly's list; here it is 0, which no scan looks for.                    *)
(*                                                                         *)
(* epochIsClear visits the bytes one at a time while readers keep running, *)
(* so it is a sequence of steps: ScanBegin, then one ScanMiss per byte     *)
(* that differs, until ScanHit (the scan answers FALSE at once, as         *)
(* std::any_of does) or ScanClear (no byte left, it answers TRUE).         *)
(***************************************************************************)
EXTENDS Naturals

CONSTANTS
  Readers,   \* threads that lock and unlock
  Scanners   \* threads that may call epochIsClear

VARIABLES
  epochReading,  \* the byte of each reader
  scanned,       \* the epoch each scanner's running call asks about, or NoCall
  unscanned      \* the readers whose byte that call has yet to visit

vars == <<epochReading, scanned, unscanned>>

-----------------------------------------------------------------------------

Epochs == 0..1
NoCall == 2

\* The bit field of a reader in epoch: (epoch << 1) + 1.
EpochReading(epoch) == 2 * epoch + 1

Bytes == {0} \cup {EpochReading(e) : e \in Epochs}

Init ==
  /\ epochReading = [r \in Readers |-> 0]
  /\ scanned = [s \in Scanners |-> NoCall]
  /\ unscanned = [s \in Scanners |-> {}]

Increment(r, epoch) ==
  /\ epochReading' = [epochReading EXCEPT ![r] = EpochReading(epoch)]
  /\ UNCHANGED <<scanned, unscanned>>

Decrement(r) ==
  /\ epochReading' = [epochReading EXCEPT ![r] = 0]
  /\ UNCHANGED <<scanned, unscanned>>

ScanBegin(s, epoch) ==
  /\ scanned[s] = NoCall
  /\ scanned' = [scanned EXCEPT ![s] = epoch]
  /\ unscanned' = [unscanned EXCEPT ![s] = Readers]
  /\ UNCHANGED epochReading

\* Mutant of ScanMiss: the lambda compares with the bits of the other epoch.
ScanMissOtherEpoch(s, r) ==
  /\ scanned[s] # NoCall
  /\ r \in unscanned[s]
  /\ epochReading[r] # EpochReading(1 - scanned[s])
  /\ unscanned' = [unscanned EXCEPT ![s] = @ \ {r}]
  /\ UNCHANGED <<epochReading, scanned>>

ScanMiss(s, r) ==
  /\ scanned[s] # NoCall
  /\ r \in unscanned[s]
  /\ epochReading[r] # EpochReading(scanned[s])
  /\ unscanned' = [unscanned EXCEPT ![s] = @ \ {r}]
  /\ UNCHANGED <<epochReading, scanned>>

ScanHit(s, r) ==
  /\ scanned[s] # NoCall
  /\ r \in unscanned[s]
  /\ epochReading[r] = EpochReading(scanned[s])
  /\ scanned' = [scanned EXCEPT ![s] = NoCall]
  /\ unscanned' = [unscanned EXCEPT ![s] = {}]
  /\ UNCHANGED epochReading

\* Mutant of ScanClear: it stops at the first byte that differs (all_of is not
\* any_of).
ScanClearEarly(s) ==
  /\ scanned[s] # NoCall
  /\ unscanned[s] # Readers
  /\ scanned' = [scanned EXCEPT ![s] = NoCall]
  /\ unscanned' = [unscanned EXCEPT ![s] = {}]
  /\ UNCHANGED epochReading

ScanClear(s) ==
  /\ scanned[s] # NoCall
  /\ unscanned[s] = {}
  /\ scanned' = [scanned EXCEPT ![s] = NoCall]
  /\ UNCHANGED <<epochReading, unscanned>>

\* The component on its own: a reader locks in either epoch, the epoch it
\* passes may be stale; nested locking is the caller's error and left out.
Next ==
  \/ \E r \in Readers, e \in Epochs : epochReading[r] = 0 /\ Increment(r, e)
  \/ \E r \in Readers : epochReading[r] # 0 /\ Decrement(r)
  \/ \E s \in Scanners, e \in Epochs : ScanBegin(s, e)
  \/ \E s \in Scanners, r \in Readers : ScanMiss(s, r) \/ ScanHit(s, r)
  \/ \E s \in Scanners : ScanClear(s)

Spec == Init /\ [][Next]_vars

-----------------------------------------------------------------------------

\* The variables have their types; a thread outside epochIsClear has nothing
\* left to visit.
TypeOK ==
  /\ epochReading \in [Readers -> Bytes]
  /\ scanned \in [Scanners -> Epochs \cup {NoCall}]
  /\ unscanned \in [Scanners -> SUBSET Readers]
  /\ \A s \in Scanners : scanned[s] = NoCall => unscanned[s] = {}

=============================================================================
