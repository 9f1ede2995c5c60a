--------------------------- MODULE ScanSoundness ---------------------------
(***************************************************************************)
(* What a caller of epochIsClear may rely on. The scan is not a snapshot:  *)
(* when it answers TRUE a reader may already be back in the epoch. It does *)
(* promise that nobody who was in the epoch when the call began has stayed *)
(* in it. The history variable stayed records those readers.               *)
(***************************************************************************)
EXTENDS ThreadCachedReaders

VARIABLE stayed  \* per scanner: in the epoch since the call began, all along

InEpoch(e) == {r \in Readers : epochReading[r] = EpochReading(e)}

HInit == Init /\ stayed = [s \in Scanners |-> {}]

HNext ==
  /\ Next
  /\ stayed' = [s \in Scanners |->
       CASE scanned'[s] = NoCall -> {}
         [] scanned[s] = NoCall /\ scanned'[s] # NoCall -> InEpoch(scanned'[s])
         [] OTHER -> {r \in stayed[s] : epochReading'[r] = EpochReading(scanned[s])}]

HSpec == HInit /\ [][HNext]_<<vars, stayed>>

-----------------------------------------------------------------------------

\* A reader that has stayed in the epoch since epochIsClear was called is
\* still ahead of the scan: the scan cannot have passed it by.
StayersAreAhead ==
  \A s \in Scanners : scanned[s] # NoCall => stayed[s] \subseteq unscanned[s]

\* When epochIsClear answers TRUE, nobody has been in the epoch throughout.
ClearMeansNobodyStayed ==
  [][\A s \in Scanners : ScanClear(s) => stayed[s] = {}]_<<vars, stayed>>

=============================================================================
