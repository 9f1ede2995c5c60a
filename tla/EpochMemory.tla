---------------------------- MODULE EpochMemory ----------------------------
(***************************************************************************)
(* How much memory EpochReclamation takes, and whom it waits for before it *)
(* reclaims. Both are stated with history: whether a scan has ever met a   *)
(* reader of the previous epoch, and who has not left get_ptr and its      *)
(* pointer since the epoch last changed.                                   *)
(***************************************************************************)
EXTENDS EpochInvariant

VARIABLES
  found,  \* a scan has found a reader in the previous epoch
  stayed  \* the readers that have been inside since the last change of the epoch

HistoryInit == Init /\ found = FALSE /\ stayed = {}

Inside == {r \in Readers : rpc[r] # "out"}

GivesUp(t) == phase[t] = "scan" /\ phase'[t] = "idle"

HistoryNext ==
  /\ Next
  /\ found' = (found \/ \E t \in Updaters : GivesUp(t))
  /\ stayed' = IF epoch' = epoch THEN stayed \cap Inside' ELSE Inside'

HistorySpec == HistoryInit /\ [][HistoryNext]_<<vars, found, stayed>>

\* retire gives up only for a reader that was already inside get_ptr, or held
\* its pointer, when the epoch last changed and shows its mark still. Readers
\* that have come since never hold up reclamation, however many there are.
OnlyStayersStopScans ==
  [][\A t \in Updaters : GivesUp(t) => \E r \in stayed : Marked(r)]_<<vars, found, stayed>>

AtMost(S, n) == IsFiniteSet(S) /\ Cardinality(S) <= n

\* As long as no reader stands in the way of a scan, the class keeps at most
\* 2 * cleanupThreshold + 1 objects however many updates run: from then on
\* every private copy comes from the pool. (A reader that keeps its pointer
\* lets the list of the current epoch grow without a bound.)
MemoryIsBounded == ~found => AtMost(Objects \ heap, 2 * CleanupThreshold + 1)

-----------------------------------------------------------------------------
(* The inductive invariant. retire tests only the list of the current      *)
(* epoch, so what bounds the pool is that it was such a list, two changes  *)
(* of the epoch ago.                                                       *)

\* The list of the previous epoch has become the pool, the epoch is about to
\* change.
Advancing == \E t \in Updaters : phase[t] = "advance"

\* The objects that go round in this epoch, through copies and m_ptr into its
\* list, and those that wait for the next.
Working == Copies \cup Outgoing \cup retireLists[epoch]
             \cup IF Advancing THEN {} ELSE finished
Waiting == retireLists[prev] \cup IF Advancing THEN finished ELSE {}

\* Both parts stay within the threshold, and new memory is only taken when the
\* list is below it.
ListsAreBounded ==
  ~found =>
    /\ AtMost(Working, CleanupThreshold)
    /\ AtMost(Waiting, CleanupThreshold)
    /\ Advancing => retireLists[prev] = {}
    /\ NoUpdater => Cardinality(retireLists[epoch]) < CleanupThreshold

\* A reader whose epoch is over has been inside since before the change.
OldReaders == {r \in Inside : loaded[r] # epoch}

MemoryInv == IInv /\ ListsAreBounded /\ OldReaders \subseteq stayed

=============================================================================
