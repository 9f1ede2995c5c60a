------------------------- MODULE EpochMemoryProofs -------------------------
(***************************************************************************)
(* Proofs that the pool feeds the copies, so that while no scan meets a    *)
(* reader the class keeps at most 2 * cleanupThreshold + 1 objects, and    *)
(* that a scan stops for no newcomer, for any readers, updaters, objects   *)
(* and threshold.                                                          *)
(***************************************************************************)
EXTENDS EpochMemory, EpochReclamationProofs, FiniteSetTheorems

-----------------------------------------------------------------------------
(* Bounds on sets *)

LEMMA AtMostSubset ==
  ASSUME NEW S, NEW n \in Nat, AtMost(S, n), NEW T, T \subseteq S
  PROVE  AtMost(T, n)
<1>1. IsFiniteSet(T) /\ Cardinality(T) <= Cardinality(S)
  BY FS_Subset DEF AtMost
<1>2. Cardinality(T) \in Nat /\ Cardinality(S) \in Nat
  BY <1>1, FS_CardinalityType DEF AtMost
<1> QED BY <1>1, <1>2 DEF AtMost

LEMMA AtMostAdd ==
  ASSUME NEW S, NEW n \in Nat, AtMost(S, n), NEW x
  PROVE  AtMost(S \cup {x}, n + 1)
<1>1. /\ IsFiniteSet(S \cup {x})
      /\ Cardinality(S \cup {x}) \in {Cardinality(S), Cardinality(S) + 1}
  BY FS_AddElement DEF AtMost
<1>2. Cardinality(S) \in Nat
  BY FS_CardinalityType DEF AtMost
<1> QED BY <1>1, <1>2 DEF AtMost

LEMMA AtMostSwap ==
  ASSUME NEW S, NEW n \in Nat, AtMost(S, n), NEW x \in S, NEW y
  PROVE  AtMost((S \ {x}) \cup {y}, n)
<1>1. IsFiniteSet(S \ {x}) /\ Cardinality(S \ {x}) = Cardinality(S) - 1
  BY FS_RemoveElement DEF AtMost
<1>2. /\ IsFiniteSet((S \ {x}) \cup {y})
      /\ Cardinality((S \ {x}) \cup {y}) \in {Cardinality(S \ {x}), Cardinality(S \ {x}) + 1}
  BY <1>1, FS_AddElement
<1>3. Cardinality(S) \in Nat
  BY FS_CardinalityType DEF AtMost
<1> QED BY <1>1, <1>2, <1>3 DEF AtMost

LEMMA AtMostUnion ==
  ASSUME NEW S, NEW m \in Nat, AtMost(S, m), NEW T, NEW n \in Nat, AtMost(T, n)
  PROVE  AtMost(S \cup T, m + n)
<1>1. /\ IsFiniteSet(S \cup T) /\ IsFiniteSet(S \cap T)
      /\ Cardinality(S \cup T) = Cardinality(S) + Cardinality(T) - Cardinality(S \cap T)
  <2>1. IsFiniteSet(S \cup T)
        /\ Cardinality(S \cup T) = Cardinality(S) + Cardinality(T) - Cardinality(S \cap T)
    BY FS_Union DEF AtMost
  <2>2. IsFiniteSet(S \cap T)
    BY FS_Subset, S \cap T \in SUBSET S DEF AtMost
  <2> QED BY <2>1, <2>2
<1>2. /\ Cardinality(S) \in Nat /\ Cardinality(T) \in Nat
      /\ Cardinality(S \cap T) \in Nat /\ Cardinality(S \cup T) \in Nat
  BY <1>1, FS_CardinalityType DEF AtMost
<1> QED BY <1>1, <1>2 DEF AtMost

-----------------------------------------------------------------------------
(* What the phases say of the updater's sets. *)

LEMMA AloneInAdvance ==
  ASSUME IInv, NEW t \in Updaters, phase[t] \in {"scan", "advance"}
  PROVE  Copies = {} /\ Outgoing = {}
BY ReclamationAssumption DEF IInv, OneUpdater, PhasesAreTrue, TypeOK, Copies, Outgoing

LEMMA AloneWithCopy ==
  ASSUME IInv, NEW t \in Updaters, phase[t] = "private"
  PROVE  Copies = {copied[t]} /\ Outgoing = {} /\ copied[t] \in Objects
BY ReclamationAssumption DEF IInv, OneUpdater, PhasesAreTrue, TypeOK, Copies, Outgoing

LEMMA AloneWithOld ==
  ASSUME IInv, NEW t \in Updaters, phase[t] = "retire"
  PROVE  Copies = {} /\ Outgoing = {old[t]} /\ old[t] \in Objects
BY ReclamationAssumption DEF IInv, OneUpdater, PhasesAreTrue, TypeOK, Copies, Outgoing

LEMMA NobodyUpdates ==
  ASSUME IInv, NoUpdater
  PROVE  Copies = {} /\ Outgoing = {} /\ ~Advancing
BY ReclamationAssumption
DEF IInv, NoUpdater, PhasesAreTrue, TypeOK, Copies, Outgoing, Advancing

LEMMA OnlyAdvancer ==
  ASSUME IInv, NEW t \in Updaters, phase[t] # "idle"
  PROVE  Advancing <=> phase[t] = "advance"
BY DEF IInv, OneUpdater, Advancing

\* A reader's step changes nothing that is counted.
LEMMA ReaderKeepsMemory ==
  ASSUME NEW r \in Readers, ReaderStep(r)
  PROVE  UNCHANGED <<objectVars, epoch, updaterVars>>
BY DEF ReaderStep, LoadEpoch, StoreMark, LoadPtr, Unlock,
       objectVars, counterVars, readerVars, updaterVars

LEMMA SameMemory ==
  ASSUME ListsAreBounded, ~found' => ~found, UNCHANGED <<objectVars, epoch, updaterVars>>
  PROVE  ListsAreBounded'
BY DEF ListsAreBounded, Working, Waiting, Advancing, NoUpdater, AtMost, Copies,
       Outgoing, prev, objectVars, updaterVars

-----------------------------------------------------------------------------
(* The inductive invariant *)

LEMMA BoundsInit == HistoryInit => ListsAreBounded
<1> SUFFICES ASSUME HistoryInit PROVE ListsAreBounded
  OBVIOUS
<1>1. Working = {} /\ Waiting = {} /\ ~Advancing /\ retireLists[epoch] = {}
  BY DEF HistoryInit, Init, Working, Waiting, Advancing, Copies, Outgoing, Epochs, prev
<1> QED
  BY <1>1, FS_EmptySet, ReclamationAssumption DEF ListsAreBounded, AtMost

LEMMA BoundsStep ==
  ASSUME MemoryInv, HistoryNext
  PROVE  ListsAreBounded'
<1> SUFFICES ASSUME ~found' PROVE ListsAreBounded'
  BY DEF ListsAreBounded
<1>0. CleanupThreshold \in Nat \ {0} /\ IInv /\ Next
  BY ReclamationAssumption DEF MemoryInv, HistoryNext
<1>a. /\ AtMost(Working, CleanupThreshold)
      /\ AtMost(Waiting, CleanupThreshold)
      /\ Advancing => retireLists[prev] = {}
      /\ NoUpdater => Cardinality(retireLists[epoch]) < CleanupThreshold
  BY DEF MemoryInv, ListsAreBounded, HistoryNext
<1>b. /\ ~found
      /\ \A t \in Updaters : ~(phase[t] = "scan" /\ phase'[t] = "idle")
  BY DEF HistoryNext, GivesUp
<1>c. /\ epoch \in {0, 1} /\ prev \in {0, 1} /\ prev # epoch
      /\ retireLists \in [{0, 1} -> SUBSET Objects]
      /\ DOMAIN phase = Updaters /\ DOMAIN copied = Updaters /\ DOMAIN old = Updaters
  BY <1>0 DEF IInv, TypeOK, Epochs, prev
<1>1. ASSUME NEW r \in Readers, ReaderStep(r) PROVE ListsAreBounded'
  BY <1>1, <1>b, ReaderKeepsMemory, SameMemory DEF MemoryInv
<1>2. ASSUME NEW t \in Updaters, NoUpdater, NEW o \in Objects, GetCopy(t, o)
      PROVE  ListsAreBounded'
  <2>1. Copies = {} /\ Outgoing = {} /\ ~Advancing
    BY <1>0, <1>2, NobodyUpdates
  <2>2. Copies' \subseteq {o} /\ Outgoing' = {} /\ ~Advancing' /\ ~NoUpdater'
    BY <2>1, <1>c, <1>2 DEF GetCopy, At, Copies, Outgoing, Advancing, NoUpdater
  <2>3. Waiting' = Waiting
    BY <1>2, <2>1, <2>2 DEF GetCopy, Waiting, prev
  <2>4. CASE o \in finished
    <3>1. Working' \subseteq Working
      BY <1>2, <2>1, <2>2, <2>4 DEF GetCopy, Working
    <3>2. AtMost(Working', CleanupThreshold)
      BY <1>0, <1>a, <3>1, AtMostSubset
    <3> QED BY <1>a, <2>2, <2>3, <3>2 DEF ListsAreBounded, AtMost
  <2>5. CASE finished = {}
    \* The pool is empty, so the list is all there is, and it is short.
    <3>1. Working = retireLists[epoch]
      BY <2>1, <2>5 DEF Working
    <3>2. AtMost(Working, CleanupThreshold - 1)
      BY <1>0, <1>2, <1>a, <3>1, FS_CardinalityType DEF AtMost
    <3>3. AtMost(Working \cup {o}, CleanupThreshold)
      BY <1>0, <3>2, AtMostAdd, CleanupThreshold - 1 \in Nat,
         (CleanupThreshold - 1) + 1 = CleanupThreshold
    <3>4. Working' \subseteq Working \cup {o}
      BY <1>2, <2>1, <2>2, <2>5 DEF GetCopy, Working
    <3>5. AtMost(Working', CleanupThreshold)
      BY <1>0, <3>3, <3>4, AtMostSubset
    <3> QED BY <1>a, <2>2, <2>3, <3>5 DEF ListsAreBounded, AtMost
  <2> QED BY <1>2, <2>4, <2>5 DEF GetCopy
<1>3. ASSUME NEW t \in Updaters, NEW v \in Values, Apply(t, v) PROVE ListsAreBounded'
  <2>1. UNCHANGED <<ptr, retireLists, finished, heap, epoch, updaterVars>>
    BY <1>3 DEF Apply
  <2> QED
    BY <2>1, <1>b DEF MemoryInv, ListsAreBounded, Working, Waiting, Advancing, NoUpdater,
                 AtMost, Copies, Outgoing, prev, updaterVars
<1>4. ASSUME NEW t \in Updaters, Publish(t) PROVE ListsAreBounded'
  \* The copy goes to m_ptr and what was there takes its place.
  <2>1. Copies = {copied[t]} /\ Outgoing = {} /\ ~Advancing
    BY <1>0, <1>4, AloneWithCopy, OnlyAdvancer DEF Publish, At
  <2>2. Copies' = {} /\ Outgoing' \subseteq {ptr} /\ ~Advancing' /\ ~NoUpdater'
    <3>1. \A u \in Updaters : u # t => phase[u] = "idle" /\ copied[u] = Null /\ old[u] = Null
      BY <1>0, <1>4 DEF Publish, At, IInv, OneUpdater, PhasesAreTrue
    <3>2. /\ copied'[t] = Null /\ old'[t] = ptr /\ phase'[t] = "retire"
          /\ \A u \in Updaters : u # t =>
               copied'[u] = copied[u] /\ old'[u] = old[u] /\ phase'[u] = phase[u]
      BY <1>4, <1>c DEF Publish
    <3> QED BY <3>1, <3>2 DEF Copies, Outgoing, Advancing, NoUpdater
  <2>3. Waiting' = Waiting
    BY <1>4, <2>1, <2>2 DEF Publish, Waiting, prev
  <2>4. copied[t] \in Working
    BY <2>1 DEF Working
  <2>5. copied[t] \notin retireLists[epoch] \cup finished
    BY <1>0, <1>c, <2>1 DEF IInv, EveryObjectHasOneOwner
  <2>6. Working' \subseteq (Working \ {copied[t]}) \cup {ptr}
    BY <1>4, <2>1, <2>2, <2>5 DEF Publish, Working
  <2>7. AtMost(Working', CleanupThreshold)
    BY <1>0, <1>a, <2>4, <2>6, AtMostSwap, AtMostSubset
  <2> QED BY <1>a, <2>2, <2>3, <2>7 DEF ListsAreBounded, AtMost
<1>5. ASSUME NEW t \in Updaters, Retire(t) PROVE ListsAreBounded'
  <2>1. Copies = {} /\ Outgoing = {old[t]} /\ ~Advancing
    BY <1>0, <1>5, AloneWithOld, OnlyAdvancer DEF Retire, At
  <2>2. \A u \in Updaters : u # t => phase[u] = "idle" /\ copied[u] = Null /\ old[u] = Null
    BY <1>0, <1>5 DEF Retire, At, IInv, OneUpdater, PhasesAreTrue
  <2>3. /\ copied' = copied /\ old'[t] = Null /\ phase'[t] \in {"idle", "scan"}
        /\ \A u \in Updaters : u # t => old'[u] = old[u] /\ phase'[u] = phase[u]
    BY <1>5, <1>c DEF Retire
  <2>4. Copies' = {} /\ Outgoing' = {} /\ ~Advancing'
    BY <2>1, <2>2, <2>3 DEF Copies, Outgoing, Advancing
  <2>5. /\ retireLists'[epoch] = retireLists[epoch] \cup {old[t]}
        /\ retireLists'[prev] = retireLists[prev]
        /\ UNCHANGED <<epoch, finished>>
    BY <1>5, <1>c DEF Retire
  <2>6. Working' = Working /\ Waiting' = Waiting
    BY <2>1, <2>4, <2>5 DEF Working, Waiting, prev
  <2>7. NoUpdater' => Cardinality(retireLists'[epoch]) < CleanupThreshold
    <3>1. NoUpdater' => phase'[t] = "idle"
      BY DEF NoUpdater
    <3> QED BY <1>5, <2>5, <3>1, <1>c DEF Retire
  <2> QED BY <1>a, <2>4, <2>5, <2>6, <2>7 DEF ListsAreBounded, AtMost
<1>6. ASSUME NEW t \in Updaters, NEW r \in Readers, SkipReader(t, r)
      PROVE  ListsAreBounded'
  BY <1>6, <1>b, SameMemory DEF SkipReader, MemoryInv
<1>7. ASSUME NEW t \in Updaters, NEW r \in Readers, FindReader(t, r)
      PROVE  ListsAreBounded'
  \* This is what found would tell.
  BY <1>7, <1>b, <1>c DEF FindReader, At
<1>8. ASSUME NEW t \in Updaters, Reclaim(t) PROVE ListsAreBounded'
  \* The pool, which belonged to this epoch, is deleted; the list that waited
  \* becomes the pool and goes on waiting for the change of the epoch.
  <2>1. Copies = {} /\ Outgoing = {} /\ ~Advancing
    BY <1>0, <1>8, AloneInAdvance, OnlyAdvancer DEF Reclaim, At
  <2>2. phase'[t] = "advance" /\ UNCHANGED <<copied, old, epoch>>
    BY <1>8, <1>c DEF Reclaim
  <2>3. Copies' = {} /\ Outgoing' = {} /\ Advancing' /\ ~NoUpdater'
    BY <2>1, <2>2 DEF Copies, Outgoing, Advancing, NoUpdater
  <2>4. /\ retireLists'[epoch] = retireLists[epoch] /\ retireLists'[prev] = {}
        /\ finished' = retireLists[prev]
    BY <1>8, <1>c DEF Reclaim
  <2>5. Waiting' = Waiting /\ Working' \subseteq Working
    BY <2>1, <2>2, <2>3, <2>4 DEF Working, Waiting, prev
  <2>6. AtMost(Working', CleanupThreshold)
    BY <1>0, <1>a, <2>5, AtMostSubset
  <2> QED BY <1>a, <2>2, <2>3, <2>4, <2>5, <2>6 DEF ListsAreBounded, AtMost, prev
<1>9. ASSUME NEW t \in Updaters, AdvanceEpoch(t) PROVE ListsAreBounded'
  \* The two parts change places.
  <2>1. Copies = {} /\ Outgoing = {} /\ Advancing
    BY <1>0, <1>9, AloneInAdvance, OnlyAdvancer DEF AdvanceEpoch, At
  <2>2. \A u \in Updaters : u # t => phase[u] = "idle"
    BY <1>0, <1>9 DEF AdvanceEpoch, At, IInv, OneUpdater
  <2>3. /\ phase'[t] = "idle" /\ \A u \in Updaters : u # t => phase'[u] = phase[u]
        /\ UNCHANGED <<copied, old, retireLists, finished>> /\ epoch' = prev
    BY <1>9, <1>c DEF AdvanceEpoch, objectVars
  <2>4. Copies' = {} /\ Outgoing' = {} /\ ~Advancing' /\ prev' = epoch
    BY <2>1, <2>2, <2>3, <1>c DEF Copies, Outgoing, Advancing, prev
  <2>5. retireLists'[epoch'] = {}
    BY <1>a, <2>1, <2>3
  <2>6. Working' = Waiting /\ Waiting' = Working
    BY <1>a, <2>1, <2>3, <2>4 DEF Working, Waiting
  <2> QED
    BY <1>0, <1>a, <2>4, <2>5, <2>6, FS_EmptySet DEF ListsAreBounded, AtMost
<1> QED
  BY <1>0, <1>1, <1>2, <1>3, <1>4, <1>5, <1>6, <1>7, <1>8, <1>9
  DEF Next, UpdaterStep, RetireStep

-----------------------------------------------------------------------------
(* Who can hold up reclamation *)

\* Until the epoch changes, old readers can only leave: one that arrives loads
\* the current epoch, so it is none of them.
LEMMA OldReadersStep ==
  ASSUME TypeOK, Next, epoch' = epoch
  PROVE  OldReaders' \subseteq OldReaders
<1> USE DEF TypeOK, OldReaders, Inside, objectVars, counterVars, readerVars, updaterVars
<1>1. ASSUME NEW r \in Readers, LoadEpoch(r) PROVE OldReaders' \subseteq OldReaders
  BY <1>1 DEF LoadEpoch
<1>2. ASSUME NEW r \in Readers, StoreMark(r) PROVE OldReaders' \subseteq OldReaders
  BY <1>2 DEF StoreMark
<1>3. ASSUME NEW r \in Readers, LoadPtr(r) PROVE OldReaders' \subseteq OldReaders
  BY <1>3 DEF LoadPtr
<1>4. ASSUME NEW r \in Readers, Unlock(r) PROVE OldReaders' \subseteq OldReaders
  BY <1>4 DEF Unlock
<1>5. ASSUME UNCHANGED readerVars PROVE OldReaders' \subseteq OldReaders
  BY <1>5
<1> QED
  BY <1>1, <1>2, <1>3, <1>4, <1>5, NextCases
  DEF GetCopy, Apply, Publish, Retire, SkipReader, FindReader, Reclaim, AdvanceEpoch

LEMMA StayedStep ==
  ASSUME MemoryInv, HistoryNext
  PROVE  OldReaders' \subseteq stayed'
<1>1. OldReaders' \subseteq Inside'
  BY DEF OldReaders
<1>2. CASE epoch' = epoch
  <2>1. OldReaders' \subseteq OldReaders /\ OldReaders \subseteq stayed
    BY <1>2, OldReadersStep DEF MemoryInv, IInv, HistoryNext
  <2>2. stayed' = stayed \cap Inside'
    BY <1>2 DEF HistoryNext
  <2> QED BY <1>1, <2>1, <2>2
<1>3. CASE epoch' # epoch
  BY <1>1, <1>3 DEF HistoryNext
<1> QED BY <1>2, <1>3

\* Nothing but the mark of such a reader ends a scan early.
LEMMA StopStep ==
  ASSUME TypeOK, MarksAreTrue, PhasesAreTrue, Next,
         NEW t \in Updaters, phase[t] = "scan", phase'[t] = "idle"
  PROVE  \E r \in OldReaders : Marked(r)
<1> DEFINE Stopped == \E r \in OldReaders : Marked(r)
<1> USE DEF TypeOK, Phases, objectVars, counterVars, readerVars, updaterVars, At
<1>1. ASSUME NEW u \in Updaters, NEW r \in Readers, FindReader(u, r) PROVE Stopped
  <2>1. u = t
    BY <1>1 DEF FindReader
  <2>2. scanned[t] = prev /\ epochReading[r] = Counters!EpochReading(prev)
    BY <1>1, <2>1 DEF FindReader, Counters!ScanHit, PhasesAreTrue
  \* The byte is not 0, and shows the epoch r has loaded.
  <2>3. Marked(r) /\ loaded[r] = prev
    BY <2>2 DEF MarksAreTrue, Counters!EpochReading, prev, Epochs
  <2> QED
    BY <2>3 DEF OldReaders, Inside, Marked, prev, Epochs
<1>2. ASSUME NEW u \in Updaters, Retire(u) \/ AdvanceEpoch(u) \/ Reclaim(u)
      PROVE  Stopped
  \* Only u's phase changes; where it was scanning, it is not idle now.
  BY <1>2 DEF Retire, AdvanceEpoch, Reclaim
<1>3. ASSUME NEW u \in Updaters, NEW o \in Objects, GetCopy(u, o) PROVE Stopped
  BY <1>3 DEF GetCopy
<1>4. ASSUME NEW u \in Updaters, Publish(u) PROVE Stopped
  BY <1>4 DEF Publish
<1>5. ASSUME UNCHANGED updaterVars PROVE Stopped
  BY <1>5
<1> HIDE DEF Stopped
<1>6. Stopped
  BY <1>1, <1>2, <1>3, <1>4, <1>5, NextCases
  DEF LoadEpoch, StoreMark, LoadPtr, Unlock, Apply, SkipReader
<1> QED BY <1>6 DEF Stopped

-----------------------------------------------------------------------------
(* The theorems *)

\* In every reachable state both parts of the memory stay within the threshold.
THEOREM MemoryInvariant == HistorySpec => []MemoryInv
<1>1. HistoryInit => MemoryInv
  BY BoundsInit, InvariantInit DEF MemoryInv, HistoryInit, OldReaders, Inside, Init
<1>2. MemoryInv /\ [HistoryNext]_<<vars, found, stayed>> => MemoryInv'
  <2> SUFFICES ASSUME MemoryInv, [HistoryNext]_<<vars, found, stayed>> PROVE MemoryInv'
    OBVIOUS
  <2>1. IInv'
    BY InvariantStep DEF MemoryInv, HistoryNext
  <2>2. CASE HistoryNext
    BY <2>1, <2>2, BoundsStep, StayedStep DEF MemoryInv
  <2>3. CASE UNCHANGED <<vars, found, stayed>>
    <3>1. ListsAreBounded'
      BY <2>3, SameMemory DEF MemoryInv, vars
    <3>2. OldReaders' = OldReaders /\ stayed' = stayed
      BY <2>3 DEF OldReaders, Inside, vars, readerVars
    <3> QED BY <2>1, <3>1, <3>2 DEF MemoryInv
  <2> QED BY <2>2, <2>3
<1> QED BY <1>1, <1>2, PTL DEF HistorySpec

\* While no reader stands in the way of a scan, no more than
\* 2 * cleanupThreshold + 1 objects exist, however many updates are published.
THEOREM MemoryStaysBounded == HistorySpec => []MemoryIsBounded
<1>1. MemoryInv => MemoryIsBounded
  <2> SUFFICES ASSUME MemoryInv, ~found
               PROVE  AtMost(Objects \ heap, 2 * CleanupThreshold + 1)
    BY DEF MemoryIsBounded
  <2>1. CleanupThreshold \in Nat /\ epoch \in {0, 1} /\ prev = 1 - epoch
    BY ReclamationAssumption DEF MemoryInv, IInv, TypeOK, Epochs, prev
  <2>2. AtMost(Working, CleanupThreshold) /\ AtMost(Waiting, CleanupThreshold)
    BY DEF MemoryInv, ListsAreBounded
  <2>3. AtMost(Working \cup Waiting, CleanupThreshold + CleanupThreshold)
    BY <2>1, <2>2, AtMostUnion
  <2>4. AtMost((Working \cup Waiting) \cup {ptr}, 2 * CleanupThreshold + 1)
    BY <2>1, <2>3, AtMostAdd, CleanupThreshold + CleanupThreshold \in Nat,
       CleanupThreshold + CleanupThreshold + 1 = 2 * CleanupThreshold + 1
  <2>5. Objects \ heap \subseteq (Working \cup Waiting) \cup {ptr}
    BY <2>1 DEF MemoryInv, IInv, EveryObjectHasOneOwner, Working, Waiting
  <2> QED BY <2>1, <2>4, <2>5, AtMostSubset
<1> QED BY <1>1, MemoryInvariant, PTL

\* retire gives up its scan only for a reader that has been inside since the
\* epoch last changed: newcomers never hold up reclamation.
THEOREM NewcomersStopNoScan == HistorySpec => OnlyStayersStopScans
<1>1. MemoryInv /\ HistoryNext =>
        \A t \in Updaters : GivesUp(t) => \E r \in stayed : Marked(r)
  BY StopStep DEF MemoryInv, IInv, HistoryNext, GivesUp
<1> QED BY <1>1, MemoryInvariant, PTL DEF HistorySpec, OnlyStayersStopScans

=============================================================================
