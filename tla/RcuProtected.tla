---------------------------- MODULE RcuProtected ----------------------------
(***************************************************************************)
(* rcu_protected<T> as a whole (include/wbrcu/rcu_protected.hpp): the      *)
(* update protocol composed with the readers and the memory of             *)
(* EpochReclamation, whose actions are the bodies of get_copy, of the      *)
(* exchange of m_ptr and of retire.                                        *)
(*                                                                         *)
(* The content of an object is the set of callbacks that have run on it or *)
(* on the copies it comes from. A callback may call update and get_ptr of  *)
(* the same object. It does not throw here; RcuLifetime adds that.         *)
(***************************************************************************)
EXTENDS Naturals, FiniteSets, Sequences

CONSTANTS
  Readers, Updaters, Objects, Null, CleanupThreshold,
  FlushingThreshold, QueueCapacity, MaxCalls, NoUpdate

VARIABLES
  ptr, epoch, epochReading, scanned, unscanned, retireLists, finished, heap,
  value, rpc, loaded, held, phase, copied, old,
  updateCnt, updateQueue, pc, running, done, expected, unflushed, calls

reclamationVars ==
  <<ptr, epoch, epochReading, scanned, unscanned, retireLists, finished, heap, value,
    rpc, loaded, held, phase, copied, old>>
protocolVars ==
  <<updateCnt, updateQueue, pc, running, done, expected, unflushed, calls>>
vars == <<reclamationVars, protocolVars>>

Protocol == INSTANCE UpdateProtocol

Updates == Protocol!Updates

\* The content of memory that holds no T: no set of updates.
Garbage == {NoUpdate}

Reclamation == INSTANCE EpochReclamation WITH Values <- SUBSET Updates

ASSUME RcuAssumption ==
  /\ IsFiniteSet(Updaters)
  /\ Null \notin Objects
  /\ \A S \in SUBSET Updates : S # Null
  /\ NoUpdate \notin Updates
  /\ CleanupThreshold \in Nat \ {0}
  /\ FlushingThreshold \in Nat
  /\ QueueCapacity \in Nat \ {0}
  /\ MaxCalls \in Nat

Init ==
  /\ Reclamation!Init
  /\ value[ptr] = {}
  /\ Protocol!Init

-----------------------------------------------------------------------------

\* A thread that also reads is sequential: it takes steps of get_ptr only in
\* user code, outside the class or in a callback it runs, and steps of update
\* only outside get_ptr (it may hold a pointer).
InUserCode(t) == t \in Updaters => pc[t] \in {"idle", "callback"}
OutsideGetPtr(t) == t \in Readers => rpc[t] \in {"out", "reading"}

LoadEpoch(r) == InUserCode(r) /\ Reclamation!LoadEpoch(r) /\ UNCHANGED protocolVars
StoreMark(r) == Reclamation!StoreMark(r) /\ UNCHANGED protocolVars
LoadPtr(r) == Reclamation!LoadPtr(r) /\ UNCHANGED protocolVars
Unlock(r) == InUserCode(r) /\ Reclamation!Unlock(r) /\ UNCHANGED protocolVars

ReaderStep(r) == LoadEpoch(r) \/ StoreMark(r) \/ LoadPtr(r) \/ Unlock(r)

\* The call of update, and its fetch_add.
TryRegister(t) ==
  /\ OutsideGetPtr(t)
  /\ Protocol!TryRegister(t)
  /\ UNCHANGED reclamationVars

\* What update and do_updates do with the queue and their locals.
LocalStep(t) ==
  /\ OutsideGetPtr(t)
  /\ Protocol!LocalStep(t)
  /\ UNCHANGED reclamationVars

\* get_copy, called by try_register and by do_updates for its next batch.
GetCopy(t) == Protocol!HaveCopy(t) /\ \E o \in Objects : Reclamation!GetCopy(t, o)

\* The callback has run on the private copy.
RunCallback(t) ==
  /\ Protocol!CallbackReturns(t)
  /\ Reclamation!Apply(t, value[copied[t]] \cup {running[t]})

Publish(t) == Protocol!Publish(t) /\ Reclamation!Publish(t)

\* The call of retire(old_ptr), step by step.
RetireStep(t) ==
  /\ pc[t] = "retire"
  /\ Reclamation!RetireStep(t)
  /\ UNCHANGED protocolVars

\* retire has returned: is there more to do?
CheckStep(t) ==
  /\ phase[t] = "idle"
  /\ Protocol!CheckStep(t)
  /\ UNCHANGED reclamationVars

\* The steps of a thread inside update.
UpdaterStep(t) ==
  LocalStep(t) \/ GetCopy(t) \/ RunCallback(t) \/ Publish(t) \/ RetireStep(t) \/ CheckStep(t)

Next ==
  \/ \E r \in Readers : ReaderStep(r)
  \/ \E t \in Updaters : TryRegister(t) \/ UpdaterStep(t)

Spec == Init /\ [][Next]_vars

\* The scheduler runs every thread that can run inside the class, get_ptr
\* included, and callbacks return, those too that keep calling get_ptr or
\* update. Nobody has to call update, to call get_ptr, or to let go of a
\* pointer.
Fairness ==
  /\ \A t \in Updaters : WF_vars(UpdaterStep(t)) /\ SF_vars(RunCallback(t))
  /\ \A r \in Readers : WF_vars(StoreMark(r) \/ LoadPtr(r))

FairSpec == Spec /\ Fairness

-----------------------------------------------------------------------------
(* Properties *)

Submitted == Protocol!Submitted

\* The variables have their types.
TypeOK == Reclamation!TypeOK /\ Protocol!TypeOK

\* When there is no updater, because none was needed or the last one has
\* returned from update, the published object contains every update passed to
\* update so far, the nested and the enqueued ones too (what the tests
\* NestedUpdates and ConcurrentReadsAndUpdates look at in the end).
NoUpdaterMeansAllPublished ==
  Protocol!Registered = {} => value[ptr] = Submitted

\* A callback never runs on a copy that already has it, and whatever copies
\* and published objects contain respects each thread's order of calls.
RunsOnceInCallOrder ==
  [][\A t \in Updaters : RunCallback(t) =>
       LET u == running[t] IN
       /\ u \in Submitted
       /\ \A k \in 1..MaxCalls : <<u[1], k>> \in value[copied[t]] <=> k < u[2]]_vars

\* A batch that is about to be published has something new in it and at most
\* flushingThreshold updates, one more if it is the first of the registration,
\* with the updater's own.
BatchIsBounded ==
  \A t \in Updaters : pc[t] = "publish" =>
    LET size == Cardinality(value[copied[t]] \ value[ptr])
        isFirst == size = done[t]
    IN /\ size > 0
       /\ FlushingThreshold > 0 =>
            size <= FlushingThreshold + IF isFirst THEN 1 ELSE 0

\* EpochReclamation's ReaderProtection, for get_ptr and update together.
ReaderProtection == Reclamation!ReaderProtection

\* The update protocol provides the single updater that EpochReclamation
\* assumes: every step is a step of that module, whose guard NoUpdater and
\* whose theorems then hold of the class.
ImplementsReclamation == Reclamation!Spec

\* The contract, seen through the published object and the readers' pointers.
Contract == INSTANCE RcuContract WITH
  submitted <- Submitted,
  current <- value[ptr],
  view <- [r \in Readers |-> IF rpc[r] = "reading" THEN value[held[r]] ELSE Null],
  NoView <- Null

\* The class implements its contract: each update is published once, those of
\* one thread in the order of its calls, and a reader sees one version from
\* get_ptr until it lets go.
ImplementsContract == Contract!Spec

\* Every update reaches the readers, whatever pointers readers keep.
EveryUpdateIsPublished ==
  \A u \in Updates : (u \in Submitted) ~> (u \in value[ptr])

=============================================================================
