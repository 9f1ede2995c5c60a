-------------------------- MODULE EpochReclamation --------------------------
(***************************************************************************)
(* Reader-reclaimer synchronisation of rcu_protected<T>                    *)
(* (include/wbrcu/rcu_protected.hpp): the published pointer, the epoch     *)
(* bit, the two retire lists and the object pool, with get_ptr on the      *)
(* reader's side and get_copy, the exchange of m_ptr and retire on the     *)
(* updater's. The reader marks are those of ThreadCachedReaders.           *)
(*                                                                         *)
(* One step is one access to state another thread may see; steps of all    *)
(* threads interleave in one order that all threads see (sequential        *)
(* consistency, stronger than the memory orders the code asks for).        *)
(*                                                                         *)
(* That there is one updater at a time is an assumption here (NoUpdater    *)
(* in Next); the m_updateCnt protocol that provides it is RcuProtected's.  *)
(***************************************************************************)
EXTENDS Naturals, FiniteSets

CONSTANTS
  Readers,          \* threads that call get_ptr
  Updaters,         \* threads that call update; may overlap Readers
  Objects,          \* addresses an object of type T can have
  Values,           \* contents a T can have
  Garbage,          \* content of memory that holds no T
  Null,             \* no object
  CleanupThreshold  \* cleanupThreshold, the hardware concurrency

ASSUME ReclamationAssumption ==
  /\ Null \notin Objects
  /\ Garbage \notin Values
  /\ CleanupThreshold \in Nat \ {0}

VARIABLES
  ptr,           \* m_ptr
  epoch,         \* m_epoch
  epochReading,  \* m_counters: the reader marks
  scanned,       \* m_counters: the running epochIsClear call
  unscanned,     \* m_counters: what that call has yet to visit
  retireLists,   \* m_retireLists, each list as the set of its objects
  finished,      \* m_finished, as the set of its objects
  heap,          \* memory that is not allocated
  value,         \* the content of each object
  rpc,           \* where each reader is in get_ptr
  loaded,        \* the epoch its rcu_read_lock loaded
  held,          \* the pointer its unique_ptr owns
  phase,         \* where each updater is
  copied,        \* its private copy
  old            \* what its exchange returned

counterVars == <<epochReading, scanned, unscanned>>
readerVars == <<rpc, loaded, held>>
objectVars == <<ptr, retireLists, finished, heap, value>>
updaterVars == <<phase, copied, old>>
vars == <<objectVars, epoch, counterVars, readerVars, updaterVars>>

Counters == INSTANCE ThreadCachedReaders WITH Scanners <- Updaters

Epochs == 0..1
prev == 1 - epoch

-----------------------------------------------------------------------------

Init ==
  /\ Counters!Init
  /\ epoch = 0
  /\ ptr \in Objects
  /\ heap = Objects \ {ptr}
  /\ \E v \in Values : value = [o \in Objects |-> IF o = ptr THEN v ELSE Garbage]
  /\ retireLists = [e \in Epochs |-> {}]
  /\ finished = {}
  /\ rpc = [r \in Readers |-> "out"]
  /\ loaded = [r \in Readers |-> 0]
  /\ held = [r \in Readers |-> Null]
  /\ phase = [t \in Updaters |-> "idle"]
  /\ copied = [t \in Updaters |-> Null]
  /\ old = [t \in Updaters |-> Null]

-----------------------------------------------------------------------------
(* get_ptr and the deleter of the pointer it returns. A thread that also   *)
(* updates calls get_ptr from its own code: outside update, or inside a    *)
(* callback while it owns a private copy.                                  *)

InUserCode(r) == r \in Updaters => phase[r] \in {"idle", "private"}

LoadEpoch(r) ==
  /\ rpc[r] = "out"
  /\ InUserCode(r)
  /\ loaded' = [loaded EXCEPT ![r] = epoch]
  /\ rpc' = [rpc EXCEPT ![r] = "locking"]
  /\ UNCHANGED <<objectVars, epoch, counterVars, held, updaterVars>>

StoreMark(r) ==
  /\ rpc[r] = "locking"
  /\ Counters!Increment(r, loaded[r])
  /\ rpc' = [rpc EXCEPT ![r] = "locked"]
  /\ UNCHANGED <<objectVars, epoch, loaded, held, updaterVars>>

\* Mutant of LoadPtr: the mark is cleared before the pointer is let go of.
LoadPtrUnmarked(r) ==
  /\ rpc[r] = "locked"
  /\ held' = [held EXCEPT ![r] = ptr]
  /\ rpc' = [rpc EXCEPT ![r] = "reading"]
  /\ Counters!Decrement(r)
  /\ UNCHANGED <<objectVars, epoch, loaded, updaterVars>>

LoadPtr(r) ==
  /\ rpc[r] = "locked"
  /\ held' = [held EXCEPT ![r] = ptr]
  /\ rpc' = [rpc EXCEPT ![r] = "reading"]
  /\ UNCHANGED <<objectVars, epoch, counterVars, loaded, updaterVars>>

Unlock(r) ==
  /\ rpc[r] = "reading"
  /\ InUserCode(r)
  /\ Counters!Decrement(r)
  /\ held' = [held EXCEPT ![r] = Null]
  /\ rpc' = [rpc EXCEPT ![r] = "out"]
  /\ UNCHANGED <<objectVars, epoch, loaded, updaterVars>>

-----------------------------------------------------------------------------
(* The updater. A thread is sequential: it is not in the middle of get_ptr *)
(* while it takes one of these steps (it may hold a pointer, though).      *)

At(t, ph) ==
  /\ phase[t] = ph
  /\ t \in Readers => rpc[t] \in {"out", "reading"}

\* Mutant of GetCopy: memory from the pool is not assigned the current content.
GetCopyUnassigned(t, o) ==
  /\ At(t, "idle")
  /\ \/ /\ finished = {} /\ o \in heap /\ heap' = heap \ {o} /\ UNCHANGED finished
        /\ value' = [value EXCEPT ![o] = value[ptr]]
     \/ o \in finished /\ finished' = finished \ {o} /\ UNCHANGED <<heap, value>>
  /\ copied' = [copied EXCEPT ![t] = o]
  /\ phase' = [phase EXCEPT ![t] = "private"]
  /\ UNCHANGED <<ptr, retireLists, epoch, counterVars, readerVars, old>>

\* get_copy: the memory is o, from the pool if it has any, else new.
GetCopy(t, o) ==
  /\ At(t, "idle")
  /\ \/ finished = {} /\ o \in heap /\ heap' = heap \ {o} /\ UNCHANGED finished
     \/ o \in finished /\ finished' = finished \ {o} /\ UNCHANGED heap
  /\ value' = [value EXCEPT ![o] = value[ptr]]
  /\ copied' = [copied EXCEPT ![t] = o]
  /\ phase' = [phase EXCEPT ![t] = "private"]
  /\ UNCHANGED <<ptr, retireLists, epoch, counterVars, readerVars, old>>

\* A callback leaves v in the private copy.
Apply(t, v) ==
  /\ At(t, "private")
  /\ value' = [value EXCEPT ![copied[t]] = v]
  /\ UNCHANGED <<ptr, retireLists, finished, heap, epoch, counterVars, readerVars,
                 updaterVars>>

\* m_ptr.exchange(copied).
Publish(t) ==
  /\ At(t, "private")
  /\ ptr' = copied[t]
  /\ old' = [old EXCEPT ![t] = ptr]
  /\ copied' = [copied EXCEPT ![t] = Null]
  /\ phase' = [phase EXCEPT ![t] = "retire"]
  /\ UNCHANGED <<retireLists, finished, heap, value, epoch, counterVars, readerVars>>

\* Mutant of Retire: it scans only when the list exceeds the threshold (as the
\* checkpoint documents describe it).
RetireAboveThreshold(t) ==
  LET list == retireLists[epoch] \cup {old[t]} IN
  /\ At(t, "retire")
  /\ retireLists' = [retireLists EXCEPT ![epoch] = list]
  /\ old' = [old EXCEPT ![t] = Null]
  /\ \/ /\ Cardinality(list) <= CleanupThreshold
        /\ phase' = [phase EXCEPT ![t] = "idle"]
        /\ UNCHANGED counterVars
     \/ /\ Cardinality(list) > CleanupThreshold
        /\ Counters!ScanBegin(t, prev)
        /\ phase' = [phase EXCEPT ![t] = "scan"]
  /\ UNCHANGED <<ptr, finished, heap, value, epoch, readerVars, copied>>

\* Mutant of Retire: it scans for readers of the wrong epoch.
RetireScansCurrent(t) ==
  LET list == retireLists[epoch] \cup {old[t]} IN
  /\ At(t, "retire")
  /\ retireLists' = [retireLists EXCEPT ![epoch] = list]
  /\ old' = [old EXCEPT ![t] = Null]
  /\ \/ /\ Cardinality(list) < CleanupThreshold
        /\ phase' = [phase EXCEPT ![t] = "idle"]
        /\ UNCHANGED counterVars
     \/ /\ Cardinality(list) >= CleanupThreshold
        /\ Counters!ScanBegin(t, epoch)
        /\ phase' = [phase EXCEPT ![t] = "scan"]
  /\ UNCHANGED <<ptr, finished, heap, value, epoch, readerVars, copied>>

\* retire, up to the question whether to scan the reader marks.
Retire(t) ==
  LET list == retireLists[epoch] \cup {old[t]} IN
  /\ At(t, "retire")
  /\ retireLists' = [retireLists EXCEPT ![epoch] = list]
  /\ old' = [old EXCEPT ![t] = Null]
  /\ \/ /\ Cardinality(list) < CleanupThreshold
        /\ phase' = [phase EXCEPT ![t] = "idle"]
        /\ UNCHANGED counterVars
     \/ /\ Cardinality(list) >= CleanupThreshold
        /\ Counters!ScanBegin(t, prev)
        /\ phase' = [phase EXCEPT ![t] = "scan"]
  /\ UNCHANGED <<ptr, finished, heap, value, epoch, readerVars, copied>>

SkipReader(t, r) ==
  /\ At(t, "scan")
  /\ Counters!ScanMiss(t, r)
  /\ UNCHANGED <<objectVars, epoch, readerVars, updaterVars>>

\* A reader is in the previous epoch: retire returns.
FindReader(t, r) ==
  /\ At(t, "scan")
  /\ Counters!ScanHit(t, r)
  /\ phase' = [phase EXCEPT ![t] = "idle"]
  /\ UNCHANGED <<objectVars, epoch, readerVars, copied, old>>

\* Mutant of Reclaim: the current epoch's list is reclaimed.
ReclaimCurrent(t) ==
  /\ At(t, "scan")
  /\ Counters!ScanClear(t)
  /\ finished' = retireLists[epoch]
  /\ retireLists' = [retireLists EXCEPT ![epoch] = {}]
  /\ heap' = heap \cup finished
  /\ value' = [o \in Objects |-> IF o \in finished THEN Garbage ELSE value[o]]
  /\ phase' = [phase EXCEPT ![t] = "advance"]
  /\ UNCHANGED <<ptr, epoch, readerVars, copied, old>>

\* Mutant of Reclaim: the list is copied to the pool and not cleared.
ReclaimWithoutClear(t) ==
  /\ At(t, "scan")
  /\ Counters!ScanClear(t)
  /\ finished' = retireLists[prev]
  /\ heap' = heap \cup finished
  /\ value' = [o \in Objects |-> IF o \in finished THEN Garbage ELSE value[o]]
  /\ phase' = [phase EXCEPT ![t] = "advance"]
  /\ UNCHANGED <<ptr, retireLists, epoch, readerVars, copied, old>>

\* The previous epoch's list becomes the pool, what is left of the old pool
\* is deleted.
Reclaim(t) ==
  /\ At(t, "scan")
  /\ Counters!ScanClear(t)
  /\ finished' = retireLists[prev]
  /\ retireLists' = [retireLists EXCEPT ![prev] = {}]
  /\ heap' = heap \cup finished
  /\ value' = [o \in Objects |-> IF o \in finished THEN Garbage ELSE value[o]]
  /\ phase' = [phase EXCEPT ![t] = "advance"]
  /\ UNCHANGED <<ptr, epoch, readerVars, copied, old>>

\* Mutant of AdvanceEpoch: the current epoch is stored.
AdvanceEpochStays(t) ==
  /\ At(t, "advance")
  /\ phase' = [phase EXCEPT ![t] = "idle"]
  /\ UNCHANGED <<objectVars, epoch, counterVars, readerVars, copied, old>>

AdvanceEpoch(t) ==
  /\ At(t, "advance")
  /\ epoch' = prev
  /\ phase' = [phase EXCEPT ![t] = "idle"]
  /\ UNCHANGED <<objectVars, counterVars, readerVars, copied, old>>

-----------------------------------------------------------------------------

ReaderStep(r) == LoadEpoch(r) \/ StoreMark(r) \/ LoadPtr(r) \/ Unlock(r)

NoUpdater == \A u \in Updaters : phase[u] = "idle"

\* The steps of the call of retire.
RetireStep(t) ==
  \/ Retire(t)
  \/ \E r \in Readers : SkipReader(t, r)
  \/ \E r \in Readers : FindReader(t, r)
  \/ Reclaim(t)
  \/ AdvanceEpoch(t)

UpdaterStep(t) ==
  \/ NoUpdater /\ \E o \in Objects : GetCopy(t, o)
  \/ \E v \in Values : Apply(t, v)
  \/ Publish(t)
  \/ RetireStep(t)

Next ==
  \/ \E r \in Readers : ReaderStep(r)
  \/ \E t \in Updaters : UpdaterStep(t)

Spec == Init /\ [][Next]_vars

-----------------------------------------------------------------------------
(* Properties *)

Phases == {"idle", "private", "retire", "scan", "advance"}

\* The variables have their types.
TypeOK ==
  /\ Counters!TypeOK
  /\ epoch \in Epochs
  /\ ptr \in Objects
  /\ heap \subseteq Objects
  /\ finished \subseteq Objects
  /\ retireLists \in [Epochs -> SUBSET Objects]
  /\ value \in [Objects -> Values \cup {Garbage}]
  /\ rpc \in [Readers -> {"out", "locking", "locked", "reading"}]
  /\ loaded \in [Readers -> Epochs]
  /\ held \in [Readers -> Objects \cup {Null}]
  /\ phase \in [Updaters -> Phases]
  /\ copied \in [Updaters -> Objects \cup {Null}]
  /\ old \in [Updaters -> Objects \cup {Null}]

\* Objects on their way: private copies, and pointers taken out of m_ptr that
\* are not in a retire list yet.
Copies == {copied[t] : t \in Updaters} \ {Null}
Outgoing == {old[t] : t \in Updaters} \ {Null}

\* No object is lost and none is in two places. This is what makes retire and
\* the destructor, which delete what the lists, the pool and m_ptr hold,
\* delete every object once.
EveryObjectHasOneOwner ==
  /\ Objects = {ptr} \cup Copies \cup Outgoing \cup heap \cup finished
                 \cup retireLists[0] \cup retireLists[1]
  /\ ptr \notin Copies \cup Outgoing \cup heap \cup finished
                  \cup retireLists[0] \cup retireLists[1]
  /\ Copies \cap (Outgoing \cup heap \cup finished
                    \cup retireLists[0] \cup retireLists[1]) = {}
  /\ Outgoing \cap (heap \cup finished \cup retireLists[0] \cup retireLists[1]) = {}
  /\ heap \cap (finished \cup retireLists[0] \cup retireLists[1]) = {}
  /\ finished \cap (retireLists[0] \cup retireLists[1]) = {}
  /\ retireLists[0] \cap retireLists[1] = {}

\* What a reader holds is not deleted, not in the pool for reuse and not the
\* updater's private copy, however long the reader keeps it.
ReaderProtection ==
  \A r \in Readers : rpc[r] = "reading" =>
    held[r] \notin heap \cup finished \cup Copies

\* The object a reader holds does not change while it holds it: nobody
\* writes to it, deletes it or reuses its memory under the reader.
HeldObjectIsImmutable ==
  [][\A r \in Readers :
       rpc[r] = "reading" /\ rpc'[r] = "reading"
         => held'[r] = held[r] /\ value'[held[r]] = value[held[r]]]_vars

\* Seen without objects, the updater is the scanner of EpochAdvance, where
\* progress is shown: reclamation is never held up for good.
Advance == INSTANCE EpochAdvance WITH
  Scanners <- Updaters,
  rpc <- [r \in Readers |-> IF rpc[r] = "reading" THEN "locked" ELSE rpc[r]],
  phase <- [t \in Updaters |-> IF phase[t] \in {"scan", "advance"} THEN phase[t]
                                                                  ELSE "idle"]

ImplementsAdvance == Advance!Spec

=============================================================================
