--------------------------- MODULE NumaReclamation ---------------------------
(***************************************************************************)
(* The memory side of the NUMA variant of rcu_protected<T>                 *)
(* (include/numa_temp/rcu_numa.hpp): every node has a published pointer, a *)
(* pool and two retire lists of its own; the epoch and the reader marks    *)
(* are common to all. The updater publishes one copy on every node, node   *)
(* by node, and calls retire for what each node published before.          *)
(*                                                                         *)
(* The machine is found out by the constructor: a behaviour is one on any  *)
(* machine. Without NUMA support there is one node, 0, and it stands for   *)
(* m_ptr, m_finished and m_retireLists. With NUMA support those are not    *)
(* used and left out. A thread may be on any node whenever it asks.        *)
(***************************************************************************)
EXTENDS Naturals, FiniteSets, FiniteSetsExt

CONSTANTS
  Readers, Updaters, Objects, Values, Garbage, Null, \* as in EpochReclamation
  LastNode,             \* bound: what numa_max_node() can be
  MaxConcurrency,       \* bound: what hardware_concurrency can be
  MaxRetired            \* bound: entries of a list with which updates go on

VARIABLES
  isNumaAvailable, maxNode, hardwareConcurrency,  \* the machine: is_numa_available,
                 \* max_node, hardware_concurrency
  nodePtrs,      \* m_node_ptrs
  retireLists,   \* m_node_retireLists: for each node and epoch, how many entries
                 \* each object has
  finished,      \* m_node_finished: the same for each node
  node,          \* the loop variable i of do_updates
  epoch, epochReading, scanned, unscanned, heap, value, rpc, loaded, held,
  phase, copied, old  \* as in EpochReclamation

counterVars == <<epochReading, scanned, unscanned>>
readerVars == <<rpc, loaded, held>>
objectVars == <<nodePtrs, retireLists, finished, heap, value>>
updaterVars == <<phase, copied, old, node>>
machine == <<isNumaAvailable, maxNode, hardwareConcurrency>>
vars == <<machine, objectVars, epoch, counterVars, readerVars, updaterVars>>

Counters == INSTANCE ThreadCachedReaders WITH Scanners <- Updaters

Epochs == 0..1
prev == 1 - epoch
Nodes == 0..maxNode
CleanupThreshold == hardwareConcurrency \div (maxNode + 1)
Published == {nodePtrs[i] : i \in Nodes}

\* The lists and pools.
EmptyList == [o \in Objects |-> 0]
Listed(list) == {o \in Objects : list[o] > 0}
Size(list) == MapThenSumSet(LAMBDA o : list[o], Objects)

\* The constructor gives each node a copy of the object.
Init ==
  /\ isNumaAvailable \in BOOLEAN
  /\ maxNode \in IF isNumaAvailable THEN 0..LastNode ELSE {0}
  /\ hardwareConcurrency \in 1..MaxConcurrency
  /\ Counters!Init
  /\ epoch = 0
  /\ nodePtrs \in [Nodes -> Objects]
  /\ \A i, j \in Nodes : nodePtrs[i] = nodePtrs[j] => i = j
  /\ heap = Objects \ Published
  /\ \E v \in Values : value = [o \in Objects |-> IF o \in Published THEN v ELSE Garbage]
  /\ retireLists = [i \in Nodes |-> [e \in Epochs |-> EmptyList]]
  /\ finished = [i \in Nodes |-> EmptyList]
  /\ rpc = [r \in Readers |-> "out"]
  /\ loaded = [r \in Readers |-> 0]
  /\ held = [r \in Readers |-> Null]
  /\ phase = [t \in Updaters |-> "idle"]
  /\ copied = [t \in Updaters |-> Null]
  /\ old = [t \in Updaters |-> Null]
  /\ node = [t \in Updaters |-> 0]

-----------------------------------------------------------------------------
(* get_ptr and the deleter of the pointer it returns *)

InUserCode(r) == r \in Updaters => phase[r] \in {"idle", "private"}

LoadEpoch(r) ==
  /\ rpc[r] = "out"
  /\ InUserCode(r)
  /\ loaded' = [loaded EXCEPT ![r] = epoch]
  /\ rpc' = [rpc EXCEPT ![r] = "locking"]
  /\ UNCHANGED <<objectVars, epoch, counterVars, held, updaterVars>>

StoreMark(r) ==
  /\ rpc[r] = "locking"
  /\ Counters!Increment(r, loaded[r])
  /\ rpc' = [rpc EXCEPT ![r] = "locked"]
  /\ UNCHANGED <<objectVars, epoch, loaded, held, updaterVars>>

\* The node i was asked for before the lock; nothing depends on it till here.
LoadPtr(r, i) ==
  /\ rpc[r] = "locked"
  /\ held' = [held EXCEPT ![r] = nodePtrs[i]]
  /\ rpc' = [rpc EXCEPT ![r] = "reading"]
  /\ UNCHANGED <<objectVars, epoch, counterVars, loaded, updaterVars>>

Unlock(r) ==
  /\ rpc[r] = "reading"
  /\ InUserCode(r)
  /\ Counters!Decrement(r)
  /\ held' = [held EXCEPT ![r] = Null]
  /\ rpc' = [rpc EXCEPT ![r] = "out"]
  /\ UNCHANGED <<objectVars, epoch, loaded, updaterVars>>

-----------------------------------------------------------------------------
(* The updater *)

At(t, phases) ==
  /\ phase[t] \in phases
  /\ t \in Readers => rpc[t] \in {"out", "reading"}

\* get_copy on node i. With NUMA support new memory is not assigned to. (That
\* numa_alloc_onnode returns NULL when memory is out is left aside.)
GetCopy(t, o, i) ==
  /\ At(t, {"idle"})
  /\ \A j \in Nodes, e \in Epochs : Size(retireLists[j][e]) <= MaxRetired
  /\ \/ /\ finished[i] = EmptyList
        /\ o \in heap
        /\ heap' = heap \ {o}
        /\ value' = [value EXCEPT ![o] = IF isNumaAvailable THEN Garbage ELSE value[nodePtrs[i]]]
        /\ UNCHANGED finished
     \/ /\ o \in Listed(finished[i])
        /\ finished' = [finished EXCEPT ![i][o] = @ - 1]
        /\ value' = [value EXCEPT ![o] = value[nodePtrs[i]]]
        /\ UNCHANGED heap
  /\ copied' = [copied EXCEPT ![t] = o]
  /\ phase' = [phase EXCEPT ![t] = "private"]
  /\ UNCHANGED <<nodePtrs, retireLists, epoch, counterVars, readerVars, old, node>>

Apply(t, v) ==
  /\ At(t, {"private"})
  /\ value' = [value EXCEPT ![copied[t]] = v]
  /\ UNCHANGED <<nodePtrs, retireLists, finished, heap, epoch, counterVars, readerVars,
                 updaterVars>>

\* m_node_ptrs[i].exchange(copied), for each node i in turn.
Exchange(t) ==
  /\ At(t, {"private", "exchange"})
  /\ nodePtrs' = [nodePtrs EXCEPT ![node[t]] = copied[t]]
  /\ old' = [old EXCEPT ![t] = nodePtrs[node[t]]]
  /\ copied' = [copied EXCEPT ![t] = IF node[t] = maxNode THEN Null ELSE @]
  /\ phase' = [phase EXCEPT ![t] = "retire"]
  /\ UNCHANGED <<retireLists, finished, heap, value, epoch, counterVars, readerVars, node>>

Leave(t, last) ==
  /\ phase' = [phase EXCEPT ![t] = IF node[t] = last THEN "idle" ELSE "exchange"]
  /\ node' = [node EXCEPT ![t] = IF @ = last THEN 0 ELSE @ + 1]

\* Mutant of LeaveRetire: with retire inlined, its return leaves the loop.
LeaveRetireEarly(t) == Leave(t, 0)

\* retire returns to the loop over the nodes.
LeaveRetire(t) == Leave(t, maxNode)

Push(t, asked) ==
  LET list == [retireLists[node[t]][epoch] EXCEPT ![old[t]] = @ + 1] IN
  /\ At(t, {"retire"})
  /\ retireLists' = [retireLists EXCEPT ![node[t]][epoch] = list]
  /\ old' = [old EXCEPT ![t] = Null]
  /\ \/ /\ Size(list) < CleanupThreshold
        /\ LeaveRetire(t)
        /\ UNCHANGED counterVars
     \/ /\ Size(list) >= CleanupThreshold
        /\ Counters!ScanBegin(t, asked)
        /\ phase' = [phase EXCEPT ![t] = "scan"]
        /\ UNCHANGED node
  /\ UNCHANGED <<nodePtrs, finished, heap, value, epoch, readerVars, copied>>

\* Mutant of Retire: it scans for readers of the wrong epoch.
RetireScansCurrent(t) == Push(t, epoch)

Retire(t) == Push(t, prev)

SkipReader(t, r) ==
  /\ At(t, {"scan"})
  /\ Counters!ScanMiss(t, r)
  /\ UNCHANGED <<objectVars, epoch, readerVars, updaterVars>>

FindReader(t, r) ==
  /\ At(t, {"scan"})
  /\ Counters!ScanHit(t, r)
  /\ LeaveRetire(t)
  /\ UNCHANGED <<objectVars, epoch, readerVars, copied, old>>

TakeList(t, e, left) ==
  LET i == node[t] IN
  /\ At(t, {"scan"})
  /\ Counters!ScanClear(t)
  /\ finished' = [finished EXCEPT ![i] = retireLists[i][e]]
  /\ retireLists' = [retireLists EXCEPT ![i][e] = left]
  /\ heap' = heap \cup Listed(finished[i])
  /\ value' = [o \in Objects |-> IF o \in Listed(finished[i]) THEN Garbage ELSE value[o]]
  /\ phase' = [phase EXCEPT ![t] = "advance"]
  /\ UNCHANGED <<nodePtrs, epoch, readerVars, copied, old, node>>

\* Mutants of Reclaim: the list is copied to the pool and not cleared; the
\* current list is taken.
ReclaimWithoutClear(t) == TakeList(t, prev, retireLists[node[t]][prev])
ReclaimCurrent(t) == TakeList(t, epoch, EmptyList)

\* The node's list of the previous epoch becomes its pool, the rest of its old
\* pool is freed.
Reclaim(t) == TakeList(t, prev, EmptyList)

AdvanceEpoch(t) ==
  /\ At(t, {"advance"})
  /\ epoch' = prev
  /\ LeaveRetire(t)
  /\ UNCHANGED <<objectVars, counterVars, readerVars, copied, old>>

-----------------------------------------------------------------------------

ReaderStep(r) ==
  LoadEpoch(r) \/ StoreMark(r) \/ (\E i \in Nodes : LoadPtr(r, i)) \/ Unlock(r)

NoUpdater == \A u \in Updaters : phase[u] = "idle"

\* The steps of a call of retire.
RetireStep(t) ==
  \/ Retire(t)
  \/ \E r \in Readers : SkipReader(t, r) \/ FindReader(t, r)
  \/ Reclaim(t)
  \/ AdvanceEpoch(t)

UpdaterStep(t) ==
  \/ NoUpdater /\ \E o \in Objects, i \in Nodes : GetCopy(t, o, i)
  \/ \E v \in Values : Apply(t, v)
  \/ Exchange(t)
  \/ RetireStep(t)

Next ==
  /\ \/ \E r \in Readers : ReaderStep(r)
     \/ \E t \in Updaters : UpdaterStep(t)
  /\ UNCHANGED machine

Spec == Init /\ [][Next]_vars

\* The destructor: how often it frees o.
TimesFreed(o) ==
  MapThenSumSet(LAMBDA i :
      (IF nodePtrs[i] = o THEN 1 ELSE 0) + finished[i][o]
        + retireLists[i][0][o] + retireLists[i][1][o], Nodes)

-----------------------------------------------------------------------------
(* Properties *)

\* The variables have their types.
TypeOK ==
  /\ isNumaAvailable \in BOOLEAN
  /\ maxNode \in 0..LastNode
  /\ hardwareConcurrency \in 1..MaxConcurrency
  /\ Counters!TypeOK
  /\ epoch \in Epochs
  /\ nodePtrs \in [Nodes -> Objects]
  /\ heap \subseteq Objects
  /\ finished \in [Nodes -> [Objects -> Nat]]
  /\ retireLists \in [Nodes -> [Epochs -> [Objects -> Nat]]]
  /\ value \in [Objects -> Values \cup {Garbage}]
  /\ rpc \in [Readers -> {"out", "locking", "locked", "reading"}]
  /\ loaded \in [Readers -> Epochs]
  /\ held \in [Readers -> Objects \cup {Null}]
  /\ phase \in [Updaters -> {"idle", "private", "exchange", "retire", "scan", "advance"}]
  /\ copied \in [Updaters -> Objects \cup {Null}]
  /\ old \in [Updaters -> Objects \cup {Null}]
  /\ node \in [Updaters -> Nodes]

\* On one node the destructor frees every allocated object once, when no update
\* is under way. (On two it frees the object of the last update on each.)
DestructorFreesOnce ==
  NoUpdater /\ maxNode = 0 =>
    \A o \in Objects : TimesFreed(o) = IF o \in heap THEN 0 ELSE 1

\* When no update is under way readers see the same content on every node.
NodesAgree ==
  NoUpdater => \A i, j \in Nodes : value[nodePtrs[i]] = value[nodePtrs[j]]

\* get_ptr returns a protected pointer: its object is not freed and not in a
\* pool for reuse. Violated on two nodes: an object is retired on the first node
\* while readers of the next epoch still get it from the second. If another
\* reader keeps the second node's retire from turning the epoch back, the next
\* publication finds the first node's list ready to be reclaimed.
ReaderProtection ==
  \A r \in Readers : rpc[r] = "reading" =>
    held[r] \notin heap \cup UNION {Listed(finished[i]) : i \in Nodes}

\* On one node it does.
ReaderProtectionOnOneNode == maxNode = 0 => ReaderProtection

-----------------------------------------------------------------------------
(* The inductive invariant: what holds on any number of nodes, and on one. *)

Marked(r) == rpc[r] \in {"locked", "reading"}

\* As in EpochInvariant.
MarksAreTrue ==
  \A r \in Readers :
    epochReading[r] = IF Marked(r) THEN Counters!EpochReading(loaded[r]) ELSE 0

OneUpdater == \A t, u \in Updaters : phase[t] # "idle" /\ phase[u] # "idle" => t = u

\* The updater has a copy until it is on the last node, and an outgoing object
\* or a scan in its phases.
PhasesAreTrue ==
  \A t \in Updaters :
    /\ phase[t] \in {"idle", "private"} => node[t] = 0
    /\ phase[t] = "exchange" => node[t] > 0
    /\ copied[t] = Null <=>
         phase[t] = "idle"
           \/ (phase[t] \in {"retire", "scan", "advance"} /\ node[t] = maxNode)
    /\ old[t] # Null <=> phase[t] = "retire"
    /\ scanned[t] = IF phase[t] = "scan" THEN prev ELSE Counters!NoCall

\* The nodes the updater t has done have its copy; in the end all have.
Behind(t, i) ==
  \/ i < node[t]
  \/ i = node[t] /\ phase[t] \in {"retire", "scan", "advance"}

NodesBehindHaveCopy ==
  \A t \in Updaters, i \in Nodes : Behind(t, i) =>
    /\ nodePtrs[i] = nodePtrs[0]
    /\ copied[t] # Null => nodePtrs[i] = copied[t]

\* On one node each object has one owner, and one entry where it has any, and
\* what readers hold waits its turn in a list, as in EpochInvariant.
Pool == Listed(finished[0])
List(e) == Listed(retireLists[0][e])
Copies == {copied[t] : t \in Updaters} \ {Null}
Outgoing == {old[t] : t \in Updaters} \ {Null}

NothingIsListedTwice ==
  \A o \in Objects :
    /\ finished[0][o] <= 1
    /\ \A e \in Epochs : retireLists[0][e][o] <= 1

EveryObjectHasOneOwner ==
  /\ Objects = {nodePtrs[0]} \cup Copies \cup Outgoing \cup heap \cup Pool
                 \cup List(0) \cup List(1)
  /\ nodePtrs[0] \notin Copies \cup Outgoing \cup heap \cup Pool \cup List(0) \cup List(1)
  /\ Copies \cap (Outgoing \cup heap \cup Pool \cup List(0) \cup List(1)) = {}
  /\ Outgoing \cap (heap \cup Pool \cup List(0) \cup List(1)) = {}
  /\ heap \cap (Pool \cup List(0) \cup List(1)) = {}
  /\ Pool \cap (List(0) \cup List(1)) = {}
  /\ List(0) \cap List(1) = {}

PassedBy(t, r) ==
  \/ phase[t] = "scan" /\ r \notin unscanned[t]
  \/ phase[t] = "advance"

HeldIsSafe ==
  \A r \in Readers : rpc[r] = "reading" =>
    /\ held[r] \in {nodePtrs[0]} \cup Outgoing \cup List(0) \cup List(1)
    /\ \A e \in Epochs : held[r] \in List(e) => e \in {loaded[r], epoch}
    /\ loaded[r] # epoch =>
         \A t \in Updaters : PassedBy(t, r) => held[r] = nodePtrs[0]

OneNodeInv == NothingIsListedTwice /\ EveryObjectHasOneOwner /\ HeldIsSafe

NumaInv ==
  /\ TypeOK
  /\ MarksAreTrue
  /\ OneUpdater
  /\ PhasesAreTrue
  /\ NodesBehindHaveCopy
  /\ NodesAgree
  /\ maxNode = 0 => OneNodeInv

-----------------------------------------------------------------------------

\* Any number of nodes keeps to the epochs: what EpochAdvance says of readers
\* and scans, and of their progress, holds of this class.
Advance == INSTANCE EpochAdvance WITH
  Scanners <- Updaters,
  rpc <- [r \in Readers |-> IF rpc[r] = "reading" THEN "locked" ELSE rpc[r]],
  phase <- [t \in Updaters |-> IF phase[t] \in {"scan", "advance"} THEN phase[t]
                                                                  ELSE "idle"]

ImplementsAdvance == Advance!Spec

=============================================================================
