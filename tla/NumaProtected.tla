---------------------------- MODULE NumaProtected ----------------------------
(***************************************************************************)
(* The NUMA variant of rcu_protected<T> as a whole                         *)
(* (include/numa_temp/rcu_numa.hpp): the update protocol composed with the *)
(* memory of NumaReclamation. The content of an object is the set of       *)
(* callbacks that have run on it or on what it was copied from, and        *)
(* NoUpdate too if it never was an assigned T.                             *)
(***************************************************************************)
EXTENDS Naturals, FiniteSets, Sequences

CONSTANTS
  Readers, Updaters, Objects, Null, LastNode, MaxConcurrency, MaxRetired,
  FlushingThreshold, QueueCapacity, MaxCalls, NoUpdate

VARIABLES
  isNumaAvailable, maxNode, hardwareConcurrency,
  nodePtrs, retireLists, finished, node, epoch, epochReading, scanned, unscanned,
  heap, value, rpc, loaded, held, phase, copied, old,
  updateCnt, updateQueue, pc, running, done, expected, unflushed, calls

machine == <<isNumaAvailable, maxNode, hardwareConcurrency>>
reclamationVars ==
  <<nodePtrs, retireLists, finished, node, epoch, epochReading, scanned, unscanned,
    heap, value, rpc, loaded, held, phase, copied, old>>
protocolVars ==
  <<updateCnt, updateQueue, pc, running, done, expected, unflushed, calls>>
vars == <<machine, reclamationVars, protocolVars>>

Protocol == INSTANCE UpdateProtocol

Garbage == {NoUpdate}

ASSUME NumaAssumption ==
  /\ IsFiniteSet(Updaters)
  /\ IsFiniteSet(Objects)
  /\ Null \notin Objects
  /\ \A S \in SUBSET Protocol!Updates : S # Null
  /\ NoUpdate \notin Protocol!Updates
  /\ LastNode \in Nat /\ MaxConcurrency \in Nat \ {0} /\ MaxRetired \in Nat
  /\ FlushingThreshold \in Nat
  /\ QueueCapacity \in Nat \ {0}
  /\ MaxCalls \in Nat

Reclamation == INSTANCE NumaReclamation WITH
  Values <- (SUBSET (Protocol!Updates \cup {NoUpdate})) \ {Garbage}

Init ==
  /\ Reclamation!Init
  /\ value[nodePtrs[0]] = {}
  /\ Protocol!Init

-----------------------------------------------------------------------------

\* As in RcuProtected: a thread that also reads is sequential.
OutsideGetPtr(t) == t \in Readers => rpc[t] \in {"out", "reading"}

ReaderStep(r) ==
  /\ r \in Updaters => pc[r] \in {"idle", "callback"}
  /\ Reclamation!ReaderStep(r)
  /\ UNCHANGED protocolVars

TryRegister(t) ==
  OutsideGetPtr(t) /\ Protocol!TryRegister(t) /\ UNCHANGED reclamationVars

\* What update and do_updates do with the queue and their locals.
LocalStep(t) ==
  OutsideGetPtr(t) /\ Protocol!LocalStep(t) /\ UNCHANGED reclamationVars

GetCopy(t) ==
  /\ Protocol!HaveCopy(t)
  /\ \E o \in Objects, i \in Reclamation!Nodes : Reclamation!GetCopy(t, o, i)

RunCallback(t) ==
  /\ Protocol!CallbackReturns(t)
  /\ Reclamation!Apply(t, value[copied[t]] \cup {running[t]})

\* The loop over the nodes: the first exchange, then the calls of retire and
\* the other exchanges.
Publish(t) == Protocol!Publish(t) /\ Reclamation!Exchange(t)

RetireStep(t) ==
  /\ pc[t] = "retire"
  /\ Reclamation!RetireStep(t) \/ Reclamation!Exchange(t)
  /\ UNCHANGED protocolVars

CheckStep(t) ==
  phase[t] = "idle" /\ Protocol!CheckStep(t) /\ UNCHANGED reclamationVars

UpdaterStep(t) ==
  LocalStep(t) \/ GetCopy(t) \/ RunCallback(t) \/ Publish(t) \/ RetireStep(t) \/ CheckStep(t)

Next ==
  /\ \/ \E r \in Readers : ReaderStep(r)
     \/ \E t \in Updaters : TryRegister(t) \/ UpdaterStep(t)
  /\ UNCHANGED machine

Spec == Init /\ [][Next]_vars

-----------------------------------------------------------------------------
(* Properties *)

\* The variables have their types.
TypeOK == Reclamation!TypeOK /\ Protocol!TypeOK

\* On any number of nodes the class takes only steps of NumaReclamation: the
\* counter keeps two updaters from meeting in the pools and lists of a node.
ImplementsReclamation == Reclamation!Spec

\* The class of include/wbrcu/rcu_protected.hpp on the same machine: node 0 is
\* its m_ptr, m_retireLists and m_finished, its lists and pool the sets of what
\* is in the lists here.
Plain == INSTANCE RcuProtected WITH
  CleanupThreshold <- MaxConcurrency,
  ptr <- nodePtrs[0],
  retireLists <- [e \in 0..1 |-> Reclamation!Listed(retireLists[0][e])],
  finished <- Reclamation!Listed(finished[0])

\* A machine without NUMA support and as many cores as the bound allows; what
\* holds for every bound on it holds for every number of cores.
IsPlain == ~isNumaAvailable /\ hardwareConcurrency = MaxConcurrency

\* Without NUMA support the class is RcuProtected: it starts as that does and
\* takes only its steps.
ImplementsPlain ==
  (IsPlain => Plain!Init) /\ [][IsPlain => [Plain!Next]_(Plain!vars)]_vars

\* Without NUMA support, once no updater is at work every update passed to
\* update is published. (With it, get_copy hands out new memory it has not
\* copied to, and what was published before is lost.)
NoUpdaterMeansAllPublished ==
  ~isNumaAvailable /\ Protocol!Registered = {} => value[nodePtrs[0]] = Protocol!Submitted

\* NumaReclamation's.
DestructorFreesOnce == Reclamation!DestructorFreesOnce
NodesAgree == Reclamation!NodesAgree
ReaderProtection == Reclamation!ReaderProtection
ReaderProtectionOnOneNode == Reclamation!ReaderProtectionOnOneNode
ImplementsAdvance == Reclamation!ImplementsAdvance

\* On one node, with NUMA support or without, the object a reader holds does
\* not change while it holds it: no callback, copy or deletion touches it.
HeldObjectIsImmutableOnOneNode ==
  [][maxNode = 0 =>
       \A r \in Readers : rpc[r] = "reading" /\ rpc'[r] = "reading"
         => held'[r] = held[r] /\ value'[held[r]] = value[held[r]]]_vars

-----------------------------------------------------------------------------
(* The inductive invariant: those of the two halves, and where a thread is *)
(* in update decides what it has done to the objects.                      *)

ProgressMatchesPhase ==
  \A t \in Updaters :
    /\ pc[t] \in {"idle", "write", "get_copy"} => phase[t] = "idle"
    /\ pc[t] \in {"callback", "nested_write", "enter", "drain", "publish"} =>
         phase[t] = "private"
    /\ pc[t] = "retire" => phase[t] # "private"

\* Where an update is before it has run, and the object it is in afterwards.
Running(u) == \E t \in Updaters : running[t] = u
Queued(u) == \E i \in 1..Len(updateQueue) : updateQueue[i] = u
Written(u) == \E t \in Protocol!Writing : <<t, calls[t]>> = u
OnItsWay(u) == Running(u) \/ Queued(u) \/ Written(u)

Applied(u) ==
  \/ u \in value[nodePtrs[0]]
  \/ \E t \in Updaters : copied[t] # Null /\ u \in value[copied[t]]

\* Publishing a private copy takes back nothing, and every submitted update, and
\* nothing else, is in an object or on its way.
NothingIsLost ==
  /\ value[nodePtrs[0]] \subseteq Protocol!Updates
  /\ \A t \in Updaters : copied[t] # Null =>
       value[nodePtrs[0]] \subseteq value[copied[t]] /\ value[copied[t]] \subseteq Protocol!Updates
  /\ \A u \in Protocol!Updates : u \in Protocol!Submitted <=> Applied(u) \/ OnItsWay(u)

ClassInv ==
  /\ Protocol!ProtocolInv
  /\ Reclamation!NumaInv
  /\ ProgressMatchesPhase
  /\ ~isNumaAvailable => maxNode = 0 /\ NothingIsLost

=============================================================================
