--------------------------- MODULE UpdateProtocol ---------------------------
(***************************************************************************)
(* The update protocol of rcu_protected<T>: update, try_register and       *)
(* do_updates with m_updateCnt and m_updateQueue, and no objects. It       *)
(* decides who is the updater, which callbacks make up a batch and when    *)
(* the updater may stop. The same code stands in                           *)
(* include/wbrcu/rcu_protected.hpp and include/numa_temp/rcu_numa.hpp;     *)
(* RcuProtected and NumaProtected compose it with their memory.            *)
(*                                                                         *)
(* A callback is named by the thread that passes it and the number of its  *)
(* call. It may call update of the same object again.                      *)
(*                                                                         *)
(* m_updateQueue is folly's bounded blocking queue, taken as a FIFO whose  *)
(* write waits for room and whose read waits for an element.               *)
(***************************************************************************)
EXTENDS Naturals, FiniteSets, Sequences

CONSTANTS
  Updaters,           \* threads that call update
  FlushingThreshold,  \* the template parameter flushingThreshold
  QueueCapacity,      \* the capacity of m_updateQueue
  MaxCalls,           \* bound: calls to update per thread
  NoUpdate            \* no callback

\* The updates of the model: the k-th call of update by thread t.
Updates == Updaters \X (1..MaxCalls)

ASSUME ProtocolAssumption ==
  /\ IsFiniteSet(Updaters)
  /\ NoUpdate \notin Updates
  /\ FlushingThreshold \in Nat
  /\ QueueCapacity \in Nat \ {0}
  /\ MaxCalls \in Nat

VARIABLES
  updateCnt,    \* m_updateCnt
  updateQueue,  \* m_updateQueue
  pc,           \* where each thread is in update and do_updates
  running,      \* the callback it is about to run or is running, else NoUpdate
  done,         \* do_updates: done; 0 before its own callback has run
  expected,     \* do_updates: the local updateCnt
  unflushed,    \* do_updates: unflushed
  calls         \* how many times it has called update

queueVars == <<updateCnt, updateQueue>>
loopVars == <<done, expected, unflushed>>
vars == <<queueVars, pc, running, loopVars, calls>>

Init ==
  /\ updateCnt = 0
  /\ updateQueue = <<>>
  /\ pc = [t \in Updaters |-> "idle"]
  /\ running = [t \in Updaters |-> NoUpdate]
  /\ done = [t \in Updaters |-> 0]
  /\ expected = [t \in Updaters |-> 0]
  /\ unflushed = [t \in Updaters |-> 0]
  /\ calls = [t \in Updaters |-> 0]

Goto(t, label) == pc' = [pc EXCEPT ![t] = label]

LatestCall(t) == <<t, calls[t]>>

-----------------------------------------------------------------------------
(* update: register as the updater, or enqueue the callback for whoever is.*)

\* Called from outside the class or from a callback. Whoever has to enqueue
\* goes on at "write"; a callback that has to, at "nested_write".
Call(t, mayRegister) ==
  /\ pc[t] \in {"idle", "callback"}
  /\ calls[t] < MaxCalls
  /\ calls' = [calls EXCEPT ![t] = @ + 1]
  /\ updateCnt' = updateCnt + 1
  /\ \/ /\ mayRegister
        /\ running' = [running EXCEPT ![t] = LatestCall(t)']
        /\ Goto(t, "get_copy")
     \/ /\ ~mayRegister
        /\ Goto(t, IF pc[t] = "callback" THEN "nested_write" ELSE "write")
        /\ UNCHANGED running
  /\ UNCHANGED <<updateQueue, loopVars>>

\* Mutant of TryRegister: whoever finds the queue empty registers.
TryRegisterIfEmpty(t) == Call(t, updateQueue = <<>>)

\* The fetch_add in try_register.
TryRegister(t) == Call(t, updateCnt = 0)

\* Once there is room, put u into the queue; update returns to its caller.
Enqueue(t, u, room) ==
  /\ pc[t] \in {"write", "nested_write"}
  /\ Len(updateQueue) < room
  /\ updateQueue' = Append(updateQueue, u)
  /\ Goto(t, IF pc[t] = "nested_write" THEN "callback" ELSE "idle")
  /\ UNCHANGED <<updateCnt, running, loopVars, calls>>

\* Mutant of Write: the queue takes a callback only when it is empty.
WriteOneSlot(t) == Enqueue(t, LatestCall(t), 1)

\* m_updateQueue.blockingWrite.
Write(t) == Enqueue(t, LatestCall(t), QueueCapacity)

\* get_copy has returned: to try_register, or to do_updates for its next batch.
HaveCopy(t) ==
  /\ pc[t] = "get_copy"
  /\ Goto(t, IF running[t] = NoUpdate THEN "drain" ELSE "callback")
  /\ UNCHANGED <<queueVars, running, loopVars, calls>>

\* The callback returns: the thread's own, after which it enters do_updates,
\* or one from the queue.
CallbackReturns(t) ==
  /\ pc[t] = "callback"
  /\ running' = [running EXCEPT ![t] = NoUpdate]
  /\ done' = [done EXCEPT ![t] = @ + 1]
  /\ \/ /\ done[t] = 0
        /\ Goto(t, "enter")
        /\ UNCHANGED unflushed
     \/ /\ done[t] > 0
        /\ unflushed' = [unflushed EXCEPT ![t] = @ + 1]
        /\ Goto(t, IF unflushed[t] + 1 = FlushingThreshold THEN "publish" ELSE "drain")
  /\ UNCHANGED <<queueVars, expected, calls>>

-----------------------------------------------------------------------------
(* do_updates *)

ExpectAndDrain(t, cnt) ==
  /\ pc[t] = "enter"
  /\ expected' = [expected EXCEPT ![t] = cnt]
  /\ Goto(t, "drain")
  /\ UNCHANGED <<queueVars, running, done, unflushed, calls>>

\* Mutant of Enter: one callback too many is expected (done starts at 0).
EnterOffByOne(t) == ExpectAndDrain(t, updateCnt + 1)

Enter(t) == ExpectAndDrain(t, updateCnt)

\* Mutant of Read: the newest callback is taken first.
ReadNewest(t) ==
  LET last == Len(updateQueue) IN
  /\ pc[t] = "drain" /\ done[t] < expected[t] /\ last > 0
  /\ running' = [running EXCEPT ![t] = updateQueue[last]]
  /\ updateQueue' = SubSeq(updateQueue, 1, last - 1)
  /\ Goto(t, "callback")
  /\ UNCHANGED <<updateCnt, loopVars, calls>>

\* m_updateQueue.blockingRead waits for a callback that is counted already.
Read(t) ==
  /\ pc[t] = "drain"
  /\ done[t] < expected[t]
  /\ updateQueue # <<>>
  /\ running' = [running EXCEPT ![t] = Head(updateQueue)]
  /\ updateQueue' = Tail(updateQueue)
  /\ Goto(t, "callback")
  /\ UNCHANGED <<updateCnt, loopVars, calls>>

\* The inner loop is through: look at m_updateCnt again, unless the batch is
\* full (here that is the case of threshold 0 and nothing to drain).
Reload(t) ==
  /\ pc[t] = "drain"
  /\ done[t] >= expected[t]
  /\ \/ /\ unflushed[t] = FlushingThreshold
        /\ Goto(t, "publish")
        /\ UNCHANGED expected
     \/ /\ unflushed[t] # FlushingThreshold
        /\ expected' = [expected EXCEPT ![t] = updateCnt]
        /\ Goto(t, IF done[t] = updateCnt THEN "publish" ELSE "drain")
  /\ UNCHANGED <<queueVars, running, done, unflushed, calls>>

\* The private copy is being published and the old object retired.
Publish(t) ==
  /\ pc[t] = "publish"
  /\ Goto(t, "retire")
  /\ UNCHANGED <<queueVars, running, loopVars, calls>>

\* do_updates returns; its locals are gone.
Leave(t) ==
  /\ pc[t] = "retire"
  /\ done[t] = expected[t]
  /\ updateCnt' = 0
  /\ Goto(t, "idle")
  /\ done' = [done EXCEPT ![t] = 0]
  /\ expected' = [expected EXCEPT ![t] = 0]
  /\ unflushed' = [unflushed EXCEPT ![t] = 0]
  /\ UNCHANGED <<updateQueue, running, calls>>

\* Mutant of Resign: a plain store instead of the compare_exchange.
ResignByStore(t) == Leave(t)

\* Everything counted is done and the compare_exchange finds no newcomer.
Resign(t) == updateCnt = expected[t] /\ Leave(t)

\* There is more to do; a failed compare_exchange has reloaded updateCnt.
Again(t, isDone, isUnflushed) ==
  /\ pc[t] = "retire"
  /\ done[t] # expected[t] \/ updateCnt # expected[t]
  /\ expected' = [expected EXCEPT ![t] = IF done[t] = @ THEN updateCnt ELSE @]
  /\ done' = [done EXCEPT ![t] = isDone]
  /\ unflushed' = [unflushed EXCEPT ![t] = isUnflushed]
  /\ Goto(t, "get_copy")
  /\ UNCHANGED <<queueVars, running, calls>>

\* Mutants of NextBatch: done counts the batch, not the registration; unflushed
\* is declared outside the loop and not reset.
NextBatchResetsDone(t) == Again(t, 0, 0)
NextBatchKeepsUnflushed(t) == Again(t, done[t], unflushed[t])

\* The next batch of the same registration.
NextBatch(t) == Again(t, done[t], 0)

-----------------------------------------------------------------------------

\* The steps that touch the queue and locals only, and those at the end of a
\* batch, once the old object is retired.
LocalStep(t) == Write(t) \/ Enter(t) \/ Read(t) \/ Reload(t)
CheckStep(t) == Resign(t) \/ NextBatch(t)

\* The steps of a thread inside update.
UpdaterStep(t) ==
  LocalStep(t) \/ HaveCopy(t) \/ CallbackReturns(t) \/ Publish(t) \/ CheckStep(t)

Next == \E t \in Updaters : TryRegister(t) \/ UpdaterStep(t)

Spec == Init /\ [][Next]_vars

\* Every thread that can run inside update runs, and callbacks return, those
\* too that keep calling update. Nobody has to call update. (In folly's queue,
\* too, no one is overtaken forever here, as calls are finitely many.)
Fairness ==
  \A t \in Updaters : WF_vars(UpdaterStep(t)) /\ SF_vars(CallbackReturns(t))

FairSpec == Spec /\ Fairness

-----------------------------------------------------------------------------
(* Properties *)

Inside == {"get_copy", "callback", "nested_write", "enter", "drain", "publish",
           "retire"}

\* The threads that are the updater: registered and not yet resigned.
Registered == {t \in Updaters : pc[t] \in Inside}

Writing == {t \in Updaters : pc[t] \in {"write", "nested_write"}}

Submitted == {u \in Updates : u[2] <= calls[u[1]]}

\* The variables have their types.
TypeOK ==
  /\ updateCnt \in Nat
  /\ updateQueue \in Seq(Updates)
  /\ pc \in [Updaters -> Inside \cup {"idle", "write"}]
  /\ running \in [Updaters -> Updates \cup {NoUpdate}]
  /\ done \in [Updaters -> Nat]
  /\ expected \in [Updaters -> Nat]
  /\ unflushed \in [Updaters -> Nat]
  /\ calls \in [Updaters -> 0..MaxCalls]

\* The claim of the comment on m_updateCnt: if it is greater than 0 there is
\* an updater in work (else enqueued callbacks would wait forever), and there
\* is never more than one, which keeps the lists and the pool free of races.
CountMeansOneUpdater ==
  /\ updateCnt > 0 <=> Registered # {}
  /\ \A t, u \in Registered : t = u

\* m_updateCnt counts, while a thread is the updater, what it has done, what
\* it is doing, what is queued and what is about to be queued: blockingRead is
\* only called for a callback that is on its way, and none is left behind.
CountIsExact ==
  /\ \A t \in Registered :
       updateCnt = done[t] + (IF running[t] = NoUpdate THEN 0 ELSE 1)
                     + Len(updateQueue) + Cardinality(Writing)
  /\ Registered = {} => updateQueue = <<>> /\ Writing = {}

\* Where a thread is tells whether it has a callback at hand and what is left of
\* earlier calls.
LocalsFollowPc ==
  \A t \in Updaters :
    /\ pc[t] \in {"idle", "write"} => done[t] = 0 /\ running[t] = NoUpdate
    /\ pc[t] \in {"callback", "nested_write"} => running[t] # NoUpdate
    /\ pc[t] \in {"enter", "drain", "publish", "retire"} => running[t] = NoUpdate
    /\ pc[t] \in {"write", "nested_write"} => calls[t] > 0

\* The updater never does more than it expects, and expects no more than is
\* counted; in the middle of its work it has less done than it expects.
LoopIsBounded ==
  \A t \in Updaters :
    /\ expected[t] <= updateCnt
    /\ done[t] = 0 => expected[t] = 0
    /\ pc[t] \in {"enter", "drain", "publish", "retire"} => done[t] > 0
    /\ pc[t] = "get_copy" /\ running[t] = NoUpdate => done[t] > 0
    /\ pc[t] \in {"get_copy", "callback", "nested_write"} /\ done[t] > 0 =>
         done[t] < expected[t]
    /\ pc[t] \in {"drain", "publish", "retire"} => done[t] <= expected[t]

\* A batch starts with nothing unflushed and is published at the threshold.
UnflushedIsBounded ==
  \A t \in Updaters :
    /\ done[t] = 0 \/ pc[t] \in {"get_copy", "enter"} => unflushed[t] = 0
    /\ FlushingThreshold > 0 =>
         /\ unflushed[t] <= FlushingThreshold
         /\ pc[t] \in {"callback", "nested_write", "drain"} =>
              unflushed[t] < FlushingThreshold

\* The inductive invariant.
ProtocolInv ==
  /\ TypeOK
  /\ CountMeansOneUpdater
  /\ CountIsExact
  /\ LocalsFollowPc
  /\ LoopIsBounded
  /\ UnflushedIsBounded

\* A callback that calls update gets it back, as in the test NestedUpdates.
\* Violated when the queue is full: the thread that waits for room in it is
\* the only one that takes callbacks out of it.
NestedUpdateReturns ==
  \A t \in Updaters : (pc[t] = "nested_write") ~> (pc[t] = "callback")

\* The case above, which nothing ends.
StuckInNestedCall ==
  Len(updateQueue) = QueueCapacity /\ \E t \in Updaters : pc[t] = "nested_write"

\* What the guards of UpdaterStep(t) come to.
CanGo(t) ==
  \/ pc[t] \in {"get_copy", "callback", "enter", "publish", "retire"}
  \/ pc[t] \in {"write", "nested_write"} /\ Len(updateQueue) < QueueCapacity
  \/ pc[t] = "drain" /\ (done[t] >= expected[t] \/ updateQueue # <<>>)

\* The only way to get stuck inside update: a callback calls update while the
\* queue is full. In particular blockingRead never waits for a callback nobody
\* will write, and a full queue never blocks everyone else.
StuckOnlyInNestedCall ==
  (\E t \in Updaters : pc[t] # "idle") =>
    \/ StuckInNestedCall
    \/ \E t \in Updaters : CanGo(t) /\ ENABLED UpdaterStep(t)

\* But for that case every call returns, from a callback or from outside.
CallsReturnUnlessStuck ==
  \A t \in Updaters :
    /\ (pc[t] = "nested_write") ~> (pc[t] = "callback" \/ StuckInNestedCall)
    /\ (pc[t] # "idle") ~> (pc[t] = "idle" \/ StuckInNestedCall)

=============================================================================
