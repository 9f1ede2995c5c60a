----------------------------- MODULE RcuLifetime -----------------------------
(***************************************************************************)
(* rcu_protected<T> to the end of its life                                 *)
(* (include/wbrcu/rcu_protected.hpp): calls of update that end with an     *)
(* exception, which the class nowhere catches, and the destructor, which   *)
(* the caller runs when no thread is inside the class or holds a pointer.  *)
(***************************************************************************)
EXTENDS RcuProtected

VARIABLES
  abandoned,  \* an exception has ended a registration
  deleted     \* how often the destructor deleted each object, <<>> before it ran

lifeVars == <<vars, abandoned, deleted>>

Alive == deleted = <<>>

LifeInit == Init /\ abandoned = FALSE /\ deleted = <<>>

-----------------------------------------------------------------------------

\* What throws in the updater t. get_copy: operator new, or the assignment to an
\* object that is then no longer in the pool and not yet anywhere else.
GetCopyThrows(t) ==
  /\ pc[t] = "get_copy"
  /\ IF finished = {} THEN UNCHANGED finished
     ELSE \E o \in finished : finished' = finished \ {o}

\* Its own callback, or one from the queue.
CallbackThrows(t) == pc[t] = "callback" /\ UNCHANGED finished

\* push_back in retire, before the old object is in the list.
PushBackThrows(t) ==
  pc[t] = "retire" /\ phase[t] = "retire" /\ UNCHANGED finished

Throws(t) == GetCopyThrows(t) \/ CallbackThrows(t) \/ PushBackThrows(t)

\* The exception leaves update, with it go the locals, the pointers to the
\* private copy and to the old object among them.
Unwind(t, cnt, free) ==
  /\ OutsideGetPtr(t)
  /\ Throws(t)
  /\ abandoned' = TRUE
  /\ updateCnt' = cnt
  /\ heap' = free
  /\ pc' = [pc EXCEPT ![t] = "idle"]
  /\ running' = [running EXCEPT ![t] = NoUpdate]
  /\ done' = [done EXCEPT ![t] = 0]
  /\ expected' = [expected EXCEPT ![t] = 0]
  /\ unflushed' = [unflushed EXCEPT ![t] = 0]
  /\ phase' = [phase EXCEPT ![t] = "idle"]
  /\ copied' = [copied EXCEPT ![t] = Null]
  /\ old' = [old EXCEPT ![t] = Null]
  /\ UNCHANGED <<ptr, epoch, epochReading, scanned, unscanned, retireLists, value,
                 rpc, loaded, held, updateQueue, calls, deleted>>

\* Mutants of Throw: the count is reset on the way out; the old object, not yet
\* in a list, is deleted on the way out.
ThrowResetsCount(t) == Unwind(t, 0, heap)
ThrowDeletesOld(t) == Unwind(t, updateCnt, heap \cup ({old[t]} \ {Null}))

Throw(t) == Unwind(t, updateCnt, heap)

DeleteAll(lists) ==
  /\ \A t \in Updaters : pc[t] = "idle"
  /\ \A r \in Readers : rpc[r] = "out"
  /\ deleted' = [o \in Objects |-> Cardinality({l \in DOMAIN lists : o \in lists[l]})]
  /\ UNCHANGED <<vars, abandoned>>

\* Mutant of Destroy: the pool is forgotten.
DestroyButPool == DeleteAll(<<{ptr}, retireLists[0], retireLists[1]>>)

Destroy == DeleteAll(<<{ptr}, retireLists[0], retireLists[1], finished>>)

LifeNext ==
  /\ Alive
  /\ \/ Next /\ UNCHANGED <<abandoned, deleted>>
     \/ \E t \in Updaters : Throw(t)
     \/ Destroy

LifeSpec == LifeInit /\ [][LifeNext]_lifeVars

-----------------------------------------------------------------------------
(* Properties *)

\* The destructor deletes no object twice and leaves none behind, but for the
\* one that the exception of an updater has made it forget.
DestructorDeletesOnce ==
  ~Alive =>
    /\ \A o \in Objects : deleted[o] <= IF o \in heap THEN 0 ELSE 1
    /\ Cardinality({o \in Objects \ heap : deleted[o] = 0}) <= IF abandoned THEN 1 ELSE 0

\* The caller need not know who is the updater: when all calls have returned and
\* none has thrown in the updater, every callback has run and the destructor
\* drops none with the queue.
DestructorDropsNoUpdate ==
  ~Alive /\ ~abandoned => updateQueue = <<>> /\ value[ptr] = Submitted

\* When the updater's call ends with an exception nobody takes over: calls are
\* enqueued still, and nothing is published again. Readers do not notice
\* (ReaderProtection).
NothingPublishedAfterException == [][abandoned => UNCHANGED ptr]_lifeVars

=============================================================================
