---------------------------- MODULE RcuContract ----------------------------
(***************************************************************************)
(* What rcu_protected<T> promises its users, with no epochs, queue, copies *)
(* or memory: updates are submitted, batches of them are published         *)
(* atomically, each once and each thread's in the order of its calls, and  *)
(* a reader that takes a pointer sees one published version until it lets  *)
(* go of it. The class docs state this in README.md and                    *)
(* doc/checkpoint1/checkpoint1.md (Interface).                             *)
(***************************************************************************)
EXTENDS Naturals

CONSTANTS Readers, Updaters, MaxCalls, NoView

VARIABLES
  submitted,  \* the updates update() was called with
  current,    \* the updates in the published version
  view        \* the version each reader looks at, or NoView

vars == <<submitted, current, view>>

Updates == Updaters \X (1..MaxCalls)

\* S has, with an update, every earlier one of the same thread.
InCallOrder(S) == \A u \in S : \A k \in 1..(u[2] - 1) : <<u[1], k>> \in S

Init ==
  /\ submitted = {}
  /\ current = {}
  /\ view = [r \in Readers |-> NoView]

Submit(u) ==
  /\ u \notin submitted
  /\ submitted' = submitted \cup {u}
  /\ InCallOrder(submitted')
  /\ UNCHANGED <<current, view>>

PublishBatch(batch) ==
  /\ batch # {}
  /\ current' = current \cup batch
  /\ InCallOrder(current')
  /\ UNCHANGED <<submitted, view>>

TakePointer(r) ==
  /\ view[r] = NoView
  /\ view' = [view EXCEPT ![r] = current]
  /\ UNCHANGED <<submitted, current>>

DropPointer(r) ==
  /\ view[r] # NoView
  /\ view' = [view EXCEPT ![r] = NoView]
  /\ UNCHANGED <<submitted, current>>

Next ==
  \/ \E u \in Updates : Submit(u)
  \/ \E batch \in SUBSET (submitted \ current) : PublishBatch(batch)
  \/ \E r \in Readers : TakePointer(r) \/ DropPointer(r)

Spec == Init /\ [][Next]_vars

=============================================================================
