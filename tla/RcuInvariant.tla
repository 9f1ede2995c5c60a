---------------------------- MODULE RcuInvariant ----------------------------
(***************************************************************************)
(* What ties the two halves of RcuProtected together: enough, with the     *)
(* invariants of each half, to show that it takes only steps of            *)
(* EpochReclamation, NoUpdater included.                                   *)
(***************************************************************************)
EXTENDS RcuProtected

\* Where a thread is in update decides what it has done to the object.
ProgressMatchesPhase ==
  \A t \in Updaters :
    /\ pc[t] \in {"idle", "write", "get_copy"} => phase[t] = "idle"
    /\ pc[t] \in {"callback", "nested_write", "enter", "drain", "publish"} =>
         phase[t] = "private"
    /\ pc[t] = "retire" => phase[t] # "private"

\* The published object and the private copies hold a T, never garbage.
ContentIsReal ==
  /\ value[ptr] \in SUBSET Updates
  /\ \A t \in Updaters : copied[t] # Null => value[copied[t]] \in SUBSET Updates

RcuInv == Protocol!ProtocolInv /\ ProgressMatchesPhase /\ ContentIsReal

-----------------------------------------------------------------------------
(* Where an update is between its call and its publication, and in which   *)
(* order the updates of one thread get there: enough to show that the      *)
(* class implements its contract.                                          *)

\* What a queue holds, and whether it holds v before u.
In(q, u) == \E i \in 1..Len(q) : q[i] = u
NoRepeat(q) == \A i, j \in 1..Len(q) : q[i] = q[j] => i = j
Ahead(q, v, u) == \A i \in 1..Len(q) : q[i] = u => \E h \in 1..(i - 1) : q[h] = v

\* The updater's private copy, or else the published object, contains u.
Applied(u) ==
  \/ u \in value[ptr]
  \/ \E t \in Updaters : copied[t] # Null /\ u \in value[copied[t]]

Running(u) == \E t \in Updaters : running[t] = u
Queued(u) == In(updateQueue, u)
Written(u) == \E t \in Protocol!Writing : <<t, calls[t]>> = u

\* Publishing a private copy takes back nothing.
CopyExtendsPublished ==
  \A t \in Updaters : copied[t] # Null => value[ptr] \subseteq value[copied[t]]

\* Every submitted update is somewhere, and nothing else is.
NothingIsLost ==
  \A u \in Updates : u \in Submitted <=> Applied(u) \/ Running(u) \/ Queued(u) \/ Written(u)

\* An update is in one place only.
NothingIsDoubled ==
  /\ \A u \in Updates :
       /\ Applied(u) => ~Running(u) /\ ~Queued(u) /\ ~Written(u)
       /\ Running(u) => ~Queued(u) /\ ~Written(u)
       /\ Queued(u) => ~Written(u)
  /\ NoRepeat(updateQueue)

\* The earlier calls of a thread are ahead of its later ones.
Earlier(v, u) == v[1] = u[1] /\ v[2] < u[2]

CallsAreInOrder ==
  \A u, v \in Updates : Earlier(v, u) =>
    /\ Applied(u) \/ Running(u) => Applied(v)
    /\ Applied(v) \/ Running(v) \/ Ahead(updateQueue, v, u)

\* What a batch has that is not published: what is unflushed, and the updater's
\* own update if the batch is its first.
BatchIsCounted ==
  \A t \in Updaters : copied[t] # Null =>
    LET size == Cardinality(value[copied[t]] \ value[ptr]) IN
    \/ size = unflushed[t]
    \/ size = unflushed[t] + 1 /\ done[t] = size

\* No batch is empty.
BatchIsNew ==
  \A t \in Updaters :
    /\ pc[t] = "drain" /\ value[copied[t]] = value[ptr] => done[t] < expected[t]
    /\ pc[t] \in {"enter", "publish"} => value[copied[t]] # value[ptr]

\* Readers hold a T, never garbage.
HeldIsReal ==
  \A r \in Readers : rpc[r] = "reading" => value[held[r]] \in SUBSET Updates

ContractInv ==
  /\ RcuInv
  /\ CopyExtendsPublished
  /\ NothingIsLost
  /\ NothingIsDoubled
  /\ CallsAreInOrder
  /\ BatchIsCounted
  /\ BatchIsNew
  /\ HeldIsReal

=============================================================================
