-------------------------- MODULE RcuLifetimeProofs --------------------------
(***************************************************************************)
(* Proofs about RcuLifetime, for any readers, updaters, thresholds, queue  *)
(* capacity and number of calls: what the destructor deletes and drops,    *)
(* and what an exception leaves behind.                                    *)
(***************************************************************************)
EXTENDS RcuLifetime, RcuProtectedProofs

\* Once the updater's call has thrown: no updater, no way to become one, and no owner for at most one
\* object. No reader holds what is in the pool or deleted.
Owned == {ptr} \cup heap \cup finished \cup retireLists[0] \cup retireLists[1]

OneOwnerEach ==
  /\ ptr \notin heap \cup finished \cup retireLists[0] \cup retireLists[1]
  /\ heap \cap (finished \cup retireLists[0] \cup retireLists[1]) = {}
  /\ finished \cap (retireLists[0] \cup retireLists[1]) = {}
  /\ retireLists[0] \cap retireLists[1] = {}

ReadersAreSafe == \A r \in Readers : rpc[r] = "reading" => held[r] \notin heap \cup finished

Frozen ==
  /\ updateCnt \in Nat \ {0}
  /\ pc \in [Updaters -> {"idle", "write"}]
  /\ copied = [t \in Updaters |-> Null]
  /\ rpc \in [Readers -> {"out", "locking", "locked", "reading"}]
  /\ held \in [Readers -> Objects \cup {Null}]
  /\ ptr \in Objects
  /\ OneOwnerEach
  /\ \E x : Objects \subseteq Owned \cup {x}
  /\ ReadersAreSafe

\* The inductive invariant.
LifeInv ==
  \/ Alive /\ ~abandoned /\ StateInv
  \/ Alive /\ abandoned /\ Frozen
  \/ ~Alive /\ DestructorDeletesOnce /\ DestructorDropsNoUpdate /\ ReaderProtection

-----------------------------------------------------------------------------
(* Steps that do not throw                                                 *)

\* Nothing but readers and callers that enqueue.
LEMMA FrozenNext ==
  ASSUME Frozen, Next
  PROVE  \/ \E r \in Readers : ReaderStep(r)
         \/ \E t \in Updaters :
              \/ OutsideGetPtr(t) /\ Protocol!TryRegister(t) /\ UNCHANGED reclamationVars
              \/ Protocol!Write(t) /\ UNCHANGED reclamationVars
<1>1. \A t \in Updaters : pc[t] \in {"idle", "write"}
  BY DEF Frozen
<1>2. ASSUME NEW t \in Updaters
      PROVE  /\ ~GetCopy(t) /\ ~RunCallback(t) /\ ~Publish(t) /\ ~RetireStep(t)
             /\ ~CheckStep(t)
             /\ ~Protocol!Enter(t) /\ ~Protocol!Read(t) /\ ~Protocol!Reload(t)
  BY <1>1
  DEF GetCopy, Protocol!HaveCopy, RunCallback, Protocol!CallbackReturns, Publish,
      Protocol!Publish, RetireStep, CheckStep, Protocol!CheckStep, Protocol!Resign,
      Protocol!Leave, Protocol!NextBatch, Protocol!Again, Protocol!Enter,
      Protocol!ExpectAndDrain, Protocol!Read, Protocol!Reload
<1> QED
  BY <1>2 DEF Next, UpdaterStep, TryRegister, LocalStep, Protocol!LocalStep

LEMMA FrozenStep ==
  ASSUME Frozen, [Next]_vars
  PROVE  Frozen' /\ UNCHANGED ptr
<1>1. ASSUME NEW r \in Readers, ReaderStep(r) PROVE Frozen' /\ UNCHANGED ptr
  <2>1. /\ UNCHANGED <<updateCnt, pc, copied, ptr, heap, finished, retireLists>>
        /\ \/ UNCHANGED held /\ rpc' = [rpc EXCEPT ![r] = "locking"]
           \/ UNCHANGED held /\ rpc' = [rpc EXCEPT ![r] = "locked"]
           \/ held' = [held EXCEPT ![r] = ptr] /\ rpc' = [rpc EXCEPT ![r] = "reading"]
           \/ held' = [held EXCEPT ![r] = Null] /\ rpc' = [rpc EXCEPT ![r] = "out"]
    BY <1>1
    DEF ReaderStep, LoadEpoch, StoreMark, LoadPtr, Unlock, Reclamation!LoadEpoch,
        Reclamation!StoreMark, Reclamation!LoadPtr, Reclamation!Unlock, protocolVars,
        Reclamation!objectVars, Reclamation!updaterVars
  <2>2. /\ rpc' \in [Readers -> {"out", "locking", "locked", "reading"}]
        /\ held' \in [Readers -> Objects \cup {Null}]
    BY <2>1 DEF Frozen
  <2>3. ReadersAreSafe'
    BY <2>1 DEF Frozen, ReadersAreSafe, OneOwnerEach
  <2> QED BY <2>1, <2>2, <2>3 DEF Frozen, OneOwnerEach, Owned
<1>2. ASSUME NEW t \in Updaters, Protocol!TryRegister(t), UNCHANGED reclamationVars
      PROVE  Frozen' /\ UNCHANGED ptr
  <2>1. updateCnt' \in Nat \ {0}
    BY <1>2 DEF Frozen, Protocol!TryRegister, Protocol!Call
  <2>2. pc' \in [Updaters -> {"idle", "write"}]
    BY <1>2 DEF Frozen, Protocol!TryRegister, Protocol!Call, Protocol!Goto
  <2> QED
    BY <1>2, <2>1, <2>2
    DEF Frozen, OneOwnerEach, Owned, ReadersAreSafe, reclamationVars
<1>3. ASSUME NEW t \in Updaters, Protocol!Write(t), UNCHANGED reclamationVars
      PROVE  Frozen' /\ UNCHANGED ptr
  <2>1. UNCHANGED updateCnt /\ pc' \in [Updaters -> {"idle", "write"}]
    BY <1>3 DEF Frozen, Protocol!Write, Protocol!Enqueue, Protocol!Goto
  <2> QED
    BY <1>3, <2>1 DEF Frozen, OneOwnerEach, Owned, ReadersAreSafe, reclamationVars
<1>4. CASE UNCHANGED vars
  BY <1>4
  DEF Frozen, OneOwnerEach, Owned, ReadersAreSafe, vars, reclamationVars, protocolVars
<1> QED BY <1>1, <1>2, <1>3, <1>4, FrozenNext

-----------------------------------------------------------------------------
(* Exceptions                                                              *)

\* The exception loses the private copy, the old object or an object just taken
\* out of the pool; the updater has at most one of them.
LEMMA ThrowStep ==
  ASSUME LifeInv, Alive, NEW t \in Updaters, Throw(t)
  PROVE  LifeInv' /\ ~abandoned /\ UNCHANGED ptr
<1>0. /\ pc[t] \in {"get_copy", "callback", "retire"}
      /\ \/ finished' = finished
         \/ pc[t] = "get_copy" /\ \E o \in finished : finished' = finished \ {o}
      /\ pc[t] = "retire" => phase[t] = "retire"
      /\ abandoned' = TRUE
      /\ pc' = [pc EXCEPT ![t] = "idle"]
      /\ copied' = [copied EXCEPT ![t] = Null]
      /\ UNCHANGED <<updateCnt, heap, ptr, retireLists, rpc, held, deleted>>
  BY DEF Throw, Unwind, Throws, GetCopyThrows, CallbackThrows, PushBackThrows
<1>1. ~abandoned /\ StateInv
  BY <1>0 DEF LifeInv, Frozen
<1>2. FullInv
  BY <1>1 DEF StateInv, ContractInv, FullInv
<1>3. /\ updateCnt \in Nat /\ pc \in [Updaters -> Protocol!Inside \cup {"idle", "write"}]
      /\ updateCnt > 0 <=> Protocol!Registered # {}
      /\ \A u, w \in Protocol!Registered : u = w
  BY <1>2 DEF FullInv, RcuInv, Protocol!ProtocolInv, Protocol!TypeOK,
              Protocol!CountMeansOneUpdater
<1>4. t \in Protocol!Registered
  BY <1>0 DEF Protocol!Registered, Protocol!Inside
<1>5. \A w \in Updaters : w # t => pc[w] \in {"idle", "write"}
  BY <1>3, <1>4 DEF Protocol!Registered
<1>6. /\ \A w \in Updaters : w # t => phase[w] = "idle"
      /\ pc[t] = "get_copy" => phase[t] = "idle"
      /\ pc[t] = "callback" => phase[t] = "private"
  BY <1>2, <1>5 DEF FullInv, RcuInv, ProgressMatchesPhase
<1>7. /\ Core!TypeOK /\ Core!PhasesAreTrue /\ Core!EveryObjectHasOneOwner
      /\ Core!HeldIsSafe
  BY <1>2 DEF FullInv, Core!IInv
<1>8. \A w \in Updaters : w # t => copied[w] = Null /\ old[w] = Null
  BY <1>6, <1>7 DEF Core!PhasesAreTrue
<1>9. /\ Core!Copies \subseteq {copied[t]} \ {Null}
      /\ Core!Outgoing \subseteq {old[t]} \ {Null}
  BY <1>8 DEF Core!Copies, Core!Outgoing
<1>10. \E x : Objects \subseteq Owned' \cup {x}
  <2>1. Objects \subseteq Owned \cup Core!Copies \cup Core!Outgoing
    BY <1>7 DEF Core!EveryObjectHasOneOwner, Owned
  <2>2. CASE pc[t] = "get_copy"
    <3>1. copied[t] = Null /\ old[t] = Null
      BY <1>6, <1>7, <2>2 DEF Core!PhasesAreTrue
    <3>2. \E o : finished \subseteq finished' \cup {o}
      BY <1>0
    <3> QED BY <1>0, <1>9, <2>1, <3>1, <3>2 DEF Owned
  <2>3. CASE pc[t] # "get_copy"
    <3>1. copied[t] = Null \/ old[t] = Null
      BY <1>0, <1>6, <1>7, <2>3 DEF Core!PhasesAreTrue
    <3>2. \E x : Objects \subseteq Owned \cup {x}
      BY <1>9, <2>1, <3>1
    <3>3. Owned' = Owned
      BY <1>0, <2>3 DEF Owned
    <3> QED BY <3>2, <3>3
  <2> QED BY <2>2, <2>3
<1>11. finished' \subseteq finished
  BY <1>0
<1>12. OneOwnerEach'
  BY <1>0, <1>7, <1>11 DEF OneOwnerEach, Core!EveryObjectHasOneOwner
<1>13. ReadersAreSafe'
  <2>1. ASSUME NEW r \in Readers, rpc[r] = "reading"
        PROVE  held[r] \notin heap \cup finished
    <3>1. held[r] \in {ptr} \cup Core!Outgoing \cup retireLists[0] \cup retireLists[1]
      BY <1>7, <2>1 DEF Core!HeldIsSafe
    <3> QED BY <1>7, <3>1 DEF Core!EveryObjectHasOneOwner
  <2> QED BY <1>0, <1>11, <2>1 DEF ReadersAreSafe
<1>14. copied' = [w \in Updaters |-> Null]
  BY <1>0, <1>7, <1>8 DEF Core!TypeOK
<1>15. /\ pc' \in [Updaters -> {"idle", "write"}]
       /\ updateCnt' \in Nat \ {0}
  BY <1>0, <1>3, <1>4, <1>5
<1>16. /\ rpc' \in [Readers -> {"out", "locking", "locked", "reading"}]
       /\ held' \in [Readers -> Objects \cup {Null}]
       /\ ptr' \in Objects
  BY <1>0, <1>7 DEF Core!TypeOK
<1>17. Frozen'
  BY <1>10, <1>12, <1>13, <1>14, <1>15, <1>16 DEF Frozen
<1> QED BY <1>0, <1>1, <1>17 DEF LifeInv, Alive

-----------------------------------------------------------------------------
(* The destructor                                                          *)

\* In which of the lists an object is: in one at most if they are disjoint.
Holders(lists, o) == {l \in DOMAIN lists : o \in lists[l]}

LEMMA OneHolder ==
  ASSUME NEW lists, NEW o,
         \A k, l \in DOMAIN lists : k # l => lists[k] \cap lists[l] = {}
  PROVE  Cardinality(Holders(lists, o))
           = IF \E l \in DOMAIN lists : o \in lists[l] THEN 1 ELSE 0
<1>1. ASSUME NEW l \in DOMAIN lists, o \in lists[l] PROVE Cardinality(Holders(lists, o)) = 1
  <2>1. Holders(lists, o) = {l}
    BY <1>1 DEF Holders
  <2> QED BY <2>1, FS_Singleton
<1>2. ASSUME ~\E l \in DOMAIN lists : o \in lists[l] PROVE Cardinality(Holders(lists, o)) = 0
  <2>1. Holders(lists, o) = {}
    BY <1>2 DEF Holders
  <2> QED BY <2>1, FS_EmptySet
<1> QED BY <1>1, <1>2

\* The destructor deletes what the members own.
LEMMA DestroyDeletesOwned ==
  ASSUME Destroy, OneOwnerEach, ptr \in Objects
  PROVE  /\ \A o \in Objects : deleted'[o] = IF o \in Owned \ heap THEN 1 ELSE 0
         /\ deleted' # <<>>
<1> DEFINE lists == <<{ptr}, retireLists[0], retireLists[1], finished>>
<1>1. deleted' = [o \in Objects |-> Cardinality(Holders(lists, o))]
  BY DEF Destroy, DeleteAll, Holders
<1>2. /\ DOMAIN lists = {1, 2, 3, 4}
      /\ lists[1] = {ptr} /\ lists[2] = retireLists[0] /\ lists[3] = retireLists[1]
      /\ lists[4] = finished
  OBVIOUS
<1> HIDE DEF lists
<1>3. \A k, l \in DOMAIN lists : k # l => lists[k] \cap lists[l] = {}
  BY <1>2 DEF OneOwnerEach
<1>4. \A o : o \in Owned \ heap <=> \E l \in DOMAIN lists : o \in lists[l]
  BY <1>2 DEF Owned, OneOwnerEach
<1>5. \A o \in Objects : deleted'[o] = IF o \in Owned \ heap THEN 1 ELSE 0
  BY <1>1, <1>3, <1>4, OneHolder
<1>6. DOMAIN deleted' = Objects /\ DOMAIN <<>> = {}
  BY <1>1
<1> QED BY <1>5, <1>6

LEMMA DestroyStep ==
  ASSUME LifeInv, Alive, Destroy
  PROVE  LifeInv' /\ UNCHANGED ptr
<1>0. /\ \A t \in Updaters : pc[t] = "idle"
      /\ \A r \in Readers : rpc[r] = "out"
      /\ UNCHANGED vars /\ UNCHANGED abandoned
  BY DEF Destroy, DeleteAll
<1>1. ReaderProtection'
  BY <1>0 DEF ReaderProtection, Reclamation!ReaderProtection, vars, reclamationVars
<1>2. UNCHANGED <<ptr, heap, value, updateQueue, calls>>
  BY <1>0 DEF vars, reclamationVars, protocolVars
<1>3. CASE ~abandoned /\ StateInv
  <2>1. FullInv
    BY <1>3 DEF StateInv, ContractInv, FullInv
  <2>2. Protocol!Registered = {}
    BY <1>0 DEF Protocol!Registered, Protocol!Inside
  <2>3. updateQueue = <<>>
    BY <2>1, <2>2 DEF FullInv, RcuInv, Protocol!ProtocolInv, Protocol!CountIsExact
  <2>4. value[ptr] = Submitted
    BY <1>3, <2>2, PublishedWithoutUpdater
  <2>5. DestructorDropsNoUpdate'
    BY <1>2, <2>3, <2>4 DEF DestructorDropsNoUpdate, Submitted, Protocol!Submitted
  <2>6. /\ Core!TypeOK /\ Core!PhasesAreTrue /\ Core!EveryObjectHasOneOwner
        /\ ProgressMatchesPhase
    BY <2>1 DEF FullInv, RcuInv, Core!IInv
  <2>7. Core!Copies = {} /\ Core!Outgoing = {}
    BY <1>0, <2>6 DEF ProgressMatchesPhase, Core!PhasesAreTrue, Core!Copies, Core!Outgoing
  <2>8. Objects = Owned /\ OneOwnerEach /\ ptr \in Objects
    BY <2>6, <2>7 DEF Core!TypeOK, Core!EveryObjectHasOneOwner, Owned, OneOwnerEach
  <2>9. /\ \A o \in Objects : deleted'[o] = IF o \in Owned \ heap THEN 1 ELSE 0
        /\ deleted' # <<>>
    BY <2>8, DestroyDeletesOwned
  <2>10. DestructorDeletesOnce'
    <3>1. \A o \in Objects : deleted'[o] <= IF o \in heap' THEN 0 ELSE 1
      BY <1>2, <2>9
    <3>2. {o \in Objects \ heap' : deleted'[o] = 0} = {}
      BY <1>2, <2>8, <2>9
    <3>3. Cardinality({}) = 0
      BY FS_EmptySet
    <3> QED BY <3>1, <3>2, <3>3 DEF DestructorDeletesOnce
  <2> QED BY <1>1, <1>2, <2>5, <2>9, <2>10 DEF LifeInv, Alive
<1>4. CASE abandoned /\ Frozen
  <2>1. OneOwnerEach /\ ptr \in Objects
    BY <1>4 DEF Frozen
  <2>2. PICK x : Objects \subseteq Owned \cup {x}
    BY <1>4 DEF Frozen
  <2>3. /\ \A o \in Objects : deleted'[o] = IF o \in Owned \ heap THEN 1 ELSE 0
        /\ deleted' # <<>>
    BY <2>1, DestroyDeletesOwned
  <2>4. DestructorDeletesOnce'
    <3> DEFINE left == {o \in Objects \ heap' : deleted'[o] = 0}
    <3>1. \A o \in Objects : deleted'[o] <= IF o \in heap' THEN 0 ELSE 1
      BY <1>2, <2>3
    <3>2. left \subseteq {x}
      BY <1>2, <2>2, <2>3
    <3>3. Cardinality(left) <= 1
      <4>1. left = {} \/ left = {x}
        BY <3>2
      <4> HIDE DEF left
      <4>2. CASE left = {}
        <5>1. Cardinality(left) = 0
          BY <4>2, FS_EmptySet
        <5> QED BY <5>1
      <4>3. CASE left = {x}
        <5>1. Cardinality(left) = 1
          BY <4>3, FS_Singleton
        <5> QED BY <5>1
      <4> QED BY <4>1, <4>2, <4>3
    <3> QED BY <1>0, <1>4, <3>1, <3>3 DEF DestructorDeletesOnce
  <2>5. DestructorDropsNoUpdate'
    BY <1>0, <1>4 DEF DestructorDropsNoUpdate
  <2> QED BY <1>1, <1>2, <2>3, <2>4, <2>5 DEF LifeInv, Alive
<1> QED BY <1>2, <1>3, <1>4 DEF LifeInv

-----------------------------------------------------------------------------
(* The theorems *)

LEMMA LifeInvInit == LifeInit => LifeInv
BY ContractInit DEF LifeInit, LifeInv, Alive

LEMMA LifeInvStep ==
  ASSUME LifeInv, [LifeNext]_lifeVars
  PROVE  LifeInv' /\ (abandoned => UNCHANGED ptr)
<1>1. CASE Alive /\ [Next]_vars /\ UNCHANGED <<abandoned, deleted>>
  <2>1. CASE ~abandoned /\ StateInv
    BY <1>1, <2>1, ContractStep DEF LifeInv, Alive
  <2>2. CASE abandoned /\ Frozen
    BY <1>1, <2>2, FrozenStep DEF LifeInv, Alive
  <2> QED BY <1>1, <2>1, <2>2 DEF LifeInv
<1>2. ASSUME Alive, NEW t \in Updaters, Throw(t)
      PROVE  LifeInv' /\ (abandoned => UNCHANGED ptr)
  BY <1>2, ThrowStep
<1>3. CASE Alive /\ Destroy
  BY <1>3, DestroyStep
<1>4. CASE UNCHANGED lifeVars /\ ~Alive
  BY <1>4
  DEF lifeVars, vars, reclamationVars, protocolVars, LifeInv, Alive,
      DestructorDeletesOnce, DestructorDropsNoUpdate, Submitted, Protocol!Submitted,
      ReaderProtection, Reclamation!ReaderProtection, Reclamation!Copies
<1> QED BY <1>1, <1>2, <1>3, <1>4 DEF LifeNext, lifeVars

LEMMA LifeInvariant == LifeSpec => []LifeInv
<1>1. LifeInv /\ [LifeNext]_lifeVars => LifeInv'
  BY LifeInvStep
<1> QED BY <1>1, LifeInvInit, PTL DEF LifeSpec

\* The destructor deletes no object twice and leaves none behind, but for the
\* one that an exception in the updater has made the class forget.
THEOREM EveryObjectDeletedOnce == LifeSpec => []DestructorDeletesOnce
<1>1. LifeInv => DestructorDeletesOnce
  BY DEF LifeInv, DestructorDeletesOnce
<1> QED BY <1>1, LifeInvariant, PTL

\* When all calls have returned and the updater's has not thrown, the destructor
\* finds no callback in the queue, and all were in the published object.
THEOREM NoUpdateDropped == LifeSpec => []DestructorDropsNoUpdate
<1>1. LifeInv => DestructorDropsNoUpdate
  BY DEF LifeInv, DestructorDropsNoUpdate
<1> QED BY <1>1, LifeInvariant, PTL

\* After the updater's exception the pointer never moves again.
THEOREM PublicationEnds == LifeSpec => NothingPublishedAfterException
<1>1. LifeInv /\ [LifeNext]_lifeVars => [abandoned => UNCHANGED ptr]_lifeVars
  BY LifeInvStep
<1> QED BY <1>1, LifeInvariant, PTL DEF LifeSpec, NothingPublishedAfterException

\* Exceptions and the destructor do not take a reader's object away.
THEOREM ReadersOutliveExceptions == LifeSpec => []ReaderProtection
<1>1. LifeInv => ReaderProtection
  <2>1. StateInv => ReaderProtection
    BY ReadersAreProtected DEF StateInv, ContractInv, FullInv
  <2>2. Frozen => ReaderProtection
    BY DEF Frozen, ReadersAreSafe, ReaderProtection, Reclamation!ReaderProtection,
           Reclamation!Copies
  <2> QED BY <2>1, <2>2 DEF LifeInv
<1> QED BY <1>1, LifeInvariant, PTL

=============================================================================
