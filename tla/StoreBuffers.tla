---------------------------- MODULE StoreBuffers ----------------------------
(***************************************************************************)
(* EpochReclamation on a machine with store buffers (x86 has them, and it  *)
(* is the strongest that folly supports). The relaxed stores of            *)
(* detail/ThreadCachedReaders.hpp (a mark, its removal) and of m_epoch go  *)
(* into a buffer of their thread and reach memory later, in order. A load  *)
(* does not wait for the buffer of its thread, and finds what is in it.    *)
(* The exchange of m_ptr waits, being a release.                           *)
(*                                                                         *)
(* Nothing in the code orders a mark before the load of m_ptr, so a scan   *)
(* may miss one. Whether one has is one bit of history.                    *)
(***************************************************************************)
EXTENDS EpochInvariant, Sequences

CONSTANT MaxBuffered  \* stores to its byte that a thread's buffer has room for

ASSUME BufferAssumption == MaxBuffered \in Nat

VARIABLES
  marks,        \* the stores to its byte in each reader's buffer
  epochStores,  \* those to m_epoch in each updater's
  missed        \* a scan has passed by a reader while its mark was in the buffer

bufferVars == <<marks, epochStores>>

BufferInit ==
  /\ Init
  /\ marks = [r \in Readers |-> <<>>]
  /\ epochStores = [t \in Updaters |-> <<>>]
  /\ missed = FALSE

-----------------------------------------------------------------------------

\* A thread that has changed the epoch itself finds that in its buffer.
LoadEpochForwarded(r) ==
  IF r \in Updaters /\ epochStores[r] # <<>>
  THEN /\ rpc[r] = "out"
       /\ InUserCode(r)
       /\ loaded' = [loaded EXCEPT ![r] = epochStores[r][Len(epochStores[r])]]
       /\ rpc' = [rpc EXCEPT ![r] = "locking"]
       /\ UNCHANGED <<objectVars, epoch, counterVars, held, updaterVars>>
  ELSE LoadEpoch(r)

Buffer(r, byte) ==
  /\ Len(marks[r]) < MaxBuffered
  /\ marks' = [marks EXCEPT ![r] = Append(@, byte)]
  /\ UNCHANGED <<epochStores, counterVars>>

MarkRelaxed(r) ==
  /\ rpc[r] = "locking"
  /\ Buffer(r, Counters!EpochReading(loaded[r]))
  /\ rpc' = [rpc EXCEPT ![r] = "locked"]
  /\ UNCHANGED <<objectVars, epoch, loaded, held, updaterVars>>

UnlockRelaxed(r) ==
  /\ rpc[r] = "reading"
  /\ InUserCode(r)
  /\ Buffer(r, 0)
  /\ held' = [held EXCEPT ![r] = Null]
  /\ rpc' = [rpc EXCEPT ![r] = "out"]
  /\ UNCHANGED <<objectVars, epoch, loaded, updaterVars>>

\* The oldest store in the reader's buffer reaches memory.
DrainMark(r) ==
  /\ marks[r] # <<>>
  /\ epochReading' = [epochReading EXCEPT ![r] = Head(marks[r])]
  /\ marks' = [marks EXCEPT ![r] = Tail(@)]
  /\ UNCHANGED <<objectVars, epoch, scanned, unscanned, readerVars, updaterVars, epochStores>>

-----------------------------------------------------------------------------

\* Mutant of GetCopySynchronised: the last updater resigned without a release.
GetCopyUnsynchronised(t) == NoUpdater /\ \E o \in Objects : GetCopy(t, o)

\* Another thread can be the updater once it sees what the last one stored.
GetCopySynchronised(t) ==
  /\ NoUpdater
  /\ \A u \in Updaters \ {t} : epochStores[u] = <<>>
  /\ \E o \in Objects : GetCopy(t, o)

\* Mutant of PublishReleased: a relaxed exchange.
PublishRelaxed(t) == Publish(t)

\* The exchange is a release: no store before it is overtaken.
PublishReleased(t) ==
  /\ epochStores[t] = <<>>
  /\ t \in Readers => marks[t] = <<>>
  /\ Publish(t)

AdvanceEpochRelaxed(t) ==
  /\ At(t, "advance")
  /\ epochStores' = [epochStores EXCEPT ![t] = Append(@, prev)]
  /\ phase' = [phase EXCEPT ![t] = "idle"]
  /\ UNCHANGED <<objectVars, epoch, counterVars, readerVars, copied, old, marks>>

DrainEpoch(t) ==
  /\ epochStores[t] # <<>>
  /\ epoch' = Head(epochStores[t])
  /\ epochStores' = [epochStores EXCEPT ![t] = Tail(@)]
  /\ UNCHANGED <<objectVars, counterVars, readerVars, updaterVars, marks>>

-----------------------------------------------------------------------------

\* r holds an object under a mark that t looks for and that is not in memory.
MarkIsLate(t, r) ==
  rpc[r] = "reading" /\ loaded[r] = scanned[t] /\ marks[r] # <<>>

\* The steps that neither use a buffer nor can miss a mark.
PlainStep(t) ==
  \/ GetCopySynchronised(t)
  \/ \E v \in Values : Apply(t, v)
  \/ PublishReleased(t)
  \/ Retire(t)
  \/ \E r \in Readers : FindReader(t, r)
  \/ Reclaim(t)

BufferNext ==
  \/ \E r \in Readers :
       /\ UNCHANGED missed
       /\ \/ (LoadEpochForwarded(r) \/ LoadPtr(r)) /\ UNCHANGED bufferVars
          \/ MarkRelaxed(r)
          \/ UnlockRelaxed(r)
          \/ DrainMark(r)
  \/ \E t \in Updaters :
       \/ /\ UNCHANGED missed
          /\ \/ PlainStep(t) /\ UNCHANGED bufferVars
             \/ AdvanceEpochRelaxed(t)
             \/ DrainEpoch(t)
       \/ \E r \in Readers :
            /\ SkipReader(t, r) /\ UNCHANGED bufferVars
            /\ missed' = (missed \/ MarkIsLate(t, r))

BufferSpec == BufferInit /\ [][BufferNext]_<<vars, bufferVars, missed>>

-----------------------------------------------------------------------------
(* Properties. Those of EpochReclamation do not hold: a scan that misses a *)
(* mark has the object reclaimed under its reader.                         *)

\* That is the only way for readers to lose their protection: as long as no
\* scan passes by in the moment in which a reader holds an object and its mark
\* is in the buffer, what readers hold is safe, with marks that are late, with
\* late removals, and with changes of the epoch that are late.
ProtectedUnlessMissed == ~missed => ReaderProtection

\* And until then no held object changes.
KeptUnlessMissed ==
  [][~missed =>
       \A r \in Readers :
         rpc[r] = "reading" /\ rpc'[r] = "reading"
           => held'[r] = held[r] /\ value'[held[r]] = value[held[r]]]_vars

-----------------------------------------------------------------------------
(* The inductive invariant: that of EpochInvariant with what the buffers   *)
(* hold back.                                                              *)

Settled == \A t \in Updaters : epochStores[t] = <<>>

\* The epoch as its last store leaves it, in memory or not.
newest == IF Settled THEN epoch ELSE prev

\* One updater may have an epoch to store, and then the others are waiting and
\* it has yet to publish.
EpochIsSettled ==
  /\ epochStores \in [Updaters -> {<<>>, <<prev>>}]
  /\ \A t \in Updaters : epochStores[t] # <<>> =>
       /\ phase[t] \in {"idle", "private"}
       /\ \A u \in Updaters \ {t} : epochStores[u] = <<>> /\ phase[u] = "idle"

\* The byte of r once all its stores are in memory.
lastMark(r) ==
  IF marks[r] = <<>> THEN epochReading[r] ELSE marks[r][Len(marks[r])]

\* While its mark counts, it is the last that a reader has stored.
MarksAreStored ==
  /\ marks \in [Readers -> Seq(Counters!Bytes)]
  /\ \A r \in Readers : Marked(r) => lastMark(r) = Counters!EpochReading(loaded[r])

\* HeldIsSafe, with the newest epoch where lists are concerned.
BufferedHeldIsSafe ==
  \A r \in Readers : rpc[r] = "reading" =>
    /\ held[r] \in {ptr} \cup Outgoing \cup retireLists[0] \cup retireLists[1]
    /\ held[r] \in retireLists[1 - loaded[r]] => loaded[r] # newest
    /\ loaded[r] # epoch =>
         \A t \in Updaters : PassedBy(t, r) => held[r] = ptr

BufferInv ==
  /\ TypeOK
  /\ EveryObjectHasOneOwner
  /\ OneUpdater
  /\ PhasesAreTrue
  /\ EpochIsSettled
  /\ MarksAreStored
  /\ missed \in BOOLEAN
  /\ ~missed => BufferedHeldIsSafe

=============================================================================
