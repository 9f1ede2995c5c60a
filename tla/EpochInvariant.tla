--------------------------- MODULE EpochInvariant ---------------------------
(***************************************************************************)
(* The inductive invariant behind ReaderProtection. The property itself is *)
(* not inductive: that a held object is not reclaimed needs that it is in  *)
(* a list whose turn has not come, that needs the epochs the readers       *)
(* locked in to fit the lists, and that needs what a scan that is half     *)
(* done, or done but not acted on, has established.                        *)
(***************************************************************************)
EXTENDS EpochReclamation

Marked(r) == rpc[r] \in {"locked", "reading"}

\* A reader's byte shows the epoch it locked in, from its store to its unlock.
MarksAreTrue ==
  \A r \in Readers :
    epochReading[r] = IF Marked(r) THEN Counters!EpochReading(loaded[r]) ELSE 0

\* At most one thread updates.
OneUpdater == \A t, u \in Updaters : phase[t] # "idle" /\ phase[u] # "idle" => t = u

\* An updater owns a copy, or an outgoing object, or scans, in its phases.
PhasesAreTrue ==
  \A t \in Updaters :
    /\ copied[t] # Null <=> phase[t] = "private"
    /\ old[t] # Null <=> phase[t] = "retire"
    /\ scanned[t] = IF phase[t] = "scan" THEN prev ELSE Counters!NoCall

\* The updater t has found r out of the previous epoch: its scan has passed r,
\* or is complete.
PassedBy(t, r) ==
  \/ phase[t] = "scan" /\ r \notin unscanned[t]
  \/ phase[t] = "advance"

\* A held object is published or on its way out. The list of the other epoch
\* holds it only while that epoch is the current one. And once a scan has
\* passed by a reader of the previous epoch, that reader has locked since the
\* last exchange and holds the published object.
HeldIsSafe ==
  \A r \in Readers : rpc[r] = "reading" =>
    /\ held[r] \in {ptr} \cup Outgoing \cup retireLists[0] \cup retireLists[1]
    /\ held[r] \in retireLists[1 - loaded[r]] => loaded[r] # epoch
    /\ loaded[r] # epoch =>
         \A t \in Updaters : PassedBy(t, r) => held[r] = ptr

IInv ==
  /\ TypeOK
  /\ EveryObjectHasOneOwner
  /\ MarksAreTrue
  /\ OneUpdater
  /\ PhasesAreTrue
  /\ HeldIsSafe

=============================================================================
