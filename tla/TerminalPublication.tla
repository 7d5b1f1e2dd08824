-------------------------- MODULE TerminalPublication --------------------------
(***************************************************************************)
(* The end of one generation (GenerationJobManager): somebody claims the   *)
(* terminal state, saves the response, settles the row with the one event  *)
(* that closes the stream, publishes it to all replicas and removes the    *)
(* row.  The row carries a marker from the claim to the settlement; a      *)
(* marker whose lease ended is settled by whoever reads it.  Clients       *)
(* attach to any replica at any point of this, store commands and          *)
(* publications fail, frames are lost and replicas crash.                  *)
(*                                                                         *)
(* The job is not replaced by another one on the same stream here.         *)
(***************************************************************************)
EXTENDS Integers

CONSTANTS
  Replicas, Clients,
  Routes,       \* the replicas a client's connections may be sent to
  Owner,        \* the replica that runs the generation
  NoRow,        \* the job is not in the store
  CleanupOnComplete,  \* finished jobs are removed
  Lease,        \* TERMINAL_PERSISTENCE_TIMEOUT_MS
  Retention,    \* TERMINAL_PERSISTENCE_RETENTION_TTL_S, and the lifetime of a finished job
  MaxFaults     \* bound on the commands that fail and the frames that are lost

ASSUME TerminalAssumption ==
  /\ CleanupOnComplete \in BOOLEAN
  /\ Lease \in Nat \ {0} /\ Retention \in Nat /\ Lease < Retention
  /\ Routes \in [Clients -> SUBSET Replicas]
  /\ Owner \in Replicas /\ MaxFaults \in Nat

VARIABLES
  row,       \* the job in the store
  claim,     \* the terminal claim and how far its holder is
  runtime,   \* runtimeState of each replica
  client,    \* each client's subscription
  net,       \* frames published and not delivered
  faults,    \* commands that failed and frames that were lost
  lost       \* a frame was lost (history)

vars == <<row, claim, runtime, client, net, faults, lost>>

None == "none"

\* A normal event carries the response; reconcile asks to load it; missing is
\* the reconcile event of a stream that has no event of its own.
Payloads == {"normal", "reconcile"}
Frames == Payloads \cup {"error", "reaped"}
Closings == Frames \cup {"missing", "gone"}

Terminal == {"complete", "aborted", "error"}

Rows == [status : Terminal \cup {"running"}, pending : BOOLEAN,
         age : 0 .. Retention, final : Payloads \cup {None}]

ASSUME RowAssumption == NoRow \notin Rows

\* captured: the runtime the claim was made with is still there; blind: the
\* settlement failed; retain: terminalPublicationFailures; sent: history.
Claims == [by : Replicas \cup {None}, status : Terminal \cup {None},
  step : {"none", "saving", "publishing", "reading", "emitting", "finishing",
          "releasing", "done", "dead"},
  saved : BOOLEAN, event : Payloads \cup {None}, durable : BOOLEAN, captured : BOOLEAN,
  blind : BOOLEAN, retain : BOOLEAN, sent : BOOLEAN]

NoClaim == [by |-> None, status |-> None, step |-> "none", saved |-> FALSE, event |-> None,
  durable |-> FALSE, captured |-> FALSE, blind |-> FALSE, retain |-> FALSE, sent |-> FALSE]

\* finalEvent, or errorEvent
Runtimes == [there : BOOLEAN, final : Payloads \cup {None, "missing", "error"}]
NoRuntime == [there |-> FALSE, final |-> None]

\* checking: deliverStoredTerminal runs; waiting: its timer does; stranded: the
\* response is open and nothing can end it.  got: what ends the response, or
\* will end it once the channel is ready.
Subscriptions ==
  [at : Replicas \cup {None},
   step : {"away", "attaching", "checking", "waiting", "attached", "stranded", "ended"},
   got : Closings \cup {None}]
Away == [at |-> None, step |-> "away", got |-> None]

Init ==
  /\ row = [status |-> "running", pending |-> FALSE, age |-> 0, final |-> None]
  /\ claim = NoClaim
  /\ runtime = [r \in Replicas |-> [NoRuntime EXCEPT !.there = (r = Owner)]]
  /\ client = [c \in Clients |-> Away]
  /\ net = {}
  /\ faults = 0 /\ lost = FALSE

Found == row # NoRow
Ended == Found /\ row.status \in Terminal

\* Seeded bug: the lease outlives the row.
Stale_Beyond == Ended /\ row.pending /\ row.age > Retention

\* The lease of the marker has ended.
Stale == Ended /\ row.pending /\ row.age >= Lease

\* The replica of the claim may have died with it.
Up(r) == ~(claim.step = "dead" /\ claim.by = r)

Registered == {"attaching", "checking", "waiting", "attached"}
Subscribed(r) == {c \in Clients : client[c].at = r /\ client[c].step \in Registered}

\* The response of a client has ended with this.
Closed(k, with) == [at |-> None, step |-> "ended", got |-> with]

\* What a frame does to the clients of a replica.
Heard(r, frame) == [c \in Clients |->
  IF c \notin Subscribed(r) THEN client[c]
  ELSE IF client[c].step # "attaching" THEN Closed(client[c], frame)
  ELSE [client[c] EXCEPT !.got = IF @ = None THEN frame ELSE @]]

\* A command may fail.
Fail == faults < MaxFaults /\ faults' = faults + 1

\* A publication reaches the replicas that subscribed; the subscription of a
\* client that is attaching may be too late.
PublishTo(replicas, frame) ==
  \E R \in SUBSET {r \in replicas : Subscribed(r) # {}} :
    /\ \A r \in replicas \ R : \A c \in Subscribed(r) : client[c].step = "attaching"
    /\ net' = net \cup (R \X {frame})
Publish(frame) == PublishTo(Replicas, frame)

\* Seeded bug: the settlement does not compare.
Settled_Anyway(event) == IF Found THEN [row EXCEPT !.pending = FALSE, !.final = event] ELSE row

\* finalizeTerminalPersistence: only a row with its marker is settled.
Settled(event) ==
  IF Found /\ row.pending THEN [row EXCEPT !.pending = FALSE, !.final = event] ELSE row

-----------------------------------------------------------------------------
(* The holder of the claim *)

\* A completing controller, an error of the run, or an abort, which reads the
\* job first, wins the transition; an abort where the job runs goes the way of
\* a completion.
Claim(r, status) ==
  /\ Found /\ row.status = "running"
  /\ status # "aborted" <=> r = Owner
  /\ row' = [row EXCEPT !.status = status, !.pending = (status # "error")]
  /\ claim' = [NoClaim EXCEPT !.by = r, !.status = status, !.captured = TRUE,
                              !.step = IF status = "error" THEN "finishing" ELSE "saving"]
  /\ runtime' = [runtime EXCEPT ![r].there = TRUE]
  /\ UNCHANGED <<lost, client, net, faults>>

\* The required writes, which may fail.
Save(well) ==
  /\ claim.step = "saving"
  /\ claim' = [claim EXCEPT !.step = "publishing", !.saved = well]
  /\ UNCHANGED <<lost, row, runtime, client, net, faults>>

Desired == IF claim.saved THEN "normal" ELSE "reconcile"

\* The event a publication is going to send; a durable one is kept in the runtime.
Choose(event, durable, blind) ==
  /\ claim' = [claim EXCEPT !.step = "emitting", !.event = event, !.durable = durable, !.blind = blind]
  /\ IF durable /\ claim.captured THEN runtime' = [runtime EXCEPT ![claim.by].final = event]
                                  ELSE UNCHANGED runtime

Settle ==
  /\ claim.step = "publishing"
  /\ row' = Settled(Desired)
  /\ IF row' # row THEN Choose(Desired, TRUE, FALSE)
                   ELSE claim' = [claim EXCEPT !.step = "reading"] /\ UNCHANGED runtime
  /\ UNCHANGED <<lost, client, net, faults>>

\* Seeded bug: the best effort is what was meant to be sent.
BestEffort_Desired == Desired

\* What is sent when it is not known what the row was settled with.
BestEffort == "reconcile"

\* The settlement throws, before or after it was executed.
SettleFails(executed) ==
  /\ claim.step = "publishing"
  /\ Fail
  /\ row' = IF executed THEN Settled(Desired) ELSE row
  /\ Choose(BestEffort, FALSE, TRUE)
  /\ UNCHANGED <<lost, client, net>>

\* Somebody else settled the row: its event is the one to send.
ReadSettled ==
  /\ claim.step = "reading"
  /\ IF Found /\ ~row.pending /\ row.final # None THEN Choose(row.final, TRUE, FALSE)
                                                 ELSE Choose(BestEffort, FALSE, FALSE)
  /\ UNCHANGED <<lost, row, client, net, faults>>

ReadFails ==
  /\ claim.step = "reading"
  /\ Fail
  /\ Choose(BestEffort, FALSE, TRUE)
  /\ UNCHANGED <<lost, row, client, net>>

Emit ==
  /\ claim.step = "emitting"
  /\ Publish(claim.event)
  /\ claim' = [claim EXCEPT !.step = "finishing", !.sent = TRUE]
  /\ UNCHANGED <<lost, row, runtime, client, faults>>

\* The publication throws: the clients of this replica are told to reconnect.
EmitFails(executed) ==
  /\ claim.step = "emitting"
  /\ Fail
  /\ IF executed THEN Publish(claim.event) ELSE UNCHANGED net
  /\ claim' = [claim EXCEPT !.step = "finishing", !.retain = claim.durable, !.sent = executed]
  /\ client' = [c \in Clients |->
       IF claim.captured /\ c \in Subscribed(claim.by) THEN Away ELSE client[c]]
  /\ UNCHANGED <<lost, row, runtime>>

\* finishTerminalJob of an error: published, or at least told to its own clients.
FinishError(well) ==
  /\ claim.step = "finishing" /\ claim.status = "error"
  /\ IF well THEN Publish("error") /\ UNCHANGED <<client, faults>>
       ELSE /\ Fail /\ UNCHANGED net
            /\ client' = [c \in Clients |->
                 IF c \in Subscribed(claim.by) THEN Closed(client[c], "error") ELSE client[c]]
  /\ runtime' = [runtime EXCEPT ![claim.by].final = "error"]
  /\ claim' = [claim EXCEPT !.step = "releasing", !.sent = well]
  /\ UNCHANGED <<lost, row>>

\* Seeded bug: the row is removed without a look at it.
Removable_Always == CleanupOnComplete

\* A row is removed unless its marker is for somebody else to settle, or its
\* event was not published.
Removable == CleanupOnComplete /\ ~claim.retain /\ ~(Found /\ row.pending)

Finish ==
  /\ claim.step = "finishing" /\ claim.status # "error"
  /\ row' = IF Removable THEN NoRow ELSE row
  /\ claim' = [claim EXCEPT !.step = "releasing"]
  /\ UNCHANGED <<lost, runtime, client, net, faults>>

FinishFails ==
  /\ claim.step = "finishing" /\ claim.status # "error" /\ CleanupOnComplete
  /\ Fail
  /\ claim' = [claim EXCEPT !.step = "releasing"]
  /\ UNCHANGED <<lost, row, runtime, client, net>>

\* The runtime the claim was made with, and the ownership, are given up.
Release ==
  /\ claim.step = "releasing"
  /\ claim' = [claim EXCEPT !.step = "done", !.captured = FALSE, !.event = None,
                            !.durable = FALSE, !.retain = FALSE]
  /\ runtime' = IF claim.captured /\ claim.status # "error" /\ CleanupOnComplete
                  THEN [runtime EXCEPT ![claim.by] = NoRuntime] ELSE runtime
  /\ UNCHANGED <<lost, row, client, net, faults>>

-----------------------------------------------------------------------------
(* Clients *)

\* recoverStaleTerminalPersistence on replica r: the row it leaves, and the
\* reconcile event it publishes if the publication does not fail.
Recover(r) ==
  /\ row' = Settled("reconcile")
  /\ \/ Publish("reconcile") /\ UNCHANGED faults
     \/ Fail /\ UNCHANGED net

\* A client subscribes on a replica; a job that is gone is answered at once.
Attach(c, r) ==
  /\ client[c].step = "away"
  /\ r \in Routes[c] /\ Up(r)
  /\ IF Stale THEN Recover(r) ELSE UNCHANGED <<row, net, faults>>
  /\ IF ~Found THEN client' = [client EXCEPT ![c] = Closed(@, "gone")] /\ UNCHANGED runtime
       ELSE /\ client' = [client EXCEPT ![c].at = r, ![c].step = "attaching"]
            /\ runtime' = [runtime EXCEPT ![r] =
                 [there |-> TRUE,
                  final |-> IF Stale THEN "reconcile"
                            ELSE IF @.there THEN @.final
                            ELSE IF row.status = "error" THEN "error" ELSE row.final]]
  /\ UNCHANGED <<lost, claim>>

\* The channel is ready; a job that went meanwhile is answered by the route,
\* otherwise what came meanwhile is delivered.
Ready(c) ==
  /\ client[c].step = "attaching"
  /\ client' = [client EXCEPT ![c] =
       IF ~Found \/ ~runtime[@.at].there THEN Closed(@, "missing")
       ELSE IF @.got # None THEN Closed(@, @.got)
       ELSE [@ EXCEPT !.step = "checking"]]
  /\ UNCHANGED <<lost, row, claim, runtime, net, faults>>

\* Another look at the store in a second.
Later(k) == [k EXCEPT !.step = "waiting"]

\* The event of a settled row, for a client of replica r.
Stored(r) ==
  IF row.status = "error" THEN "error"
  ELSE IF runtime[r].final # None THEN runtime[r].final
  ELSE IF row.final # None THEN row.final ELSE "missing"

\* deliverStoredTerminal
Check(c) ==
  LET r == client[c].at IN
  /\ client[c].step = "checking"
  /\ \/ /\ ~Ended
        /\ client' = [client EXCEPT ![c].step = "attached"]
        /\ UNCHANGED <<row, runtime, net, faults>>
     \/ /\ Ended /\ row.pending /\ ~Stale
        /\ client' = [client EXCEPT ![c] = Later(@)]
        /\ UNCHANGED <<row, runtime, net, faults>>
     \/ /\ Stale
        /\ Recover(r)
        /\ runtime' = [runtime EXCEPT ![r].final = "reconcile"]
        /\ client' = [client EXCEPT ![c] = Closed(@, "reconcile")]
     \/ /\ Ended /\ ~row.pending
        /\ client' = [client EXCEPT ![c] = Closed(@, Stored(r))]
        /\ runtime' = [runtime EXCEPT ![r].final = Stored(r)]
        /\ UNCHANGED <<row, net, faults>>
  /\ UNCHANGED <<lost, claim>>

CheckFails(c) ==
  /\ client[c].step = "checking"
  /\ Fail
  /\ client' = [client EXCEPT ![c] = Later(@)]
  /\ UNCHANGED <<lost, row, claim, runtime, net>>

\* A frame reaches the clients of a replica.
Deliver(r, frame) ==
  /\ <<r, frame>> \in net
  /\ net' = net \ {<<r, frame>>}
  /\ client' = Heard(r, frame)
  /\ runtime' = IF Subscribed(r) = {} \/ ~runtime[r].there \/ frame = "reaped" THEN runtime
                ELSE [runtime EXCEPT ![r].final = frame]
  /\ UNCHANGED <<lost, row, claim, faults>>

Lose(r, frame) ==
  /\ <<r, frame>> \in net
  /\ Fail
  /\ lost' = TRUE
  /\ net' = net \ {<<r, frame>>}
  /\ UNCHANGED <<row, claim, runtime, client>>

-----------------------------------------------------------------------------
(* Time, the sweep of a replica, crashes *)

\* A look at the store would show something: the row is settled, stale or gone.
Due == Ended /\ row.pending => Stale

Expires == row.age = Retention

\* Time passes for a finished job, at last its lifetime ends; a tick is longer
\* than the second between two looks.
Tick ==
  /\ Ended
  /\ \A c \in Clients : client[c].step # "checking" /\ (Due => client[c].step # "waiting")
  /\ row' = IF Expires THEN NoRow ELSE [row EXCEPT !.age = @ + 1]
  /\ UNCHANGED <<lost, claim, runtime, client, net, faults>>

\* The timer of a client that waits; a look that shows nothing is left out.
Timer(c) ==
  /\ client[c].step = "waiting"
  /\ Due
  /\ client' = [client EXCEPT ![c].step = "checking"]
  /\ UNCHANGED <<lost, row, claim, runtime, net, faults>>

\* The handlers of a replica are cleared, under whoever is attached.
Strand(r) == client' = [c \in Clients |->
  IF c \in Subscribed(r) /\ client[c].step # "attaching"
    THEN [client[c] EXCEPT !.step = "stranded"] ELSE client[c]]

\* The runtime of r is dropped.
Drop(r) ==
  /\ runtime' = [runtime EXCEPT ![r] = NoRuntime]
  /\ claim' = [claim EXCEPT !.captured = @ /\ claim.by # r]

\* ownedJobs; a controller that lost the claim gives the job up.
Owns(r) == r = Owner /\ claim.by \in {None, Owner} /\ claim.step # "done"

\* cleanup of a runtime nobody uses, while the finished job is still there
Retire(r) ==
  /\ Up(r) /\ runtime[r].there
  /\ Ended
  /\ ~Owns(r) /\ Subscribed(r) = {}
  /\ Drop(r)
  /\ UNCHANGED <<lost, row, client, net, faults>>

\* cleanup of a runtime whose job is gone: whoever is attached is sent an error;
\* once it is published the handlers go, be it back or not.
Reap(r) ==
  /\ Up(r) /\ runtime[r].there
  /\ ~Found
  /\ IF Subscribed(r) = {} THEN UNCHANGED <<client, net>>
       ELSE /\ PublishTo(Replicas \ {r}, "reaped")
            /\ Strand(r) \/ client' = Heard(r, "reaped")
  /\ Drop(r)
  /\ UNCHANGED <<lost, row, faults>>

\* cleanup of the handlers of a stream without a job and a runtime
CleanupOrphans(r) ==
  /\ Up(r) /\ ~runtime[r].there
  /\ ~Found
  /\ Subscribed(r) # {}
  /\ Strand(r)
  /\ UNCHANGED <<lost, row, claim, runtime, net, faults>>

\* The replica of the claim dies; its clients come back elsewhere.
Crash ==
  LET r == claim.by IN
  /\ claim.step \notin {"none", "done", "dead"}
  /\ claim' = [claim EXCEPT !.step = "dead", !.captured = FALSE, !.event = None,
                            !.durable = FALSE, !.retain = FALSE]
  /\ runtime' = [runtime EXCEPT ![r] = NoRuntime]
  /\ client' = [c \in Clients |-> IF client[c].at = r /\ client[c].step # "ended" THEN Away ELSE client[c]]
  /\ net' = {f \in net : f[1] # r}
  /\ UNCHANGED <<lost, row, faults>>

-----------------------------------------------------------------------------
HolderStep ==
  \/ \E well \in BOOLEAN : Save(well) \/ SettleFails(well) \/ EmitFails(well) \/ FinishError(well)
  \/ Settle \/ ReadSettled \/ ReadFails \/ Emit \/ Finish \/ FinishFails \/ Release

\* What timers, connections and the store owe the clients.
SystemStep ==
  \/ \E c \in Clients : Ready(c) \/ Check(c) \/ Timer(c)
  \/ \E r \in Replicas, f \in Frames : Deliver(r, f)
  \/ Tick

Next ==
  \/ SystemStep
  \/ HolderStep
  \/ \E r \in Replicas, s \in Terminal : Claim(r, s)
  \/ \E c \in Clients, r \in Replicas : Attach(c, r)
  \/ \E c \in Clients : CheckFails(c)
  \/ \E r \in Replicas, f \in Frames : Lose(r, f)
  \/ \E r \in Replicas : Retire(r) \/ Reap(r) \/ CleanupOrphans(r)
  \/ Crash

Spec == Init /\ [][Next]_vars

(***************************************************************************)
(* Timers fire, commands are answered, frames on a connection arrive.  The *)
(* holder of the claim owes nothing: it may be slow or dead.               *)
(***************************************************************************)
FairSpec == Spec /\ WF_vars(SystemStep)

-----------------------------------------------------------------------------
(* Properties *)

\* Every variable has its type.
TypeOK ==
  /\ row \in Rows \cup {NoRow}
  /\ claim \in Claims
  /\ runtime \in [Replicas -> Runtimes]
  /\ client \in [Clients -> Subscriptions]
  /\ net \subseteq Replicas \X Frames
  /\ faults \in 0 .. MaxFaults /\ lost \in BOOLEAN

Got(c) == client[c].got

\* Nobody is shown the normal end of a generation whose response is not saved,
\* nor one that was not made durable, whatever failed on the way.
NormalIsDurable ==
  \A c \in Clients : Got(c) = "normal" => claim.saved /\ (Found => row.final = "normal")

\* The settlement chooses the only payload: clients are shown different ones only
\* if the holder could not learn which was chosen.
OnePayload ==
  \A c, d \in Clients : Got(c) = "normal" /\ Got(d) = "reconcile" => claim.blind

\* A row that was not settled, or whose event nobody was sent, stays for its
\* lifetime: there is something to tell to those who come.  The exception is a
\* settlement that was executed and whose reply was lost.
UnsentStays ==
  [][Found /\ row' = NoRow /\ row.age < Retention => ~row.pending /\ (claim.sent \/ claim.blind)]_vars

\* What finishTerminalJobInternal says: a durable final event whose publication
\* failed is retained for those who reconnect.
FinalIsRetained ==
  [][Found /\ row' = NoRow /\ row.age < Retention => claim.sent]_vars

\* Who comes to a finished job and finds it not settled is told how it ended,
\* though its holder is dead and, where finished jobs are kept, though a frame
\* is lost; where they are removed, the sweep may take the handlers first.
LateComersAreTold ==
  \A c \in Clients :
    client[c].step = "waiting" /\ Ended /\ row.pending
      ~> \/ client[c].step \in {"ended", "away"}
         \/ CleanupOnComplete /\ (lost \/ client[c].step = "stranded")

\* What the sweep says: a client still attached when the job is reaped is sent
\* a terminal error instead of hanging open.
NobodyHangs == \A c \in Clients : client[c].step # "stranded"
=============================================================================
