---------------------------- MODULE StreamAttachment ----------------------------
(***************************************************************************)
(* How the clients of one replica get the events of one generation: the    *)
(* publication through Redis, the reorder buffer, the early-event buffer,  *)
(* and the handlers that attach a client (GenerationJobManager on top of   *)
(* RedisEventTransport).                                                   *)
(*                                                                         *)
(* The run emits events 1 .. LastEvent in order; event 1 is "created", the *)
(* last one is the terminal event.  Each is given the next number of the   *)
(* Redis counter when its publication executes and then travels to the     *)
(* replica on its own.  Until a client is attached the owning replica also *)
(* keeps it for replay.  A client attaches in several awaits (channel,     *)
(* publication receipts, counter); others attach and leave, and events are *)
(* emitted and arrive, between any two of them.                            *)
(***************************************************************************)
EXTENDS ReorderBuffer

CONSTANTS
  Initial,      \* clients that open the stream and want it from its start
  Resuming,     \* clients that resume from a snapshot of the content
  Owners,       \* whether this replica runs the generation: {TRUE}, {FALSE} or both
  LastEvent,    \* the terminal event
  MaxEarly,     \* EARLY_EVENT_BUFFER_MAX_EVENTS
  FirstSeqs,    \* where earlier turns may have left the Redis counter
  MaxFailures,  \* bound on the publications that fail
  MaxLosses,    \* bound on the frames lost on their way
  MaxBroken     \* bound on the bootstraps that break off at their second check

ASSUME OwnersAssumption == Owners \subseteq BOOLEAN

ASSUME BoundsAssumption ==
  /\ LastEvent \in Nat \ {0, 1} /\ MaxEarly \in Nat /\ MaxBuffer \in Nat
  /\ MaxFailures \in Nat /\ MaxLosses \in Nat /\ MaxBroken \in Nat /\ FirstSeqs \subseteq Nat

VARIABLES
  owner,        \* this replica runs the generation
  counter,      \* the sequence counter in Redis
  emitted,      \* number of events emitted
  batch,        \* coalesced deltas of the open window
  outbox,       \* publications issued and not yet executed, in order
  seqOf,        \* the number each event was given, NoFrontier before that
  answered,     \* events whose publication receipt has arrived
  net,          \* frames on their way to this replica
  buffer,       \* reorderBuffer
  early,        \* earlyEventBuffer
  closed,       \* earlyEventBufferClosed
  overflowed,   \* earlyEventBufferOverflowed
  attached,     \* hasSubscriber
  turn,         \* attachmentGeneration
  client,       \* what each client is doing and has been shown
  boot,         \* the attachment bootstrap each client started
  missing,      \* events a client may lack: lost, failed or given up on (history)
  outlived      \* a bootstrap has replayed after its attachment was over (history)

vars == <<owner, counter, emitted, batch, outbox, seqOf, answered, net, buffer, early, closed,
          overflowed, attached, turn, client, boot, missing, outlived>>

outside == <<owner, counter, seqOf, net>>
run == <<emitted, batch, outbox, answered>>
kept == <<early, closed, overflowed>>
runtime == <<early, closed, overflowed, attached, turn>>

Events == 1 .. LastEvent
Created == 1
Clients == Initial \cup Resuming

Frames == [seq: Nat, event: Events]

\* reading: subscribed, the channel or a job read is awaited.
Places == {"away", "reading", "booting", "attached", "left"}

\* view: the events shown; told: asked to reconnect; served: the attachment
\* generation whose replay it was given, -1 without; checked: the stored terminal
\* event was looked up.
ClientStates ==
  [at: Places, view: Seq(Events), defers: BOOLEAN, told: BOOLEAN, served: Int, checked: BOOLEAN]

NewClient ==
  [at |-> "away", view |-> <<>>, defers |-> FALSE, told |-> FALSE, served |-> -1, checked |-> FALSE]

\* fence: waits for the receipts; heir: the same, its client has left;
\* check: reads the job once more; read, apply: the counter read is in flight,
\* was answered; broken: it broke off at its check, and nobody took it over.
BootStates ==
  [step: {"none", "fence", "heir", "check", "read", "apply", "broken"}, turn: Nat, frontier: Int, counter: Nat]

NoBoot == [step |-> "none", turn |-> 0, frontier |-> NoFrontier, counter |-> 0]

Init ==
  /\ owner \in Owners
  /\ counter \in FirstSeqs
  /\ emitted = 0
  /\ batch = <<>>
  /\ outbox = <<>>
  /\ seqOf = [e \in Events |-> NoFrontier]
  /\ answered = {}
  /\ net = {}
  /\ buffer = NewBuffer(FALSE)
  /\ early = <<>>
  /\ closed = FALSE
  /\ overflowed = FALSE
  /\ attached = FALSE
  /\ turn = 0
  /\ client = [c \in Clients |-> NewClient]
  /\ boot = [c \in Clients |-> NoBoot]
  /\ missing = {}
  /\ outlived = FALSE

\* The clients the transport has a handler for.
In(clients) == {c \in Clients : clients[c].at \in {"reading", "booting", "attached"}}
Subscribed == In(client)

\* The clients that get the replay (earlyReplayHandlers).
ReplayTo == Subscribed \cap Initial

\* The terminal event, or the request to reconnect, closes a client's queue.
Over(k) == k.told \/ LastEvent \in ToSet(k.view)
Closed(c) == Over(client[c])

\* What a client is shown of the events handed to it: created only once, and
\* a resumed client has it already.
Shown(c, events) ==
  IF Closed(c) THEN <<>>
  ELSE Without(events, IF c \in Initial /\ Created \notin ToSet(client[c].view) THEN {} ELSE {Created})

\* The clients after the events were handed to those in S.
Handed(S, events) ==
  [c \in Clients |-> IF c \in S THEN [client[c] EXCEPT !.view = @ \o Shown(c, events)] ELSE client[c]]

\* The transport and the clients as a step leaves them, once every client that
\* is in place and closed has unsubscribed; the last to go resets the attachment.
Left(clients, b, hasSubscriber) ==
  /\ client' = [c \in Clients |-> LET k == clients[c]
                                   IN  IF k.at = "attached" /\ Over(k) THEN [k EXCEPT !.at = "left"] ELSE k]
  /\ LET last == Subscribed # {} /\ In(client') = {}
     IN  /\ buffer' = IF last THEN NewBuffer(FALSE) ELSE b
         /\ attached' = (hasSubscriber /\ ~last)
         /\ turn' = IF last THEN turn + 1 ELSE turn

\* The events that have a number, and those whose publication failed.
Numbered == {e \in Events : seqOf[e] # NoFrontier}
Failed == answered \ Numbered

-----------------------------------------------------------------------------
(* The run *)

\* An event is also kept for replay while nobody is attached.
Buffered(e) == owner /\ ~attached /\ ~closed /\ Len(early) < MaxEarly

Buffer(e) ==
  IF Buffered(e)
    THEN early' = Append(early, e) /\ UNCHANGED <<closed, overflowed>>
    ELSE IF owner /\ ~attached /\ ~closed
           THEN early' = <<>> /\ closed' = TRUE /\ overflowed' = TRUE
           ELSE UNCHANGED <<early, closed, overflowed>>

\* Seeded bug: an event that is not coalesced overtakes the open window.
Published_Overtakes(e) == outbox' = Append(outbox, e) /\ UNCHANGED batch

\* publishChunkWithReceipt: the open window is issued first.
Published(e) == outbox' = outbox \o Append(batch, e) /\ batch' = <<>>

\* enqueueCoalescedChunk: a delta joins the open window.
Coalesced(e) == batch' = Append(batch, e) /\ UNCHANGED outbox

\* emitChunk.  Nothing follows created before its receipt is in.
Emit ==
  LET e == emitted + 1
  IN  /\ e < LastEvent
      /\ e > Created => Created \in answered
      /\ emitted' = e
      /\ Buffer(e)
      /\ \/ Published(e)
         \/ e > Created /\ Coalesced(e)
      /\ UNCHANGED <<outside, answered, buffer, attached, turn, client, boot, missing, outlived>>

\* flushCoalescedChunks, when the window ends.
FlushWindow ==
  /\ batch # <<>>
  /\ outbox' = outbox \o batch
  /\ batch' = <<>>
  /\ UNCHANGED <<emitted, answered, outside, buffer, runtime, client, boot, missing, outlived>>

\* emitDone, after the final event has been stored with the job.
EmitDone ==
  /\ emitted = LastEvent - 1
  /\ Created \in answered
  /\ emitted' = LastEvent
  /\ Published(LastEvent)
  /\ UNCHANGED <<answered, outside, buffer, runtime, client, boot, missing, outlived>>

-----------------------------------------------------------------------------
(* Redis *)

\* The publication script: number and publish in one step.
Execute ==
  /\ outbox # <<>>
  /\ outbox' = Tail(outbox)
  /\ seqOf' = [seqOf EXCEPT ![Head(outbox)] = counter]
  /\ net' = net \cup {[seq |-> counter, event |-> Head(outbox)]}
  /\ counter' = counter + 1
  /\ UNCHANGED <<owner, emitted, batch, answered, buffer, runtime, client, boot, missing, outlived>>

\* The publication fails as a whole; the event is still replayed if it is kept.
PublicationFails ==
  /\ outbox # <<>>
  /\ Head(outbox) # LastEvent
  /\ Cardinality(Failed) < MaxFailures
  /\ outbox' = Tail(outbox)
  /\ answered' = answered \cup {Head(outbox)}
  /\ missing' = IF Head(outbox) \in ToSet(early) THEN missing ELSE missing \cup {Head(outbox)}
  /\ UNCHANGED <<emitted, batch, outside, buffer, runtime, client, boot, outlived>>

\* The receipt reaches the run, possibly after the frame reached a client.
Answer(e) ==
  /\ e \notin answered
  /\ seqOf[e] # NoFrontier
  /\ answered' = answered \cup {e}
  /\ UNCHANGED <<emitted, batch, outbox, outside, buffer, runtime, client, boot, missing, outlived>>

\* A chunk is lost between Redis and the replica.
Lose(f) ==
  /\ f.event # LastEvent
  /\ Cardinality(missing \cap Numbered) < MaxLosses
  /\ net' = net \ {f}
  /\ missing' = missing \cup {f.event}
  /\ UNCHANGED <<owner, counter, seqOf, run, buffer, runtime, client, boot, outlived>>

-----------------------------------------------------------------------------
(* The transport *)

\* Events whose numbers a move of the frontier jumps over.
Skipped(next, given) ==
  {e \in Events : seqOf[e] >= buffer.next /\ seqOf[e] < next} \ ToSet(given)

\* A frame arrives, in any order; with no client it is dropped.
Arrive(f) ==
  /\ net' = net \ {f}
  /\ IF Subscribed = {}
       THEN UNCHANGED <<buffer, client, attached, turn, missing>>
       ELSE \E r \in {Receive(buffer, f, f.event = LastEvent)} :
              /\ Left(Handed(Subscribed, r.out), r.buffer, attached)
              /\ missing' = missing \cup Skipped(r.buffer.next, r.out)
  /\ UNCHANGED <<owner, counter, seqOf, run, kept, boot, outlived>>

\* The flush timer: stop waiting for what is missing.
FlushTimeout ==
  /\ buffer.timer
  /\ \E r \in {ForceFlush(buffer)} :
       /\ Left(Handed(Subscribed, r.out), r.buffer, attached)
       /\ missing' = missing \cup Skipped(r.buffer.next, r.out)
  /\ UNCHANGED <<outside, run, kept, boot, outlived>>

-----------------------------------------------------------------------------
(* Attachment *)

\* Seeded bug: a first subscriber does not hold back the live frames.
Defers_Never(c) == attached /\ ~attached /\ c \in Initial

\* Live frames are held back until the replay is done.
Defers(c) == ~attached /\ c \in Initial

\* attachSubscription up to the subscription; the first one resets the buffer.
Subscribe(c) ==
  /\ client[c].at = "away"
  /\ client' = [client EXCEPT ![c].at = "reading", ![c].defers = Defers(c)]
  /\ buffer' = IF Subscribed = {} THEN NewBuffer(Defers(c)) ELSE buffer
  /\ UNCHANGED <<outside, run, runtime, boot, missing, outlived>>

\* The client is in place and gets what was queued for it; an initial one must
\* reconnect if the kept events were discarded and the run is not over.
InPlace(c, clients) ==
  [clients EXCEPT ![c].at = "attached",
                  ![c].told = @ \/ (overflowed /\ c \in Initial /\ emitted < LastEvent /\ ~Over(clients[c]))]

\* The channel is ready: whoever comes first does the bootstrap.
Ready(c) ==
  /\ client[c].at = "reading"
  /\ IF attached
       THEN Left(InPlace(c, client), buffer, TRUE) /\ UNCHANGED boot
       ELSE /\ Left([client EXCEPT ![c].at = "booting"], buffer, TRUE)
            /\ boot' = [boot EXCEPT ![c] = [NoBoot EXCEPT !.step = "fence", !.turn = turn]]
  /\ UNCHANGED <<outside, run, kept, missing, outlived>>

Numbers == {seqOf[e] : e \in ToSet(early) \cap Numbered}

\* The frontier right after the last replayed event that has a number.
ReplayFrontier == IF Numbers = {} THEN NoFrontier ELSE Greatest(Numbers) + 1

\* Seeded bug: the replay does not wait for the receipts.
Settled_AtOnce == ToSet(early) \subseteq Events

\* waitForEarlyEventPublications
Settled == ToSet(early) \subseteq answered

\* The events of the early buffer are replayed, or created is rebuilt from the
\* job's metadata; then the buffer is closed and the counter is read.
Replay(c, events, frontier) ==
  /\ \/ /\ early # <<>>
        /\ client' = [d \in Clients |->
                        [Handed(ReplayTo, events)[d] EXCEPT !.served = IF d \in ReplayTo THEN turn ELSE @]]
        /\ boot' = [boot EXCEPT ![c].step = "read",
                                ![c].frontier = IF ReplayTo # {} THEN frontier ELSE NoFrontier]
     \/ /\ early = <<>>
        /\ \/ client' = Handed(ReplayTo, <<Created>>)
           \/ client' = client
        /\ boot' = [boot EXCEPT ![c].step = "read"]
  /\ early' = <<>>
  /\ closed' = TRUE
  /\ UNCHANGED <<outside, run, buffer, overflowed, attached, turn, missing>>

\* The bootstrap of the client that came first: the receipts are in, and it
\* reads the job once more.
PassFence(c) ==
  /\ boot[c].step = "fence"
  /\ Settled
  /\ boot' = [boot EXCEPT ![c].step = "check"]
  /\ UNCHANGED <<outside, run, buffer, runtime, client, missing, outlived>>

\* The job is still that of the stream.  Whether its client has disconnected
\* meanwhile, or its attachment is over, the bootstrap does not look; of a later
\* attachment it waits for the receipts again if there is somebody to replay to.
Bootstrap(c) ==
  /\ boot[c].step = "check"
  /\ Settled \/ (turn # boot[c].turn /\ ReplayTo = {})
  /\ Replay(c, early, ReplayFrontier)
  /\ outlived' = (outlived \/ turn # boot[c].turn)

\* The read of the job is rejected, or shows another generation, which
\* unsubscribes the client: nobody takes the bootstrap over.
CheckFails(c) ==
  /\ boot[c].step = "check"
  /\ Cardinality({d \in Clients : boot[d].step = "broken"}) < MaxBroken
  /\ boot' = [boot EXCEPT ![c].step = "broken"]
  /\ \/ UNCHANGED <<client, buffer, attached, turn>>
     \/ /\ c \in Subscribed
        /\ Left([client EXCEPT ![c].at = "left"], buffer, attached)
  /\ UNCHANGED <<outside, run, kept, missing, outlived>>

\* continueEarlyEventBootstrap: that client left while it waited, others are
\* subscribed.  Events with a number are taken as shown unless it deferred.
ContinueBootstrap(c) ==
  /\ boot[c].step = "heir"
  /\ Settled
  /\ IF Subscribed = {} \/ turn # boot[c].turn
       THEN /\ boot' = [boot EXCEPT ![c] = NoBoot]
            /\ UNCHANGED <<outside, run, buffer, runtime, client, missing, outlived>>
       ELSE /\ UNCHANGED outlived
            /\ IF client[c].defers
                 THEN Replay(c, early, ReplayFrontier)
                 ELSE Replay(c, Without(early, Numbered), NoFrontier)

\* The counter is read; its value travels back.
ReadCounter(c) ==
  /\ boot[c].step = "read"
  /\ boot' = [boot EXCEPT ![c].step = "apply", ![c].counter = counter]
  /\ UNCHANGED <<outside, run, buffer, runtime, client, missing, outlived>>

\* The bootstrap is over for its client, if it is still there.
Synchronized(c, synced) ==
  /\ \E r \in {synced} : \E shown \in {Handed(Subscribed, r.out)} :
       Left(IF client[c].at = "booting" THEN InPlace(c, shown) ELSE shown, r.buffer, attached)
  /\ boot' = [boot EXCEPT ![c] = NoBoot]

ApplyCounter(c) ==
  /\ boot[c].step = "apply"
  /\ Synchronized(c, Synced(buffer, boot[c].frontier, boot[c].counter))
  /\ UNCHANGED <<outside, run, kept, missing, outlived>>

ReadFails(c) ==
  /\ boot[c].step = "read"
  /\ Synchronized(c, SyncFailed(buffer, boot[c].frontier))
  /\ UNCHANGED <<outside, run, kept, missing, outlived>>

\* deliverStoredTerminal, once after the attachment.
CheckStored(c) ==
  /\ client[c].at = "attached"
  /\ ~client[c].checked
  /\ Left([client EXCEPT ![c].checked = TRUE,
                         ![c].view = IF emitted = LastEvent /\ ~Closed(c) THEN Append(@, LastEvent) ELSE @],
          buffer, attached)
  /\ UNCHANGED <<outside, run, kept, boot, missing, outlived>>

\* Seeded bug: a bootstrap ends with its client.
LeftBehind_Nobody(c) == IF boot[c].step # "fence" THEN boot[c] ELSE NoBoot

\* A bootstrap whose client leaves while it waits for the receipts is left to
\* the others, if there are any; later it goes on by itself.
LeftBehind(c) ==
  IF boot[c].step # "fence" THEN boot[c]
  ELSE IF Subscribed = {c} THEN NoBoot ELSE [boot[c] EXCEPT !.step = "heir"]

\* The client disconnects.
Leave(c) ==
  /\ c \in Subscribed
  /\ Left([client EXCEPT ![c].at = "left"], buffer, attached)
  /\ boot' = [boot EXCEPT ![c] = LeftBehind(c)]
  /\ UNCHANGED <<outside, run, kept, missing, outlived>>

\* What Redis, the network, the timers and the awaits of an attachment owe.
SystemStep ==
  \/ FlushWindow \/ Execute \/ FlushTimeout
  \/ \E e \in Events : Answer(e)
  \/ \E f \in net : Arrive(f)
  \/ \E c \in Clients :
       \/ Ready(c) \/ PassFence(c) \/ Bootstrap(c) \/ CheckFails(c) \/ ContinueBootstrap(c)
       \/ ReadCounter(c) \/ ReadFails(c) \/ ApplyCounter(c)
       \/ CheckStored(c)

Next ==
  \/ SystemStep
  \/ Emit \/ EmitDone \/ PublicationFails
  \/ \E f \in net : Lose(f)
  \/ \E c \in Clients : Subscribe(c) \/ Leave(c)

Spec == Init /\ [][Next]_vars

(***************************************************************************)
(* Redis executes and answers, frames that are not lost arrive, timers     *)
(* fire, and the awaits of an attachment return, in any order; nothing is  *)
(* assumed of clients, nor of the run.                                     *)
(***************************************************************************)
FairSpec == Spec /\ WF_vars(SystemStep)

-----------------------------------------------------------------------------
(* Properties *)

\* Every variable has its type.
TypeOK ==
  /\ owner \in BOOLEAN /\ counter \in Nat
  /\ emitted \in 0 .. LastEvent
  /\ batch \in Seq(Events) /\ outbox \in Seq(Events) /\ early \in Seq(Events)
  /\ seqOf \in [Events -> Nat \cup {NoFrontier}]
  /\ answered \subseteq Events /\ missing \subseteq Events /\ outlived \in BOOLEAN
  /\ net \subseteq Frames
  /\ buffer.next \in Nat /\ buffer.pending \subseteq Frames
  /\ buffer.deferred \in BOOLEAN /\ buffer.timer \in BOOLEAN
  /\ closed \in BOOLEAN /\ overflowed \in BOOLEAN /\ attached \in BOOLEAN /\ turn \in Nat
  /\ client \in [Clients -> ClientStates]
  /\ boot \in [Clients -> BootStates]

\* A client is shown the deltas in the order they were emitted, and none of
\* them twice, although each can reach it through the replay and through Redis.
\* Only a delta whose publication failed may come before an older one: it has no
\* number, so the replay that shows it does not hold back what came before it.
\* Nothing is said once a bootstrap has replayed to a later attachment than its own.
DeltasInOrderOnce ==
  ~outlived =>
    \A c \in Clients :
      LET view == client[c].view
      IN  \A i, j \in DOMAIN view : i < j /\ view[j] # Created =>
            view[i] # view[j] /\ (view[i] < view[j] \/ view[i] \in Failed)

\* What the code says of created: it stays the first event a client is shown.
CreatedFirst ==
  \A c \in Clients : \A i \in DOMAIN client[c].view : client[c].view[i] = Created => i = 1

\* No hole in what a client has been shown, except where a frame or a
\* publication was lost or the buffer gave up waiting.
Whole(c) ==
  LET seen == ToSet(client[c].view) \ {LastEvent}
  IN  \A f \in seen : \A e \in 1 .. f : e \in seen \cup missing

\* The clients of the first attachment see the stream from its start, without
\* a hole, however emission, arrival and their awaits interleave.
FirstAttachmentWhole == \A c \in Clients : client[c].served = 0 => Whole(c)

\* The same for every client that was given a replay.
ReplayedAttachmentWhole == \A c \in Clients : client[c].served >= 0 => Whole(c)

\* The terminal event that comes through Redis closes the client only after
\* everything emitted before it was shown.
DoneComesLast ==
  [][\A c \in Clients :
       /\ LastEvent \in ToSet(client'[c].view) \ ToSet(client[c].view)
       /\ client'[c].checked = client[c].checked
       /\ client[c].served = 0
       => Events \subseteq ToSet(client'[c].view) \cup missing']_vars

\* A frame that waits is timed, and it is never the one that is expected.
GapsAreTimed ==
  buffer.pending # {} /\ ~buffer.deferred =>
    buffer.timer /\ \A f \in buffer.pending : f.seq > buffer.next

\* The terminal event reaches every client that stays.
DoneReaches ==
  \A c \in Clients :
    client[c].at = "attached" /\ seqOf[LastEvent] # NoFrontier ~> Closed(c) \/ client[c].at = "left"

\* A bootstrap of this attachment broke off at its second check.
Stranded == \E c \in Clients : boot[c].step = "broken" /\ boot[c].turn = turn

\* While live frames are held back somebody is going to let them through: a
\* client that will begin the bootstrap of this attachment, or a bootstrap of
\* it that is under way, whoever joins and leaves meanwhile; unless it broke off
\* at its second check, the one exit that leaves the fence to nobody.
FenceHasOwner ==
  buffer.deferred /\ ~Stranded =>
    IF attached THEN \E c \in Clients : boot[c].step \notin {"none", "broken"} /\ boot[c].turn = turn
                ELSE \E c \in Clients : client[c].at = "reading"
=============================================================================
