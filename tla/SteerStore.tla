----------------------------- MODULE SteerStore -----------------------------
(***************************************************************************)
(* Steering: messages the user sends into a run that is still generating.  *)
(*                                                                         *)
(* The job store of one stream keeps a FIFO queue of accepted steers, the  *)
(* steers a run has drained but not yet durably applied (claimed), a       *)
(* receipt per steer, and the steers parked when their run ended before    *)
(* applying them.  A run drains the whole queue at a tool boundary and     *)
(* then applies the batch one by one; requests of the user, the end or the *)
(* replacement of the run and a recovery fall between any two of those     *)
(* steps.  A parked steer comes back as the first message of a new         *)
(* generation, which leases it and commits it once the message is durable. *)
(*                                                                         *)
(* Store operations contain no await and are one action each.  A steer     *)
(* stands for its clientSteerId: a retried request carries the same one.   *)
(***************************************************************************)
EXTENDS Naturals, SequencesExt

CONSTANTS
  Steers,           \* the messages the user steers with
  NoSteer,          \* absence of a recovered steer
  MaxGenerations,   \* bound on the epochs created
  MaxDepth          \* STEER_QUEUE_MAX_DEPTH

ASSUME SteersAssumption == NoSteer \notin Steers

ASSUME BoundsAssumption == MaxGenerations \in Nat /\ MaxDepth \in Nat

VARIABLES
  row,        \* the job row of the stream
  epochs,     \* the last epoch given out
  queue,      \* steerQueues: accepted, not drained
  claimed,    \* claimedSteers: drained, not yet durably applied
  receipts,   \* steerReceipts
  parked,     \* parkedSteers
  lease,      \* recoveringCreatedAt of the parked steers, 0 when absent
  batch,      \* per generation, what its run holds between drain and apply
  applied,    \* per generation, its steer content parts
  accepted,   \* the steers accepted so far, in order (history)
  recovered,  \* steers sent again as an ordinary message (history)
  cancelled,  \* steers whose cancellation was confirmed (history)
  lapsed      \* steers whose parked copy expired (history)

vars == <<row, epochs, queue, claimed, receipts, parked, lease, batch, applied,
          accepted, recovered, cancelled, lapsed>>

store == <<queue, claimed, receipts, parked, lease>>
history == <<accepted, recovered, cancelled, lapsed>>

Generations == 1 .. MaxGenerations

Active == {"running", "requires_action"}

\* "ended" stands for complete, error and aborted.
Rows == [createdAt: Nat, status: Active \cup {"ended", "none"}, recovered: Steers \cup {NoSteer}]

NoRow == [createdAt |-> 0, status |-> "none", recovered |-> NoSteer]

ReceiptStates == {"none", "queued", "claimed", "delivered", "leftover", "recovered", "cancelled"}

NoReceipt == [state |-> "none", generation |-> 0]

NoBatch == [items |-> <<>>, failed |-> FALSE]

Init ==
  /\ row = NoRow
  /\ epochs = 0
  /\ queue = <<>>
  /\ claimed = <<>>
  /\ receipts = [s \in Steers |-> NoReceipt]
  /\ parked = {}
  /\ lease = [s \in Steers |-> 0]
  /\ batch = [g \in Generations |-> NoBatch]
  /\ applied = [g \in Generations |-> <<>>]
  /\ accepted = <<>>
  /\ recovered = {}
  /\ cancelled = {}
  /\ lapsed = {}

\* Seeded bug: a run's operations are not fenced to its own generation.
Running_AnyGeneration(g) == g = g /\ row.status = "running"

\* The run of generation g still owns the stream, and is not paused.
Running(g) == row.status = "running" /\ row.createdAt = g

\* A generation that recovers s is live: it owns what becomes of s.
RecoveryLive(s) == row.status \in Active /\ row.recovered = s

\* Seeded bug: only the head of the batch is taken off the list.
Without_HeadOnly(seq, S) == IF seq # <<>> /\ Head(seq) \in S THEN Tail(seq) ELSE seq

\* A list without the steers of S.
Without(seq, S) ==
  LET kept[i \in 0 .. Len(seq)] ==
        IF i = 0 THEN <<>>
        ELSE IF seq[i] \in S THEN kept[i - 1] ELSE Append(kept[i - 1], seq[i])
  IN  kept[Len(seq)]

\* settleSteerReceipts
Settled(S, state) ==
  [s \in Steers |-> IF s \in S THEN [receipts[s] EXCEPT !.state = state] ELSE receipts[s]]

Undelivered == ToSet(claimed) \cup ToSet(queue)

\* Seeded bug: only the queue is parked, what a run has drained stays behind.
ParkQueuedSteers_LeavesClaimed ==
  /\ parked' = parked \cup ToSet(queue)
  /\ receipts' = Settled(ToSet(queue), "leftover")
  /\ queue' = <<>>
  /\ claimed' = claimed

\* parkQueuedSteers: every undelivered steer of the row becomes a leftover.
ParkQueuedSteers ==
  /\ parked' = parked \cup Undelivered
  /\ receipts' = Settled(Undelivered, "leftover")
  /\ queue' = <<>>
  /\ claimed' = <<>>

-----------------------------------------------------------------------------
(* The generation *)

\* createJob, possibly on behalf of a steer the predecessor left over.  The
\* row it replaces parks its steers first; the lease moves to the new epoch.
CreateJob(r) ==
  /\ epochs < MaxGenerations
  /\ r # NoSteer => r \in parked \cup Undelivered
  /\ epochs' = epochs + 1
  /\ row' = [createdAt |-> epochs + 1, status |-> "running", recovered |-> r]
  /\ ParkQueuedSteers
  /\ lease' = [s \in Steers |-> IF s = r THEN epochs + 1 ELSE 0]
  /\ UNCHANGED <<batch, applied, history>>

\* transitionStatus, running to requires_action and back.
Pause ==
  /\ row.status = "running"
  /\ row' = [row EXCEPT !.status = "requires_action"]
  /\ UNCHANGED <<epochs, store, batch, applied, history>>

Resume ==
  /\ row.status = "requires_action"
  /\ row' = [row EXCEPT !.status = "running"]
  /\ UNCHANGED <<epochs, store, batch, applied, history>>

\* transitionStatus to a terminal status parks in the same operation, so that
\* a steer racing the end of the run is either refused or left over.
Terminate ==
  /\ row.status \in Active
  /\ row' = [row EXCEPT !.status = "ended"]
  /\ ParkQueuedSteers
  /\ UNCHANGED <<epochs, lease, batch, applied, history>>

\* deleteJob of a finished row.
DeleteJob ==
  /\ row.status = "ended"
  /\ row' = NoRow
  /\ queue' = <<>>
  /\ claimed' = <<>>
  /\ UNCHANGED <<epochs, receipts, parked, lease, batch, applied, history>>

\* A silent run is reaped, or the row is evicted for capacity, in any status.
Reap ==
  /\ row.status # "none"
  /\ row' = NoRow
  /\ ParkQueuedSteers
  /\ UNCHANGED <<epochs, lease, batch, applied, history>>

-----------------------------------------------------------------------------
(* Requests of the user *)

\* enqueueSteerWithReceipt: a known receipt answers the retry, only a new
\* steer is appended.
EnqueueSteer(s) ==
  /\ receipts[s] = NoReceipt
  /\ row.status = "running"
  /\ Len(queue) < MaxDepth
  /\ queue' = Append(queue, s)
  /\ receipts' = [receipts EXCEPT ![s] = [state |-> "queued", generation |-> row.createdAt]]
  /\ accepted' = Append(accepted, s)
  /\ UNCHANGED <<row, epochs, claimed, parked, lease, batch, applied, recovered, cancelled, lapsed>>

\* removeSteer: the user cancels before injection.
RemoveSteer(s) ==
  /\ s \in ToSet(queue)
  /\ queue' = Without(queue, {s})
  /\ receipts' = Settled({s}, "cancelled")
  /\ cancelled' = cancelled \cup {s}
  /\ UNCHANGED <<row, epochs, claimed, parked, lease, batch, applied, accepted, recovered, lapsed>>

\* Seeded bug: a leftover whose recovery is running can be discarded.
Discardable_EvenLeased(s) == receipts[s].state = "leftover"

Discardable(s) == receipts[s].state = "leftover" /\ ~RecoveryLive(s)

\* discardSteerLeftover: the user dismisses a leftover.
DiscardSteerLeftover(s) ==
  /\ Discardable(s)
  /\ parked' = parked \ {s}
  /\ lease' = [lease EXCEPT ![s] = 0]
  /\ receipts' = Settled({s}, "cancelled")
  /\ cancelled' = cancelled \cup {s}
  /\ UNCHANGED <<row, epochs, queue, claimed, batch, applied, accepted, recovered, lapsed>>

-----------------------------------------------------------------------------
(* The run *)

\* drainSteers: take all, first in first out.  The code throws on a receipt
\* that contradicts the queue; ReceiptsTellPlace shows that it never does.
DrainSteers(g) ==
  /\ batch[g] = NoBatch
  /\ Running(g)
  /\ queue # <<>>
  /\ batch' = [batch EXCEPT ![g].items = queue]
  /\ claimed' = claimed \o queue
  /\ queue' = <<>>
  /\ receipts' = Settled(ToSet(queue), "claimed")
  /\ UNCHANGED <<row, epochs, parked, lease, applied, history>>

\* Seeded bug: the applied part is written without asking for the claim.
Appendable_AnyClaim(g, s) == s = s /\ row.status # "none" /\ g = g

\* appendChunk settles a delivered steer only while its claim stands.
Appendable(g, s) ==
  /\ Running(g)
  /\ s \in ToSet(claimed)
  /\ receipts[s] = [state |-> "claimed", generation |-> g]

\* applySteer: the content part and the receipt commit together.
ApplySteer(g) ==
  /\ ~batch[g].failed
  /\ batch[g].items # <<>>
  /\ LET s == Head(batch[g].items)
     IN  /\ Appendable(g, s)
         /\ claimed' = Without(claimed, {s})
         /\ receipts' = Settled({s}, "delivered")
         /\ applied' = [applied EXCEPT ![g] = Append(@, s)]
  /\ batch' = [batch EXCEPT ![g].items = Tail(@)]
  /\ UNCHANGED <<row, epochs, queue, parked, lease, history>>

\* The durable write is refused, or fails: no later steer may overtake.
ApplyFails(g) ==
  /\ ~batch[g].failed
  /\ batch[g].items # <<>>
  /\ batch' = [batch EXCEPT ![g].failed = TRUE]
  /\ UNCHANGED <<row, epochs, store, applied, history>>

\* Seeded bug: the failed batch goes to the back of the queue.
Restored_AtTheBack(items) == queue \o items

Restored(items) == items \o queue

\* restoreClaimedSteers: the failed steer and the untouched rest go back to
\* the front; when it is refused they stay claimed until the run ends.
RestoreClaimedSteers(g) ==
  /\ batch[g].failed
  /\ LET items == batch[g].items
     IN  IF \A s \in ToSet(items) : Appendable(g, s)
           THEN /\ claimed' = Without(claimed, ToSet(items))
                /\ queue' = Restored(items)
                /\ receipts' = Settled(ToSet(items), "queued")
           ELSE UNCHANGED <<queue, claimed, receipts>>
  /\ batch' = [batch EXCEPT ![g] = NoBatch]
  /\ UNCHANGED <<row, epochs, parked, lease, applied, history>>

\* The task of the run goes away between the drain and the end of its batch.
RunDies(g) ==
  /\ batch[g] # NoBatch
  /\ batch' = [batch EXCEPT ![g] = NoBatch]
  /\ UNCHANGED <<row, epochs, store, applied, history>>

\* consumeParkedSteer: the user message of the recovery is durable.  The calls
\* that find nothing to consume change nothing.
ConsumeParkedSteer(s) ==
  /\ row.status # "none"
  /\ row.recovered = s
  /\ s \in parked
  /\ lease[s] = row.createdAt
  /\ receipts[s].state = "leftover"
  /\ parked' = parked \ {s}
  /\ lease' = [lease EXCEPT ![s] = 0]
  /\ receipts' = Settled({s}, "recovered")
  /\ recovered' = recovered \cup {s}
  /\ UNCHANGED <<row, epochs, queue, claimed, batch, applied, accepted, cancelled, lapsed>>

\* The time to live of the parked payload; a live lease extends it.
ParkedExpires ==
  /\ parked # {}
  /\ \A s \in parked : ~(RecoveryLive(s) /\ lease[s] = row.createdAt)
  /\ lapsed' = lapsed \cup parked
  /\ parked' = {}
  /\ lease' = [s \in Steers |-> 0]
  /\ UNCHANGED <<row, epochs, queue, claimed, receipts, batch, applied, accepted, recovered, cancelled>>

RunStep(g) == DrainSteers(g) \/ ApplySteer(g) \/ ApplyFails(g) \/ RestoreClaimedSteers(g) \/ RunDies(g)

UserStep(s) ==
  EnqueueSteer(s) \/ RemoveSteer(s) \/ DiscardSteerLeftover(s) \/ ConsumeParkedSteer(s)

Next ==
  \/ \E r \in Steers \cup {NoSteer} : CreateJob(r)
  \/ Pause \/ Resume \/ Terminate \/ DeleteJob \/ Reap
  \/ \E s \in Steers : UserStep(s)
  \/ \E g \in Generations : RunStep(g)
  \/ ParkedExpires

Spec == Init /\ [][Next]_vars

(***************************************************************************)
(* Every generation ends: its run finishes, its pause expires or its       *)
(* silence is reaped (ReviewEnds of ApprovalLifecycle; the cleanup timer). *)
(***************************************************************************)
FairSpec == Spec /\ WF_vars(Terminate)

-----------------------------------------------------------------------------
(* Properties *)

\* Every variable has its type; no steer is twice in a list.
TypeOK ==
  /\ row \in Rows
  /\ epochs \in 0 .. MaxGenerations
  /\ queue \in Seq(Steers) /\ IsInjective(queue)
  /\ claimed \in Seq(Steers) /\ IsInjective(claimed)
  /\ receipts \in [Steers -> [state: ReceiptStates, generation: Nat]]
  /\ parked \subseteq Steers
  /\ lease \in [Steers -> Nat]
  /\ batch \in [Generations -> [items: Seq(Steers), failed: BOOLEAN]]
  /\ applied \in [Generations -> Seq(Steers)]
  /\ accepted \in Seq(Steers)
  /\ recovered \subseteq Steers /\ cancelled \subseteq Steers /\ lapsed \subseteq Steers

\* The receipt a client polls agrees with where the steer is: the store's own
\* check of the receipts it drains can never throw, and the repair of receipts
\* on a read (normalizeSteerReceipt) never finds one to repair.
ReceiptsTellPlace ==
  \A s \in Steers :
    LET r == receipts[s]
    IN  /\ r.state = "queued" <=> s \in ToSet(queue)
        /\ r.state = "claimed" <=> s \in ToSet(claimed)
        /\ r.state \in {"queued", "claimed"} => row.status \in Active /\ r.generation = row.createdAt
        /\ r.state = "delivered" <=> \E g \in Generations : s \in ToSet(applied[g])
        /\ r.state = "recovered" <=> s \in recovered
        /\ r.state = "cancelled" <=> s \in cancelled
        /\ s \in parked => r.state = "leftover"
        /\ r.state = "leftover" => s \in parked \cup lapsed

\* The lines are in the order the user was told they were accepted.
InOrder(seq) ==
  \A i, j \in DOMAIN seq : i < j =>
    \A k, l \in DOMAIN accepted : accepted[k] = seq[i] /\ accepted[l] = seq[j] => k < l

\* Steers are instructions: a run reads them in the order they were given,
\* also when a batch fails half way, is put back and is drained again.
AppliedInOrder ==
  /\ InOrder(claimed \o queue)
  /\ \A g \in Generations : InOrder(applied[g])

\* Nothing that belongs to an older run touches the lists or receipts of the
\* generation that replaced it.
StaleRunIsInert ==
  [][\A g \in Generations :
       batch'[g] # batch[g] /\ g # row.createdAt => UNCHANGED <<queue, claimed, receipts, applied>>]_vars

\* While a recovery of a steer is live, only its own commit removes the steer
\* from the parked ones: no dismissal from another tab, no expiry.
RecoveryOwnsSteer ==
  [][\A s \in parked :
       RecoveryLive(s) /\ lease[s] = row.createdAt /\ s \notin parked' => s \in recovered']_vars

\* An accepted steer does not stay undecided: it is applied, cancelled, or
\* handed back when its generation ends.
SteersSettle == \A s \in Steers : s \in Undelivered ~> s \notin Undelivered

\* Where a steer is in its life, told from the places it can be in.
Life(s) ==
  CASE s \in cancelled -> "cancelled"
    [] s \in recovered -> "recovered"
    [] s \in UNION {ToSet(applied[g]) : g \in Generations} -> "applied"
    [] s \in parked -> "leftover"
    [] s \in Undelivered -> "waiting"
    [] s \in lapsed \ cancelled -> "lapsed"
    [] s \notin ToSet(accepted) -> "fresh"
    [] OTHER -> "dropped"

Contract == INSTANCE SteerContract WITH life <- [s \in Steers |-> Life(s)]

\* An accepted steer is applied once, or handed back and then sent again once,
\* dismissed, or expired: it is never lost and never used twice.
KeepsContract == Contract!Spec
=============================================================================
