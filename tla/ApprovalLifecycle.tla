-------------------------- MODULE ApprovalLifecycle --------------------------
(***************************************************************************)
(* Human approval of a paused generation, for one stream.                  *)
(*                                                                         *)
(* A generation is one row of the job store, identified by its epoch.  The *)
(* controller that created it (or that resumed it) drives the model; when  *)
(* a tool needs review the driver pauses the row, writes its unfinished    *)
(* response to the database and only then exposes the action, by releasing *)
(* the persistence barrier the pause installed.  Meanwhile any other       *)
(* caller may resolve the approval, expire it, abort the run, replace it   *)
(* with a new generation, or sweep it.  Every handler reads the row,       *)
(* awaits, and then issues a compare-and-set: each read and each           *)
(* compare-and-set is one action here, so that all their interleavings     *)
(* are explored.  A caller may crash between any two of them.              *)
(*                                                                         *)
(* Clocks: overdue says that the barrier of the current pause is older     *)
(* than its lease, expired holds the actions past their review deadline.   *)
(***************************************************************************)
EXTENDS JobRow, FiniteSets

CONSTANTS
  Callers,          \* request handlers and sweepers, on any replica
  MaxGenerations,   \* bound on the epochs created
  MaxPauses,        \* bound on the actions put up for review
  MaxCrashes,       \* bound on the callers that die in the middle of a handler
  FencedDecisions   \* TRUE: every decision names the action it is about

ASSUME BoundsAssumption ==
  MaxGenerations \in Nat /\ MaxPauses \in Nat /\ MaxCrashes \in Nat

ASSUME FencedAssumption == FencedDecisions \in BOOLEAN

VARIABLES
  job,        \* the row of the stream
  epochs,     \* the last epoch given out; it survives the deletion of the row
  pauses,     \* the last action id given out
  overdue,    \* the barrier of the current pause is past its lease
  expired,    \* actions past their review deadline
  persisted,  \* actions whose unfinished response is in the database
  resumed,    \* actions that a winning resolve consumed (history)
  doomed,     \* epoch a sweep decided to delete, 0 when there is none
  crashes,    \* callers that died so far
  caller      \* what each caller is doing, and the arguments it holds

vars == <<job, epochs, pauses, overdue, expired, persisted, resumed, doomed, crashes, caller>>

(***************************************************************************)
(* A caller: where it is (pc), what it wants (goal), the generation and    *)
(* action it is about, the source status and action fence of its next      *)
(* compare-and-set, and how many of them it has already lost.              *)
(***************************************************************************)
Goals == {"none", "resolve", "expire", "abort", "complete", "error", "sweep"}

Driving == {"driving", "pauseCas"}

Labels == Driving \cup
  {"idle", "owns", "saving", "release", "failRead", "failCas", "wait", "staleCas",
   "recheck", "resolveCas", "expireCas", "terminalCas", "settle", "delete"}

CallerStates ==
  [pc: Labels, goal: Goals, epoch: Nat, action: Nat, from: Statuses, fence: Fences, tries: 0 .. 3]

Idle ==
  [pc |-> "idle", goal |-> "none", epoch |-> 0, action |-> 0, from |-> "none",
   fence |-> NoFence, tries |-> 0]

Init ==
  /\ job = NoRow
  /\ epochs = 0
  /\ pauses = 0
  /\ overdue = FALSE
  /\ expired = {}
  /\ persisted = {}
  /\ resumed = {}
  /\ doomed = 0
  /\ crashes = 0
  /\ caller = [p \in Callers |-> Idle]

\* The row is a paused generation whose response is still being written.
BarrierHeld == job.status = "requires_action" /\ job.barrier

Is(p, label) == caller[p].pc = label

GoTo(p, label) == caller' = [caller EXCEPT ![p].pc = label]

Return(p) == caller' = [caller EXCEPT ![p] = Idle]

Drive(p, e) == caller' = [caller EXCEPT ![p] = [Idle EXCEPT !.pc = "driving", !.epoch = e]]

\* The row still belongs to the generation the caller is about.
SameGeneration(p) == job.status # "none" /\ job.createdAt = caller[p].epoch

-----------------------------------------------------------------------------
(* The driver of a generation *)

\* createJob: a new epoch replaces whatever row the stream has.
CreateJob(p) ==
  /\ Is(p, "idle")
  /\ epochs < MaxGenerations
  /\ epochs' = epochs + 1
  /\ job' = NewRow(epochs + 1)
  /\ Drive(p, epochs + 1)
  /\ UNCHANGED <<pauses, overdue, expired, persisted, resumed, doomed, crashes>>

\* pause, first half: a late interrupt of a dead or replaced run is dropped.
PauseRead(p) ==
  /\ Is(p, "driving")
  /\ pauses < MaxPauses
  /\ job.status = "running"
  /\ SameGeneration(p)
  /\ GoTo(p, "pauseCas")
  /\ UNCHANGED <<job, epochs, pauses, overdue, expired, persisted, resumed, doomed, crashes>>

\* pause, second half: the row, the action and the barrier change together.
PauseCas(p) ==
  /\ Is(p, "pauseCas")
  /\ pauses < MaxPauses
  /\ IF MayTransition(job, "running", NoFence, caller[p].epoch)
       THEN /\ pauses' = pauses + 1
            /\ job' = PausedRow(job, pauses + 1)
            /\ overdue' = FALSE
            /\ caller' = [caller EXCEPT ![p].pc = "owns", ![p].action = pauses + 1]
       ELSE /\ GoTo(p, "driving")
            /\ UNCHANGED <<job, pauses, overdue>>
  /\ UNCHANGED <<epochs, expired, persisted, resumed, doomed, crashes>>

\* ownsPausePersistence: is this pause still the one the barrier guards?
OwnsPausePersistence(p) ==
  /\ Is(p, "owns")
  /\ IF /\ BarrierHeld
        /\ job.action = caller[p].action
        /\ job.fence = HeldFence(caller[p].action)
        /\ job.createdAt = caller[p].epoch
       THEN GoTo(p, "saving")
       ELSE Return(p)
  /\ UNCHANGED <<job, epochs, pauses, overdue, expired, persisted, resumed, doomed, crashes>>

\* The unfinished response reaches the database, or the write fails.
SaveResponse(p) ==
  /\ Is(p, "saving")
  /\ \/ /\ persisted' = persisted \cup {caller[p].action}
        /\ GoTo(p, "release")
     \/ /\ GoTo(p, "failRead")
        /\ UNCHANGED persisted
  /\ UNCHANGED <<job, epochs, pauses, overdue, expired, resumed, doomed, crashes>>

\* finishPausePersistence: expose the action, if the barrier is still ours.
FinishPausePersistence(p) ==
  /\ Is(p, "release")
  /\ LET a == caller[p].action
     IN  job' = IF MayTransition(job, "requires_action", HeldFence(a), caller[p].epoch)
                  THEN ReleasedRow(job, a)
                  ELSE job
  /\ Return(p)
  /\ UNCHANGED <<epochs, pauses, overdue, expired, persisted, resumed, doomed, crashes>>

\* failPausePersistence, the read: only the exact barrier owner goes on.
FailPauseRead(p) ==
  /\ Is(p, "failRead")
  /\ IF /\ BarrierHeld
        /\ SameGeneration(p)
        /\ job.action = caller[p].action
        /\ job.fence = HeldFence(caller[p].action)
       THEN GoTo(p, "failCas")
       ELSE Return(p)
  /\ UNCHANGED <<job, epochs, pauses, overdue, expired, persisted, resumed, doomed, crashes>>

\* failPausePersistence, the claim: error, straight from the barrier state.
FailPauseCas(p) ==
  /\ Is(p, "failCas")
  /\ LET a == caller[p].action
     IN  job' = IF MayTransition(job, "requires_action", HeldFence(a), caller[p].epoch)
                  THEN FailedPauseRow(job)
                  ELSE job
  /\ Return(p)
  /\ UNCHANGED <<epochs, pauses, overdue, expired, persisted, resumed, doomed, crashes>>

\* claimTerminalJob by the controller that ran the generation, the first
\* read: a row of another generation, or one in a status the claim cannot
\* start from, ends it; a held barrier is waited for.
Claimable(goal, status) ==
  status = "running" \/ (goal = "error" /\ status = "requires_action")

BeginClaim(p) ==
  /\ Is(p, "driving")
  /\ \E s \in {"complete", "error"} :
       IF ~SameGeneration(p) \/ (~BarrierHeld /\ ~Claimable(s, job.status))
         THEN Return(p)
         ELSE caller' = [caller EXCEPT ![p].goal = s,
                                       ![p].pc = IF BarrierHeld THEN "wait" ELSE "terminalCas",
                                       ![p].from = job.status,
                                       ![p].fence = job.fence]
  /\ UNCHANGED <<job, epochs, pauses, overdue, expired, persisted, resumed, doomed, crashes>>

-----------------------------------------------------------------------------
(* Decisions: resolve, expire, abort *)

\* The resume route read a live action and checked that the user's decision
\* is about it; without FencedDecisions the caller omits the action id.
BeginResolve(p) ==
  /\ Is(p, "idle")
  /\ job.status = "requires_action"
  /\ job.action \notin expired
  /\ caller' = [caller EXCEPT ![p].pc = "wait", ![p].goal = "resolve", ![p].epoch = job.createdAt,
                              ![p].action = IF FencedDecisions THEN job.action ELSE 0]
  /\ UNCHANGED <<job, epochs, pauses, overdue, expired, persisted, resumed, doomed, crashes>>

\* expireStaleApprovals, and the resume route when the action lapsed: the
\* expiry is about the action that was read.
BeginExpire(p) ==
  /\ Is(p, "idle")
  /\ job.status = "requires_action"
  /\ job.action \in expired
  /\ caller' = [caller EXCEPT ![p].pc = "wait", ![p].goal = "expire", ![p].epoch = job.createdAt,
                              ![p].action = job.action]
  /\ UNCHANGED <<job, epochs, pauses, overdue, expired, persisted, resumed, doomed, crashes>>

\* abortJob, the first read.
BeginAbort(p) ==
  /\ Is(p, "idle")
  /\ job.status \in Active
  /\ caller' = [caller EXCEPT ![p].pc = IF BarrierHeld THEN "wait" ELSE "terminalCas",
                              ![p].goal = "abort", ![p].epoch = job.createdAt,
                              ![p].from = job.status, ![p].fence = job.fence]
  /\ UNCHANGED <<job, epochs, pauses, overdue, expired, persisted, resumed, doomed, crashes>>

\* failStalePausePersistence, as the manager's sweep calls it.
BeginSweep(p) ==
  /\ Is(p, "idle")
  /\ BarrierHeld
  /\ overdue
  /\ caller' = [caller EXCEPT ![p].pc = "staleCas", ![p].goal = "sweep", ![p].epoch = job.createdAt,
                              ![p].fence = job.fence]
  /\ UNCHANGED <<job, epochs, pauses, overdue, expired, persisted, resumed, doomed, crashes>>

\* waitForPausePersistence polls while the barrier of the generation is held
\* and within its lease; a read that finds it overdue fails the pause writer.
WaitObservesStale(p) ==
  /\ Is(p, "wait")
  /\ BarrierHeld
  /\ SameGeneration(p)
  /\ overdue
  /\ caller' = [caller EXCEPT ![p].pc = "staleCas", ![p].fence = job.fence]
  /\ UNCHANGED <<job, epochs, pauses, overdue, expired, persisted, resumed, doomed, crashes>>

\* Seeded bug: the fence is the plain action id, not the prefixed one.
StaleCas_PlainId(p) ==
  /\ Is(p, "staleCas")
  /\ LET won == MayTransition(job, "requires_action", PlainFence(caller[p].fence.id), caller[p].epoch)
     IN  /\ job' = IF won THEN FailedPauseRow(job) ELSE job
         /\ IF caller[p].goal = "sweep"
              THEN Return(p)
              ELSE GoTo(p, IF won THEN "wait" ELSE "recheck")
  /\ UNCHANGED <<epochs, pauses, overdue, expired, persisted, resumed, doomed, crashes>>

\* The fail-closed compare-and-set, fenced to the exact action and epoch.  A
\* waiter that loses it reads again; a sweep is done.
StaleCas(p) ==
  /\ Is(p, "staleCas")
  /\ LET won == MayTransition(job, "requires_action", caller[p].fence, caller[p].epoch)
     IN  /\ job' = IF won THEN FailedPauseRow(job) ELSE job
         /\ IF caller[p].goal = "sweep"
              THEN Return(p)
              ELSE GoTo(p, IF won THEN "wait" ELSE "recheck")
  /\ UNCHANGED <<epochs, pauses, overdue, expired, persisted, resumed, doomed, crashes>>

\* The waiter that lost re-reads: the very same barrier still standing would
\* mean the store refuses to terminalize it, and the call throws.
Recheck(p) ==
  /\ Is(p, "recheck")
  /\ IF BarrierHeld /\ SameGeneration(p) /\ job.fence = caller[p].fence
       THEN Return(p)
       ELSE GoTo(p, "wait")
  /\ UNCHANGED <<job, epochs, pauses, overdue, expired, persisted, resumed, doomed, crashes>>

\* Seeded bug: the mark of a terminal row is waited for as well.
WaitDone_AnyPending(p) == Is(p, "wait") /\ ~(job.barrier /\ SameGeneration(p))

\* The wait is over: the row is not a held barrier of this generation.
WaitDone(p) == Is(p, "wait") /\ ~(BarrierHeld /\ SameGeneration(p))

\* resolve, after the wait.
ResolveDecides(p) ==
  /\ WaitDone(p)
  /\ caller[p].goal = "resolve"
  /\ \/ /\ ~(SameGeneration(p) /\ job.status = "requires_action")
        /\ Return(p)
     \/ /\ SameGeneration(p)
        /\ job.status = "requires_action"
        /\ job.action \in expired
        /\ caller' = [caller EXCEPT ![p].goal = "expire",
                                    ![p].action = IF @ # 0 THEN @ ELSE job.action]
     \/ /\ SameGeneration(p)
        /\ job.status = "requires_action"
        /\ job.action \notin expired
        /\ GoTo(p, "resolveCas")
  /\ UNCHANGED <<job, epochs, pauses, overdue, expired, persisted, resumed, doomed, crashes>>

\* Seeded bug: the decision does not say which action it is about.
DecisionFence_Dropped(a) == IF a = a THEN NoFence ELSE PlainFence(a)

\* The fence a decision passes: the plain id, or none at all.
DecisionFence(a) == IF a = 0 THEN NoFence ELSE PlainFence(a)

\* resolve, the compare-and-set: its winner re-enters the agent.
ResolveCas(p) ==
  /\ Is(p, "resolveCas")
  /\ IF MayTransition(job, "requires_action", DecisionFence(caller[p].action), caller[p].epoch)
       THEN /\ job' = ResumedRow(job)
            /\ resumed' = resumed \cup {job.action}
            /\ Drive(p, job.createdAt)
       ELSE /\ Return(p)
            /\ UNCHANGED <<job, resumed>>
  /\ UNCHANGED <<epochs, pauses, overdue, expired, persisted, doomed, crashes>>

\* expireWithIdentity, after the wait.
ExpireDecides(p) ==
  /\ WaitDone(p)
  /\ caller[p].goal = "expire"
  /\ IF SameGeneration(p) /\ job.status = "requires_action"
       THEN GoTo(p, "expireCas")
       ELSE Return(p)
  /\ UNCHANGED <<job, epochs, pauses, overdue, expired, persisted, resumed, doomed, crashes>>

ExpireCas(p) ==
  /\ Is(p, "expireCas")
  /\ job' = IF MayTransition(job, "requires_action", DecisionFence(caller[p].action), caller[p].epoch)
              THEN ExpiredRow(job)
              ELSE job
  /\ Return(p)
  /\ UNCHANGED <<epochs, pauses, overdue, expired, persisted, resumed, doomed, crashes>>

-----------------------------------------------------------------------------
(* Terminal claims: completion by the driver, abort by the user *)

\* abortJob makes at most three attempts.
MoreAttempts(n) == n < 3

\* claimTerminalJob and abortJob, after the wait.  An abort that already lost
\* an attempt gives up when nothing changed since, or after the third.
ClaimDecides(p) ==
  /\ WaitDone(p)
  /\ caller[p].goal \in {"abort", "complete", "error"}
  /\ LET c == caller[p]
         possible == IF c.goal = "abort" THEN job.status \in Active ELSE Claimable(c.goal, job.status)
         sameAsLost == c.tries > 0 /\ job.status = c.from /\ job.fence = c.fence
     IN  IF SameGeneration(p) /\ possible /\ ~sameAsLost /\ MoreAttempts(c.tries)
           THEN caller' = [caller EXCEPT ![p].pc = "terminalCas",
                                         ![p].from = job.status, ![p].fence = job.fence]
           ELSE Return(p)
  /\ UNCHANGED <<job, epochs, pauses, overdue, expired, persisted, resumed, doomed, crashes>>

\* The terminal compare-and-set.  Its winner owns the row's final writes; an
\* abort that loses reads again, waiting if a pause got in between.
TerminalCas(p) ==
  /\ Is(p, "terminalCas")
  /\ LET c == caller[p]
         fence == IF c.from = "requires_action" THEN c.fence ELSE NoFence
     IN  IF MayTransition(job, c.from, fence, c.epoch)
           THEN /\ job' = IF c.goal = "abort"
                            THEN AbortedRow(job)
                            ELSE ClaimedRow(job, c.goal, c.goal = "complete")
                /\ IF c.goal = "error" THEN Return(p) ELSE GoTo(p, "settle")
           ELSE /\ IF c.goal = "abort"
                     THEN caller' = [caller EXCEPT ![p].pc = "wait", ![p].tries = @ + 1]
                     ELSE Return(p)
                /\ UNCHANGED job
  /\ UNCHANGED <<epochs, pauses, overdue, expired, persisted, resumed, doomed, crashes>>

\* publishTerminalClaim stores the final event and lifts the pending mark.
SettleTerminal(p) ==
  /\ Is(p, "settle")
  /\ job' = IF SameGeneration(p) /\ job.barrier THEN SettledRow(job) ELSE job
  /\ GoTo(p, "delete")
  /\ UNCHANGED <<epochs, pauses, overdue, expired, persisted, resumed, doomed, crashes>>

\* finishTerminalJob deletes the row it claimed, never a replacement.
FinishTerminal(p) ==
  /\ Is(p, "delete")
  /\ job' = IF SameGeneration(p) THEN NoRow ELSE job
  /\ Return(p)
  /\ UNCHANGED <<epochs, pauses, overdue, expired, persisted, resumed, doomed, crashes>>

-----------------------------------------------------------------------------
(* Time, sweeping, crashes *)

BarrierLeaseEnds ==
  /\ BarrierHeld
  /\ ~overdue
  /\ overdue' = TRUE
  /\ UNCHANGED <<job, epochs, pauses, expired, persisted, resumed, doomed, crashes, caller>>

ReviewDeadlinePasses ==
  /\ job.status = "requires_action"
  /\ job.action \notin expired
  /\ expired' = expired \cup {job.action}
  /\ UNCHANGED <<job, epochs, pauses, overdue, persisted, resumed, doomed, crashes, caller>>

\* Seeded bug: cleanup compares the plain id with the prefixed mirror.
CleanupBarrier_PlainId ==
  /\ BarrierHeld
  /\ overdue
  /\ MayTransition(job, "requires_action", PlainFence(job.action), job.createdAt)
  /\ job' = FailedPauseRow(job)
  /\ UNCHANGED <<epochs, pauses, overdue, expired, persisted, resumed, doomed, crashes, caller>>

\* InMemoryJobStore.cleanup: an overdue barrier fails closed.
CleanupBarrier ==
  /\ BarrierHeld
  /\ overdue
  /\ job' = FailedPauseRow(job)
  /\ UNCHANGED <<epochs, pauses, overdue, expired, persisted, resumed, doomed, crashes, caller>>

\* InMemoryJobStore.cleanup: a lapsed approval is finalized.
CleanupStaleApproval ==
  /\ job.status = "requires_action"
  /\ ~job.barrier
  /\ job.action \in expired
  /\ job' = ExpiredRow(job)
  /\ UNCHANGED <<epochs, pauses, overdue, expired, persisted, resumed, doomed, crashes, caller>>

\* InMemoryJobStore.cleanup marks a finished row, or a run silent for too
\* long, and deletes what it marked only after its remaining awaits.
CleanupMarks ==
  /\ doomed = 0
  /\ job.status \in Terminal \cup {"running"}
  /\ doomed' = job.createdAt
  /\ UNCHANGED <<job, epochs, pauses, overdue, expired, persisted, resumed, crashes, caller>>

CleanupDeletes ==
  /\ doomed # 0
  /\ doomed' = 0
  /\ job' = IF job.createdAt = doomed THEN NoRow ELSE job
  /\ UNCHANGED <<epochs, pauses, overdue, expired, persisted, resumed, crashes, caller>>

\* recoverStaleTerminalPersistence: the owner of the final writes disappeared.
RecoverTerminal ==
  /\ job.status \in Terminal
  /\ job.barrier
  /\ job' = SettledRow(job)
  /\ UNCHANGED <<epochs, pauses, overdue, expired, persisted, resumed, doomed, crashes, caller>>

Crash(p) ==
  /\ ~Is(p, "idle")
  /\ crashes < MaxCrashes
  /\ crashes' = crashes + 1
  /\ Return(p)
  /\ UNCHANGED <<job, epochs, pauses, overdue, expired, persisted, resumed, doomed>>

CallerStep(p) ==
  \/ CreateJob(p) \/ PauseRead(p) \/ PauseCas(p) \/ OwnsPausePersistence(p)
  \/ SaveResponse(p) \/ FinishPausePersistence(p) \/ FailPauseRead(p) \/ FailPauseCas(p)
  \/ BeginClaim(p) \/ BeginResolve(p) \/ BeginExpire(p) \/ BeginAbort(p) \/ BeginSweep(p)
  \/ WaitObservesStale(p) \/ StaleCas(p) \/ Recheck(p)
  \/ ResolveDecides(p) \/ ResolveCas(p) \/ ExpireDecides(p) \/ ExpireCas(p)
  \/ ClaimDecides(p) \/ TerminalCas(p) \/ SettleTerminal(p) \/ FinishTerminal(p)

Cleanup == CleanupBarrier \/ CleanupStaleApproval \/ CleanupMarks \/ CleanupDeletes \/ RecoverTerminal

Clock == BarrierLeaseEnds \/ ReviewDeadlinePasses

Next == (\E p \in Callers : CallerStep(p) \/ Crash(p)) \/ Cleanup \/ Clock

Spec == Init /\ [][Next]_vars

(***************************************************************************)
(* Clocks advance, the periodic cleanup runs, and a caller that polls the  *)
(* barrier keeps polling.  Nothing is assumed of drivers or of users.      *)
(***************************************************************************)
Fairness ==
  /\ WF_vars(BarrierLeaseEnds) /\ WF_vars(ReviewDeadlinePasses)
  /\ WF_vars(CleanupBarrier) /\ WF_vars(CleanupStaleApproval)
  /\ \A p \in Callers :
       WF_vars(WaitObservesStale(p) \/ ResolveDecides(p) \/ ExpireDecides(p) \/ ClaimDecides(p))

FairSpec == Spec /\ Fairness

-----------------------------------------------------------------------------
(* Properties *)

\* Every variable has its type.
TypeOK ==
  /\ job \in Rows
  /\ epochs \in Nat
  /\ pauses \in Nat
  /\ overdue \in BOOLEAN
  /\ expired \subseteq Nat
  /\ persisted \subseteq Nat
  /\ resumed \subseteq Nat
  /\ doomed \in Nat
  /\ crashes \in Nat
  /\ caller \in [Callers -> CallerStates]

\* A generation is driven by at most one caller: of all the racing submits
\* of a decision, and the driver that paused, one at most runs the agent.
SingleDriver ==
  \A p, q \in Callers :
    p # q /\ caller[p].pc \in Driving /\ caller[q].pc \in Driving => caller[p].epoch # caller[q].epoch

\* No action is resumed before the response it belongs to is durable,
\* whatever waiters, sweeps and slow or failing writers do.
ResumedOnlyIfPersisted == resumed \subseteq persisted

\* The plain action id, the one a decision can match, is visible only after
\* the write; and a row that runs holds no pause barrier any more.
ExposedOnlyIfPersisted ==
  /\ job.status = "requires_action" /\ ~job.fence.held => job.action \in persisted
  /\ job.status = "running" => ~job.barrier

\* Two terminal claims of one generation are never both won: at most one
\* caller publishes its final event and deletes its row.
SingleTerminalOwner ==
  \A p, q \in Callers :
    p # q /\ caller[p].pc \in {"settle", "delete"} /\ caller[q].pc \in {"settle", "delete"}
      => caller[p].epoch # caller[q].epoch

\* A waiter that lost the fail-closed compare-and-set never finds the same
\* barrier still standing: the error the code throws there is unreachable.
StaleBarrierNeverStuck ==
  \A p \in Callers :
    Is(p, "recheck") => ~(BarrierHeld /\ SameGeneration(p) /\ job.fence = caller[p].fence)

\* An expiry aborts only an action whose deadline has passed, even when the
\* run was resumed and paused again since the expiry read the row.
ExpiryHitsOnlyLapsed ==
  [][/\ job.status = "requires_action"
     /\ job'.status = "aborted"
     /\ ~job'.barrier
     => job.action \in expired]_vars

\* A handler that belongs to a replaced or deleted generation changes nothing
\* in the row of the generation that took its place.
StaleGenerationIsInert ==
  [][\A p \in Callers :
       /\ caller'[p] # caller[p]
       /\ caller[p].pc # "idle"
       /\ caller[p].epoch # job.createdAt
       => job' = job]_vars

\* A terminal generation stays as it ended until its row goes, and a row only
\* ever gives way to a younger generation.
GenerationsMoveForward ==
  [][IF job'.createdAt = job.createdAt
       THEN job.status \in Terminal => job'.status = job.status
       ELSE job'.status = "none" \/ job'.createdAt > epochs]_vars

\* No generation waits for review for ever: its writer, a decision, or the
\* clocks and the sweeps end every pause.
ReviewEnds == job.status = "requires_action" ~> job.status # "requires_action"

\* No decision polls for ever behind a barrier whose writer is gone.
WaitEnds == \A p \in Callers : Is(p, "wait") ~> ~Is(p, "wait")
=============================================================================
