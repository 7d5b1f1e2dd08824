------------------------------- MODULE JobRow -------------------------------
(***************************************************************************)
(* One row of the generation job store, and the compare-and-set every      *)
(* lifecycle change of a row goes through (IJobStoreV2.transitionStatus).  *)
(*                                                                         *)
(* A row is reduced to what the guards of the stream subsystem compare:    *)
(* the generation epoch (createdAt), the status, the id of the pending     *)
(* action shown to the user, its flat mirror that the compare-and-set      *)
(* checks (pendingActionId), and terminalPersistencePending.  Action ids   *)
(* are positive numbers; 0 stands for an absent field.  The mirror is a    *)
(* record because the code prefixes the id while the paused response is    *)
(* still being written: held = TRUE is that prefixed form.                 *)
(***************************************************************************)
EXTENDS Naturals

Active == {"running", "requires_action"}
Terminal == {"complete", "error", "aborted"}

\* "none" stands for a stream that has no row.
Statuses == Active \cup Terminal \cup {"none"}

Fences == [id: Nat, held: BOOLEAN]
NoFence == [id |-> 0, held |-> FALSE]
PlainFence(a) == [id |-> a, held |-> FALSE]
HeldFence(a) == [id |-> a, held |-> TRUE]

Rows == [createdAt: Nat, status: Statuses, action: Nat, fence: Fences, barrier: BOOLEAN]

NoRow == [createdAt |-> 0, status |-> "none", action |-> 0, fence |-> NoFence, barrier |-> FALSE]

NewRow(e) == [NoRow EXCEPT !.createdAt = e, !.status = "running"]

\* Seeded bugs: the write trusts the row its caller read; the epoch is not fenced.
MayTransition_TrustsRead(row, from, fence, epoch) ==
  /\ row.status # "none"
  /\ epoch # 0 => row.createdAt = epoch

MayTransition_AnyGeneration(row, from, fence, epoch) ==
  /\ row.status = from
  /\ fence # NoFence => row.fence = fence

(***************************************************************************)
(* The guard of transitionStatus: the status always, the fences only when  *)
(* the caller passes them (NoFence and epoch 0 are the omitted arguments). *)
(***************************************************************************)
MayTransition(row, from, fence, epoch) ==
  /\ row.status = from
  /\ fence # NoFence => row.fence = fence
  /\ epoch # 0 => row.createdAt = epoch

\* clear: ['pendingAction', 'pendingActionId']
WithoutAction(row) == [row EXCEPT !.action = 0, !.fence = NoFence]

\* Seeded bug: the pause installs no barrier.
PausedRow_NoBarrier(row, a) ==
  [row EXCEPT !.status = "requires_action", !.action = a, !.fence = PlainFence(a)]

\* The patch of a pause that keeps the persistence barrier.
PausedRow(row, a) ==
  [row EXCEPT !.status = "requires_action", !.action = a, !.fence = HeldFence(a), !.barrier = TRUE]

\* The patch that releases the barrier of the paused action a.
ReleasedRow(row, a) == [row EXCEPT !.fence = PlainFence(a), !.barrier = FALSE]

ResumedRow(row) == [WithoutAction(row) EXCEPT !.status = "running"]

ExpiredRow(row) == [WithoutAction(row) EXCEPT !.status = "aborted"]

\* A barrier that outlived its owner, or whose write failed, ends in error.
FailedPauseRow(row) == [WithoutAction(row) EXCEPT !.status = "error", !.barrier = FALSE]

\* User abort: terminal, pending until the abort's own writes are settled;
\* the pending action is not cleared.
AbortedRow(row) == [row EXCEPT !.status = "aborted", !.barrier = TRUE]

\* Terminal claim of the controller that ran the generation.
ClaimedRow(row, s, pending) ==
  [(IF row.status = "requires_action" THEN WithoutAction(row) ELSE row)
     EXCEPT !.status = s, !.barrier = pending \/ row.barrier]

\* The final event is stored: the terminal row is no longer pending.
SettledRow(row) == [row EXCEPT !.barrier = FALSE]

=============================================================================
