---------------------- MODULE ApprovalLifecycle_proofs ----------------------
(***************************************************************************)
(* Proofs about ApprovalLifecycle, for any set of callers and any bounds.  *)
(***************************************************************************)
EXTENDS ApprovalLifecycle, TLAPS

\* The type invariant is inductive once it also counts the attempts of abort:
\* a caller about to try has one left, and starts with all of them.
TypeInv ==
  /\ TypeOK
  /\ \A p \in Callers :
       /\ caller[p].pc \in Driving \cup {"idle"} => caller[p].tries = 0
       /\ caller[p].pc = "terminalCas"
            => /\ caller[p].tries < 3
               /\ caller[p].goal \in {"abort", "complete", "error"}
               /\ caller[p].from \in Active

\* What every transition of a row yields is a row.
LEMMA NewRows == NoRow \in Rows /\ \A e \in Nat : NewRow(e) \in Rows
  BY DEF Rows, NoRow, NewRow, NoFence, Fences, Statuses, Active

LEMMA RowChanges ==
  ASSUME NEW row \in Rows
  PROVE  /\ ResumedRow(row) \in Rows
         /\ ExpiredRow(row) \in Rows
         /\ FailedPauseRow(row) \in Rows
         /\ AbortedRow(row) \in Rows
         /\ SettledRow(row) \in Rows
<1>1. NoFence \in Fences /\ {"running", "error", "aborted"} \subseteq Statuses
  BY DEF NoFence, Fences, Statuses, Active, Terminal
<1>2. WithoutAction(row) \in Rows
  BY <1>1 DEF WithoutAction, Rows
<1> QED
  BY <1>1, <1>2 DEF Rows, ResumedRow, ExpiredRow, FailedPauseRow, AbortedRow, SettledRow

LEMMA RowPauses ==
  ASSUME NEW row \in Rows, NEW a \in Nat
  PROVE  PausedRow(row, a) \in Rows /\ ReleasedRow(row, a) \in Rows
<1>1. PlainFence(a) \in Fences /\ HeldFence(a) \in Fences /\ "requires_action" \in Statuses
  BY DEF PlainFence, HeldFence, Fences, Statuses, Active
<1> QED
  BY <1>1 DEF Rows, PausedRow, ReleasedRow

LEMMA RowClaims ==
  ASSUME NEW row \in Rows, NEW s \in Terminal, NEW b \in BOOLEAN
  PROVE  ClaimedRow(row, s, b) \in Rows
<1>1. NoFence \in Fences /\ s \in Statuses
  BY DEF NoFence, Fences, Statuses
<1>2. WithoutAction(row) \in Rows
  BY <1>1 DEF WithoutAction, Rows
<1>3. \A r \in Rows : [r EXCEPT !.status = s, !.barrier = b \/ row.barrier] \in Rows
  BY <1>1 DEF Rows
<1> QED
  BY <1>2, <1>3 DEF ClaimedRow

\* A caller that is idle, and one that starts to drive.
LEMMA FreshCallers ==
  /\ Idle \in CallerStates
  /\ \A e \in Nat : [Idle EXCEPT !.pc = "driving", !.epoch = e] \in CallerStates
<1>1. 0 \in 0 .. 3
  OBVIOUS
<1>2. NoFence \in Fences /\ "none" \in Statuses
  BY DEF NoFence, Fences, Statuses
<1> QED
  BY <1>1, <1>2 DEF Idle, CallerStates, Labels, Goals, Driving

\* The type invariant holds initially.
LEMMA TypeInit == Init => TypeInv
<1> SUFFICES ASSUME Init PROVE TypeInv
  OBVIOUS
<1>1. NoRow \in Rows
  BY DEF NoRow, Rows, NoFence, Fences, Statuses
<1>2. caller \in [Callers -> CallerStates]
  BY FreshCallers DEF Init
<1>3. \A p \in Callers : caller[p].tries = 0 /\ caller[p].pc # "terminalCas"
  BY DEF Init, Idle
<1> QED
  BY <1>1, <1>2, <1>3 DEF Init, TypeInv, TypeOK

\* The type invariant is preserved by every step.
LEMMA TypeStep == TypeInv /\ [Next]_vars => TypeInv'
<1> SUFFICES ASSUME TypeInv, [Next]_vars PROVE TypeInv'
  OBVIOUS
<1> USE DEF TypeInv, TypeOK
<1>1. ASSUME NEW p \in Callers, CallerStep(p) PROVE TypeInv'
  <2> USE DEF CallerStates, Labels, Goals, Driving, Is, GoTo, Return, Idle
  <2>0. /\ caller[p] \in CallerStates /\ NoFence \in Fences /\ job.fence \in Fences
        /\ job.status \in Statuses /\ "none" \in Statuses /\ job.createdAt \in Nat
        /\ job.action \in Nat
    BY DEF Rows, Fences, NoFence, Statuses
  <2>1. CASE CreateJob(p)
    <3>1. epochs + 1 \in Nat /\ NewRow(epochs + 1) \in Rows
      BY NewRows
    <3>2. caller' = [caller EXCEPT ![p] = [Idle EXCEPT !.pc = "driving", !.epoch = epochs + 1]]
      BY <2>1 DEF CreateJob, Drive
    <3>3. [Idle EXCEPT !.pc = "driving", !.epoch = epochs + 1] \in CallerStates
      BY <3>1, FreshCallers
    <3> HIDE DEF CallerStates
    <3>4. caller' \in [Callers -> CallerStates]
      BY <3>2, <3>3
    <3> QED
      BY <2>1, <3>1, <3>2, <3>4 DEF CreateJob
  <2>2. CASE PauseRead(p)
    BY <2>0, <2>2 DEF PauseRead
  <2>3. CASE PauseCas(p)
    <3>1. pauses + 1 \in Nat /\ PausedRow(job, pauses + 1) \in Rows
      BY RowPauses
    <3>2. job' \in Rows /\ pauses' \in Nat /\ overdue' \in BOOLEAN
      BY <2>3, <3>1 DEF PauseCas
    <3>3. \/ caller' = [caller EXCEPT ![p].pc = "owns", ![p].action = pauses + 1]
          \/ caller' = [caller EXCEPT ![p].pc = "driving"]
      BY <2>3 DEF PauseCas
    <3> QED
      BY <2>0, <2>3, <3>1, <3>2, <3>3 DEF PauseCas
  <2>4. CASE OwnsPausePersistence(p)
    BY <2>0, <2>4 DEF OwnsPausePersistence
  <2>5. CASE SaveResponse(p)
    BY <2>0, <2>5 DEF SaveResponse
  <2>6. CASE FinishPausePersistence(p)
    <3>1. ReleasedRow(job, caller[p].action) \in Rows
      BY <2>0, RowPauses
    <3> QED
      BY <2>0, <2>6, <3>1 DEF FinishPausePersistence
  <2>7. CASE FailPauseRead(p)
    BY <2>0, <2>7 DEF FailPauseRead
  <2>8. CASE FailPauseCas(p)
    BY <2>0, <2>8, RowChanges DEF FailPauseCas
  <2>9. CASE BeginClaim(p)
    BY <2>0, <2>9 DEF BeginClaim, Claimable, Active
  <2>10. CASE BeginResolve(p)
    BY <2>0, <2>10 DEF BeginResolve
  <2>11. CASE BeginExpire(p)
    BY <2>0, <2>11 DEF BeginExpire
  <2>12. CASE BeginAbort(p)
    <3>1. /\ job' = job
          /\ UNCHANGED <<epochs, pauses, overdue, expired, persisted, resumed, doomed, crashes>>
      BY <2>12 DEF BeginAbort
    <3>2. caller[p].tries = 0 /\ job.status \in Active
      BY <2>12 DEF BeginAbort
    <3>3. PICK l \in {"wait", "terminalCas"} :
            caller' = [caller EXCEPT ![p].pc = l, ![p].goal = "abort", ![p].epoch = job.createdAt,
                                     ![p].from = job.status, ![p].fence = job.fence]
      BY <2>12 DEF BeginAbort
    <3> QED
      <4> DEFINE c == [caller[p] EXCEPT !.pc = l, !.goal = "abort", !.epoch = job.createdAt,
                                        !.from = job.status, !.fence = job.fence]
      <4>1. c \in CallerStates /\ c.tries = 0 /\ c.goal = "abort" /\ c.pc # "idle" /\ c.from \in Active
        BY <2>0, <3>2
      <4>2. caller' = [caller EXCEPT ![p] = c]
        BY <3>3
      <4> HIDE DEF c, CallerStates
      <4> QED
        BY <3>1, <4>1, <4>2
  <2>13. CASE BeginSweep(p)
    BY <2>0, <2>13 DEF BeginSweep
  <2>14. CASE WaitObservesStale(p)
    BY <2>0, <2>14 DEF WaitObservesStale
  <2>15. CASE StaleCas(p)
    <3>1. job' \in Rows
      BY <2>15, RowChanges DEF StaleCas
    <3>2. \/ caller' = [caller EXCEPT ![p] = Idle]
          \/ caller' = [caller EXCEPT ![p].pc = "wait"]
          \/ caller' = [caller EXCEPT ![p].pc = "recheck"]
      BY <2>15 DEF StaleCas
    <3> QED
      BY <2>0, <2>15, <3>1, <3>2 DEF StaleCas
  <2>16. CASE Recheck(p)
    BY <2>0, <2>16 DEF Recheck
  <2>17. CASE ResolveDecides(p)
    BY <2>0, <2>17 DEF ResolveDecides, WaitDone
  <2>18. CASE ResolveCas(p)
    <3>1. job' \in Rows
      BY <2>18, RowChanges DEF ResolveCas
    <3>4. resumed' \subseteq Nat
      <4>1. resumed' = resumed \/ resumed' = resumed \cup {job.action}
        BY <2>18 DEF ResolveCas
      <4>2. resumed \subseteq Nat /\ job.action \in Nat
        BY <2>0
      <4> HIDE DEF TypeInv, TypeOK
      <4> QED
        BY <4>1, <4>2
    <3>2. \/ caller' = [caller EXCEPT ![p] = Idle]
          \/ caller' = [caller EXCEPT ![p] = [Idle EXCEPT !.pc = "driving", !.epoch = job.createdAt]]
      BY <2>18 DEF ResolveCas, Drive
    <3> HIDE DEF CallerStates
    <3>3. caller' \in [Callers -> CallerStates]
      BY <2>0, <3>2, FreshCallers
    <3>5. caller'[p].tries = 0 /\ caller'[p].pc # "terminalCas"
      <4> DEFINE d == [Idle EXCEPT !.pc = "driving", !.epoch = job.createdAt]
      <4>1. d.tries = 0 /\ d.pc = "driving" /\ Idle.tries = 0 /\ Idle.pc = "idle"
        OBVIOUS
      <4>2. caller' = [caller EXCEPT ![p] = Idle] \/ caller' = [caller EXCEPT ![p] = d]
        BY <3>2
      <4>3. caller'[p] = Idle \/ caller'[p] = d
        BY <4>2
      <4> HIDE DEF d, Idle
      <4> QED
        BY <4>1, <4>3
    <3>6. \A q \in Callers : q # p => caller'[q] = caller[q]
      BY <3>2
    <3> QED
      BY <2>18, <3>1, <3>3, <3>4, <3>5, <3>6 DEF ResolveCas
  <2>19. CASE ExpireDecides(p)
    BY <2>0, <2>19 DEF ExpireDecides, WaitDone
  <2>20. CASE ExpireCas(p)
    BY <2>0, <2>20, RowChanges DEF ExpireCas
  <2>21. CASE ClaimDecides(p)
    BY <2>0, <2>21 DEF ClaimDecides, WaitDone, MoreAttempts, Claimable, Active
  <2>22. CASE TerminalCas(p)
    <3>1. caller[p].goal \in {"abort", "complete", "error"} /\ caller[p].tries + 1 \in 0 .. 3
      BY <2>0, <2>22 DEF TerminalCas
    <3>2. job' \in Rows
      <4>1. AbortedRow(job) \in Rows
        BY RowChanges
      <4>2. caller[p].goal # "abort"
              => ClaimedRow(job, caller[p].goal, caller[p].goal = "complete") \in Rows
        <5> SUFFICES ASSUME caller[p].goal # "abort"
                     PROVE  ClaimedRow(job, caller[p].goal, caller[p].goal = "complete") \in Rows
          OBVIOUS
        <5>1. caller[p].goal \in Terminal /\ (caller[p].goal = "complete") \in BOOLEAN
          BY <3>1 DEF Terminal
        <5> QED
          BY <5>1, RowClaims
      <4>3. \/ job' = job
            \/ caller[p].goal = "abort" /\ job' = AbortedRow(job)
            \/ /\ caller[p].goal # "abort"
               /\ job' = ClaimedRow(job, caller[p].goal, caller[p].goal = "complete")
        BY <2>22 DEF TerminalCas
      <4> QED
        BY <4>1, <4>2, <4>3
    <3>3. \/ caller' = [caller EXCEPT ![p] = Idle]
          \/ caller' = [caller EXCEPT ![p].pc = "settle"]
          \/ caller' = [caller EXCEPT ![p].pc = "wait", ![p].tries = @ + 1]
      BY <2>22 DEF TerminalCas
    <3> QED
      BY <2>0, <2>22, <3>1, <3>2, <3>3 DEF TerminalCas
  <2>23. CASE SettleTerminal(p)
    BY <2>0, <2>23, RowChanges DEF SettleTerminal
  <2>24. CASE FinishTerminal(p)
    BY <2>0, <2>24, NewRows DEF FinishTerminal
  <2> QED
    BY <1>1, <2>1, <2>2, <2>3, <2>4, <2>5, <2>6, <2>7, <2>8, <2>9, <2>10, <2>11, <2>12, <2>13,
       <2>14, <2>15, <2>16, <2>17, <2>18, <2>19, <2>20, <2>21, <2>22, <2>23, <2>24
    DEF CallerStep
<1>2. ASSUME NEW p \in Callers, Crash(p) PROVE TypeInv'
  BY <1>2 DEF Crash, Return, Idle, CallerStates, Labels, Goals, Driving, Statuses, Fences, NoFence
<1>3. CASE Cleanup
  <2>1. job' \in Rows
    BY <1>3, RowChanges, NewRows
    DEF Cleanup, CleanupBarrier, CleanupStaleApproval, CleanupMarks, CleanupDeletes, RecoverTerminal
  <2>2. doomed' \in Nat
    BY <1>3 DEF Cleanup, CleanupBarrier, CleanupStaleApproval, CleanupMarks, CleanupDeletes,
                RecoverTerminal, Rows
  <2> QED
    BY <1>3, <2>1, <2>2
    DEF Cleanup, CleanupBarrier, CleanupStaleApproval, CleanupMarks, CleanupDeletes, RecoverTerminal
<1>4. CASE Clock
  BY <1>4 DEF Clock, BarrierLeaseEnds, ReviewDeadlinePasses, Rows
<1>5. CASE UNCHANGED vars
  BY <1>5 DEF vars
<1> QED
  BY <1>1, <1>2, <1>3, <1>4, <1>5 DEF Next

\* Every variable keeps its type, for any number of callers: in particular an
\* abort never makes more than its three attempts.
THEOREM TypeCorrect == Spec => []TypeOK
<1>1. TypeInv => TypeOK
  BY DEF TypeInv
<1> QED
  BY TypeInit, TypeStep, <1>1, PTL DEF Spec
-----------------------------------------------------------------------------
(***************************************************************************)
(* A generation has one driver.  SingleDriver alone is not inductive: that *)
(* a resume cannot add a second driver rests on the fact that nobody       *)
(* drives a paused generation, and that epochs are never given out twice.  *)
(***************************************************************************)
DriverInv ==
  /\ job.createdAt <= epochs
  /\ job.status # "none" => job.createdAt # 0
  /\ \A p \in Callers :
       /\ caller[p].epoch <= epochs
       /\ caller[p].pc # "idle" => caller[p].epoch # 0
       /\ caller[p].pc \in Driving /\ caller[p].epoch = job.createdAt => job.status # "requires_action"
  /\ SingleDriver

\* Steps that neither create a driver nor pause a row: all but three.
QuietRow ==
  \/ job' = NoRow
  \/ /\ job'.createdAt = job.createdAt
     /\ job'.status = "requires_action" => job.status = "requires_action"
     /\ job'.status # "none" => job.status # "none"

QuietCaller(p) ==
  /\ caller'[p].pc \in Driving => caller[p].pc \in Driving /\ caller'[p].epoch = caller[p].epoch
  /\ caller'[p].epoch \in {0, caller[p].epoch, job.createdAt}
  /\ caller'[p].pc # "idle" => caller'[p].epoch # 0

Quiet == QuietRow /\ (\A p \in Callers : QuietCaller(p)) /\ epochs' = epochs

\* A quiet step preserves the driver invariant.
LEMMA QuietPreserves == TypeInv /\ TypeInv' /\ DriverInv /\ Quiet => DriverInv'
<1> SUFFICES ASSUME TypeInv, TypeInv', DriverInv, Quiet PROVE DriverInv'
  OBVIOUS
<1>1. /\ epochs \in Nat /\ job.createdAt \in Nat /\ job'.createdAt \in Nat
      /\ \A p \in Callers : caller[p].epoch \in Nat /\ caller'[p].epoch \in Nat
  BY DEF TypeInv, TypeOK, Rows, CallerStates
<1>2. /\ job'.createdAt \in {0, job.createdAt}
      /\ job'.status # "none" => job'.createdAt = job.createdAt /\ job.status # "none"
      /\ job'.status = "requires_action"
           => job'.createdAt = job.createdAt /\ job.status = "requires_action"
  BY DEF Quiet, QuietRow, NoRow
<1>3. job'.createdAt <= epochs' /\ (job'.status # "none" => job'.createdAt # 0)
  BY <1>1, <1>2 DEF DriverInv, Quiet
<1>4. ASSUME NEW p \in Callers
      PROVE  /\ caller'[p].epoch <= epochs'
             /\ caller'[p].pc # "idle" => caller'[p].epoch # 0
             /\ caller'[p].pc \in Driving /\ caller'[p].epoch = job'.createdAt
                  => job'.status # "requires_action"
  BY <1>1, <1>2 DEF DriverInv, Quiet, QuietCaller
<1>5. SingleDriver'
  BY DEF DriverInv, SingleDriver, Quiet, QuietCaller
<1> QED
  BY <1>3, <1>4, <1>5 DEF DriverInv

\* The rows a quiet step writes.
LEMMA QuietRows ==
  ASSUME NEW row \in Rows
  PROVE  /\ ExpiredRow(row).createdAt = row.createdAt /\ ExpiredRow(row).status = "aborted"
         /\ FailedPauseRow(row).createdAt = row.createdAt /\ FailedPauseRow(row).status = "error"
         /\ AbortedRow(row).createdAt = row.createdAt /\ AbortedRow(row).status = "aborted"
         /\ SettledRow(row).createdAt = row.createdAt /\ SettledRow(row).status = row.status
         /\ \A a : ReleasedRow(row, a).createdAt = row.createdAt /\ ReleasedRow(row, a).status = row.status
         /\ \A s, b : ClaimedRow(row, s, b).createdAt = row.createdAt /\ ClaimedRow(row, s, b).status = s
  BY DEF Rows, ReleasedRow, ExpiredRow, FailedPauseRow, AbortedRow, ClaimedRow, SettledRow, WithoutAction

\* A caller that moves to another label, keeping its generation, or returns.
Moves(p, l) ==
  /\ caller'[p].pc = l /\ caller'[p].epoch = caller[p].epoch
  /\ \A q \in Callers : q # p => caller'[q] = caller[q]

Returns(p) ==
  /\ caller'[p] = Idle
  /\ \A q \in Callers : q # p => caller'[q] = caller[q]

\* A caller that leaves its label, or returns, keeps the step quiet.
LEMMA QuietMoves ==
  ASSUME TypeInv, DriverInv, NEW p \in Callers, NEW l \in Labels,
         Returns(p) \/ (caller[p].pc # "idle" /\ Moves(p, l) /\ (l \in Driving => caller[p].pc \in Driving))
  PROVE  \A q \in Callers : QuietCaller(q)
  BY DEF DriverInv, QuietCaller, Moves, Returns, Idle, Driving

\* Every step of a caller is quiet, except creating, pausing and resuming.
LEMMA QuietCallerStep ==
  ASSUME TypeInv, DriverInv, NEW p \in Callers,
         \/ PauseRead(p) \/ OwnsPausePersistence(p) \/ SaveResponse(p)
         \/ FinishPausePersistence(p) \/ FailPauseRead(p) \/ FailPauseCas(p)
         \/ BeginClaim(p) \/ BeginResolve(p) \/ BeginExpire(p) \/ BeginAbort(p) \/ BeginSweep(p)
         \/ WaitObservesStale(p) \/ StaleCas(p) \/ Recheck(p)
         \/ ResolveDecides(p) \/ ExpireDecides(p) \/ ExpireCas(p)
         \/ ClaimDecides(p) \/ TerminalCas(p) \/ SettleTerminal(p) \/ FinishTerminal(p)
         \/ Crash(p)
  PROVE  Quiet
<1>1. /\ caller \in [Callers -> CallerStates] /\ job \in Rows
      /\ caller[p].action \in Nat /\ job.createdAt \in Nat
  BY DEF TypeInv, TypeOK, CallerStates, Rows
<1>2. epochs' = epochs
  BY DEF PauseRead, OwnsPausePersistence, SaveResponse, FinishPausePersistence, FailPauseRead,
         FailPauseCas, BeginClaim, BeginResolve, BeginExpire, BeginAbort, BeginSweep,
         WaitObservesStale, StaleCas, Recheck, ResolveDecides, ExpireDecides, ExpireCas,
         ClaimDecides, TerminalCas, SettleTerminal, FinishTerminal, Crash
<1>3. CASE \/ PauseRead(p) \/ OwnsPausePersistence(p) \/ SaveResponse(p) \/ FailPauseRead(p)
           \/ WaitObservesStale(p) \/ Recheck(p) \/ ExpireDecides(p) \/ ResolveDecides(p)
           \/ ClaimDecides(p) \/ BeginClaim(p) \/ Crash(p)
  <2>1. job' = job
    BY <1>3 DEF PauseRead, OwnsPausePersistence, SaveResponse, FailPauseRead, WaitObservesStale,
                Recheck, ExpireDecides, ResolveDecides, ClaimDecides, BeginClaim, Crash
  <2>2. \/ Returns(p)
        \/ caller[p].pc = "driving" /\ Moves(p, "pauseCas")
        \/ caller[p].pc # "idle" /\ \E l \in Labels \ Driving : Moves(p, l)
    BY <1>1, <1>3 DEF PauseRead, OwnsPausePersistence, SaveResponse, FailPauseRead, WaitObservesStale,
         Recheck, ExpireDecides, ResolveDecides, ClaimDecides, BeginClaim, Crash, WaitDone, Is, GoTo,
         Return, Returns, Moves, CallerStates, Labels, Driving
  <2> QED
    BY <1>2, <2>1, <2>2, QuietMoves DEF Quiet, QuietRow, Labels, Driving
<1>4. CASE \/ BeginResolve(p) \/ BeginExpire(p) \/ BeginAbort(p) \/ BeginSweep(p)
  <2>1. job' = job /\ job.status # "none"
    BY <1>4 DEF BeginResolve, BeginExpire, BeginAbort, BeginSweep, BarrierHeld, Active
  <2>2. /\ caller'[p].epoch = job.createdAt /\ caller'[p].pc \notin Driving
        /\ \A q \in Callers : q # p => caller'[q] = caller[q]
    BY <1>1, <1>4 DEF BeginResolve, BeginExpire, BeginAbort, BeginSweep, CallerStates, Driving
  <2> QED
    BY <1>2, <2>1, <2>2 DEF Quiet, QuietRow, QuietCaller, DriverInv
<1>5. CASE \/ FinishPausePersistence(p) \/ FailPauseCas(p) \/ StaleCas(p) \/ ExpireCas(p)
           \/ SettleTerminal(p) \/ FinishTerminal(p)
  <2>1. QuietRow
    BY <1>1, <1>5, QuietRows
    DEF FinishPausePersistence, FailPauseCas, StaleCas, ExpireCas, SettleTerminal, FinishTerminal,
        QuietRow, MayTransition, SameGeneration, Terminal
  <2>2. \/ Returns(p)
        \/ caller[p].pc # "idle" /\ \E l \in Labels \ Driving : Moves(p, l)
    BY <1>1, <1>5 DEF FinishPausePersistence, FailPauseCas, StaleCas, ExpireCas, SettleTerminal,
         FinishTerminal, Is, GoTo, Return, Returns, Moves, CallerStates, Labels, Driving
  <2>3. \A q \in Callers : QuietCaller(q)
    BY <2>2, "idle" \in Labels, QuietMoves DEF Labels
  <2> QED
    BY <1>2, <2>1, <2>3 DEF Quiet
<1>6. CASE TerminalCas(p)
  <2>1. caller[p].goal \in {"abort"} \cup Terminal
    BY <1>6 DEF TerminalCas, TypeInv, Is, Terminal
  <2>2. QuietRow
    <3>1. \/ job' = job
          \/ job.status # "none" /\ job' = AbortedRow(job)
          \/ /\ job.status # "none" /\ caller[p].goal \in Terminal
             /\ job' = ClaimedRow(job, caller[p].goal, caller[p].goal = "complete")
      BY <1>6, <2>1 DEF TerminalCas, MayTransition, TypeInv, Is, Active
    <3> QED
      BY <1>1, <3>1, QuietRows DEF QuietRow, Terminal
  <2>3. \/ Returns(p)
        \/ caller[p].pc # "idle" /\ \E l \in Labels \ Driving : Moves(p, l)
    BY <1>1, <1>6 DEF TerminalCas, Is, GoTo, Return, Returns, Moves, CallerStates, Labels, Driving
  <2>4. \A q \in Callers : QuietCaller(q)
    BY <2>3, "idle" \in Labels, QuietMoves DEF Labels
  <2> QED
    BY <1>2, <2>2, <2>4 DEF Quiet
<1> QED
  BY <1>3, <1>4, <1>5, <1>6

LEMMA QuietCleanup == TypeInv /\ DriverInv /\ (Cleanup \/ Clock \/ UNCHANGED vars) => Quiet
<1> SUFFICES ASSUME TypeInv, DriverInv, Cleanup \/ Clock \/ UNCHANGED vars PROVE Quiet
  OBVIOUS
<1>1. caller' = caller /\ epochs' = epochs
  BY DEF Cleanup, CleanupBarrier, CleanupStaleApproval, CleanupMarks, CleanupDeletes,
         RecoverTerminal, Clock, BarrierLeaseEnds, ReviewDeadlinePasses, vars
<1>2. \A q \in Callers : QuietCaller(q)
  BY <1>1 DEF QuietCaller, DriverInv
<1>3. job \in Rows
  BY DEF TypeInv, TypeOK
<1>4. QuietRow
  BY <1>3, QuietRows
  DEF Cleanup, CleanupBarrier, CleanupStaleApproval, CleanupMarks, CleanupDeletes, BarrierHeld,
      RecoverTerminal, Clock, BarrierLeaseEnds, ReviewDeadlinePasses, vars, QuietRow, Terminal
<1> QED
  BY <1>1, <1>2, <1>4 DEF Quiet

\* The three steps that are not quiet.  A new generation has an epoch nobody
\* holds; a pause takes the only driver of its generation off the road; and a
\* resume finds a paused row, which nobody drives.
LEMMA DriverCreates ==
  ASSUME TypeInv, DriverInv, NEW p \in Callers, CreateJob(p)
  PROVE  DriverInv'
<1>1. /\ epochs \in Nat /\ job' = NewRow(epochs + 1) /\ epochs' = epochs + 1
      /\ caller' = [caller EXCEPT ![p] = [Idle EXCEPT !.pc = "driving", !.epoch = epochs + 1]]
      /\ caller \in [Callers -> CallerStates]
  BY DEF CreateJob, Drive, TypeInv, TypeOK
<1>2. job'.createdAt = epochs + 1 /\ job'.status = "running"
  BY <1>1 DEF NewRow, NoRow
<1>3. caller'[p].epoch = epochs + 1 /\ \A q \in Callers : q # p => caller'[q] = caller[q]
  BY <1>1 DEF Idle
<1>4. \A q \in Callers : caller[q].epoch \in Nat /\ caller[q].epoch <= epochs
  BY <1>1 DEF DriverInv, CallerStates
<1> QED
  BY <1>1, <1>2, <1>3, <1>4 DEF DriverInv, SingleDriver

LEMMA DriverPauses ==
  ASSUME TypeInv, TypeInv', DriverInv, NEW p \in Callers, PauseCas(p)
  PROVE  DriverInv'
<1>0. caller \in [Callers -> CallerStates] /\ job \in Rows /\ epochs' = epochs
  BY DEF TypeInv, TypeOK, PauseCas
<1>1. caller'[p].epoch = caller[p].epoch /\ \A q \in Callers : q # p => caller'[q] = caller[q]
  BY <1>0 DEF PauseCas, GoTo, CallerStates
<1>2. caller[p].pc = "pauseCas" /\ caller[p].epoch # 0
  BY DEF PauseCas, Is, DriverInv
<1>3. CASE MayTransition(job, "running", NoFence, caller[p].epoch)
  <2>1. job.createdAt = caller[p].epoch
    BY <1>2, <1>3 DEF MayTransition
  <2>2. job'.createdAt = job.createdAt /\ caller'[p].pc = "owns"
    <3>1. /\ job' = PausedRow(job, pauses + 1)
          /\ caller' = [caller EXCEPT ![p].pc = "owns", ![p].action = pauses + 1]
      BY <1>3 DEF PauseCas
    <3>2. job'.createdAt = job.createdAt
      BY <1>0, <3>1 DEF PausedRow, Rows
    <3> QED
      BY <1>0, <3>1, <3>2 DEF CallerStates
  <2> QED
    BY <1>0, <1>1, <1>2, <2>1, <2>2 DEF DriverInv, SingleDriver, Driving
<1>4. CASE ~MayTransition(job, "running", NoFence, caller[p].epoch)
  <2>1. job' = job /\ caller'[p].pc = "driving"
    BY <1>0, <1>4 DEF PauseCas, GoTo, CallerStates
  <2> QED
    BY <1>0, <1>1, <1>2, <2>1 DEF DriverInv, SingleDriver, Driving
<1> QED
  BY <1>3, <1>4

LEMMA DriverResumes ==
  ASSUME TypeInv, TypeInv', DriverInv, NEW p \in Callers, ResolveCas(p)
  PROVE  DriverInv'
<1>0. caller \in [Callers -> CallerStates] /\ job \in Rows /\ epochs' = epochs
  BY DEF TypeInv, TypeOK, ResolveCas
<1>1. \A q \in Callers : q # p => caller'[q] = caller[q]
  BY <1>0 DEF ResolveCas, Drive, Return
<1>2. CASE MayTransition(job, "requires_action", DecisionFence(caller[p].action), caller[p].epoch)
  <2>1. job.status = "requires_action"
    BY <1>2 DEF MayTransition
  <2>2. job'.createdAt = job.createdAt /\ job'.status = "running"
    BY <1>0, <1>2 DEF ResolveCas, ResumedRow, WithoutAction, Rows
  <2>3. caller'[p].epoch = job.createdAt
    BY <1>0, <1>2 DEF ResolveCas, Drive, Idle
  <2> QED
    BY <1>0, <1>1, <2>1, <2>2, <2>3 DEF DriverInv, SingleDriver
<1>3. CASE ~MayTransition(job, "requires_action", DecisionFence(caller[p].action), caller[p].epoch)
  <2>1. job' = job /\ caller'[p] = Idle
    BY <1>0, <1>3 DEF ResolveCas, Return
  <2>2. epochs \in Nat
    BY DEF TypeInv, TypeOK
  <2> QED
    BY <1>0, <1>1, <2>1, <2>2 DEF DriverInv, SingleDriver, Driving, Idle
<1> QED
  BY <1>2, <1>3

LEMMA DriverInit == Init => DriverInv
<1> SUFFICES ASSUME Init PROVE DriverInv
  OBVIOUS
<1>1. job.createdAt = 0 /\ job.status = "none" /\ epochs = 0
  BY DEF Init, NoRow
<1>2. \A p \in Callers : caller[p].epoch = 0 /\ caller[p].pc = "idle"
  BY DEF Init, Idle
<1> QED
  BY <1>1, <1>2 DEF DriverInv, SingleDriver, Driving

LEMMA DriverStep == TypeInv /\ TypeInv' /\ DriverInv /\ [Next]_vars => DriverInv'
<1> SUFFICES ASSUME TypeInv, TypeInv', DriverInv, [Next]_vars PROVE DriverInv'
  OBVIOUS
<1>1. ASSUME NEW p \in Callers, CallerStep(p) \/ Crash(p) PROVE DriverInv'
  <2>1. CASE CreateJob(p)
    BY <2>1, DriverCreates
  <2>2. CASE PauseCas(p)
    BY <2>2, DriverPauses
  <2>3. CASE ResolveCas(p)
    BY <2>3, DriverResumes
  <2>4. CASE ~(CreateJob(p) \/ PauseCas(p) \/ ResolveCas(p))
    BY <1>1, <2>4, QuietCallerStep, QuietPreserves DEF CallerStep
  <2> QED
    BY <2>1, <2>2, <2>3, <2>4
<1>2. CASE Cleanup \/ Clock \/ UNCHANGED vars
  BY <1>2, QuietCleanup, QuietPreserves
<1> QED
  BY <1>1, <1>2 DEF Next

\* resolve lets exactly one caller re-enter the agent: for any number of
\* racing submits, drivers, aborts, sweeps and crashes, with or without an
\* action id, no generation is ever driven twice.
THEOREM OneDriver == Spec => []SingleDriver
<1>1. DriverInv => SingleDriver
  BY DEF DriverInv
<1> QED
  BY TypeInit, TypeStep, DriverInit, DriverStep, <1>1, PTL DEF Spec

-----------------------------------------------------------------------------
(***************************************************************************)
(* No resume before the write.  The plain action id, the one a decision    *)
(* can match, appears in the row only when the barrier owner has written;  *)
(* the decisions must name their action for this to protect them.          *)
(***************************************************************************)
RowInv ==
  /\ job.status = "requires_action"
       => /\ job.action # 0 /\ job.fence.id = job.action
          /\ job.barrier = job.fence.held
          /\ ~job.fence.held => job.action \in persisted
  /\ job.status = "running" => ~job.barrier

DecisionInv ==
  \A p \in Callers :
    /\ caller[p].pc \in {"release"} => caller[p].action \in persisted
    /\ caller[p].pc \in {"owns", "saving", "release", "failRead", "failCas"} => caller[p].action # 0
    /\ caller[p].goal = "resolve" => caller[p].action # 0
    /\ caller[p].pc = "resolveCas" => caller[p].goal = "resolve"

ResumeInv == RowInv /\ DecisionInv /\ resumed \subseteq persisted

LEMMA ResumeInit == Init => ResumeInv
<1> SUFFICES ASSUME Init PROVE ResumeInv
  OBVIOUS
<1>1. RowInv
  BY DEF Init, RowInv, NoRow
<1>2. DecisionInv
  BY DEF Init, DecisionInv, Idle
<1> QED
  BY <1>1, <1>2 DEF Init, ResumeInv

\* The rows the transitions write, as far as the pause barrier goes.
LEMMA BarrierRows ==
  ASSUME NEW row \in Rows
  PROVE  /\ ExpiredRow(row).status \in Terminal
         /\ FailedPauseRow(row).status \in Terminal
         /\ AbortedRow(row).status \in Terminal
         /\ ResumedRow(row).status = "running" /\ ResumedRow(row).barrier = row.barrier
         /\ SettledRow(row).status = row.status
         /\ \A s, b : ClaimedRow(row, s, b).status = s
         /\ \A a : LET r == ReleasedRow(row, a)
                   IN  /\ r.status = row.status /\ r.action = row.action
                       /\ r.fence.id = a /\ ~r.fence.held /\ ~r.barrier
         /\ \A a : LET r == PausedRow(row, a)
                   IN  /\ r.status = "requires_action" /\ r.action = a
                       /\ r.fence.id = a /\ r.fence.held /\ r.barrier
  BY DEF Rows, ExpiredRow, FailedPauseRow, AbortedRow, ResumedRow, SettledRow, ClaimedRow,
         ReleasedRow, PausedRow, WithoutAction, PlainFence, HeldFence, Terminal

\* A row that reaches a terminal status, or goes, satisfies RowInv.
LEMMA RowEnds ==
  ASSUME job' = NoRow \/ job'.status \in Terminal \/ (job' = job /\ persisted \subseteq persisted' /\ RowInv)
  PROVE  RowInv'
  BY DEF RowInv, NoRow, Terminal

\* A step of a caller that leaves the others alone preserves DecisionInv when
\* the caller itself ends well.
LEMMA DecisionMoves ==
  ASSUME DecisionInv, NEW p \in Callers, persisted \subseteq persisted',
         \A q \in Callers : q # p => caller'[q] = caller[q],
         \/ caller'[p] = Idle
         \/ /\ caller'[p].pc = "release" => caller'[p].action \in persisted'
            /\ caller'[p].pc \in {"owns", "saving", "release", "failRead", "failCas"} => caller'[p].action # 0
            /\ caller'[p].goal = "resolve" => caller'[p].action # 0
            /\ caller'[p].pc = "resolveCas" => caller'[p].goal = "resolve"
  PROVE  DecisionInv'
<1>1. ASSUME NEW q \in Callers, q # p
      PROVE  /\ caller'[q].pc \in {"release"} => caller'[q].action \in persisted'
             /\ caller'[q].pc \in {"owns", "saving", "release", "failRead", "failCas"} => caller'[q].action # 0
             /\ caller'[q].goal = "resolve" => caller'[q].action # 0
             /\ caller'[q].pc = "resolveCas" => caller'[q].goal = "resolve"
  BY <1>1 DEF DecisionInv
<1>2. /\ caller'[p].pc \in {"release"} => caller'[p].action \in persisted'
      /\ caller'[p].pc \in {"owns", "saving", "release", "failRead", "failCas"} => caller'[p].action # 0
      /\ caller'[p].goal = "resolve" => caller'[p].action # 0
      /\ caller'[p].pc = "resolveCas" => caller'[p].goal = "resolve"
  BY DEF Idle
<1> QED
  BY <1>1, <1>2 DEF DecisionInv

-----------------------------------------------------------------------------
(***************************************************************************)
(* Generations move forward, and have one owner of their terminal writes.  *)
(***************************************************************************)
ForwardRow ==
  IF job'.createdAt = job.createdAt
    THEN job.status \in Terminal => job'.status = job.status
    ELSE (job'.status = "none" /\ job'.createdAt = 0) \/ job'.createdAt > epochs

\* The ways a step changes the row.
RowChange ==
  \/ job' = job
  \/ job' = NoRow
  \/ job' = SettledRow(job)
  \/ job' = NewRow(epochs + 1)
  \/ /\ job.status \in Active
     /\ \/ \E a \in Nat : job' \in {PausedRow(job, a), ReleasedRow(job, a)}
        \/ job' \in {ResumedRow(job), ExpiredRow(job), FailedPauseRow(job), AbortedRow(job)}
        \/ \E s \in Terminal, b \in BOOLEAN : job' = ClaimedRow(job, s, b)

\* What a transition keeps of a row, or the row it starts from.
LEMMA ForwardSteps == TypeInv /\ DriverInv /\ [Next]_vars => ForwardRow
<1> SUFFICES ASSUME TypeInv, DriverInv, [Next]_vars PROVE ForwardRow
  OBVIOUS
<1>1. job \in Rows /\ epochs \in Nat /\ job.createdAt \in Nat
  BY DEF TypeInv, TypeOK, Rows
<1>2. /\ NoRow.status = "none" /\ NoRow.createdAt = 0
      /\ NewRow(epochs + 1).createdAt = epochs + 1
      /\ \A a : PausedRow(job, a).createdAt = job.createdAt
      /\ ResumedRow(job).createdAt = job.createdAt
  BY <1>1 DEF NoRow, NewRow, Rows, PausedRow, ResumedRow, WithoutAction
<1>3. RowChange
  <2>1. ASSUME NEW p \in Callers, CallerStep(p), ~TerminalCas(p) PROVE RowChange
    <3>1. caller[p].action \in Nat /\ pauses + 1 \in Nat
      BY DEF TypeInv, TypeOK, CallerStates
    <3> QED
      BY <2>1, <3>1
      DEF RowChange, CallerStep, CreateJob, PauseRead, PauseCas, OwnsPausePersistence, SaveResponse,
          FinishPausePersistence, FailPauseRead, FailPauseCas, BeginClaim, BeginResolve, BeginExpire,
          BeginAbort, BeginSweep, WaitObservesStale, StaleCas, Recheck, ResolveDecides, ResolveCas,
          ExpireDecides, ExpireCas, ClaimDecides, SettleTerminal, FinishTerminal, MayTransition, Active
  <2>2. ASSUME NEW p \in Callers, TerminalCas(p) PROVE RowChange
    <3>1. /\ caller[p].goal \in {"abort"} \cup Terminal
          /\ caller[p].from \in Active
      BY <2>2 DEF TerminalCas, TypeInv, Is, Terminal
    <3>2. (caller[p].goal = "complete") \in BOOLEAN
      OBVIOUS
    <3>3. \/ job' = job
          \/ job.status \in Active /\ job' = AbortedRow(job)
          \/ /\ job.status \in Active /\ caller[p].goal \in Terminal
             /\ job' = ClaimedRow(job, caller[p].goal, caller[p].goal = "complete")
      BY <2>2, <3>1 DEF TerminalCas, MayTransition
    <3> QED
      BY <3>2, <3>3 DEF RowChange
  <2>3. ASSUME NEW p \in Callers, Crash(p) PROVE RowChange
    BY <2>3 DEF Crash, RowChange
  <2>4. CASE Cleanup \/ Clock \/ UNCHANGED vars
    BY <2>4 DEF RowChange, Cleanup, CleanupBarrier, CleanupStaleApproval, CleanupMarks, CleanupDeletes,
         RecoverTerminal, BarrierHeld, Active, Clock, BarrierLeaseEnds, ReviewDeadlinePasses, vars
  <2> QED
    BY <2>1, <2>2, <2>3, <2>4 DEF Next
<1>4. job.status \in Active => job.status \notin Terminal
  BY DEF Active, Terminal
<1>5. job.status \in Terminal => job.createdAt # 0
  BY DEF Terminal, DriverInv
<1>6. /\ SettledRow(job).createdAt = job.createdAt /\ SettledRow(job).status = job.status
      /\ \A a : ReleasedRow(job, a).createdAt = job.createdAt
      /\ \A s, b : ClaimedRow(job, s, b).createdAt = job.createdAt
      /\ ExpiredRow(job).createdAt = job.createdAt /\ FailedPauseRow(job).createdAt = job.createdAt
      /\ AbortedRow(job).createdAt = job.createdAt
  BY <1>1, QuietRows
<1>7. CASE job' = NoRow
  BY <1>2, <1>5, <1>7 DEF ForwardRow
<1>8. CASE job' = job \/ job' = SettledRow(job)
  BY <1>6, <1>8 DEF ForwardRow
<1>9. CASE job' = NewRow(epochs + 1)
  BY <1>1, <1>2, <1>9 DEF ForwardRow, DriverInv
<1>10. CASE job.status \in Active /\ job'.createdAt = job.createdAt
  BY <1>4, <1>10 DEF ForwardRow
<1> QED
  BY <1>2, <1>3, <1>6, <1>7, <1>8, <1>9, <1>10 DEF RowChange

\* A terminal generation keeps the status it ended with, and a row is only
\* ever replaced by a generation younger than all before it.
THEOREM GenerationsForward == Spec => GenerationsMoveForward
<1>1. TypeInv /\ DriverInv /\ [Next]_vars =>
        [IF job'.createdAt = job.createdAt
           THEN job.status \in Terminal => job'.status = job.status
           ELSE job'.status = "none" \/ job'.createdAt > epochs]_vars
  BY ForwardSteps DEF ForwardRow
<1> QED
  BY TypeInit, TypeStep, DriverInit, DriverStep, <1>1, PTL DEF Spec, GenerationsMoveForward

Owning == {"settle", "delete"}

TerminalInv ==
  /\ \A p \in Callers : caller[p].pc \in Owning /\ caller[p].epoch = job.createdAt => job.status \in Terminal
  /\ SingleTerminalOwner

LEMMA TerminalInit == Init => TerminalInv
  BY DEF Init, TerminalInv, SingleTerminalOwner, Owning, Idle

\* Who becomes an owner: only the winner of a terminal compare-and-set.
LEMMA OwnersStay ==
  ASSUME TypeInv, [Next]_vars, NEW p \in Callers, caller'[p].pc \in Owning
  PROVE  \/ caller[p].pc \in Owning /\ caller'[p].epoch = caller[p].epoch
         \/ /\ \A q \in Callers : q # p => caller'[q] = caller[q]
            /\ caller[p].pc = "terminalCas" /\ job.status \in Active /\ caller'[p].epoch = caller[p].epoch
            /\ caller[p].epoch # 0 => job.createdAt = caller[p].epoch
            /\ job'.createdAt = job.createdAt /\ job'.status \in Terminal
<1>1. caller \in [Callers -> CallerStates] /\ job \in Rows
  BY DEF TypeInv, TypeOK
<1>2. CASE TerminalCas(p)
  <2>1. /\ caller[p].goal \in {"abort"} \cup Terminal
        /\ caller[p].from \in Active
    BY <1>2 DEF TerminalCas, TypeInv, Is, Terminal
  <2>2. /\ job.status \in Active
        /\ caller[p].epoch # 0 => job.createdAt = caller[p].epoch
        /\ \/ job' = AbortedRow(job)
           \/ caller[p].goal \in Terminal /\ job' = ClaimedRow(job, caller[p].goal, caller[p].goal = "complete")
    BY <1>1, <1>2, <2>1 DEF TerminalCas, MayTransition, Owning, Return, Idle, CallerStates
  <2>3. caller'[p].epoch = caller[p].epoch
    BY <1>1, <1>2 DEF TerminalCas, GoTo, Return, Idle, CallerStates, Owning
  <2>4. caller[p].pc = "terminalCas" /\ \A q \in Callers : q # p => caller'[q] = caller[q]
    BY <1>1, <1>2 DEF TerminalCas, GoTo, Return, Is
  <2> QED
    BY <1>1, <2>2, <2>3, <2>4, QuietRows DEF Terminal
<1>3. CASE \E q \in Callers : q # p /\ (CallerStep(q) \/ Crash(q))
  <2>1. caller'[p] = caller[p]
    BY <1>1, <1>3
    DEF CallerStep, CreateJob, PauseRead, PauseCas, OwnsPausePersistence, SaveResponse,
        FinishPausePersistence, FailPauseRead, FailPauseCas, BeginClaim, BeginResolve, BeginExpire,
        BeginAbort, BeginSweep, WaitObservesStale, StaleCas, Recheck, ResolveDecides, ResolveCas,
        ExpireDecides, ExpireCas, ClaimDecides, TerminalCas, SettleTerminal, FinishTerminal, Crash,
        GoTo, Return, Drive
  <2> QED
    BY <2>1
<1>6. CASE SettleTerminal(p)
  BY <1>1, <1>6 DEF SettleTerminal, GoTo, Is, Owning, CallerStates
<1>4. CASE CallerStep(p) /\ ~TerminalCas(p) /\ ~SettleTerminal(p)
  <2>1. Idle.pc = "idle" /\ \A e : [Idle EXCEPT !.pc = "driving", !.epoch = e].pc = "driving"
    BY DEF Idle
  <2>2. CASE \/ CreateJob(p) \/ ResolveCas(p) \/ FinishPausePersistence(p) \/ FailPauseCas(p)
             \/ ExpireCas(p) \/ FinishTerminal(p)
    BY <1>1, <2>1, <2>2
    DEF CreateJob, ResolveCas, FinishPausePersistence, FailPauseCas, ExpireCas, FinishTerminal,
        Return, Drive, Owning
  <2>3. CASE \/ PauseRead(p) \/ PauseCas(p) \/ OwnsPausePersistence(p) \/ SaveResponse(p)
             \/ FailPauseRead(p) \/ WaitObservesStale(p) \/ StaleCas(p) \/ Recheck(p)
    BY <1>1, <2>1, <2>3
    DEF PauseRead, PauseCas, OwnsPausePersistence, SaveResponse, FailPauseRead, WaitObservesStale,
        StaleCas, Recheck, Return, GoTo, Owning, CallerStates
  <2>4. CASE BeginClaim(p) \/ BeginResolve(p) \/ BeginExpire(p) \/ BeginAbort(p) \/ BeginSweep(p)
    BY <1>1, <2>1, <2>4
    DEF BeginClaim, BeginResolve, BeginExpire, BeginAbort, BeginSweep, Return, Owning, CallerStates
  <2>5. CASE ResolveDecides(p) \/ ExpireDecides(p) \/ ClaimDecides(p)
    BY <1>1, <2>1, <2>5
    DEF ResolveDecides, ExpireDecides, ClaimDecides, WaitDone, Is, Return, GoTo, Owning, CallerStates
  <2> QED
    BY <1>4, <2>2, <2>3, <2>4, <2>5 DEF CallerStep
<1>5. CASE Crash(p) \/ Cleanup \/ Clock \/ UNCHANGED vars
  BY <1>1, <1>5
  DEF Crash, Return, Idle, Owning, Cleanup, CleanupBarrier, CleanupStaleApproval, CleanupMarks,
      CleanupDeletes, RecoverTerminal, Clock, BarrierLeaseEnds, ReviewDeadlinePasses, vars
<1> QED
  BY <1>2, <1>3, <1>4, <1>5, <1>6 DEF Next

LEMMA TerminalStep == TypeInv /\ TypeInv' /\ DriverInv /\ DriverInv' /\ TerminalInv /\ [Next]_vars => TerminalInv'
<1> SUFFICES ASSUME TypeInv, TypeInv', DriverInv, DriverInv', TerminalInv, [Next]_vars PROVE TerminalInv'
  OBVIOUS
<1>1. ForwardRow
  BY ForwardSteps
<1>2. /\ epochs \in Nat /\ job.createdAt \in Nat /\ job'.createdAt \in Nat
      /\ \A p \in Callers : caller[p].epoch \in Nat /\ caller[p].epoch <= epochs
      /\ \A p \in Callers : caller[p].pc \in Owning => caller[p].epoch # 0
  BY DEF TypeInv, TypeOK, Rows, CallerStates, DriverInv, Owning
<1>3. job'.status # "none" => job'.createdAt # 0
  BY DEF DriverInv
<1>4. ASSUME NEW p \in Callers, caller'[p].pc \in Owning, caller'[p].epoch = job'.createdAt
      PROVE  job'.status \in Terminal
  <2>1. CASE caller[p].pc \in Owning /\ caller'[p].epoch = caller[p].epoch
    <3>1. job'.createdAt <= epochs /\ job'.createdAt # 0
      BY <1>2, <1>4, <2>1
    <3>2. CASE job'.createdAt = job.createdAt
      BY <1>1, <1>4, <2>1, <3>2 DEF TerminalInv, ForwardRow
    <3>3. CASE job'.createdAt # job.createdAt
      BY <1>1, <1>2, <3>1, <3>3 DEF ForwardRow
    <3> QED
      BY <3>2, <3>3
  <2> QED
    BY <1>4, <2>1, OwnersStay
<1>5. ASSUME NEW p \in Callers, NEW q \in Callers, p # q, caller'[p].pc \in Owning, caller'[q].pc \in Owning
      PROVE  caller'[p].epoch # caller'[q].epoch
  BY <1>2, <1>5, OwnersStay DEF TerminalInv, SingleTerminalOwner, Owning, Active, Terminal
<1> QED
  BY <1>4, <1>5 DEF TerminalInv, SingleTerminalOwner, Owning

\* Of all the completions, failures and aborts racing for a generation, one
\* wins: its final event has a single publisher and its row a single deleter.
THEOREM OneTerminalOwner == Spec => []SingleTerminalOwner
<1>1. TerminalInv => SingleTerminalOwner
  BY DEF TerminalInv
<1> QED
  BY TypeInit, TypeStep, DriverInit, DriverStep, TerminalInit, TerminalStep, <1>1, PTL DEF Spec

\* The decision fence of a named action demands the plain, exposed id.
LEMMA Fencing ==
  ASSUME NEW row \in Rows, NEW a \in Nat, a # 0, NEW e \in Nat
  PROVE  /\ MayTransition(row, "requires_action", DecisionFence(a), e)
              => row.status = "requires_action" /\ row.fence.id = a /\ ~row.fence.held
         /\ MayTransition(row, "requires_action", HeldFence(a), e)
              => row.status = "requires_action" /\ row.fence.id = a /\ row.fence.held
  BY DEF MayTransition, DecisionFence, HeldFence, PlainFence, NoFence, Rows, Fences

LEMMA ResumeCallerStep ==
  ASSUME TypeInv, DriverInv, TerminalInv, ResumeInv, FencedDecisions,
         NEW p \in Callers, CallerStep(p) \/ Crash(p)
  PROVE  ResumeInv'
<1>1. /\ caller \in [Callers -> CallerStates] /\ job \in Rows /\ pauses \in Nat /\ epochs \in Nat
      /\ caller[p].action \in Nat /\ caller[p].epoch \in Nat
  BY DEF TypeInv, TypeOK, CallerStates
<1>2. /\ caller[p].pc = "release" => caller[p].action \in persisted
      /\ caller[p].pc \in {"owns", "saving", "release", "failRead", "failCas"} => caller[p].action # 0
      /\ caller[p].goal = "resolve" => caller[p].action # 0
      /\ caller[p].pc = "resolveCas" => caller[p].goal = "resolve"
  BY DEF ResumeInv, DecisionInv
<1>3. \A q \in Callers : q # p => caller'[q] = caller[q]
  BY <1>1 DEF CallerStep, CreateJob, PauseRead, PauseCas, OwnsPausePersistence, SaveResponse,
        FinishPausePersistence, FailPauseRead, FailPauseCas, BeginClaim, BeginResolve, BeginExpire,
        BeginAbort, BeginSweep, WaitObservesStale, StaleCas, Recheck, ResolveDecides, ResolveCas,
        ExpireDecides, ExpireCas, ClaimDecides, TerminalCas, SettleTerminal, FinishTerminal, Crash,
        GoTo, Return, Drive
<1>4. persisted \subseteq persisted'
  BY DEF CallerStep, CreateJob, PauseRead, PauseCas, OwnsPausePersistence, SaveResponse,
        FinishPausePersistence, FailPauseRead, FailPauseCas, BeginClaim, BeginResolve, BeginExpire,
        BeginAbort, BeginSweep, WaitObservesStale, StaleCas, Recheck, ResolveDecides, ResolveCas,
        ExpireDecides, ExpireCas, ClaimDecides, TerminalCas, SettleTerminal, FinishTerminal, Crash
<1>5. /\ Idle.pc = "idle" /\ Idle.goal = "none"
      /\ \A e : [Idle EXCEPT !.pc = "driving", !.epoch = e].pc = "driving"
      /\ \A e : [Idle EXCEPT !.pc = "driving", !.epoch = e].goal = "none"
  BY DEF Idle
<1>6. RowInv /\ DecisionInv /\ resumed \subseteq persisted
  BY DEF ResumeInv
<1> DEFINE Fine == \/ caller'[p] = Idle
                   \/ /\ caller'[p].pc = "release" => caller'[p].action \in persisted'
                      /\ caller'[p].pc \in {"owns", "saving", "release", "failRead", "failCas"}
                           => caller'[p].action # 0
                      /\ caller'[p].goal = "resolve" => caller'[p].action # 0
                      /\ caller'[p].pc = "resolveCas" => caller'[p].goal = "resolve"
<1>7. CASE ResolveCas(p)
  <2>1. CASE MayTransition(job, "requires_action", DecisionFence(caller[p].action), caller[p].epoch)
    <3>1. caller[p].action # 0
      BY <1>2, <1>7 DEF ResolveCas, Is
    <3>2. job.status = "requires_action" /\ ~job.fence.held
      BY <1>1, <2>1, <3>1, Fencing
    <3>3. job.action \in persisted /\ ~job.barrier
      BY <1>1, <1>6, <3>2 DEF RowInv, Rows, Fences
    <3>4. RowInv'
      BY <1>1, <1>7, <2>1, <3>3, BarrierRows DEF ResolveCas, RowInv
    <3>5. Fine
      BY <1>1, <1>5, <1>7, <2>1 DEF ResolveCas, Drive
    <3>6. resumed' \subseteq persisted'
      BY <1>4, <1>6, <1>7, <2>1, <3>3 DEF ResolveCas
    <3> QED
      BY <1>3, <1>4, <1>6, <3>4, <3>5, <3>6, DecisionMoves DEF ResumeInv
  <2>2. CASE ~MayTransition(job, "requires_action", DecisionFence(caller[p].action), caller[p].epoch)
    <3>1. job' = job /\ resumed' = resumed /\ caller'[p] = Idle
      BY <1>1, <1>7, <2>2 DEF ResolveCas, Return
    <3> QED
      BY <1>3, <1>4, <1>6, <3>1, DecisionMoves, RowEnds DEF ResumeInv
  <2> QED
    BY <2>1, <2>2
<1>8. CASE ~ResolveCas(p)
  <2>1. resumed' = resumed
    BY <1>8 DEF CallerStep, CreateJob, PauseRead, PauseCas, OwnsPausePersistence, SaveResponse,
        FinishPausePersistence, FailPauseRead, FailPauseCas, BeginClaim, BeginResolve, BeginExpire,
        BeginAbort, BeginSweep, WaitObservesStale, StaleCas, Recheck, ResolveDecides,
        ExpireDecides, ExpireCas, ClaimDecides, TerminalCas, SettleTerminal, FinishTerminal, Crash
  <2>2. RowInv'
    <3>1. CASE CreateJob(p)
      BY <3>1 DEF CreateJob, RowInv, NewRow, NoRow
    <3>2. CASE PauseCas(p)
      <4>1. job' = job \/ job' = PausedRow(job, pauses + 1)
        BY <3>2 DEF PauseCas
      <4>2. CASE job' = PausedRow(job, pauses + 1)
        <5>1. pauses + 1 # 0
          BY <1>1
        <5>2. /\ job'.status = "requires_action" /\ job'.action = pauses + 1
              /\ job'.fence.id = pauses + 1 /\ job'.fence.held /\ job'.barrier
          BY <1>1, <4>2, BarrierRows
        <5>3. job'.fence.held = TRUE /\ job'.barrier = TRUE
          BY <1>1, <4>2 DEF PausedRow, HeldFence, Rows
        <5> QED
          BY <5>1, <5>2, <5>3 DEF RowInv
      <4>3. CASE job' = job
        BY <1>4, <1>6, <4>3, RowEnds
      <4> QED
        BY <4>1, <4>2, <4>3
    <3>3. CASE FinishPausePersistence(p)
      <4>1. caller[p].action # 0 /\ caller[p].action \in persisted
        BY <1>2, <3>3 DEF FinishPausePersistence, Is
      <4>2. \/ job' = job
            \/ /\ job' = ReleasedRow(job, caller[p].action)
               /\ MayTransition(job, "requires_action", HeldFence(caller[p].action), caller[p].epoch)
        BY <3>3 DEF FinishPausePersistence
      <4>3. CASE /\ job' = ReleasedRow(job, caller[p].action)
                 /\ MayTransition(job, "requires_action", HeldFence(caller[p].action), caller[p].epoch)
        <5>1. job.status = "requires_action" /\ job.fence.id = caller[p].action
          BY <1>1, <4>1, <4>3, Fencing
        <5>2. job.action = caller[p].action /\ job.action # 0
          BY <1>6, <5>1 DEF RowInv
        <5>3. /\ job'.status = "requires_action" /\ job'.action = caller[p].action
              /\ job'.fence.id = caller[p].action
          BY <1>1, <4>3, <5>1, <5>2, BarrierRows
        <5>4. job'.fence.held = FALSE /\ job'.barrier = FALSE
          BY <1>1, <4>3 DEF ReleasedRow, PlainFence, Rows
        <5> QED
          BY <1>4, <4>1, <5>2, <5>3, <5>4 DEF RowInv
      <4> QED
        BY <1>4, <1>6, <4>2, <4>3, RowEnds
    <3>4. CASE FailPauseCas(p) \/ StaleCas(p) \/ ExpireCas(p) \/ FinishTerminal(p)
      <4>1. job' \in {job, NoRow, FailedPauseRow(job), ExpiredRow(job)}
        BY <3>4 DEF FailPauseCas, StaleCas, ExpireCas, FinishTerminal
      <4> QED
        BY <1>1, <1>4, <1>6, <4>1, BarrierRows, RowEnds
    <3>5. CASE TerminalCas(p)
      <4>1. caller[p].goal \in {"abort"} \cup Terminal
        BY <3>5 DEF TerminalCas, TypeInv, Is, Terminal
      <4>2. \/ job' = job \/ job' = AbortedRow(job)
            \/ /\ caller[p].goal \in Terminal
               /\ job' = ClaimedRow(job, caller[p].goal, caller[p].goal = "complete")
        BY <3>5, <4>1 DEF TerminalCas
      <4> QED
        BY <1>1, <1>4, <1>6, <4>2, BarrierRows, RowEnds
    <3>6. CASE SettleTerminal(p)
      <4>1. SameGeneration(p) => job.status \in Terminal
        BY <3>6 DEF SettleTerminal, SameGeneration, TerminalInv, Is, Owning
      <4>2. job' = job \/ (job.status \in Terminal /\ job' = SettledRow(job))
        BY <3>6, <4>1 DEF SettleTerminal
      <4> QED
        BY <1>1, <1>4, <1>6, <4>2, BarrierRows, RowEnds
    <3>7. CASE job' = job
      BY <1>4, <1>6, <3>7, RowEnds
    <3> QED
      BY <1>8, <3>1, <3>2, <3>3, <3>4, <3>5, <3>6, <3>7
      DEF CallerStep, PauseRead, OwnsPausePersistence, SaveResponse, FailPauseRead, BeginClaim,
          BeginResolve, BeginExpire, BeginAbort, BeginSweep, WaitObservesStale, Recheck,
          ResolveDecides, ExpireDecides, ClaimDecides, Crash
  <2>3. Fine
    <3>1. CASE \/ CreateJob(p) \/ FinishPausePersistence(p) \/ FailPauseCas(p) \/ ExpireCas(p)
               \/ FinishTerminal(p) \/ Crash(p)
      BY <1>1, <1>5, <3>1
      DEF CreateJob, FinishPausePersistence, FailPauseCas, ExpireCas, FinishTerminal, Crash, Return, Drive
    <3>2. CASE PauseCas(p)
      <4>1. pauses + 1 # 0
        BY <1>1
      <4> QED
        BY <1>1, <1>2, <3>2, <4>1 DEF PauseCas, GoTo, CallerStates
    <3>3. CASE SaveResponse(p)
      BY <1>1, <1>2, <3>3 DEF SaveResponse, Is, GoTo, CallerStates
    <3>4. CASE PauseRead(p) \/ OwnsPausePersistence(p) \/ FailPauseRead(p)
      BY <1>1, <1>2, <1>5, <3>4
      DEF PauseRead, OwnsPausePersistence, FailPauseRead, Is, GoTo, Return, CallerStates
    <3>5. CASE BeginClaim(p) \/ BeginExpire(p) \/ BeginAbort(p) \/ BeginSweep(p)
      BY <1>1, <1>2, <1>5, <3>5
      DEF BeginClaim, BeginExpire, BeginAbort, BeginSweep, Is, Return, CallerStates
    <3>6. CASE BeginResolve(p)
      <4>1. job.action # 0
        BY <1>6, <3>6 DEF BeginResolve, RowInv
      <4> QED
        BY <1>1, <3>6, <4>1 DEF BeginResolve, CallerStates
    <3>7. CASE WaitObservesStale(p) \/ StaleCas(p) \/ Recheck(p) \/ ExpireDecides(p) \/ SettleTerminal(p)
      BY <1>1, <1>2, <1>5, <3>7
      DEF WaitObservesStale, StaleCas, Recheck, ExpireDecides, SettleTerminal, WaitDone, Is, GoTo,
          Return, CallerStates
    <3>8. CASE ResolveDecides(p) \/ ClaimDecides(p) \/ TerminalCas(p)
      BY <1>1, <1>2, <1>5, <3>8
      DEF ResolveDecides, ClaimDecides, TerminalCas, WaitDone, Is, GoTo, Return, CallerStates
    <3> QED
      BY <1>8, <3>1, <3>2, <3>3, <3>4, <3>5, <3>6, <3>7, <3>8 DEF CallerStep
  <2> QED
    BY <1>3, <1>4, <1>6, <2>1, <2>2, <2>3, DecisionMoves DEF ResumeInv
<1> QED
  BY <1>7, <1>8

LEMMA ResumeStep ==
  ASSUME TypeInv, DriverInv, TerminalInv, ResumeInv, FencedDecisions, [Next]_vars
  PROVE  ResumeInv'
<1>1. CASE \E p \in Callers : CallerStep(p) \/ Crash(p)
  BY <1>1, ResumeCallerStep
<1>2. CASE Cleanup \/ Clock \/ UNCHANGED vars
  <2>1. caller' = caller /\ persisted' = persisted /\ resumed' = resumed
    BY <1>2 DEF Cleanup, CleanupBarrier, CleanupStaleApproval, CleanupMarks, CleanupDeletes,
         RecoverTerminal, Clock, BarrierLeaseEnds, ReviewDeadlinePasses, vars
  <2>2. \/ job' \in {job, NoRow, FailedPauseRow(job), ExpiredRow(job)}
        \/ job.status \in Terminal /\ job' = SettledRow(job)
    BY <1>2 DEF Cleanup, CleanupBarrier, CleanupStaleApproval, CleanupMarks, CleanupDeletes,
         RecoverTerminal, Clock, BarrierLeaseEnds, ReviewDeadlinePasses, vars
  <2>3. RowInv'
    BY <2>1, <2>2, BarrierRows, RowEnds DEF ResumeInv, TypeInv, TypeOK
  <2> QED
    BY <2>1, <2>3 DEF ResumeInv, DecisionInv
<1> QED
  BY <1>1, <1>2 DEF Next

\* When every decision names its action, no action is ever resumed whose
\* unfinished response is not in the database: waiters, sweeps, writers that
\* fail or time out and crashes do not open the barrier early.
THEOREM ResumeAfterWrite ==
  ASSUME FencedDecisions
  PROVE  Spec => []ResumedOnlyIfPersisted
<1>1. ResumeInv => ResumedOnlyIfPersisted
  BY DEF ResumeInv, ResumedOnlyIfPersisted
<1>2. TypeInv /\ DriverInv /\ TerminalInv /\ ResumeInv /\ [Next]_vars => ResumeInv'
  BY ResumeStep
<1> QED
  BY TypeInit, TypeStep, DriverInit, DriverStep, TerminalInit, TerminalStep, ResumeInit, <1>1, <1>2,
     PTL DEF Spec

\* Under the same condition the action id is exposed only after the write.
THEOREM ExposedAfterWrite ==
  ASSUME FencedDecisions
  PROVE  Spec => []ExposedOnlyIfPersisted
<1>1. ResumeInv => ExposedOnlyIfPersisted
  BY DEF ResumeInv, RowInv, ExposedOnlyIfPersisted
<1>2. TypeInv /\ DriverInv /\ TerminalInv /\ ResumeInv /\ [Next]_vars => ResumeInv'
  BY ResumeStep
<1> QED
  BY TypeInit, TypeStep, DriverInit, DriverStep, TerminalInit, TerminalStep, ResumeInit, <1>1, <1>2,
     PTL DEF Spec
-----------------------------------------------------------------------------
(***************************************************************************)
(* The fences of pauses.  Action ids only grow, so a caller that holds the *)
(* fence or the id of an action that ended never meets it again.  Nothing  *)
(* here needs the decisions to name their action.                          *)
(***************************************************************************)
Doubting == {"staleCas", "recheck"}

PausedRowInv ==
  job.status = "requires_action"
    => /\ job.action # 0 /\ job.action <= pauses
       /\ job.fence.id = job.action /\ job.barrier = job.fence.held

\* A fail-closed write is about a held barrier that was really installed, and
\* the one that lost it will not see it again.
DoubtInv ==
  \A p \in Callers :
    /\ caller[p].pc \in Doubting
         => caller[p].fence.held = TRUE /\ caller[p].fence.id <= pauses
    /\ caller[p].pc = "recheck"
         => ~(job.status = "requires_action" /\ job.fence = caller[p].fence /\ job.createdAt = caller[p].epoch)

\* An expiry names an action that, if the row still has it, has lapsed.
LapseInv ==
  \A p \in Callers :
    /\ caller[p].goal \in {"resolve", "expire"} => caller[p].action <= pauses
    /\ caller[p].goal = "expire"
         => /\ caller[p].action # 0
            /\ job.status = "requires_action" /\ job.action = caller[p].action => job.action \in expired
    /\ caller[p].pc = "expireCas" => caller[p].goal = "expire"
    /\ caller[p].pc \in Driving => caller[p].goal = "none"

FenceInv == PausedRowInv /\ DoubtInv /\ LapseInv

LEMMA FenceInit == Init => FenceInv
<1> SUFFICES ASSUME Init PROVE FenceInv
  OBVIOUS
<1>1. job.status = "none"
  BY DEF Init, NoRow
<1>2. \A p \in Callers : caller[p].pc = "idle" /\ caller[p].goal = "none"
  BY DEF Init, Idle
<1> QED
  BY <1>1, <1>2 DEF FenceInv, PausedRowInv, DoubtInv, LapseInv, Doubting

\* The ways a row comes to be, or stays, paused.
PausedFrom ==
  \/ job' = job
  \/ pauses' = pauses + 1 /\ job' = PausedRow(job, pauses + 1)
  \/ \E a \in Nat : /\ job.status = "requires_action" /\ job.fence = HeldFence(a)
                    /\ job' = ReleasedRow(job, a)

LEMMA PauseChanges ==
  ASSUME TypeInv, TerminalInv, [Next]_vars, job'.status = "requires_action"
  PROVE  PausedFrom
<1>1. job \in Rows /\ caller \in [Callers -> CallerStates]
  BY DEF TypeInv, TypeOK
<1>2. "requires_action" \notin {"none", "running"} \cup Terminal
  BY DEF Terminal
<1>3. NoRow.status = "none" /\ NewRow(epochs + 1).status = "running"
  BY DEF NoRow, NewRow
<1>4. /\ ExpiredRow(job).status \in Terminal /\ FailedPauseRow(job).status \in Terminal
      /\ AbortedRow(job).status \in Terminal /\ ResumedRow(job).status = "running"
      /\ SettledRow(job).status = job.status
      /\ \A s, b : ClaimedRow(job, s, b).status = s
  BY <1>1, BarrierRows
<1>5. ASSUME NEW p \in Callers, CallerStep(p) PROVE PausedFrom
  <2>0. caller[p].action \in Nat
    BY <1>1 DEF CallerStates
  <2>1. CASE PauseCas(p)
    BY <2>1 DEF PauseCas, PausedFrom
  <2>2. CASE FinishPausePersistence(p)
    <3>1. HeldFence(caller[p].action) # NoFence
      BY DEF HeldFence, NoFence
    <3> QED
      BY <2>0, <2>2, <3>1 DEF FinishPausePersistence, MayTransition, PausedFrom
  <2>3. CASE SettleTerminal(p)
    <3>1. SameGeneration(p) => job.status \in Terminal
      BY <2>3 DEF SettleTerminal, SameGeneration, TerminalInv, Is, Owning
    <3> QED
      BY <1>2, <1>4, <2>3, <3>1 DEF SettleTerminal, PausedFrom
  <2>4. CASE TerminalCas(p)
    <3>1. caller[p].goal \in {"abort"} \cup Terminal
      BY <2>4 DEF TerminalCas, TypeInv, Is, Terminal
    <3>2. \/ job' = job \/ job' = AbortedRow(job)
          \/ /\ caller[p].goal \in Terminal
             /\ job' = ClaimedRow(job, caller[p].goal, caller[p].goal = "complete")
      BY <2>4, <3>1 DEF TerminalCas
    <3> QED
      BY <1>2, <1>4, <3>2 DEF PausedFrom
  <2>5. CASE CreateJob(p) \/ FailPauseCas(p) \/ StaleCas(p) \/ ResolveCas(p) \/ ExpireCas(p) \/ FinishTerminal(p)
    <3>1. job' \in {job, NoRow, NewRow(epochs + 1), FailedPauseRow(job), ResumedRow(job), ExpiredRow(job)}
      BY <2>5 DEF CreateJob, FailPauseCas, StaleCas, ResolveCas, ExpireCas, FinishTerminal
    <3> QED
      BY <1>2, <1>3, <1>4, <3>1 DEF PausedFrom
  <2>6. CASE job' = job
    BY <2>6 DEF PausedFrom
  <2> QED
    BY <1>5, <2>1, <2>2, <2>3, <2>4, <2>5, <2>6
    DEF CallerStep, PauseRead, OwnsPausePersistence, SaveResponse, FailPauseRead, BeginClaim,
        BeginResolve, BeginExpire, BeginAbort, BeginSweep, WaitObservesStale, Recheck,
        ResolveDecides, ExpireDecides, ClaimDecides
<1>6. CASE Cleanup \/ Clock \/ UNCHANGED vars \/ \E p \in Callers : Crash(p)
  <2>1. \/ job' \in {job, NoRow, FailedPauseRow(job), ExpiredRow(job)}
        \/ job.status \in Terminal /\ job' = SettledRow(job)
    BY <1>6 DEF Cleanup, CleanupBarrier, CleanupStaleApproval, CleanupMarks, CleanupDeletes,
         RecoverTerminal, Clock, BarrierLeaseEnds, ReviewDeadlinePasses, Crash, vars
  <2> QED
    BY <1>2, <1>3, <1>4, <2>1 DEF PausedFrom
<1> QED
  BY <1>5, <1>6 DEF Next

\* Action ids are given out in order, and a lapsed action stays lapsed.
LEMMA ActionsGrow ==
  ASSUME TypeInv, [Next]_vars
  PROVE  /\ pauses \in Nat /\ pauses' \in {pauses, pauses + 1}
         /\ expired \subseteq expired'
<1>1. pauses \in Nat
  BY DEF TypeInv, TypeOK
<1>2. CASE \E p \in Callers : CallerStep(p) \/ Crash(p)
  <2>1. pauses' \in {pauses, pauses + 1} /\ expired' = expired
    BY <1>2 DEF CallerStep, CreateJob, PauseRead, PauseCas, OwnsPausePersistence, SaveResponse,
        FinishPausePersistence, FailPauseRead, FailPauseCas, BeginClaim, BeginResolve, BeginExpire,
        BeginAbort, BeginSweep, WaitObservesStale, StaleCas, Recheck, ResolveDecides, ResolveCas,
        ExpireDecides, ExpireCas, ClaimDecides, TerminalCas, SettleTerminal, FinishTerminal, Crash
  <2> QED
    BY <1>1, <2>1
<1>3. CASE Cleanup \/ Clock \/ UNCHANGED vars
  BY <1>1, <1>3 DEF Cleanup, CleanupBarrier, CleanupStaleApproval, CleanupMarks, CleanupDeletes,
         RecoverTerminal, Clock, BarrierLeaseEnds, ReviewDeadlinePasses, vars
<1> QED
  BY <1>1, <1>2, <1>3 DEF Next

\* A row that is paused after a step has the action it had, or a new one; and
\* only a new pause, or none, brings a held fence.
LEMMA PausedRows ==
  ASSUME TypeInv, TerminalInv, FenceInv, [Next]_vars, job'.status = "requires_action"
  PROVE  /\ PausedRowInv'
         /\ \/ job.status = "requires_action" /\ job'.action = job.action
            \/ job'.action = pauses + 1
         /\ job'.fence.held = TRUE => job' = job \/ job'.fence.id = pauses + 1
<1>1. job \in Rows /\ pauses \in Nat /\ pauses' \in {pauses, pauses + 1} /\ job.action \in Nat
  BY ActionsGrow DEF TypeInv, TypeOK, Rows
<1>2. PausedFrom
  BY PauseChanges
<1>3. CASE job' = job
  BY <1>1, <1>3 DEF FenceInv, PausedRowInv
<1>4. CASE pauses' = pauses + 1 /\ job' = PausedRow(job, pauses + 1)
  <2>1. /\ job'.action = pauses + 1 /\ job'.fence.id = pauses + 1
        /\ job'.fence.held = TRUE /\ job'.barrier = TRUE
    BY <1>1, <1>4 DEF PausedRow, HeldFence, Rows
  <2>2. job'.action # 0 /\ job'.action <= pauses'
    BY <1>1, <1>4, <2>1
  <2>3. PausedRowInv'
    BY <2>1, <2>2 DEF PausedRowInv
  <2> QED
    BY <2>1, <2>3
<1>5. ASSUME NEW a \in Nat, job.status = "requires_action", job.fence = HeldFence(a),
             job' = ReleasedRow(job, a)
      PROVE  /\ PausedRowInv' /\ job'.action = job.action
             /\ job'.fence.held = FALSE
  <2>1. /\ job'.action = job.action /\ job'.fence.id = a
        /\ job'.fence.held = FALSE /\ job'.barrier = FALSE
    BY <1>1, <1>5 DEF ReleasedRow, PlainFence, Rows
  <2>2. job.action = a /\ a # 0 /\ a <= pauses
    BY <1>5 DEF FenceInv, PausedRowInv, HeldFence
  <2>3. job'.action # 0 /\ job'.action <= pauses' /\ job'.fence.id = job'.action
    BY <1>1, <2>1, <2>2
  <2>4. PausedRowInv'
    BY <2>1, <2>3 DEF PausedRowInv
  <2> QED
    BY <2>1, <2>4
<1> QED
  BY <1>2, <1>3, <1>4, <1>5 DEF PausedFrom

\* What a step may do to the fence, the action and the goal of a caller.
Heeds(p) ==
  /\ caller'[p].pc \in Doubting =>
       \/ /\ caller[p].pc \in Doubting
          /\ caller'[p].fence = caller[p].fence /\ caller'[p].epoch = caller[p].epoch
       \/ /\ caller'[p].pc = "staleCas" /\ caller'[p].fence = job.fence
          /\ job.status = "requires_action" /\ job.barrier = TRUE
  /\ caller'[p].pc = "recheck" =>
       \/ caller[p].pc = "recheck"
       \/ job' = job /\ ~(/\ job.status = "requires_action" /\ job.fence = caller[p].fence
                          /\ job.createdAt = caller[p].epoch)
  /\ caller'[p].goal \in {"resolve", "expire"} =>
       \/ caller'[p].goal = caller[p].goal /\ caller'[p].action = caller[p].action
       \/ /\ job.status = "requires_action" /\ job' = job
          /\ \/ caller'[p].action = job.action
             \/ caller'[p].action = 0 /\ caller'[p].goal = "resolve"
             \/ /\ caller[p].goal = "resolve" /\ caller[p].action # 0
                /\ caller'[p].action = caller[p].action
          /\ caller'[p].goal = "expire" => job.action \in expired
  /\ caller'[p].pc = "expireCas" => caller'[p].goal = "expire"
  /\ caller'[p].pc \in Driving => caller'[p].goal = "none"

LEMMA HeedsKept ==
  ASSUME NEW p \in Callers, LapseInv, caller'[p] = caller[p]
  PROVE  Heeds(p)
  BY DEF LapseInv, Heeds

LEMMA HeedsQuiet ==
  ASSUME NEW p \in Callers,
         caller'[p].pc \notin Doubting \cup {"expireCas"},
         \/ caller'[p].goal \notin {"resolve", "expire"}
         \/ caller'[p].goal = caller[p].goal /\ caller'[p].action = caller[p].action,
         caller'[p].pc \in Driving => caller'[p].goal = "none"
  PROVE  Heeds(p)
  BY DEF Heeds, Doubting

LEMMA CallerHeeds ==
  ASSUME TypeInv, DriverInv, FenceInv, [Next]_vars, NEW p \in Callers
  PROVE  Heeds(p)
<1>1. caller \in [Callers -> CallerStates] /\ job \in Rows
  BY DEF TypeInv, TypeOK
<1>2. LapseInv
  BY DEF FenceInv
<1>3. CASE \E q \in Callers : q # p /\ (CallerStep(q) \/ Crash(q))
  <2>1. caller'[p] = caller[p]
    BY <1>1, <1>3
    DEF CallerStep, CreateJob, PauseRead, PauseCas, OwnsPausePersistence, SaveResponse,
        FinishPausePersistence, FailPauseRead, FailPauseCas, BeginClaim, BeginResolve, BeginExpire,
        BeginAbort, BeginSweep, WaitObservesStale, StaleCas, Recheck, ResolveDecides, ResolveCas,
        ExpireDecides, ExpireCas, ClaimDecides, TerminalCas, SettleTerminal, FinishTerminal, Crash,
        GoTo, Return, Drive
  <2> QED
    BY <1>2, <2>1, HeedsKept
<1>4. CASE Cleanup \/ Clock \/ UNCHANGED vars
  <2>1. caller' = caller
    BY <1>4 DEF Cleanup, CleanupBarrier, CleanupStaleApproval, CleanupMarks, CleanupDeletes,
         RecoverTerminal, Clock, BarrierLeaseEnds, ReviewDeadlinePasses, vars
  <2> QED
    BY <1>2, <2>1, HeedsKept
<1>5. CASE CallerStep(p) \/ Crash(p)
  <2>00. "idle" \notin Driving
    BY DEF Driving
  <2>0. /\ Idle.pc = "idle" /\ Idle.goal = "none"
        /\ \A e : [Idle EXCEPT !.pc = "driving", !.epoch = e].pc = "driving"
        /\ \A e : [Idle EXCEPT !.pc = "driving", !.epoch = e].goal = "none"
    BY DEF Idle
  <2>1. CASE \/ CreateJob(p) \/ FinishPausePersistence(p) \/ FailPauseCas(p) \/ ExpireCas(p)
             \/ FinishTerminal(p) \/ Crash(p) \/ ResolveCas(p)
    <3>1. \/ caller'[p] = Idle
          \/ \E e : caller'[p] = [Idle EXCEPT !.pc = "driving", !.epoch = e]
      BY <1>1, <2>1
      DEF CreateJob, FinishPausePersistence, FailPauseCas, ExpireCas, FinishTerminal, Crash,
          ResolveCas, Return, Drive
    <3> QED
      BY <2>0, <2>00, <3>1, HeedsQuiet DEF Doubting, Driving
  <2>2. CASE PauseRead(p) \/ OwnsPausePersistence(p) \/ SaveResponse(p) \/ FailPauseRead(p) \/ SettleTerminal(p)
    <3>1. \/ caller'[p] = Idle
          \/ \E l \in {"pauseCas", "saving", "release", "failRead", "failCas", "delete"} :
               /\ caller' = [caller EXCEPT ![p].pc = l]
               /\ l = "pauseCas" => caller[p].pc = "driving"
      BY <1>1, <2>2
      DEF PauseRead, OwnsPausePersistence, SaveResponse, FailPauseRead, SettleTerminal, Is, Return, GoTo
    <3>2. ASSUME NEW l \in {"pauseCas", "saving", "release", "failRead", "failCas", "delete"},
                 caller' = [caller EXCEPT ![p].pc = l], l = "pauseCas" => caller[p].pc = "driving"
          PROVE  Heeds(p)
      BY <1>1, <1>2, <3>2, HeedsQuiet DEF LapseInv, CallerStates, Doubting, Driving
    <3>3. CASE caller'[p] = Idle
      BY <2>0, <2>00, <3>3, HeedsQuiet DEF Doubting
    <3> QED
      BY <3>1, <3>2, <3>3
  <2>3. CASE PauseCas(p)
    <3>1. \/ caller' = [caller EXCEPT ![p].pc = "owns", ![p].action = pauses + 1]
          \/ caller' = [caller EXCEPT ![p].pc = "driving"]
      BY <2>3 DEF PauseCas, GoTo
    <3>2. caller[p].goal = "none"
      BY <2>3 DEF PauseCas, Is, FenceInv, LapseInv, Driving
    <3> QED
      BY <1>1, <3>1, <3>2, HeedsQuiet DEF CallerStates, Doubting, Driving
  <2>4. CASE BeginClaim(p)
    <3>1. \/ caller'[p] = Idle
          \/ caller'[p].goal \in {"complete", "error"} /\ caller'[p].pc \in {"wait", "terminalCas"}
      BY <1>1, <2>4 DEF BeginClaim, Return, CallerStates
    <3> QED
      BY <2>0, <2>00, <3>1, HeedsQuiet DEF Doubting, Driving
  <2>5. CASE BeginAbort(p) \/ ClaimDecides(p) \/ TerminalCas(p)
    <3>1. \/ caller'[p] = Idle
          \/ /\ caller'[p].goal \in {"abort", "complete", "error"}
             /\ caller'[p].pc \in {"wait", "terminalCas", "settle"}
      BY <1>1, <2>5
      DEF BeginAbort, ClaimDecides, TerminalCas, TypeInv, Is, WaitDone, Return, GoTo, CallerStates
    <3> QED
      BY <2>0, <2>00, <3>1, HeedsQuiet DEF Doubting, Driving
  <2>6. CASE BeginResolve(p)
    <3>1. /\ caller'[p].pc = "wait" /\ caller'[p].goal = "resolve" /\ caller'[p].action \in {0, job.action}
          /\ job.status = "requires_action" /\ job' = job
      BY <1>1, <2>6 DEF BeginResolve, CallerStates
    <3> QED
      BY <3>1 DEF Heeds, Doubting, Driving
  <2>7. CASE BeginExpire(p)
    <3>1. /\ caller'[p].pc = "wait" /\ caller'[p].goal = "expire" /\ caller'[p].action = job.action
          /\ job.status = "requires_action" /\ job' = job /\ job.action \in expired
      BY <1>1, <2>7 DEF BeginExpire, CallerStates
    <3> QED
      BY <3>1 DEF Heeds, Doubting, Driving
  <2>8. CASE BeginSweep(p)
    <3>1. /\ caller'[p].pc = "staleCas" /\ caller'[p].goal = "sweep" /\ caller'[p].fence = job.fence
          /\ BarrierHeld
      BY <1>1, <2>8 DEF BeginSweep, CallerStates
    <3>2. job.barrier = TRUE
      BY <1>1, <3>1 DEF BarrierHeld, Rows
    <3> QED
      BY <3>1, <3>2 DEF Heeds, BarrierHeld, Driving
  <2>9. CASE WaitObservesStale(p)
    <3>1. /\ caller'[p].pc = "staleCas" /\ caller'[p].fence = job.fence
          /\ caller'[p].goal = caller[p].goal /\ caller'[p].action = caller[p].action
          /\ BarrierHeld
      BY <1>1, <2>9 DEF WaitObservesStale, CallerStates
    <3>2. job.barrier = TRUE
      BY <1>1, <3>1 DEF BarrierHeld, Rows
    <3> QED
      BY <3>1, <3>2 DEF Heeds, BarrierHeld, Driving
  <2>10. CASE StaleCas(p)
    <3>1. caller[p].pc = "staleCas"
      BY <2>10 DEF StaleCas, Is
    <3>2. \/ caller'[p] = Idle
          \/ caller' = [caller EXCEPT ![p].pc = "wait"]
          \/ /\ caller' = [caller EXCEPT ![p].pc = "recheck"] /\ job' = job
             /\ ~MayTransition(job, "requires_action", caller[p].fence, caller[p].epoch)
      BY <1>1, <2>10 DEF StaleCas, Return, GoTo
    <3>3. CASE caller'[p] = Idle
      BY <2>0, <2>00, <3>3, HeedsQuiet DEF Doubting
    <3>4. CASE caller' = [caller EXCEPT ![p].pc = "wait"]
      BY <1>1, <3>4, HeedsQuiet DEF CallerStates, Doubting, Driving
    <3>5. CASE /\ caller' = [caller EXCEPT ![p].pc = "recheck"] /\ job' = job
               /\ ~MayTransition(job, "requires_action", caller[p].fence, caller[p].epoch)
      <4>1. /\ caller'[p].pc = "recheck" /\ caller'[p].fence = caller[p].fence
            /\ caller'[p].epoch = caller[p].epoch
            /\ caller'[p].goal = caller[p].goal /\ caller'[p].action = caller[p].action
        BY <1>1, <3>5 DEF CallerStates
      <4>2. ~(/\ job.status = "requires_action" /\ job.fence = caller[p].fence
              /\ job.createdAt = caller[p].epoch)
        BY <3>5 DEF MayTransition
      <4> QED
        BY <3>1, <3>5, <4>1, <4>2 DEF Heeds, Doubting, Driving
    <3> QED
      BY <3>2, <3>3, <3>4, <3>5
  <2>11. CASE Recheck(p)
    <3>1. caller'[p] = Idle \/ caller' = [caller EXCEPT ![p].pc = "wait"]
      BY <1>1, <2>11 DEF Recheck, Return, GoTo
    <3>2. CASE caller'[p] = Idle
      BY <2>0, <2>00, <3>2, HeedsQuiet DEF Doubting
    <3>3. CASE caller' = [caller EXCEPT ![p].pc = "wait"]
      BY <1>1, <3>3, HeedsQuiet DEF CallerStates, Doubting, Driving
    <3> QED
      BY <3>1, <3>2, <3>3
  <2>12. CASE ExpireDecides(p)
    <3>1. \/ caller'[p] = Idle
          \/ /\ caller[p].goal = "expire" /\ caller'[p].pc = "expireCas"
             /\ caller'[p].goal = caller[p].goal /\ caller'[p].action = caller[p].action
      BY <1>1, <2>12 DEF ExpireDecides, Return, GoTo, CallerStates
    <3>2. CASE caller'[p] = Idle
      BY <2>0, <2>00, <3>2, HeedsQuiet DEF Doubting
    <3> QED
      BY <3>1, <3>2 DEF Heeds, Doubting, Driving
  <2>13. CASE ResolveDecides(p)
    <3>1. caller[p].pc = "wait" /\ caller[p].goal = "resolve" /\ job' = job
      BY <2>13 DEF ResolveDecides, WaitDone, Is
    <3>2. \/ caller'[p] = Idle
          \/ caller' = [caller EXCEPT ![p].pc = "resolveCas"]
          \/ /\ job.status = "requires_action" /\ job.action \in expired
             /\ caller' = [caller EXCEPT ![p].goal = "expire",
                                          ![p].action = IF @ # 0 THEN @ ELSE job.action]
      BY <1>1, <2>13 DEF ResolveDecides, Return, GoTo
    <3>3. CASE caller'[p] = Idle
      BY <2>0, <2>00, <3>3, HeedsQuiet DEF Doubting
    <3>4. CASE caller' = [caller EXCEPT ![p].pc = "resolveCas"]
      BY <1>1, <3>4, HeedsQuiet DEF CallerStates, Doubting, Driving
    <3>5. CASE /\ job.status = "requires_action" /\ job.action \in expired
               /\ caller' = [caller EXCEPT ![p].goal = "expire",
                                            ![p].action = IF @ # 0 THEN @ ELSE job.action]
      <4>1. /\ caller'[p].pc = "wait" /\ caller'[p].goal = "expire"
            /\ caller'[p].action = IF caller[p].action # 0 THEN caller[p].action ELSE job.action
        BY <1>1, <3>1, <3>5 DEF CallerStates
      <4> QED
        BY <3>1, <3>5, <4>1 DEF Heeds, Doubting, Driving
    <3> QED
      BY <3>2, <3>3, <3>4, <3>5
  <2> QED
    BY <1>5, <2>1, <2>2, <2>3, <2>4, <2>5, <2>6, <2>7, <2>8, <2>9, <2>10, <2>11, <2>12, <2>13 DEF CallerStep
<1> QED
  BY <1>3, <1>4, <1>5 DEF Next

LEMMA FenceStep == TypeInv /\ DriverInv /\ TerminalInv /\ FenceInv /\ [Next]_vars => FenceInv'
<1> SUFFICES ASSUME TypeInv, DriverInv, TerminalInv, FenceInv, [Next]_vars PROVE FenceInv'
  OBVIOUS
<1>1. /\ pauses \in Nat /\ pauses' \in {pauses, pauses + 1} /\ expired \subseteq expired'
      /\ job \in Rows /\ caller \in [Callers -> CallerStates]
  BY ActionsGrow DEF TypeInv, TypeOK
<1>2. PausedRowInv'
  BY PausedRows DEF PausedRowInv
<1>3. ASSUME job'.status = "requires_action"
      PROVE  /\ (job.status = "requires_action" /\ job'.action = job.action) \/ job'.action = pauses + 1
             /\ job'.fence.held = TRUE => job' = job \/ job'.fence.id = pauses + 1
  BY <1>3, PausedRows
<1>4. ASSUME NEW p \in Callers
      PROVE  /\ caller'[p].pc \in Doubting
                  => caller'[p].fence.held = TRUE /\ caller'[p].fence.id <= pauses
             /\ caller'[p].pc = "recheck"
                  => ~(/\ job'.status = "requires_action" /\ job'.fence = caller'[p].fence
                       /\ job'.createdAt = caller'[p].epoch)
  <2>1. Heeds(p)
    BY CallerHeeds
  <2>2. /\ caller[p].pc \in Doubting => caller[p].fence.held = TRUE /\ caller[p].fence.id <= pauses
        /\ caller[p].pc = "recheck"
             => ~(/\ job.status = "requires_action" /\ job.fence = caller[p].fence
                  /\ job.createdAt = caller[p].epoch)
    BY DEF FenceInv, DoubtInv
  <2>3. job.status = "requires_action" /\ job.barrier = TRUE
          => job.fence.held = TRUE /\ job.fence.id <= pauses
    BY DEF FenceInv, PausedRowInv
  <2>4. caller'[p].pc \in Doubting => caller'[p].fence.held = TRUE /\ caller'[p].fence.id <= pauses
    BY <2>1, <2>2, <2>3 DEF Heeds
  <2>5. ASSUME caller'[p].pc = "recheck", job'.status = "requires_action",
               job'.fence = caller'[p].fence, job'.createdAt = caller'[p].epoch
        PROVE  FALSE
    <3>1. caller'[p].fence.held = TRUE /\ caller'[p].fence.id <= pauses
      BY <2>4, <2>5 DEF Doubting
    <3>2. caller'[p].fence \in Fences
      BY <1>1, <2>1, <2>5 DEF Heeds, Rows, CallerStates, Doubting
    <3>3. job' = job
      <4>1. caller'[p].fence.id \in Nat
        BY <3>2 DEF Fences
      <4>2. job'.fence.held = TRUE /\ job'.fence.id # pauses + 1
        BY <1>1, <2>5, <3>1, <4>1
      <4> QED
        BY <1>3, <2>5, <4>2
    <3>4. caller'[p].fence = caller[p].fence /\ caller'[p].epoch = caller[p].epoch
      BY <2>1, <2>5 DEF Heeds, Doubting
    <3> QED
      BY <2>1, <2>2, <2>5, <3>3, <3>4 DEF Heeds
  <2> QED
    BY <2>4, <2>5
<1>5. DoubtInv'
  <2>1. ASSUME NEW p \in Callers, caller'[p].pc \in Doubting
        PROVE  caller'[p].fence.held = TRUE /\ caller'[p].fence.id <= pauses'
    <3>1. caller'[p].fence.held = TRUE /\ caller'[p].fence.id <= pauses
      BY <1>4, <2>1
    <3>2. caller'[p].fence.id \in Nat
      BY <1>1, <2>1, CallerHeeds DEF Heeds, Rows, CallerStates, Fences
    <3>3. caller'[p].fence.id <= pauses'
      BY <1>1, <3>1, <3>2
    <3> QED
      BY <3>1, <3>3
  <2> QED
    BY <1>4, <2>1 DEF DoubtInv
<1>6. ASSUME NEW p \in Callers
      PROVE  /\ caller'[p].goal \in {"resolve", "expire"} => caller'[p].action <= pauses'
             /\ caller'[p].goal = "expire"
                  => /\ caller'[p].action # 0
                     /\ job'.status = "requires_action" /\ job'.action = caller'[p].action
                          => job'.action \in expired'
  <2>1. Heeds(p)
    BY CallerHeeds
  <2>2. /\ caller[p].goal \in {"resolve", "expire"} => caller[p].action <= pauses
        /\ caller[p].goal = "expire"
             => /\ caller[p].action # 0
                /\ job.status = "requires_action" /\ job.action = caller[p].action => job.action \in expired
    BY DEF FenceInv, LapseInv
  <2>3. job.status = "requires_action" => job.action # 0 /\ job.action <= pauses
    BY DEF FenceInv, PausedRowInv
  <2>4. job.action \in Nat /\ caller[p].action \in Nat
    BY <1>1 DEF Rows, CallerStates
  <2>5. caller'[p].goal \in {"resolve", "expire"} => caller'[p].action \in Nat /\ caller'[p].action <= pauses
    BY <1>1, <2>1, <2>2, <2>3, <2>4 DEF Heeds
  <2>6. caller'[p].goal = "expire" => caller'[p].action # 0
    BY <2>1, <2>2, <2>3 DEF Heeds
  <2>7. ASSUME caller'[p].goal = "expire", job'.status = "requires_action", job'.action = caller'[p].action
        PROVE  job'.action \in expired'
    <3>1. job.status = "requires_action" /\ job'.action = job.action
      BY <1>1, <1>3, <2>5, <2>7
    <3> QED
      BY <1>1, <2>1, <2>2, <2>7, <3>1 DEF Heeds
  <2> QED
    BY <1>1, <2>5, <2>6, <2>7
<1>7. LapseInv'
  <2>1. \A p \in Callers : /\ caller'[p].pc = "expireCas" => caller'[p].goal = "expire"
                           /\ caller'[p].pc \in Driving => caller'[p].goal = "none"
    BY CallerHeeds DEF Heeds
  <2> QED
    BY <1>6, <2>1 DEF LapseInv
<1> QED
  BY <1>2, <1>5, <1>7 DEF FenceInv

\* The error a waiter throws when the barrier it failed to close still stands
\* is unreachable, for any number of waiters, writers and sweeps.
THEOREM NeverStuck == Spec => []StaleBarrierNeverStuck
<1>1. FenceInv => StaleBarrierNeverStuck
  BY DEF FenceInv, DoubtInv, StaleBarrierNeverStuck, Is, BarrierHeld, SameGeneration
<1> QED
  BY TypeInit, TypeStep, DriverInit, DriverStep, TerminalInit, TerminalStep, FenceInit, FenceStep, <1>1,
     PTL DEF Spec

\* The step that aborts a paused run without final writes of its own.
LEMMA ExpiryStep ==
  ASSUME TypeInv, TerminalInv, FenceInv, [Next]_vars,
         job.status = "requires_action", job'.status = "aborted", ~job'.barrier
  PROVE  job.action \in expired
<1>1. job \in Rows /\ caller \in [Callers -> CallerStates]
  BY DEF TypeInv, TypeOK
<1>2. CASE \E p \in Callers : ExpireCas(p)
  <2>1. PICK p \in Callers : ExpireCas(p)
    BY <1>2
  <2>2. MayTransition(job, "requires_action", DecisionFence(caller[p].action), caller[p].epoch)
    BY <2>1 DEF ExpireCas
  <2>3. caller[p].goal = "expire" /\ caller[p].action # 0
    BY <2>1 DEF ExpireCas, Is, FenceInv, LapseInv
  <2>4. caller[p].action \in Nat /\ caller[p].epoch \in Nat
    BY <1>1 DEF CallerStates
  <2>5. job.fence.id = caller[p].action
    BY <1>1, <2>2, <2>3, <2>4, Fencing
  <2> QED
    BY <2>3, <2>5 DEF FenceInv, PausedRowInv, LapseInv
<1>3. CASE \E p \in Callers : TerminalCas(p)
  <2>1. PICK p \in Callers : TerminalCas(p)
    BY <1>3
  <2>2. caller[p].goal \in {"abort", "complete", "error"}
    BY <2>1 DEF TerminalCas, TypeInv, Is
  <2>3. \/ job' = job \/ job' = AbortedRow(job)
        \/ /\ caller[p].goal \in {"complete", "error"}
           /\ job' = ClaimedRow(job, caller[p].goal, caller[p].goal = "complete")
    BY <2>1, <2>2 DEF TerminalCas
  <2>4. /\ AbortedRow(job).barrier = TRUE
        /\ \A s, b : ClaimedRow(job, s, b).status = s
    BY <1>1, QuietRows DEF AbortedRow, Rows
  <2> QED
    BY <2>3, <2>4
<1>4. CASE CleanupStaleApproval
  BY <1>4 DEF CleanupStaleApproval
<1>5. CASE \/ \E p \in Callers : (CallerStep(p) \/ Crash(p)) /\ ~ExpireCas(p) /\ ~TerminalCas(p)
           \/ (Cleanup /\ ~CleanupStaleApproval) \/ Clock \/ UNCHANGED vars
  <2> DEFINE Other == \/ job' \in {job, NoRow, NewRow(epochs + 1), FailedPauseRow(job), ResumedRow(job), SettledRow(job)}
                     \/ \E a : job' \in {PausedRow(job, a), ReleasedRow(job, a)}
  <2>1. Other
    <3>1. ASSUME NEW p \in Callers, CallerStep(p) \/ Crash(p), ~ExpireCas(p), ~TerminalCas(p)
          PROVE  Other
      <4>1. CASE PauseCas(p) \/ FinishPausePersistence(p)
        BY <4>1 DEF PauseCas, FinishPausePersistence
      <4> QED
        BY <3>1, <4>1
        DEF CallerStep, CreateJob, PauseRead, OwnsPausePersistence, SaveResponse, FailPauseRead,
            FailPauseCas, BeginClaim, BeginResolve, BeginExpire, BeginAbort, BeginSweep,
            WaitObservesStale, StaleCas, Recheck, ResolveDecides, ResolveCas, ExpireDecides,
            ClaimDecides, SettleTerminal, FinishTerminal, Crash
    <3> QED
      BY <1>5, <3>1
      DEF Cleanup, CleanupBarrier, CleanupStaleApproval, CleanupMarks, CleanupDeletes,
          RecoverTerminal, Clock, BarrierLeaseEnds, ReviewDeadlinePasses, vars
  <2>2. /\ NoRow.status = "none" /\ NewRow(epochs + 1).status = "running"
        /\ FailedPauseRow(job).status = "error" /\ ResumedRow(job).status = "running"
        /\ SettledRow(job).status = job.status
        /\ \A a : PausedRow(job, a).status = "requires_action" /\ ReleasedRow(job, a).status = job.status
    BY <1>1, QuietRows, BarrierRows DEF NoRow, NewRow
  <2> QED
    BY <2>1, <2>2
<1> QED
  BY <1>2, <1>3, <1>4, <1>5 DEF Next, CallerStep

\* Whoever expires a review, and however late, the action it ends is past its
\* deadline: not one of a later pause of the same run.
THEOREM ExpiryIsDue == Spec => ExpiryHitsOnlyLapsed
<1>1. TypeInv /\ TerminalInv /\ FenceInv /\ [Next]_vars =>
        [/\ job.status = "requires_action"
         /\ job'.status = "aborted"
         /\ ~job'.barrier
         => job.action \in expired]_vars
  BY ExpiryStep
<1> QED
  BY TypeInit, TypeStep, DriverInit, DriverStep, TerminalInit, TerminalStep, FenceInit, FenceStep, <1>1,
     PTL DEF Spec, ExpiryHitsOnlyLapsed

\* Every compare-and-set of a handler carries the epoch the handler is about.
LEMMA InertStep ==
  ASSUME TypeInv, DriverInv, [Next]_vars,
         NEW p \in Callers, caller'[p] # caller[p], caller[p].pc # "idle", caller[p].epoch # job.createdAt
  PROVE  job' = job
<1>1. job \in Rows /\ caller \in [Callers -> CallerStates] /\ caller[p].epoch # 0
  BY DEF TypeInv, TypeOK, DriverInv
<1>2. \A s, f : ~MayTransition(job, s, f, caller[p].epoch)
  BY <1>1 DEF MayTransition
<1>3. CASE \E q \in Callers : q # p /\ (CallerStep(q) \/ Crash(q))
  <2>1. caller'[p] = caller[p]
    BY <1>1, <1>3
    DEF CallerStep, CreateJob, PauseRead, PauseCas, OwnsPausePersistence, SaveResponse,
        FinishPausePersistence, FailPauseRead, FailPauseCas, BeginClaim, BeginResolve, BeginExpire,
        BeginAbort, BeginSweep, WaitObservesStale, StaleCas, Recheck, ResolveDecides, ResolveCas,
        ExpireDecides, ExpireCas, ClaimDecides, TerminalCas, SettleTerminal, FinishTerminal, Crash,
        GoTo, Return, Drive
  <2> QED
    BY <2>1
<1>4. CASE Cleanup \/ Clock \/ UNCHANGED vars
  BY <1>4 DEF Cleanup, CleanupBarrier, CleanupStaleApproval, CleanupMarks, CleanupDeletes,
       RecoverTerminal, Clock, BarrierLeaseEnds, ReviewDeadlinePasses, vars
<1>5. CASE CallerStep(p) \/ Crash(p)
  <2>1. ~CreateJob(p)
    BY DEF CreateJob, Is
  <2>2. CASE PauseCas(p) \/ FinishPausePersistence(p) \/ FailPauseCas(p) \/ StaleCas(p) \/ ResolveCas(p)
             \/ ExpireCas(p) \/ TerminalCas(p)
    BY <1>2, <2>2
    DEF PauseCas, FinishPausePersistence, FailPauseCas, StaleCas, ResolveCas, ExpireCas, TerminalCas
  <2>3. CASE SettleTerminal(p) \/ FinishTerminal(p)
    BY <2>3 DEF SettleTerminal, FinishTerminal, SameGeneration
  <2> QED
    BY <1>5, <2>1, <2>2, <2>3
    DEF CallerStep, PauseRead, OwnsPausePersistence, SaveResponse, FailPauseRead, BeginClaim,
        BeginResolve, BeginExpire, BeginAbort, BeginSweep, WaitObservesStale, Recheck,
        ResolveDecides, ExpireDecides, ClaimDecides, Crash
<1> QED
  BY <1>3, <1>4, <1>5 DEF Next

\* A handler that outlives its generation leaves the next one's row alone,
\* wherever it was suspended when the row changed hands.
THEOREM StaleHandlersInert == Spec => StaleGenerationIsInert
<1>1. TypeInv /\ DriverInv /\ [Next]_vars =>
        [\A p \in Callers :
           /\ caller'[p] # caller[p]
           /\ caller[p].pc # "idle"
           /\ caller[p].epoch # job.createdAt
           => job' = job]_vars
  BY InertStep
<1> QED
  BY TypeInit, TypeStep, DriverInit, DriverStep, <1>1, PTL DEF Spec, StaleGenerationIsInert
=============================================================================
