------------------------------ MODULE RequestPath ------------------------------
(***************************************************************************)
(* The requests of one user from admission to release: a slot of the       *)
(* concurrency limit, the balance check, the generation, a pause and its   *)
(* resume, the charge (request.js, resume.js, client.js).                  *)
(*                                                                         *)
(* A turn that pauses is named by the request that paused it; another      *)
(* request resumes it, even before the first one is torn down.             *)
(***************************************************************************)
EXTENDS PendingRequests, Account, FiniteSets

CONSTANTS
  Requests,
  Charge,       \* what a turn costs when it ends or pauses
  MaxAttempts,  \* maxRetries of updateBalance
  MaxFaults     \* bound on failed commands and crashes

ASSUME RequestAssumption ==
  /\ IsFiniteSet(Requests)
  /\ Charge \in Nat \ {0} /\ MaxAttempts \in Nat \ {0} /\ MaxFaults \in Nat

VARIABLES
  pc,         \* where a request is
  turn,       \* the paused turn a request is about to resume, itself for none
  resumed,    \* the requests past their claim in resume.js
  covered,    \* the requests whose balance check read enough
  seen,       \* what updateBalance read
  attempt,    \* its number of attempts
  waiting,    \* the turns that wait for an approval
  released,   \* pendingRequestReleased
  uncounted,  \* history: bound on the slots held that the counter does not know
  leaked,     \* history: bound on the slots counted that nobody holds
  doubled,    \* history: slots that a request gave back a second time
  inits,      \* history: number of start balances written
  refills,    \* history: refills of this interval
  faults

requestVars == <<pc, turn, resumed, released, waiting>>
updateVars == <<covered, seen, attempt>>
slotHistory == <<uncounted, leaked, doubled>>
accountVars == <<credits, due, inits, refills>>
vars == <<pending, requestVars, updateVars, slotHistory, accountVars, faults>>

Init ==
  /\ PendingInit /\ AccountInit
  /\ pc = [r \in Requests |-> "idle"]
  /\ turn = [r \in Requests |-> r]
  /\ covered = {} /\ waiting = {} /\ released = {} /\ resumed = {}
  /\ seen = [r \in Requests |-> NoRecord]
  /\ attempt = [r \in Requests |-> 0]
  /\ uncounted = 0 /\ leaked = 0 /\ doubled = 0 /\ inits = 0 /\ refills = 0 /\ faults = 0

At(r, place) == pc[r] = place
Goto(r, place) == pc' = [pc EXCEPT ![r] = place]
Fault == faults < MaxFaults /\ faults' = faults + 1
NoFault == UNCHANGED faults

Over == {"idle", "ended"}
Holding == {r \in Requests : pc[r] \notin Over} \ released

-----------------------------------------------------------------------------
(* Slots *)

\* checkAndIncrementPendingRequest: an error of Redis lets the request pass,
\* whether the script ran or not.
Enter(r, place) ==
  \/ \E allowed \in BOOLEAN :
       /\ CheckAndIncrement(allowed)
       /\ Goto(r, IF allowed THEN place ELSE "ended")
       /\ NoFault /\ UNCHANGED slotHistory
  \/ /\ Fault
     /\ Goto(r, place)
     /\ UNCHANGED pending \/ \E allowed \in BOOLEAN : CheckAndIncrement(allowed)
     /\ uncounted' = IF pending' = pending THEN uncounted + 1 ELSE uncounted
     /\ UNCHANGED <<leaked, doubled>>

\* decrementPendingRequest never throws: the caller goes on after an error.
Leave ==
  \/ Decrement /\ NoFault /\ UNCHANGED slotHistory
  \/ /\ Fault
     /\ leaked' = leaked + 1
     /\ UNCHANGED <<pending, uncounted, doubled>>

\* ResumableAgentController
Admit(r) ==
  /\ At(r, "idle")
  /\ Enter(r, "admitted")
  /\ UNCHANGED <<turn, resumed, released, waiting, updateVars, accountVars>>

\* ResumeAgentController for a turn it has read as waiting.
Resume(r, t) ==
  /\ At(r, "idle") /\ t \in waiting
  /\ Enter(r, "resuming")
  /\ turn' = [turn EXCEPT ![r] = t]
  /\ UNCHANGED <<resumed, released, waiting, updateVars, accountVars>>

\* approvals.resolve: one request wins the turn; the loser, and the one whose
\* claim fails, give the slot back.
ClaimResume(r) ==
  /\ At(r, "resuming")
  /\ \/ /\ turn[r] \in waiting /\ NoFault
        /\ waiting' = waiting \ {turn[r]}
        /\ Goto(r, "generating")
     \/ /\ turn[r] \notin waiting /\ NoFault
        /\ UNCHANGED waiting
        /\ Goto(r, "releasing")
     \/ /\ Fault
        /\ waiting' \in {waiting, waiting \ {turn[r]}}
        /\ Goto(r, "releasing")
  /\ turn' = [turn EXCEPT ![r] = r]
  /\ resumed' = resumed \cup {r}
  /\ UNCHANGED <<pending, released, updateVars, slotHistory, accountVars>>

\* The pause is stored and its slot given back; then the partial response
\* cannot be saved, or the barrier not be read or lifted, or the client throws.
\* The run goes on as a failed one, whether failPausePersistence ends the turn
\* or not.
FailPause(r) ==
  /\ At(r, "releasing") /\ r \in released
  /\ Fault
  /\ waiting' \in {waiting, waiting \ {r}}
  /\ Goto(r, "failing")
  /\ UNCHANGED <<pending, turn, resumed, released, updateVars, slotHistory, accountVars>>

Ends(r) ==
  /\ Goto(r, "ended")
  /\ released' = released \ {r}
  /\ resumed' = resumed \ {r}
  /\ UNCHANGED <<turn, waiting, updateVars, accountVars>>

\* Mutant: the finally block of a resume does not look at the flag.
TearDown_Unchecked(r) ==
  /\ At(r, "releasing") \/ At(r, "failing")
  /\ r \in resumed
  /\ Leave
  /\ Ends(r)

\* The finally block of ResumeAgentController, which every path reaches: no
\* second release of a slot that the pause has released.
TearDown(r) ==
  /\ At(r, "releasing") \/ At(r, "failing")
  /\ r \in resumed
  /\ IF r \in released THEN UNCHANGED <<pending, slotHistory, faults>> ELSE Leave
  /\ Ends(r)

\* The pause branch of ResumableAgentController, which looks at the flag.
FinishPause(r) ==
  /\ At(r, "releasing") /\ r \notin resumed /\ r \in released
  /\ Ends(r)
  /\ UNCHANGED <<pending, slotHistory, faults>>

\* A second release: it takes a slot away that another request holds.
LeaveAgain ==
  \/ /\ Decrement /\ NoFault
     /\ doubled' = IF pending > 0 THEN doubled + 1 ELSE doubled
     /\ UNCHANGED <<uncounted, leaked>>
  \/ Fault /\ UNCHANGED <<pending, slotHistory>>

\* finishResumableRequest, on every other path of ResumableAgentController: it
\* releases without a look at the flag, after a failed pause too.
Finish(r) ==
  /\ r \notin resumed
  /\ \/ At(r, "releasing") /\ r \notin released /\ Leave
     \/ At(r, "failing") /\ r \in released /\ LeaveAgain
  /\ Ends(r)

-----------------------------------------------------------------------------
(* The balance check *)

CheckBalance(r) ==
  /\ At(r, "admitted")
  /\ \/ credits = NoRecord /\ Goto(r, "initializing") /\ UNCHANGED covered
     \/ /\ credits # NoRecord
        /\ covered' = IF NeedsRefill /\ CanSpend(credits) THEN covered \cup {r} ELSE covered
        /\ Goto(r, IF NeedsRefill THEN "crediting"
                   ELSE IF CanSpend(credits) THEN "generating" ELSE "releasing")
  /\ UNCHANGED <<pending, turn, resumed, released, waiting, seen, attempt, slotHistory, accountVars, faults>>

\* The lazy initialisation; when it fails the turn is refused.
Initialize(r) ==
  /\ At(r, "initializing")
  /\ \/ /\ Upsert /\ NoFault
        /\ inits' = inits + 1
        /\ Goto(r, IF CanSpend(StartBalance) THEN "generating" ELSE "releasing")
     \/ /\ Fault
        /\ \/ Upsert /\ inits' = inits + 1
           \/ UNCHANGED <<credits, due, inits>>
        /\ Goto(r, "releasing")
  /\ UNCHANGED <<pending, turn, resumed, released, waiting, updateVars, slotHistory, refills>>

-----------------------------------------------------------------------------
(* updateBalance *)

ReadBalance(r) ==
  /\ At(r, "crediting") \/ At(r, "debiting")
  /\ seen[r] = NoRecord
  /\ seen' = [seen EXCEPT ![r] = credits]
  /\ UNCHANGED <<pending, requestVars, covered, attempt, slotHistory, accountVars, faults>>

\* The comparison fails, or the command does, whether it ran or not.
Misses(r, applies) ==
  \/ ~Matches(seen[r]) /\ NoFault /\ UNCHANGED accountVars
  \/ Fault /\ (applies \/ UNCHANGED accountVars)

Retry(r, otherwise) ==
  /\ seen' = [seen EXCEPT ![r] = NoRecord]
  /\ IF attempt[r] + 1 < MaxAttempts
       THEN attempt' = [attempt EXCEPT ![r] = @ + 1] /\ UNCHANGED pc
       ELSE attempt' = [attempt EXCEPT ![r] = 0] /\ Goto(r, otherwise)

Succeeds(r, next) ==
  /\ NoFault
  /\ seen' = [seen EXCEPT ![r] = NoRecord]
  /\ attempt' = [attempt EXCEPT ![r] = 0]
  /\ Goto(r, next)

\* createAutoRefillTransaction
Refill(r) ==
  /\ Matches(seen[r])
  /\ credits' = New(seen[r], RefillAmount)
  /\ Refilled
  /\ refills' = refills + 1
  /\ UNCHANGED inits

Credit(r) ==
  /\ At(r, "crediting") /\ seen[r] # NoRecord
  /\ \/ Refill(r) /\ Succeeds(r, IF CanSpend(credits') THEN "generating" ELSE "releasing")
     \/ Misses(r, Refill(r)) /\ Retry(r, IF r \in covered THEN "generating" ELSE "releasing")
  /\ covered' = IF At(r, "crediting")' THEN covered ELSE covered \ {r}
  /\ UNCHANGED <<pending, turn, resumed, released, waiting, slotHistory>>

\* recordCollectedUsage, whose error the cleanup phase only logs.
Debited(r) ==
  /\ Matches(seen[r])
  /\ credits' = New(seen[r], -Charge)
  /\ UNCHANGED <<due, inits, refills>>

Debit(r) ==
  /\ At(r, "debiting") /\ seen[r] # NoRecord
  /\ \/ Debited(r) /\ Succeeds(r, "releasing")
     \/ Misses(r, Debited(r)) /\ Retry(r, "releasing")
  /\ UNCHANGED <<pending, turn, resumed, released, waiting, covered, slotHistory>>

-----------------------------------------------------------------------------
(* The generation *)

\* chatCompletion ends, with a response or an error.
Complete(r) ==
  /\ At(r, "generating")
  /\ Goto(r, "debiting")
  /\ UNCHANGED <<pending, turn, resumed, released, waiting, updateVars, slotHistory, accountVars, faults>>

\* handleRunInterrupt: the pause is stored ...
Pause(r) ==
  /\ At(r, "generating")
  /\ waiting' = waiting \cup {r}
  /\ Goto(r, "pausing")
  /\ UNCHANGED <<pending, turn, resumed, released, updateVars, slotHistory, accountVars, faults>>

\* ... and its slot released, before the usage so far is charged.
ReleaseAtPause(r) ==
  /\ At(r, "pausing")
  /\ Leave
  /\ released' = released \cup {r}
  /\ Goto(r, "debiting")
  /\ UNCHANGED <<turn, resumed, waiting, updateVars, accountVars>>

\* The run's signal was aborted: chatCompletion leaves the charge to the abort
\* handler, if it was a user who aborted.
Abort(r) ==
  /\ At(r, "generating")
  /\ Goto(r, "releasing")
  /\ UNCHANGED <<pending, turn, resumed, released, waiting, updateVars, slotHistory, accountVars, faults>>

\* A waiting turn expires, or a user aborts it.
Withdraw(t) ==
  /\ t \in waiting
  /\ waiting' = waiting \ {t}
  /\ UNCHANGED <<pending, pc, turn, resumed, released, updateVars, slotHistory, accountVars, faults>>

-----------------------------------------------------------------------------
(* The environment *)

\* A process dies: what it held in memory is gone, its slot is not given back.
Crash(r) ==
  /\ pc[r] \notin Over
  /\ Fault
  /\ Goto(r, "ended")
  /\ leaked' = IF r \in Holding THEN leaked + 1 ELSE leaked
  /\ turn' = [turn EXCEPT ![r] = r] /\ resumed' = resumed \ {r}
  /\ released' = released \ {r} /\ covered' = covered \ {r}
  /\ seen' = [seen EXCEPT ![r] = NoRecord] /\ attempt' = [attempt EXCEPT ![r] = 0]
  /\ UNCHANGED <<pending, waiting, uncounted, doubled, accountVars>>

\* A minute without an increment.
ExpirePending ==
  /\ Expire
  /\ leaked' = 0
  /\ uncounted' = IF uncounted > Cardinality(Holding) THEN uncounted ELSE Cardinality(Holding)
  /\ UNCHANGED <<doubled, requestVars, updateVars, accountVars, faults>>

NextInterval ==
  /\ IntervalPasses
  /\ refills' = 0
  /\ UNCHANGED <<pending, requestVars, updateVars, slotHistory, inits, faults>>

Step(r) ==
  \/ Admit(r) \/ \E t \in Requests : Resume(r, t)
  \/ ClaimResume(r) \/ TearDown(r)
  \/ FailPause(r) \/ FinishPause(r) \/ Finish(r)
  \/ CheckBalance(r) \/ Initialize(r)
  \/ ReadBalance(r) \/ Credit(r) \/ Debit(r)
  \/ Complete(r) \/ Pause(r) \/ ReleaseAtPause(r) \/ Abort(r)
  \/ Crash(r)

Next ==
  \/ \E r \in Requests : Step(r) \/ Withdraw(r)
  \/ ExpirePending \/ NextInterval

Spec == Init /\ [][Next]_vars

-----------------------------------------------------------------------------
(* Properties *)

Places == {"idle", "admitted", "initializing", "crediting", "generating",
           "pausing", "debiting", "resuming", "releasing", "failing", "ended"}

\* Every variable has its type; the counter is never negative, so that a key
\* that a decrement finds missing does not give later requests extra slots.
TypeOK ==
  /\ pending \in Nat
  /\ credits \in Nat \cup {NoRecord} /\ due \in BOOLEAN
  /\ pc \in [Requests -> Places] /\ turn \in [Requests -> Requests]
  /\ seen \in [Requests -> Nat \cup {NoRecord}]
  /\ attempt \in [Requests -> 0 .. MaxAttempts - 1]
  /\ covered \subseteq Requests /\ waiting \subseteq Requests
  /\ resumed \subseteq Requests /\ released \subseteq Requests
  /\ uncounted \in Nat /\ leaked \in Nat /\ doubled \in Nat /\ inits \in Nat /\ refills \in Nat
  /\ faults \in 0 .. MaxFaults

\* The slots held that the counter may not know: those an expiry or an error
\* hid, and those a second release took away.
Unknown == uncounted + doubled

\* The counter and the slots that requests hold differ only by what failed,
\* expired, or was given back twice by a pause that request.js could not
\* persist (1808); no other pause, resume or refusal gives a slot back twice,
\* and no finished request keeps one (client.js 2707-2716, request.js 1509-1515,
\* resume.js 736-753 and 1097-1102).
CounterTellsHolders ==
  /\ pending <= Cardinality(Holding) + leaked
  /\ Cardinality(Holding) <= pending + Unknown

\* Pausing turns and resuming them at once does not bypass the limit
\* (resume.js 709-711), unless the counter has lost slots.
LimitHolds ==
  Cardinality({r \in Requests : At(r, "generating")}) <= Limit + Unknown

\* checkBalanceRecord decides on a record it has read before: start balances
\* and refills of one interval are written more than once, but never more often
\* than there are slots, those the counter lost included, or replies lost.
SlotsBoundRaces ==
  /\ inits <= Limit + Unknown
  /\ refills <= Limit + Unknown + faults

\* Whatever races, the balance changes only by whole updates: a refill and a
\* charge add to what is there, and neither overwrites the other's effect.
UpdatesCompose ==
  [][credits' # credits =>
       \/ credits' = StartBalance
       \/ credits' = credits + RefillAmount
       \/ credits' = IF credits < Charge THEN 0 ELSE credits - Charge]_vars
=============================================================================
