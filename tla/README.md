# TezGPT in TLA+

TezGPT is a chat application in TypeScript and JavaScript: an Express server, a React client, MongoDB and
(optionally) Redis. Its hard part is not the chat but the coordination around it. A *generation* (one run of
an agent) outlives the HTTP request that started it, is watched by clients that come and go on any replica,
can be paused for a human decision, steered with further messages, aborted, replaced, or lost with its
process. This directory specifies that coordination, checks it with TLC on small instances and proves the
safety of most of it with TLAPS for every instance.

Paths below are relative to `src/packages/api/src/` unless they start with `src/`.

## 1. Inventory

### The stream of a generation

| Component | State | Operations | What is hard |
|---|---|---|---|
| Job store (`stream/implementations/InMemoryJobStore.ts`, `RedisJobStore.ts`; interface `stream/interfaces/IJobStore.ts`) | one row per stream (status, `createdAt` as the generation's epoch, pending action, barrier), steer lists and receipts, idempotency claims, content | create, compare-and-set of the status (`transitionStatus`), delete, cleanup sweep, steer and claim operations | every handler reads, awaits, then compares and sets; rows are replaced and swept meanwhile |
| Approval lifecycle (`stream/ApprovalLifecycle.ts`) | the pause of a row, its persistence barrier, deadlines | pause, finish, wait for the write, resolve, expire, fail closed | a decision may arrive before the paused response is saved; the writer may die |
| Steering (`stream/SteeringLifecycle.ts`, `SteerRecovery.ts`, `agents/steering/*`) | queue, claimed batch, receipts, parked leftovers with leases | enqueue, cancel, drain, apply, restore, park, discard, recover | a run ends between drain and apply; two tabs decide about one leftover |
| Event transport (`stream/implementations/RedisEventTransport.ts`) | Redis counter, reorder buffer per stream, attachment fence | numbered publication, ordered delivery, flush on timeout, sync of the frontier | frames are lost or overtake, the counter is read while frames arrive |
| Attachment (`stream/GenerationJobManager.ts`) | early-event buffer, `hasSubscriber`, attachment generation, coalescing window | emit, subscribe, bootstrap, replay, detach, final event | clients join and leave between the awaits of a bootstrap |
| Terminal publication and cleanup (`stream/GenerationJobManager.ts`) | the claim and its persistence lease | complete, abort, publish the final event, recover a stale claim, sweep | a process dies between the claim and the publication |

The controllers (`src/api/server/controllers/agents/{request,resume}.js`, `src/api/server/middleware/abortMiddleware.js`,
`src/api/server/routes/agents/index.js`) call the manager; the manager owns one lifecycle object of each kind and
calls store and transport. Store and transport are the only state shared by replicas.

A good stream means: one driver per generation; no decision takes effect before the paused response is durable;
one terminal owner; nothing a replaced generation does touches its successor; accepted steers are applied once
or handed back; a client sees created first, the deltas in order and once, the terminal event last, and it does
see the terminal event.

### Coordination between processes

| Component | State | Operations | What is hard |
|---|---|---|---|
| Leader election (`cluster/LeaderElection.ts`) | a Redis key with a lease, an interval timer per process | ask, claim, renew with retries, resign | lost replies, late timers, a shutdown during a claim |
| Flow state manager (`flow/manager.ts`) | one record per OAuth flow in a shared key-value store | create, run with a handler, complete, fail, poll, delete | check and set are separate, waiters delete what others wait for |
| Concurrency limiter (`middleware/concurrency.ts`) | a counter per user that lives a minute | increment, decrement | expiry under a long request, two steps without Redis |
| Balance (`middleware/checkBalance.ts`, `src/packages/data-schemas/src/methods/transaction.ts`) | a balance document and transactions | check, refill, optimistic update with retries | record and balance are two writes; refill is decided on an old read |
| Skill sync (`skills/sync/*`, `src/packages/data-schemas/src/methods/skillSync.ts`) | a lock document with a lease | acquire, refresh, release, run | the run goes on after its lease is lost |
| MCP connections and OAuth (`mcp/*`) | connections per user, reconnection tracker, tokens | connect, reconnect, refresh | check before an await, mark after it |

A good coordinator means: at most one holder; an abandoned lease runs out; a late command of an old holder harms
nobody; a counter never goes wrong for ever; nobody waits for ever.

### The rest

Agent building and running (`agents/*`, on top of the external `@librechat/agents` library), authentication,
MongoDB methods, the shared `data-provider`, the React client with its event hooks and its local agent loop, and
the tooling have little shared mutable state of their own, or their state is that of the database or the browser.
`PROJECT.json` lists them as components with the reason why they are not modelled.

## 2. Plan

| | Modules | State |
|---|---|---|
| 1 | `JobRow`, `ApprovalLifecycle`: the row and the compare-and-sets every other part relies on | checked, proved |
| 2 | `SteerContract`, `SteerStore`: the promise about a steer, and the store that implements it | checked, proved with the refinement |
| 3 | `ReorderBuffer`, `StreamAttachment`: what clients are shown | checked, proved |
| 4 | `LeaderElection` | checked, proved |
| 5 | `TerminalPublication`: claim, persistence lease, publication, recovery and sweep of the end of a generation | checked, proved |
| 6 | `ClaimKeys`, `GenerationClaims`: one generation per client request | checked, proved |
| 7 | `FlowState`: waiting for an OAuth flow | checked, proved |
| 8 | `PendingRequests`, `Account`, `RequestPath`: slots and balance of one user from admission to release | checked, proved |
| 9 | Skill synchronisation, the tracker of MCP reconnections | left out, see section 8 |

Modules that carry proofs use no `RECURSIVE` operator. Bounds of counters are constants in guards.

## 3. Modules

### JobRow

The row of a stream as a record and every change a transition makes to it as an operator (`PausedRow`,
`ResumedRow`, `ExpiredRow`, `FailedPauseRow`, `AbortedRow`, `ClaimedRow`, `SettledRow`). A pending action has an id
and a *fence*: the store mirrors the id in a separate field, with a prefix while the paused response is not yet
saved (`pausePersistenceActionId`). `MayTransition(row, from, fence, epoch)` is the guard of `transitionStatus`.

### ApprovalLifecycle

One stream, any number of callers. A caller is a request handler or sweeper; its `pc` says which handler it is in and its
other fields are what it holds across an await. A handler becomes two or more actions, split at the awaits at
which the row can change: `PauseRead`/`PauseCas`, `BeginResolve`/`ResolveDecides`/`ResolveCas`,
`BeginExpire`/`ExpireDecides`/`ExpireCas`, `BeginAbort` or `BeginClaim`/`ClaimDecides`/`TerminalCas`, then
`SettleTerminal` and `FinishTerminal`. `WaitObservesStale`/`StaleCas`/`Recheck` is `waitForPausePersistence` with
its fail-closed transition. The driver is `CreateJob`, pause, `OwnsPausePersistence`, `SaveResponse`,
`FinishPausePersistence` or `FailPauseRead`/`FailPauseCas`. `Cleanup…` and `RecoverTerminal` are the periodic sweeps;
`Crash` drops what a caller holds. Clocks are two facts: the barrier's lease has ended (`overdue`), an action's
deadline has passed (`expired`). `persisted` and `resumed` are history. `FencedDecisions` says whether decisions
pass the optional `expectedActionId`.

### SteerStore and SteerContract

`SteerStore` has the in-memory store's maps as variables and one action per store operation (they contain no
await). Runs of old generations stay alive and keep calling with their own epoch. A run drains a batch, applies its
steers one by one (`ApplySteer`), fails (`ApplyFails`), restores what is left or dies. `CreateJob(r)` may carry a
recovered steer, whose lease `ConsumeParkedSteer` commits. `SteerContract` gives each steer one of seven lives
(fresh, waiting, applied, leftover, recovered, cancelled, lapsed). `SteerStore!Life` is the refinement
mapping: it reads the life from the places a steer is found in, and would say `dropped`, which the contract does
not have, if there were none.

### ReorderBuffer and StreamAttachment

`ReorderBuffer` is the buffer of one stream on one replica as a value, with its operations as functions from a buffer to a
buffer and the events handed out. `StreamAttachment` is the pipeline of one generation as one replica sees it: the run
emits events 1..`LastEvent` (1 is created, the last the terminal event), which go through the coalescing window
(`batch`), the issued publications (`outbox`), Redis (`counter`, `seqOf`), the network (`net`, unordered and lossy) and
the buffer to the clients. `early`, `closed`, `overflowed`, `attached`, `turn` are the manager's runtime fields for the
replay. A client's attachment is `Subscribe`, `Ready`, `PassFence`, `Bootstrap` or `CheckFails`, `ReadCounter`, `ApplyCounter` or `ReadFails`,
`CheckStored`, one per await; `ContinueBootstrap` is the hand-over when the client that began it left.
Behind the fence the attachment reads the job once more to see that it is still the generation the route expects
(`GenerationJobManager.ts` 4257-4261), and `CheckFails` has both ways this ends badly: a mismatch unsubscribes the
client, and a rejected read leaves it subscribed, with `hasSubscriber` set, until it disconnects. In neither is the
bootstrap handed on. `MaxBroken` bounds these; `outlived` is history: a bootstrap whose attachment ended during that read replayed all the same.
`owner` says whether this replica runs the generation.

Abstractions. A client's view is the order in which events are handed to it: the routes queue them until the response
is ready, in that order. On a replica that does not own the run, frames may arrive as soon as the client is subscribed, while
the code only receives them once the channel is active: the model allows more.

### LeaderElection

Processes on one key. `Ask`, `ElectSelf`, `TimerFires`, `Retry`, `Resign` send a command, which Redis executes or
which fails; replies wait in an inbox in the order of the connection and `Receive` handles the next, or takes it
for failed although the command ran. Time is `Tick`. Each behaviour has a pace: if `prompt`, no timer or reply is
later than a tick, otherwise any may be. A server that resigns stays up until it has drained, as the signal handler
lets it.

### FlowState

One record in the shared key-value store and the requests that meet at it. Callers come through `createFlow` or
`createFlowWithHandler`, callbacks through `completeFlow` or `failFlow`; a flow is of one type, and the type says
whether a handler runs, whether the waiter has an abort signal, whether a failure is retained and which timeout
applies. Every read, write and delete of the store is an action of its own, with what was read in `held`, because each
is awaited. A waiter polls (`polling`), retries once when it finds nothing (`retrying`), times out, aborts or dies.
`record.left` is the rest of the record's lifetime; `Tick` waits until every living waiter has polled. `lost` is history: who
found nothing for a reason the code cannot help (a deletion, a record joined or replaced in its last moment).

### TerminalPublication

The end of one generation. `claim.step` follows the holder of the terminal claim: it saves the response, settles the row
with the one event of the stream (`publishing`, and `reading` when the reply failed), emits it, finishes the row and releases
its runtime. The row's `pending` is the marker with its lease, `age` the time since. Whoever meets a marker whose
lease has ended recovers it. Clients attach to any replica of their `Routes`, look for a stored terminal event
(`checking`) and look again later (`waiting`); they end when they were given something that ends the response.
`Retire`, `Reap` and `CleanupOrphans` are the parts of the periodic sweep. Commands and publications fail, frames are lost and replicas crash
within `MaxFaults`.

### ClaimKeys and GenerationClaims

`ClaimKeys` is the pair of keys under which a request id is remembered: the primary key and the legacy key that replicas
of an older version read. A claim has a token, the token it replaced and the epoch of the generation it started. In
`GenerationClaims` an attempt is one post of the request; `pc` is the command it will send next, the registers `mine`,
`old`, `new` and `next` are what it remembers. `Synchronize` and its steps repair the legacy key. The paths are:
a fresh claim, the adoption of a claim that has started, the takeover of one that has not, the tombstone, `createJob` with its
recovery when the reply is lost, its legacy fence, and the release. A command may fail having run or not. Keys expire (`Expire`), and
the job ends, is removed or is replaced by another request's.

### PendingRequests, Account and RequestPath

`PendingRequests` is the counter with its two scripts and its expiry; `Account` is the balance with the writes the code makes to it.
`RequestPath` takes requests of one user through them: a slot, the check with start balance or refill,
the generation, the end or a pause, the charge through `updateBalance` (read, compare and set, retry), the release.
A pause gives the slot back and a resume takes one, perhaps before the driver of the paused turn is torn down.
A turn ends in one of three ways, which differ in whether they look at the flag the pause has set: `TearDown`, the `finally`
of a resumed turn (`resume.js` 1093-1106), and `FinishPause`, the pause branch of `request.js` (1513), do;
`Finish`, the other ends of `request.js` through `finishResumableRequest` (180-186), does not. So when the
pause cannot be made durable (`FailPause`, the throw at `request.js` 1489), the slot is given back a second time.
`uncounted`, `doubled` and `leaked` are history: how many slots are held that the counter does not know (an expiry, an
error of Redis), how many decrements were such a second release, and how many slots are counted that nobody holds (a decrement that failed, a crash).
The limit holds up to `Unknown`, the sum of the first two.

## 4. Runs

Deadlock is not checked in any run: bounds on generations, pauses, attempts and events let every model come to a legitimate
end. Symmetry is used where the members of a set are interchangeable and no liveness is checked.

| Run | Bounds | Properties |
|---|---|---|
| `approval_races` | 3 callers, 1 generation, 2 pauses | `SingleDriver`, `ResumedOnlyIfPersisted`, `StaleBarrierNeverStuck`, `ExpiryHitsOnlyLapsed` |
| `approval_generations` | 2 callers, 2 generations, 1 pause, 1 crash | `SingleTerminalOwner`, `StaleGenerationIsInert`, `ReviewEnds`, `WaitEnds` |
| `steer_store` | 3 steers, 2 generations, depth 2 | `TypeOK`, `ReceiptsTellPlace`, `AppliedInOrder`, `StaleRunIsInert`, `RecoveryOwnsSteer`, `KeepsContract` (the refinement), `SteersSettle` |
| `attach_alone` | 1 client, on the owning or another replica, 4 events, early buffer 2, reorder buffer 2, 1 loss, 1 bootstrap broken off | `FirstAttachmentWhole`, `GapsAreTimed`, `CreatedFirst`, `DoneComesLast`, `DoneReaches` |
| `attach_pair` | 2 initial clients, 3 events, early buffer 1, 1 failed publication, 1 bootstrap broken off | `TypeOK`, `DeltasInOrderOnce`, `FenceHasOwner` |
| `attach_twice` | an initial and a resuming client, 4 events | *violated*: `DeltasInOrderOnce` |
| `leader` | 2 servers with 1 caller, lease 2, renewal 1, 1 attempt, 1 failure, 1 unanswered renewal, both paces | `LeaseKept`, `LeaseIsTheHolders`, `LeaseRunsOut`, `LoserStops` |
| `flow` | 2 callers, 1 callback, every type, lifetime 3, handling timeout 1, 2 stored flows | `LearnsTheEnd`, `WaitersSettle` |
| `terminal` | 2 replicas, 2 clients, lease 1, retention 2, 1 fault, finished jobs removed | `NormalIsDurable`, `OnePayload`, `UnsentStays`, `LateComersAreTold` |
| `terminal_reaped` | 2 replicas, 1 client, no fault | *violated*: `NobodyHangs` |
| `claims` | 3 attempts, 1 fault | `OneGeneration`, `RunIsFenced`, `StartedStays` |
| `requests` | 3 requests, limit 2, start balance, refill, cost and charge 1, 2 attempts of an update, 1 fault | `CounterTellsHolders`, `LimitHolds`, `SlotsBoundRaces`, `UpdatesCompose` |

Each property has its comment beside its definition; `PROJECT.json` says in a sentence what each run shows, and
names for every property a seeded bug of the code that breaks it. Section 6 proves every module's `TypeOK` for every
instance; `SteerStore` and `StreamAttachment` also check it, as their proofs are the longest to rest on it.

Why these bounds are enough.

- The races of an approval are between a driver, a decision and a third party (expiry, abort, sweep or a second
  decision): three callers. A stale action needs a second pause, a stale handler a second generation.
- In the steer store order needs two steers in a batch and one behind them; a stale run and a recovery need a
  second generation.
- In the buffer a gap needs three frames, one lost, one waiting and one that fills it or overflows; the counter
  starts at 0 or 1 because an earlier turn of the stream may have advanced it. What two clients can do to each other's
  bootstrap takes two clients and an event on either side of it. `DeltasInOrderOnce` allows a delta whose publication failed
  to come before older ones: it takes 4 events to meet (see section 7), so the theorem covers it and `attach_pair` does not.
  One bootstrap broken off is enough to strand a client that joins behind it.
- A second release of a slot lets one request more past the limit: with three requests and limit 2 the third is admitted while
  the first two still generate.
- The shortest lease and renewal already let every command arrive after the lease ended; a renewal that fails, its
  retry and a second server that takes over need no more than one failure and one attempt.
- A flow must outlive its handling timeout by one tick for a poll to fall between the two, and be followed by a second flow.
- The end of a generation has a holder, a recoverer and clients that come before and after: two replicas, two
  clients. A lease of 1 within a retention of 2 is the least with a moment in which the marker is stale and the row
  still there. A second fault lets one of the two seeded recoveries fail as well; with 2 faults the safety properties hold
  (1.0 million states), as they do with `CleanupOnComplete = FALSE` (925,000 states for both).
- Three attempts are an owner, a taker, and a third that meets the state between the two keys of either. `Remembered` is a
  constraint that explores nothing after no key remembers a generation that is over: a post is then a new request for the code,
  and `OneGeneration` and the other properties say nothing of it, see section 7.
- Two slots and three requests: two that hold, one that is refused or comes after a pause.

## 5. Fairness

- `ApprovalLifecycle`: the clocks advance, the cleanup interval runs (`CleanupBarrier`, `CleanupStaleApproval`), and a
  caller that polls the barrier keeps polling (a loop with a timer). Nothing is assumed of drivers, users or writers.
- `SteerStore`: an active generation ends (`Terminate`); that is `ReviewEnds` for a paused one and the sweep
  of silent runs for a running one.
- `StreamAttachment`: issued publications execute and are answered or fail, frames that are not lost arrive, the
  coalescing and flush timers fire, awaited reads return. The run need not emit anything and no client need do anything.
- `LeaderElection`: time passes, timers fire, connections answer. Nobody has to ask, resign or crash.
- `FlowState`: time passes, and a living waiter's interval fires and its reads return. No handler or callback has to
  finish, and nobody has to delete.
- `TerminalPublication`: a client's awaited looks return and its timer fires, frames that are not lost arrive, time
  passes. The holder of the claim owes nothing: it may die or be slow at every step.
- `GenerationClaims`, `RequestPath`: safety only.

## 6. Proofs

Every theorem says `Spec => []Inv`, `Spec => [][A]_vars` or, for the refinement, `Spec => Contract!Spec`, for every value of
the constants that satisfies the named assumptions: bounds and times are natural numbers, values that stand for "nothing"
are not values of the kind they are missing from (`NoRow \notin Rows`, `NoClaim \notin Claims`), a lease is shorter than the
retention, and a handling timeout is shorter than the lifetime of a flow. TLC checks each assumption. Seven theorems
have hypotheses of their own, which the table gives, because the property is false without them.

| Module | Theorem | States |
|---|---|---|
| `ApprovalLifecycle_proofs` | `TypeCorrect`, `OneDriver`, `OneTerminalOwner`, `GenerationsForward` | `TypeOK`, `SingleDriver`, `SingleTerminalOwner`, `GenerationsMoveForward` |
| | `StaleHandlersInert`, `ExpiryIsDue`, `NeverStuck` | `StaleGenerationIsInert`, `ExpiryHitsOnlyLapsed`, `StaleBarrierNeverStuck` |
| | `ResumeAfterWrite`, `ExposedAfterWrite` | `FencedDecisions => ...` of `ResumedOnlyIfPersisted` and `ExposedOnlyIfPersisted` |
| `SteerStore_proofs` | `StoreTyped`, `ReceiptsTrue`, `OrderKept` | `TypeOK`, `ReceiptsTellPlace`, `AppliedInOrder` |
| | `StaleRunsInert`, `RecoveriesOwn` | `StaleRunIsInert`, `RecoveryOwnsSteer` |
| | `ContractKept` | `KeepsContract`: the store implements `SteerContract` |
| `StreamAttachment_proofs` | `StreamTyped`, `GapsTimed`, `FenceOwned` | `TypeOK`, `GapsAreTimed`, `FenceHasOwner` |
| | `InOrderOnce` | where `Resuming = {}`: `DeltasInOrderOnce`, which ends with a bootstrap that outlives its attachment; `attach_twice` is the counterexample without |
| | `FirstIsWhole`, `DoneIsLast` | where `Resuming = {}` and `MaxFailures = 0`: `FirstAttachmentWhole`, `DoneComesLast` |
| | `CreatedComesFirst` | where `Resuming = {}`: `CreatedFirst` as long as `turn = 0`, and always if there is one client |
| `LeaderElection_proofs` | `TypeCorrect`, `LeasesAreTheHolders` | `TypeOK`, `LeaseIsTheHolders` |
| | `PromptLeaderLeads` | `Renew < Lease => (Spec => []LeaseKept)`; the defaults are 10 s and 25 s |
| `FlowState_proofs` | `TypeCorrect`, `EndIsLearnt` | `TypeOK`, `LearnsTheEnd` |
| `TerminalPublication_proofs` | `TypeCorrect`, `NormalMeansSaved`, `PayloadsAgree`, `UnsentRowsStay` | `TypeOK`, `NormalIsDurable`, `OnePayload`, `UnsentStays` |
| `GenerationClaims_proofs` | `TypeCorrect`, `OnlyOneGeneration`, `GenerationIsFenced`, `StartsStay` | `TypeOK`, `OneGeneration`, `RunIsFenced`, `StartedStays` |
| `RequestPath_proofs` | `TypeCorrect`, `CountersAgree`, `LimitKept`, `UpdatesAreWhole`, `RacesBounded` | `TypeOK` (the counter is never negative), `CounterTellsHolders`, `LimitHolds`, `UpdatesCompose`, `SlotsBoundRaces` |

The arguments, and why the invariant has to be stronger than the property:

- *ApprovalLifecycle.* `TypeInv` adds to `TypeOK` the count of attempts of an abort, without which its last attempt could
  leave its type. `DriverInv` says that no epoch in use exceeds `epochs` and that while a caller drives the
  generation of the row, the row is not paused: a resolve wins only on a paused row, which has no driver, and a
  new generation gets an epoch nobody holds. `TerminalInv` adds that the row a publishing caller still finds is terminal.
  `ResumeInv` has three parts: what fence a row shows in which status (`RowInv`), what a waiting decision knows of
  the action it names (`DecisionInv`, where `FencedDecisions` is needed), and `resumed \subseteq persisted`.
  `FenceInv` is what the theorems about stale handlers need: `PausedRowInv` of the fence and the barrier of a paused row, `DoubtInv` of a waiter
  in its fail-closed transition (the fence it read is a held one that some pause installed, and once it lost the row does not show it again), and
  `LapseInv` of an expiry (if the row still has the action it names, that action has lapsed).
- *SteerStore.* `PlaceInv` follows a steer through the maps: a batch does not repeat a steer (`RunInv`), nor does the history of acceptances, a receipt
  exists from the acceptance on (`HistoryInv`) and names the one place its steer is in (`ReceiptsTellPlace`). `OrderInv` adds
  that what a run applied, holds and will drain is ascending. The store removes steers from the middle of a sequence (`Without`);
  which elements and which order that leaves is proved once, with the least element of a set of numbers in place of
  an induction. The refinement is then one lemma per action: the life of each steer moves as the contract allows, or not.
- *StreamAttachment.* The buffer's flush is a recursive function; instead of an induction over it, the proofs use
  the set it denotes: the frames with a number below the new frontier, at the rank their number has (ranks are
  cardinalities). The invariants relate the numbers to the events (later events get greater numbers, what waits for
  its publication is behind all numbered), the frontier to every view (`Under`: what is shown is older than what the buffer or the
  pending replay can still hand out), and the fence to its bootstrap. A step first works and then lets closed clients
  go, so the conditions are stated over the clients in between (`FenceOK`, `HeldOK`, `OrderOK`). `Resuming = {}` is needed
  because a resuming client's first attachment does not hold back the live frames an initial one is replayed later.
  The fence has an owner, except behind a bootstrap that was broken off in the attachment under way (`Stranded`).
  The order of the deltas is kept (`OrderInv`) until a bootstrap outlives its attachment. During the first attachment none can
  have (`LateInv`: a bootstrap waiting for its second read belongs to no later attachment than the one under way, and while `turn = 0`
  nothing has outlived), so the theorems about it need no such exception.
  That there is no hole takes more. The numbers given are those of a beginning of the stream (`WholeRun`: whatever was emitted has
  a number or waits for one); until the first replay the early buffer holds every event from 1 on, or was given up with a
  request to reconnect (`FirstEarly`); the fence of the first attachment opens once, when its bootstrap ends (`FirstInv`); the frontier and
  the counter of a bootstrap are not ahead of Redis (`ReachInv`). `WholeInv` then says that a client of the first attachment has everything below
  what its buffer expects next or, behind the fence, below the frontier of its replay, except what is `missing`. Whatever moves the
  buffer gives the client the numbers in between (`Fills`) or counts them as missing (`Skipped`). `MaxFailures = 0` is needed: if the publication of
  created fails, its replay has no number to start from, the buffer starts from the counter that was read, and
  deltas still under way are dropped as old, behind others or the terminal event (section 7).
  `StartInv` is enough for `CreatedFirst`: whoever sees something without created sees it through an open fence, so what comes
  later has a greater number than created.
- *LeaderElection.* `LeaseInv` says a server is `Secure` at a prompt pace: while its timer runs it holds the key, with
  more of the lease left than of the timer or a renewal under way that is due before time passes; and a claim that won
  but was not read yet holds the full lease.
- *FlowState.* `LearnInv`: where the timeout is shorter than the lifetime, a polling waiter that is not in `lost` still has a flow
  that lives long enough for its next poll (`Attended`).
- *TerminalPublication.* `PhaseInv` relates the step of the holder to the marker and the runtimes, `PayloadInv`
  the payload in the row, in the frames, in the runtimes and in the clients' hands: all are the settled event, or the settlement was
  blind.
- *GenerationClaims.* `StartInv`: only the attempt that owns its token starts a claim, and once it decides, its start is known
  to the primary key. `OnceInv`: when a generation was created, the primary key remembers it, or only the legacy key and those attempts that will
  restore the primary from it, or the running job is found. `RunIsFenced` is inductive with these. Each action has
  a lemma, which names the few keys and registers it changes.
- *RequestPath.* `SlotInv`: the counter never exceeds the limit, only a request that is being charged or released
  may have given its slot back, and the two inequalities of `CounterTellsHolders`. `RaceInv`: nobody joins a race
  for the balance after its first write, and those who wrote and those who still will are no more than the slots, the uncounted
  and the doubled (and, for a refill, the faults).

Only model-checked: liveness, which is out of the prover's reach, as `ENABLED` is. That is `ReviewEnds`, `WaitEnds`, `SteersSettle`, `DoneReaches`,
`LeaseRunsOut`, `LoserStops`, `WaitersSettle` and `LateComersAreTold`. Every other property of the passing runs is a theorem, where the table says so under a hypothesis that its run satisfies.

## 7. Findings

Runs that expect a violation show where the code does something else than its comments say of it:

- `attach_twice`: if a resuming client subscribes first, an initial client that joins during its bootstrap is shown
  deltas twice.
- `terminal_reaped`: the sweep that finds its job gone clears the handlers of the stream while the last frame is on its way; the client's response stays
  open.

Other configurations of the same modules show more; no run is kept for them. The definitions named are in the modules:

- `StreamAttachment`, `ReplayedAttachmentWhole`, 2 initial clients, 3 events: events emitted during a bootstrap whose client leaves are
  not in the replay of the next client (`GenerationJobManager.ts` 5095, 5379).
- `StreamAttachment`, `FirstAttachmentWhole`, one initial and one resuming client: if the resuming client that began a
  bootstrap leaves, the initial client that stays is not given the numbered events from before its own subscription.
- `StreamAttachment`, `FirstAttachmentWhole`, one initial client and a failed publication: if no replayed event has a
  number, the frontier is taken from the counter, and a delta on its way is dropped as old. `DoneComesLast` fails in the same way: if
  the terminal frame has arrived and the deltas before it have not, the counter moves the frontier over them to it (`RedisEventTransport.ts` 620-628).
- `StreamAttachment`, `CreatedFirst`, two initial clients: the counter read of a client that has left opens the fence of
  the next attachment.
- `StreamAttachment`, strict order of deltas (`DeltasInOrderOnce` without its exception), 2 initial clients, 4 events, early buffer 2, 1 failed
  publication: event 2 is emitted while the first client is attached, which leaves; event 3 is kept and its publication fails; the second
  client is replayed 1 and 3, and frame 2 arrives after that.
- `StreamAttachment`, `DoneReaches`, two clients: a sync moves the frontier over the terminal frame that another client, who
  looked for the stored terminal event too early, still waits for.
- `StreamAttachment`, `FenceHasOwner` without `Stranded`, two clients: the client that began the bootstrap finds another generation, or
  cannot read the job, at `GenerationJobManager.ts` 4257-4261. A client behind its fence is opened by nobody, which the
  hand-over at 4571-4575 is there to avoid, until the frames come from a later attachment.
- `StreamAttachment`, `DeltasInOrderOnce` without `~outlived`, two initial clients: the first leaves during its second read of the job
  and the next one subscribes; the first one's bootstrap then replays to it, and if its own counter read fails, its fence
  opens without a frontier and lets frames through that the replay had shown.
- `RequestPath`, `CounterTellsHolders` and `LimitHolds` with `uncounted` in place of `Unknown`, limit 1, no fault but the failed write: a turn pauses and gives
  its slot back, another is admitted, the pause cannot be made durable (`request.js` 1489) and `finishResumableRequest` (1808, 180-186) decrements the
  other's slot, so a third is admitted while the second generates. The comment at `client.js` 2708-2709 says the flag makes the release idempotent; only
  the successful pause branch (1513) and `resume.js` look at it.
- `ApprovalLifecycle`, `ResumedOnlyIfPersisted`, `FencedDecisions = FALSE`: a resolve that omits the optional action id can
  resume a later pause whose response is not saved. The HTTP route always passes it.
- `SteerStore`: `Len(queue) <= MaxDepth` does not hold; putting a failed batch back does not look at the depth
  (`InMemoryJobStore.ts` 1704).
- `LeaderElection`, `ResignedHoldsNothing`, 2 servers, lease 3, renewal 2: a claim that waits while its process resigns takes the key
  afterwards (`LeaderElection.ts` 73).
- `FlowState`, `OneHandler`, `Types = {"MEILI_SYNC"}`: two requests that find no flow before and after their pause both run the handler, where
  `src/api/db/indexSync.js` 335 says one does. `CompletedStays`: a failure written over a
  completed flow replaces its result (`flow/manager.ts` 393).
- `TerminalPublication`, `FinalIsRetained`, `MaxFaults = 2`: a row whose event no replica was sent is removed, which
  `GenerationJobManager.ts` 3391-3393 means to avoid.
- `GenerationClaims`, `NeverWedged`, no fault needed: a mirror written from a value read before a release or a takeover leaves the two
  keys with claims that nothing reconciles; every retry is answered 503 until a key expires, up to 25 hours.

What reading the code for the models showed besides:

- `decrementPendingRequest` swallows its errors (`middleware/concurrency.ts` 183-209), so the comment at `client.js` 2703, that the
  teardown still releases if the pause's release fails, is not so: the slot leaks until the key expires. A refused retry
  refreshes that expiry, so a user who retries each minute keeps it.
- A late write of the start balance can replace a charged balance by an uncharged one, and a balance update whose
  reply was lost is applied again; `UpdatesCompose` and `SlotsBoundRaces` say what holds in spite of that.
- Where `monitorTimeout` equals the lifetime, a waiter is told "not found" instead of "timed out". The index
  synchronisation deletes its own flow, so its waiters find nothing and synchronise again.
- A client attached before a terminal claim never looks for the stored event again: if its frame is lost and the row
  is removed, nothing ends its response. That is why `LateComersAreTold` is about those who come later, and why
  `DoneReaches` is about a terminal frame that Redis takes and does not lose.

## 8. Not modelled

- Content, its reconstruction, token usage, titles and everything the events carry.
- The Redis store's key expiry and cluster behaviour. Its Lua scripts are atomic, as the in-memory methods are.
- The refusal of a transition whose parked recovery cannot be read (`isParkedRecoveryCompatible`, `InMemoryJobStore.ts` 695-698): `MayTransition` takes a
  parked payload to be well-formed, which it is unless the store was corrupted.
- The await inside the sweep's retirement: `Retire` is one step, where the code awaits the job between its count of the
  subscribers and the cleanup (`GenerationJobManager.ts` 6937-6966); a client that subscribes in between is not modelled.
- Events emitted while a bootstrap that outlived its attachment waits for the receipts again: the code replays them without
  regard to their numbers, the model with them. Nothing is claimed of such a replay (`outlived`).
- The preempt flags of steering, and its calls that nothing uses.
- The abort, preempt and acknowledgement messages of the transport, the hand-over of the final event of a replaced
  run, shutdown.
- A publication that executes but whose reply is lost (`RedisEventTransport.ts` 372), and the content snapshot a
  resuming client starts from (`GenerationJobManager.ts` 4664).
- Claims without a token, the negotiated protocol of the claim keys, expected predecessors, and a generation that outlives
  its keys, after which a retry claims afresh (`forgotten`).
- The limiter without Redis, whose race its own comment accepts, and the charge of an aborted turn by the abort handler
  (`src/api/server/middleware/abortMiddleware.js` 63), which is one more update of the same balance.
- Skill synchronisation: its lock is a lease renewed by compare-and-set, the scheme of `LeaderElection`, and what it protects is I/O.
  The tracker of MCP reconnections (`mcp/oauth/OAuthReconnectionManager.ts` 87) checks before an await what it marks after;
  its state is a set in memory that no other property depends on.
- The rest of the repository: the agent runtime is in an external library, the database methods are single-document
  queries, the MCP connections' states are those of an SDK and of remote servers, and the client is one actor
  that applies frames. `PROJECT.json` gives the reason for each. Most of the repository's lines are user interface,
  schemas, translations and tests, so the map covers a small share of them.

## 9. Running

```
tlasany M.tla                        # parse
tlc -config MCApprovalRaces.cfg MCApprovalLifecycle.tla
tlc -config MCFlowState.cfg FlowState.tla
tlapm ApprovalLifecycle_proofs.tla   # check the proofs
```
`PROJECT.json` maps every definition to the lines it models.
