---------------------------- MODULE GenerationClaims ----------------------------
(***************************************************************************)
(* Starting a generation once though its request is posted again           *)
(* (request.js with claimGeneration, takeoverGeneration,                   *)
(* resumeClaimedGeneration, releaseGeneration and createJob).              *)
(*                                                                         *)
(* Attempts are posts of one request, on any replica.  A command is a      *)
(* step; it may fail, before or after it was executed.  An attempt may die *)
(* at any step, and the claim of one that is slow is taken over.           *)
(***************************************************************************)
EXTENDS ClaimKeys, Naturals, FiniteSets

CONSTANTS
  NoJob,     \* the stream has no job
  Other,     \* the epoch of a job of another request on the stream
  MaxFaults  \* bound on failed commands and crashes

ASSUME JobAssumption == Other \notin Attempts /\ MaxFaults \in Nat /\ IsFiniteSet(Attempts)

VARIABLES
  job,       \* the job of the stream
  pc,        \* where an attempt is
  mine,      \* ownedIdempotencyClaim, or the value it offers
  old,       \* the legacy or expected value it has seen
  new,       \* the primary value it has seen
  next,      \* where it goes once the legacy key is synchronised
  created,   \* history: the attempts whose creation committed
  exposed,   \* history: the attempts whose createJob returned a job
  forgotten, \* history: no key remembered a generation when it was over
  lapsed,    \* history: the legacy key has expired
  faults

registers == <<mine, old, new, next>>
history == <<created, exposed, forgotten, lapsed>>
vars == <<claims, job, pc, registers, history, faults>>

Jobs == [epoch: Attempts \cup {Other}, running: BOOLEAN]

ASSUME NoJobAssumption == NoJob \notin Jobs

RunningJob(epoch) == [epoch |-> epoch, running |-> TRUE]
Ours == job # NoJob /\ job.epoch # Other
Running == job # NoJob /\ job.running

Init ==
  /\ ClaimsInit
  /\ job = NoJob
  /\ pc = [a \in Attempts |-> "idle"]
  /\ mine = [a \in Attempts |-> Fresh(a)]
  /\ old = [a \in Attempts |-> NoClaim]
  /\ new = [a \in Attempts |-> NoClaim]
  /\ next = [a \in Attempts |-> "done"]
  /\ created = {} /\ exposed = {} /\ forgotten = FALSE /\ lapsed = FALSE
  /\ faults = 0

At(a, place) == pc[a] = place
Goto(a, place) == pc' = [pc EXCEPT ![a] = place]
Fault == faults < MaxFaults /\ faults' = faults + 1
NoFault == UNCHANGED faults

Keep(register, a, claim) == register' = [register EXCEPT ![a] = claim]

\* A command is answered; or it fails, executed or not, and the attempt goes elsewhere.
Fails(a, command, place) ==
  /\ Fault
  /\ command \/ UNCHANGED claims
  /\ Goto(a, place)
  /\ UNCHANGED registers

\* synchronizeLegacyGenerationClaim, and then place
Synchronize(a, expected, primary, place) ==
  /\ Goto(a, "sync")
  /\ Keep(old, a, expected) /\ Keep(new, a, primary) /\ next' = [next EXCEPT ![a] = place]
  /\ UNCHANGED mine

\* takeoverIdempotencyKey wins, loses, or fails.
Takes(a, k, expected, claim, won, lost, failed) ==
  /\ \/ /\ NoFault
        /\ \E done \in BOOLEAN :
             Takeover(k, expected, claim, done) /\ Goto(a, IF done THEN won ELSE lost)
     \/ /\ Fault
        /\ UNCHANGED claims \/ \E done \in BOOLEAN : Takeover(k, expected, claim, done)
        /\ Goto(a, failed)
  /\ UNCHANGED registers

-----------------------------------------------------------------------------
(* claimGeneration *)

ClaimLegacy(a) ==
  /\ At(a, "idle")
  /\ \/ /\ Bind("legacy", mine[a]) /\ NoFault
        /\ Keep(old, a, claims.legacy)
        /\ Goto(a, IF Free("legacy") THEN "bind" ELSE "mirror")
        /\ UNCHANGED <<mine, new, next>>
     \/ Fails(a, Bind("legacy", mine[a]), "done")
  /\ UNCHANGED <<job, history>>

\* The legacy key was free; the primary decides.
BindPrimary(a) ==
  /\ At(a, "bind")
  /\ \/ /\ Bind("primary", mine[a]) /\ NoFault
        /\ IF Free("primary") THEN Goto(a, "adopt") /\ UNCHANGED registers
           ELSE Synchronize(a, mine[a], claims.primary, "duplicate")
     \/ Fails(a, Bind("primary", mine[a]), "done")
  /\ UNCHANGED <<job, history>>

\* The legacy key was taken; the primary is its mirror, or repaired from it.
MirrorPrimary(a) ==
  /\ At(a, "mirror")
  /\ \/ /\ Bind("primary", old[a]) /\ NoFault
        /\ LET legacy == old[a]
               primary == Bound("primary", legacy)
           IN IF Behind(legacy, primary)
                THEN Synchronize(a, legacy, primary, "duplicate")
                ELSE /\ Goto(a, IF Mirrors(legacy, primary) THEN "duplicate" ELSE "done")
                     /\ Keep(new, a, primary)
                     /\ UNCHANGED <<mine, old, next>>
     \/ Fails(a, Bind("primary", old[a]), "done")
  /\ UNCHANGED <<job, history>>

\* Without a legacy value that agrees the attempt gives up; a creation being
\* recovered is terminalised.
GivesUp(a) == IF next[a] \in {"repair", "terminalize"} THEN "terminalize" ELSE "done"

Sync(a) ==
  /\ At(a, "sync")
  /\ Takes(a, "legacy", old[a], new[a], next[a], "probe", "probe")
  /\ UNCHANGED <<job, history>>

\* A failed comparison may mean that another replica has written the value.
Probe(a) ==
  /\ At(a, "probe")
  /\ \/ /\ Bind("legacy", new[a]) /\ NoFault
        /\ Goto(a, IF Bound("legacy", new[a]) = new[a] THEN next[a] ELSE GivesUp(a))
        /\ UNCHANGED registers
     \/ Fails(a, Bind("legacy", new[a]), GivesUp(a))
  /\ UNCHANGED <<job, history>>

-----------------------------------------------------------------------------
(* A duplicate: it attaches, waits or takes over *)

\* The answer to a duplicate; only a claim that never made a job, and is old
\* enough, is taken over.
Answer(a) ==
  /\ At(a, "duplicate")
  /\ \/ Goto(a, "done")
     \/ job = NoJob /\ ~HasStarted(new[a]) /\ Goto(a, "expect")
  /\ UNCHANGED <<claims, job, registers, history, faults>>

\* takeoverGeneration reads both keys, ...
ExpectPrimary(a) ==
  /\ At(a, "expect")
  /\ \/ /\ Bind("primary", new[a]) /\ NoFault
        /\ Keep(old, a, Bound("primary", new[a]))
        /\ Goto(a, "compare")
        /\ UNCHANGED <<mine, new, next>>
     \/ Fails(a, Bind("primary", new[a]), "done")
  /\ UNCHANGED <<job, history>>

Compare(a) ==
  /\ At(a, "compare")
  /\ \/ /\ Bind("legacy", new[a]) /\ NoFault
        /\ LET primary == old[a]
               legacy == Bound("legacy", new[a])
           IN IF Behind(legacy, primary)
                THEN Synchronize(a, legacy, primary, "done")
                ELSE /\ IF Mirrors(legacy, primary) /\ ~HasStarted(primary)
                          THEN Goto(a, "take") /\ Keep(mine, a, Successor(a, new[a]))
                          ELSE Goto(a, "done") /\ UNCHANGED mine
                     /\ UNCHANGED <<old, new, next>>
     \/ Fails(a, Bind("legacy", new[a]), "done")
  /\ UNCHANGED <<job, history>>

\* ... and replaces first the primary, ...
TakePrimary(a) ==
  /\ At(a, "take")
  /\ Takes(a, "primary", new[a], mine[a], "takeLegacy", "done", "resolve")
  /\ UNCHANGED <<job, history>>

\* ... then the legacy key; if that fails the primary is given back.
TakeLegacy(a) ==
  /\ At(a, "takeLegacy")
  /\ Takes(a, "legacy", new[a], mine[a], "admit", "undo", "undo")
  /\ UNCHANGED <<job, history>>

Undo(a) ==
  /\ At(a, "undo")
  /\ \/ Release("primary", mine[a]) /\ NoFault /\ Goto(a, "done") /\ UNCHANGED registers
     \/ Fails(a, Release("primary", mine[a]), "done")
  /\ UNCHANGED <<job, history>>

\* The takeover of the primary was not answered: the keys tell.
ResolvePrimary(a) ==
  /\ At(a, "resolve")
  /\ \/ /\ Bind("primary", new[a]) /\ NoFault
        /\ Keep(old, a, Bound("primary", new[a]))
        /\ Goto(a, "resolveLegacy")
        /\ UNCHANGED <<mine, new, next>>
     \/ Fails(a, Bind("primary", new[a]), "done")
  /\ UNCHANGED <<job, history>>

ResolveLegacy(a) ==
  /\ At(a, "resolveLegacy")
  /\ \/ /\ Bind("legacy", new[a]) /\ NoFault
        /\ LET primary == old[a]
               legacy == Bound("legacy", new[a])
               place == IF primary = mine[a] THEN "admit" ELSE "done"
           IN IF Split(legacy, primary) THEN Synchronize(a, legacy, primary, place)
              ELSE Goto(a, IF legacy = primary THEN place ELSE "done") /\ UNCHANGED registers
     \/ Fails(a, Bind("legacy", new[a]), "done")
  /\ UNCHANGED <<job, history>>

-----------------------------------------------------------------------------
(* The owner of a fresh claim: resumeClaimedGeneration *)

\* Mutant: the fresh claim alone admits.
FindJob_Fresh(a) ==
  /\ At(a, "adopt")
  /\ NoFault /\ Goto(a, "admit")
  /\ UNCHANGED <<claims, job, registers, history>>

\* The claim may have expired under a generation that is still alive.
FindJob(a) ==
  /\ At(a, "adopt")
  /\ \/ /\ NoFault
        /\ IF Ours /\ Running
             THEN Goto(a, "bindJob") /\ Keep(new, a, Started(mine[a], job.epoch))
             ELSE Goto(a, "admit") /\ UNCHANGED new
     \/ Fault /\ Goto(a, "done") /\ UNCHANGED new
  /\ UNCHANGED <<claims, job, mine, old, next, history>>

\* adoptIdempotencyKeyForJob: one script over the primary and the job.
Adopts(a) ==
  IF Takeable("primary", mine[a]) /\ job = RunningJob(new[a].started)
    THEN Replace("primary", new[a]) ELSE UNCHANGED claims

BindJob(a) ==
  /\ At(a, "bindJob")
  /\ \/ /\ Adopts(a) /\ NoFault
        /\ IF claims' # claims THEN Synchronize(a, mine[a], new[a], "done")
           ELSE Goto(a, "tombstone") /\ UNCHANGED registers
     \/ Fails(a, Adopts(a), "tombstone")
  /\ UNCHANGED <<job, history>>

\* tombstoneObservedGenerationClaim: the job was seen, so it has started.
Tombstone(a) ==
  /\ At(a, "tombstone")
  /\ Takes(a, "primary", mine[a], new[a], "fence", "tombstoneProbe", "tombstoneProbe")
  /\ UNCHANGED <<job, history>>

TombstoneProbe(a) ==
  /\ At(a, "tombstoneProbe")
  /\ \/ /\ Bind("primary", new[a]) /\ NoFault
        /\ Goto(a, IF Bound("primary", new[a]) = new[a] THEN "fence" ELSE "done")
        /\ UNCHANGED registers
     \/ Fails(a, Bind("primary", new[a]), "done")
  /\ UNCHANGED <<job, history>>

Fence(a) ==
  /\ At(a, "fence")
  /\ Synchronize(a, mine[a], new[a], "done")
  /\ UNCHANGED <<claims, job, history, faults>>

-----------------------------------------------------------------------------
(* createJob *)

\* The concurrency limit.
Admit(a) ==
  /\ At(a, "admit")
  /\ \E place \in {"create", "release"} : Goto(a, place)
  /\ UNCHANGED <<claims, job, registers, history, faults>>

Creatable(a) == Takeable("primary", mine[a])

\* The store creates the job and starts the primary claim in one script.
CommitCreate(a) ==
  /\ Creatable(a)
  /\ Replace("primary", Started(claims.primary, a))
  /\ job' = RunningJob(a)
  /\ created' = created \cup {a}

Create(a) ==
  /\ At(a, "create")
  /\ \/ CommitCreate(a) /\ NoFault /\ Goto(a, "mark")
     \/ CommitCreate(a) /\ Fault /\ Goto(a, "recover")
     \/ /\ (~Creatable(a) /\ NoFault) \/ Fault
        /\ Goto(a, "recover")
        /\ UNCHANGED <<claims, job, created>>
  /\ UNCHANGED <<registers, exposed, forgotten, lapsed>>

\* recoverCommittedCreate: is the job there the one of this attempt?
Recover(a) ==
  /\ At(a, "recover")
  /\ \/ NoFault /\ Goto(a, IF job = RunningJob(a) THEN "prove" ELSE "release")
     \/ Fault /\ Goto(a, "release")
  /\ UNCHANGED <<claims, job, registers, history>>

\* Does the primary say that this attempt has started it?
Proves(a, claim) == claim.token = mine[a].token /\ claim.started = a

\* What a probe offers if the primary were missing, which no longer tells what
\* it took over; while a request is under way no key expires.
Fallback(a) == Started([mine[a] EXCEPT !.previous = NoToken], a)

Prove(a) ==
  /\ At(a, "prove")
  /\ LET primary == Bound("primary", Fallback(a))
     IN \/ /\ Bind("primary", Fallback(a)) /\ NoFault
           /\ IF Proves(a, primary)
                THEN /\ Goto(a, "proveLegacy")
                     /\ Keep(new, a, primary)
                     /\ next' = [next EXCEPT ![a] = IF Free("primary") THEN "terminalize" ELSE "repair"]
                ELSE Goto(a, "terminalize") /\ UNCHANGED <<new, next>>
           /\ UNCHANGED <<mine, old>>
        \/ Fails(a, Bind("primary", Fallback(a)), "terminalize")
  /\ UNCHANGED <<job, history>>

ProveLegacy(a) ==
  /\ At(a, "proveLegacy")
  /\ \/ /\ Bind("legacy", new[a]) /\ NoFault
        /\ LET legacy == Bound("legacy", new[a])
           IN IF legacy # new[a] /\ Mirrors(legacy, new[a])
                THEN Synchronize(a, legacy, new[a], next[a])
                ELSE /\ Goto(a, IF legacy = new[a] THEN next[a] ELSE "terminalize")
                     /\ UNCHANGED registers
     \/ Fails(a, Bind("legacy", new[a]), "terminalize")
  /\ UNCHANGED <<job, history>>

\* The membership of the job is written again; one failure is retried.
Repair(a) ==
  /\ At(a, "repair")
  /\ Goto(a, IF job = RunningJob(a) THEN "mark" ELSE "release")
  /\ UNCHANGED <<claims, job, registers, history, faults>>

\* The legacy key must say started before the provider runs.
MarkLegacy(a) ==
  /\ At(a, "mark")
  /\ \/ /\ NoFault
        /\ \E done \in BOOLEAN :
             /\ MarkStarted("legacy", mine[a], a, done)
             /\ Goto(a, IF done THEN "initializing" ELSE "confirm")
             /\ exposed' = IF done THEN exposed \cup {a} ELSE exposed
     \/ /\ Fault
        /\ UNCHANGED claims \/ \E done \in BOOLEAN : MarkStarted("legacy", mine[a], a, done)
        /\ Goto(a, "confirm")
        /\ UNCHANGED exposed
  /\ UNCHANGED <<job, registers, created, forgotten, lapsed>>

\* confirmLegacyStartedFence: a primary that was missing is no proof.
ConfirmPrimary(a) ==
  /\ At(a, "confirm")
  /\ \/ /\ Bind("primary", Fallback(a)) /\ NoFault
        /\ IF ~Free("primary") /\ Proves(a, claims.primary)
             THEN Goto(a, "confirmLegacy") /\ Keep(new, a, claims.primary)
             ELSE Goto(a, "terminalize") /\ UNCHANGED new
        /\ UNCHANGED <<mine, old, next>>
     \/ Fails(a, Bind("primary", Fallback(a)), "terminalize")
  /\ UNCHANGED <<job, history>>

\* Mutant: any legacy value will do.
Fenced_Anyhow(a) == TRUE

Fenced(a) == Bound("legacy", new[a]) = new[a]

ConfirmLegacy(a) ==
  /\ At(a, "confirmLegacy")
  /\ \/ /\ Bind("legacy", new[a]) /\ NoFault
        /\ Goto(a, IF Fenced(a) THEN "initializing" ELSE "terminalize")
        /\ exposed' = IF Fenced(a) THEN exposed \cup {a} ELSE exposed
        /\ UNCHANGED registers
     \/ Fails(a, Bind("legacy", new[a]), "terminalize") /\ UNCHANGED exposed
  /\ UNCHANGED <<job, created, forgotten, lapsed>>

\* terminalizeUnexposedGeneration, and completeJob of a failed initialisation.
EndOwn(a) == job' = IF job = RunningJob(a) THEN [job EXCEPT !.running = FALSE] ELSE job

Terminalize(a) ==
  /\ At(a, "terminalize")
  /\ EndOwn(a)
  /\ Goto(a, "release")
  /\ UNCHANGED <<claims, registers, history, faults>>

\* The controller initialises the client and starts the provider.
Initialize(a) ==
  /\ At(a, "initializing")
  /\ \/ Goto(a, "running") /\ UNCHANGED job
     \/ EndOwn(a) /\ Goto(a, "release")
  /\ UNCHANGED <<claims, registers, history, faults>>

-----------------------------------------------------------------------------
(* releaseGeneration: the attempt failed, or was refused *)

Releasable(legacy, primary) ==
  Mirrors(legacy, primary) /\ ~HasStarted(legacy) /\ ~HasStarted(primary)

CheckPrimary(a) ==
  /\ At(a, "release")
  /\ \/ /\ Bind("primary", mine[a]) /\ NoFault
        /\ Goto(a, IF Releasable(mine[a], Bound("primary", mine[a])) THEN "releasePrimary" ELSE "done")
        /\ UNCHANGED registers
     \/ Fails(a, Bind("primary", mine[a]), "done")
  /\ UNCHANGED <<job, history>>

ReleasePrimary(a) ==
  /\ At(a, "releasePrimary")
  /\ \/ Release("primary", mine[a]) /\ NoFault /\ Goto(a, "checkLegacy") /\ UNCHANGED registers
     \/ Fails(a, Release("primary", mine[a]), "done")
  /\ UNCHANGED <<job, history>>

CheckLegacy(a) ==
  /\ At(a, "checkLegacy")
  /\ \/ /\ Bind("legacy", mine[a]) /\ NoFault
        /\ Goto(a, IF Releasable(Bound("legacy", mine[a]), mine[a]) THEN "releaseLegacy" ELSE "done")
        /\ UNCHANGED registers
     \/ Fails(a, Bind("legacy", mine[a]), "done")
  /\ UNCHANGED <<job, history>>

ReleaseLegacy(a) ==
  /\ At(a, "releaseLegacy")
  /\ \/ Release("legacy", mine[a]) /\ NoFault /\ Goto(a, "done") /\ UNCHANGED registers
     \/ Fails(a, Release("legacy", mine[a]), "done")
  /\ UNCHANGED <<job, history>>

-----------------------------------------------------------------------------
(* The environment *)

Idle == {"idle", "running", "done"}
Quiet == \A a \in Attempts : pc[a] \in Idle

Remembers == \E k \in Keys : ~Free(k) /\ HasStarted(claims[k])
Forget(over) == forgotten' = (forgotten \/ (created # {} /\ over))

\* A process dies.
Crash(a) ==
  /\ pc[a] \notin {"idle", "done"}
  /\ Fault
  /\ Goto(a, "done")
  /\ UNCHANGED <<claims, job, registers, history>>

\* A day: no request is under way that long, a generation may be.
Expire(k) ==
  /\ Quiet
  /\ ~Free(k)
  /\ Replace(k, NoClaim)
  /\ lapsed' = (lapsed \/ k = "legacy")
  /\ Forget(~(Ours /\ Running) /\ \A l \in Keys \ {k} : Free(l) \/ ~HasStarted(claims[l]))
  /\ UNCHANGED <<job, pc, registers, created, exposed, faults>>

\* The generation ends, by its owner or by the sweep.
EndJob ==
  /\ Running
  /\ Ours => pc[job.epoch] \in {"running", "done"}
  /\ job' = [job EXCEPT !.running = FALSE]
  /\ Forget(Ours /\ ~Remembers)
  /\ UNCHANGED <<claims, pc, registers, created, exposed, lapsed, faults>>

RemoveJob ==
  /\ job # NoJob /\ ~Running
  /\ job' = NoJob
  /\ UNCHANGED <<claims, pc, registers, history, faults>>

\* Another request starts its generation on the stream.
OtherTurn ==
  /\ job = NoJob \/ Ours
  /\ job' = RunningJob(Other)
  /\ Forget(Ours /\ Running /\ ~Remembers)
  /\ UNCHANGED <<claims, pc, registers, created, exposed, lapsed, faults>>

Step(a) ==
  \/ ClaimLegacy(a) \/ BindPrimary(a) \/ MirrorPrimary(a) \/ Sync(a) \/ Probe(a)
  \/ Answer(a) \/ ExpectPrimary(a) \/ Compare(a) \/ TakePrimary(a) \/ TakeLegacy(a) \/ Undo(a)
  \/ ResolvePrimary(a) \/ ResolveLegacy(a)
  \/ FindJob(a) \/ BindJob(a) \/ Tombstone(a) \/ TombstoneProbe(a) \/ Fence(a)
  \/ Admit(a) \/ Create(a) \/ Recover(a) \/ Prove(a) \/ ProveLegacy(a) \/ Repair(a)
  \/ MarkLegacy(a) \/ ConfirmPrimary(a) \/ ConfirmLegacy(a) \/ Terminalize(a) \/ Initialize(a)
  \/ CheckPrimary(a) \/ ReleasePrimary(a) \/ CheckLegacy(a) \/ ReleaseLegacy(a)
  \/ Crash(a)

Next ==
  \/ \E a \in Attempts : Step(a)
  \/ \E k \in Keys : Expire(k)
  \/ EndJob \/ RemoveJob \/ OtherTurn

Spec == Init /\ [][Next]_vars

-----------------------------------------------------------------------------
(* Properties *)

TypeOK ==
  /\ claims \in [Keys -> Claims \cup {NoClaim}]
  /\ job \in Jobs \cup {NoJob}
  /\ mine \in [Attempts -> Claims]
  /\ old \in [Attempts -> Claims \cup {NoClaim}] /\ new \in [Attempts -> Claims \cup {NoClaim}]
  /\ created \subseteq Attempts /\ exposed \subseteq created
  /\ forgotten \in BOOLEAN /\ lapsed \in BOOLEAN /\ faults \in 0 .. MaxFaults

\* One request, posted again and again, starts one generation, as long as a
\* key remembers it or it is alive.
OneGeneration == ~forgotten => Cardinality(created) <= 1

\* A generation only runs when the key that old replicas know says started, and
\* until it expires (GenerationJobManager.ts 2056-2060).
RunIsFenced ==
  ~lapsed => \A a \in exposed : ~Free("legacy") /\ claims.legacy.started = a

\* A key that says a generation has started goes on saying it until it expires.
StartedStays ==
  [][\A k \in Keys : ~Free(k) /\ HasStarted(claims[k]) =>
       claims'[k] = claims[k] \/ \E l \in Keys : Expire(l)]_vars

\* The keys are left so that a later post is answered: one is missing, they
\* agree, or they differ as the next attempt repairs.  It does not hold: a
\* mirror written from a value read before a release or a takeover leaves two
\* claims that nothing reconciles until a key expires (README).
NeverWedged ==
  Quiet /\ ~lapsed =>
    \/ \E k \in Keys : Free(k)
    \/ Mirrors(claims.legacy, claims.primary)
    \/ Split(claims.legacy, claims.primary)
=============================================================================
