------------------------------- MODULE ClaimKeys -------------------------------
(***************************************************************************)
(* The claim of one start request, kept twice: under the key that old      *)
(* replicas know and under one in the slot of the stream                   *)
(* (stream/GenerationJobManager.ts).  Every command is atomic on one key.  *)
(***************************************************************************)
CONSTANTS
  Attempts,    \* the times the client posts the request
  NoClaim,     \* the key does not exist
  NotStarted   \* startedAt is missing

ASSUME ClaimAssumption == NotStarted \notin Attempts

VARIABLE claims   \* the value under each key

Keys == {"legacy", "primary"}

\* claimToken: an attempt draws one for its claim and one to take over.
Tokens == Attempts \X {"claim", "takeover"}
NoToken == <<>>

\* TokenIdempotencyClaim; claimedAt is drawn with the token, startedAt is the
\* epoch of the job, named by the attempt that created it.
Claims == [token: Tokens, previous: Tokens \cup {NoToken}, started: Attempts \cup {NotStarted}]

ASSUME NoClaimAssumption == NoClaim \notin Claims

Fresh(a) == [token |-> <<a, "claim">>, previous |-> NoToken, started |-> NotStarted]
Successor(a, claim) == [token |-> <<a, "takeover">>, previous |-> claim.token, started |-> NotStarted]
Started(claim, epoch) == [claim EXCEPT !.started = epoch]
HasStarted(claim) == claim.started # NotStarted

ClaimsInit == claims = [k \in Keys |-> NoClaim]

Free(k) == claims[k] = NoClaim
Held(k, claim) == ~Free(k) /\ claims[k].token = claim.token

\* What claimIdempotencyKey answers: the value offered, or the one there.
Bound(k, claim) == IF Free(k) THEN claim ELSE claims[k]

\* claimIdempotencyKey: SET NX.
Bind(k, claim) == claims' = [claims EXCEPT ![k] = Bound(k, claim)]

\* takeoverIdempotencyKey
Takeable(k, claim) == Held(k, claim) /\ ~HasStarted(claims[k])
Replace(k, claim) == claims' = [claims EXCEPT ![k] = claim]

\* Mutant: a started claim is taken over.
Takeover_Started(k, expected, claim, done) ==
  /\ done = Held(k, expected)
  /\ IF done THEN Replace(k, claim) ELSE UNCHANGED claims

Takeover(k, expected, claim, done) ==
  /\ done = Takeable(k, expected)
  /\ IF done THEN Replace(k, claim) ELSE UNCHANGED claims

\* markIdempotencyKeyStarted
MarkStarted(k, claim, epoch, done) ==
  /\ done = (Held(k, claim) /\ claims[k].started \in {NotStarted, epoch})
  /\ IF done THEN Replace(k, Started(claims[k], epoch)) ELSE UNCHANGED claims

\* releaseIdempotencyKey
Release(k, claim) == IF Held(k, claim) THEN Replace(k, NoClaim) ELSE UNCHANGED claims

\* assertClaimMirrors: only the primary may be ahead, by its startedAt.
Mirrors(legacy, primary) ==
  /\ legacy.token = primary.token /\ legacy.previous = primary.previous
  /\ legacy.started \in {NotStarted, primary.started}

\* isRecoverableTakeoverSplit
Split(legacy, primary) ==
  /\ ~HasStarted(legacy) /\ ~HasStarted(primary)
  /\ primary.previous = legacy.token /\ primary.token # legacy.token

\* The legacy key has missed the last step of the primary.
Behind(legacy, primary) ==
  \/ Split(legacy, primary)
  \/ Mirrors(legacy, primary) /\ HasStarted(primary) /\ ~HasStarted(legacy)
=============================================================================
