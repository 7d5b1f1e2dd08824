---------------------------- MODULE PendingRequests ----------------------------
(***************************************************************************)
(* The counter of a user's pending requests on Redis                       *)
(* (middleware/concurrency.ts).  Both scripts are atomic.                  *)
(***************************************************************************)
EXTENDS Integers

CONSTANT Limit   \* CONCURRENT_MESSAGE_MAX, at least 1

ASSUME LimitAssumption == Limit \in Nat \ {0}

VARIABLE pending   \* the value of the key; 0 when it does not exist

PendingInit == pending = 0

\* Mutant: one more than the limit.
CheckAndIncrement_OneMore(allowed) ==
  /\ allowed = (pending <= Limit)
  /\ pending' = IF allowed THEN pending + 1 ELSE pending

\* CHECK_AND_INCREMENT_SCRIPT: what goes over the limit is taken back.
CheckAndIncrement(allowed) ==
  /\ allowed = (pending < Limit)
  /\ pending' = IF allowed THEN pending + 1 ELSE pending

\* DECREMENT_SCRIPT: at zero or below the key goes.
Decrement == pending' = IF pending > 0 THEN pending - 1 ELSE 0

\* The key lives a minute from the last increment, tried or done.
Expire ==
  /\ pending > 0
  /\ pending' = 0
=============================================================================
