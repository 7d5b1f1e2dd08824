-------------------------------- MODULE Account --------------------------------
(***************************************************************************)
(* The balance record of a user, each operation one command of MongoDB     *)
(* (methods/transaction.ts, middleware/checkBalance.ts).                   *)
(***************************************************************************)
EXTENDS Integers

CONSTANTS
  NoRecord,      \* the user has no balance record, or a reader has read nothing
  StartBalance,  \* balanceConfig.startBalance
  RefillAmount,  \* refillAmount; the automatic refill is configured
  Cost           \* tokenCost, what a turn must be able to pay to start

ASSUME AccountAssumption ==
  /\ StartBalance \in Nat /\ RefillAmount \in Nat \ {0} /\ Cost \in Nat
  /\ NoRecord \notin Nat

VARIABLES
  credits,  \* tokenCredits
  due       \* the refill interval has passed since lastRefill

AccountInit ==
  /\ credits \in {NoRecord, StartBalance}
  /\ due = FALSE

\* checkBalanceRecord
CanSpend(balance) == balance >= Cost
NeedsRefill == credits - Cost <= 0 /\ due

\* upsertBalanceFields: writes the start balance over whatever is there.
Upsert ==
  /\ credits' = StartBalance
  /\ due' = FALSE

\* Mutant: the update does not compare.
Matches_Always(seen) == TRUE

\* updateBalance: findOneAndUpdate({ user, tokenCredits: currentCredits }).
Matches(seen) == seen = credits

\* ... { $set: { tokenCredits: newCredits } }, never below zero.
New(seen, amount) == IF seen + amount < 0 THEN 0 ELSE seen + amount

\* Mutant: the date of the refill is not set.
Refilled_Undated == UNCHANGED due

\* createAutoRefillTransaction: lastRefill is set with the credits.
Refilled == due' = FALSE

\* Time: another refill may be made.
IntervalPasses ==
  /\ credits # NoRecord /\ ~due
  /\ due' = TRUE
  /\ UNCHANGED credits
=============================================================================
