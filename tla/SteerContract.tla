---------------------------- MODULE SteerContract ----------------------------
(***************************************************************************)
(* What the steering of a conversation promises about every message the    *)
(* user was told is accepted: it waits for a tool boundary and is applied  *)
(* to the run once, or the run ends first and it is handed back, to be     *)
(* sent as an ordinary message once or thrown away by the user.  It is     *)
(* never lost, never used twice, and a confirmed cancellation is final.    *)
(***************************************************************************)
CONSTANT Steers

VARIABLE life

Lives == {"fresh", "waiting", "applied", "leftover", "recovered", "cancelled", "lapsed"}

Move(S, from, to) ==
  /\ \A s \in S : life[s] \in from
  /\ life' = [s \in Steers |-> IF s \in S THEN to ELSE life[s]]

Init == life = [s \in Steers |-> "fresh"]

Accept(s) == Move({s}, {"fresh"}, "waiting")

\* The words reached the model.
Apply(s) == Move({s}, {"waiting"}, "applied")

\* The run ended before some steers were applied.
HandBack(S) == Move(S, {"waiting"}, "leftover")

\* The words were sent again, as an ordinary message.
Recover(s) == Move({s}, {"leftover"}, "recovered")

\* The user takes the steer back.
Cancel(s) == Move({s}, {"waiting", "leftover", "lapsed"}, "cancelled")

\* Nobody came back for the leftovers within their time to live.
Lapse(S) == Move(S, {"leftover"}, "lapsed")

Next ==
  \/ \E s \in Steers : Accept(s) \/ Apply(s) \/ Recover(s) \/ Cancel(s)
  \/ \E S \in SUBSET Steers : S # {} /\ (HandBack(S) \/ Lapse(S))

Spec == Init /\ [][Next]_life
=============================================================================
