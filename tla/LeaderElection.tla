---------------------------- MODULE LeaderElection ----------------------------
(***************************************************************************)
(* Leader election through one Redis key (cluster/LeaderElection.ts).      *)
(*                                                                         *)
(* A server asks whether it leads; if nobody does it waits a moment and    *)
(* claims the key with SET NX EX.  A leader renews its lease from an       *)
(* interval timer, with retries.  Every command of a server is answered on *)
(* one connection, in order.  Time is a tick; the lease and the timers     *)
(* count down.                                                             *)
(***************************************************************************)
EXTENDS Integers, Sequences, SequencesExt

CONSTANTS
  Servers,      \* the processes, by UUID
  Calls,        \* the callers of isLeader within a process
  NoLeader,     \* the key does not exist
  Lease,        \* LEADER_LEASE_DURATION
  Renew,        \* LEADER_RENEW_INTERVAL
  Attempts,     \* LEADER_RENEW_ATTEMPTS
  Paces,        \* TRUE: no timer or reply takes longer than a tick; FALSE: some may
  MaxFailures,  \* bound on the commands that fail
  MaxUnread     \* bound on the renewals of a server that are not answered

ASSUME LeaderAssumption == NoLeader \notin Servers

ASSUME TimingAssumption ==
  /\ Lease \in Nat \ {0} /\ Renew \in Nat \ {0} /\ Attempts \in Nat
  /\ Paces \subseteq BOOLEAN /\ MaxFailures \in Nat /\ MaxUnread \in Nat

VARIABLES
  key,        \* the UUID in the leadership key
  ttl,        \* what is left of the lease
  timer,      \* refreshTimer: time to the next renewal, NoTimer when cleared
  call,       \* where each call of isLeader is
  inbox,      \* the replies a server has not read yet
  retries,    \* renewals waiting to be tried again, by attempt
  up,         \* the processes that run
  resigned,   \* the processes that have resigned
  failures,   \* number of failed commands
  prompt      \* the pace of this behaviour

vars == <<key, ttl, timer, call, inbox, retries, up, resigned, failures, prompt>>

NoTimer == -1

Replies ==
  [of: {"get", "set", "renew"}, call: Calls \cup {NoLeader}, value: Servers \cup {NoLeader},
   attempt: 1 .. Attempts + 1, failed: BOOLEAN]

Init ==
  /\ key = NoLeader
  /\ ttl = 0
  /\ timer = [s \in Servers |-> NoTimer]
  /\ call = [s \in Servers |-> [c \in Calls |-> "idle"]]
  /\ inbox = [s \in Servers |-> <<>>]
  /\ retries = [s \in Servers |-> <<>>]
  /\ up = Servers
  /\ resigned = {}
  /\ failures = 0
  /\ prompt \in Paces

\* A command reaches Redis, or fails before it does.
Reaches(ok) == (ok \/ failures < MaxFailures) /\ failures' = IF ok THEN failures ELSE failures + 1

Reply(of, c, attempt, ok) ==
  [of |-> of, call |-> c, value |-> key, attempt |-> attempt, failed |-> ~ok]

Answer(s, reply) == inbox' = [inbox EXCEPT ![s] = Append(@, reply)]

\* clearRefreshTimer
ClearRefreshTimer(s) == timer' = [timer EXCEPT ![s] = NoTimer]

-----------------------------------------------------------------------------
(* isLeader *)

\* getLeaderUUID
Ask(s, c, ok) ==
  /\ s \in up \ resigned
  /\ call[s][c] = "idle"
  /\ call' = [call EXCEPT ![s][c] = "asking"]
  /\ Reaches(ok)
  /\ Answer(s, Reply("get", c, 1, ok))
  /\ UNCHANGED <<key, ttl, timer, retries, up, resigned, prompt>>

\* Seeded bug: the lease has no end.
Granted_WithoutExpiry(s) ==
  IF key = NoLeader THEN key' = s /\ ttl' = Lease + 1 ELSE UNCHANGED <<key, ttl>>

\* SET NX EX
Granted(s) == IF key = NoLeader THEN key' = s /\ ttl' = Lease ELSE UNCHANGED <<key, ttl>>

\* electSelf, after the random delay; the reply carries the key as it was.
ElectSelf(s, c, ok) ==
  /\ s \in up
  /\ call[s][c] = "waiting"
  /\ call' = [call EXCEPT ![s][c] = "claiming"]
  /\ Reaches(ok)
  /\ IF ok THEN Granted(s) ELSE UNCHANGED <<key, ttl>>
  /\ Answer(s, Reply("set", c, 1, ok))
  /\ UNCHANGED <<timer, retries, up, resigned, prompt>>

-----------------------------------------------------------------------------
(* The lease *)

\* Seeded bug: a renewal looks at the key and does not extend it.
Extended_Forgotten(s) == UNCHANGED ttl

\* The renewal script: check and extend.
Extended(s) == IF key = s THEN ttl' = Lease ELSE UNCHANGED ttl

RenewLeadership(s, attempt, ok) ==
  /\ Reaches(ok)
  /\ IF ok THEN Extended(s) ELSE UNCHANGED ttl
  /\ Answer(s, Reply("renew", NoLeader, attempt, ok))
  /\ UNCHANGED <<key, call, up, resigned, prompt>>

\* The interval timer fires and starts again.
TimerFires(s, ok) ==
  /\ s \in up
  /\ timer[s] = 0
  /\ Len(SelectSeq(inbox[s], LAMBDA r : r.of = "renew")) < MaxUnread
  /\ timer' = [timer EXCEPT ![s] = Renew]
  /\ RenewLeadership(s, 1, ok)
  /\ UNCHANGED retries

\* A failed renewal is tried again after a pause.
Retry(s, i, ok) ==
  /\ s \in up
  /\ retries' = [retries EXCEPT ![s] = RemoveAt(@, i)]
  /\ RenewLeadership(s, retries[s][i], ok)
  /\ UNCHANGED timer

\* Seeded bug: the key goes whoever holds it.
Released_Anybodys(s) == IF key # NoLeader THEN key' = NoLeader /\ ttl' = 0 ELSE UNCHANGED <<key, ttl>>

\* The script of resign: check and delete.
Released(s) == IF key = s THEN key' = NoLeader /\ ttl' = 0 ELSE UNCHANGED <<key, ttl>>

\* resign, on SIGTERM; the process goes on until it has drained.
Resign(s, ok) ==
  /\ s \in up \ resigned
  /\ resigned' = resigned \cup {s}
  /\ ClearRefreshTimer(s)
  /\ Reaches(ok)
  /\ IF ok THEN Released(s) ELSE UNCHANGED <<key, ttl>>
  /\ UNCHANGED <<call, inbox, retries, up, prompt>>

-----------------------------------------------------------------------------
(* Replies *)

\* What isLeader does with the leader it read.
Asked(s, r) ==
  /\ call' = [call EXCEPT ![s][r.call] = IF ~r.failed /\ r.value = NoLeader THEN "waiting" ELSE "idle"]
  /\ UNCHANGED <<timer, retries>>

\* Only a claim that found no leader starts the timer.
Claimed(s, r) ==
  /\ call' = [call EXCEPT ![s][r.call] = "idle"]
  /\ timer' = IF ~r.failed /\ r.value = NoLeader THEN [timer EXCEPT ![s] = Renew] ELSE timer
  /\ UNCHANGED retries

\* Seeded bug: a server that lost the lease keeps its timer.
Renewed_KeepsTimer(s, r) == UNCHANGED <<call, timer, retries>>

\* A renewal that found another leader, or failed too often, ends the timer.
Renewed(s, r) ==
  /\ IF r.failed /\ r.attempt <= Attempts
       THEN retries' = [retries EXCEPT ![s] = Append(@, r.attempt + 1)] /\ UNCHANGED timer
       ELSE /\ IF r.failed \/ r.value # s THEN ClearRefreshTimer(s) ELSE UNCHANGED timer
            /\ UNCHANGED retries
  /\ UNCHANGED call

\* The next reply is read; it may have been lost although the command ran.
Receive(s, ok) ==
  /\ s \in up
  /\ inbox[s] # <<>>
  /\ Reaches(ok)
  /\ inbox' = [inbox EXCEPT ![s] = Tail(@)]
  /\ LET r == [Head(inbox[s]) EXCEPT !.failed = @ \/ ~ok]
     IN  CASE r.of = "get" -> Asked(s, r)
           [] r.of = "set" -> Claimed(s, r)
           [] r.of = "renew" -> Renewed(s, r)
  /\ UNCHANGED <<key, ttl, up, resigned, prompt>>

-----------------------------------------------------------------------------
(* Time and crashes *)

\* Nothing is due.
Idle ==
  \A s \in up : timer[s] # 0 /\ inbox[s] = <<>> /\ retries[s] = <<>>

Tick ==
  /\ prompt => Idle
  /\ ttl' = IF ttl \in 1 .. Lease THEN ttl - 1 ELSE ttl
  /\ key' = IF ttl = 1 THEN NoLeader ELSE key
  /\ timer' = [s \in Servers |-> IF timer[s] > 0 THEN timer[s] - 1 ELSE timer[s]]
  /\ UNCHANGED <<call, inbox, retries, up, resigned, failures, prompt>>

Crash(s) ==
  /\ s \in up
  /\ up' = up \ {s}
  /\ ClearRefreshTimer(s)
  /\ call' = [call EXCEPT ![s] = [c \in Calls |-> "idle"]]
  /\ inbox' = [inbox EXCEPT ![s] = <<>>]
  /\ retries' = [retries EXCEPT ![s] = <<>>]
  /\ UNCHANGED <<key, ttl, resigned, failures, prompt>>

\* What a server's timers owe it.
TimerDue(s) ==
  \E ok \in BOOLEAN :
    TimerFires(s, ok) \/ \E i \in DOMAIN retries[s] : Retry(s, i, ok)

\* What its connection owes it.
ReplyDue(s) == \E ok \in BOOLEAN : Receive(s, ok)

Next ==
  \/ Tick
  \/ \E s \in Servers :
       \/ TimerDue(s) \/ ReplyDue(s)
       \/ \E ok \in BOOLEAN, c \in Calls : Ask(s, c, ok) \/ ElectSelf(s, c, ok)
       \/ \E ok \in BOOLEAN : Resign(s, ok)
       \/ Crash(s)

Spec == Init /\ [][Next]_vars

(***************************************************************************)
(* Time passes, timers fire and connections answer; nobody has to ask, to  *)
(* resign or to crash.                                                     *)
(***************************************************************************)
Fairness == WF_vars(Tick) /\ \A s \in Servers : WF_vars(TimerDue(s)) /\ WF_vars(ReplyDue(s))

FairSpec == Spec /\ Fairness

-----------------------------------------------------------------------------
(* Properties *)

\* Every variable has its type, and a lease exists exactly with its key.
TypeOK ==
  /\ key \in Servers \cup {NoLeader}
  /\ ttl \in 0 .. Lease /\ (ttl = 0 <=> key = NoLeader)
  /\ timer \in [Servers -> NoTimer .. Renew]
  /\ call \in [Servers -> [Calls -> {"idle", "asking", "waiting", "claiming"}]]
  /\ inbox \in [Servers -> Seq(Replies)]
  /\ retries \in [Servers -> Seq(2 .. Attempts + 1)]
  /\ up \subseteq Servers /\ resigned \subseteq Servers /\ failures \in 0 .. MaxFailures
  /\ prompt \in Paces

\* If nothing is slow, a server that renews its lease has it: it never loses it
\* to time, not even while some renewals fail and are tried again.
LeaseKept ==
  prompt => \A s \in up \ resigned : timer[s] # NoTimer => key = s

\* No server's renewal, resignation or late reply ends or extends the lease
\* of another: a key changes hands by running out or by its holder's resignation.
LeaseIsTheHolders ==
  [][/\ key # NoLeader /\ key' # key => ttl = 1 \/ key \in resigned' \ resigned
     /\ key # NoLeader /\ ttl' > ttl => inbox'[key] # inbox[key]]_vars

\* A leader that no longer renews, dead or out of attempts, is not leader for ever.
LeaseRunsOut ==
  ~prompt => \A s \in Servers : key = s /\ timer[s] = NoTimer ~> key # s \/ timer[s] # NoTimer

\* A server that lost the lease finds out and stops renewing.
LoserStops ==
  ~prompt => \A s \in Servers : timer[s] # NoTimer /\ key # s ~> timer[s] = NoTimer \/ key = s

\* What the class comment says of a shutdown: the key is free at once.
ResignedHoldsNothing == \A s \in resigned : failures = 0 => key # s
=============================================================================
