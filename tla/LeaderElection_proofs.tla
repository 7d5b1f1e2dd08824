------------------------ MODULE LeaderElection_proofs ------------------------
(***************************************************************************)
(* Proofs about LeaderElection, for any servers, callers, lease and        *)
(* attempts, and any number of failed commands.                            *)
(***************************************************************************)
EXTENDS LeaderElection, SequenceTheorems, TLAPS

LEMMA TypeInit == Init => TypeOK
<1>. SUFFICES ASSUME Init PROVE TypeOK
  OBVIOUS
<1>. USE LeaderAssumption, TimingAssumption
<1>1. NoTimer \in NoTimer .. Renew
  BY DEF NoTimer
<1>2. ttl \in 0 .. Lease /\ failures \in 0 .. MaxFailures
  BY DEF Init
<1> QED
  BY <1>1, <1>2 DEF Init, TypeOK

\* A reply is a reply, and is queued behind the others.
LEMMA AnswerType ==
  ASSUME TypeOK, NEW s \in Servers, NEW of \in {"get", "set", "renew"}, NEW c \in Calls \cup {NoLeader},
         NEW attempt \in 1 .. Attempts + 1, NEW ok \in BOOLEAN, Answer(s, Reply(of, c, attempt, ok))
  PROVE  inbox' \in [Servers -> Seq(Replies)]
<1>1. Reply(of, c, attempt, ok) \in Replies
  BY DEF Reply, Replies, TypeOK
<1> QED
  BY <1>1 DEF Answer, TypeOK

LEMMA ReachesType ==
  ASSUME TypeOK, NEW ok \in BOOLEAN, Reaches(ok)
  PROVE  failures' \in 0 .. MaxFailures
BY TimingAssumption DEF TypeOK, Reaches

LEMMA LeaseType ==
  ASSUME TypeOK, NEW s \in Servers
  PROVE  /\ Granted(s) => key' \in Servers \cup {NoLeader} /\ ttl' \in 0 .. Lease /\ (ttl' = 0 <=> key' = NoLeader)
         /\ Released(s) => key' \in Servers \cup {NoLeader} /\ ttl' \in 0 .. Lease /\ (ttl' = 0 <=> key' = NoLeader)
         /\ Extended(s) => ttl' \in 0 .. Lease /\ (ttl' = 0 <=> key = NoLeader)
<1>. USE LeaderAssumption, TimingAssumption DEF TypeOK
<1>1. ASSUME Granted(s)
      PROVE  key' \in Servers \cup {NoLeader} /\ ttl' \in 0 .. Lease /\ (ttl' = 0 <=> key' = NoLeader)
  BY <1>1 DEF Granted
<1>2. ASSUME Released(s)
      PROVE  key' \in Servers \cup {NoLeader} /\ ttl' \in 0 .. Lease /\ (ttl' = 0 <=> key' = NoLeader)
  BY <1>2 DEF Released
<1>3. ASSUME Extended(s) PROVE ttl' \in 0 .. Lease /\ (ttl' = 0 <=> key = NoLeader)
  BY <1>3 DEF Extended
<1> QED
  BY <1>1, <1>2, <1>3

LEMMA RemoveAtType ==
  ASSUME NEW S, NEW seq \in Seq(S), NEW i \in DOMAIN seq
  PROVE  RemoveAt(seq, i) \in Seq(S)
<1>1. i \in 1 .. Len(seq)
  OBVIOUS
<1>2. SubSeq(seq, 1, i - 1) \in Seq(S) /\ SubSeq(seq, i + 1, Len(seq)) \in Seq(S)
  BY <1>1, SubSeqProperties
<1> QED
  BY <1>2 DEF RemoveAt

LEMMA TypeStep == TypeOK /\ [Next]_vars => TypeOK'
<1>. SUFFICES ASSUME TypeOK, [Next]_vars PROVE TypeOK'
  OBVIOUS
<1>. USE TimingAssumption, LeaderAssumption
<1>1. 1 \in 1 .. Attempts + 1 /\ {NoTimer, Renew} \subseteq NoTimer .. Renew
      /\ 2 .. Attempts + 1 \subseteq 1 .. Attempts + 1
  BY DEF NoTimer
<1>2. ASSUME NEW s \in Servers, NEW c \in Calls, NEW ok \in BOOLEAN, Ask(s, c, ok) PROVE TypeOK'
  <2>1. inbox' \in [Servers -> Seq(Replies)]
    BY <1>1, <1>2, AnswerType DEF Ask
  <2>2. failures' \in 0 .. MaxFailures
    BY <1>2, ReachesType DEF Ask
  <2>3. call' \in [Servers -> [Calls -> {"idle", "asking", "waiting", "claiming"}]]
    BY <1>2 DEF Ask, TypeOK
  <2> QED
    BY <1>2, <2>1, <2>2, <2>3 DEF Ask, TypeOK
<1>3. ASSUME NEW s \in Servers, NEW c \in Calls, NEW ok \in BOOLEAN, ElectSelf(s, c, ok) PROVE TypeOK'
  <2>1. inbox' \in [Servers -> Seq(Replies)]
    BY <1>1, <1>3, AnswerType DEF ElectSelf
  <2>2. failures' \in 0 .. MaxFailures
    BY <1>3, ReachesType DEF ElectSelf
  <2>3. call' \in [Servers -> [Calls -> {"idle", "asking", "waiting", "claiming"}]]
    BY <1>3 DEF ElectSelf, TypeOK
  <2>4. key' \in Servers \cup {NoLeader} /\ ttl' \in 0 .. Lease /\ (ttl' = 0 <=> key' = NoLeader)
    BY <1>3, LeaseType DEF ElectSelf, TypeOK
  <2> QED
    BY <1>3, <2>1, <2>2, <2>3, <2>4 DEF ElectSelf, TypeOK
<1>4. ASSUME NEW s \in Servers, NEW attempt \in 1 .. Attempts + 1, NEW ok \in BOOLEAN,
             RenewLeadership(s, attempt, ok),
             timer' \in [Servers -> NoTimer .. Renew], retries' \in [Servers -> Seq(2 .. Attempts + 1)]
      PROVE  TypeOK'
  <2>1. inbox' \in [Servers -> Seq(Replies)]
    BY <1>4, AnswerType DEF RenewLeadership
  <2>2. failures' \in 0 .. MaxFailures
    BY <1>4, ReachesType DEF RenewLeadership
  <2>3. ttl' \in 0 .. Lease /\ (ttl' = 0 <=> key = NoLeader)
    BY <1>4, LeaseType DEF RenewLeadership, TypeOK
  <2> QED
    BY <1>4, <2>1, <2>2, <2>3 DEF RenewLeadership, TypeOK
<1>5. ASSUME NEW s \in Servers, NEW ok \in BOOLEAN, TimerFires(s, ok) PROVE TypeOK'
  <2>1. timer' \in [Servers -> NoTimer .. Renew]
    BY <1>1, <1>5 DEF TimerFires, TypeOK
  <2>2. RenewLeadership(s, 1, ok) /\ retries' = retries
    BY <1>5 DEF TimerFires
  <2>3. retries' \in [Servers -> Seq(2 .. Attempts + 1)]
    BY <2>2 DEF TypeOK
  <2> QED
    BY <1>1, <1>4, <2>1, <2>2, <2>3
<1>6. ASSUME NEW s \in Servers, NEW ok \in BOOLEAN, NEW i \in DOMAIN retries[s], Retry(s, i, ok) PROVE TypeOK'
  <2>1. retries[s] \in Seq(2 .. Attempts + 1)
    BY DEF TypeOK
  <2>2. retries[s][i] \in 1 .. Attempts + 1 /\ RemoveAt(retries[s], i) \in Seq(2 .. Attempts + 1)
    BY <1>1, <2>1, RemoveAtType
  <2>3. retries' \in [Servers -> Seq(2 .. Attempts + 1)]
    BY <1>6, <2>2 DEF Retry, TypeOK
  <2>4. RenewLeadership(s, retries[s][i], ok) /\ timer' = timer
    BY <1>6 DEF Retry
  <2>5. timer' \in [Servers -> NoTimer .. Renew]
    BY <2>4 DEF TypeOK
  <2> QED
    BY <1>4, <2>2, <2>3, <2>4, <2>5
<1>7. ASSUME NEW s \in Servers, NEW ok \in BOOLEAN, Resign(s, ok) PROVE TypeOK'
  <2>1. failures' \in 0 .. MaxFailures
    BY <1>7, ReachesType DEF Resign
  <2>2. timer' \in [Servers -> NoTimer .. Renew]
    BY <1>1, <1>7 DEF Resign, ClearRefreshTimer, TypeOK
  <2>3. key' \in Servers \cup {NoLeader} /\ ttl' \in 0 .. Lease /\ (ttl' = 0 <=> key' = NoLeader)
    BY <1>7, LeaseType DEF Resign, TypeOK
  <2>4. resigned' \subseteq Servers
    BY <1>7 DEF Resign, TypeOK
  <2>5. UNCHANGED <<call, inbox, retries, up, prompt>>
    BY <1>7 DEF Resign
  <2> QED
    BY <2>1, <2>2, <2>3, <2>4, <2>5 DEF TypeOK
<1>8. ASSUME NEW s \in Servers, NEW ok \in BOOLEAN, Receive(s, ok) PROVE TypeOK'
  <2>. DEFINE r == [Head(inbox[s]) EXCEPT !.failed = @ \/ ~ok]
  <2>1. inbox[s] \in Seq(Replies) /\ inbox[s] # <<>>
    BY <1>8 DEF Receive, TypeOK
  <2>2. Head(inbox[s]) \in Replies /\ Tail(inbox[s]) \in Seq(Replies)
    BY <2>1
  <2>3. r \in Replies /\ r.of = Head(inbox[s]).of
    BY <2>2 DEF Replies
  <2>4. inbox' \in [Servers -> Seq(Replies)]
    BY <1>8, <2>2 DEF Receive, TypeOK
  <2>5. failures' \in 0 .. MaxFailures
    BY <1>8, ReachesType DEF Receive
  <2>6. \/ r.of = "get" /\ Asked(s, r)
        \/ r.of = "set" /\ Claimed(s, r)
        \/ r.of = "renew" /\ Renewed(s, r)
    BY <1>8, <2>3 DEF Receive, Replies
  <2>7. call' \in [Servers -> [Calls -> {"idle", "asking", "waiting", "claiming"}]]
    <3>. DEFINE Places == {"idle", "asking", "waiting", "claiming"}
    <3>1. ASSUME NEW x \in Places, call' = [call EXCEPT ![s][r.call] = x]
          PROVE  call' \in [Servers -> [Calls -> Places]]
      <4>1. [call[s] EXCEPT ![r.call] = x] \in [Calls -> Places]
        BY DEF TypeOK
      <4> QED
        BY <3>1, <4>1 DEF TypeOK
    <3>2. CASE Asked(s, r)
      BY <3>1, <3>2 DEF Asked
    <3>3. CASE Claimed(s, r)
      BY <3>1, <3>3 DEF Claimed
    <3>4. CASE Renewed(s, r)
      BY <3>4 DEF Renewed, TypeOK
    <3> QED
      BY <2>6, <3>2, <3>3, <3>4
  <2>8. timer' \in [Servers -> NoTimer .. Renew]
    <3>. DEFINE Times == NoTimer .. Renew
    <3>1. timer \in [Servers -> Times]
      BY DEF TypeOK
    <3>2. ASSUME NEW x \in Times, timer' = [timer EXCEPT ![s] = x]
          PROVE  timer' \in [Servers -> Times]
      BY <3>1, <3>2
    <3>3. CASE Asked(s, r)
      BY <3>1, <3>3 DEF Asked
    <3>4. CASE Claimed(s, r)
      BY <1>1, <3>1, <3>2, <3>4 DEF Claimed
    <3>5. CASE Renewed(s, r)
      BY <1>1, <3>1, <3>2, <3>5 DEF Renewed, ClearRefreshTimer
    <3> QED
      BY <2>6, <3>3, <3>4, <3>5
  <2>9. retries' \in [Servers -> Seq(2 .. Attempts + 1)]
    <3>1. r.attempt <= Attempts => r.attempt + 1 \in 2 .. Attempts + 1
      BY <2>3 DEF Replies
    <3>2. retries[s] \in Seq(2 .. Attempts + 1)
      BY DEF TypeOK
    <3>3. r.attempt <= Attempts => Append(retries[s], r.attempt + 1) \in Seq(2 .. Attempts + 1)
      BY <3>1, <3>2
    <3> QED
      BY <2>6, <3>3 DEF Asked, Claimed, Renewed, TypeOK
  <2> QED
    BY <1>8, <2>4, <2>5, <2>7, <2>8, <2>9 DEF Receive, TypeOK
<1>9. CASE Tick
  <2>1. key' \in Servers \cup {NoLeader} /\ ttl' \in 0 .. Lease /\ (ttl' = 0 <=> key' = NoLeader)
    BY <1>9 DEF Tick, TypeOK
  <2>2. timer' \in [Servers -> NoTimer .. Renew]
    BY <1>9 DEF Tick, TypeOK, NoTimer
  <2> QED
    BY <1>9, <2>1, <2>2 DEF Tick, TypeOK
<1>10. ASSUME NEW s \in Servers, Crash(s) PROVE TypeOK'
  BY <1>1, <1>10 DEF Crash, ClearRefreshTimer, TypeOK
<1>11. CASE UNCHANGED vars
  BY <1>11 DEF vars, TypeOK
<1> QED
  BY <1>2, <1>3, <1>5, <1>6, <1>7, <1>8, <1>9, <1>10, <1>11 DEF Next, TimerDue, ReplyDue

\* Every variable keeps its type, and a lease exists exactly with its key.
THEOREM TypeCorrect == Spec => []TypeOK
BY TypeInit, TypeStep, PTL DEF Spec

\* No server's renewal, resignation or late reply ends or extends the lease of
\* another (the scripts of renewLeadership and resign compare the holder).
THEOREM LeasesAreTheHolders == Spec => LeaseIsTheHolders
<1>. DEFINE Own == /\ key # NoLeader /\ key' # key => ttl = 1 \/ key \in resigned' \ resigned
                   /\ key # NoLeader /\ ttl' > ttl => inbox'[key] # inbox[key]
<1>1. TypeOK /\ [Next]_vars => [Own]_vars
  <2>. SUFFICES ASSUME TypeOK, Next PROVE Own
    OBVIOUS
  <2>. USE TimingAssumption, LeaderAssumption
  <2>1. ASSUME UNCHANGED <<key, ttl>> PROVE Own
    BY <2>1 DEF TypeOK
  <2>2. ASSUME NEW s \in Servers, NEW c \in Calls, NEW ok \in BOOLEAN, ElectSelf(s, c, ok) PROVE Own
    BY <2>1, <2>2 DEF ElectSelf, Granted
  <2>3. ASSUME NEW s \in Servers, NEW attempt, NEW ok \in BOOLEAN, RenewLeadership(s, attempt, ok) PROVE Own
    <3>1. CASE UNCHANGED ttl
      BY <2>1, <2>3, <3>1 DEF RenewLeadership
    <3>2. CASE key = s /\ ttl' # ttl
      <4>1. inbox[s] \in Seq(Replies)
        BY DEF TypeOK
      <4>2. \A r : Append(inbox[s], r) # inbox[s]
        <5>1. \A r : Len(Append(inbox[s], r)) = Len(inbox[s]) + 1 /\ Len(inbox[s]) \in Nat
          BY <4>1
        <5> QED
          BY <5>1
      <4> QED
        BY <2>3, <3>2, <4>2 DEF RenewLeadership, Answer, TypeOK
    <3> QED
      BY <2>3, <3>1, <3>2 DEF RenewLeadership, Extended
  <2>4. ASSUME NEW s \in Servers, NEW ok \in BOOLEAN, Resign(s, ok) PROVE Own
    BY <2>1, <2>4 DEF Resign, Released, TypeOK
  <2>5. CASE Tick
    BY <2>5 DEF Tick, TypeOK
  <2>6. ASSUME NEW s \in Servers, TimerDue(s) PROVE Own
    BY <2>3, <2>6 DEF TimerDue, TimerFires, Retry
  <2>7. ASSUME NEW s \in Servers, \/ ReplyDue(s) \/ Crash(s)
                                  \/ \E ok \in BOOLEAN, c \in Calls : Ask(s, c, ok)
        PROVE  Own
    BY <2>1, <2>7 DEF ReplyDue, Receive, Crash, Ask
  <2> QED
    BY <2>2, <2>4, <2>5, <2>6, <2>7 DEF Next
<1>2. Spec => [][Own]_vars
  BY <1>1, TypeCorrect, PTL DEF Spec
<1> QED
  BY <1>2 DEF LeaseIsTheHolders

-----------------------------------------------------------------------------
(* A prompt leader keeps its lease *)

\* The server will try again: a renewal of its failed.
Debt(s) ==
  \/ retries[s] # <<>>
  \/ \E i \in DOMAIN inbox[s] : inbox[s][i].of = "renew" /\ inbox[s][i].failed

\* The server has been granted the lease and has not read so.
Winning(s) ==
  \E i \in DOMAIN inbox[s] :
    inbox[s][i].of = "set" /\ ~inbox[s][i].failed /\ inbox[s][i].value = NoLeader

\* What a server knows of the lease, a failed renewal aside, is true, and its
\* timer is ahead of the end of the lease.
Secure(s) ==
  /\ timer[s] # NoTimer => key = s /\ (timer[s] < ttl \/ Debt(s))
  /\ Winning(s) => key = s /\ ttl = Lease

LeaseInv == prompt => \A s \in up \ resigned : Secure(s)

\* Nothing happens to a server whose lease is not cut and whose own state stays.
LEMMA SecureFrame ==
  ASSUME TypeOK, TypeOK', NEW s \in Servers, Secure(s),
         inbox'[s] = inbox[s], retries'[s] = retries[s], timer'[s] = timer[s],
         key = s => key' = s /\ ttl' \in ttl .. Lease
  PROVE  Secure(s)'
<1>1. Debt(s)' = Debt(s) /\ Winning(s)' = Winning(s)
  BY DEF Debt, Winning
<1>2. ttl \in Int /\ ttl' \in Int /\ Lease \in Int /\ timer[s] \in Int
  BY TimingAssumption DEF TypeOK, NoTimer
<1>3. timer'[s] # NoTimer => key' = s /\ (timer'[s] < ttl' \/ Debt(s)')
  BY <1>1, <1>2 DEF Secure
<1>4. Winning(s)' => key' = s /\ ttl' = Lease
  BY <1>1, <1>2 DEF Secure
<1> QED
  BY <1>3, <1>4 DEF Secure

\* What a further reply adds to a server's inbox.
LEMMA AnswerAdds ==
  ASSUME TypeOK, NEW s \in Servers, NEW r, Answer(s, r)
  PROVE  /\ \A u \in Servers \ {s} : inbox'[u] = inbox[u]
         /\ (\E i \in DOMAIN inbox[s] : inbox[s][i].of = "renew" /\ inbox[s][i].failed)
              => \E i \in DOMAIN inbox'[s] : inbox'[s][i].of = "renew" /\ inbox'[s][i].failed
         /\ r.of = "renew" /\ r.failed
              => \E i \in DOMAIN inbox'[s] : inbox'[s][i].of = "renew" /\ inbox'[s][i].failed
         /\ Winning(s)' => Winning(s) \/ (r.of = "set" /\ ~r.failed /\ r.value = NoLeader)
<1>. DEFINE q == inbox[s]
            n == Len(inbox[s])
<1>1. q \in Seq(Replies) /\ n \in Nat
  BY DEF TypeOK
<1>2. inbox'[s] = Append(q, r)
  BY DEF Answer, TypeOK
<1>3. DOMAIN q = 1 .. n /\ DOMAIN inbox'[s] = 1 .. n + 1
  BY <1>1, <1>2
<1>4. (\A i \in 1 .. n : inbox'[s][i] = q[i]) /\ inbox'[s][n + 1] = r
  BY <1>1, <1>2
<1>5. \A u \in Servers \ {s} : inbox'[u] = inbox[u]
  BY DEF Answer, TypeOK
<1>6. \A i \in 1 .. n : i \in 1 .. n + 1
  BY <1>1
<1>7. n + 1 \in 1 .. n + 1
  BY <1>1
<1>8. \A i \in 1 .. n + 1 : i \in 1 .. n \/ i = n + 1
  BY <1>1
<1>. HIDE DEF q, n
<1>9. Winning(s)' => Winning(s) \/ (r.of = "set" /\ ~r.failed /\ r.value = NoLeader)
  <2>1. SUFFICES ASSUME NEW i \in 1 .. n + 1, inbox'[s][i].of = "set", ~inbox'[s][i].failed,
                        inbox'[s][i].value = NoLeader
                 PROVE  Winning(s) \/ (r.of = "set" /\ ~r.failed /\ r.value = NoLeader)
    BY <1>3 DEF Winning
  <2> QED
    BY <1>3, <1>4, <1>8, <2>1 DEF Winning, q
<1> QED
  BY <1>3, <1>4, <1>5, <1>6, <1>7, <1>9 DEF q

\* What is left when the first reply has been read.
LEMMA TailKeeps ==
  ASSUME TypeOK, NEW s \in Servers, inbox[s] # <<>>, inbox'[s] = Tail(inbox[s])
  PROVE  /\ Winning(s)' => Winning(s)
         /\ (\E i \in DOMAIN inbox[s] : inbox[s][i].of = "renew" /\ inbox[s][i].failed)
              => \/ Head(inbox[s]).of = "renew" /\ Head(inbox[s]).failed
                 \/ \E i \in DOMAIN inbox'[s] : inbox'[s][i].of = "renew" /\ inbox'[s][i].failed
         /\ Head(inbox[s]).of = "set" /\ ~Head(inbox[s]).failed /\ Head(inbox[s]).value = NoLeader
              => Winning(s)
<1>. DEFINE q == inbox[s]
            n == Len(inbox[s])
<1>1. q \in Seq(Replies) /\ q # <<>> /\ n \in Nat \ {0}
  BY DEF TypeOK
<1>2. DOMAIN q = 1 .. n /\ Head(q) = q[1] /\ 1 \in 1 .. n
  BY <1>1
<1>3. DOMAIN inbox'[s] = 1 .. n - 1 /\ \A i \in 1 .. n - 1 : inbox'[s][i] = q[i + 1] /\ i + 1 \in 1 .. n
  BY <1>1
<1>4. \A i \in 1 .. n : i = 1 \/ (i - 1 \in 1 .. n - 1 /\ (i - 1) + 1 = i)
  BY <1>1
<1>. HIDE DEF q, n
<1>5. Winning(s)' => Winning(s)
  BY <1>2, <1>3 DEF Winning, q
<1>6. ASSUME NEW i \in 1 .. n, q[i].of = "renew", q[i].failed, i # 1
      PROVE  \E j \in DOMAIN inbox'[s] : inbox'[s][j].of = "renew" /\ inbox'[s][j].failed
  <2>1. i - 1 \in DOMAIN inbox'[s] /\ inbox'[s][i - 1] = q[i]
    BY <1>3, <1>4, <1>6
  <2> QED
    BY <1>6, <2>1
<1>7. q[1].of = "set" /\ ~q[1].failed /\ q[1].value = NoLeader => Winning(s)
  BY <1>2 DEF Winning, q
<1> QED
  BY <1>2, <1>5, <1>6, <1>7 DEF q

LEMMA SecureInit == Init => LeaseInv
<1>. SUFFICES ASSUME Init, NEW s \in Servers PROVE Secure(s)
  BY DEF LeaseInv, Init
<1>1. timer[s] = NoTimer /\ DOMAIN inbox[s] = {}
  BY DEF Init
<1> QED
  BY <1>1 DEF Secure, Winning

\* A renewal either extends the lease its server has, or leaves a debt.
LEMMA SecureRenewal ==
  ASSUME TypeOK, TypeOK', Renew < Lease, NEW s \in Servers, NEW attempt, NEW ok \in BOOLEAN,
         RenewLeadership(s, attempt, ok), Secure(s), timer[s] # NoTimer => key = s,
         timer'[s] # NoTimer => timer[s] # NoTimer
  PROVE  Secure(s)'
<1>. DEFINE r == Reply("renew", NoLeader, attempt, ok)
<1>1. Answer(s, r) /\ key' = key
  BY DEF RenewLeadership
<1>2. r.of = "renew" /\ r.failed = ~ok
  BY DEF Reply
<1>3. ok /\ key = s => ttl' = Lease
  BY DEF RenewLeadership, Extended
<1>4. ~ok \/ key # s => ttl' = ttl
  BY DEF RenewLeadership, Extended
<1>5. ~ok => Debt(s)'
  BY <1>1, <1>2, AnswerAdds DEF Debt
<1>6. timer'[s] # NoTimer => key' = s /\ (timer'[s] < ttl' \/ Debt(s)')
  <2>1. timer'[s] \in Int /\ timer'[s] <= Renew /\ Renew \in Int /\ Lease \in Int
    BY TimingAssumption DEF TypeOK, NoTimer
  <2>2. timer'[s] < Lease
    BY <2>1
  <2> QED
    BY <1>1, <1>3, <1>5, <2>2
<1>7. Winning(s)' => key' = s /\ ttl' = Lease
  <2>1. Winning(s)' => Winning(s)
    BY <1>1, <1>2, AnswerAdds
  <2> QED
    BY <1>1, <1>3, <1>4, <2>1 DEF Secure
<1> QED
  BY <1>6, <1>7 DEF Secure

LEMMA SecureStep ==
  ASSUME TypeOK, TypeOK', LeaseInv, Renew < Lease, [Next]_vars
  PROVE  LeaseInv'
<1>. USE TimingAssumption, LeaderAssumption
<1>1. prompt' = prompt
  BY DEF Next, TimerDue, ReplyDue, Tick, TimerFires, Retry, RenewLeadership, Receive, Ask, ElectSelf,
         Resign, Crash, vars
<1>2. up' \subseteq up /\ resigned \subseteq resigned' /\ up \subseteq Servers
  BY DEF Next, TimerDue, ReplyDue, Tick, TimerFires, Retry, RenewLeadership, Receive, Ask, ElectSelf,
         Resign, Crash, vars, TypeOK
<1>. SUFFICES ASSUME prompt, NEW u \in up' \ resigned' PROVE Secure(u)'
  BY <1>1 DEF LeaseInv
<1>3. u \in Servers /\ u \in up \ resigned /\ Secure(u)
  BY <1>2 DEF LeaseInv
<1>4. ttl \in 0 .. Lease /\ ttl \in ttl .. Lease /\ Lease \in ttl .. Lease
  BY DEF TypeOK
<1>5. ASSUME NEW s \in Servers, NEW c \in Calls, NEW ok \in BOOLEAN, Ask(s, c, ok) PROVE Secure(u)'
  <2>1. Answer(s, Reply("get", c, 1, ok)) /\ UNCHANGED <<key, ttl, timer, retries>>
    BY <1>5 DEF Ask
  <2>2. Reply("get", c, 1, ok).of = "get"
    BY DEF Reply
  <2>3. CASE u # s
    BY <1>3, <1>4, <2>1, <2>3, AnswerAdds, SecureFrame
  <2>4. CASE u = s
    <3>1. (Winning(u)' => Winning(u)) /\ (Debt(u) => Debt(u)')
      BY <2>1, <2>2, <2>4, AnswerAdds DEF Debt
    <3> QED
      BY <1>3, <2>1, <3>1 DEF Secure
  <2> QED
    BY <2>3, <2>4
<1>6. ASSUME NEW s \in Servers, NEW c \in Calls, NEW ok \in BOOLEAN, ElectSelf(s, c, ok) PROVE Secure(u)'
  <2>. DEFINE r == Reply("set", c, 1, ok)
  <2>1. Answer(s, r) /\ UNCHANGED <<timer, retries>>
    BY <1>6 DEF ElectSelf
  <2>2. r.of = "set" /\ r.value = key /\ r.failed = ~ok
    BY DEF Reply
  <2>3. IF ok /\ key = NoLeader THEN key' = s /\ ttl' = Lease ELSE UNCHANGED <<key, ttl>>
    BY <1>6 DEF ElectSelf, Granted
  <2>4. key = u => key' = u /\ ttl' \in ttl .. Lease
    BY <1>3, <1>4, <2>3
  <2>5. CASE u # s
    BY <1>3, <2>1, <2>4, <2>5, AnswerAdds, SecureFrame
  <2>6. CASE u = s
    <3>1. (Winning(u)' => Winning(u) \/ (ok /\ key = NoLeader)) /\ (Debt(u) => Debt(u)')
      BY <2>1, <2>2, <2>6, AnswerAdds DEF Debt
    <3>2. Winning(u)' => key' = u /\ ttl' = Lease
      BY <1>3, <2>3, <2>6, <3>1 DEF Secure
    <3>3. timer'[u] # NoTimer => key' = u /\ (timer'[u] < ttl' \/ Debt(u)')
      BY <1>3, <2>1, <2>3, <3>1 DEF Secure
    <3> QED
      BY <3>2, <3>3 DEF Secure
  <2> QED
    BY <2>5, <2>6
<1>7. ASSUME NEW s \in Servers, NEW attempt, NEW ok \in BOOLEAN, RenewLeadership(s, attempt, ok),
             u # s => retries'[u] = retries[u] /\ timer'[u] = timer[u],
             u = s => (timer'[u] # NoTimer => timer[u] # NoTimer)
      PROVE  Secure(u)'
  <2>1. CASE u # s
    <3>1. Answer(s, Reply("renew", NoLeader, attempt, ok)) /\ key' = key /\ (key # s => ttl' = ttl)
      BY <1>7 DEF RenewLeadership, Extended
    <3>2. key = u => key' = u /\ ttl' \in ttl .. Lease
      BY <1>4, <2>1, <3>1
    <3>3. inbox'[u] = inbox[u]
      BY <1>3, <2>1, <3>1, AnswerAdds
    <3> QED
      BY <1>3, <1>7, <2>1, <3>2, <3>3, SecureFrame
  <2>2. CASE u = s
    <3>1. timer[u] # NoTimer => key = u
      BY <1>3 DEF Secure
    <3> QED
      BY <1>3, <1>7, <2>2, <3>1, SecureRenewal
  <2> QED
    BY <2>1, <2>2
<1>8. ASSUME NEW s \in Servers, NEW ok \in BOOLEAN, TimerFires(s, ok) PROVE Secure(u)'
  <2>1. RenewLeadership(s, 1, ok)
    BY <1>8 DEF TimerFires
  <2>2. u # s => retries'[u] = retries[u] /\ timer'[u] = timer[u]
    BY <1>3, <1>8 DEF TimerFires, TypeOK
  <2>3. u = s => timer[u] # NoTimer
    BY <1>8 DEF TimerFires, NoTimer
  <2> QED
    BY <1>7, <2>1, <2>2, <2>3
<1>9. ASSUME NEW s \in Servers, NEW ok \in BOOLEAN, NEW i \in DOMAIN retries[s], Retry(s, i, ok)
      PROVE  Secure(u)'
  <2>1. RenewLeadership(s, retries[s][i], ok) /\ timer' = timer
    BY <1>9 DEF Retry
  <2>2. u # s => retries'[u] = retries[u]
    BY <1>3, <1>9 DEF Retry, TypeOK
  <2> QED
    BY <1>7, <2>1, <2>2
<1>10. ASSUME NEW s \in Servers, NEW ok \in BOOLEAN, Resign(s, ok) PROVE Secure(u)'
  <2>1. u # s
    BY <1>2, <1>10 DEF Resign
  <2>2. timer'[u] = timer[u] /\ inbox'[u] = inbox[u] /\ retries'[u] = retries[u]
    BY <1>3, <1>10, <2>1 DEF Resign, ClearRefreshTimer, TypeOK
  <2>3. key = u => key' = u /\ ttl' \in ttl .. Lease
    BY <1>4, <1>10, <2>1 DEF Resign, Released
  <2> QED
    BY <1>3, <2>2, <2>3, SecureFrame
<1>11. ASSUME NEW s \in Servers, Crash(s) PROVE Secure(u)'
  <2>1. u # s
    BY <1>11 DEF Crash
  <2>2. timer'[u] = timer[u] /\ inbox'[u] = inbox[u] /\ retries'[u] = retries[u]
    BY <1>3, <1>11, <2>1 DEF Crash, ClearRefreshTimer, TypeOK
  <2>3. key = u => key' = u /\ ttl' \in ttl .. Lease
    BY <1>4, <1>11 DEF Crash
  <2> QED
    BY <1>3, <2>2, <2>3, SecureFrame
<1>12. CASE Tick
  <2>1. timer[u] # 0 /\ inbox[u] = <<>> /\ retries[u] = <<>> /\ inbox' = inbox
    BY <1>3, <1>12 DEF Tick, Idle
  <2>2. DOMAIN inbox[u] = {} /\ DOMAIN inbox'[u] = {}
    BY <2>1
  <2>3. ~Winning(u)' /\ ~Debt(u)
    BY <2>1, <2>2 DEF Winning, Debt
  <2>4. timer[u] \in NoTimer .. Renew /\ timer'[u] = IF timer[u] > 0 THEN timer[u] - 1 ELSE timer[u]
    BY <1>3, <1>12 DEF Tick, TypeOK
  <2>5. ASSUME timer'[u] # NoTimer PROVE key' = u /\ timer'[u] < ttl'
    <3>1. timer[u] > 0 /\ timer'[u] = timer[u] - 1
      BY <2>1, <2>4, <2>5 DEF NoTimer
    <3>2. key = u /\ timer[u] < ttl
      BY <1>3, <2>3, <3>1 DEF Secure, NoTimer
    <3>3. ttl # 1 /\ ttl \in 1 .. Lease /\ ttl' = ttl - 1
      BY <1>4, <1>12, <2>4, <3>1, <3>2 DEF Tick, NoTimer
    <3> QED
      BY <1>4, <1>12, <2>4, <3>1, <3>2, <3>3 DEF Tick, NoTimer
  <2> QED
    BY <2>3, <2>5 DEF Secure
<1>13. ASSUME NEW s \in Servers, NEW ok \in BOOLEAN, Receive(s, ok) PROVE Secure(u)'
  <2>. DEFINE h == Head(inbox[s])
              r == [h EXCEPT !.failed = @ \/ ~ok]
  <2>1. inbox[s] # <<>> /\ h \in Replies /\ UNCHANGED <<key, ttl>>
    <3>1. inbox[s] # <<>> /\ UNCHANGED <<key, ttl>>
      BY <1>13 DEF Receive
    <3>2. inbox[s] \in Seq(Replies)
      BY DEF TypeOK
    <3> QED
      BY <3>1, <3>2
  <2>2. r.of = h.of /\ r.value = h.value /\ r.attempt = h.attempt /\ (r.failed <=> h.failed \/ ~ok)
    BY <2>1 DEF Replies
  <2>3. \/ r.of = "get" /\ Asked(s, r)
        \/ r.of = "set" /\ Claimed(s, r)
        \/ r.of = "renew" /\ Renewed(s, r)
    BY <1>13, <2>1, <2>2 DEF Receive, Replies
  <2>4. key = u => key' = u /\ ttl' \in ttl .. Lease
    BY <1>4, <2>1
  <2>. HIDE DEF r, h
  <2>5. CASE u # s
    <3>1. inbox'[u] = inbox[u]
      BY <1>3, <1>13, <2>5 DEF Receive, TypeOK
    <3>2. timer'[u] = timer[u] /\ retries'[u] = retries[u]
      <4>1. timer' = timer \/ \E x : timer' = [timer EXCEPT ![s] = x]
        BY <2>3 DEF Asked, Claimed, Renewed, ClearRefreshTimer
      <4>2. retries' = retries \/ \E x : retries' = [retries EXCEPT ![s] = x]
        BY <2>3 DEF Asked, Claimed, Renewed
      <4> QED
        BY <1>3, <2>5, <4>1, <4>2 DEF TypeOK
    <3> QED
      BY <1>3, <2>4, <3>1, <3>2, SecureFrame
  <2>6. CASE u = s
    <3>1. inbox'[u] = Tail(inbox[u])
      BY <1>3, <1>13, <2>6 DEF Receive, TypeOK
    <3>2. /\ Winning(u)' => Winning(u)
          /\ (\E i \in DOMAIN inbox[u] : inbox[u][i].of = "renew" /\ inbox[u][i].failed)
               => \/ h.of = "renew" /\ h.failed
                  \/ \E i \in DOMAIN inbox'[u] : inbox'[u][i].of = "renew" /\ inbox'[u][i].failed
          /\ h.of = "set" /\ ~h.failed /\ h.value = NoLeader => Winning(u)
      BY <1>3, <2>1, <2>6, <3>1, TailKeeps DEF h
    <3>3. Winning(u)' => key' = u /\ ttl' = Lease
      BY <1>3, <2>1, <3>2 DEF Secure
    <3>4. ASSUME timer'[u] # NoTimer PROVE key' = u /\ (timer'[u] < ttl' \/ Debt(u)')
      <4>1. CASE r.of = "get" /\ Asked(s, r)
        BY <1>3, <2>1, <2>2, <3>2, <3>4, <4>1 DEF Asked, Secure, Debt
      <4>2. CASE r.of = "set" /\ Claimed(s, r)
        <5>1. CASE ~r.failed /\ r.value = NoLeader
          <6>1. key' = u /\ ttl' = Lease
            BY <1>3, <2>1, <2>2, <3>2, <4>2, <5>1 DEF Secure
          <6>2. timer'[u] = Renew
            BY <1>3, <2>6, <4>2, <5>1 DEF Claimed, TypeOK
          <6> QED
            BY <6>1, <6>2
        <5>2. CASE ~(~r.failed /\ r.value = NoLeader)
          BY <1>3, <2>1, <2>2, <3>2, <3>4, <4>2, <5>2 DEF Claimed, Secure, Debt
        <5> QED
          BY <5>1, <5>2
      <4>3. CASE r.of = "renew" /\ Renewed(s, r)
        <5>1. CASE r.failed /\ r.attempt <= Attempts
          <6>1. retries'[u] = Append(retries[u], r.attempt + 1) /\ timer' = timer
            BY <1>3, <2>6, <4>3, <5>1 DEF Renewed, TypeOK
          <6>2. retries'[u] # <<>>
            <7>1. retries[u] \in Seq(2 .. Attempts + 1)
              BY <1>3 DEF TypeOK
            <7>2. Len(retries'[u]) = Len(retries[u]) + 1 /\ Len(retries[u]) \in Nat
              BY <6>1, <7>1
            <7> QED
              BY <7>2
          <6> QED
            BY <1>3, <2>1, <3>4, <6>1, <6>2 DEF Secure, Debt
        <5>2. CASE ~(r.failed /\ r.attempt <= Attempts) /\ (r.failed \/ r.value # s)
          BY <1>3, <2>6, <3>4, <4>3, <5>2 DEF Renewed, ClearRefreshTimer, TypeOK
        <5>3. CASE ~(r.failed /\ r.attempt <= Attempts) /\ ~(r.failed \/ r.value # s)
          BY <1>3, <2>1, <2>2, <3>2, <3>4, <4>3, <5>3 DEF Renewed, Secure, Debt
        <5> QED
          BY <5>1, <5>2, <5>3
      <4> QED
        BY <2>3, <4>1, <4>2, <4>3
    <3> QED
      BY <3>3, <3>4 DEF Secure
  <2> QED
    BY <2>5, <2>6
<1>14. CASE UNCHANGED vars
  BY <1>3, <1>4, <1>14, SecureFrame DEF vars
<1> QED
  BY <1>5, <1>6, <1>8, <1>9, <1>10, <1>11, <1>12, <1>13, <1>14 DEF Next, TimerDue, ReplyDue

\* If timers and replies are prompt and the renewal interval is shorter than the
\* lease (as the defaults of cluster/config.ts are), a server that renews its
\* lease has it, whatever commands fail, servers crash or callers ask.
THEOREM PromptLeaderLeads == Renew < Lease => (Spec => []LeaseKept)
<1>. SUFFICES ASSUME Renew < Lease PROVE Spec => []LeaseKept
  OBVIOUS
<1>1. Init => LeaseInv
  BY SecureInit
<1>2. TypeOK /\ TypeOK' /\ LeaseInv /\ [Next]_vars => LeaseInv'
  BY SecureStep
<1>3. LeaseInv => LeaseKept
  BY DEF LeaseInv, LeaseKept, Secure
<1>4. Spec => []LeaseInv
  BY <1>1, <1>2, TypeCorrect, PTL DEF Spec
<1> QED
  BY <1>3, <1>4, PTL
=============================================================================
