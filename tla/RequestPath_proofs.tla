------------------------- MODULE RequestPath_proofs -------------------------
(***************************************************************************)
(* Proofs about RequestPath, for any finite number of requests, any limit, *)
(* any prices and any number of faults.                                    *)
(***************************************************************************)
EXTENDS RequestPath, FiniteSetTheorems, TLAPS

\* Where a request may be between its pause and its end.
Parting == {"debiting", "releasing", "failing"}

\* The counter respects the limit, and a slot is only marked as released
\* between the pause and the end of its request.
SlotInv ==
  /\ pending <= Limit
  /\ \A r \in released : pc[r] \in Parting
  /\ CounterTellsHolders

Inv == TypeOK /\ SlotInv

\* What an update writes is a balance, and what it adds is what it should add.
LEMMA NewBalance ==
  ASSUME NEW n \in Nat
  PROVE  /\ New(n, RefillAmount) \in Nat /\ New(n, RefillAmount) = n + RefillAmount
         /\ New(n, -Charge) \in Nat /\ New(n, -Charge) = IF n < Charge THEN 0 ELSE n - Charge
BY AccountAssumption, RequestAssumption DEF New

LEMMA InitInv == Init => Inv
<1>. SUFFICES ASSUME Init PROVE Inv
  OBVIOUS
<1>1. TypeOK
  <2>1. 0 \in 0 .. MaxAttempts - 1 /\ 0 \in 0 .. MaxFaults
    BY RequestAssumption
  <2>2. /\ pending \in Nat /\ credits \in Nat \cup {NoRecord} /\ due \in BOOLEAN
        /\ uncounted \in Nat /\ leaked \in Nat /\ doubled \in Nat /\ inits \in Nat /\ refills \in Nat
    BY AccountAssumption DEF Init, PendingInit, AccountInit
  <2>3. /\ pc \in [Requests -> Places] /\ turn \in [Requests -> Requests]
        /\ seen \in [Requests -> Nat \cup {NoRecord}]
        /\ attempt \in [Requests -> 0 .. MaxAttempts - 1] /\ faults \in 0 .. MaxFaults
    BY <2>1 DEF Init, Places
  <2> QED
    BY <2>2, <2>3 DEF Init, TypeOK
<1>2. Holding = {}
  BY DEF Init, Holding, Over
<1>3. Cardinality(Holding) = 0
  BY <1>2, FS_EmptySet
<1> QED
  BY <1>1, <1>3, LimitAssumption DEF Init, PendingInit, Inv, SlotInv, CounterTellsHolders, Unknown

\* Every step keeps the types.
LEMMA TypeStep == TypeOK /\ [Next]_vars => TypeOK'
<1>. SUFFICES ASSUME TypeOK, [Next]_vars PROVE TypeOK'
  OBVIOUS
<1>. USE AccountAssumption, RequestAssumption, LimitAssumption
<1>22. inits \in Nat /\ refills \in Nat /\ due \in BOOLEAN
  BY DEF TypeOK
<1>1. ASSUME NEW r \in Requests, NEW place \in Places, Enter(r, place)
      PROVE  /\ pending' \in Nat /\ uncounted' \in Nat /\ leaked' \in Nat /\ doubled' \in Nat
             /\ faults' \in 0 .. MaxFaults /\ pc' \in [Requests -> Places]
  BY <1>1 DEF Enter, CheckAndIncrement, NoFault, Fault, Goto, TypeOK, Places, slotHistory
<1>2. ASSUME Leave
      PROVE  /\ pending' \in Nat /\ uncounted' \in Nat /\ leaked' \in Nat /\ doubled' \in Nat
             /\ faults' \in 0 .. MaxFaults
  BY <1>2 DEF Leave, Decrement, NoFault, Fault, TypeOK, slotHistory
<1>3. ASSUME NEW r \in Requests, Admit(r) PROVE TypeOK'
  <2>1. Enter(r, "admitted")
    BY <1>3 DEF Admit
  <2> QED
    BY <2>1, <1>1, <1>3 DEF Admit, TypeOK, Places, updateVars, accountVars
<1>4. ASSUME NEW r \in Requests, NEW t \in Requests, Resume(r, t) PROVE TypeOK'
  <2>1. Enter(r, "resuming")
    BY <1>4 DEF Resume
  <2> QED
    BY <2>1, <1>1, <1>4 DEF Resume, TypeOK, Places, updateVars, accountVars
<1>5. ASSUME NEW r \in Requests, ClaimResume(r) PROVE TypeOK'
  BY <1>5 DEF ClaimResume, At, Goto, NoFault, Fault, TypeOK, Places, updateVars, accountVars, slotHistory
<1>6. ASSUME NEW r \in Requests, TearDown(r) \/ FinishPause(r) \/ Finish(r) PROVE TypeOK'
  <2>1. /\ pending' \in Nat /\ uncounted' \in Nat /\ leaked' \in Nat /\ doubled' \in Nat
        /\ faults' \in 0 .. MaxFaults
    <3>1. CASE Leave
      BY <1>2, <3>1
    <3>2. CASE LeaveAgain
      BY <3>2 DEF LeaveAgain, Decrement, NoFault, Fault, TypeOK, slotHistory
    <3>3. CASE UNCHANGED <<pending, slotHistory, faults>>
      BY <3>3 DEF TypeOK, slotHistory
    <3> QED
      BY <1>6, <3>1, <3>2, <3>3 DEF TearDown, FinishPause, Finish
  <2>2. Ends(r)
    BY <1>6 DEF TearDown, FinishPause, Finish
  <2> QED
    BY <2>1, <2>2 DEF Ends, Goto, TypeOK, Places, updateVars, accountVars
<1>23. ASSUME NEW r \in Requests, FailPause(r) PROVE TypeOK'
  BY <1>23 DEF FailPause, Goto, Fault, TypeOK, Places, updateVars, accountVars, slotHistory
<1>7. ASSUME NEW r \in Requests, CheckBalance(r) PROVE TypeOK'
  BY <1>7 DEF CheckBalance, Goto, TypeOK, Places, accountVars, slotHistory
<1>8. ASSUME NEW r \in Requests, Initialize(r) PROVE TypeOK'
  <2>1. pc' \in [Requests -> Places] /\ faults' \in 0 .. MaxFaults
    <3>1. \E place \in Places : Goto(r, place)
      BY <1>8 DEF Initialize, Places
    <3>2. NoFault \/ Fault
      BY <1>8 DEF Initialize
    <3> QED
      BY <3>1, <3>2 DEF Goto, NoFault, Fault, TypeOK
  <2>2. credits' \in Nat \cup {NoRecord} /\ due' \in BOOLEAN /\ inits' \in Nat
    <3>1. CASE Upsert /\ inits' = inits + 1
      <4>1. due' \in BOOLEAN
        BY <3>1, Zenon DEF Upsert
      <4>2. credits' \in Nat /\ inits' \in Nat
        BY <3>1, <1>22 DEF Upsert
      <4> QED
        BY <4>1, <4>2
    <3>2. CASE UNCHANGED <<credits, due, inits>>
      BY <3>2 DEF TypeOK
    <3> QED
      BY <3>1, <3>2, <1>8 DEF Initialize
  <2> QED
    BY <2>1, <2>2, <1>8 DEF Initialize, TypeOK, updateVars, slotHistory
<1>9. ASSUME NEW r \in Requests, ReadBalance(r) PROVE TypeOK'
  BY <1>9 DEF ReadBalance, TypeOK, requestVars, slotHistory, accountVars
<1>10. ASSUME NEW r \in Requests, NEW next \in Places, Retry(r, next)
       PROVE  seen' \in [Requests -> Nat \cup {NoRecord}] /\ attempt' \in [Requests -> 0 .. MaxAttempts - 1]
              /\ pc' \in [Requests -> Places]
  BY <1>10 DEF Retry, Goto, TypeOK
<1>11. ASSUME NEW r \in Requests, NEW next \in Places, Succeeds(r, next)
       PROVE  seen' \in [Requests -> Nat \cup {NoRecord}] /\ attempt' \in [Requests -> 0 .. MaxAttempts - 1]
              /\ pc' \in [Requests -> Places]
  BY <1>11 DEF Succeeds, Goto, TypeOK
<1>12. ASSUME NEW r \in Requests, Misses(r, Refill(r)) \/ Misses(r, Debited(r)) \/ Refill(r) \/ Debited(r),
              seen[r] # NoRecord
       PROVE  credits' \in Nat \cup {NoRecord} /\ due' \in BOOLEAN /\ inits' \in Nat /\ refills' \in Nat
  <2>1. seen[r] \in Nat
    BY <1>12 DEF TypeOK
  <2>2. New(seen[r], RefillAmount) \in Nat /\ New(seen[r], -Charge) \in Nat
    BY <2>1, NewBalance
  <2> QED
    <3>1. CASE Refill(r)
      <4>1. due' \in BOOLEAN
        BY <3>1, Zenon DEF Refill, Refilled
      <4>2. credits' \in Nat /\ inits' \in Nat /\ refills' \in Nat
        BY <3>1, <2>2, <1>22 DEF Refill
      <4> QED
        BY <4>1, <4>2
    <3>2. CASE Debited(r)
      BY <3>2, <2>2 DEF Debited, TypeOK
    <3>3. CASE UNCHANGED accountVars
      BY <3>3 DEF accountVars, TypeOK
    <3> QED
      BY <3>1, <3>2, <3>3, <1>12 DEF Misses
<1>13. ASSUME NEW r \in Requests, Credit(r) PROVE TypeOK'
  <2>1. /\ \/ Misses(r, Refill(r)) /\ \E next \in Places : Retry(r, next)
           \/ Refill(r) /\ \E next \in Places : Succeeds(r, next)
        /\ seen[r] # NoRecord
    BY <1>13 DEF Credit, Places
  <2>2. faults' \in 0 .. MaxFaults /\ covered' \subseteq Requests
    <3>1. NoFault \/ Fault
      BY <1>13 DEF Credit, Misses, Succeeds
    <3> QED
      BY <3>1, <1>13 DEF Credit, NoFault, Fault, TypeOK
  <2> QED
    BY <2>1, <2>2, <1>10, <1>11, <1>12, <1>13 DEF Credit, TypeOK, slotHistory
<1>14. ASSUME NEW r \in Requests, Debit(r) PROVE TypeOK'
  <2>1. /\ \/ Misses(r, Debited(r)) /\ \E next \in Places : Retry(r, next)
           \/ Debited(r) /\ \E next \in Places : Succeeds(r, next)
        /\ seen[r] # NoRecord
    BY <1>14 DEF Debit, Places
  <2>2. faults' \in 0 .. MaxFaults
    BY <1>14 DEF Debit, Misses, Succeeds, NoFault, Fault, TypeOK
  <2> QED
    BY <2>1, <2>2, <1>10, <1>11, <1>12, <1>14 DEF Debit, TypeOK, slotHistory
<1>15. ASSUME NEW r \in Requests, Complete(r) \/ Pause(r) \/ Abort(r) PROVE TypeOK'
  BY <1>15 DEF Complete, Pause, Abort, Goto, TypeOK, Places, updateVars, slotHistory, accountVars
<1>16. ASSUME NEW r \in Requests, ReleaseAtPause(r) PROVE TypeOK'
  BY <1>2, <1>16 DEF ReleaseAtPause, Goto, TypeOK, Places, updateVars, accountVars
<1>17. ASSUME NEW t \in Requests, Withdraw(t) PROVE TypeOK'
  BY <1>17 DEF Withdraw, TypeOK, updateVars, slotHistory, accountVars
<1>18. ASSUME NEW r \in Requests, Crash(r) PROVE TypeOK'
  <2>1. /\ pc' \in [Requests -> Places] /\ turn' \in [Requests -> Requests]
        /\ seen' \in [Requests -> Nat \cup {NoRecord}] /\ attempt' \in [Requests -> 0 .. MaxAttempts - 1]
    BY <1>18 DEF Crash, Goto, TypeOK, Places
  <2>2. faults' \in 0 .. MaxFaults /\ leaked' \in Nat
    BY <1>18 DEF Crash, Fault, TypeOK
  <2> QED
    BY <2>1, <2>2, <1>18 DEF Crash, TypeOK, accountVars
<1>19. CASE ExpirePending
  <2>1. Cardinality(Holding) \in Nat
    BY FS_Subset, FS_CardinalityType DEF Holding
  <2> QED
    BY <2>1, <1>19 DEF ExpirePending, Expire, TypeOK, requestVars, updateVars, accountVars
<1>20. CASE NextInterval
  BY <1>20 DEF NextInterval, IntervalPasses, TypeOK, requestVars, updateVars, slotHistory
<1>21. CASE UNCHANGED vars
  BY <1>21 DEF vars, TypeOK, requestVars, updateVars, slotHistory, accountVars
<1> QED
  BY <1>3, <1>4, <1>5, <1>6, <1>7, <1>8, <1>9, <1>13, <1>14, <1>15, <1>16, <1>17, <1>18, <1>19,
     <1>20, <1>21, <1>23 DEF Next, Step

\* How many hold a slot, and how a request that moves changes it.
LEMMA Holders == IsFiniteSet(Holding) /\ Cardinality(Holding) \in Nat
BY RequestAssumption, FS_Subset, FS_CardinalityType DEF Holding

LEMMA Moving ==
  ASSUME TypeOK, NEW r \in Requests, NEW place, Goto(r, place), released' = released
  PROVE  /\ place \notin Over /\ pc[r] \notin Over => Holding' = Holding
         /\ place \notin Over /\ r \notin released => Holding' = Holding \cup {r}
         /\ place \in Over => Holding' = Holding \ {r}
BY DEF TypeOK, Goto, Holding

\* Entering and leaving keep the counter next to the number of holders.
LEMMA Entering ==
  ASSUME TypeOK, CounterTellsHolders, pending <= Limit,
         NEW r \in Requests, NEW place \in Places \ Over, At(r, "idle"), r \notin released,
         Enter(r, place), released' = released
  PROVE  CounterTellsHolders' /\ pending' <= Limit
<1>. DEFINE n == Cardinality(Holding)
<1>1. r \notin Holding /\ n \in Nat
  BY Holders DEF At, Holding, Over
<1>2. CASE Goto(r, place)
  <2>1. Holding' = Holding \cup {r}
    BY <1>2, Moving
  <2>2. Cardinality(Holding') = n + 1
    BY <2>1, <1>1, Holders, FS_AddElement
  <2>3. \/ pending' = pending + 1 /\ pending < Limit /\ uncounted' = uncounted
        \/ pending' = pending /\ uncounted' = uncounted + 1
    BY <1>2, LimitAssumption DEF Enter, CheckAndIncrement, Goto, At, TypeOK, Over, Places, slotHistory
  <2>4. leaked' = leaked /\ doubled' = doubled
    BY DEF Enter, slotHistory
  <2> QED
    BY <2>2, <2>3, <2>4, <1>1, LimitAssumption DEF CounterTellsHolders, Unknown, TypeOK
<1>3. CASE Goto(r, "ended") /\ pending' = pending /\ UNCHANGED slotHistory
  <2>1. Holding' = Holding
    BY <1>1, <1>3, Moving DEF Over
  <2> QED
    BY <2>1, <1>3 DEF CounterTellsHolders, Unknown, slotHistory
<1> QED
  BY <1>2, <1>3 DEF Enter, CheckAndIncrement

LEMMA Leaving ==
  ASSUME TypeOK, CounterTellsHolders, pending <= Limit,
         NEW r \in Holding, Leave, Holding' = Holding \ {r}
  PROVE  CounterTellsHolders' /\ pending' <= Limit
<1>. DEFINE n == Cardinality(Holding)
<1>1. n \in Nat /\ Cardinality(Holding') = n - 1
  BY Holders, FS_RemoveElement
<1>2. /\ pending \in Nat /\ leaked \in Nat /\ uncounted \in Nat /\ doubled \in Nat
      /\ pending <= n + leaked /\ n <= pending + (uncounted + doubled)
  BY DEF TypeOK, CounterTellsHolders, Unknown
<1>3. CASE Decrement /\ UNCHANGED slotHistory
  <2>1. n >= 1
    BY <1>1, Holders, FS_EmptySet, FS_CardinalityType
  <2>2. leaked' = leaked /\ uncounted' = uncounted /\ doubled' = doubled
    BY <1>3 DEF slotHistory
  <2>3. \/ pending > 0 /\ pending' = pending - 1
        \/ pending = 0 /\ pending' = 0
    BY <1>2, <1>3 DEF Decrement
  <2>4. /\ pending' <= n - 1 + leaked /\ n - 1 <= pending' + (uncounted + doubled)
        /\ pending' <= pending /\ pending' \in Nat
    BY <1>1, <1>2, <2>1, <2>3
  <2> QED
    BY <1>1, <1>2, <2>2, <2>4, LimitAssumption DEF CounterTellsHolders, Unknown
<1>4. CASE leaked' = leaked + 1 /\ UNCHANGED <<pending, uncounted, doubled>>
  BY <1>1, <1>2, <1>4 DEF CounterTellsHolders, Unknown
<1> QED
  BY <1>3, <1>4 DEF Leave

\* A second release takes the place of a holder, which the history notes.
LEMMA LeavingAgain ==
  ASSUME TypeOK, CounterTellsHolders, pending <= Limit, LeaveAgain, Holding' = Holding
  PROVE  CounterTellsHolders' /\ pending' <= Limit
<1>. DEFINE n == Cardinality(Holding)
<1>1. n \in Nat
  BY Holders
<1>2. /\ pending \in Nat /\ leaked \in Nat /\ uncounted \in Nat /\ doubled \in Nat
      /\ pending <= n + leaked /\ n <= pending + (uncounted + doubled)
  BY DEF TypeOK, CounterTellsHolders, Unknown
<1>3. CASE Decrement /\ doubled' = (IF pending > 0 THEN doubled + 1 ELSE doubled) /\ UNCHANGED <<uncounted, leaked>>
  <2>1. \/ pending > 0 /\ pending' = pending - 1 /\ doubled' = doubled + 1
        \/ pending = 0 /\ pending' = 0 /\ doubled' = doubled
    BY <1>2, <1>3 DEF Decrement
  <2> QED
    BY <1>1, <1>2, <1>3, <2>1, LimitAssumption DEF CounterTellsHolders, Unknown
<1>4. CASE UNCHANGED <<pending, slotHistory>>
  BY <1>4 DEF CounterTellsHolders, Unknown, slotHistory
<1> QED
  BY <1>3, <1>4 DEF LeaveAgain

\* A step that moves a request between places where it holds its slot, or does
\* not move it, and leaves the counter alone.
LEMMA Quiet ==
  ASSUME TypeOK, SlotInv, UNCHANGED <<pending, slotHistory, released>>,
         \/ UNCHANGED pc
         \/ \E r \in Requests, place \in Places \ Over :
              /\ Goto(r, place) /\ pc[r] \notin Over
              /\ r \in released => place \in Parting
  PROVE  SlotInv'
<1>1. Holding' = Holding
  BY Moving DEF Holding
<1>2. \A r \in released' : pc'[r] \in Parting
  BY DEF SlotInv, Goto, TypeOK
<1> QED
  BY <1>1, <1>2 DEF SlotInv, CounterTellsHolders, Unknown, slotHistory

\* Every step keeps the counter next to the holders.
LEMMA SlotStep == Inv /\ [Next]_vars => SlotInv'
<1>. SUFFICES ASSUME TypeOK, SlotInv, [Next]_vars PROVE SlotInv'
  BY DEF Inv
<1>1. /\ CounterTellsHolders /\ pending <= Limit
      /\ \A r \in released : pc[r] \in Parting
  BY DEF SlotInv
<1>2. released \subseteq Requests /\ pc \in [Requests -> Places]
  BY DEF TypeOK
<1>3. ASSUME NEW r \in Requests, Admit(r) \/ \E t \in Requests : Resume(r, t) PROVE SlotInv'
  <2>1. PICK place \in {"admitted", "resuming"} : Enter(r, place)
    BY <1>3 DEF Admit, Resume
  <2>2. At(r, "idle") /\ released' = released
    BY <1>3 DEF Admit, Resume
  <2>3. r \notin released /\ place \in Places \ Over
    BY <1>1, <2>2 DEF At, Places, Over, Parting
  <2>4. CounterTellsHolders' /\ pending' <= Limit
    BY <1>1, <2>1, <2>2, <2>3, Entering
  <2>5. \E p \in Places : pc' = [pc EXCEPT ![r] = p]
    BY <2>1, <2>3 DEF Enter, Goto, Places
  <2>6. \A q \in released' : pc'[q] \in Parting
    BY <1>1, <1>2, <2>2, <2>3, <2>5
  <2> QED
    BY <2>4, <2>6 DEF SlotInv
<1>4. ASSUME NEW r \in Requests,
             \/ CheckBalance(r) \/ Initialize(r) \/ ClaimResume(r)
             \/ Complete(r) \/ Pause(r) \/ Abort(r)
      PROVE  SlotInv'
  <2>1. UNCHANGED <<pending, slotHistory, released>>
    BY <1>4 DEF CheckBalance, Initialize, ClaimResume, Complete, Pause, Abort
  <2>2. pc[r] \in {"admitted", "initializing", "resuming", "generating"}
    BY <1>4 DEF CheckBalance, Initialize, ClaimResume, Complete, Pause, Abort, At
  <2>3. PICK place \in Places \ Over : Goto(r, place)
    BY <1>4 DEF CheckBalance, Initialize, ClaimResume, Complete, Pause, Abort, Places, Over
  <2>4. r \notin released /\ pc[r] \notin Over
    BY <1>1, <2>2 DEF Over, Parting
  <2> QED
    BY <2>1, <2>3, <2>4, Quiet
<1>5. ASSUME NEW r \in Requests, ReadBalance(r) \/ Withdraw(r) PROVE SlotInv'
  BY <1>5, Quiet DEF ReadBalance, Withdraw, requestVars
<1>6. ASSUME NEW r \in Requests, Credit(r) \/ Debit(r) PROVE SlotInv'
  <2>1. UNCHANGED <<pending, slotHistory, released>>
    BY <1>6 DEF Credit, Debit
  <2>2. \/ pc[r] = "crediting" /\ (UNCHANGED pc \/ \E place \in {"generating", "releasing"} : Goto(r, place))
        \/ pc[r] = "debiting" /\ (UNCHANGED pc \/ Goto(r, "releasing"))
    BY <1>6 DEF Credit, Debit, At, Succeeds, Retry
  <2>3. pc[r] = "crediting" => r \notin released
    BY <1>1 DEF Parting
  <2> QED
    BY <2>1, <2>2, <2>3, Quiet DEF Places, Over, Parting
<1>7. ASSUME NEW r \in Requests, ReleaseAtPause(r) PROVE SlotInv'
  <2>1. pc[r] = "pausing" /\ pc' = [pc EXCEPT ![r] = "debiting"] /\ released' = released \cup {r}
    BY <1>7 DEF ReleaseAtPause, At, Goto
  <2>2. r \in Holding
    BY <1>1, <2>1 DEF Holding, Over, Parting
  <2>3. Holding' = Holding \ {r}
    BY <1>2, <2>1 DEF Holding, Over
  <2>4. CounterTellsHolders' /\ pending' <= Limit
    BY <1>1, <1>7, <2>2, <2>3, Leaving DEF ReleaseAtPause
  <2> QED
    BY <1>1, <1>2, <2>1, <2>4 DEF SlotInv, Parting
<1>8. ASSUME NEW r \in Requests, TearDown(r) \/ FinishPause(r) \/ Finish(r) PROVE SlotInv'
  <2>1. /\ pc[r] \in {"releasing", "failing"} /\ pc' = [pc EXCEPT ![r] = "ended"]
        /\ released' = released \ {r}
    BY <1>8 DEF TearDown, FinishPause, Finish, Ends, At, Goto
  <2>2. \A q \in released' : pc'[q] \in Parting
    BY <1>1, <1>2, <2>1
  <2>3. Holding' = Holding \ {r}
    BY <1>2, <2>1 DEF Holding, Over
  <2>4. r \in released => Holding' = Holding
    BY <2>3 DEF Holding
  <2>5. CASE r \in released /\ UNCHANGED <<pending, slotHistory>>
    BY <1>1, <2>2, <2>4, <2>5 DEF SlotInv, CounterTellsHolders, Unknown, slotHistory
  <2>6. CASE r \notin released /\ Leave
    <3>1. r \in Holding
      BY <2>1, <2>6 DEF Holding, Over
    <3> QED
      BY <1>1, <2>2, <2>3, <2>6, <3>1, Leaving DEF SlotInv
  <2>7. CASE r \in released /\ LeaveAgain
    BY <1>1, <2>2, <2>4, <2>7, LeavingAgain DEF SlotInv
  <2> QED
    BY <1>8, <2>5, <2>6, <2>7 DEF TearDown, FinishPause, Finish
<1>12. ASSUME NEW r \in Requests, FailPause(r) PROVE SlotInv'
  BY <1>12, Quiet DEF FailPause, At, Places, Over, Parting
<1>9. ASSUME NEW r \in Requests, Crash(r) PROVE SlotInv'
  <2>1. /\ pc' = [pc EXCEPT ![r] = "ended"] /\ released' = released \ {r}
        /\ pending' = pending /\ uncounted' = uncounted /\ doubled' = doubled
        /\ leaked' = IF r \in Holding THEN leaked + 1 ELSE leaked
    BY <1>9 DEF Crash, Goto
  <2>2. \A q \in released' : pc'[q] \in Parting
    BY <1>1, <1>2, <2>1
  <2>3. Holding' = Holding \ {r}
    BY <1>2, <2>1 DEF Holding, Over
  <2>4. CounterTellsHolders'
    <3>1. /\ pending \in Nat /\ leaked \in Nat /\ uncounted \in Nat /\ doubled \in Nat
          /\ pending <= Cardinality(Holding) + leaked
          /\ Cardinality(Holding) <= pending + (uncounted + doubled)
      BY <1>1 DEF TypeOK, CounterTellsHolders, Unknown
    <3>2. CASE r \in Holding
      <4>1. Cardinality(Holding') = Cardinality(Holding) - 1 /\ leaked' = leaked + 1
        BY <2>1, <2>3, <3>2, Holders, FS_RemoveElement
      <4> QED
        BY <2>1, <3>1, <4>1, Holders DEF CounterTellsHolders, Unknown
    <3>3. CASE r \notin Holding
      <4>1. Holding' = Holding /\ leaked' = leaked
        BY <2>1, <2>3, <3>3
      <4> QED
        BY <2>1, <3>1, <4>1 DEF CounterTellsHolders, Unknown
    <3> QED
      BY <3>2, <3>3
  <2> QED
    BY <1>1, <2>1, <2>2, <2>4 DEF SlotInv
<1>10. CASE ExpirePending
  <2>1. UNCHANGED <<pc, released>> /\ Holding' = Holding
    BY <1>10 DEF ExpirePending, requestVars, Holding
  <2>2. /\ pending' = 0 /\ leaked' = 0 /\ uncounted' \in Nat
        /\ Cardinality(Holding) <= uncounted' /\ doubled' \in Nat
    <3>1. uncounted \in Nat /\ doubled \in Nat
      BY DEF TypeOK
    <3> QED
      BY <1>10, <3>1, Holders DEF ExpirePending, Expire
  <2> QED
    BY <1>1, <2>1, <2>2, Holders, LimitAssumption DEF SlotInv, CounterTellsHolders, Unknown
<1>11. CASE NextInterval \/ UNCHANGED vars
  BY <1>11, Quiet DEF NextInterval, vars, requestVars, slotHistory
<1> QED
  BY <1>3, <1>4, <1>5, <1>6, <1>7, <1>8, <1>9, <1>10, <1>11, <1>12 DEF Next, Step

\* Every variable keeps its type, for any number of requests (PendingRequests
\* and Account: the counter and the balance are never negative).
THEOREM TypeCorrect == Spec => []TypeOK
<1>1. Init => TypeOK
  BY InitInv DEF Inv
<1> QED
  BY <1>1, TypeStep, PTL DEF Spec

LEMMA Invariant == Spec => []Inv
<1>1. Inv /\ [Next]_vars => Inv'
  BY TypeStep, SlotStep DEF Inv
<1> QED
  BY <1>1, InitInv, PTL DEF Spec

\* The counter of pending requests and the slots in use differ only by what
\* failed, expired, or was given back twice after a pause that request.js could
\* not persist, whatever the requests do (concurrency.ts 104-209, client.js
\* 2707-2716, request.js 180-186 and 1509-1515, resume.js 736-753 and 1097-1102).
THEOREM CountersAgree == Spec => []CounterTellsHolders
<1>1. Inv => CounterTellsHolders
  BY DEF Inv, SlotInv
<1> QED
  BY <1>1, Invariant, PTL

\* Never more generations of a user than the limit and the slots the counter
\* lost, to an expiry, to an error or to a second release (resume.js 709-711).
THEOREM LimitKept == Spec => []LimitHolds
<1>1. Inv => LimitHolds
  <2>. SUFFICES ASSUME Inv PROVE LimitHolds
    OBVIOUS
  <2>. DEFINE G == {r \in Requests : At(r, "generating")}
  <2>1. G \subseteq Holding
    BY DEF At, Holding, Over, Inv, SlotInv, Parting
  <2>2. Cardinality(G) <= Cardinality(Holding) /\ Cardinality(G) \in Nat
    BY <2>1, Holders, FS_Subset, FS_CardinalityType
  <2>3. /\ pending <= Limit /\ Cardinality(Holding) <= pending + Unknown
        /\ pending \in Nat /\ Unknown \in Nat
    BY DEF Inv, SlotInv, TypeOK, CounterTellsHolders, Unknown
  <2> QED
    BY <2>2, <2>3, Holders, LimitAssumption DEF LimitHolds
<1> QED
  BY <1>1, Invariant, PTL

\* No update of a balance overwrites the effect of another one, however many
\* requests race (transaction.ts: findOneAndUpdate compares what was read).
THEOREM UpdatesAreWhole == Spec => UpdatesCompose
<1>. DEFINE Whole ==
       credits' # credits =>
         \/ credits' = StartBalance
         \/ credits' = credits + RefillAmount
         \/ credits' = IF credits < Charge THEN 0 ELSE credits - Charge
<1>1. TypeOK /\ [Next]_vars => [Whole]_vars
  <2>. SUFFICES ASSUME TypeOK, Next, credits' # credits PROVE Whole
    OBVIOUS
  <2>1. ASSUME NEW r \in Requests, seen[r] # NoRecord, Refill(r) \/ Debited(r) PROVE Whole
    <3>1. credits \in Nat /\ seen[r] = credits
      BY <2>1 DEF TypeOK, Refill, Debited, Matches
    <3> QED
      BY <2>1, <3>1, NewBalance DEF Refill, Debited
  <2>2. ASSUME NEW r \in Requests, Credit(r) PROVE Whole
    <3>1. seen[r] # NoRecord /\ Refill(r)
      BY <2>2 DEF Credit, Misses, accountVars
    <3> QED
      BY <2>1, <3>1
  <2>3. ASSUME NEW r \in Requests, Debit(r) PROVE Whole
    <3>1. seen[r] # NoRecord /\ Debited(r)
      BY <2>3 DEF Debit, Misses, accountVars
    <3> QED
      BY <2>1, <3>1
  <2>4. ASSUME NEW r \in Requests, Initialize(r) PROVE Whole
    BY <2>4 DEF Initialize, Upsert
  <2>5. ~NextInterval /\ ~ExpirePending
    BY DEF NextInterval, IntervalPasses, ExpirePending, accountVars
  <2>6. ASSUME NEW r \in Requests PROVE ~Withdraw(r)
    BY DEF Withdraw, accountVars
  <2>7. PICK r \in Requests : Step(r)
    BY <2>5, <2>6 DEF Next
  <2>8. Initialize(r) \/ Credit(r) \/ Debit(r)
    BY <2>7 DEF Step, Admit, Resume, ClaimResume, TearDown, CheckBalance, ReadBalance, Complete,
       Pause, ReleaseAtPause, Abort, Crash, FailPause, FinishPause, Finish, Ends, accountVars
  <2> QED
    BY <2>2, <2>3, <2>4, <2>7, <2>8
<1>2. Spec => [][Whole]_vars
  BY <1>1, TypeCorrect, PTL DEF Spec
<1> QED
  BY <1>2 DEF UpdatesCompose

-----------------------------------------------------------------------------
(***************************************************************************)
(* Races for the start balance and for a refill.                           *)
(***************************************************************************)
Initializing == {r \in Requests : At(r, "initializing")}

Crediting == {r \in Requests : At(r, "crediting")}

\* Who is still to write holds a slot, and nobody joins after the first write:
\* a record that exists is not initialised, a refill that is dated not repeated.
RaceInv ==
  /\ credits = NoRecord => inits = 0
  /\ due = TRUE => refills = 0
  /\ inits + Cardinality(Initializing) <= Limit + Unknown
  /\ refills + Cardinality(Crediting) <= Limit + Unknown + faults

LEMMA Racers ==
  /\ IsFiniteSet(Initializing) /\ IsFiniteSet(Crediting)
  /\ Cardinality(Initializing) \in Nat /\ Cardinality(Crediting) \in Nat
BY RequestAssumption, FS_Subset, FS_CardinalityType DEF Initializing, Crediting

\* Who is still to write holds a slot.
LEMMA RacersHold ==
  Inv => Cardinality(Initializing) <= Limit + Unknown /\ Cardinality(Crediting) <= Limit + Unknown
<1>. SUFFICES ASSUME Inv
              PROVE  Cardinality(Initializing) <= Limit + Unknown /\ Cardinality(Crediting) <= Limit + Unknown
  OBVIOUS
<1>1. Initializing \subseteq Holding /\ Crediting \subseteq Holding
  BY DEF Inv, SlotInv, Initializing, Crediting, At, Holding, Over, Parting
<1>2. /\ Cardinality(Initializing) <= Cardinality(Holding)
      /\ Cardinality(Crediting) <= Cardinality(Holding)
  BY <1>1, Holders, FS_Subset
<1>3. /\ pending <= Limit /\ Cardinality(Holding) <= pending + Unknown
      /\ pending \in Nat /\ Unknown \in Nat
  BY DEF Inv, SlotInv, TypeOK, CounterTellsHolders, Unknown
<1> QED
  BY <1>2, <1>3, Holders, Racers, LimitAssumption

LEMMA RacersHoldNext ==
  Inv' => (Cardinality(Initializing) <= Limit + Unknown /\ Cardinality(Crediting) <= Limit + Unknown)'
BY RacersHold, PTL

LEMMA RaceInit == Init => RaceInv
<1>. SUFFICES ASSUME Init PROVE RaceInv
  OBVIOUS
<1>1. Initializing = {} /\ Crediting = {}
  BY DEF Init, Initializing, Crediting, At
<1>2. Cardinality(Initializing) = 0 /\ Cardinality(Crediting) = 0
  BY <1>1, FS_EmptySet
<1> QED
  BY <1>2, LimitAssumption DEF Init, RaceInv, AccountInit, Unknown

LEMMA UnknownType == Inv => Unknown \in Nat
BY DEF Inv, TypeOK, Unknown

\* Fewer racers, no more writes.
LEMMA RaceQuiet ==
  ASSUME Inv, Inv', RaceInv,
         Initializing' \subseteq Initializing, Crediting' \subseteq Crediting,
         Unknown' >= Unknown, faults' >= faults,
         inits' = inits, refills' \in {0, refills}, due' = TRUE => due = TRUE \/ refills' = 0,
         credits' = NoRecord => credits = NoRecord
  PROVE  RaceInv'
<1>1. /\ Cardinality(Initializing') <= Cardinality(Initializing) /\ Cardinality(Initializing') \in Nat
      /\ Cardinality(Crediting') <= Cardinality(Crediting) /\ Cardinality(Crediting') \in Nat
  BY Racers, FS_Subset, FS_CardinalityType
<1>2. /\ inits \in Nat /\ refills \in Nat /\ Unknown \in Nat /\ faults \in Nat /\ Limit \in Nat
      /\ Unknown' \in Nat /\ faults' \in Nat
  <2>1. Unknown \in Nat /\ (Unknown \in Nat)'
    <3>1. Inv => Unknown \in Nat
      BY UnknownType
    <3>2. (Inv => Unknown \in Nat)'
      BY UnknownType, PTL
    <3> QED
      BY <3>1, <3>2
  <2>2. /\ inits \in Nat /\ refills \in Nat /\ faults \in Nat /\ Limit \in Nat
        /\ faults' \in Nat
    BY RequestAssumption, LimitAssumption DEF Inv, TypeOK
  <2> QED
    BY <2>1, <2>2
<1> QED
  BY <1>1, <1>2, Racers DEF RaceInv

\* A request that moves on is a racer no more.
LEMMA MovesOn ==
  ASSUME TypeOK, NEW r \in Requests, NEW place, Goto(r, place)
  PROVE  /\ place # "initializing" => Initializing' = Initializing \ {r}
         /\ place # "crediting" => Crediting' = Crediting \ {r}
BY DEF TypeOK, Goto, Initializing, Crediting, At

\* What is lost only grows, and no record is ever deleted.
LEMMA Growing ==
  ASSUME Inv, [Next]_vars
  PROVE  /\ Unknown' >= Unknown /\ faults' >= faults
         /\ credits' = NoRecord => credits = NoRecord
<1>1. uncounted \in Nat /\ doubled \in Nat /\ faults \in Nat /\ Cardinality(Holding) \in Nat
  BY Holders, RequestAssumption DEF Inv, TypeOK
<1>2. ASSUME NEW r \in Requests, NEW place, Enter(r, place) PROVE Unknown' >= Unknown /\ faults' >= faults
  <2>1. (uncounted' = uncounted \/ uncounted' = uncounted + 1) /\ doubled' = doubled
    BY <1>2 DEF Enter, slotHistory
  <2>2. NoFault \/ Fault
    BY <1>2 DEF Enter
  <2> QED
    BY <1>1, <2>1, <2>2 DEF Unknown, NoFault, Fault
<1>3. ASSUME Leave PROVE Unknown' >= Unknown /\ faults' >= faults
  BY <1>1, <1>3 DEF Leave, NoFault, Fault, Unknown, slotHistory
<1>6. ASSUME LeaveAgain PROVE Unknown' >= Unknown /\ faults' >= faults
  <2>1. uncounted' = uncounted /\ (doubled' = doubled \/ doubled' = doubled + 1)
    BY <1>6 DEF LeaveAgain, slotHistory
  <2>2. NoFault \/ Fault
    BY <1>6 DEF LeaveAgain
  <2> QED
    BY <1>1, <2>1, <2>2 DEF Unknown, NoFault, Fault
<1>4. Unknown' >= Unknown /\ faults' >= faults
  <2>1. ASSUME NEW r \in Requests, Step(r) PROVE Unknown' >= Unknown /\ faults' >= faults
    <3>1. CASE Admit(r) \/ \E t \in Requests : Resume(r, t)
      BY <1>2, <3>1 DEF Admit, Resume
    <3>2. CASE TearDown(r) \/ ReleaseAtPause(r) \/ FinishPause(r) \/ Finish(r)
      <4>1. Leave \/ LeaveAgain \/ UNCHANGED <<pending, slotHistory, faults>>
        BY <3>2 DEF TearDown, ReleaseAtPause, FinishPause, Finish
      <4> QED
        BY <1>1, <1>3, <1>6, <4>1 DEF Unknown, slotHistory
    <3>3. CASE ClaimResume(r) \/ CheckBalance(r) \/ Initialize(r) \/ ReadBalance(r) \/ Credit(r) \/ Debit(r)
                 \/ Complete(r) \/ Pause(r) \/ Abort(r) \/ Crash(r) \/ FailPause(r)
      <4>1. uncounted' = uncounted /\ doubled' = doubled
        BY <3>3 DEF ClaimResume, CheckBalance, Initialize, ReadBalance, Credit, Debit, Complete, Pause, Abort,
                    Crash, FailPause, slotHistory
      <4>2. NoFault \/ Fault
        BY <3>3 DEF ClaimResume, CheckBalance, Initialize, ReadBalance, Credit, Debit, Complete, Pause, Abort,
                    Crash, FailPause, NoFault, Misses, Succeeds
      <4> QED
        BY <1>1, <4>1, <4>2 DEF NoFault, Fault, Unknown
    <3> QED
      BY <2>1, <3>1, <3>2, <3>3 DEF Step
  <2>2. CASE (\E r \in Requests : Withdraw(r)) \/ NextInterval \/ UNCHANGED vars
    BY <1>1, <2>2 DEF Withdraw, NextInterval, vars, slotHistory, Unknown
  <2>3. CASE ExpirePending
    BY <1>1, <2>3 DEF ExpirePending, Unknown
  <2> QED
    BY <2>1, <2>2, <2>3 DEF Next
<1>5. credits' = NoRecord => credits = NoRecord
  <2> SUFFICES ASSUME credits' = NoRecord, credits' # credits PROVE FALSE
    OBVIOUS
  <2>1. NoRecord \notin Nat /\ StartBalance \in Nat /\ \A r \in Requests : seen[r] \in Nat \cup {NoRecord}
    BY AccountAssumption DEF Inv, TypeOK
  <2>2. ASSUME NEW r \in Requests, seen[r] # NoRecord PROVE ~Refill(r) /\ ~Debited(r)
    <3>1. New(seen[r], RefillAmount) \in Nat /\ New(seen[r], -Charge) \in Nat
      BY <2>1, <2>2, NewBalance
    <3> QED
      BY <2>1, <3>1 DEF Refill, Debited
  <2>3. ASSUME NEW r \in Requests PROVE ~Initialize(r)
    BY <2>1 DEF Initialize, Upsert
  <2>4. ASSUME NEW r \in Requests PROVE ~Credit(r) /\ ~Debit(r)
    BY <2>2 DEF Credit, Debit, Misses, accountVars
  <2> QED
    BY <2>3, <2>4 DEF Next, Step, Admit, Resume, ClaimResume, TearDown, CheckBalance, ReadBalance, Complete,
       Pause, ReleaseAtPause, Abort, Crash, FailPause, FinishPause, Finish, Ends, Withdraw, ExpirePending,
       NextInterval, IntervalPasses, vars, accountVars
<1> QED
  BY <1>4, <1>5

LEMMA RaceChecks ==
  ASSUME Inv, Inv', RaceInv, NEW r \in Requests, CheckBalance(r)
  PROVE  RaceInv'
<1>1. UNCHANGED <<credits, due, inits, refills, Unknown, faults>>
  BY DEF CheckBalance, Unknown, accountVars, slotHistory
<1>2. PICK place : Goto(r, place) /\ place \in Places
                    /\ (place = "initializing" => credits = NoRecord)
                    /\ (place = "crediting" => due = TRUE)
  BY DEF CheckBalance, NeedsRefill, Places, Inv, TypeOK
<1>3. /\ Initializing' \subseteq Initializing \/ credits' = NoRecord
      /\ Crediting' \subseteq Crediting \/ due' = TRUE
  BY <1>1, <1>2, MovesOn DEF Inv
<1>4. /\ Cardinality(Initializing') \in Nat /\ Cardinality(Crediting') \in Nat
      /\ Initializing' \subseteq Initializing => Cardinality(Initializing') <= Cardinality(Initializing)
      /\ Crediting' \subseteq Crediting => Cardinality(Crediting') <= Cardinality(Crediting)
  <2>1. Initializing' \subseteq Requests /\ Crediting' \subseteq Requests
    BY DEF Initializing, Crediting
  <2> QED
    BY <2>1, Racers, RequestAssumption, FS_Subset, FS_CardinalityType
<1>5. /\ Cardinality(Initializing)' <= Limit + Unknown'
      /\ Cardinality(Crediting)' <= Limit + Unknown'
  BY RacersHoldNext
<1>6. /\ inits \in Nat /\ refills \in Nat /\ Unknown \in Nat /\ faults \in Nat /\ Limit \in Nat
  BY RequestAssumption, LimitAssumption DEF Inv, TypeOK, Unknown
<1>7. inits' + Cardinality(Initializing') <= Limit + Unknown'
  <2>1. CASE credits' = NoRecord
    BY <1>1, <1>4, <1>5, <1>6, <2>1 DEF RaceInv
  <2>2. CASE Initializing' \subseteq Initializing
    BY <1>1, <1>4, <1>6, <2>2, Racers DEF RaceInv
  <2> QED
    BY <1>3, <2>1, <2>2
<1>8. refills' + Cardinality(Crediting') <= Limit + Unknown' + faults'
  <2>1. CASE due' = TRUE
    BY <1>1, <1>4, <1>5, <1>6, <2>1 DEF RaceInv
  <2>2. CASE Crediting' \subseteq Crediting
    BY <1>1, <1>4, <1>6, <2>2, Racers DEF RaceInv
  <2> QED
    BY <1>3, <2>1, <2>2
<1> QED
  BY <1>1, <1>7, <1>8 DEF RaceInv

LEMMA RaceInitializes ==
  ASSUME Inv, Inv', RaceInv, NEW r \in Requests, Initialize(r)
  PROVE  RaceInv'
<1>1. PICK place \in {"generating", "releasing"} : Goto(r, place)
  BY DEF Initialize
<1>2. Initializing' = Initializing \ {r} /\ Crediting' \subseteq Crediting /\ r \in Initializing
  BY <1>1, MovesOn DEF Inv, Initialize, Initializing
<1>3. /\ Unknown' = Unknown /\ refills' = refills
      /\ \/ inits' = inits + 1 /\ credits' = StartBalance /\ due' = FALSE
         \/ UNCHANGED <<credits, due, inits>>
  BY DEF Initialize, Upsert, Unknown, slotHistory
<1>4. /\ inits \in Nat /\ refills \in Nat /\ Unknown \in Nat /\ faults \in Nat /\ Limit \in Nat
      /\ StartBalance # NoRecord /\ faults' \in Nat
  BY RequestAssumption, LimitAssumption, AccountAssumption DEF Inv, TypeOK, Unknown
<1>5. faults' >= faults
  BY <1>4 DEF Initialize, Fault, NoFault
<1>6. Cardinality(Initializing') = Cardinality(Initializing) - 1
  BY <1>2, Racers, FS_RemoveElement
<1>7. Cardinality(Crediting') <= Cardinality(Crediting) /\ Cardinality(Crediting') \in Nat
  BY <1>2, Racers, FS_Subset, FS_CardinalityType
<1>8. /\ inits' + Cardinality(Initializing') <= Limit + Unknown'
      /\ credits' = NoRecord => inits' = 0
  BY <1>3, <1>4, <1>6, Racers DEF RaceInv
<1>9. refills' + Cardinality(Crediting') <= Limit + Unknown' + faults'
  BY <1>3, <1>4, <1>5, <1>7, Racers DEF RaceInv
<1>10. due' = TRUE => refills' = 0
  BY <1>3 DEF RaceInv
<1> QED
  BY <1>8, <1>9, <1>10 DEF RaceInv

LEMMA RaceCredits ==
  ASSUME Inv, Inv', RaceInv, NEW r \in Requests, Credit(r)
  PROVE  RaceInv'
<1>1. r \in Crediting /\ seen[r] # NoRecord /\ Unknown' = Unknown
  BY DEF Credit, Crediting, Unknown, slotHistory
<1>2. \/ UNCHANGED accountVars /\ (UNCHANGED pc \/ \E place \in {"generating", "releasing"} : Goto(r, place))
      \/ Refill(r) /\ NoFault /\ \E place \in {"generating", "releasing"} : Goto(r, place)
      \/ Refill(r) /\ Fault /\ (UNCHANGED pc \/ \E place \in {"generating", "releasing"} : Goto(r, place))
  BY DEF Credit, Misses, Retry, Succeeds
<1>3. ASSUME NEW place \in {"generating", "releasing"}, Goto(r, place)
      PROVE  Initializing' \subseteq Initializing /\ Crediting' = Crediting \ {r}
  BY <1>3, MovesOn DEF Inv
<1>4. ASSUME UNCHANGED pc PROVE Initializing' = Initializing /\ Crediting' = Crediting
  BY <1>4 DEF Initializing, Crediting, At
<1>5. /\ Unknown' >= Unknown /\ faults' >= faults /\ faults \in Nat /\ faults' \in Nat
      /\ credits' = NoRecord => credits = NoRecord
      /\ inits \in Nat /\ refills \in Nat /\ Unknown \in Nat /\ Limit \in Nat
  <2>1. [Next]_vars
    BY DEF Next, Step
  <2>2. Unknown \in Nat
    BY DEF Inv, TypeOK, Unknown
  <2> QED
    BY <2>1, <2>2, Growing, RequestAssumption, LimitAssumption DEF Inv, TypeOK
<1>6. Initializing' \subseteq Initializing /\ Crediting' \subseteq Crediting
  BY <1>2, <1>3, <1>4
<1>7. CASE UNCHANGED accountVars
  BY <1>5, <1>6, <1>7, RaceQuiet DEF accountVars
<1>8. CASE Refill(r)
  <2>1. inits' = inits /\ refills' = refills + 1 /\ due' = FALSE
    BY <1>8 DEF Refill, Refilled
  <2>2. faults' = faults + 1 \/ Crediting' = Crediting \ {r}
    <3>1. ~UNCHANGED accountVars
      BY <1>5, <2>1 DEF accountVars
    <3> QED
      BY <1>2, <1>3, <3>1 DEF Fault
  <2>3. /\ Cardinality(Initializing') <= Cardinality(Initializing) /\ Cardinality(Initializing') \in Nat
        /\ Cardinality(Crediting') <= Cardinality(Crediting) /\ Cardinality(Crediting') \in Nat
        /\ Cardinality(Crediting \ {r}) = Cardinality(Crediting) - 1
    BY <1>1, <1>6, Racers, FS_Subset, FS_CardinalityType, FS_RemoveElement
  <2>4. refills' + Cardinality(Crediting') <= Limit + Unknown' + faults'
    <3>1. CASE faults' = faults + 1
      BY <1>1, <1>5, <2>1, <2>3, <3>1, Racers DEF RaceInv
    <3>2. CASE Crediting' = Crediting \ {r}
      BY <1>1, <1>5, <2>1, <2>3, <3>2, Racers DEF RaceInv
    <3> QED
      BY <2>2, <3>1, <3>2
  <2>5. inits' + Cardinality(Initializing') <= Limit + Unknown'
    BY <1>1, <1>5, <2>1, <2>3, Racers DEF RaceInv
  <2> QED
    BY <1>5, <2>1, <2>4, <2>5 DEF RaceInv
<1> QED
  BY <1>2, <1>7, <1>8

LEMMA RaceStep == Inv /\ Inv' /\ RaceInv /\ [Next]_vars => RaceInv'
<1>. SUFFICES ASSUME Inv, Inv', RaceInv, [Next]_vars PROVE RaceInv'
  OBVIOUS
<1>1. /\ Unknown' >= Unknown /\ faults' >= faults
      /\ credits' = NoRecord => credits = NoRecord
  BY Growing
<1>2. ASSUME NEW r \in Requests, CheckBalance(r) \/ Initialize(r) \/ Credit(r) PROVE RaceInv'
  BY <1>2, RaceChecks, RaceInitializes, RaceCredits
<1>3. ASSUME NEW r \in Requests,
             \/ Admit(r) \/ (\E t \in Requests : Resume(r, t)) \/ ClaimResume(r) \/ TearDown(r)
             \/ FailPause(r) \/ FinishPause(r) \/ Finish(r)
             \/ Complete(r) \/ Pause(r) \/ ReleaseAtPause(r) \/ Abort(r) \/ Crash(r) \/ Debit(r)
      PROVE  RaceInv'
  <2>1. inits' = inits /\ refills' = refills /\ due' = due
    BY <1>3 DEF Admit, Resume, ClaimResume, TearDown, Complete, Pause, ReleaseAtPause, Abort, Crash, Debit,
                FailPause, FinishPause, Finish, Ends, Misses, Debited, accountVars
  <2>2. UNCHANGED pc \/ \E place \in Places \ {"initializing", "crediting"} : Goto(r, place)
    <3>1. ASSUME NEW place \in {"admitted", "resuming"}, Enter(r, place)
          PROVE  \E q \in Places \ {"initializing", "crediting"} : Goto(r, q)
      BY <3>1 DEF Enter, Places
    <3>2. CASE Admit(r) \/ (\E t \in Requests : Resume(r, t))
      BY <3>1, <3>2 DEF Admit, Resume
    <3>3. CASE Debit(r)
      BY <3>3 DEF Debit, Succeeds, Retry, Places
    <3> QED
      BY <1>3, <3>2, <3>3 DEF ClaimResume, TearDown, Complete, Pause, ReleaseAtPause, Abort, Crash,
                              FailPause, FinishPause, Finish, Ends, Places
  <2>3. Initializing' \subseteq Initializing /\ Crediting' \subseteq Crediting
    <3>1. CASE UNCHANGED pc
      BY <3>1 DEF Initializing, Crediting, At
    <3> QED
      BY <2>2, <3>1, MovesOn DEF Inv
  <2> QED
    BY <1>1, <2>1, <2>3, RaceQuiet
<1>4. CASE \/ \E r \in Requests : ReadBalance(r) \/ Withdraw(r)
           \/ ExpirePending \/ UNCHANGED vars
  <2>1. UNCHANGED <<pc, inits, refills, due>>
    BY <1>4 DEF ReadBalance, Withdraw, ExpirePending, vars, requestVars, accountVars
  <2>2. Initializing' \subseteq Initializing /\ Crediting' \subseteq Crediting
    BY <2>1 DEF Initializing, Crediting, At
  <2> QED
    BY <1>1, <2>1, <2>2, RaceQuiet
<1>5. CASE NextInterval
  <2>1. UNCHANGED <<pc, inits>> /\ refills' = 0
    BY <1>5 DEF NextInterval, requestVars
  <2>2. Initializing' \subseteq Initializing /\ Crediting' \subseteq Crediting
    BY <2>1 DEF Initializing, Crediting, At
  <2> QED
    BY <1>1, <2>1, <2>2, RaceQuiet
<1> QED
  BY <1>2, <1>3, <1>4, <1>5 DEF Next, Step

\* Requests that race on a balance write the start balance, or the refill of
\* one interval, more than once; never more often than there are slots, with
\* those the counter lost, or slots and lost replies (checkBalance.ts).
THEOREM RacesBounded == Spec => []SlotsBoundRaces
<1>1. Inv /\ RaceInv => SlotsBoundRaces
  <2>. SUFFICES ASSUME Inv, RaceInv PROVE SlotsBoundRaces
    OBVIOUS
  <2>1. /\ inits \in Nat /\ refills \in Nat /\ Unknown \in Nat /\ faults \in Nat /\ Limit \in Nat
    BY RequestAssumption, LimitAssumption DEF Inv, TypeOK, Unknown
  <2> QED
    BY <2>1, Racers DEF RaceInv, SlotsBoundRaces
<1>2. Spec => []RaceInv
  BY Invariant, RaceInit, RaceStep, PTL DEF Spec
<1> QED
  BY <1>1, <1>2, Invariant, PTL
=============================================================================
