-------------------------- MODULE FlowState_proofs --------------------------
(***************************************************************************)
(* Proofs about FlowState, for any requests, lifetimes and flow types.     *)
(***************************************************************************)
EXTENDS FlowState, TLAPS

Places ==
  {"idle", "stored", "pausing", "storing", "handling", "completing", "failing", "rereading",
   "setCompleted", "setFailed", "setTimedOut", "polling", "retrying", "clearing", "aborting",
   "trailing", "settled", "dead"}

Writing == {"setCompleted", "setFailed", "setTimedOut"}

\* Types, what a request holds when it is about to write, and that a completed
\* flow has a result, which is what a waiter is answered with.
TypeInv ==
  /\ TypeOK
  /\ pc \in [Requests -> Places]
  /\ \A r \in Requests : pc[r] \in Writing => held[r] \in Records
  /\ record # NoFlow /\ record.status = "COMPLETED" => record.result \in Requests

\* A waiter that polls still has its flow, and one more moment of it once it has
\* looked; whoever found nothing may find nothing.
Attended ==
  \A c \in Callers :
    /\ pc[c] = "polling" /\ c \notin lost
         => record # NoFlow /\ (c \in polled => record.left >= 2)
    /\ pc[c] = "retrying" \/ answer[c] = "missing" => c \in lost

LearnInv == TypeInv /\ (MonitorTimeout < Ttl => Attended)

\* A new flow, and every way in which a flow changes.
LEMMA FlowChanges ==
  ASSUME NEW r \in Records
  PROVE  /\ Pending \in Records /\ Pending.status = "PENDING" /\ Pending.left = Ttl
         /\ \A q \in Requests :
              [r EXCEPT !.status = "COMPLETED", !.result = q, !.left = Ttl] \in Records
         /\ [r EXCEPT !.status = "FAILED", !.left = Ttl] \in Records
         /\ [r EXCEPT !.status = "FAILED", !.left = RemainingTtl(r)] \in Records
         /\ [r EXCEPT !.stale = TRUE] \in Records
         /\ r.left # 1 => [r EXCEPT !.left = @ - 1] \in Records
<1>1. Ttl \in 1 .. Ttl /\ r.left \in 1 .. Ttl
  BY FlowAssumption DEF Records
<1>2. Pending \in Records /\ Pending.status = "PENDING" /\ Pending.left = Ttl
  BY <1>1 DEF Records, Pending
<1>3. \A q \in Requests :
        [r EXCEPT !.status = "COMPLETED", !.result = q, !.left = Ttl] \in Records
  BY <1>1 DEF Records
<1>4. [r EXCEPT !.status = "FAILED", !.left = Ttl] \in Records
  BY <1>1 DEF Records
<1>5. [r EXCEPT !.status = "FAILED", !.left = RemainingTtl(r)] \in Records
  BY <1>1 DEF Records, RemainingTtl
<1>6. [r EXCEPT !.stale = TRUE] \in Records
  BY DEF Records
<1>7. ASSUME r.left # 1 PROVE [r EXCEPT !.left = @ - 1] \in Records
  <2>1. r.left - 1 \in 1 .. Ttl
    BY <1>1, <1>7, FlowAssumption
  <2> QED
    BY <2>1 DEF Records
<1> QED
  BY <1>2, <1>3, <1>4, <1>5, <1>6, <1>7

\* The initial states.
LEMMA InitLearns == Init => LearnInv
<1>. SUFFICES ASSUME Init PROVE LearnInv
  OBVIOUS
<1>1. TypeOK
  BY FlowAssumption DEF Init, TypeOK, NoAnswer
<1>2. TypeInv
  BY <1>1, FlowAssumption DEF Init, TypeInv, Places, Writing
<1>3. Attended
  BY DEF Init, Attended, Requests, NoAnswer
<1> QED
  BY <1>2, <1>3 DEF LearnInv

\* Every step keeps the types.
LEMMA TypeStep == TypeInv /\ [Next]_vars => TypeInv'
<1>. SUFFICES ASSUME TypeInv, [Next]_vars PROVE TypeInv'
  OBVIOUS
<1>. USE FlowAssumption
<1>1. \A c \in Callers : c \in Requests
  BY DEF Requests
<1>2. record # NoFlow => record \in Records
  BY DEF TypeInv, TypeOK
<1>3. Pending \in Records /\ Pending.status = "PENDING"
  BY DEF Pending, Records
<1>4. ASSUME NEW c \in Callers, InitFlow(c) PROVE TypeInv'
  <2>1. flows' \in 0 .. MaxFlows /\ record' = Pending
    <3>1. flows \in 0 .. MaxFlows /\ flows < MaxFlows /\ flows' = flows + 1
      BY <1>4 DEF InitFlow, Stored, TypeInv, TypeOK
    <3> QED
      BY <3>1, <1>4 DEF InitFlow, Stored
  <2> QED
    BY <2>1, <1>1, <1>3, <1>4 DEF InitFlow, At, TypeInv, TypeOK, Places, Writing
<1>5. ASSUME NEW c \in Callers, FirstLook(c) \/ SecondLook(c) PROVE TypeInv'
  BY <1>1, <1>5 DEF FirstLook, SecondLook, Join, Monitor, Settle, At, TypeInv, TypeOK, Places, Writing
<1>6. ASSUME NEW c \in Callers, StoreFlow(c) PROVE TypeInv'
  <2>1. flows' \in 0 .. MaxFlows /\ record' = Pending
    <3>1. flows \in 0 .. MaxFlows /\ flows < MaxFlows /\ flows' = flows + 1
      BY <1>6 DEF StoreFlow, Stored, TypeInv, TypeOK
    <3> QED
      BY <3>1, <1>6 DEF StoreFlow, Stored
  <2> QED
    BY <2>1, <1>1, <1>3, <1>6 DEF StoreFlow, Monitor, Settle, At, TypeInv, TypeOK, Places, Writing
<1>7. ASSUME NEW c \in Callers, NEW well \in BOOLEAN, HandlerEnds(c, well) PROVE TypeInv'
  BY <1>1, <1>7 DEF HandlerEnds, Removed, Watchers, At, TypeInv, TypeOK, Places, Writing
<1>8. ASSUME NEW c \in Callers, Reread(c) PROVE TypeInv'
  BY <1>1, <1>8 DEF Reread, Settle, At, TypeInv, TypeOK, Places, Writing
<1>9. ASSUME NEW b \in Callbacks, NEW well \in BOOLEAN, Callback(b, well) PROVE TypeInv'
  <2>1. b \in Requests
    BY DEF Requests
  <2> QED
    BY <2>1, <1>9 DEF Callback, At, TypeInv, TypeOK, Places, Writing
<1>10. ASSUME NEW r \in Requests, CompleteRead(r) \/ FailRead(r) PROVE TypeInv'
  <2>1. CASE Settleable
    <3>1. record \in Records /\ held' = [held EXCEPT ![r] = record]
      BY <2>1, <1>2, <1>10 DEF Settleable, CompleteRead, FailRead, Hold
    <3>2. \E place \in Writing : pc' = [pc EXCEPT ![r] = place]
      BY <2>1, <1>10 DEF CompleteRead, FailRead, At, Writing
    <3> QED
      BY <2>1, <3>1, <3>2, <1>10 DEF CompleteRead, FailRead, TypeInv, TypeOK, Places, Writing
  <2>2. CASE ~Settleable /\ CompleteRead(r)
    BY <2>2 DEF CompleteRead, Completed, At, TypeInv, TypeOK, Places, Writing
  <2>3. CASE ~Settleable /\ FailRead(r)
    BY <2>3 DEF FailRead, Failed, At, TypeInv, TypeOK, Places, Writing
  <2> QED
    BY <2>1, <2>2, <2>3, <1>10
<1>11. ASSUME NEW r \in Requests, CompleteWrite(r) PROVE TypeInv'
  <2>1. held[r] \in Records
    BY <1>11 DEF CompleteWrite, TypeInv, Writing
  <2>2. record' \in Records /\ record'.result \in Requests
    <3>1. record' \in Records
      BY <2>1, <1>11, FlowChanges DEF CompleteWrite
    <3>2. record'.result = r
      BY <2>1, <1>11 DEF CompleteWrite, Records
    <3> QED
      BY <3>1, <3>2
  <2> QED
    BY <2>2, <1>11 DEF CompleteWrite, Drop, Completed, At, TypeInv, TypeOK, Places, Writing
<1>12. ASSUME NEW r \in Requests, FailWrite(r) PROVE TypeInv'
  <2>1. held[r] \in Records
    BY <1>12 DEF FailWrite, TypeInv, Writing
  <2>2. record' \in Records /\ record'.status = "FAILED"
    <3>1. record' \in Records
      BY <2>1, <1>12, FlowChanges DEF FailWrite
    <3>2. record'.status = "FAILED"
      BY <2>1, <1>12 DEF FailWrite, Records
    <3> QED
      BY <3>1, <3>2
  <2> QED
    BY <2>2, <1>12 DEF FailWrite, Drop, Failed, At, TypeInv, TypeOK, Places, Writing
<1>13. ASSUME NEW c \in Callers, record # NoFlow, Watched(c), UNCHANGED record,
              UNCHANGED <<type, aborted, flows, lost>>, retried' \subseteq Callers, polled' \subseteq Callers
       PROVE  TypeInv'
  <2>1. CASE record.status = "COMPLETED"
    BY <2>1, <1>13, <1>1 DEF Watched, Settle, At, TypeInv, TypeOK, Places, Writing
  <2>2. CASE record.status = "FAILED"
    BY <2>2, <1>13, <1>1 DEF Watched, At, TypeInv, TypeOK, Places, Writing
  <2>3. CASE record.status = "PENDING" /\ Overdue(record)
    <3>1. answer' = [answer EXCEPT ![c] = "timed out"]
      BY <2>3, <1>13 DEF Watched
    <3>2. CASE Retained
      <4>1. pc' = [pc EXCEPT ![c] = "setTimedOut"] /\ held' = [held EXCEPT ![c] = record]
        BY <2>3, <3>2, <1>13 DEF Watched, Hold, At
      <4>2. record \in Records
        BY <1>2, <1>13
      <4> QED
        BY <3>1, <4>1, <4>2, <1>13, <1>1 DEF TypeInv, TypeOK, Places, Writing
    <3>3. CASE ~Retained
      BY <2>3, <3>1, <3>3, <1>13, <1>1, <1>2 DEF Watched, At, TypeInv, TypeOK, Places, Writing
    <3> QED
      BY <3>2, <3>3
  <2>4. CASE record.status = "PENDING" /\ ~Overdue(record)
    BY <2>4, <1>13, <1>1 DEF Watched, At, TypeInv, TypeOK, Places, Writing
  <2> QED
    BY <2>1, <2>2, <2>3, <2>4, <1>2, <1>13 DEF Records
<1>14. ASSUME NEW c \in Callers, Poll(c) PROVE TypeInv'
  <2>1. CASE record # NoFlow
    BY <2>1, <1>13, <1>14 DEF Poll, TypeInv, TypeOK
  <2>2. CASE record = NoFlow
    BY <2>2, <1>1, <1>14 DEF Poll, Settle, At, TypeInv, TypeOK, Places, Writing
  <2> QED
    BY <2>1, <2>2
<1>15. ASSUME NEW c \in Callers, RetryPoll(c) PROVE TypeInv'
  <2>1. CASE record # NoFlow
    BY <2>1, <1>13, <1>15 DEF RetryPoll, TypeInv, TypeOK
  <2>2. CASE record = NoFlow
    BY <2>2, <1>1, <1>15 DEF RetryPoll, Settle, At, TypeInv, TypeOK, Places, Writing
  <2> QED
    BY <2>1, <2>2
<1>16. ASSUME NEW c \in Callers, Clear(c) \/ \E b \in BOOLEAN : AbortDeletes(c, b) PROVE TypeInv'
  BY <1>1, <1>16 DEF Clear, AbortDeletes, Removed, Watchers, At, TypeInv, TypeOK, Places, Writing
<1>17. ASSUME NEW c \in Callers, TimeOut(c) PROVE TypeInv'
  <2>1. held[c] \in Records
    BY <1>1, <1>17 DEF TimeOut, TypeInv, Writing
  <2>2. record' \in Records /\ record'.status = "FAILED"
    BY <2>1, <1>17 DEF TimeOut, Records, RemainingTtl
  <2> QED
    BY <2>2, <1>1, <1>17 DEF TimeOut, Watchers, Drop, At, TypeInv, TypeOK, Places, Writing
<1>18. ASSUME NEW c \in Callers, TrailingPoll(c) \/ Abort(c) PROVE TypeInv'
  BY <1>1, <1>18 DEF TrailingPoll, Abort, At, TypeInv, TypeOK, Places, Writing
<1>19. CASE DeleteFlow
  BY <1>19 DEF DeleteFlow, Removed, Watchers, TypeInv, TypeOK
<1>20. CASE TokenExpires
  <2>1. record' \in Records /\ record'.result = record.result
    BY <1>2, <1>20 DEF TokenExpires, Records
  <2> QED
    BY <2>1, <1>20 DEF TokenExpires, TypeInv, TypeOK
<1>21. CASE Tick
  <2>1. CASE record.left = 1
    BY <2>1, <1>21 DEF Tick, TypeInv, TypeOK
  <2>2. CASE record.left # 1
    <3>1. record' \in Records
      BY <2>2, <1>2, <1>21, FlowChanges DEF Tick
    <3>2. record'.status = record.status /\ record'.result = record.result
      BY <2>2, <1>2, <1>21 DEF Tick, Records
    <3> QED
      BY <3>1, <3>2, <1>21 DEF Tick, TypeInv, TypeOK
  <2> QED
    BY <2>1, <2>2
<1>22. ASSUME NEW r \in Requests, Crash(r) PROVE TypeInv'
  BY <1>22 DEF Crash, Drop, At, TypeInv, TypeOK, Places, Writing
<1>23. CASE UNCHANGED vars
  BY <1>23 DEF vars, TypeInv, TypeOK
<1> QED
  BY <1>4, <1>5, <1>6, <1>7, <1>8, <1>9, <1>10, <1>11, <1>12, <1>14, <1>15, <1>16, <1>17,
     <1>18, <1>19, <1>20, <1>21, <1>22, <1>23 DEF Next, WaiterStep

\* Every step keeps a watched flow in sight, where it outlives the timeout.
LEMMA AttendStep ==
  ASSUME TypeInv, MonitorTimeout < Ttl, Attended, [Next]_vars
  PROVE  Attended'
<1>. USE FlowAssumption
<1>1. Ttl \in Nat /\ Ttl >= 2 /\ MonitorTimeout \in Nat
  BY DEF MonitorTimeout
<1>2. /\ \A c \in Callers : c \in Requests
      /\ pc \in [Requests -> Places] /\ answer \in [Callers -> Requests \cup {NoAnswer, "failed", "timed out", "aborted", "missing"}]
      /\ record # NoFlow => record \in Records /\ record.left \in 1 .. Ttl
  BY DEF TypeInv, TypeOK, Requests, Records
<1>3. Pending.left = Ttl /\ Pending \in Records
  BY <1>1 DEF Pending, Records
<1>23. ASSUME record # NoFlow PROVE record.left \in Int /\ (record.left = 1 \/ record.left >= 2)
  <2>1. record.left \in 1 .. Ttl
    BY <1>2, <1>23
  <2> QED
    BY <2>1, <1>1
<1>4. ASSUME NEW c \in Callers, InitFlow(c) PROVE Attended'
  BY <1>1, <1>2, <1>3, <1>4 DEF InitFlow, Stored, At, Attended
<1>5. ASSUME NEW c \in Callers, FirstLook(c) \/ SecondLook(c) PROVE Attended'
  <2>1. CASE ~Joinable
    BY <2>1, <1>2, <1>5 DEF FirstLook, SecondLook, At, Attended
  <2>2. CASE Joinable
    <3>1. record # NoFlow /\ (record.left = 1 \/ record.left >= 2)
      BY <2>2, <1>23 DEF Joinable
    <3>2. Join(c) /\ record' = record
      BY <2>2, <1>5 DEF FirstLook, SecondLook
    <3> QED
      BY <3>1, <3>2, <1>2 DEF Join, Monitor, Settle, At, Attended
  <2> QED
    BY <2>1, <2>2
<1>6. ASSUME NEW c \in Callers, StoreFlow(c) PROVE Attended'
  BY <1>1, <1>2, <1>3, <1>6 DEF StoreFlow, Stored, Monitor, Settle, At, Attended
<1>7. ASSUME NEW c \in Callers, NEW well \in BOOLEAN, HandlerEnds(c, well) PROVE Attended'
  BY <1>2, <1>7 DEF HandlerEnds, Removed, Watchers, Watching, At, Attended
<1>8. ASSUME NEW c \in Callers, Reread(c) PROVE Attended'
  BY <1>2, <1>8 DEF Reread, Settle, At, TypeInv, Attended
<1>9. ASSUME NEW b \in Callbacks, NEW well \in BOOLEAN, Callback(b, well) PROVE Attended'
  BY <1>2, <1>9 DEF Callback, At, Attended, Requests
<1>10. ASSUME NEW r \in Requests, CompleteRead(r) \/ FailRead(r) PROVE Attended'
  <2>1. UNCHANGED <<record, polled, lost>> /\ \E place \in {"setCompleted", "setFailed", "rereading", "settled"} : pc' = [pc EXCEPT ![r] = place]
    BY <1>10 DEF CompleteRead, FailRead, Completed, Failed, At
  <2>2. answer' = answer \/ answer' = [d \in Callers |-> IF d = r THEN "failed" ELSE answer[d]]
    BY <1>10 DEF CompleteRead, FailRead, Completed, Failed
  <2>3. \A d \in Callers : answer'[d] = "missing" => answer[d] = "missing"
    BY <2>2, <1>2
  <2>4. \A d \in Callers : pc'[d] \in {"polling", "retrying"} => pc'[d] = pc[d]
    BY <2>1, <1>2
  <2> QED
    BY <2>1, <2>3, <2>4, <1>2 DEF Attended
<1>11. ASSUME NEW r \in Requests, CompleteWrite(r) \/ FailWrite(r) PROVE Attended'
  <2>1. held[r] \in Records
    BY <1>11 DEF CompleteWrite, FailWrite, TypeInv, Writing
  <2>2. record' \in Records /\ record'.left = Ttl
    <3>1. record' \in Records
      BY <1>11, <2>1, FlowChanges DEF CompleteWrite, FailWrite
    <3>2. record'.left = Ttl
      BY <1>11, <2>1 DEF CompleteWrite, FailWrite, Records
    <3> QED
      BY <3>1, <3>2
  <2> QED
    BY <2>2, <1>1, <1>2, <1>11 DEF CompleteWrite, FailWrite, Completed, Failed, At, Attended
<1>12. ASSUME NEW c \in Callers, record # NoFlow, Watched(c), polled' \in {polled, polled \cup {c}},
              UNCHANGED <<record, lost>>,
              pc[c] = "polling" \/ c \in lost
       PROVE  Attended'
  <2>1. CASE record.status = "COMPLETED"
    BY <2>1, <1>2, <1>12 DEF Watched, Settle, At, TypeInv, Attended
  <2>2. CASE record.status = "FAILED"
    BY <2>2, <1>2, <1>12 DEF Watched, At, Attended
  <2>3. CASE record.status = "PENDING" /\ Overdue(record)
    BY <2>3, <1>2, <1>12 DEF Watched, At, Attended
  <2>4. CASE record.status = "PENDING" /\ ~Overdue(record)
    <3>1. record.left \in Int /\ ~(Ttl - record.left >= MonitorTimeout)
      BY <2>4, <1>23, <1>12 DEF Overdue
    <3>2. record.left >= 2
      BY <3>1, <1>1
    <3>3. pc' = [pc EXCEPT ![c] = "polling"] /\ answer' = answer
      BY <2>4, <1>12 DEF Watched, At
    <3> QED
      BY <3>2, <3>3, <1>2, <1>12 DEF Attended
  <2> QED
    BY <2>1, <2>2, <2>3, <2>4, <1>2, <1>12 DEF Records
<1>13. ASSUME NEW c \in Callers, Poll(c) PROVE Attended'
  <2>1. CASE record # NoFlow
    BY <2>1, <1>12, <1>13 DEF Poll
  <2>2. CASE record = NoFlow
    BY <2>2, <1>2, <1>13 DEF Poll, Settle, At, Attended
  <2> QED
    BY <2>1, <2>2
<1>14. ASSUME NEW c \in Callers, RetryPoll(c) PROVE Attended'
  <2>1. c \in lost
    BY <1>14 DEF RetryPoll, Attended
  <2>2. CASE record # NoFlow
    BY <2>1, <2>2, <1>12, <1>14 DEF RetryPoll
  <2>3. CASE record = NoFlow
    BY <2>1, <2>3, <1>2, <1>14 DEF RetryPoll, Settle, At, Attended
  <2> QED
    BY <2>2, <2>3
<1>15. ASSUME NEW c \in Callers, Clear(c) \/ \E b \in BOOLEAN : AbortDeletes(c, b) PROVE Attended'
  BY <1>2, <1>15 DEF Clear, AbortDeletes, Removed, Watchers, Watching, At, Attended
<1>16. ASSUME NEW c \in Callers, TimeOut(c) PROVE Attended'
  <2>1. held[c] \in Records
    BY <1>2, <1>16 DEF TimeOut, TypeInv, Writing
  <2>2. record' \in Records
    BY <1>16, <2>1, FlowChanges DEF TimeOut
  <2>3. record'.left = held[c].left /\ held[c].left \in 1 .. Ttl
    BY <1>16, <2>1 DEF TimeOut, RemainingTtl, Records
  <2>4. CASE held[c].left = 1
    BY <2>2, <2>4, <1>2, <1>16 DEF TimeOut, Watchers, Watching, At, Attended
  <2>5. CASE held[c].left # 1
    <3>1. record'.left >= 2
      BY <2>3, <2>5
    <3> QED
      BY <2>2, <2>5, <3>1, <1>2, <1>16 DEF TimeOut, At, Attended
  <2> QED
    BY <2>4, <2>5
<1>17. ASSUME NEW c \in Callers, TrailingPoll(c) \/ Abort(c) PROVE Attended'
  BY <1>2, <1>17 DEF TrailingPoll, Abort, At, Attended
<1>18. CASE DeleteFlow
  BY <1>2, <1>18 DEF DeleteFlow, Removed, Watchers, Watching, Attended
<1>19. CASE TokenExpires
  <2>1. record' \in Records /\ record'.left = record.left
    BY <1>2, <1>19 DEF TokenExpires, Records
  <2> QED
    BY <2>1, <1>19 DEF TokenExpires, Attended
<1>20. CASE Tick
  <2>1. CASE record.left = 1
    BY <2>1, <1>20 DEF Tick, Attended
  <2>2. CASE record.left # 1
    <3>1. record' \in Records
      BY <2>2, <1>2, <1>20, FlowChanges DEF Tick
    <3> QED
      BY <2>2, <3>1, <1>20 DEF Tick, Attended
  <2> QED
    BY <2>1, <2>2
<1>21. ASSUME NEW r \in Requests, Crash(r) PROVE Attended'
  BY <1>2, <1>21 DEF Crash, At, Attended
<1>22. CASE UNCHANGED vars
  BY <1>22 DEF vars, Attended
<1> QED
  BY <1>4, <1>5, <1>6, <1>7, <1>8, <1>9, <1>10, <1>11, <1>13, <1>14, <1>15, <1>16, <1>17,
     <1>18, <1>19, <1>20, <1>21, <1>22 DEF Next, WaiterStep

\* The timeout of a flow never changes.
LEMMA TimeoutStays == [Next]_vars => UNCHANGED type
BY DEF Next, vars, WaiterStep, Poll, RetryPoll, Clear, TimeOut, TrailingPoll, AbortDeletes, InitFlow,
   FirstLook, SecondLook, StoreFlow, HandlerEnds, Reread, Abort, Callback, CompleteRead, CompleteWrite,
   FailRead, FailWrite, Crash, DeleteFlow, TokenExpires, Tick

LEMMA Learns == Spec => []LearnInv
<1>1. LearnInv /\ [Next]_vars => LearnInv'
  <2>. SUFFICES ASSUME LearnInv, [Next]_vars PROVE LearnInv'
    OBVIOUS
  <2>1. TypeInv'
    BY TypeStep DEF LearnInv
  <2>2. ASSUME (MonitorTimeout < Ttl)' PROVE Attended'
    <3>1. MonitorTimeout < Ttl
      BY <2>2, TimeoutStays DEF MonitorTimeout
    <3> QED
      BY <3>1, AttendStep DEF LearnInv
  <2> QED
    BY <2>1, <2>2 DEF LearnInv
<1> QED
  BY InitLearns, <1>1, PTL DEF Spec

\* The type invariant of flow/manager.ts, for any number of requests.
THEOREM TypeCorrect == Spec => []TypeOK
<1>1. LearnInv => TypeOK
  BY DEF LearnInv, TypeInv
<1> QED
  BY Learns, <1>1, PTL

\* Nobody is told that a flow is missing unless it was deleted, or joined or
\* timed out in its last moment, whatever requests, callbacks and crashes do.
THEOREM EndIsLearnt == Spec => []LearnsTheEnd
<1>1. LearnInv => LearnsTheEnd
  BY DEF LearnInv, Attended, LearnsTheEnd
<1> QED
  BY Learns, <1>1, PTL
=============================================================================
