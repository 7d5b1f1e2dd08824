------------------------------ MODULE FlowState ------------------------------
(***************************************************************************)
(* One flow of FlowStateManager (flow/manager.ts): a record in a shared    *)
(* key-value store with a lifetime, and the requests of several processes  *)
(* that create it, run its handler, poll it, settle it and delete it.      *)
(* Every access to the store is awaited, so what a request decides on may  *)
(* have changed when it writes.                                            *)
(***************************************************************************)
EXTENDS Integers

CONSTANTS
  Callers,    \* the requests that call createFlow or createFlowWithHandler
  Callbacks,  \* the requests that call completeFlow or failFlow
  NoFlow,     \* nothing is stored under the key
  Types,      \* the flow types of this instance
  Ttl,        \* the lifetime of a stored flow
  Handling,   \* OAUTH_HANDLING_TIMEOUT
  MaxFlows    \* bound on the flows that are stored

FlowTypes == {"mcp_oauth", "mcp_get_tokens", "oauth", "oauth_login", "oauth_refresh", "MEILI_SYNC"}

VARIABLES
  type,     \* the type of the flow
  record,   \* what is stored
  pc,       \* where each request is
  held,     \* what it read and is going to write back
  answer,   \* what its promise was settled with
  retried,  \* the callers that found no flow once (missingStateRetried)
  polled,   \* the callers that polled, or began to, since the last tick
  aborted,  \* the callers whose signal is aborted
  flows,    \* number of flows stored
  lost      \* history: the callers that may find nothing

vars == <<type, record, pc, held, answer, retried, polled, aborted, flows, lost>>

\* Which types are created how, from the calls of the manager; oauth_login is the
\* one of the actions.
Handled == type \in {"mcp_get_tokens", "oauth_login", "oauth_refresh", "MEILI_SYNC"}
HasSignal == type \in {"mcp_get_tokens", "oauth", "oauth_login", "oauth_refresh"}
Retained == type = "mcp_oauth"

\* monitorTimeout, which is the lifetime where it is not configured.
MonitorTimeout == IF type \in {"mcp_oauth", "mcp_get_tokens"} THEN Handling ELSE Ttl

Requests == Callers \cup Callbacks
NoAnswer == "none"
Watching == {"polling", "retrying"}

Records ==
  [status : {"PENDING", "COMPLETED", "FAILED"}, left : 1 .. Ttl,
   result : Requests \cup {NoFlow}, stale : BOOLEAN]

ASSUME FlowAssumption ==
  /\ Types \subseteq FlowTypes
  /\ Ttl \in Nat /\ Handling \in 1 .. Ttl - 1 /\ MaxFlows \in Nat
  /\ NoFlow \notin Requests \cup Records /\ "missing" \notin Requests

Pending == [status |-> "PENDING", left |-> Ttl, result |-> NoFlow, stale |-> FALSE]

\* elapsedTime >= monitorTimeout
Overdue(r) == Ttl - r.left >= MonitorTimeout

Init ==
  /\ type \in Types
  /\ record = NoFlow
  /\ pc = [r \in Requests |-> "idle"]
  /\ held = [r \in Requests |-> NoFlow]
  /\ answer = [c \in Callers |-> NoAnswer]
  /\ retried = {} /\ polled = {} /\ aborted = {}
  /\ flows = 0
  /\ lost = {}

At(r, place) == pc' = [pc EXCEPT ![r] = place]

\* The promise of c is settled.
Settle(c, with) == At(c, "settled") /\ answer' = [answer EXCEPT ![c] = with]

\* What a request writes after it read.
Hold(r) == held' = [held EXCEPT ![r] = record]
Drop(r) == held' = [held EXCEPT ![r] = NoFlow]

\* keyv.set of a new flow
Stored == record' = Pending /\ flows' = flows + 1

\* The callers that watch may not find the flow at their next poll.
Watchers == {c \in Callers : pc[c] \in Watching}

\* keyv.delete, under everybody who watches the flow
Removed == record' = NoFlow /\ lost' = lost \cup Watchers

-----------------------------------------------------------------------------
(* createFlow and createFlowWithHandler *)

\* A flow that is joined; one with an expired token is replaced by a handler.
Joinable == record # NoFlow /\ (Handled => ~record.stale)

\* monitorFlow: the first poll comes after an interval.
Monitor(c) ==
  /\ IF c \in aborted THEN Settle(c, "aborted") ELSE At(c, "polling") /\ UNCHANGED answer
  /\ polled' = polled \cup {c}

\* A flow in the last moment of its lifetime may be gone at the first poll.
Join(c) ==
  /\ Monitor(c)
  /\ lost' = IF record.left = 1 THEN lost \cup {c} ELSE lost

\* initFlow, before createFlow
InitFlow(c) ==
  /\ type = "mcp_oauth"
  /\ pc[c] = "idle"
  /\ flows < MaxFlows
  /\ Stored
  /\ At(c, "stored")
  /\ UNCHANGED <<type, held, answer, retried, polled, aborted, lost>>

\* The first look; a caller that finds nothing waits and looks again.
FirstLook(c) ==
  /\ pc[c] \in {"idle", "stored"}
  /\ IF Joinable THEN Join(c)
     ELSE At(c, "pausing") /\ UNCHANGED <<answer, polled, lost>>
  /\ UNCHANGED <<type, record, held, retried, aborted, flows>>

\* The second look; only a caller that found nothing twice creates the flow.
SecondLook(c) ==
  /\ pc[c] = "pausing"
  /\ IF Joinable THEN Join(c)
     ELSE At(c, "storing") /\ UNCHANGED <<answer, polled, lost>>
  /\ UNCHANGED <<type, record, held, retried, aborted, flows>>

StoreFlow(c) ==
  /\ pc[c] = "storing"
  /\ flows < MaxFlows
  /\ Stored
  /\ IF Handled THEN At(c, "handling") /\ UNCHANGED <<answer, polled>> ELSE Monitor(c)
  /\ UNCHANGED <<type, held, retried, aborted, lost>>

\* The handler ends; that of an index synchronisation deletes its own flow.
HandlerEnds(c, well) ==
  /\ pc[c] = "handling"
  /\ At(c, IF well THEN "completing" ELSE "failing")
  /\ IF type = "MEILI_SYNC" THEN Removed ELSE UNCHANGED <<record, lost>>
  /\ UNCHANGED <<type, held, answer, retried, polled, aborted, flows>>

\* What the caller returns: the stored result, if there is one.
Reread(c) ==
  /\ pc[c] = "rereading"
  /\ Settle(c, IF record # NoFlow /\ record.status = "COMPLETED" THEN record.result ELSE c)
  /\ UNCHANGED <<type, record, held, retried, polled, aborted, flows, lost>>

-----------------------------------------------------------------------------
(* completeFlow and failFlow, called by a handler's caller or a callback *)

Settleable == record # NoFlow /\ record.status # "COMPLETED"

\* Where a call of completeFlow and of failFlow returns to.
Completed(r) == At(r, IF r \in Callers THEN "rereading" ELSE "settled") /\ UNCHANGED answer
Failed(r) ==
  /\ At(r, "settled")
  /\ answer' = [c \in Callers |-> IF c = r THEN "failed" ELSE answer[c]]

\* A callback brings a result, or an error.
Callback(b, well) ==
  /\ pc[b] = "idle"
  /\ type \in {"mcp_oauth", "oauth"} \/ (type = "mcp_get_tokens" /\ well)
  /\ At(b, IF well THEN "completing" ELSE "failing")
  /\ UNCHANGED <<type, record, held, answer, retried, polled, aborted, flows, lost>>

CompleteRead(r) ==
  /\ pc[r] = "completing"
  /\ IF Settleable THEN Hold(r) /\ At(r, "setCompleted") /\ UNCHANGED answer
     ELSE Completed(r) /\ UNCHANGED held
  /\ UNCHANGED <<type, record, retried, polled, aborted, flows, lost>>

\* Seeded bug: the completed flow keeps what was left of its lifetime.
CompleteWrite_KeepsLifetime(r) ==
  /\ pc[r] = "setCompleted"
  /\ record' = [held[r] EXCEPT !.status = "COMPLETED", !.result = r]
  /\ Drop(r)
  /\ Completed(r)
  /\ UNCHANGED <<type, retried, polled, aborted, flows, lost>>

CompleteWrite(r) ==
  /\ pc[r] = "setCompleted"
  /\ record' = [held[r] EXCEPT !.status = "COMPLETED", !.result = r, !.left = Ttl]
  /\ Drop(r)
  /\ Completed(r)
  /\ UNCHANGED <<type, retried, polled, aborted, flows, lost>>

FailRead(r) ==
  /\ pc[r] = "failing"
  /\ IF Settleable THEN Hold(r) /\ At(r, "setFailed") /\ UNCHANGED answer
     ELSE Failed(r) /\ UNCHANGED held
  /\ UNCHANGED <<type, record, retried, polled, aborted, flows, lost>>

FailWrite(r) ==
  /\ pc[r] = "setFailed"
  /\ record' = [held[r] EXCEPT !.status = "FAILED", !.left = Ttl]
  /\ Drop(r)
  /\ Failed(r)
  /\ UNCHANGED <<type, retried, polled, aborted, flows, lost>>

-----------------------------------------------------------------------------
(* monitorFlow *)

\* What a poll does with the flow it found.
Watched(c) ==
  CASE record.status = "COMPLETED" ->
         Settle(c, record.result) /\ UNCHANGED held
    [] record.status = "FAILED" ->
         /\ answer' = [answer EXCEPT ![c] = "failed"]
         /\ At(c, IF Retained THEN "settled" ELSE "clearing")
         /\ UNCHANGED held
    [] record.status = "PENDING" /\ Overdue(record) ->
         /\ answer' = [answer EXCEPT ![c] = "timed out"]
         /\ IF Retained THEN At(c, "setTimedOut") /\ Hold(c)
                        ELSE At(c, "clearing") /\ UNCHANGED held
    [] OTHER -> At(c, "polling") /\ UNCHANGED <<answer, held>>

Poll(c) ==
  /\ pc[c] = "polling"
  /\ polled' = polled \cup {c}
  /\ IF record # NoFlow
       THEN Watched(c) /\ UNCHANGED retried
       ELSE /\ IF c \in retried THEN Settle(c, "missing")
                                ELSE At(c, "retrying") /\ UNCHANGED answer
            /\ retried' = retried \cup {c}
            /\ UNCHANGED held
  /\ UNCHANGED <<type, record, aborted, flows, lost>>

\* Seeded bug: there is always another retry.
RetryPoll_Again(c) ==
  /\ pc[c] = "retrying"
  /\ IF record = NoFlow THEN At(c, "polling") /\ retried' = retried \ {c} /\ UNCHANGED <<answer, held>>
                        ELSE Watched(c) /\ UNCHANGED retried
  /\ UNCHANGED <<type, record, polled, aborted, flows, lost>>

\* The one retry after 500 ms.
RetryPoll(c) ==
  /\ pc[c] = "retrying"
  /\ IF record = NoFlow THEN Settle(c, "missing") /\ UNCHANGED held ELSE Watched(c)
  /\ UNCHANGED <<type, record, retried, polled, aborted, flows, lost>>

\* A waiter that saw a failure or a timeout deletes the flow.
Clear(c) ==
  /\ pc[c] = "clearing"
  /\ Removed
  /\ At(c, "settled")
  /\ UNCHANGED <<type, held, answer, retried, polled, aborted, flows>>

\* remainingTtl
RemainingTtl(r) == r.left

\* A timeout that is retained: the flow it read, failed, for what is left.
TimeOut(c) ==
  /\ pc[c] = "setTimedOut"
  /\ record' = [held[c] EXCEPT !.status = "FAILED", !.left = RemainingTtl(held[c])]
  /\ lost' = IF held[c].left = 1 THEN lost \cup Watchers ELSE lost
  /\ Drop(c)
  /\ At(c, "settled")
  /\ UNCHANGED <<type, answer, retried, polled, aborted, flows>>

\* The signal is aborted; a waiter ends its interval and deletes the flow.
Abort(c) ==
  /\ HasSignal
  /\ c \notin aborted
  /\ pc[c] \in Watching \cup {"pausing", "storing"}
  /\ aborted' = aborted \cup {c}
  /\ IF pc[c] \in Watching
       THEN At(c, "aborting") /\ answer' = [answer EXCEPT ![c] = "aborted"]
       ELSE UNCHANGED <<pc, answer>>
  /\ UNCHANGED <<type, record, held, retried, polled, flows, lost>>

\* abortHandler; a poll, or a retry, may still be under way.
AbortDeletes(c, underWay) ==
  /\ pc[c] = "aborting"
  /\ Removed
  /\ At(c, IF underWay THEN "trailing" ELSE "settled")
  /\ UNCHANGED <<type, held, answer, retried, polled, aborted, flows>>

\* That poll sees the signal and deletes whatever flow it finds.
TrailingPoll(c) ==
  /\ pc[c] = "trailing"
  /\ At(c, IF record = NoFlow THEN "settled" ELSE "clearing")
  /\ UNCHANGED <<type, record, held, answer, retried, polled, aborted, flows, lost>>

-----------------------------------------------------------------------------
(* deleteFlow, time, crashes *)

\* The flow is invalidated: new tokens, a new attempt, a sign-out.
DeleteFlow ==
  /\ type \in {"mcp_oauth", "mcp_get_tokens"}
  /\ record # NoFlow
  /\ Removed
  /\ UNCHANGED <<type, pc, held, answer, retried, polled, aborted, flows>>

\* The token of a completed flow expires.
TokenExpires ==
  /\ record # NoFlow
  /\ record.status = "COMPLETED" /\ ~record.stale
  /\ record' = [record EXCEPT !.stale = TRUE]
  /\ UNCHANGED <<type, pc, held, answer, retried, polled, aborted, flows, lost>>

\* A tick is longer than the interval between two polls.
Tick ==
  /\ record # NoFlow
  /\ \A c \in Callers : pc[c] = "polling" => c \in polled
  /\ record' = IF record.left = 1 THEN NoFlow ELSE [record EXCEPT !.left = @ - 1]
  /\ polled' = {}
  /\ UNCHANGED <<type, pc, held, answer, retried, aborted, flows, lost>>

\* The process of a request dies.
Crash(r) ==
  /\ pc[r] \notin {"idle", "settled", "dead"}
  /\ At(r, "dead")
  /\ Drop(r)
  /\ UNCHANGED <<type, record, answer, retried, polled, aborted, flows, lost>>

-----------------------------------------------------------------------------
\* What a waiter's timers and the store owe it.
WaiterStep(c) ==
  Poll(c) \/ RetryPoll(c) \/ Clear(c) \/ TimeOut(c) \/ TrailingPoll(c)
    \/ \E underWay \in BOOLEAN : AbortDeletes(c, underWay)

Next ==
  \/ \E c \in Callers :
       \/ WaiterStep(c)
       \/ InitFlow(c) \/ FirstLook(c) \/ SecondLook(c) \/ StoreFlow(c)
       \/ \E well \in BOOLEAN : HandlerEnds(c, well)
       \/ Reread(c) \/ Abort(c)
  \/ \E b \in Callbacks, well \in BOOLEAN : Callback(b, well)
  \/ \E r \in Requests :
       CompleteRead(r) \/ CompleteWrite(r) \/ FailRead(r) \/ FailWrite(r) \/ Crash(r)
  \/ DeleteFlow \/ TokenExpires \/ Tick

Spec == Init /\ [][Next]_vars

(***************************************************************************)
(* Time passes, the interval of a waiter fires and the store answers it;   *)
(* no handler, user or provider has to do anything.                        *)
(***************************************************************************)
Fairness == WF_vars(Tick) /\ \A c \in Callers : WF_vars(WaiterStep(c))

FairSpec == Spec /\ Fairness

-----------------------------------------------------------------------------
(* Properties *)

\* Every variable has its type.
TypeOK ==
  /\ type \in Types
  /\ record \in Records \cup {NoFlow}
  /\ held \in [Requests -> Records \cup {NoFlow}]
  /\ answer \in [Callers -> Requests \cup {NoAnswer, "failed", "timed out", "aborted", "missing"}]
  /\ retried \subseteq Callers /\ polled \subseteq Callers /\ aborted \subseteq Callers
  /\ flows \in 0 .. MaxFlows /\ lost \subseteq Callers

\* Where the lifetime outlives the handling timeout, as the configuration of
\* the MCP flows demands, a waiter learns how its flow ended: it only finds
\* nothing if somebody deleted the flow, or if a flow it joined, or one that was
\* put in the place of its own, was in its last moment.
LearnsTheEnd ==
  \A c \in Callers : MonitorTimeout < Ttl /\ answer[c] = "missing" => c \in lost

\* Whoever waits for a flow is answered, also when nobody settles it, when the
\* process that ran the handler dies, or when other waiters delete it.
WaitersSettle ==
  \A c \in Callers : pc[c] \in Watching ~> pc[c] \notin Watching

\* What the index synchronisation and the login say of their flows: the handler
\* only runs if nobody else runs it.
OneHandler ==
  \A c, d \in Callers : pc[c] = "handling" /\ pc[d] = "handling" => c = d

\* What failFlow says of a late failure: it does not overwrite a completed flow.
CompletedStays ==
  [][record # NoFlow /\ record' # NoFlow /\ record.status = "COMPLETED" /\ ~record.stale
       => record'.status # "FAILED"]_vars
=============================================================================
