---------------------- MODULE TerminalPublication_proofs ----------------------
(***************************************************************************)
(* Proofs about TerminalPublication, for any replicas, clients, routes and *)
(* lifetimes and any number of faults.                                     *)
(***************************************************************************)
EXTENDS TerminalPublication, TLAPS

\* What is about to be sent is an event, and who is attached is so somewhere.
Placed ==
  /\ claim.step = "emitting" => claim.event \in Payloads
  /\ \A c \in Clients : client[c].step \in Registered => client[c].at \in Replicas

TypeInv == TypeOK /\ Placed

LEMMA TypeInit == Init => TypeInv
<1>. SUFFICES ASSUME Init PROVE TypeInv
  OBVIOUS
<1>. USE TerminalAssumption
<1>1. row \in Rows
  BY DEF Init, Rows, Terminal, Payloads, None
<1>2. claim \in Claims
  BY DEF Init, NoClaim, Claims, None
<1>3. runtime \in [Replicas -> Runtimes]
  BY DEF Init, Runtimes, NoRuntime, None
<1>4. client \in [Clients -> Subscriptions]
  BY DEF Init, Subscriptions, Away, None
<1>5. Placed
  BY DEF Init, Placed, NoClaim, Away, Registered
<1>6. net = {} /\ faults = 0 /\ lost = FALSE /\ 0 \in 0 .. MaxFaults
  BY DEF Init
<1>7. TypeOK
  BY <1>1, <1>2, <1>3, <1>4, <1>6 DEF TypeOK
<1> QED
  BY <1>5, <1>7 DEF TypeInv

\* What happens to a subscription.
LEMMA Closings_ ==
  ASSUME NEW k \in Subscriptions, NEW with \in Closings
  PROVE  Closed(k, with) \in Subscriptions /\ Later(k) \in Subscriptions
BY DEF Closed, Later, Subscriptions

LEMMA HeardType ==
  ASSUME client \in [Clients -> Subscriptions], NEW r \in Replicas, NEW frame \in Frames
  PROVE  Heard(r, frame) \in [Clients -> Subscriptions]
<1>1. \A c \in Clients : [client[c] EXCEPT !.got = IF @ = None THEN frame ELSE @] \in Subscriptions
  BY DEF Subscriptions, Closings
<1>2. \A c \in Clients : Closed(client[c], frame) \in Subscriptions
  BY Closings_ DEF Closings
<1> QED
  BY <1>1, <1>2 DEF Heard

\* The row after a settlement.
LEMMA SettledType ==
  ASSUME TypeOK, NEW event \in Payloads
  PROVE  Settled(event) \in Rows \cup {NoRow}
BY DEF TypeOK, Settled, Found, Rows

\* What a publication puts on the net.
LEMMA PublishType ==
  ASSUME TypeOK, NEW replicas \in SUBSET Replicas, NEW frame \in Frames, PublishTo(replicas, frame)
  PROVE  net' \subseteq Replicas \X Frames
BY DEF TypeOK, PublishTo

LEMMA HolderTypes ==
  ASSUME TypeInv, HolderStep
  PROVE  TypeInv'
<1>. USE DEF TypeInv, TypeOK
<1>1. /\ {"normal", "reconcile"} \subseteq Payloads /\ Payloads \subseteq Frames /\ "error" \in Frames
      /\ Desired \in Payloads /\ BestEffort \in Payloads
  BY DEF Payloads, Frames, Desired, BestEffort
<1>2. ASSUME Fail PROVE faults' \in 0 .. MaxFaults
  BY <1>2, TerminalAssumption DEF Fail
<1>3. ASSUME NEW event \in Payloads, NEW durable \in BOOLEAN, NEW blind \in BOOLEAN,
             Choose(event, durable, blind)
      PROVE  /\ claim' \in Claims /\ claim'.step = "emitting" /\ claim'.event \in Payloads
             /\ runtime' \in [Replicas -> Runtimes]
  <2>1. claim' \in Claims /\ claim'.step = "emitting" /\ claim'.event \in Payloads
    BY <1>3 DEF Choose, Claims
  <2>2. runtime' = [runtime EXCEPT ![claim.by].final = event] \/ UNCHANGED runtime
    BY <1>3 DEF Choose
  <2> QED
    BY <2>1, <2>2 DEF Runtimes
<1>4. ASSUME UNCHANGED client, claim'.step = "emitting" => claim'.event \in Payloads
      PROVE  Placed'
  BY <1>4 DEF Placed
<1>5. ASSUME NEW well \in BOOLEAN, Save(well) PROVE TypeInv'
  <2>1. claim' \in Claims /\ claim'.step = "publishing"
    BY <1>5 DEF Save, Claims
  <2> QED
    BY <1>4, <1>5, <2>1 DEF Save
<1>6. CASE Settle
  <2>1. row' \in Rows \cup {NoRow}
    BY <1>1, <1>6, SettledType DEF Settle
  <2>2. CASE Choose(Desired, TRUE, FALSE)
    BY <1>1, <1>3, <1>4, <1>6, <2>1, <2>2 DEF Settle
  <2>3. CASE claim' = [claim EXCEPT !.step = "reading"] /\ UNCHANGED runtime
    <3>1. claim' \in Claims /\ claim'.step = "reading"
      BY <2>3 DEF Claims
    <3> QED
      BY <1>4, <1>6, <2>1, <2>3, <3>1 DEF Settle
  <2> QED
    BY <1>6, <2>2, <2>3 DEF Settle
<1>7. ASSUME NEW executed \in BOOLEAN, SettleFails(executed) PROVE TypeInv'
  <2>1. row' \in Rows \cup {NoRow}
    BY <1>1, <1>7, SettledType DEF SettleFails
  <2> QED
    BY <1>1, <1>2, <1>3, <1>4, <1>7, <2>1 DEF SettleFails
<1>8. CASE ReadSettled
  <2>1. PICK event \in Payloads : \E durable \in BOOLEAN : Choose(event, durable, FALSE)
    <3>1. Found /\ row.final # None => row.final \in Payloads
      BY DEF Found, Rows
    <3> QED
      BY <1>1, <1>8, <3>1 DEF ReadSettled
  <2> QED
    BY <1>3, <1>4, <1>8, <2>1 DEF ReadSettled
<1>9. CASE ReadFails
  BY <1>1, <1>2, <1>3, <1>4, <1>9 DEF ReadFails
<1>10. CASE Emit
  <2>1. claim' \in Claims /\ claim'.step = "finishing"
    BY <1>10 DEF Emit, Claims
  <2>2. net' \subseteq Replicas \X Frames
    BY <1>1, <1>10, PublishType DEF Emit, Publish, Placed
  <2> QED
    BY <1>4, <1>10, <2>1, <2>2 DEF Emit
<1>11. ASSUME NEW executed \in BOOLEAN, EmitFails(executed) PROVE TypeInv'
  <2>1. claim' \in Claims /\ claim'.step = "finishing"
    BY <1>11 DEF EmitFails, Claims
  <2>2. net' \subseteq Replicas \X Frames
    BY <1>1, <1>11, PublishType DEF EmitFails, Publish, Placed
  <2>3. client' \in [Clients -> Subscriptions] /\ \A c \in Clients : client'[c] \in {Away, client[c]}
    BY <1>11 DEF EmitFails, Away, Subscriptions, None
  <2>4. Placed'
    BY <2>1, <2>3 DEF Placed, Away, Registered
  <2> QED
    BY <1>2, <1>11, <2>1, <2>2, <2>3, <2>4 DEF EmitFails
<1>12. ASSUME NEW well \in BOOLEAN, FinishError(well) PROVE TypeInv'
  <2>1. claim' \in Claims /\ claim'.step = "releasing"
    BY <1>12 DEF FinishError, Claims
  <2>2. net' \subseteq Replicas \X Frames
    BY <1>1, <1>12, PublishType DEF FinishError, Publish
  <2>3. \A c \in Clients : client'[c] \in {Closed(client[c], "error"), client[c]}
    BY <1>12 DEF FinishError
  <2>4. client' \in [Clients -> Subscriptions]
    <3>1. "error" \in Closings
      BY DEF Closings, Frames
    <3> QED
      BY <1>12, <3>1, Closings_ DEF FinishError
  <2>5. runtime' \in [Replicas -> Runtimes]
    BY <1>12 DEF FinishError, Runtimes
  <2>6. Placed'
    BY <2>1, <2>3 DEF Placed, Closed, Registered
  <2>7. faults' \in 0 .. MaxFaults
    BY <1>2, <1>12 DEF FinishError
  <2> QED
    BY <1>12, <2>1, <2>2, <2>4, <2>5, <2>6, <2>7 DEF FinishError
<1>13. CASE Finish \/ FinishFails
  <2>1. claim' \in Claims /\ claim'.step = "releasing"
    BY <1>13 DEF Finish, FinishFails, Claims
  <2> QED
    BY <1>2, <1>4, <1>13, <2>1 DEF Finish, FinishFails
<1>14. CASE Release
  <2>1. claim' \in Claims /\ claim'.step = "done"
    BY <1>14 DEF Release, Claims
  <2>2. runtime' \in [Replicas -> Runtimes]
    BY <1>14 DEF Release, Runtimes, NoRuntime
  <2> QED
    BY <1>4, <1>14, <2>1, <2>2 DEF Release
<1> QED
  BY <1>5, <1>6, <1>7, <1>8, <1>9, <1>10, <1>11, <1>12, <1>13, <1>14 DEF HolderStep

LEMMA ClientTypes ==
  ASSUME TypeInv, NEW c \in Clients,
         Ready(c) \/ Check(c) \/ Timer(c) \/ CheckFails(c) \/ \E r \in Replicas : Attach(c, r)
  PROVE  TypeInv'
<1>. USE DEF TypeInv, TypeOK
<1>1. "reconcile" \in Payloads /\ "reconcile" \in Frames /\ Closings = Frames \cup {"missing", "gone"}
      /\ Payloads \cup {"error", "missing"} \subseteq Closings
  BY DEF Payloads, Frames, Closings
<1>2. ASSUME Fail PROVE faults' \in 0 .. MaxFaults
  BY <1>2, TerminalAssumption DEF Fail
<1>3. ASSUME NEW r \in Replicas, Recover(r)
      PROVE  row' \in Rows \cup {NoRow} /\ net' \subseteq Replicas \X Frames /\ faults' \in 0 .. MaxFaults
  BY <1>1, <1>2, <1>3, SettledType, PublishType DEF Recover, Publish
<1>4. ASSUME NEW k \in Subscriptions, client' = [client EXCEPT ![c] = k],
             k.step \in Registered => k.at \in Replicas, UNCHANGED claim
      PROVE  client' \in [Clients -> Subscriptions] /\ Placed'
  <2>1. client' \in [Clients -> Subscriptions]
    BY <1>4
  <2> QED
    BY <1>4, <2>1 DEF Placed
<1>5. ASSUME NEW with \in Closings PROVE Closed(client[c], with) \in Subscriptions /\ Closed(client[c], with).step \notin Registered
  BY <1>5, Closings_ DEF Closed, Registered
<1>6. client[c] \in Subscriptions /\ client[c].at = client[c].at
  OBVIOUS
<1>7. CASE Ready(c)
  <2>1. PICK k \in Subscriptions : /\ client' = [client EXCEPT ![c] = k]
                                   /\ k.step \in Registered => k.at \in Replicas
    <3>1. CASE ~Found \/ ~runtime[client[c].at].there
      BY <1>1, <1>5, <1>7, <3>1 DEF Ready
    <3>2. CASE (Found /\ runtime[client[c].at].there) /\ client[c].got # None
      <4>1. client[c].got \in Closings
        BY <3>2 DEF Subscriptions
      <4> QED
        BY <1>5, <1>7, <3>2, <4>1 DEF Ready
    <3>3. CASE (Found /\ runtime[client[c].at].there) /\ client[c].got = None
      <4>1. [client[c] EXCEPT !.step = "checking"] \in Subscriptions /\ client[c].at \in Replicas
        BY <1>7 DEF Ready, Subscriptions, Placed, Registered
      <4> QED
        BY <1>7, <3>3, <4>1 DEF Ready, Subscriptions
    <3> QED
      BY <3>1, <3>2, <3>3
  <2> QED
    BY <1>4, <1>7, <2>1 DEF Ready
<1>8. CASE Check(c)
  <2>. DEFINE r == client[c].at
  <2>1. r \in Replicas
    BY <1>8 DEF Check, Placed, Registered
  <2>2. CASE ~Ended \/ (Ended /\ row.pending /\ ~Stale)
    <3>1. \A step \in {"attached", "waiting"} : [client[c] EXCEPT !.step = step] \in Subscriptions
      BY DEF Subscriptions
    <3>2. PICK step \in {"attached", "waiting"} :
            client' = [client EXCEPT ![c] = [client[c] EXCEPT !.step = step]]
      BY <1>8, <2>2 DEF Check, Later, Stale
    <3>3. [client[c] EXCEPT !.step = step].at \in Replicas
      BY <2>1, <3>1 DEF Subscriptions
    <3>4. UNCHANGED <<row, runtime, net, faults, lost, claim>>
      BY <1>8, <2>2 DEF Check, Stale
    <3> QED
      BY <1>4, <3>1, <3>2, <3>3, <3>4
  <2>3. CASE Stale
    <3>1. Recover(r) /\ UNCHANGED <<lost, claim>>
      BY <1>8, <2>3 DEF Check, Stale
    <3>2. /\ runtime' = [runtime EXCEPT ![r].final = "reconcile"]
          /\ client' = [client EXCEPT ![c] = Closed(client[c], "reconcile")]
      BY <1>8, <2>3 DEF Check, Stale
    <3>3. runtime' \in [Replicas -> Runtimes]
      BY <1>1, <3>2 DEF Runtimes
    <3>4. client' \in [Clients -> Subscriptions] /\ Placed'
      BY <1>1, <1>4, <1>5, <3>1, <3>2
    <3> QED
      BY <1>3, <2>1, <3>1, <3>3, <3>4
  <2>4. CASE Ended /\ ~row.pending
    <3>1. /\ runtime' = [runtime EXCEPT ![r].final = Stored(r)]
          /\ client' = [client EXCEPT ![c] = Closed(client[c], Stored(r))]
          /\ UNCHANGED <<row, net, faults, lost, claim>>
      BY <1>8, <2>4 DEF Check, Stale
    <3>2. Stored(r) \in Payloads \cup {"error", "missing"}
      BY <2>1, <2>4 DEF Stored, Ended, Found, Rows, Runtimes, Payloads
    <3>3. runtime' \in [Replicas -> Runtimes]
      BY <3>1, <3>2 DEF Runtimes
    <3>4. client' \in [Clients -> Subscriptions] /\ Placed'
      BY <1>1, <1>4, <1>5, <3>1, <3>2
    <3> QED
      BY <3>1, <3>3, <3>4
  <2> QED
    BY <2>2, <2>3, <2>4 DEF Stale
<1>9. CASE Timer(c) \/ CheckFails(c)
  <2>1. \A step \in {"checking", "waiting"} : [client[c] EXCEPT !.step = step] \in Subscriptions
    BY DEF Subscriptions
  <2>2. PICK step \in {"checking", "waiting"} :
          client' = [client EXCEPT ![c] = [client[c] EXCEPT !.step = step]]
    BY <1>9 DEF Timer, CheckFails, Later
  <2>3. [client[c] EXCEPT !.step = step].at \in Replicas
    BY <1>9 DEF Timer, CheckFails, Placed, Registered, Subscriptions
  <2> QED
    BY <1>2, <1>4, <1>9, <2>1, <2>2, <2>3 DEF Timer, CheckFails
<1>10. ASSUME NEW r \in Replicas, Attach(c, r) PROVE TypeInv'
  <2>1. row' \in Rows \cup {NoRow} /\ net' \subseteq Replicas \X Frames /\ faults' \in 0 .. MaxFaults
    BY <1>3, <1>10 DEF Attach
  <2>2. UNCHANGED <<lost, claim>>
    BY <1>10 DEF Attach
  <2>3. CASE ~Found
    BY <1>1, <1>4, <1>5, <1>10, <2>1, <2>2, <2>3 DEF Attach
  <2>4. CASE Found
    <3>1. client' = [client EXCEPT ![c] = [client[c] EXCEPT !.at = r, !.step = "attaching"]]
      BY <1>10, <2>4 DEF Attach
    <3>2. [client[c] EXCEPT !.at = r, !.step = "attaching"] \in Subscriptions
          /\ [client[c] EXCEPT !.at = r, !.step = "attaching"].at \in Replicas
      BY DEF Subscriptions
    <3>3. PICK final \in Payloads \cup {None, "missing", "error"} :
            runtime' = [runtime EXCEPT ![r] = [there |-> TRUE, final |-> final]]
      <4>1. row.final \in Payloads \cup {None}
        BY <2>4 DEF Found, Rows
      <4>2. runtime[r].final \in Payloads \cup {None, "missing", "error"}
        BY DEF Runtimes
      <4> QED
        BY <1>1, <1>10, <2>4, <4>1, <4>2 DEF Attach
    <3>4. runtime' \in [Replicas -> Runtimes]
      BY <3>3 DEF Runtimes
    <3> QED
      BY <1>4, <2>1, <2>2, <3>1, <3>2, <3>4
  <2> QED
    BY <2>3, <2>4
<1> QED
  BY <1>7, <1>8, <1>9, <1>10

LEMMA OtherTypes ==
  ASSUME TypeInv,
         \/ \E r \in Replicas, f \in Frames : Deliver(r, f) \/ Lose(r, f)
         \/ \E r \in Replicas, s \in Terminal : Claim(r, s)
         \/ \E r \in Replicas : Retire(r) \/ Reap(r) \/ CleanupOrphans(r)
         \/ Tick \/ Crash \/ UNCHANGED vars
  PROVE  TypeInv'
<1>. USE DEF TypeInv, TypeOK
<1>1. ASSUME Fail PROVE faults' \in 0 .. MaxFaults
  BY <1>1, TerminalAssumption DEF Fail
<1>2. ASSUME NEW r \in Replicas, Drop(r)
      PROVE  /\ runtime' \in [Replicas -> Runtimes] /\ claim' \in Claims
             /\ claim'.step = claim.step /\ claim'.event = claim.event
  <2>1. claim' \in Claims /\ claim'.step = claim.step /\ claim'.event = claim.event
    BY <1>2 DEF Drop, Claims
  <2>2. runtime' \in [Replicas -> Runtimes]
    BY <1>2 DEF Drop, Runtimes, NoRuntime
  <2> QED
    BY <2>1, <2>2
<1>3. ASSUME NEW r \in Replicas, NEW f \in Frames, client' = Heard(r, f)
      PROVE  client' \in [Clients -> Subscriptions]
             /\ \A c \in Clients : client'[c].step \in Registered => client'[c].at \in Replicas
  <2>1. client' \in [Clients -> Subscriptions]
    BY <1>3, HeardType
  <2>2. \A c \in Clients : \/ client'[c] = Closed(client[c], f)
                           \/ client'[c].step = client[c].step /\ client'[c].at = client[c].at
    BY <1>3 DEF Heard, Subscriptions
  <2>3. \A c \in Clients : Closed(client[c], f).step \notin Registered
    BY DEF Closed, Registered
  <2> QED
    BY <2>1, <2>2, <2>3 DEF Placed
<1>4. ASSUME NEW r \in Replicas, Strand(r)
      PROVE  client' \in [Clients -> Subscriptions]
             /\ \A c \in Clients : client'[c].step \in Registered => client'[c].at \in Replicas
  <2>1. \A c \in Clients : [client[c] EXCEPT !.step = "stranded"] \in Subscriptions
          /\ [client[c] EXCEPT !.step = "stranded"].step = "stranded"
    BY DEF Subscriptions
  <2>2. \A c \in Clients : client'[c] \in {client[c], [client[c] EXCEPT !.step = "stranded"]}
    BY <1>4 DEF Strand
  <2>3. client' \in [Clients -> Subscriptions]
    BY <1>4, <2>1 DEF Strand
  <2> QED
    BY <2>1, <2>2, <2>3 DEF Placed, Registered
<1>5. ASSUME NEW r \in Replicas, NEW f \in Frames, Deliver(r, f) PROVE TypeInv'
  <2>1. runtime' \in [Replicas -> Runtimes]
    BY <1>5 DEF Deliver, Runtimes, Frames
  <2> QED
    BY <1>3, <1>5, <2>1 DEF Deliver, Placed
<1>6. ASSUME NEW r \in Replicas, NEW f \in Frames, Lose(r, f) PROVE TypeInv'
  BY <1>1, <1>6 DEF Lose, Placed
<1>7. ASSUME NEW r \in Replicas, NEW s \in Terminal, Claim(r, s) PROVE TypeInv'
  <2>1. claim' \in Claims /\ claim'.step # "emitting"
    BY <1>7 DEF Claim, NoClaim, Claims, None
  <2>2. row' \in Rows
    BY <1>7 DEF Claim, Found, Rows
  <2>3. runtime' \in [Replicas -> Runtimes]
    BY <1>7 DEF Claim, Runtimes
  <2> QED
    BY <1>7, <2>1, <2>2, <2>3 DEF Claim, Placed
<1>8. ASSUME NEW r \in Replicas, Retire(r) PROVE TypeInv'
  BY <1>2, <1>8 DEF Retire, Placed
<1>9. ASSUME NEW r \in Replicas, Reap(r) PROVE TypeInv'
  <2>1. net' \subseteq Replicas \X Frames
    BY <1>9, PublishType DEF Reap, Frames
  <2>2. client' \in [Clients -> Subscriptions]
        /\ \A c \in Clients : client'[c].step \in Registered => client'[c].at \in Replicas
    <3>1. CASE UNCHANGED client
      BY <3>1 DEF Placed
    <3>2. "reaped" \in Frames
      BY DEF Frames
    <3> QED
      BY <1>3, <1>4, <1>9, <3>1, <3>2 DEF Reap
  <2> QED
    BY <1>2, <1>9, <2>1, <2>2 DEF Reap, Placed
<1>10. ASSUME NEW r \in Replicas, CleanupOrphans(r) PROVE TypeInv'
  BY <1>4, <1>10 DEF CleanupOrphans, Placed
<1>11. CASE Tick
  <2>1. row' \in Rows \cup {NoRow}
    <3>1. row \in Rows /\ (~Expires => row.age + 1 \in 0 .. Retention)
      BY <1>11, TerminalAssumption DEF Tick, Ended, Found, Rows, Expires
    <3> QED
      BY <1>11, <3>1 DEF Tick, Rows
  <2> QED
    BY <1>11, <2>1 DEF Tick, Placed
<1>12. CASE Crash
  <2>1. claim' \in Claims /\ claim'.step = "dead"
    BY <1>12 DEF Crash, Claims
  <2>2. runtime' \in [Replicas -> Runtimes]
    BY <1>12 DEF Crash, Runtimes, NoRuntime
  <2>3. Away \in Subscriptions /\ Away.step \notin Registered
    BY DEF Away, Subscriptions, None, Registered
  <2>4. client' \in [Clients -> Subscriptions] /\ \A c \in Clients : client'[c] \in {client[c], Away}
    BY <1>12, <2>3 DEF Crash
  <2>5. Placed'
    BY <2>1, <2>3, <2>4 DEF Placed
  <2> QED
    BY <1>12, <2>1, <2>2, <2>4, <2>5 DEF Crash
<1>13. CASE UNCHANGED vars
  BY <1>13 DEF vars, Placed
<1> QED
  BY <1>5, <1>6, <1>7, <1>8, <1>9, <1>10, <1>11, <1>12, <1>13

LEMMA TypeStep == TypeInv /\ [Next]_vars => TypeInv'
BY HolderTypes, ClientTypes, OtherTypes DEF Next, SystemStep

\* Every variable keeps its type, for any replicas, clients and faults.
THEOREM TypeCorrect == Spec => []TypeOK
<1>1. TypeInv => TypeOK
  BY DEF TypeInv
<1> QED
  BY <1>1, TypeInit, TypeStep, PTL DEF Spec

-----------------------------------------------------------------------------
(* Payloads *)

\* Some client, runtime, frame, the row or the holder has this payload.
Seen(f) ==
  \/ \E c \in Clients : client[c].got = f
  \/ \E r \in Replicas : runtime[r].final = f \/ <<r, f>> \in net
  \/ claim.event = f
  \/ Found /\ row.final = f

\* Where the holder is, what it knows and what the row is go together.
PhaseInv ==
  /\ claim.step # "none" /\ Found => row.status = claim.status
  /\ claim.step \in {"saving", "publishing", "reading", "emitting"} => claim.status # "error"
  /\ claim.step \in {"saving", "publishing", "reading"} => ~claim.blind
  /\ claim.step = "saving" => ~claim.saved
  /\ Found /\ row.pending => row.status # "running"
  /\ Found /\ ~row.pending /\ row.status \in {"complete", "aborted"} => row.final # None
  /\ claim.step = "reading" /\ Found => ~row.pending
  /\ claim.step = "emitting" /\ ~claim.durable /\ ~claim.blind => ~Found
  /\ claim.step = "finishing" /\ claim.status # "error" /\ Found /\ ~claim.retain => claim.sent \/ claim.blind

\* A normal payload exists only where the response is saved and the row settled
\* with it; the reconcile payload exists beside it, or before the settlement,
\* only if the holder could not learn how the row was settled.
PayloadInv ==
  /\ Found /\ row.status = "running" => ~Seen("normal") /\ ~Seen("reconcile")
  /\ claim.step \in {"saving", "publishing", "reading"} => ~Seen("normal")
  /\ Seen("normal") => claim.saved /\ (Found => row.final = "normal" /\ ~row.pending)
  /\ Found /\ row.pending /\ Seen("reconcile") => claim.blind
  /\ Seen("normal") /\ Seen("reconcile") => claim.blind

PublicationInv == PhaseInv /\ PayloadInv

Inv == TypeInv /\ PublicationInv

LEMMA PublicationInit == Init => PublicationInv
<1>. SUFFICES ASSUME Init PROVE PublicationInv
  OBVIOUS
<1>1. ~Seen("normal") /\ ~Seen("reconcile")
  BY DEF Init, Seen, NoClaim, NoRuntime, Away, None
<1>2. row.status = "running" /\ row.pending = FALSE /\ claim.step = "none"
  BY DEF Init, NoClaim
<1> QED
  BY <1>1, <1>2 DEF PublicationInv, PhaseInv, PayloadInv

\* A step that shows no payload to anybody for the first time, and with which
\* the holder either does not move or is through with the event, is harmless.
Harmless ==
  /\ \A f \in Payloads : Seen(f)' => Seen(f)
  /\ \/ /\ claim'.step = claim.step /\ claim'.sent = claim.sent
        /\ claim'.durable = claim.durable /\ claim'.retain = claim.retain
     \/ claim.step # "none" /\ claim'.step \in {"releasing", "done", "dead"}
  /\ claim'.status = claim.status /\ claim'.saved = claim.saved /\ claim'.blind = claim.blind
  /\ \/ row' = NoRow
     \/ /\ Found /\ Found'
        /\ row'.status = row.status /\ row'.pending = row.pending /\ row'.final = row.final

LEMMA HarmlessKeeps == PublicationInv /\ Harmless => PublicationInv'
<1>. SUFFICES ASSUME PublicationInv, Harmless PROVE PublicationInv'
  OBVIOUS
<1>1. (Seen("normal")' => Seen("normal")) /\ (Seen("reconcile")' => Seen("reconcile"))
  BY DEF Harmless, Payloads
<1>2. PhaseInv'
  BY DEF PublicationInv, PhaseInv, Harmless, Found
<1>3. PayloadInv'
  BY <1>1 DEF PublicationInv, PayloadInv, Harmless, Found
<1> QED
  BY <1>2, <1>3 DEF PublicationInv

\* A way to show that nothing is seen for the first time.
LEMMA NothingNew ==
  ASSUME NEW f \in Payloads,
         \A c \in Clients : client'[c].got = f => Seen(f),
         \A r \in Replicas : runtime'[r].final = f => Seen(f),
         \A r \in Replicas : <<r, f>> \in net' => Seen(f),
         claim'.event = f => Seen(f),
         Found' /\ row'.final = f => Seen(f)
  PROVE  Seen(f)' => Seen(f)
BY DEF Seen

LEMMA PayloadNames ==
  /\ \A f \in Payloads : f \notin {None, "missing", "gone", "error", "reaped"}
  /\ Payloads = {"normal", "reconcile"}
BY DEF Payloads, None

LEMMA HeardSeen ==
  ASSUME TypeInv, NEW r \in Replicas, NEW frame \in Frames, client' = Heard(r, frame),
         NEW f \in Payloads, NEW c \in Clients, client'[c].got = f
  PROVE  client[c].got = f \/ frame = f
<1>1. client[c] \in Subscriptions
  BY DEF TypeInv, TypeOK
<1>2. \/ client'[c] = client[c] \/ client'[c] = Closed(client[c], frame)
      \/ client'[c] = [client[c] EXCEPT !.got = IF client[c].got = None THEN frame ELSE client[c].got]
  BY DEF Heard
<1> QED
  BY <1>1, <1>2 DEF Closed, Subscriptions

LEMMA StrandSeen ==
  ASSUME TypeInv, NEW r \in Replicas, Strand(r), NEW c \in Clients
  PROVE  client'[c].got = client[c].got
<1>1. client[c] \in Subscriptions
  BY DEF TypeInv, TypeOK
<1> QED
  BY <1>1 DEF Strand, Subscriptions

LEMMA DropSeen ==
  ASSUME TypeInv, NEW r \in Replicas, Drop(r)
  PROVE  /\ \A q \in Replicas : runtime'[q].final \in {runtime[q].final, None}
         /\ claim'.step = claim.step /\ claim'.event = claim.event /\ claim'.sent = claim.sent
         /\ claim'.durable = claim.durable /\ claim'.retain = claim.retain
         /\ claim'.status = claim.status /\ claim'.saved = claim.saved /\ claim'.blind = claim.blind
<1>1. runtime \in [Replicas -> Runtimes] /\ claim \in Claims
  BY DEF TypeInv, TypeOK
<1>2. \A q \in Replicas : runtime'[q] \in {runtime[q], NoRuntime}
  BY <1>1 DEF Drop
<1>3. NoRuntime.final = None
  BY DEF NoRuntime
<1>4. claim' = [claim EXCEPT !.captured = claim.captured /\ claim.by # r]
  BY DEF Drop
<1> QED
  BY <1>1, <1>2, <1>3, <1>4 DEF Claims

\* The steps that only pass on or throw away what there is.
LEMMA HarmlessSteps ==
  ASSUME TypeInv,
         \/ \E well \in BOOLEAN : FinishError(well)
         \/ Finish \/ FinishFails \/ Release
         \/ \E c \in Clients : Ready(c) \/ Timer(c) \/ CheckFails(c)
         \/ \E r \in Replicas, f \in Frames : Deliver(r, f) \/ Lose(r, f)
         \/ \E r \in Replicas : Retire(r) \/ Reap(r) \/ CleanupOrphans(r)
         \/ Tick \/ Crash \/ UNCHANGED vars
  PROVE  Harmless
<1>. USE PayloadNames
<1>1. /\ row \in Rows \cup {NoRow} /\ claim \in Claims /\ runtime \in [Replicas -> Runtimes]
      /\ client \in [Clients -> Subscriptions]
  BY DEF TypeInv, TypeOK
<1>2. UNCHANGED row => \/ row' = NoRow
                       \/ /\ Found /\ Found'
                          /\ row'.status = row.status /\ row'.pending = row.pending /\ row'.final = row.final
  BY DEF Found
<1>3. /\ \A c \in Clients, f \in Payloads : client[c].got = f => Seen(f)
      /\ \A r \in Replicas, f \in Payloads : runtime[r].final = f \/ <<r, f>> \in net => Seen(f)
      /\ \A f \in Payloads : claim.event = f => Seen(f)
      /\ \A f \in Payloads : Found /\ row.final = f => Seen(f)
  BY DEF Seen
<1>4. UNCHANGED claim => \A f \in Payloads : claim'.event = f => Seen(f)
  BY <1>3
<1>5. UNCHANGED row => \A f \in Payloads : Found' /\ row'.final = f => Seen(f)
  BY <1>3 DEF Found
<1>6. ASSUME NEW well \in BOOLEAN, FinishError(well) PROVE Harmless
  <2>1. claim' = [claim EXCEPT !.step = "releasing", !.sent = well] /\ claim.step = "finishing" /\ UNCHANGED row
    BY <1>6 DEF FinishError
  <2>2. \A c \in Clients : client'[c].got \in {client[c].got, "error"}
    <3>1. UNCHANGED client \/ \A c \in Clients : client'[c] \in {Closed(client[c], "error"), client[c]}
      BY <1>6 DEF FinishError
    <3>2. \A c \in Clients : Closed(client[c], "error").got = "error"
      BY DEF Closed
    <3> QED
      BY <3>1, <3>2
  <2>3. \A r \in Replicas : runtime'[r].final \in {runtime[r].final, "error"}
    BY <1>1, <1>6 DEF FinishError, Runtimes
  <2>4. \A r \in Replicas, f \in Payloads : <<r, f>> \in net' => <<r, f>> \in net
    <3>1. UNCHANGED net \/ \E R \in SUBSET Replicas : net' = net \cup (R \X {"error"})
      BY <1>6 DEF FinishError, Publish, PublishTo
    <3> QED
      BY <3>1
  <2>5. claim'.event = claim.event
    BY <1>1, <2>1 DEF Claims
  <2>6. \A f \in Payloads : Seen(f)' => Seen(f)
    BY <1>3, <1>5, <2>1, <2>2, <2>3, <2>4, <2>5, NothingNew
  <2> QED
    BY <1>1, <1>2, <2>1, <2>6 DEF Harmless, Claims
<1>7. CASE Finish \/ FinishFails
  <2>1. claim' = [claim EXCEPT !.step = "releasing"] /\ claim.step = "finishing"
        /\ row' \in {row, NoRow} /\ UNCHANGED <<client, runtime, net>>
    BY <1>7 DEF Finish, FinishFails
  <2>2. \A f \in Payloads : Seen(f)' => Seen(f)
    BY <1>1, <2>1 DEF Seen, Found, Claims
  <2> QED
    BY <1>1, <1>2, <2>1, <2>2 DEF Harmless, Claims
<1>8. CASE Release
  <2>1. claim' = [claim EXCEPT !.step = "done", !.captured = FALSE, !.event = None,
                               !.durable = FALSE, !.retain = FALSE]
        /\ claim.step = "releasing" /\ UNCHANGED <<row, client, net>>
    BY <1>8 DEF Release
  <2>2. \A r \in Replicas : runtime'[r].final \in {runtime[r].final, None}
    BY <1>1, <1>8 DEF Release, NoRuntime
  <2>3. claim'.event = None
    BY <1>1, <2>1 DEF Claims
  <2>4. \A f \in Payloads : Seen(f)' => Seen(f)
    BY <1>3, <1>5, <2>1, <2>2, <2>3, NothingNew
  <2> QED
    BY <1>1, <1>2, <2>1, <2>4 DEF Harmless, Claims
<1>9. ASSUME NEW c \in Clients, Ready(c) \/ Timer(c) \/ CheckFails(c) PROVE Harmless
  <2>1. UNCHANGED <<row, claim, runtime, net>>
    BY <1>9 DEF Ready, Timer, CheckFails
  <2>2. client[c] \in Subscriptions
    BY <1>1
  <2>3. \A d \in Clients : client'[d].got \in {client[d].got, "missing"}
    <3>1. \A d \in Clients \ {c} : client'[d] = client[d]
      BY <1>1, <1>9 DEF Ready, Timer, CheckFails
    <3>2. client'[c].got \in {client[c].got, "missing"}
      BY <1>1, <1>9, <2>2 DEF Ready, Timer, CheckFails, Later, Closed, Subscriptions
    <3> QED
      BY <3>1, <3>2
  <2>4. \A f \in Payloads : Seen(f)' => Seen(f)
    BY <1>3, <1>4, <1>5, <2>1, <2>3, NothingNew
  <2> QED
    BY <1>2, <2>1, <2>4 DEF Harmless
<1>10. ASSUME NEW r \in Replicas, NEW frame \in Frames, Deliver(r, frame) PROVE Harmless
  <2>1. UNCHANGED <<row, claim>> /\ client' = Heard(r, frame) /\ net' \subseteq net /\ <<r, frame>> \in net
    BY <1>10 DEF Deliver
  <2>2. \A q \in Replicas : runtime'[q].final = runtime[q].final \/ (q = r /\ runtime'[q].final = frame)
    BY <1>1, <1>10 DEF Deliver, Runtimes
  <2>3. ASSUME NEW f \in Payloads PROVE Seen(f)' => Seen(f)
    <3>1. f = frame => Seen(f)
      BY <1>3, <2>1
    <3>2. \A c \in Clients : client'[c].got = f => Seen(f)
      BY <1>3, <2>1, <3>1, HeardSeen
    <3>3. \A q \in Replicas : runtime'[q].final = f => Seen(f)
      BY <1>3, <2>2, <3>1
    <3>4. \A q \in Replicas : <<q, f>> \in net' => Seen(f)
      BY <1>3, <2>1
    <3> QED
      BY <1>4, <1>5, <2>1, <3>2, <3>3, <3>4, NothingNew
  <2> QED
    BY <1>2, <2>1, <2>3 DEF Harmless
<1>11. ASSUME NEW r \in Replicas, NEW f \in Frames, Lose(r, f) PROVE Harmless
  <2>1. UNCHANGED <<row, claim, runtime, client>> /\ net' \subseteq net
    BY <1>11 DEF Lose
  <2>2. \A p \in Payloads : Seen(p)' => Seen(p)
    BY <2>1 DEF Seen, Found
  <2> QED
    BY <1>2, <2>1, <2>2 DEF Harmless
<1>12. ASSUME NEW r \in Replicas, Retire(r) \/ Reap(r) PROVE Harmless
  <2>1. UNCHANGED row /\ Drop(r)
    BY <1>12 DEF Retire, Reap
  <2>2. \A c \in Clients, f \in Payloads : client'[c].got = f => client[c].got = f
    <3>1. UNCHANGED client \/ Strand(r) \/ client' = Heard(r, "reaped")
      BY <1>12 DEF Retire, Reap
    <3>2. "reaped" \in Frames
      BY DEF Frames
    <3> QED
      BY <3>1, <3>2, StrandSeen, HeardSeen
  <2>3. \A q \in Replicas, f \in Payloads : <<q, f>> \in net' => <<q, f>> \in net
    BY <1>12 DEF Retire, Reap, PublishTo
  <2>4. \A f \in Payloads : Seen(f)' => Seen(f)
    BY <1>3, <1>5, <2>1, <2>2, <2>3, DropSeen, NothingNew
  <2> QED
    BY <1>2, <2>1, <2>4, DropSeen DEF Harmless
<1>13. ASSUME NEW r \in Replicas, CleanupOrphans(r) PROVE Harmless
  <2>1. UNCHANGED <<row, claim, runtime, net>> /\ Strand(r)
    BY <1>13 DEF CleanupOrphans
  <2>2. \A f \in Payloads : Seen(f)' => Seen(f)
    BY <1>3, <1>4, <1>5, <2>1, StrandSeen, NothingNew
  <2> QED
    BY <1>2, <2>1, <2>2 DEF Harmless
<1>14. CASE Tick
  <2>1. UNCHANGED <<claim, runtime, client, net>> /\ row \in Rows /\ Found
    BY <1>1, <1>14 DEF Tick, Ended, Found
  <2>2. row' = NoRow \/ row' = [row EXCEPT !.age = row.age + 1]
    BY <1>14 DEF Tick
  <2>3. \/ row' = NoRow
        \/ row'.status = row.status /\ row'.pending = row.pending /\ row'.final = row.final
    BY <2>1, <2>2 DEF Rows
  <2>4. \A f \in Payloads : Seen(f)' => Seen(f)
    BY <2>1, <2>3 DEF Seen, Found
  <2> QED
    BY <2>1, <2>3, <2>4 DEF Harmless, Found
<1>15. CASE Crash
  <2>1. claim' = [claim EXCEPT !.step = "dead", !.captured = FALSE, !.event = None,
                               !.durable = FALSE, !.retain = FALSE]
        /\ claim.step # "none" /\ UNCHANGED row /\ net' \subseteq net
    BY <1>15 DEF Crash
  <2>2. \A r \in Replicas : runtime'[r].final \in {runtime[r].final, None}
    BY <1>1, <1>15 DEF Crash, NoRuntime
  <2>3. \A c \in Clients : client'[c].got \in {client[c].got, None}
    BY <1>1, <1>15 DEF Crash, Away
  <2>4. claim'.event = None
    BY <1>1, <2>1 DEF Claims
  <2>5. \A f \in Payloads : Seen(f)' => Seen(f)
    BY <1>3, <1>5, <2>1, <2>2, <2>3, <2>4, NothingNew
  <2> QED
    BY <1>1, <1>2, <2>1, <2>5 DEF Harmless, Claims
<1>16. CASE UNCHANGED vars
  <2>1. \A f \in Payloads : Seen(f)' => Seen(f)
    BY <1>16 DEF vars, Seen, Found
  <2> QED
    BY <1>2, <1>16, <2>1 DEF vars, Harmless
<1> QED
  BY <1>6, <1>7, <1>8, <1>9, <1>10, <1>11, <1>12, <1>13, <1>14, <1>15, <1>16

LEMMA SettledRow ==
  ASSUME TypeInv, NEW event \in Payloads, row' = Settled(event)
  PROVE  /\ Found' <=> Found
         /\ Found /\ row.pending => ~row'.pending /\ row'.status = row.status /\ row'.final = event
                                      /\ row' # row
         /\ ~(Found /\ row.pending) => row' = row
<1>1. row \in Rows \cup {NoRow}
  BY DEF TypeInv, TypeOK
<1>2. Found /\ row.pending => [row EXCEPT !.pending = FALSE, !.final = event] \in Rows
  BY <1>1 DEF Found, Rows
<1> QED
  BY <1>1, <1>2, RowAssumption DEF Settled, Found, Rows

\* What a claim, and a payload chosen for it, change.
LEMMA ChoiceSeen ==
  ASSUME TypeInv, NEW event \in Payloads, NEW durable \in BOOLEAN, NEW blind \in BOOLEAN,
         Choose(event, durable, blind), UNCHANGED <<client, net>>,
         row' = row \/ row' = Settled(event) \/ row' = Settled("normal")
  PROVE  /\ claim'.step = "emitting" /\ claim'.event = event /\ claim'.durable = durable
         /\ claim'.blind = blind /\ claim'.status = claim.status /\ claim'.saved = claim.saved
         /\ \A f \in Payloads : Seen(f)' /\ f # event =>
              Seen(f) \/ (Found /\ row.pending /\ f = "normal" /\ row' # row /\ row' = Settled("normal"))
<1>1. /\ row \in Rows \cup {NoRow} /\ claim \in Claims /\ runtime \in [Replicas -> Runtimes]
  BY DEF TypeInv, TypeOK
<1>2. claim' = [claim EXCEPT !.step = "emitting", !.event = event, !.durable = durable, !.blind = blind]
  BY DEF Choose
<1>3. /\ claim'.step = "emitting" /\ claim'.event = event /\ claim'.durable = durable
      /\ claim'.blind = blind /\ claim'.status = claim.status /\ claim'.saved = claim.saved
  BY <1>1, <1>2 DEF Claims
<1>4. \A r \in Replicas : runtime'[r].final \in {runtime[r].final, event}
  BY <1>1 DEF Choose, Runtimes
<1>5. \A f \in Payloads : Found' /\ row'.final = f /\ f # event =>
        \/ Found /\ row.final = f
        \/ Found /\ row.pending /\ f = "normal" /\ row' # row /\ row' = Settled("normal")
  <2>1. CASE row' = row
    BY <2>1 DEF Found
  <2>2. ASSUME NEW e \in Payloads, row' = Settled(e), row' # row
        PROVE  Found /\ row.pending /\ row'.final = e
    BY <2>2, SettledRow
  <2> QED
    BY <2>1, <2>2, PayloadNames
<1>6. \A f \in Payloads : Seen(f)' /\ f # event =>
        Seen(f) \/ (Found /\ row.pending /\ f = "normal" /\ row' # row /\ row' = Settled("normal"))
  BY <1>3, <1>4, <1>5 DEF Seen
<1> QED
  BY <1>3, <1>6

LEMMA ClaimKeeps ==
  ASSUME Inv, NEW r \in Replicas, NEW s \in Terminal, Claim(r, s)
  PROVE  PublicationInv'
<1>1. row \in Rows /\ claim' = [NoClaim EXCEPT !.by = r, !.status = s, !.captured = TRUE,
                                  !.step = IF s = "error" THEN "finishing" ELSE "saving"]
  BY DEF Inv, TypeInv, TypeOK, Claim, Found
<1>2. /\ claim'.step = IF s = "error" THEN "finishing" ELSE "saving"
      /\ claim'.status = s /\ claim'.saved = FALSE /\ claim'.blind = FALSE /\ claim'.event = None
  BY <1>1 DEF NoClaim
<1>3. /\ Found' /\ row'.status = s /\ (row'.pending <=> s # "error") /\ row'.final = row.final
  <2>1. row' = [row EXCEPT !.status = s, !.pending = (s # "error")] /\ row' \in Rows
    BY <1>1 DEF Claim, Rows
  <2> QED
    BY <1>1, <2>1, RowAssumption DEF Found, Rows
<1>4. \A f \in Payloads : ~Seen(f)'
  <2>1. \A f \in Payloads : ~Seen(f)
    BY PayloadNames DEF Inv, PublicationInv, PayloadInv, Claim
  <2>2. UNCHANGED <<client, net>> /\ \A q \in Replicas : runtime'[q].final = runtime[q].final
    BY DEF Claim, Inv, TypeInv, TypeOK, Runtimes
  <2> QED
    <3>1. ASSUME NEW f \in Payloads PROVE Seen(f)' => Seen(f)
      <4>1. claim'.event # f /\ (Found' /\ row'.final = f => Seen(f))
        BY <1>1, <1>2, <1>3, PayloadNames DEF Seen, Claim
      <4> QED
        BY <2>2, <4>1 DEF Seen
    <3> QED
      BY <2>1, <3>1
<1>5. PhaseInv'
  BY <1>2, <1>3 DEF PhaseInv, Terminal
<1>6. PayloadInv'
  BY <1>4, PayloadNames DEF PayloadInv
<1> QED
  BY <1>5, <1>6 DEF PublicationInv

LEMMA PublishingKeeps ==
  ASSUME Inv,
         \/ \E well \in BOOLEAN : Save(well) \/ SettleFails(well) \/ EmitFails(well)
         \/ Settle \/ ReadSettled \/ ReadFails \/ Emit
  PROVE  PublicationInv'
<1>. USE PayloadNames
<1>1. /\ row \in Rows \cup {NoRow} /\ claim \in Claims /\ runtime \in [Replicas -> Runtimes]
      /\ client \in [Clients -> Subscriptions] /\ TypeInv
  BY DEF Inv, TypeInv, TypeOK
<1>2. PhaseInv /\ PayloadInv
  BY DEF Inv, PublicationInv
<1>3. ASSUME NEW well \in BOOLEAN, Save(well) PROVE PublicationInv'
  <2>1. /\ claim.step = "saving" /\ claim'.step = "publishing" /\ claim'.saved = well /\ claim'.event = claim.event
        /\ claim'.status = claim.status /\ claim'.blind = claim.blind /\ UNCHANGED row
    BY <1>1, <1>3 DEF Save, Claims
  <2>2. \A f \in Payloads : Seen(f)' => Seen(f)
    BY <1>3, <2>1 DEF Save, Seen, Found
  <2> QED
    BY <1>2, <2>1, <2>2 DEF PublicationInv, PhaseInv, PayloadInv, Found
<1>4. CASE Settle
  <2>1. Desired \in Payloads /\ (Desired = "normal" => claim.saved) /\ row' = Settled(Desired)
        /\ claim.step = "publishing" /\ UNCHANGED <<client, net>>
    BY <1>4 DEF Settle, Desired
  <2>2. CASE Found /\ row.pending
    <3>1. /\ ~row'.pending /\ row'.status = row.status /\ row'.final = Desired /\ row' # row /\ Found'
      BY <1>1, <2>1, <2>2, SettledRow
    <3>2. Choose(Desired, TRUE, FALSE)
      BY <1>4, <3>1 DEF Settle
    <3>3. /\ claim'.step = "emitting" /\ claim'.event = Desired /\ claim'.durable = TRUE
          /\ claim'.blind = FALSE /\ claim'.status = claim.status /\ claim'.saved = claim.saved
          /\ \A f \in Payloads : Seen(f)' /\ f # Desired =>
               Seen(f) \/ (f = "normal" /\ row' = Settled("normal"))
      BY <1>1, <2>1, <3>2, ChoiceSeen
    <3>4. \A f \in Payloads : Seen(f)' => f = Desired
      <4>1. ~Seen("normal") /\ ~Seen("reconcile")
        BY <1>2, <2>1, <2>2 DEF PhaseInv, PayloadInv
      <4>2. row' = Settled("normal") => Desired = "normal"
        BY <1>1, <2>2, <3>1, SettledRow
      <4> QED
        BY <3>3, <4>1, <4>2
    <3>5. PhaseInv'
      BY <1>2, <2>1, <2>2, <3>1, <3>3 DEF PhaseInv, Payloads, None
    <3>6. PayloadInv'
      BY <1>2, <2>1, <2>2, <3>1, <3>3, <3>4 DEF PhaseInv, PayloadInv
    <3> QED
      BY <3>5, <3>6 DEF PublicationInv
  <2>3. CASE ~(Found /\ row.pending)
    <3>1. UNCHANGED <<row, runtime, client, net>> /\ claim' = [claim EXCEPT !.step = "reading"]
      BY <1>1, <1>4, <2>1, <2>3, SettledRow DEF Settle
    <3>2. /\ claim'.step = "reading" /\ claim'.saved = claim.saved /\ claim'.event = claim.event
          /\ claim'.status = claim.status /\ claim'.blind = claim.blind
      BY <1>1, <3>1 DEF Claims
    <3>3. \A f \in Payloads : Seen(f)' => Seen(f)
      BY <3>1, <3>2 DEF Seen, Found
    <3> QED
      BY <1>2, <2>1, <2>3, <3>1, <3>2, <3>3 DEF PublicationInv, PhaseInv, PayloadInv, Found
  <2> QED
    BY <2>2, <2>3
<1>5. ASSUME NEW executed \in BOOLEAN, SettleFails(executed) PROVE PublicationInv'
  <2>1. /\ Choose("reconcile", FALSE, TRUE) /\ UNCHANGED <<client, net>> /\ claim.step = "publishing"
        /\ row' = row \/ row' = Settled(Desired)
        /\ Desired \in Payloads /\ (Desired = "normal" => claim.saved)
    BY <1>5 DEF SettleFails, BestEffort, Desired
  <2>2. /\ claim'.step = "emitting" /\ claim'.durable = FALSE
        /\ claim'.blind = TRUE /\ claim'.status = claim.status /\ claim'.saved = claim.saved
        /\ Seen("normal")' => Seen("normal") \/ (Found /\ row.pending /\ row' = Settled("normal") /\ row' # row)
    BY <1>1, <2>1, ChoiceSeen
  <2>3. \/ row' = row
        \/ /\ Found /\ Found' /\ row.pending /\ ~row'.pending /\ row'.status = row.status /\ row'.final = Desired
    BY <1>1, <2>1, SettledRow
  <2>4. Seen("normal")' => /\ Found' /\ row'.final = "normal" /\ ~row'.pending /\ claim.saved
    <3>1. ~Seen("normal")
      BY <1>2, <2>1 DEF PayloadInv
    <3>2. Found /\ row.pending /\ row' = Settled("normal") =>
            Found' /\ row'.final = "normal" /\ ~row'.pending
      BY <1>1, SettledRow
    <3> QED
      BY <2>1, <2>2, <2>3, <3>1, <3>2
  <2>5. Found' => Found /\ row'.status = row.status
    BY <2>3 DEF Found
  <2>6. PhaseInv'
    BY <1>2, <2>1, <2>2, <2>3, <2>5 DEF PhaseInv
  <2>7. ~(Found' /\ row'.status = "running")
    <3>1. claim.status # "running"
      BY <1>1 DEF Claims, Terminal, None
    <3> QED
      BY <1>2, <2>1, <2>5, <3>1 DEF PhaseInv
  <2> QED
    BY <2>2, <2>4, <2>6, <2>7 DEF PublicationInv, PayloadInv
<1>6. ASSUME NEW event \in Payloads, NEW durable \in BOOLEAN, NEW blind \in BOOLEAN,
             Choose(event, durable, blind), UNCHANGED <<row, client, net>>, claim.step = "reading",
             event = "normal" => Seen("normal"),
             ~durable /\ ~blind => ~Found
      PROVE  PublicationInv'
  <2>1. event = "reconcile" /\ ~Seen("normal")
    BY <1>2, <1>6 DEF PayloadInv
  <2>2. /\ claim'.step = "emitting" /\ claim'.durable = durable
        /\ claim'.blind = blind /\ claim'.status = claim.status /\ claim'.saved = claim.saved
        /\ Seen("normal")' => Seen("normal")
    BY <1>1, <1>6, <2>1, ChoiceSeen
  <2>3. /\ Found' <=> Found
        /\ row' = row
    BY <1>6 DEF Found
  <2>4. PhaseInv'
    BY <1>2, <1>6, <2>2, <2>3 DEF PhaseInv
  <2>5. ~(Found' /\ row'.status = "running")
    <3>1. claim.status # "running"
      BY <1>1 DEF Claims, Terminal, None
    <3> QED
      BY <1>2, <1>6, <2>3, <3>1 DEF PhaseInv
  <2>6. ~(Found' /\ row'.pending)
    BY <1>2, <1>6, <2>3 DEF PhaseInv
  <2> QED
    BY <2>1, <2>2, <2>4, <2>5, <2>6 DEF PublicationInv, PayloadInv
<1>7. CASE ReadSettled
  <2>1. claim.step = "reading" /\ UNCHANGED <<row, client, net>>
    BY <1>7 DEF ReadSettled
  <2>2. CASE Found /\ ~row.pending /\ row.final # None
    <3>1. Choose(row.final, TRUE, FALSE)
      BY <1>7, <2>2 DEF ReadSettled
    <3>2. row.final \in Payloads /\ (row.final = "normal" => Seen("normal"))
      BY <1>1, <2>2 DEF Found, Rows, Seen
    <3> QED
      BY <1>6, <2>1, <3>1, <3>2
  <2>3. CASE ~(Found /\ ~row.pending /\ row.final # None)
    <3>1. Choose("reconcile", FALSE, FALSE)
      BY <1>7, <2>3 DEF ReadSettled, BestEffort
    <3>2. ~Found
      <4>1. claim.status \in {"complete", "aborted"} \/ claim.status = None
        BY <1>1, <1>2, <2>1 DEF Claims, PhaseInv, Terminal
      <4>2. Found => row.status \in {"complete", "aborted"}
        BY <1>1, <1>2, <2>1, <4>1 DEF PhaseInv, Found, Rows, Terminal, None
      <4> QED
        BY <1>2, <2>1, <2>3, <4>2 DEF PhaseInv
    <3> QED
      BY <1>6, <2>1, <3>1, <3>2
  <2> QED
    BY <2>2, <2>3
<1>8. CASE ReadFails
  <2>1. claim.step = "reading" /\ UNCHANGED <<row, client, net>> /\ Choose("reconcile", FALSE, TRUE)
    BY <1>8 DEF ReadFails, BestEffort
  <2> QED
    BY <1>6, <2>1
<1>9. ASSUME NEW executed \in BOOLEAN, Emit \/ EmitFails(executed) PROVE PublicationInv'
  <2>1. /\ claim.step = "emitting" /\ claim'.step = "finishing" /\ claim'.status = claim.status
        /\ claim'.saved = claim.saved /\ claim'.blind = claim.blind /\ claim'.event = claim.event
        /\ claim'.sent \/ claim'.retain = claim.durable
        /\ UNCHANGED <<row, runtime>>
    BY <1>1, <1>9 DEF Emit, EmitFails, Claims
  <2>2. \A f \in Payloads : Seen(f)' => Seen(f)
    <3>1. \A c \in Clients : client'[c].got \in {client[c].got, None}
      <4>1. UNCHANGED client \/ \A c \in Clients : client'[c] \in {client[c], Away}
        BY <1>9 DEF Emit, EmitFails
      <4>2. Away.got = None
        BY DEF Away
      <4> QED
        BY <4>1, <4>2
    <3>2. UNCHANGED net \/ \E R \in SUBSET Replicas : net' = net \cup (R \X {claim.event})
      BY <1>9 DEF Emit, EmitFails, Publish, PublishTo
    <3>3. \A r \in Replicas, f \in Payloads : <<r, f>> \in net' => <<r, f>> \in net \/ claim.event = f
      BY <3>2
    <3>4. Found' = Found
      BY <2>1 DEF Found
    <3> QED
      BY <2>1, <3>1, <3>3, <3>4 DEF Seen
  <2>3. PhaseInv'
    BY <1>2, <2>1 DEF PhaseInv, Found
  <2>4. PayloadInv'
    BY <1>2, <2>1, <2>2 DEF PayloadInv, Found
  <2> QED
    BY <2>3, <2>4 DEF PublicationInv
<1> QED
  BY <1>3, <1>4, <1>5, <1>7, <1>8, <1>9

\* Somebody who finds the marker stale settles the row with the other payload.
LEMMA RecoveryKeeps ==
  ASSUME Inv, NEW r \in Replicas, Recover(r), Stale, UNCHANGED claim,
         \A c \in Clients : client'[c].got \in {client[c].got, "reconcile"},
         \A q \in Replicas : runtime'[q].final \in {runtime[q].final, "reconcile"}
  PROVE  PublicationInv'
<1>. USE PayloadNames
<1>1. TypeInv /\ PhaseInv /\ PayloadInv
  BY DEF Inv, PublicationInv
<1>2. /\ Found /\ Found' /\ row.pending /\ ~row'.pending /\ row'.status = row.status /\ row'.final = "reconcile"
      /\ row.status # "running"
  <2>1. Found /\ row.pending /\ row' = Settled("reconcile")
    BY DEF Stale, Ended, Recover
  <2> QED
    BY <1>1, <2>1, SettledRow DEF PhaseInv
<1>3. ~Seen("normal")'
  <2>1. ~Seen("normal")
    BY <1>1, <1>2 DEF PayloadInv
  <2>2. UNCHANGED net \/ \E R \in SUBSET Replicas : net' = net \cup (R \X {"reconcile"})
    BY DEF Recover, Publish, PublishTo
  <2>3. \A q \in Replicas : <<q, "normal">> \in net' => <<q, "normal">> \in net
    BY <2>2
  <2> QED
    BY <1>2, <2>1, <2>3 DEF Seen
<1>4. PhaseInv'
  BY <1>1, <1>2 DEF PhaseInv, None
<1> QED
  BY <1>2, <1>3, <1>4 DEF PublicationInv, PayloadInv

LEMMA LookingKeeps ==
  ASSUME Inv, NEW c \in Clients, Check(c) \/ \E r \in Replicas : Attach(c, r)
  PROVE  PublicationInv'
<1>. USE PayloadNames
<1>1. /\ row \in Rows \cup {NoRow} /\ runtime \in [Replicas -> Runtimes]
      /\ client \in [Clients -> Subscriptions] /\ TypeInv /\ client[c] \in Subscriptions
  BY DEF Inv, TypeInv, TypeOK
<1>2. UNCHANGED claim
  BY DEF Check, Attach
<1>3. ASSUME NEW r \in Replicas, Stale, Recover(r),
             \A d \in Clients : client'[d].got \in {client[d].got, "reconcile"},
             \A q \in Replicas : runtime'[q].final \in {runtime[q].final, "reconcile"}
      PROVE  PublicationInv'
  BY <1>2, <1>3, RecoveryKeeps
<1>4. ASSUME UNCHANGED <<row, net>>,
             \A d \in Clients : client'[d].got \in {client[d].got, "gone", "error", "missing"}
                                 \/ Seen(client'[d].got),
             \A q \in Replicas : runtime'[q].final \in {runtime[q].final, "error", "missing", None}
                                 \/ Seen(runtime'[q].final)
      PROVE  PublicationInv'
  <2>1. \A f \in Payloads : Seen(f)' => Seen(f)
    BY <1>2, <1>4 DEF Seen, Found
  <2>2. Harmless
    BY <1>2, <1>4, <2>1 DEF Harmless, Found
  <2> QED
    BY <2>2, HarmlessKeeps DEF Inv
<1>5. \A q \in Replicas : Seen(runtime[q].final)
  BY DEF Seen
<1>6. Found => Seen(row.final)
  BY DEF Seen
<1>7. ASSUME NEW r \in Replicas, Attach(c, r) PROVE PublicationInv'
  <2>1. CASE ~Found
    <3>1. client' = [client EXCEPT ![c] = Closed(client[c], "gone")] /\ UNCHANGED <<row, net, runtime>>
      BY <1>7, <2>1 DEF Attach, Stale, Ended
    <3>2. \A d \in Clients : client'[d].got \in {client[d].got, "gone"}
      BY <1>1, <3>1 DEF Closed
    <3> QED
      BY <1>4, <3>1, <3>2
  <2>2. CASE Found
    <3>1. \A d \in Clients : client'[d].got = client[d].got
      <4>1. client' = [client EXCEPT ![c] = [client[c] EXCEPT !.at = r, !.step = "attaching"]]
        BY <1>7, <2>2 DEF Attach
      <4>2. [client[c] EXCEPT !.at = r, !.step = "attaching"].got = client[c].got
        BY <1>1 DEF Subscriptions
      <4> QED
        BY <1>1, <4>1, <4>2
    <3>2. \A q \in Replicas \ {r} : runtime'[q] = runtime[q]
      BY <1>1, <1>7, <2>2 DEF Attach
    <3>3. runtime'[r].final = IF Stale THEN "reconcile"
                              ELSE IF runtime[r].there THEN runtime[r].final
                              ELSE IF row.status = "error" THEN "error" ELSE row.final
      BY <1>1, <1>7, <2>2 DEF Attach
    <3>4. CASE Stale
      BY <1>3, <1>7, <3>1, <3>2, <3>3, <3>4 DEF Attach
    <3>5. CASE ~Stale
      <4>1. UNCHANGED <<row, net>>
        BY <1>7, <3>5 DEF Attach
      <4>2. \A q \in Replicas : runtime'[q].final \in {runtime[q].final, "error", "missing", None}
                                 \/ Seen(runtime'[q].final)
        BY <1>5, <1>6, <2>2, <3>2, <3>3, <3>5
      <4> QED
        BY <1>4, <3>1, <4>1, <4>2
    <3> QED
      BY <3>4, <3>5
  <2> QED
    BY <2>1, <2>2
<1>8. CASE Check(c)
  <2>. DEFINE r == client[c].at
  <2>1. r \in Replicas
    BY <1>1, <1>8 DEF Check, TypeInv, Placed, Registered
  <2>2. CASE ~Ended \/ (Ended /\ row.pending /\ ~Stale)
    <3>1. UNCHANGED <<row, net, runtime>>
      BY <1>8, <2>2 DEF Check, Stale
    <3>2. \A d \in Clients : client'[d].got = client[d].got
      <4>1. PICK step \in {"attached", "waiting"} :
              client' = [client EXCEPT ![c] = [client[c] EXCEPT !.step = step]]
        BY <1>8, <2>2 DEF Check, Later, Stale
      <4>2. [client[c] EXCEPT !.step = step].got = client[c].got
        BY <1>1 DEF Subscriptions
      <4> QED
        BY <1>1, <4>1, <4>2
    <3> QED
      BY <1>4, <3>1, <3>2
  <2>3. CASE Stale
    <3>1. /\ Recover(r)
          /\ runtime' = [runtime EXCEPT ![r].final = "reconcile"]
          /\ client' = [client EXCEPT ![c] = Closed(client[c], "reconcile")]
      BY <1>8, <2>3 DEF Check, Stale
    <3>2. \A d \in Clients : client'[d].got \in {client[d].got, "reconcile"}
      BY <1>1, <3>1 DEF Closed
    <3>3. \A q \in Replicas : runtime'[q].final \in {runtime[q].final, "reconcile"}
      BY <1>1, <3>1 DEF Runtimes
    <3> QED
      BY <1>3, <2>1, <2>3, <3>1, <3>2, <3>3
  <2>4. CASE Ended /\ ~row.pending
    <3>1. /\ runtime' = [runtime EXCEPT ![r].final = Stored(r)]
          /\ client' = [client EXCEPT ![c] = Closed(client[c], Stored(r))]
          /\ UNCHANGED <<row, net>>
      BY <1>8, <2>4 DEF Check, Stale
    <3>2. Stored(r) \in {"error", "missing"} \/ Seen(Stored(r))
      BY <1>5, <1>6, <2>1, <2>4 DEF Stored, Ended
    <3>3. \A d \in Clients : client'[d].got \in {client[d].got, Stored(r)}
      BY <1>1, <3>1 DEF Closed
    <3>4. \A q \in Replicas : runtime'[q].final \in {runtime[q].final, Stored(r)}
      BY <1>1, <3>1 DEF Runtimes
    <3> QED
      BY <1>4, <3>1, <3>2, <3>3, <3>4
  <2> QED
    BY <2>2, <2>3, <2>4 DEF Stale
<1> QED
  BY <1>7, <1>8

LEMMA InvStep == Inv /\ [Next]_vars => Inv'
<1>. SUFFICES ASSUME Inv, [Next]_vars PROVE PublicationInv'
  BY TypeStep DEF Inv
<1>1. CASE Harmless
  BY <1>1, HarmlessKeeps DEF Inv
<1>2. CASE ~Harmless
  BY <1>2, HarmlessSteps, ClaimKeeps, PublishingKeeps, LookingKeeps DEF Inv, Next, SystemStep, HolderStep
<1> QED
  BY <1>1, <1>2

LEMMA Invariant == Spec => []Inv
<1>1. Init => Inv
  BY TypeInit, PublicationInit DEF Inv
<1> QED
  BY <1>1, InvStep, PTL DEF Spec

\* Nobody is shown the normal end of a generation whose response is not saved
\* or whose row is not settled with it (completeTerminalJob).
THEOREM NormalMeansSaved == Spec => []NormalIsDurable
<1>1. Inv => NormalIsDurable
  BY DEF Inv, PublicationInv, PayloadInv, Seen, NormalIsDurable, Got
<1> QED
  BY <1>1, Invariant, PTL

\* Two clients are shown different ends only if the holder could not learn with
\* which one the row was settled (finalizeTerminalPersistence).
THEOREM PayloadsAgree == Spec => []OnePayload
<1>1. Inv => OnePayload
  BY DEF Inv, PublicationInv, PayloadInv, Seen, OnePayload, Got
<1> QED
  BY <1>1, Invariant, PTL

\* A row is not removed before it is settled and its event sent, or the holder
\* could not learn how it was settled (finishTerminalJob).
THEOREM UnsentRowsStay == Spec => UnsentStays
<1>. DEFINE Early == Found /\ row' = NoRow /\ row.age < Retention => ~row.pending /\ (claim.sent \/ claim.blind)
<1>1. Inv /\ [Next]_vars => [Early]_vars
  <2>. SUFFICES ASSUME Inv, Next, Found, row' = NoRow, row.age < Retention
                PROVE  ~row.pending /\ (claim.sent \/ claim.blind)
    OBVIOUS
  <2>1. TypeInv /\ row \in Rows /\ claim \in Claims
    BY DEF Inv, TypeInv, TypeOK, Found
  <2>2. row' # row /\ ~Found'
    BY DEF Found
  <2>3. ~Tick
    <3>1. Tick => row' = [row EXCEPT !.age = row.age + 1]
      <4>1. row.age # Retention
        BY <2>1, TerminalAssumption DEF Rows
      <4> QED
        BY <4>1 DEF Tick, Expires
    <3>2. [row EXCEPT !.age = row.age + 1].status = row.status
      BY <2>1 DEF Rows
    <3>3. row.age + 1 \in 0 .. Retention
      BY <2>1, TerminalAssumption DEF Rows
    <3>4. [row EXCEPT !.age = row.age + 1] \in Rows
      BY <2>1, <3>3 DEF Rows
    <3> QED
      BY <3>1, <3>4, RowAssumption
  <2>4. \A event \in Payloads : row' # Settled(event)
    BY <2>1, <2>2, SettledRow
  <2>5. \A r \in Replicas, s \in Terminal : ~Claim(r, s)
    <3>1. \A s \in Terminal : [row EXCEPT !.status = s, !.pending = (s # "error")] \in Rows
      BY <2>1 DEF Rows
    <3>2. ASSUME NEW r \in Replicas, NEW s \in Terminal, Claim(r, s) PROVE FALSE
      <4>1. row' = [row EXCEPT !.status = s, !.pending = (s # "error")]
        BY <3>2 DEF Claim
      <4> QED
        BY <3>1, <4>1, RowAssumption
    <3> QED
      BY <3>2
  <2>6. Finish
    <3>1. "reconcile" \in Payloads /\ Desired \in Payloads
      BY DEF Payloads, Desired
    <3> QED
      BY <2>2, <2>3, <2>4, <2>5, <3>1 DEF Next, SystemStep, HolderStep, Save, SettleFails, EmitFails,
         FinishError, Settle, ReadSettled, ReadFails, Emit, FinishFails, Release, Ready, Check, Timer, Deliver,
         Attach, CheckFails, Lose, Retire, Reap, CleanupOrphans, Crash, Recover
  <2>7. Removable /\ claim.step = "finishing" /\ claim.status # "error"
    BY <2>2, <2>6 DEF Finish
  <2> QED
    BY <2>7 DEF Removable, Inv, PublicationInv, PhaseInv
<1>2. Spec => [][Early]_vars
  BY <1>1, Invariant, PTL DEF Spec
<1> QED
  BY <1>2 DEF UnsentStays
=============================================================================
