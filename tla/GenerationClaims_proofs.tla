------------------------ MODULE GenerationClaims_proofs ------------------------
(***************************************************************************)
(* Proofs about GenerationClaims, for any attempts and any number of       *)
(* faults.                                                                 *)
(***************************************************************************)
EXTENDS GenerationClaims, FiniteSetTheorems, TLAPS

(***************************************************************************)
(* Types: where an attempt may be, what it has read there, and whose       *)
(* tokens are whose.                                                       *)
(***************************************************************************)
Places ==
  {"idle", "bind", "mirror", "sync", "probe", "duplicate", "expect", "compare", "take", "takeLegacy",
   "undo", "resolve", "resolveLegacy", "adopt", "bindJob", "tombstone", "tombstoneProbe", "fence",
   "admit", "create", "recover", "prove", "proveLegacy", "repair", "mark", "confirm", "confirmLegacy",
   "terminalize", "release", "releasePrimary", "checkLegacy", "releaseLegacy", "initializing",
   "running", "done"}

OldIsRead == {"mirror", "sync", "compare", "resolveLegacy"}

NewIsRead ==
  {"sync", "probe", "duplicate", "expect", "compare", "take", "takeLegacy", "resolve", "resolveLegacy",
   "bindJob", "tombstone", "tombstoneProbe", "fence", "proveLegacy", "confirmLegacy"}

\* Where an attempt uses nothing it has read; where it uses one claim.
Plain == Places \ (OldIsRead \cup NewIsRead \cup {"mark", "confirm"})

Offers == NewIsRead \ (OldIsRead \cup {"proveLegacy", "confirmLegacy"})

\* Where a synchronisation leads.
Goals == {"done", "duplicate", "admit", "repair", "terminalize"}

\* The attempt may go there with what it has read.
Open(a, x) == x \in Plain \/ (x \in Offers /\ new[a] \in Claims)

TypeInv ==
  /\ TypeOK
  /\ pc \in [Attempts -> Places] /\ next \in [Attempts -> Goals]
  /\ Ours => job.epoch \in created
  /\ \A a \in Attempts :
       /\ mine[a].token[1] = a /\ ~HasStarted(mine[a])
       /\ pc[a] \in OldIsRead => old[a] # NoClaim
       /\ pc[a] \in NewIsRead => new[a] # NoClaim
       /\ pc[a] \in {"mark", "confirm", "confirmLegacy"} => a \in created
       /\ pc[a] = "confirmLegacy" => new[a].started = a
       /\ pc[a] = "proveLegacy" => next[a] \in {"repair", "terminalize"}

(***************************************************************************)
(* Who has started: a claim is only ever started by the attempt whose      *)
(* token it bears, and while that attempt decides what to do the primary   *)
(* key knows of it.                                                        *)
(***************************************************************************)
IsStartOf(claim, a) == claim # NoClaim /\ HasStarted(claim) /\ claim.token[1] = a

\* Somewhere there is a started claim of the attempt.
StartedBy(a) ==
  \/ \E k \in Keys : IsStartOf(claims[k], a)
  \/ \E b \in Attempts : IsStartOf(old[b], a) \/ IsStartOf(new[b], a)

Began(a) == IsStartOf(claims["primary"], a)

\* Between two places the attempt synchronises the legacy key.
Toward(a, places) == pc[a] \in places \/ (pc[a] \in {"sync", "probe"} /\ next[a] \in places)

Silent ==
  {"idle", "bind", "mirror", "duplicate", "expect", "compare", "take", "takeLegacy", "undo", "resolve",
   "resolveLegacy", "adopt", "admit", "create", "releasePrimary", "checkLegacy", "releaseLegacy"}

Deciding ==
  {"mark", "recover", "prove", "proveLegacy", "repair", "confirm", "confirmLegacy", "terminalize",
   "initializing", "release"}

StartInv ==
  \A a \in Attempts :
    /\ Toward(a, Silent) => ~StartedBy(a)
    /\ Toward(a, Deciding) => (StartedBy(a) => Began(a))
    /\ Toward(a, {"mark", "proveLegacy", "repair"}) => Began(a)

(***************************************************************************)
(* Why no second generation starts: the primary key remembers the first;   *)
(* or only the legacy key does, and attempts can but mirror it; or none    *)
(* does, but the job is running, and attempts find it.                     *)
(***************************************************************************)
StartedKey(k) == claims[k] # NoClaim /\ HasStarted(claims[k])

LegacyRemembers ==
  /\ StartedKey("legacy") /\ claims["primary"] = NoClaim
  /\ \A a \in Attempts :
       /\ pc[a] \in Idle \cup {"mirror"}
       /\ pc[a] = "mirror" => old[a] = claims["legacy"]

Finding ==
  {"bind", "mirror", "sync", "probe", "duplicate", "adopt", "bindJob", "tombstone", "tombstoneProbe"}

JobRemembers ==
  /\ Ours /\ Running /\ ~StartedKey("legacy")
  /\ \A a \in Attempts :
       /\ pc[a] \in Idle \cup Finding
       /\ pc[a] = "mirror" => ~HasStarted(old[a])
       /\ pc[a] \in {"sync", "probe"} => ~HasStarted(new[a]) /\ next[a] = "duplicate"
       /\ pc[a] \in {"bindJob", "tombstone", "tombstoneProbe"} => HasStarted(new[a])

OnceInv ==
  ~forgotten =>
    /\ \A a, b \in created : a = b
    /\ created # {} => StartedKey("primary") \/ LegacyRemembers \/ JobRemembers

Inv == TypeInv /\ StartInv /\ OnceInv /\ RunIsFenced

-----------------------------------------------------------------------------
(***************************************************************************)
(* What a step of an attempt may do: Shape.  The claims it writes and      *)
(* reads are told by others already, or they are starts of attempts in S.  *)
(***************************************************************************)
Told(claim, S) == \A c \in Attempts : IsStartOf(claim, c) => c \in S \/ StartedBy(c)

ClaimsStep(S) ==
  /\ claims' \in [Keys -> Claims \cup {NoClaim}]
  /\ \A k \in Keys : Told(claims'[k], S)
  /\ \A k \in Keys : StartedKey(k) => claims'[k] = claims[k]

OwnTypes(a) ==
  /\ mine[a].token[1] = a /\ ~HasStarted(mine[a])
  /\ pc[a] \in OldIsRead => old[a] # NoClaim
  /\ pc[a] \in NewIsRead => new[a] # NoClaim
  /\ pc[a] \in {"mark", "confirm", "confirmLegacy"} => a \in created
  /\ pc[a] = "confirmLegacy" => new[a].started = a
  /\ pc[a] = "proveLegacy" => next[a] \in {"repair", "terminalize"}

Shape(a, S) ==
  /\ ClaimsStep(S)
  /\ pc' \in [Attempts -> Places] /\ next' \in [Attempts -> Goals]
  /\ mine' \in [Attempts -> Claims]
  /\ old' \in [Attempts -> Claims \cup {NoClaim}] /\ new' \in [Attempts -> Claims \cup {NoClaim}]
  /\ \A b \in Attempts \ {a} :
       UNCHANGED <<pc[b], next[b], mine[b], old[b], new[b]>>
  /\ OwnTypes(a)'
  /\ Told(old'[a], S) /\ Told(new'[a], S)

\* The rest of the state keeps its types.
World ==
  /\ job' \in Jobs \cup {NoJob} /\ (Ours => job.epoch \in created)'
  /\ created \subseteq created' /\ created' \subseteq Attempts /\ exposed' \subseteq created'
  /\ forgotten' \in BOOLEAN /\ lapsed' = lapsed /\ faults' \in 0 .. MaxFaults
  /\ \A x \in exposed' \ exposed : claims'["legacy"] # NoClaim /\ claims'["legacy"].started = x

OwnStart(a) ==
  /\ Toward(a, Silent) => ~StartedBy(a)
  /\ Toward(a, Deciding) => (StartedBy(a) => Began(a))
  /\ Toward(a, {"mark", "proveLegacy", "repair"}) => Began(a)

LEMMA KeysAre == Keys = {"legacy", "primary"} /\ "legacy" \in Keys /\ "primary" \in Keys
BY DEF Keys

LEMMA ClaimTypes ==
  ASSUME TypeInv
  PROVE  /\ NoClaim \notin Claims
         /\ \A k \in Keys : claims[k] \in Claims \cup {NoClaim}
         /\ \A k \in Keys : ~Free(k) => claims[k] \in Claims
         /\ \A a \in Attempts :
              /\ mine[a] \in Claims /\ mine[a].token[1] = a /\ ~HasStarted(mine[a])
              /\ old[a] \in Claims \cup {NoClaim} /\ new[a] \in Claims \cup {NoClaim}
BY NoClaimAssumption DEF TypeInv, TypeOK, Free

LEMMA StartedType ==
  ASSUME NEW a \in Attempts, NEW claim \in Claims
  PROVE  /\ Started(claim, a) \in Claims /\ HasStarted(Started(claim, a))
         /\ Started(claim, a).token = claim.token /\ Started(claim, a).started = a
         /\ claim.started = a => Started(claim, a) = claim
BY ClaimAssumption DEF Started, Claims, HasStarted

LEMMA ToldThings ==
  ASSUME TypeInv, NEW S
  PROVE  /\ \A k \in Keys : Told(claims[k], S)
         /\ \A a \in Attempts : Told(old[a], S) /\ Told(new[a], S) /\ Told(mine[a], S)
         /\ Told(NoClaim, S)
         /\ \A claim : ~HasStarted(claim) => Told(claim, S)
         /\ \A claim : \A a \in S : claim.token[1] = a => Told(claim, S)
BY ClaimTypes DEF Told, StartedBy, IsStartOf

LEMMA SameClaims ==
  ASSUME TypeInv, NEW S, UNCHANGED claims
  PROVE  ClaimsStep(S)
BY ToldThings DEF ClaimsStep, TypeInv, TypeOK

LEMMA BindStep ==
  ASSUME TypeInv, NEW k \in Keys, NEW claim \in Claims, NEW S, Told(claim, S), Bind(k, claim)
  PROVE  /\ ClaimsStep(S) /\ claims'[k] = Bound(k, claim)
         /\ Bound(k, claim) \in Claims /\ Told(Bound(k, claim), S)
         /\ \A l \in Keys \ {k} : claims'[l] = claims[l]
<1>1. Bound(k, claim) \in Claims /\ Told(Bound(k, claim), S)
  BY ClaimTypes, ToldThings DEF Bound, Free
<1>2. \A l \in Keys : claims'[l] = IF l = k THEN Bound(k, claim) ELSE claims[l]
  BY DEF Bind, TypeInv, TypeOK
<1>3. claims' \in [Keys -> Claims \cup {NoClaim}]
  BY <1>1 DEF Bind, TypeInv, TypeOK
<1>4. StartedKey(k) => Bound(k, claim) = claims[k]
  BY DEF StartedKey, Bound, Free
<1> QED
  BY <1>1, <1>2, <1>3, <1>4, ToldThings DEF ClaimsStep

LEMMA ReplaceStep ==
  ASSUME TypeInv, NEW k \in Keys, NEW claim \in Claims \cup {NoClaim}, NEW S, Told(claim, S),
         StartedKey(k) => claim = claims[k], Replace(k, claim)
  PROVE  ClaimsStep(S) /\ claims'[k] = claim /\ \A l \in Keys \ {k} : claims'[l] = claims[l]
<1>1. \A l \in Keys : claims'[l] = IF l = k THEN claim ELSE claims[l]
  BY DEF Replace, TypeInv, TypeOK
<1>2. claims' \in [Keys -> Claims \cup {NoClaim}]
  BY DEF Replace, TypeInv, TypeOK
<1> QED
  BY <1>1, <1>2, ToldThings DEF ClaimsStep

LEMMA TakeoverStep ==
  ASSUME TypeInv, NEW k \in Keys, NEW expected, NEW claim \in Claims, NEW S, Told(claim, S),
         NEW done \in BOOLEAN, Takeover(k, expected, claim, done)
  PROVE  /\ ClaimsStep(S) /\ (done => claims'[k] = claim) /\ (~done => claims' = claims)
         /\ \A l \in Keys \ {k} : claims'[l] = claims[l]
<1>1. done => ~StartedKey(k)
  BY DEF Takeover, Takeable, StartedKey
<1>2. CASE done
  BY <1>1, <1>2, ReplaceStep DEF Takeover
<1>3. CASE ~done
  BY <1>3, SameClaims DEF Takeover
<1> QED
  BY <1>2, <1>3

LEMMA ReleaseStep ==
  ASSUME TypeInv, NEW k \in Keys, NEW a \in Attempts, NEW S, ~StartedBy(a), Release(k, mine[a])
  PROVE  ClaimsStep(S)
<1>1. CASE Held(k, mine[a])
  <2>1. ~StartedKey(k)
    BY <1>1, ClaimTypes DEF Held, Free, StartedKey, StartedBy, IsStartOf
  <2> QED
    BY <1>1, <2>1, ReplaceStep, ToldThings DEF Release
<1>2. CASE ~Held(k, mine[a])
  BY <1>2, SameClaims DEF Release
<1> QED
  BY <1>1, <1>2

LEMMA MarkStep ==
  ASSUME TypeInv, NEW k \in Keys, NEW a \in Attempts, NEW done \in BOOLEAN,
         MarkStarted(k, mine[a], a, done)
  PROVE  /\ ClaimsStep({a})
         /\ done => StartedKey(k)' /\ claims'[k].started = a /\ claims'[k].token = mine[a].token
         /\ ~done => claims' = claims
         /\ \A l \in Keys \ {k} : claims'[l] = claims[l]
<1>1. CASE done
  <2>1. claims[k] \in Claims /\ claims[k].token = mine[a].token /\ claims[k].started \in {NotStarted, a}
    BY <1>1, ClaimTypes DEF MarkStarted, Held
  <2>. DEFINE claim == Started(claims[k], a)
  <2>2. claim \in Claims /\ HasStarted(claim) /\ claim.token = mine[a].token /\ claim.started = a
    BY <2>1, StartedType
  <2>3. StartedKey(k) => claim = claims[k]
    BY <2>1, StartedType DEF StartedKey, HasStarted
  <2>4. Told(claim, {a})
    BY <2>2, ToldThings, ClaimTypes
  <2>5. Replace(k, claim)
    BY <1>1 DEF MarkStarted
  <2>6. ClaimsStep({a}) /\ claims'[k] = claim /\ \A l \in Keys \ {k} : claims'[l] = claims[l]
    BY <2>2, <2>3, <2>4, <2>5, ReplaceStep
  <2> QED
    BY <1>1, <2>2, <2>6, ClaimTypes DEF StartedKey
<1>2. CASE ~done
  BY <1>2, SameClaims DEF MarkStarted
<1> QED
  BY <1>1, <1>2

-----------------------------------------------------------------------------
(* Steps have that shape *)

LEMMA Shaped ==
  ASSUME TypeInv, NEW a \in Attempts, NEW S, ClaimsStep(S),
         NEW x \in Places, NEW y \in Goals, NEW m \in Claims,
         NEW o \in Claims \cup {NoClaim}, NEW n \in Claims \cup {NoClaim},
         Goto(a, x), Keep(mine, a, m), Keep(old, a, o), Keep(new, a, n), Keep(next, a, y),
         m.token[1] = a, ~HasStarted(m), Told(o, S), Told(n, S),
         x \in OldIsRead => o # NoClaim, x \in NewIsRead => n # NoClaim,
         x \in {"mark", "confirm", "confirmLegacy"} => a \in created',
         x = "confirmLegacy" => n.started = a,
         x = "proveLegacy" => y \in {"repair", "terminalize"}
  PROVE  Shape(a, S) /\ pc'[a] = x /\ next'[a] = y /\ new'[a] = n
<1>1. /\ pc' \in [Attempts -> Places] /\ next' \in [Attempts -> Goals]
      /\ mine' \in [Attempts -> Claims]
      /\ old' \in [Attempts -> Claims \cup {NoClaim}] /\ new' \in [Attempts -> Claims \cup {NoClaim}]
  BY DEF TypeInv, TypeOK, Goto, Keep
<1>2. pc'[a] = x /\ next'[a] = y /\ mine'[a] = m /\ old'[a] = o /\ new'[a] = n
  BY DEF TypeInv, TypeOK, Goto, Keep
<1>3. \A b \in Attempts \ {a} : UNCHANGED <<pc[b], next[b], mine[b], old[b], new[b]>>
  BY DEF TypeInv, TypeOK, Goto, Keep
<1>4. OwnTypes(a)'
  BY <1>2 DEF OwnTypes
<1> QED
  BY <1>1, <1>2, <1>3, <1>4 DEF Shape

LEMMA KeepSame ==
  ASSUME TypeInv, NEW a \in Attempts
  PROVE  /\ UNCHANGED mine => Keep(mine, a, mine[a])
         /\ UNCHANGED old => Keep(old, a, old[a])
         /\ UNCHANGED new => Keep(new, a, new[a])
         /\ UNCHANGED next => Keep(next, a, next[a])
         /\ next[a] \in Goals
BY DEF TypeInv, TypeOK, Keep

\* A step that only goes on.
LEMMA Moved ==
  ASSUME TypeInv, NEW a \in Attempts, NEW S, ClaimsStep(S), NEW x, Goto(a, x), UNCHANGED registers,
         Open(a, x) \/ (x \in {"mark", "confirm"} /\ a \in created')
  PROVE  Shape(a, S) /\ pc'[a] = x /\ next'[a] = next[a]
<1>1. /\ Keep(mine, a, mine[a]) /\ Keep(old, a, old[a]) /\ Keep(new, a, new[a]) /\ Keep(next, a, next[a])
      /\ next[a] \in Goals
  BY KeepSame DEF registers
<1>2. /\ mine[a] \in Claims /\ mine[a].token[1] = a /\ ~HasStarted(mine[a])
      /\ old[a] \in Claims \cup {NoClaim} /\ new[a] \in Claims \cup {NoClaim} /\ NoClaim \notin Claims
  BY ClaimTypes
<1>3. Told(old[a], S) /\ Told(new[a], S)
  BY ToldThings
<1>4. /\ x \in Places /\ x \notin OldIsRead /\ (x \in NewIsRead => new[a] # NoClaim)
      /\ (x \in {"mark", "confirm", "confirmLegacy"} => a \in created') /\ x \notin {"proveLegacy", "confirmLegacy"}
  BY <1>2 DEF Open, Plain, Offers, Places, OldIsRead, NewIsRead
<1> QED
  BY <1>1, <1>2, <1>3, <1>4, Shaped

\* A step that fails.
LEMMA Failed ==
  ASSUME TypeInv, NEW a \in Attempts, NEW S, NEW command, command => ClaimsStep(S), NEW x,
         Fails(a, command, x), Open(a, x)
  PROVE  Shape(a, S) /\ pc'[a] = x /\ next'[a] = next[a] /\ Fault
<1>1. ClaimsStep(S) /\ Goto(a, x) /\ UNCHANGED registers /\ Fault
  BY SameClaims DEF Fails
<1> QED
  BY <1>1, Moved

\* A step that goes on with what it has read.
LEMMA KeptOld ==
  ASSUME TypeInv, NEW a \in Attempts, NEW S, ClaimsStep(S), NEW x, NEW o,
         Goto(a, x), Keep(old, a, o), UNCHANGED <<mine, new, next>>, Told(o, S),
         \/ x \in Plain /\ o \in Claims \cup {NoClaim}
         \/ x \in {"mirror"} /\ o \in Claims
         \/ x \in {"compare", "resolveLegacy"} /\ o \in Claims /\ new[a] \in Claims
  PROVE  Shape(a, S) /\ pc'[a] = x /\ next'[a] = next[a]
<1>1. Keep(mine, a, mine[a]) /\ Keep(new, a, new[a]) /\ Keep(next, a, next[a]) /\ next[a] \in Goals
  BY KeepSame
<1>2. /\ mine[a] \in Claims /\ mine[a].token[1] = a /\ ~HasStarted(mine[a])
      /\ new[a] \in Claims \cup {NoClaim} /\ NoClaim \notin Claims
  BY ClaimTypes
<1>3. Told(new[a], S)
  BY ToldThings
<1>4. /\ x \in Places /\ (x \in OldIsRead => o # NoClaim) /\ (x \in NewIsRead => new[a] # NoClaim)
      /\ x \notin {"mark", "confirm", "proveLegacy", "confirmLegacy"} /\ o \in Claims \cup {NoClaim}
  BY <1>2 DEF Plain, Places, OldIsRead, NewIsRead
<1> QED
  BY <1>1, <1>2, <1>3, <1>4, Shaped

LEMMA KeptNew ==
  ASSUME TypeInv, NEW a \in Attempts, NEW S, ClaimsStep(S), NEW x, NEW n,
         Goto(a, x), Keep(new, a, n), UNCHANGED <<mine, old, next>>, Told(n, S),
         \/ x \in Plain /\ n \in Claims \cup {NoClaim}
         \/ x \in Offers /\ n \in Claims
         \/ x = "confirmLegacy" /\ n \in Claims /\ a \in created' /\ n.started = a
  PROVE  Shape(a, S) /\ pc'[a] = x /\ next'[a] = next[a] /\ new'[a] = n
<1>1. Keep(mine, a, mine[a]) /\ Keep(old, a, old[a]) /\ Keep(next, a, next[a]) /\ next[a] \in Goals
  BY KeepSame
<1>2. /\ mine[a] \in Claims /\ mine[a].token[1] = a /\ ~HasStarted(mine[a])
      /\ old[a] \in Claims \cup {NoClaim} /\ NoClaim \notin Claims
  BY ClaimTypes
<1>3. Told(old[a], S)
  BY ToldThings
<1>4. /\ x \in Places /\ x \notin OldIsRead /\ (x \in NewIsRead => n # NoClaim)
      /\ (x \in {"mark", "confirm", "confirmLegacy"} => a \in created')
      /\ (x = "confirmLegacy" => n.started = a) /\ x # "proveLegacy" /\ n \in Claims \cup {NoClaim}
  BY <1>2 DEF Plain, Offers, Places, OldIsRead, NewIsRead
<1> QED
  BY <1>1, <1>2, <1>3, <1>4, Shaped

\* A step that begins to synchronise the legacy key.
LEMMA Synced ==
  ASSUME TypeInv, NEW a \in Attempts, NEW S, ClaimsStep(S), NEW o \in Claims, NEW n \in Claims,
         NEW y \in Goals, Told(o, S), Told(n, S),
         Goto(a, "sync"), Keep(old, a, o), Keep(new, a, n), Keep(next, a, y), UNCHANGED mine
  PROVE  Shape(a, S) /\ pc'[a] = "sync" /\ next'[a] = y /\ new'[a] = n
<1>1. "sync" \in Places
  BY DEF Places
<1>2. o # NoClaim /\ n # NoClaim
  BY ClaimTypes
<1> QED
  BY <1>1, <1>2, Shaped, KeepSame, ClaimTypes, ToldThings

\* A takeover, with its outcomes.
LEMMA Taken ==
  ASSUME TypeInv, NEW a \in Attempts, NEW S, NEW k \in Keys, NEW expected, NEW claim \in Claims, Told(claim, S),
         NEW won, NEW lost, NEW failed, Takes(a, k, expected, claim, won, lost, failed),
         Open(a, won), Open(a, lost), Open(a, failed)
  PROVE  /\ Shape(a, S) /\ pc'[a] \in {won, lost, failed} /\ next'[a] = next[a]
         /\ UNCHANGED <<new, old>> /\ (NoFault \/ Fault)
         /\ claims' = claims \/ claims'[k] = claim
         /\ \A l \in Keys \ {k} : claims'[l] = claims[l]
         /\ pc'[a] = won /\ won \notin {lost, failed} => claims'[k] = claim
<1>1. /\ ClaimsStep(S) /\ (claims' = claims \/ claims'[k] = claim)
      /\ \A l \in Keys \ {k} : claims'[l] = claims[l]
  BY SameClaims, TakeoverStep DEF Takes
<1>2. PICK x \in {won, lost, failed} : Goto(a, x) /\ (x = won /\ won \notin {lost, failed} => claims'[k] = claim)
  BY TakeoverStep DEF Takes
<1>3. UNCHANGED registers /\ (NoFault \/ Fault)
  BY DEF Takes
<1>4. Shape(a, S) /\ pc'[a] = x /\ next'[a] = next[a]
  BY <1>1, <1>2, <1>3, Moved
<1> QED
  BY <1>1, <1>2, <1>3, <1>4 DEF registers

LEMMA WorldSame ==
  ASSUME TypeInv, UNCHANGED <<job, history>>, NoFault \/ Fault \/ UNCHANGED faults
  PROVE  World
BY JobAssumption DEF TypeInv, TypeOK, World, history, NoFault, Fault, Ours

LEMMA FaultType ==
  ASSUME TypeInv, NoFault \/ Fault \/ UNCHANGED faults
  PROVE  faults' \in 0 .. MaxFaults
BY JobAssumption DEF TypeInv, TypeOK, NoFault, Fault

-----------------------------------------------------------------------------
(* What a step of that shape preserves *)

LEMMA ShapeType ==
  ASSUME TypeInv, NEW a \in Attempts, NEW S, Shape(a, S), World
  PROVE  TypeInv'
<1>1. TypeOK'
  BY DEF Shape, ClaimsStep, World, TypeInv, TypeOK
<1>2. \A b \in Attempts \ {a} : OwnTypes(b)'
  BY DEF Shape, World, TypeInv, OwnTypes
<1>3. \A b \in Attempts : OwnTypes(b)'
  BY <1>2 DEF Shape
<1> QED
  BY <1>1, <1>3 DEF Shape, World, TypeInv, OwnTypes

\* Nobody but those in S starts; what has started stays.
LEMMA ShapeStarts ==
  ASSUME TypeInv, NEW a \in Attempts, NEW S, Shape(a, S), NEW c \in Attempts
  PROVE  /\ StartedBy(c)' => c \in S \/ StartedBy(c)
         /\ Began(c) => Began(c)'
<1>1. \A k \in Keys : IsStartOf(claims'[k], c) => c \in S \/ StartedBy(c)
  BY DEF Shape, ClaimsStep, Told
<1>2. \A b \in Attempts : IsStartOf(old'[b], c) \/ IsStartOf(new'[b], c) => c \in S \/ StartedBy(c)
  BY ToldThings DEF Shape, Told
<1>3. Began(c) => Began(c)'
  BY KeysAre DEF Shape, ClaimsStep, Began, IsStartOf, StartedKey
<1> QED
  BY <1>1, <1>2, <1>3 DEF StartedBy, IsStartOf

LEMMA ShapeStartInv ==
  ASSUME TypeInv, StartInv, NEW a \in Attempts, NEW S \in SUBSET {a}, Shape(a, S), OwnStart(a)'
  PROVE  StartInv'
<1>1. \A b \in Attempts \ {a} : OwnStart(b)'
  <2>. SUFFICES ASSUME NEW b \in Attempts \ {a} PROVE OwnStart(b)'
    OBVIOUS
  <2>1. pc'[b] = pc[b] /\ next'[b] = next[b] /\ b \notin S
    BY DEF Shape
  <2>2. (StartedBy(b)' => StartedBy(b)) /\ (Began(b) => Began(b)')
    BY <2>1, ShapeStarts
  <2> QED
    BY <2>1, <2>2 DEF StartInv, OwnStart, Toward
<1> QED
  BY <1>1 DEF StartInv, OwnStart

LEMMA OwnFromSilent ==
  ASSUME TypeInv, NEW a \in Attempts, Shape(a, {}), ~StartedBy(a),
         ~Toward(a, {"mark", "proveLegacy", "repair"})'
  PROVE  OwnStart(a)'
BY ShapeStarts DEF OwnStart

LEMMA OwnFromDeciding ==
  ASSUME TypeInv, StartInv, NEW a \in Attempts, Shape(a, {}), Toward(a, Deciding), ~Toward(a, Silent)',
         Toward(a, {"mark", "proveLegacy", "repair"})' => Began(a)
  PROVE  OwnStart(a)'
BY ShapeStarts DEF OwnStart, StartInv

LEMMA OwnOver ==
  ASSUME NEW a \in Attempts, ~Toward(a, Silent)', ~Toward(a, Deciding)'
  PROVE  OwnStart(a)'
BY DEF OwnStart, Toward, Deciding

-----------------------------------------------------------------------------
(* The steps of an attempt, one by one *)

Good(a, S) == Shape(a, S) /\ World /\ OwnStart(a)' /\ OnceInv'

LEMMA GoodKeeps ==
  ASSUME Inv, NEW a \in Attempts, NEW S \in SUBSET {a}, Good(a, S)
  PROVE  Inv'
<1>1. RunIsFenced'
  <2>. SUFFICES ASSUME ~lapsed, NEW x \in exposed'
                PROVE  claims'["legacy"] # NoClaim /\ claims'["legacy"].started = x
    BY DEF RunIsFenced, Free, Good, World
  <2>1. CASE x \in exposed
    <3>1. claims["legacy"] # NoClaim /\ claims["legacy"].started = x /\ x \in Attempts
      BY <2>1 DEF Inv, RunIsFenced, Free, TypeInv, TypeOK
    <3>2. StartedKey("legacy")
      BY <3>1, ClaimAssumption DEF StartedKey, HasStarted
    <3> QED
      BY <3>1, <3>2, KeysAre DEF Good, Shape, ClaimsStep
  <2>2. CASE x \notin exposed
    BY <2>2 DEF Good, World
  <2> QED
    BY <2>1, <2>2
<1> QED
  BY <1>1, ShapeType, ShapeStartInv DEF Inv, Good

\* Where no attempt can be when a generation has been made, unless the primary
\* key remembers it.
LEMMA OnceElsewhere ==
  ASSUME TypeInv, OnceInv, NEW a \in Attempts, NEW S, Shape(a, S), pc[a] \notin Idle \cup Finding,
         UNCHANGED <<created, forgotten>>
  PROVE  OnceInv'
<1>1. pc[a] # "mirror"
  BY DEF Finding
<1>2. ~LegacyRemembers /\ ~JobRemembers
  BY <1>1 DEF LegacyRemembers, JobRemembers
<1>3. StartedKey("primary") => StartedKey("primary")'
  BY KeysAre DEF Shape, ClaimsStep, StartedKey
<1> QED
  BY <1>2, <1>3 DEF OnceInv

LEMMA SilentStep ==
  ASSUME Inv, NEW a \in Attempts, Shape(a, {}), pc[a] \in Silent, pc[a] \notin Idle \cup Finding,
         UNCHANGED <<job, history>>, NoFault \/ Fault \/ UNCHANGED faults,
         ~Toward(a, {"mark", "proveLegacy", "repair"})'
  PROVE  Good(a, {})
<1>1. ~StartedBy(a)
  BY DEF Inv, StartInv, Toward
<1> QED
  BY <1>1, WorldSame, OnceElsewhere, OwnFromSilent DEF Inv, Good, history

LEMMA DecidingStep ==
  ASSUME Inv, NEW a \in Attempts, Shape(a, {}), pc[a] \in Deciding,
         UNCHANGED <<job, history>>, NoFault \/ Fault \/ UNCHANGED faults,
         ~Toward(a, Silent)', Toward(a, {"mark", "proveLegacy", "repair"})' => Began(a)
  PROVE  Good(a, {})
<1>1. pc[a] \notin Idle \cup Finding
  BY DEF Deciding, Idle, Finding
<1>2. Toward(a, Deciding)
  BY DEF Toward
<1> QED
  BY <1>1, <1>2, WorldSame, OnceElsewhere, OwnFromDeciding DEF Inv, Good, history

LEMMA Reads ==
  ASSUME TypeInv, NEW a \in Attempts
  PROVE  /\ pc[a] \in NewIsRead => new[a] \in Claims
         /\ pc[a] \in OldIsRead => old[a] \in Claims
BY ClaimTypes DEF TypeInv

LEMMA SuccessorType ==
  ASSUME NEW a \in Attempts, NEW claim \in Claims
  PROVE  Successor(a, claim) \in Claims /\ Successor(a, claim).token[1] = a /\ ~HasStarted(Successor(a, claim))
BY DEF Successor, Claims, Tokens, HasStarted

LEMMA BindFails ==
  ASSUME TypeInv, NEW a \in Attempts, NEW S, NEW k \in Keys, NEW claim \in Claims, Told(claim, S), NEW x,
         Fails(a, Bind(k, claim), x), Open(a, x)
  PROVE  Shape(a, S) /\ pc'[a] = x /\ next'[a] = next[a] /\ Fault
<1>1. Bind(k, claim) => ClaimsStep(S)
  BY BindStep
<1>2. (Bind(k, claim) \/ UNCHANGED claims) /\ Goto(a, x) /\ UNCHANGED registers /\ Fault
  BY DEF Fails
<1>3. ClaimsStep(S)
  BY <1>1, <1>2, SameClaims
<1> QED
  BY <1>2, <1>3, Moved

LEMMA PlacesAre ==
  /\ "idle" \in Plain /\ "bind" \in Plain /\ "undo" \in Plain /\ "adopt" \in Plain /\ "admit" \in Plain
  /\ "create" \in Plain /\ "recover" \in Plain /\ "prove" \in Plain /\ "repair" \in Plain
  /\ "terminalize" \in Plain /\ "release" \in Plain /\ "releasePrimary" \in Plain /\ "checkLegacy" \in Plain
  /\ "releaseLegacy" \in Plain /\ "initializing" \in Plain /\ "running" \in Plain /\ "done" \in Plain
  /\ "probe" \in Offers /\ "duplicate" \in Offers /\ "expect" \in Offers /\ "take" \in Offers
  /\ "takeLegacy" \in Offers /\ "resolve" \in Offers /\ "bindJob" \in Offers /\ "tombstone" \in Offers
  /\ "tombstoneProbe" \in Offers /\ "fence" \in Offers
  /\ "done" \in Goals /\ "duplicate" \in Goals /\ "admit" \in Goals /\ "repair" \in Goals
  /\ "terminalize" \in Goals /\ "take" \in Places /\ "take" \notin OldIsRead
  /\ "terminalize" \in Places /\ "sync" \in Places
BY DEF Plain, Offers, Places, OldIsRead, NewIsRead, Goals

LEMMA ExpectPrimaryGood == ASSUME Inv, NEW a \in Attempts, ExpectPrimary(a) PROVE Good(a, {})
<1>. USE KeysAre, PlacesAre
<1>0. TypeInv
  BY DEF Inv
<1>. USE <1>0
<1>1. pc[a] = "expect" /\ new[a] \in Claims /\ Told(new[a], {})
  BY Reads, ToldThings DEF ExpectPrimary, At, NewIsRead
<1>2. Shape(a, {}) /\ pc'[a] \in {"compare", "done"}
  <2>1. CASE Fails(a, Bind("primary", new[a]), "done")
    BY <1>1, <2>1, BindFails DEF Open
  <2>2. CASE ~Fails(a, Bind("primary", new[a]), "done")
    <3>1. /\ Bind("primary", new[a]) /\ Keep(old, a, Bound("primary", new[a])) /\ Goto(a, "compare")
          /\ UNCHANGED <<mine, new, next>>
      BY <2>2 DEF ExpectPrimary
    <3>2. ClaimsStep({}) /\ Bound("primary", new[a]) \in Claims /\ Told(Bound("primary", new[a]), {})
      BY <1>1, <3>1, BindStep
    <3> QED
      BY <1>1, <3>1, <3>2, KeptOld
  <2> QED
    BY <2>1, <2>2
<1>3. UNCHANGED <<job, history>> /\ (NoFault \/ Fault)
  BY DEF ExpectPrimary, Fails
<1> QED
  BY <1>1, <1>2, <1>3, SilentStep DEF Silent, Finding, Idle, Toward

LEMMA CompareGood == ASSUME Inv, NEW a \in Attempts, Compare(a) PROVE Good(a, {})
<1>. USE KeysAre, PlacesAre
<1>0. TypeInv
  BY DEF Inv
<1>. USE <1>0
<1>1. pc[a] = "compare" /\ new[a] \in Claims /\ Told(new[a], {}) /\ old[a] \in Claims /\ Told(old[a], {})
  BY Reads, ToldThings DEF Compare, At, NewIsRead, OldIsRead
<1>2. Shape(a, {}) /\ pc'[a] \in {"sync", "take", "done"} /\ (pc'[a] = "sync" => next'[a] = "done")
  <2>1. CASE Fails(a, Bind("legacy", new[a]), "done")
    BY <1>1, <2>1, BindFails DEF Open
  <2>2. CASE ~Fails(a, Bind("legacy", new[a]), "done")
    <3>. DEFINE legacy == Bound("legacy", new[a])
    <3>1. Bind("legacy", new[a])
      BY <2>2 DEF Compare
    <3>2. ClaimsStep({}) /\ legacy \in Claims /\ Told(legacy, {})
      BY <1>1, <3>1, BindStep
    <3>3. \/ Synchronize(a, legacy, old[a], "done")
          \/ Goto(a, "take") /\ Keep(mine, a, Successor(a, new[a])) /\ UNCHANGED <<old, new, next>>
          \/ Goto(a, "done") /\ UNCHANGED registers
      BY <2>2 DEF Compare, registers
    <3>. HIDE DEF legacy
    <3>4. CASE Synchronize(a, legacy, old[a], "done")
      <4>1. Shape(a, {}) /\ pc'[a] = "sync" /\ next'[a] = "done"
        BY <1>1, <3>2, <3>4, Synced DEF Synchronize, Keep
      <4> QED
        BY <4>1
    <3>5. CASE Goto(a, "take") /\ Keep(mine, a, Successor(a, new[a])) /\ UNCHANGED <<old, new, next>>
      <4>. DEFINE m == Successor(a, new[a])
      <4>1. m \in Claims /\ m.token[1] = a /\ ~HasStarted(m)
        BY <1>1, SuccessorType
      <4>2. Keep(old, a, old[a]) /\ Keep(new, a, new[a]) /\ Keep(next, a, next[a]) /\ next[a] \in Goals
        BY <3>5, KeepSame
      <4>3. "take" \in Places /\ "take" \notin OldIsRead /\ new[a] # NoClaim
        BY <1>1, ClaimTypes
      <4>. HIDE DEF m
      <4>4. Keep(mine, a, m) /\ Goto(a, "take")
        BY <3>5 DEF m
      <4>5. Shape(a, {}) /\ pc'[a] = "take"
        BY <1>1, <3>2, <4>1, <4>2, <4>3, <4>4, Shaped
      <4> QED
        BY <4>5
    <3>6. CASE Goto(a, "done") /\ UNCHANGED registers
      BY <3>2, <3>6, Moved DEF Open
    <3> QED
      BY <3>3, <3>4, <3>5, <3>6
  <2> QED
    BY <2>1, <2>2
<1>3. UNCHANGED <<job, history>> /\ (NoFault \/ Fault)
  BY DEF Compare, Fails
<1> QED
  BY <1>1, <1>2, <1>3, SilentStep DEF Silent, Finding, Idle, Toward

LEMMA TakePrimaryGood == ASSUME Inv, NEW a \in Attempts, TakePrimary(a) PROVE Good(a, {})
<1>. USE KeysAre, PlacesAre
<1>0. TypeInv
  BY DEF Inv
<1>. USE <1>0
<1>1. pc[a] = "take" /\ new[a] \in Claims /\ mine[a] \in Claims /\ Told(mine[a], {})
  BY Reads, ToldThings, ClaimTypes DEF TakePrimary, At, NewIsRead
<1>2. Takes(a, "primary", new[a], mine[a], "takeLegacy", "done", "resolve")
  BY DEF TakePrimary
<1>3. Shape(a, {}) /\ pc'[a] \in {"takeLegacy", "done", "resolve"} /\ (NoFault \/ Fault)
  BY <1>1, <1>2, Taken DEF Open
<1> QED
  BY <1>1, <1>3, SilentStep DEF TakePrimary, Silent, Finding, Idle, Toward

LEMMA TakeLegacyGood == ASSUME Inv, NEW a \in Attempts, TakeLegacy(a) PROVE Good(a, {})
<1>. USE KeysAre, PlacesAre
<1>0. TypeInv
  BY DEF Inv
<1>. USE <1>0
<1>1. pc[a] = "takeLegacy" /\ new[a] \in Claims /\ mine[a] \in Claims /\ Told(mine[a], {})
  BY Reads, ToldThings, ClaimTypes DEF TakeLegacy, At, NewIsRead
<1>2. Takes(a, "legacy", new[a], mine[a], "admit", "undo", "undo")
  BY DEF TakeLegacy
<1>3. Shape(a, {}) /\ pc'[a] \in {"admit", "undo"} /\ (NoFault \/ Fault)
  BY <1>1, <1>2, Taken DEF Open
<1> QED
  BY <1>1, <1>3, SilentStep DEF TakeLegacy, Silent, Finding, Idle, Toward

\* The three releases of an attempt that has not started.
LEMMA Releasing ==
  ASSUME Inv, NEW a \in Attempts, NEW k \in Keys, NEW x \in Plain, pc[a] \in Silent,
         \/ Release(k, mine[a]) /\ NoFault /\ Goto(a, x) /\ UNCHANGED registers
         \/ Fails(a, Release(k, mine[a]), "done")
  PROVE  Shape(a, {}) /\ pc'[a] \in {x, "done"} /\ (NoFault \/ Fault)
<1>1. ~StartedBy(a)
  BY DEF Inv, StartInv, Toward
<1>2. Release(k, mine[a]) => ClaimsStep({})
  BY <1>1, ReleaseStep DEF Inv
<1>3. CASE Release(k, mine[a]) /\ NoFault /\ Goto(a, x) /\ UNCHANGED registers
  BY <1>2, <1>3, Moved DEF Inv, Open
<1>4. CASE Fails(a, Release(k, mine[a]), "done")
  BY <1>2, <1>4, Failed, PlacesAre DEF Inv, Open
<1> QED
  BY <1>3, <1>4

LEMMA UndoGood == ASSUME Inv, NEW a \in Attempts, Undo(a) PROVE Good(a, {})
<1>. USE KeysAre, PlacesAre
<1>1. pc[a] = "undo"
  BY DEF Undo, At
<1>2. Shape(a, {}) /\ pc'[a] = "done" /\ (NoFault \/ Fault)
  BY <1>1, Releasing DEF Undo, Silent
<1> QED
  BY <1>1, <1>2, SilentStep DEF Undo, Silent, Finding, Idle, Toward

LEMMA ReleasePrimaryGood == ASSUME Inv, NEW a \in Attempts, ReleasePrimary(a) PROVE Good(a, {})
<1>. USE KeysAre, PlacesAre
<1>1. pc[a] = "releasePrimary"
  BY DEF ReleasePrimary, At
<1>2. Shape(a, {}) /\ pc'[a] \in {"checkLegacy", "done"} /\ (NoFault \/ Fault)
  BY <1>1, Releasing DEF ReleasePrimary, Silent
<1> QED
  BY <1>1, <1>2, SilentStep DEF ReleasePrimary, Silent, Finding, Idle, Toward

LEMMA ReleaseLegacyGood == ASSUME Inv, NEW a \in Attempts, ReleaseLegacy(a) PROVE Good(a, {})
<1>. USE KeysAre, PlacesAre
<1>1. pc[a] = "releaseLegacy"
  BY DEF ReleaseLegacy, At
<1>2. Shape(a, {}) /\ pc'[a] = "done" /\ (NoFault \/ Fault)
  BY <1>1, Releasing DEF ReleaseLegacy, Silent
<1> QED
  BY <1>1, <1>2, SilentStep DEF ReleaseLegacy, Silent, Finding, Idle, Toward

LEMMA ResolvePrimaryGood == ASSUME Inv, NEW a \in Attempts, ResolvePrimary(a) PROVE Good(a, {})
<1>. USE KeysAre, PlacesAre
<1>0. TypeInv
  BY DEF Inv
<1>. USE <1>0
<1>1. pc[a] = "resolve" /\ new[a] \in Claims /\ Told(new[a], {})
  BY Reads, ToldThings DEF ResolvePrimary, At, NewIsRead
<1>2. Shape(a, {}) /\ pc'[a] \in {"resolveLegacy", "done"}
  <2>1. CASE Fails(a, Bind("primary", new[a]), "done")
    BY <1>1, <2>1, BindFails DEF Open
  <2>2. CASE ~Fails(a, Bind("primary", new[a]), "done")
    <3>1. /\ Bind("primary", new[a]) /\ Keep(old, a, Bound("primary", new[a])) /\ Goto(a, "resolveLegacy")
          /\ UNCHANGED <<mine, new, next>>
      BY <2>2 DEF ResolvePrimary
    <3>2. ClaimsStep({}) /\ Bound("primary", new[a]) \in Claims /\ Told(Bound("primary", new[a]), {})
      BY <1>1, <3>1, BindStep
    <3> QED
      BY <1>1, <3>1, <3>2, KeptOld
  <2> QED
    BY <2>1, <2>2
<1>3. UNCHANGED <<job, history>> /\ (NoFault \/ Fault)
  BY DEF ResolvePrimary, Fails
<1> QED
  BY <1>1, <1>2, <1>3, SilentStep DEF Silent, Finding, Idle, Toward

LEMMA ResolveLegacyGood == ASSUME Inv, NEW a \in Attempts, ResolveLegacy(a) PROVE Good(a, {})
<1>. USE KeysAre, PlacesAre
<1>0. TypeInv
  BY DEF Inv
<1>. USE <1>0
<1>1. pc[a] = "resolveLegacy" /\ new[a] \in Claims /\ Told(new[a], {}) /\ old[a] \in Claims /\ Told(old[a], {})
  BY Reads, ToldThings DEF ResolveLegacy, At, NewIsRead, OldIsRead
<1>2. Shape(a, {}) /\ pc'[a] \in {"sync", "admit", "done"} /\ (pc'[a] = "sync" => next'[a] \in {"admit", "done"})
  <2>1. CASE Fails(a, Bind("legacy", new[a]), "done")
    BY <1>1, <2>1, BindFails DEF Open
  <2>2. CASE ~Fails(a, Bind("legacy", new[a]), "done")
    <3>. DEFINE legacy == Bound("legacy", new[a])
    <3>1. Bind("legacy", new[a])
      BY <2>2 DEF ResolveLegacy
    <3>2. ClaimsStep({}) /\ legacy \in Claims /\ Told(legacy, {})
      BY <1>1, <3>1, BindStep
    <3>3. PICK place \in {"admit", "done"} : \/ Synchronize(a, legacy, old[a], place)
                                             \/ Goto(a, place) /\ UNCHANGED registers
      BY <2>2 DEF ResolveLegacy
    <3>. HIDE DEF legacy
    <3>4. place \in Goals /\ place \in Plain
      OBVIOUS
    <3>5. CASE Synchronize(a, legacy, old[a], place)
      <4>1. Shape(a, {}) /\ pc'[a] = "sync" /\ next'[a] = place
        BY <1>1, <3>2, <3>4, <3>5, Synced DEF Synchronize, Keep
      <4> QED
        BY <4>1
    <3>6. CASE Goto(a, place) /\ UNCHANGED registers
      BY <3>2, <3>4, <3>6, Moved DEF Open
    <3> QED
      BY <3>3, <3>5, <3>6
  <2> QED
    BY <2>1, <2>2
<1>3. UNCHANGED <<job, history>> /\ (NoFault \/ Fault)
  BY DEF ResolveLegacy, Fails
<1> QED
  BY <1>1, <1>2, <1>3, SilentStep DEF Silent, Finding, Idle, Toward

LEMMA AdmitGood == ASSUME Inv, NEW a \in Attempts, Admit(a) PROVE Good(a, {})
<1>. USE PlacesAre
<1>1. pc[a] = "admit" /\ UNCHANGED <<claims, job, registers, history, faults>>
  BY DEF Admit, At
<1>2. PICK place \in {"create", "release"} : Goto(a, place)
  BY DEF Admit
<1>3. Shape(a, {}) /\ pc'[a] = place
  BY <1>1, <1>2, SameClaims, Moved DEF Inv, Open
<1> QED
  BY <1>1, <1>3, SilentStep DEF Silent, Finding, Idle, Toward

LEMMA CheckLegacyGood == ASSUME Inv, NEW a \in Attempts, CheckLegacy(a) PROVE Good(a, {})
<1>. USE KeysAre, PlacesAre
<1>0. TypeInv
  BY DEF Inv
<1>. USE <1>0
<1>1. pc[a] = "checkLegacy" /\ mine[a] \in Claims /\ Told(mine[a], {})
  BY ClaimTypes, ToldThings DEF CheckLegacy, At
<1>2. Shape(a, {}) /\ pc'[a] \in {"releaseLegacy", "done"}
  <2>1. CASE Fails(a, Bind("legacy", mine[a]), "done")
    BY <1>1, <2>1, BindFails DEF Open
  <2>2. CASE ~Fails(a, Bind("legacy", mine[a]), "done")
    <3>1. Bind("legacy", mine[a]) /\ UNCHANGED registers /\ \E x \in {"releaseLegacy", "done"} : Goto(a, x)
      BY <2>2 DEF CheckLegacy
    <3> QED
      BY <1>1, <3>1, BindStep, Moved DEF Open
  <2> QED
    BY <2>1, <2>2
<1>3. UNCHANGED <<job, history>> /\ (NoFault \/ Fault)
  BY DEF CheckLegacy, Fails
<1> QED
  BY <1>1, <1>2, <1>3, SilentStep DEF Silent, Finding, Idle, Toward

\* The store creates the job and starts the claim at once.
LEMMA CreateGood == ASSUME Inv, NEW a \in Attempts, Create(a) PROVE \E S \in SUBSET {a} : Good(a, S)
<1>. USE KeysAre, PlacesAre
<1>0. TypeInv
  BY DEF Inv
<1>. USE <1>0
<1>1. pc[a] = "create" /\ UNCHANGED <<registers, exposed, forgotten, lapsed>> /\ ~StartedBy(a)
  BY DEF Create, At, Inv, StartInv, Toward, Silent
<1>2. CASE CommitCreate(a)
  <2>. DEFINE claim == Started(claims["primary"], a)
  <2>1. PICK x \in {"mark", "recover"} : Goto(a, x) /\ (NoFault \/ Fault)
    BY <1>2 DEF Create
  <2>2. claims["primary"] \in Claims /\ claims["primary"].token = mine[a].token /\ ~StartedKey("primary")
    BY <1>2, ClaimTypes DEF CommitCreate, Creatable, Takeable, Held, StartedKey
  <2>3. claim \in Claims /\ HasStarted(claim) /\ claim.token[1] = a
    BY <2>2, StartedType, ClaimTypes
  <2>4. Told(claim, {a})
    BY <2>3, ToldThings
  <2>5. Replace("primary", claim)
    BY <1>2 DEF CommitCreate
  <2>6. ClaimsStep({a}) /\ claims'["primary"] = claim
    BY <2>2, <2>3, <2>4, <2>5, ReplaceStep
  <2>7. job' = RunningJob(a) /\ created' = created \cup {a}
    BY <1>2 DEF CommitCreate
  <2>8. Shape(a, {a}) /\ pc'[a] = x
    BY <1>1, <2>1, <2>6, <2>7, Moved DEF Open
  <2>9. World
    BY <1>1, <2>1, <2>7, FaultType DEF World, TypeInv, TypeOK, Jobs, RunningJob, Ours
  <2>10. Began(a)' /\ StartedKey("primary")'
    BY <2>3, <2>6, ClaimTypes DEF Began, IsStartOf, StartedKey
  <2>11. OwnStart(a)'
    BY <2>8, <2>10 DEF OwnStart, Toward, Silent
  <2>12. OnceInv'
    <3>1. ~forgotten => created = {}
      BY <1>1, <2>2 DEF Inv, OnceInv, LegacyRemembers, JobRemembers, Idle, Finding
    <3> QED
      BY <1>1, <2>7, <2>10, <3>1 DEF OnceInv
  <2> QED
    BY <2>8, <2>9, <2>11, <2>12 DEF Good
<1>3. CASE ~CommitCreate(a)
  <2>1. Goto(a, "recover") /\ UNCHANGED <<claims, job, created>> /\ (NoFault \/ Fault)
    BY <1>3 DEF Create
  <2>2. Shape(a, {}) /\ pc'[a] = "recover"
    BY <1>1, <2>1, SameClaims, Moved DEF Open
  <2>3. UNCHANGED <<job, history>>
    BY <1>1, <2>1 DEF history
  <2>4. Good(a, {})
    BY <1>1, <2>1, <2>2, <2>3, SilentStep DEF Silent, Finding, Idle, Toward
  <2> QED
    BY <2>4
<1> QED
  BY <1>2, <1>3

LEMMA RecoverGood == ASSUME Inv, NEW a \in Attempts, Recover(a) PROVE Good(a, {})
<1>. USE PlacesAre
<1>1. pc[a] = "recover" /\ UNCHANGED <<claims, job, registers, history>> /\ (NoFault \/ Fault)
  BY DEF Recover, At
<1>2. PICK x \in {"prove", "release"} : Goto(a, x)
  BY DEF Recover
<1>3. Shape(a, {}) /\ pc'[a] = x
  BY <1>1, <1>2, SameClaims, Moved DEF Inv, Open
<1> QED
  BY <1>1, <1>3, DecidingStep DEF Silent, Deciding, Toward

\* What an attempt offers where the primary might be missing: its own start.
LEMMA FallbackType ==
  ASSUME TypeInv, NEW a \in Attempts
  PROVE  /\ Fallback(a) \in Claims /\ HasStarted(Fallback(a)) /\ Fallback(a).token[1] = a
         /\ Told(Fallback(a), {a})
<1>1. mine[a] \in Claims /\ mine[a].token[1] = a
  BY ClaimTypes
<1>2. [mine[a] EXCEPT !.previous = NoToken] \in Claims /\ [mine[a] EXCEPT !.previous = NoToken].token = mine[a].token
  BY <1>1 DEF Claims
<1>3. Fallback(a) \in Claims /\ HasStarted(Fallback(a)) /\ Fallback(a).token = mine[a].token
  BY <1>2, StartedType DEF Fallback
<1> QED
  BY <1>1, <1>3, ToldThings

\* Offering it: the primary is another's, or knows of the start.
LEMMA FallbackStep ==
  ASSUME Inv, NEW a \in Attempts, pc[a] \in Deciding, Bind("primary", Fallback(a)) \/ UNCHANGED claims
  PROVE  /\ ClaimsStep({a})
         /\ (StartedBy(a) => Began(a)) /\ (Began(a) => Began(a)')
         /\ claims' # claims => Began(a)'
<1>. USE KeysAre
<1>0. TypeInv
  BY DEF Inv
<1>. USE <1>0
<1>1. StartedBy(a) => Began(a)
  BY DEF Inv, StartInv, Toward
<1>2. CASE UNCHANGED claims
  BY <1>1, <1>2, SameClaims DEF Began
<1>3. CASE Bind("primary", Fallback(a))
  <2>1. /\ ClaimsStep({a}) /\ claims'["primary"] = Bound("primary", Fallback(a))
        /\ \A l \in Keys \ {"primary"} : claims'[l] = claims[l]
    BY <1>3, FallbackType, BindStep
  <2>2. CASE Free("primary")
    BY <1>1, <2>1, <2>2, FallbackType, ClaimTypes DEF Bound, Began, IsStartOf, Free
  <2>3. CASE ~Free("primary")
    BY <1>1, <1>3, <2>1, <2>3 DEF Bound, Bind, Began, TypeInv, TypeOK
  <2> QED
    BY <2>2, <2>3
<1> QED
  BY <1>2, <1>3

LEMMA ProveGood == ASSUME Inv, NEW a \in Attempts, Prove(a) PROVE Good(a, {a})
<1>. USE KeysAre, PlacesAre
<1>0. TypeInv
  BY DEF Inv
<1>. USE <1>0
<1>1. pc[a] = "prove" /\ UNCHANGED <<job, history>> /\ (NoFault \/ Fault)
  BY DEF Prove, Fails, At
<1>2. Bind("primary", Fallback(a)) \/ UNCHANGED claims
  BY DEF Prove, Fails
<1>3. /\ ClaimsStep({a}) /\ (StartedBy(a) => Began(a)) /\ (Began(a) => Began(a)')
      /\ (claims' # claims => Began(a)')
  BY <1>1, <1>2, FallbackStep DEF Deciding
<1>. DEFINE primary == Bound("primary", Fallback(a))
<1>4. primary \in Claims /\ Told(primary, {a})
  BY FallbackType, ClaimTypes, ToldThings DEF Bound, Free
<1>5. CASE Goto(a, "terminalize") /\ UNCHANGED registers
  <2>1. Shape(a, {a}) /\ pc'[a] = "terminalize"
    BY <1>3, <1>5, Moved DEF Open
  <2>2. StartedBy(a)' => Began(a)'
    BY <1>3, <1>5 DEF StartedBy, Began, registers
  <2>3. OwnStart(a)'
    BY <2>1, <2>2 DEF OwnStart, Toward, Silent
  <2> QED
    BY <1>1, <2>1, <2>3, WorldSame, OnceElsewhere DEF Good, Inv, history, Idle, Finding
<1>6. CASE ~(Goto(a, "terminalize") /\ UNCHANGED registers)
  <2>1. /\ Bind("primary", Fallback(a)) /\ Proves(a, primary) /\ Goto(a, "proveLegacy") /\ Keep(new, a, primary)
        /\ UNCHANGED <<mine, old>>
        /\ \E y \in {"terminalize", "repair"} : next' = [next EXCEPT ![a] = y]
    BY <1>6 DEF Prove, Fails, registers
  <2>2. PICK y \in {"terminalize", "repair"} : Keep(next, a, y)
    BY <2>1 DEF Keep
  <2>3. claims'["primary"] = primary
    BY <2>1, FallbackType, BindStep
  <2>4. Shape(a, {a}) /\ pc'[a] = "proveLegacy" /\ new'[a] = primary
    <3>1. /\ mine[a] \in Claims /\ mine[a].token[1] = a /\ ~HasStarted(mine[a])
          /\ old[a] \in Claims \cup {NoClaim} /\ primary # NoClaim
      BY <1>4, ClaimTypes
    <3>2. "proveLegacy" \in Places /\ "proveLegacy" \notin OldIsRead /\ y \in Goals
      BY DEF Places, OldIsRead
    <3>3. Keep(mine, a, mine[a]) /\ Keep(old, a, old[a]) /\ Told(old[a], {a})
      BY <2>1, KeepSame, ToldThings
    <3>. HIDE DEF primary
    <3> QED
      BY <1>3, <1>4, <2>1, <2>2, <3>1, <3>2, <3>3, Shaped
  <2>5. Began(a)'
    <3>1. primary.token[1] = a /\ primary.started = a
      BY <2>1, ClaimTypes DEF Proves
    <3> QED
      BY <1>4, <2>3, <3>1, ClaimTypes, ClaimAssumption DEF Began, IsStartOf, HasStarted
  <2>6. OwnStart(a)'
    BY <2>4, <2>5 DEF OwnStart, Toward, Silent
  <2> QED
    BY <1>1, <2>4, <2>6, WorldSame, OnceElsewhere DEF Good, Inv, history, Idle, Finding
<1> QED
  BY <1>5, <1>6

LEMMA ProveLegacyGood == ASSUME Inv, NEW a \in Attempts, ProveLegacy(a) PROVE Good(a, {})
<1>. USE KeysAre, PlacesAre
<1>0. TypeInv
  BY DEF Inv
<1>. USE <1>0
<1>1. /\ pc[a] = "proveLegacy" /\ UNCHANGED <<job, history>> /\ (NoFault \/ Fault)
      /\ new[a] \in Claims /\ Told(new[a], {}) /\ next[a] \in Goals
  BY Reads, ToldThings, KeepSame DEF ProveLegacy, Fails, At, NewIsRead
<1>2. Began(a)
  BY <1>1 DEF Inv, StartInv, Toward
<1>. DEFINE legacy == Bound("legacy", new[a])
<1>3. ClaimsStep({}) /\ legacy \in Claims /\ Told(legacy, {})
  BY <1>1, BindStep, SameClaims, ClaimTypes, ToldThings DEF ProveLegacy, Fails, Bound, Free
<1>4. \/ Synchronize(a, legacy, new[a], next[a])
      \/ \E x \in {next[a], "terminalize"} : Goto(a, x) /\ UNCHANGED registers
  BY DEF ProveLegacy, Fails
<1>. HIDE DEF legacy
<1>5. /\ Shape(a, {}) /\ pc'[a] \in {"sync", "terminalize", next[a]}
      /\ next'[a] = next[a]
  <2>1. CASE Synchronize(a, legacy, new[a], next[a])
    <3>1. Shape(a, {}) /\ pc'[a] = "sync" /\ next'[a] = next[a]
      BY <1>1, <1>3, <2>1, Synced DEF Synchronize, Keep
    <3> QED
      BY <3>1
  <2>2. ASSUME NEW x \in {next[a], "terminalize"}, Goto(a, x), UNCHANGED registers
        PROVE  Shape(a, {}) /\ pc'[a] \in {"sync", "terminalize", next[a]} /\ next'[a] = next[a]
    <3>1. Open(a, x)
      BY <1>1 DEF Goals, Open
    <3>2. Shape(a, {}) /\ pc'[a] = x /\ next'[a] = next[a]
      BY <1>3, <2>2, <3>1, Moved
    <3> QED
      BY <3>2
  <2> QED
    BY <1>4, <2>1, <2>2
<1>6. next[a] \in {"repair", "terminalize"}
  BY <1>1 DEF TypeInv
<1> QED
  BY <1>1, <1>2, <1>5, <1>6, DecidingStep DEF Silent, Deciding, Toward

LEMMA RepairGood == ASSUME Inv, NEW a \in Attempts, Repair(a) PROVE Good(a, {})
<1>. USE PlacesAre
<1>1. pc[a] = "repair" /\ UNCHANGED <<claims, job, registers, history, faults>>
  BY DEF Repair, At
<1>2. Began(a)
  BY <1>1 DEF Inv, StartInv, Toward
<1>3. PICK x \in {"mark", "release"} : Goto(a, x) /\ (x = "mark" => job = RunningJob(a))
  BY DEF Repair
<1>4. x = "mark" => a \in created'
  <2>1. a \in created \/ job # RunningJob(a)
    <3>1. RunningJob(a) \in Jobs /\ RunningJob(a).epoch = a /\ a # Other
      BY JobAssumption DEF RunningJob, Jobs
    <3> QED
      BY <3>1, NoJobAssumption DEF Inv, TypeInv, Ours
  <2> QED
    BY <1>1, <1>3, <2>1 DEF history
<1>5. Shape(a, {}) /\ pc'[a] = x
  BY <1>1, <1>3, <1>4, SameClaims, Moved DEF Inv, Open
<1> QED
  BY <1>1, <1>2, <1>5, DecidingStep DEF Silent, Deciding, Toward

LEMMA InitializeGood == ASSUME Inv, NEW a \in Attempts, Initialize(a) \/ Terminalize(a) PROVE Good(a, {})
<1>. USE PlacesAre
<1>1. pc[a] \in {"initializing", "terminalize"} /\ UNCHANGED <<claims, registers, history, faults>>
  BY DEF Initialize, Terminalize, At
<1>2. PICK x \in {"running", "release"} : Goto(a, x)
  BY DEF Initialize, Terminalize
<1>3. Shape(a, {}) /\ pc'[a] = x
  BY <1>1, <1>2, SameClaims, Moved DEF Inv, Open
<1>4. UNCHANGED job \/ EndOwn(a)
  BY DEF Initialize, Terminalize
<1>5. World
  <2>1. TypeInv
    BY DEF Inv
  <2>2. CASE UNCHANGED job
    BY <1>1, <2>1, <2>2, WorldSame DEF history
  <2>3. CASE job = RunningJob(a) /\ job' = [job EXCEPT !.running = FALSE]
    <3>1. RunningJob(a) \in Jobs /\ RunningJob(a).epoch = a /\ a # Other
      BY JobAssumption DEF RunningJob, Jobs
    <3>2. a \in created
      BY <2>1, <2>3, <3>1, NoJobAssumption DEF TypeInv, Ours
    <3>3. job' \in Jobs /\ job'.epoch = a
      BY <2>3 DEF RunningJob, Jobs
    <3>4. UNCHANGED <<created, exposed, forgotten, lapsed, faults>>
      BY <1>1 DEF history
    <3> QED
      BY <2>1, <3>2, <3>3, <3>4 DEF World, TypeInv, TypeOK, Ours
  <2> QED
    BY <1>4, <2>2, <2>3 DEF EndOwn
<1>6. OwnStart(a)'
  BY <1>1, <1>3, OwnFromDeciding DEF Inv, Silent, Deciding, Toward
<1> QED
  BY <1>1, <1>3, <1>5, <1>6, OnceElsewhere DEF Good, Inv, history, Idle, Finding

\* What is not known as started at the primary is started nowhere.
LEMMA CheckPrimaryGood == ASSUME Inv, NEW a \in Attempts, CheckPrimary(a) PROVE Good(a, {})
<1>. USE KeysAre, PlacesAre
<1>0. TypeInv
  BY DEF Inv
<1>. USE <1>0
<1>1. /\ pc[a] = "release" /\ mine[a] \in Claims /\ Told(mine[a], {})
      /\ UNCHANGED <<job, history>> /\ (NoFault \/ Fault)
  BY ClaimTypes, ToldThings DEF CheckPrimary, Fails, At
<1>2. StartedBy(a) => Began(a)
  BY <1>1 DEF Inv, StartInv, Toward, Deciding
<1>3. CASE Goto(a, "done")
  <2>1. ClaimsStep({}) /\ UNCHANGED registers
    BY <1>1, BindStep, SameClaims DEF CheckPrimary, Fails
  <2>2. Shape(a, {}) /\ pc'[a] = "done"
    BY <1>3, <2>1, Moved DEF Open
  <2> QED
    BY <1>1, <2>2, DecidingStep DEF Silent, Deciding, Toward
<1>4. CASE ~Goto(a, "done")
  <2>1. /\ Bind("primary", mine[a]) /\ UNCHANGED registers /\ Goto(a, "releasePrimary")
        /\ ~HasStarted(Bound("primary", mine[a]))
    BY <1>4 DEF CheckPrimary, Fails, Releasable
  <2>2. Shape(a, {}) /\ pc'[a] = "releasePrimary"
    BY <1>1, <2>1, BindStep, Moved DEF Open
  <2>3. ~StartedBy(a)
    BY <1>2, <2>1 DEF Bound, Free, Began, IsStartOf
  <2>4. OwnStart(a)'
    BY <2>2, <2>3, OwnFromSilent DEF Toward
  <2> QED
    BY <1>1, <2>2, <2>4, WorldSame, OnceElsewhere DEF Good, Inv, history, Idle, Finding
<1> QED
  BY <1>3, <1>4

LEMMA MarkLegacyGood == ASSUME Inv, NEW a \in Attempts, MarkLegacy(a) PROVE Good(a, {a})
<1>. USE KeysAre, PlacesAre
<1>0. TypeInv
  BY DEF Inv
<1>. USE <1>0
<1>1. /\ pc[a] = "mark" /\ UNCHANGED <<job, registers, created, forgotten, lapsed>> /\ (NoFault \/ Fault)
      /\ a \in created
  BY DEF MarkLegacy, At, TypeInv
<1>2. Began(a)
  BY <1>1 DEF Inv, StartInv, Toward
<1>3. ClaimsStep({a})
  BY MarkStep, SameClaims DEF MarkLegacy
<1>4. PICK x \in {"initializing", "confirm"} : Goto(a, x)
  BY DEF MarkLegacy
<1>5. Shape(a, {a}) /\ pc'[a] = x
  BY <1>1, <1>3, <1>4, Moved DEF Open
<1>6. \/ exposed' = exposed
      \/ exposed' = exposed \cup {a} /\ StartedKey("legacy")' /\ claims'["legacy"].started = a
  BY MarkStep DEF MarkLegacy
<1>7. World
  BY <1>1, <1>6, FaultType DEF World, TypeInv, TypeOK, Ours, StartedKey
<1>8. Began(a)'
  BY <1>2, <1>5, ShapeStarts
<1>9. OwnStart(a)'
  BY <1>5, <1>8 DEF OwnStart, Toward, Silent
<1> QED
  BY <1>1, <1>5, <1>7, <1>9, OnceElsewhere DEF Good, Inv, Idle, Finding

LEMMA ConfirmPrimaryGood == ASSUME Inv, NEW a \in Attempts, ConfirmPrimary(a) PROVE Good(a, {a})
<1>. USE KeysAre, PlacesAre
<1>0. TypeInv
  BY DEF Inv
<1>. USE <1>0
<1>1. /\ pc[a] = "confirm" /\ UNCHANGED <<job, history>> /\ (NoFault \/ Fault) /\ a \in created'
      /\ UNCHANGED <<mine, old, next>>
  BY DEF ConfirmPrimary, Fails, At, TypeInv, history, registers
<1>2. Bind("primary", Fallback(a)) \/ UNCHANGED claims
  BY DEF ConfirmPrimary, Fails
<1>3. /\ ClaimsStep({a}) /\ (StartedBy(a) => Began(a)) /\ (Began(a) => Began(a)')
      /\ (claims' # claims => Began(a)')
  BY <1>1, <1>2, FallbackStep DEF Deciding
<1>4. CASE Goto(a, "terminalize") /\ UNCHANGED new
  <2>1. Shape(a, {a}) /\ pc'[a] = "terminalize"
    BY <1>1, <1>3, <1>4, Moved DEF Open, registers
  <2>2. StartedBy(a)' => Began(a)'
    BY <1>1, <1>3, <1>4 DEF StartedBy, Began
  <2>3. OwnStart(a)'
    BY <2>1, <2>2 DEF OwnStart, Toward, Silent
  <2> QED
    BY <1>1, <2>1, <2>3, WorldSame, OnceElsewhere DEF Good, Inv, history, Idle, Finding
<1>5. CASE ~(Goto(a, "terminalize") /\ UNCHANGED new)
  <2>1. /\ ~Free("primary") /\ Proves(a, claims["primary"]) /\ Goto(a, "confirmLegacy")
        /\ Keep(new, a, claims["primary"])
    BY <1>5 DEF ConfirmPrimary, Fails, registers
  <2>2. claims["primary"] \in Claims /\ Told(claims["primary"], {a}) /\ claims["primary"].started = a
    BY <2>1, ClaimTypes, ToldThings DEF Proves
  <2>3. Shape(a, {a}) /\ pc'[a] = "confirmLegacy"
    BY <1>1, <1>3, <2>1, <2>2, KeptNew
  <2>4. Began(a)
    BY <2>1, <2>2, ClaimTypes, ClaimAssumption DEF Began, IsStartOf, HasStarted, Proves
  <2>5. OwnStart(a)'
    BY <1>3, <2>3, <2>4 DEF OwnStart, Toward, Silent
  <2> QED
    BY <1>1, <2>3, <2>5, WorldSame, OnceElsewhere DEF Good, Inv, history, Idle, Finding
<1> QED
  BY <1>4, <1>5

LEMMA ConfirmLegacyGood == ASSUME Inv, NEW a \in Attempts, ConfirmLegacy(a) PROVE Good(a, {})
<1>. USE KeysAre, PlacesAre
<1>0. TypeInv
  BY DEF Inv
<1>. USE <1>0
<1>1. /\ pc[a] = "confirmLegacy" /\ UNCHANGED <<job, registers, created, forgotten, lapsed>> /\ (NoFault \/ Fault)
      /\ new[a] \in Claims /\ Told(new[a], {}) /\ a \in created /\ new[a].started = a
  BY Reads, ToldThings DEF ConfirmLegacy, Fails, At, NewIsRead, TypeInv
<1>2. ClaimsStep({}) /\ (Bind("legacy", new[a]) => claims'["legacy"] = Bound("legacy", new[a]))
  BY <1>1, BindStep, SameClaims DEF ConfirmLegacy, Fails
<1>3. PICK x \in {"initializing", "terminalize"} : Goto(a, x)
  BY DEF ConfirmLegacy, Fails
<1>4. Shape(a, {}) /\ pc'[a] = x
  BY <1>1, <1>2, <1>3, Moved DEF Open
<1>5. \/ exposed' = exposed
      \/ exposed' = exposed \cup {a} /\ claims'["legacy"] = new[a]
  BY <1>2 DEF ConfirmLegacy, Fenced
<1>6. World
  BY <1>1, <1>5, FaultType, ClaimTypes DEF World, TypeInv, TypeOK, Ours
<1>7. OwnStart(a)'
  BY <1>1, <1>4, OwnFromDeciding DEF Inv, Silent, Deciding, Toward
<1> QED
  BY <1>1, <1>4, <1>6, <1>7, OnceElsewhere DEF Good, Inv, Idle, Finding

LEMMA FenceGood == ASSUME Inv, NEW a \in Attempts, Fence(a) PROVE Good(a, {})
<1>. USE KeysAre, PlacesAre
<1>0. TypeInv
  BY DEF Inv
<1>. USE <1>0
<1>1. /\ pc[a] = "fence" /\ UNCHANGED <<claims, job, history, faults>> /\ Synchronize(a, mine[a], new[a], "done")
      /\ new[a] \in Claims /\ Told(new[a], {}) /\ mine[a] \in Claims /\ Told(mine[a], {})
  BY Reads, ToldThings, ClaimTypes DEF Fence, At, NewIsRead
<1>2. ClaimsStep({})
  BY <1>1, SameClaims
<1>3. Shape(a, {}) /\ pc'[a] = "sync" /\ next'[a] = "done"
  BY <1>1, <1>2, Synced DEF Synchronize, Keep
<1>4. OwnStart(a)'
  BY <1>3, OwnOver DEF Toward, Silent, Deciding
<1> QED
  BY <1>1, <1>3, <1>4, WorldSame, OnceElsewhere DEF Good, Inv, history, Idle, Finding

-----------------------------------------------------------------------------
(* The steps of attempts that may run beside a generation no claim remembers *)

\* The attempt keeps to what the legacy key tells it ...
Mirroring(a) ==
  /\ claims["primary"] = NoClaim /\ pc[a] \in Idle \cup {"mirror"}
  /\ pc[a] = "mirror" => old[a] = claims["legacy"]

\* ... or to what it can do beside a running job.
Looking(a) ==
  /\ ~StartedKey("legacy") /\ pc[a] \in Idle \cup Finding
  /\ pc[a] = "mirror" => ~HasStarted(old[a])
  /\ pc[a] \in {"sync", "probe"} => ~HasStarted(new[a]) /\ next[a] = "duplicate"
  /\ pc[a] \in {"bindJob", "tombstone", "tombstoneProbe"} => HasStarted(new[a])

LEMMA OnceFinding ==
  ASSUME TypeInv, OnceInv, NEW a \in Attempts, NEW S, Shape(a, S), UNCHANGED <<job, created, forgotten>>,
         LegacyRemembers => StartedKey("primary")' \/ Mirroring(a)',
         JobRemembers => StartedKey("primary")' \/ Looking(a)'
  PROVE  OnceInv'
<1>. USE KeysAre
<1>1. \A b \in Attempts \ {a} : UNCHANGED <<pc[b], next[b], mine[b], old[b], new[b]>>
  BY DEF Shape
<1>2. \A k \in Keys : StartedKey(k) => claims'[k] = claims[k]
  BY DEF Shape, ClaimsStep
<1>3. LegacyRemembers => StartedKey("primary")' \/ LegacyRemembers'
  BY <1>1, <1>2 DEF LegacyRemembers, Mirroring, StartedKey
<1>4. JobRemembers => StartedKey("primary")' \/ JobRemembers'
  BY <1>1 DEF JobRemembers, Looking, Ours, Running
<1>5. StartedKey("primary") => StartedKey("primary")'
  BY <1>2 DEF StartedKey
<1> QED
  BY <1>3, <1>4, <1>5 DEF OnceInv

\* At each such place one of the two cannot be, or leads on.
LEMMA WhereTheyAre ==
  ASSUME NEW a \in Attempts
  PROVE  /\ LegacyRemembers => Mirroring(a) /\ StartedKey("legacy")
         /\ JobRemembers => Looking(a) /\ Ours /\ Running
BY DEF LegacyRemembers, JobRemembers, Mirroring, Looking

LEMMA ClaimLegacyGood == ASSUME Inv, NEW a \in Attempts, ClaimLegacy(a) PROVE Good(a, {})
<1>. USE KeysAre, PlacesAre
<1>0. TypeInv
  BY DEF Inv
<1>. USE <1>0
<1>1. /\ pc[a] = "idle" /\ UNCHANGED <<job, history>> /\ (NoFault \/ Fault)
      /\ mine[a] \in Claims /\ Told(mine[a], {}) /\ ~HasStarted(mine[a]) /\ ~StartedBy(a)
  BY ClaimTypes, ToldThings DEF ClaimLegacy, Fails, At, Inv, StartInv, Toward, Silent
<1>2. /\ ClaimsStep({})
      /\ claims' = claims \/ claims'["legacy"] = Bound("legacy", mine[a])
      /\ claims'["primary"] = claims["primary"]
  BY <1>1, BindStep, SameClaims DEF ClaimLegacy, Fails
<1>3. CASE Goto(a, "done") /\ UNCHANGED registers
  <2>1. Shape(a, {}) /\ pc'[a] = "done"
    BY <1>2, <1>3, Moved DEF Open
  <2>2. OwnStart(a)'
    BY <2>1, OwnOver DEF Toward, Silent, Deciding
  <2>3. OnceInv'
    <3>1. LegacyRemembers => Mirroring(a)'
      BY <1>2, <2>1, WhereTheyAre DEF Mirroring, Idle
    <3>2. JobRemembers => Looking(a)'
      BY <1>1, <1>2, <2>1, WhereTheyAre DEF Looking, Idle, StartedKey, Bound
    <3> QED
      BY <1>1, <2>1, <3>1, <3>2, OnceFinding DEF Inv, history
  <2> QED
    BY <1>1, <2>1, <2>2, <2>3, WorldSame DEF Good
<1>4. CASE ~(Goto(a, "done") /\ UNCHANGED registers)
  <2>1. /\ Bind("legacy", mine[a]) /\ Keep(old, a, claims["legacy"]) /\ UNCHANGED <<mine, new, next>>
        /\ Goto(a, IF Free("legacy") THEN "bind" ELSE "mirror")
    BY <1>4 DEF ClaimLegacy, Fails
  <2>2. PICK x \in {"bind", "mirror"} : Goto(a, x) /\ x = IF Free("legacy") THEN "bind" ELSE "mirror"
    BY <2>1
  <2>3. Told(claims["legacy"], {}) /\ claims["legacy"] \in Claims \cup {NoClaim}
        /\ (x = "mirror" => claims["legacy"] \in Claims)
    BY <2>2, ToldThings, ClaimTypes
  <2>4. Shape(a, {}) /\ pc'[a] = x
    BY <1>2, <2>1, <2>2, <2>3, KeptOld
  <2>5. old'[a] = claims["legacy"]
    BY <2>1 DEF Keep, TypeInv, TypeOK
  <2>6. OwnStart(a)'
    BY <1>1, <2>4, OwnFromSilent DEF Toward
  <2>7. OnceInv'
    <3>1. LegacyRemembers => Mirroring(a)'
      BY <1>2, <2>2, <2>4, <2>5, WhereTheyAre DEF Mirroring, StartedKey, Free, Bound
    <3>2. JobRemembers => Looking(a)'
      BY <1>1, <1>2, <2>2, <2>4, <2>5, WhereTheyAre DEF Looking, Finding, StartedKey, Bound, Free
    <3> QED
      BY <1>1, <2>4, <3>1, <3>2, OnceFinding DEF Inv, history
  <2> QED
    BY <1>1, <2>4, <2>6, <2>7, WorldSame DEF Good
<1> QED
  BY <1>3, <1>4

LEMMA BindPrimaryGood == ASSUME Inv, NEW a \in Attempts, BindPrimary(a) PROVE Good(a, {})
<1>. USE KeysAre, PlacesAre
<1>0. TypeInv
  BY DEF Inv
<1>. USE <1>0
<1>1. /\ pc[a] = "bind" /\ UNCHANGED <<job, history>> /\ (NoFault \/ Fault)
      /\ mine[a] \in Claims /\ Told(mine[a], {}) /\ ~StartedBy(a)
  BY ClaimTypes, ToldThings DEF BindPrimary, Fails, At, Inv, StartInv, Toward, Silent
<1>2. ClaimsStep({}) /\ claims'["legacy"] = claims["legacy"] /\ (~Free("primary") => claims'["primary"] = claims["primary"])
  BY <1>1, BindStep, SameClaims DEF BindPrimary, Fails, Bound
<1>3. \/ /\ ~Free("primary") /\ Goto(a, "sync") /\ Keep(old, a, mine[a]) /\ Keep(new, a, claims["primary"])
         /\ Keep(next, a, "duplicate") /\ UNCHANGED mine
      \/ \E x \in {"adopt", "done"} : Goto(a, x) /\ UNCHANGED registers
  <2>1. CASE Fails(a, Bind("primary", mine[a]), "done")
    BY <2>1 DEF Fails
  <2>2. CASE ~Fails(a, Bind("primary", mine[a]), "done")
    <3>1. CASE Free("primary")
      BY <2>2, <3>1 DEF BindPrimary
    <3>2. CASE ~Free("primary")
      BY <2>2, <3>2 DEF BindPrimary, Synchronize, Keep
    <3> QED
      BY <3>1, <3>2
  <2> QED
    BY <2>1, <2>2
<1>4. /\ Shape(a, {}) /\ pc'[a] \in {"sync", "adopt", "done"}
      /\ pc'[a] = "sync" => next'[a] = "duplicate" /\ ~Free("primary") /\ new'[a] = claims["primary"]
  <2>1. CASE /\ ~Free("primary") /\ Goto(a, "sync") /\ Keep(old, a, mine[a]) /\ Keep(new, a, claims["primary"])
             /\ Keep(next, a, "duplicate") /\ UNCHANGED mine
    <3>1. claims["primary"] \in Claims /\ Told(claims["primary"], {})
      BY <2>1, ClaimTypes, ToldThings
    <3>2. Shape(a, {}) /\ pc'[a] = "sync" /\ next'[a] = "duplicate" /\ new'[a] = claims["primary"]
      BY <1>1, <1>2, <2>1, <3>1, Synced
    <3> QED
      BY <2>1, <3>2
  <2>2. ASSUME NEW x \in {"adopt", "done"}, Goto(a, x), UNCHANGED registers
        PROVE  Shape(a, {}) /\ pc'[a] = x
    BY <1>2, <2>2, Moved DEF Open
  <2> QED
    BY <1>3, <2>1, <2>2
<1>5. OwnStart(a)'
  BY <1>1, <1>4, OwnFromSilent DEF Toward
<1>6. ~LegacyRemembers
  BY <1>1, WhereTheyAre DEF Mirroring, Idle
<1>7. JobRemembers => StartedKey("primary")' \/ Looking(a)'
  BY <1>2, <1>4, WhereTheyAre DEF Looking, Idle, Finding, StartedKey, Free
<1>8. OnceInv'
  BY <1>1, <1>4, <1>6, <1>7, OnceFinding DEF Inv, history
<1> QED
  BY <1>1, <1>4, <1>5, <1>8, WorldSame DEF Good

LEMMA MirrorPrimaryGood == ASSUME Inv, NEW a \in Attempts, MirrorPrimary(a) PROVE Good(a, {})
<1>. USE KeysAre, PlacesAre
<1>0. TypeInv
  BY DEF Inv
<1>. USE <1>0
<1>1. /\ pc[a] = "mirror" /\ UNCHANGED <<job, history>> /\ (NoFault \/ Fault)
      /\ old[a] \in Claims /\ Told(old[a], {}) /\ ~StartedBy(a)
  BY Reads, ToldThings DEF MirrorPrimary, Fails, At, OldIsRead, Inv, StartInv, Toward, Silent
<1>. DEFINE primary == Bound("primary", old[a])
<1>2. /\ ClaimsStep({}) /\ claims'["legacy"] = claims["legacy"]
      /\ claims' = claims \/ claims'["primary"] = primary
      /\ primary \in Claims /\ Told(primary, {})
  BY <1>1, BindStep, SameClaims, ClaimTypes, ToldThings DEF MirrorPrimary, Fails, Bound, Free
<1>3. \/ claims'["primary"] = primary /\ Synchronize(a, old[a], primary, "duplicate")
      \/ claims'["primary"] = primary /\ Keep(new, a, primary) /\ UNCHANGED <<mine, old, next>>
           /\ \E x \in {"duplicate", "done"} : Goto(a, x)
      \/ Goto(a, "done") /\ UNCHANGED registers
  BY <1>1, BindStep DEF MirrorPrimary, Fails
<1>. HIDE DEF primary
<1>4. /\ Shape(a, {}) /\ pc'[a] \in {"sync", "duplicate", "done"}
      /\ pc'[a] = "sync" => next'[a] = "duplicate" /\ new'[a] = primary /\ claims'["primary"] = primary
  <2>1. CASE claims'["primary"] = primary /\ Synchronize(a, old[a], primary, "duplicate")
    <3>1. /\ Goto(a, "sync") /\ Keep(old, a, old[a]) /\ Keep(new, a, primary) /\ Keep(next, a, "duplicate")
          /\ UNCHANGED mine
      BY <2>1 DEF Synchronize, Keep
    <3>2. Shape(a, {}) /\ pc'[a] = "sync" /\ next'[a] = "duplicate" /\ new'[a] = primary
      BY <1>1, <1>2, <3>1, Synced
    <3> QED
      BY <2>1, <3>2
  <2>2. ASSUME NEW x \in {"duplicate", "done"}, Goto(a, x), Keep(new, a, primary), UNCHANGED <<mine, old, next>>
        PROVE  Shape(a, {}) /\ pc'[a] = x
    BY <1>2, <2>2, KeptNew
  <2>3. CASE Goto(a, "done") /\ UNCHANGED registers
    BY <1>2, <2>3, Moved DEF Open
  <2> QED
    BY <1>3, <2>1, <2>2, <2>3
<1>5. OwnStart(a)'
  BY <1>1, <1>4, OwnFromSilent DEF Toward
<1>6. LegacyRemembers => StartedKey("primary")' \/ Mirroring(a)'
  <2>. SUFFICES ASSUME LegacyRemembers PROVE StartedKey("primary")' \/ Mirroring(a)'
    OBVIOUS
  <2>1. claims["primary"] = NoClaim /\ old[a] = claims["legacy"] /\ HasStarted(old[a]) /\ primary = old[a]
    BY <1>1, WhereTheyAre DEF Mirroring, StartedKey, primary, Bound, Free
  <2>2. CASE claims'["primary"] = primary
    BY <1>1, <2>1, <2>2, ClaimTypes DEF StartedKey
  <2>3. CASE claims' = claims /\ Goto(a, "done") /\ UNCHANGED registers
    <3>1. pc'[a] = "done"
      BY <1>2, <2>3, Moved DEF Open
    <3> QED
      BY <2>1, <2>3, <3>1 DEF Mirroring, Idle
  <2> QED
    BY <1>2, <1>3, <2>2, <2>3
<1>7. JobRemembers => StartedKey("primary")' \/ Looking(a)'
  BY <1>2, <1>4, WhereTheyAre, ClaimTypes DEF Looking, Idle, Finding, StartedKey
<1>8. OnceInv'
  BY <1>1, <1>4, <1>6, <1>7, OnceFinding DEF Inv, history
<1> QED
  BY <1>1, <1>4, <1>5, <1>8, WorldSame DEF Good

\* Synchronising or given up, an attempt is as certain of its start as where it leads.
LEMMA SyncOwn ==
  ASSUME TypeInv, StartInv, NEW a \in Attempts, Shape(a, {}), pc[a] \in {"sync", "probe"}, next[a] \in Goals,
         next'[a] = next[a],
         \/ pc'[a] \in {next[a], "probe"}
         \/ pc'[a] = IF next[a] \in {"repair", "terminalize"} THEN "terminalize" ELSE "done"
  PROVE  OwnStart(a)'
<1>1. CASE next[a] \in {"duplicate", "admit"}
  <2>1. ~StartedBy(a)
    BY <1>1 DEF StartInv, Toward, Silent
  <2> QED
    BY <1>1, <2>1, OwnFromSilent DEF Toward
<1>2. CASE next[a] \in {"repair", "terminalize"}
  <2>1. Toward(a, Deciding) /\ (next[a] = "repair" => Began(a))
    BY <1>2 DEF StartInv, Toward, Deciding
  <2> QED
    BY <1>2, <2>1, OwnFromDeciding DEF Toward, Silent
<1>3. CASE next[a] = "done"
  BY <1>3, OwnOver DEF Toward, Silent, Deciding
<1> QED
  BY <1>1, <1>2, <1>3 DEF Goals

\* The legacy key is compared; an attempt that goes on keeps what it has read.
LEMMA SyncGood == ASSUME Inv, NEW a \in Attempts, Sync(a) PROVE Good(a, {})
<1>. USE KeysAre, PlacesAre
<1>0. TypeInv
  BY DEF Inv
<1>. USE <1>0
<1>1. /\ pc[a] = "sync" /\ UNCHANGED <<job, history>> /\ next[a] \in Goals
      /\ new[a] \in Claims /\ Told(new[a], {})
  BY Reads, ToldThings, KeepSame DEF Sync, At, NewIsRead
<1>2. Takes(a, "legacy", old[a], new[a], next[a], "probe", "probe")
  BY DEF Sync
<1>3. Open(a, next[a]) /\ Open(a, "probe")
  BY <1>1 DEF Goals, Open
<1>4. /\ Shape(a, {}) /\ pc'[a] \in {next[a], "probe"} /\ next'[a] = next[a] /\ (NoFault \/ Fault)
      /\ claims' = claims \/ claims'["legacy"] = new[a]
  BY <1>1, <1>2, <1>3, Taken
<1>9. UNCHANGED new
  BY <1>2 DEF Takes, registers
<1>5. OwnStart(a)'
  BY <1>1, <1>4, SyncOwn DEF Inv
<1>6. ~LegacyRemembers
  BY <1>1, WhereTheyAre DEF Mirroring, Idle
<1>7. JobRemembers => Looking(a)'
  BY <1>1, <1>4, <1>9, WhereTheyAre DEF Looking, Idle, Finding, StartedKey
<1>8. OnceInv'
  BY <1>1, <1>4, <1>6, <1>7, OnceFinding DEF Inv, history
<1> QED
  BY <1>1, <1>4, <1>5, <1>8, WorldSame DEF Good

LEMMA ProbeGood == ASSUME Inv, NEW a \in Attempts, Probe(a) PROVE Good(a, {})
<1>. USE KeysAre, PlacesAre
<1>0. TypeInv
  BY DEF Inv
<1>. USE <1>0
<1>1. /\ pc[a] = "probe" /\ UNCHANGED <<job, history>> /\ (NoFault \/ Fault) /\ next[a] \in Goals
      /\ new[a] \in Claims /\ Told(new[a], {})
  BY Reads, ToldThings, KeepSame DEF Probe, Fails, At, NewIsRead
<1>2. /\ ClaimsStep({})
      /\ claims' = claims \/ claims'["legacy"] = Bound("legacy", new[a])
  BY <1>1, BindStep, SameClaims DEF Probe, Fails
<1>3. UNCHANGED registers
  BY DEF Probe, Fails
<1>4. PICK x \in {next[a], GivesUp(a)} : Goto(a, x)
  BY DEF Probe, Fails
<1>5. GivesUp(a) = (IF next[a] \in {"repair", "terminalize"} THEN "terminalize" ELSE "done")
  BY DEF GivesUp
<1>6. Open(a, x)
  BY <1>1, <1>5 DEF Goals, Open
<1>7. Shape(a, {}) /\ pc'[a] = x /\ next'[a] = next[a]
  BY <1>2, <1>3, <1>4, <1>6, Moved
<1>12. UNCHANGED new
  BY <1>3 DEF registers
<1>8. OwnStart(a)'
  BY <1>1, <1>4, <1>5, <1>7, SyncOwn DEF Inv
<1>9. ~LegacyRemembers
  BY <1>1, WhereTheyAre DEF Mirroring, Idle
<1>10. JobRemembers => Looking(a)'
  BY <1>1, <1>2, <1>5, <1>7, <1>12, WhereTheyAre DEF Looking, Idle, Finding, StartedKey, Bound
<1>11. OnceInv'
  BY <1>1, <1>7, <1>9, <1>10, OnceFinding DEF Inv, history
<1> QED
  BY <1>1, <1>7, <1>8, <1>11, WorldSame DEF Good

LEMMA AnswerGood == ASSUME Inv, NEW a \in Attempts, Answer(a) PROVE Good(a, {})
<1>. USE KeysAre, PlacesAre
<1>0. TypeInv
  BY DEF Inv
<1>. USE <1>0
<1>1. /\ pc[a] = "duplicate" /\ UNCHANGED <<claims, job, registers, history, faults>>
      /\ new[a] \in Claims /\ ~StartedBy(a)
  BY Reads DEF Answer, At, NewIsRead, Inv, StartInv, Toward, Silent
<1>2. PICK x \in {"done", "expect"} : Goto(a, x) /\ (x = "expect" => job = NoJob)
  BY DEF Answer
<1>3. Shape(a, {}) /\ pc'[a] = x
  BY <1>1, <1>2, SameClaims, Moved DEF Open
<1>4. OwnStart(a)'
  BY <1>1, <1>3, OwnFromSilent DEF Toward
<1>5. ~LegacyRemembers
  BY <1>1, WhereTheyAre DEF Mirroring, Idle
<1>6. JobRemembers => Looking(a)'
  BY <1>1, <1>2, <1>3, WhereTheyAre DEF Looking, Idle, Finding, StartedKey, Ours
<1>7. OnceInv'
  BY <1>1, <1>3, <1>5, <1>6, OnceFinding DEF Inv, history
<1> QED
  BY <1>1, <1>3, <1>4, <1>7, WorldSame DEF Good

\* The job that is running is found: the claim is started by the attempt that
\* created it.
LEMMA FindJobGood == ASSUME Inv, NEW a \in Attempts, FindJob(a) PROVE Good(a, {a})
<1>. USE KeysAre, PlacesAre
<1>0. TypeInv
  BY DEF Inv
<1>. USE <1>0
<1>1. /\ pc[a] = "adopt" /\ UNCHANGED <<claims, job, mine, old, next, history>> /\ (NoFault \/ Fault)
      /\ mine[a] \in Claims /\ mine[a].token[1] = a /\ ~StartedBy(a)
  BY ClaimTypes DEF FindJob, At, Inv, StartInv, Toward, Silent
<1>2. ClaimsStep({a})
  BY <1>1, SameClaims
<1>3. ~LegacyRemembers
  BY <1>1, WhereTheyAre DEF Mirroring, Idle
<1>4. CASE UNCHANGED new
  <2>1. PICK x \in {"admit", "done"} : Goto(a, x) /\ (JobRemembers => x = "done")
    <3>1. ~(Ours /\ Running) \/ ~UNCHANGED new \/ Goto(a, "done")
      <4>1. ASSUME Ours, Running, UNCHANGED new, ~Goto(a, "done") PROVE FALSE
        <5>1. Goto(a, "bindJob") /\ Keep(new, a, Started(mine[a], job.epoch))
          BY <4>1 DEF FindJob
        <5>2. job.epoch \in Attempts
          BY <4>1 DEF TypeInv, TypeOK
        <5>3. new'[a] = Started(mine[a], job.epoch) /\ IsStartOf(new'[a], a)
          BY <1>1, <5>1, <5>2, StartedType, ClaimTypes DEF Keep, TypeInv, TypeOK, IsStartOf
        <5> QED
          BY <1>1, <4>1, <5>3 DEF StartedBy
      <4> QED
        BY <4>1
    <3> QED
      BY <1>4, <3>1, WhereTheyAre DEF FindJob
  <2>2. Shape(a, {a}) /\ pc'[a] = x
    BY <1>1, <1>2, <1>4, <2>1, Moved DEF Open, registers
  <2>3. ~StartedBy(a)'
    BY <1>1, <1>4 DEF StartedBy
  <2>4. OwnStart(a)'
    BY <2>2, <2>3 DEF OwnStart, Toward
  <2>5. JobRemembers => Looking(a)'
    BY <1>1, <2>1, <2>2, WhereTheyAre DEF Looking, Idle, StartedKey
  <2>6. OnceInv'
    BY <1>1, <1>3, <2>2, <2>5, OnceFinding DEF Inv, history
  <2> QED
    BY <1>1, <2>2, <2>4, <2>6, WorldSame DEF Good
<1>5. CASE ~UNCHANGED new
  <2>. DEFINE claim == Started(mine[a], job.epoch)
  <2>1. Ours /\ Goto(a, "bindJob") /\ Keep(new, a, claim)
    BY <1>5 DEF FindJob
  <2>2. job.epoch \in Attempts
    BY <2>1 DEF TypeInv, TypeOK
  <2>3. claim \in Claims /\ HasStarted(claim) /\ claim.token[1] = a
    BY <1>1, <2>2, StartedType
  <2>4. Told(claim, {a})
    BY <2>3, ToldThings
  <2>. HIDE DEF claim
  <2>5. Shape(a, {a}) /\ pc'[a] = "bindJob" /\ new'[a] = claim
    BY <1>1, <1>2, <2>1, <2>3, <2>4, KeptNew
  <2>6. OwnStart(a)'
    BY <2>5, OwnOver DEF Toward, Silent, Deciding
  <2>7. JobRemembers => Looking(a)'
    BY <1>1, <2>3, <2>5, WhereTheyAre DEF Looking, Finding, StartedKey
  <2>8. OnceInv'
    BY <1>1, <1>3, <2>5, <2>7, OnceFinding DEF Inv, history
  <2> QED
    BY <1>1, <2>5, <2>6, <2>8, WorldSame DEF Good
<1> QED
  BY <1>4, <1>5

\* The binding of a claim to the job it found: the primary says so, or the claim
\* is to be made a tombstone.
LEMMA BindJobGood == ASSUME Inv, NEW a \in Attempts, BindJob(a) PROVE Good(a, {})
<1>. USE KeysAre, PlacesAre
<1>0. TypeInv
  BY DEF Inv
<1>. USE <1>0
<1>1. /\ pc[a] = "bindJob" /\ UNCHANGED <<job, history>> /\ (NoFault \/ Fault)
      /\ new[a] \in Claims /\ Told(new[a], {}) /\ mine[a] \in Claims /\ Told(mine[a], {})
  BY Reads, ToldThings, ClaimTypes DEF BindJob, Fails, At, NewIsRead
<1>2. /\ ClaimsStep({}) /\ claims'["legacy"] = claims["legacy"]
      /\ claims' = claims \/ claims'["primary"] = new[a]
  <2>1. \/ claims' = claims
        \/ ~StartedKey("primary") /\ Replace("primary", new[a])
    BY DEF BindJob, Fails, Adopts, Takeable, StartedKey
  <2> QED
    BY <1>1, <2>1, SameClaims, ReplaceStep
<1>3. \/ /\ claims' # claims /\ Goto(a, "sync") /\ Keep(old, a, mine[a]) /\ Keep(new, a, new[a])
         /\ Keep(next, a, "done") /\ UNCHANGED mine
      \/ Goto(a, "tombstone") /\ UNCHANGED registers
  BY DEF BindJob, Fails, Synchronize, Keep
<1>4. /\ Shape(a, {}) /\ UNCHANGED new
      /\ \/ pc'[a] = "tombstone"
         \/ claims' # claims /\ pc'[a] = "sync" /\ next'[a] = "done"
  <2>1. CASE /\ claims' # claims /\ Goto(a, "sync") /\ Keep(old, a, mine[a]) /\ Keep(new, a, new[a])
             /\ Keep(next, a, "done") /\ UNCHANGED mine
    <3>1. Shape(a, {}) /\ pc'[a] = "sync" /\ next'[a] = "done"
      BY <1>1, <1>2, <2>1, Synced
    <3>2. UNCHANGED new
      BY <2>1 DEF Keep, TypeInv, TypeOK
    <3> QED
      BY <2>1, <3>1, <3>2
  <2>2. CASE Goto(a, "tombstone") /\ UNCHANGED registers
    <3>1. Shape(a, {}) /\ pc'[a] = "tombstone"
      BY <1>1, <1>2, <2>2, Moved DEF Open
    <3> QED
      BY <2>2, <3>1 DEF registers
  <2> QED
    BY <1>3, <2>1, <2>2
<1>5. OwnStart(a)'
  BY <1>4, OwnOver DEF Toward, Silent, Deciding
<1>6. ~LegacyRemembers
  BY <1>1, WhereTheyAre DEF Mirroring, Idle
<1>7. JobRemembers => StartedKey("primary")' \/ Looking(a)'
  <2>. SUFFICES ASSUME JobRemembers PROVE StartedKey("primary")' \/ Looking(a)'
    OBVIOUS
  <2>1. ~StartedKey("legacy") /\ HasStarted(new[a])
    BY <1>1, WhereTheyAre DEF Looking
  <2>2. CASE claims' # claims
    BY <1>1, <1>2, <2>1, <2>2, ClaimTypes DEF StartedKey
  <2>3. CASE pc'[a] = "tombstone"
    BY <1>2, <1>4, <2>1, <2>3 DEF Looking, Finding, StartedKey
  <2> QED
    BY <1>4, <2>2, <2>3
<1>8. OnceInv'
  BY <1>1, <1>4, <1>6, <1>7, OnceFinding DEF Inv, history
<1> QED
  BY <1>1, <1>4, <1>5, <1>8, WorldSame DEF Good

LEMMA TombstoneGood == ASSUME Inv, NEW a \in Attempts, Tombstone(a) PROVE Good(a, {})
<1>. USE KeysAre, PlacesAre
<1>0. TypeInv
  BY DEF Inv
<1>. USE <1>0
<1>1. /\ pc[a] = "tombstone" /\ UNCHANGED <<job, history>> /\ new[a] \in Claims /\ Told(new[a], {})
  BY Reads, ToldThings DEF Tombstone, At, NewIsRead
<1>2. Takes(a, "primary", mine[a], new[a], "fence", "tombstoneProbe", "tombstoneProbe")
  BY DEF Tombstone
<1>3. Open(a, "fence") /\ Open(a, "tombstoneProbe")
  BY <1>1 DEF Open
<1>4. /\ Shape(a, {}) /\ pc'[a] \in {"fence", "tombstoneProbe"} /\ (NoFault \/ Fault)
      /\ claims'["legacy"] = claims["legacy"]
      /\ pc'[a] = "fence" => claims'["primary"] = new[a]
  BY <1>1, <1>2, <1>3, Taken
<1>9. UNCHANGED new
  BY <1>2 DEF Takes, registers
<1>5. OwnStart(a)'
  BY <1>4, OwnOver DEF Toward, Silent, Deciding
<1>6. ~LegacyRemembers
  BY <1>1, WhereTheyAre DEF Mirroring, Idle
<1>7. JobRemembers => StartedKey("primary")' \/ Looking(a)'
  BY <1>1, <1>4, <1>9, WhereTheyAre, ClaimTypes DEF Looking, Finding, StartedKey
<1>8. OnceInv'
  BY <1>1, <1>4, <1>6, <1>7, OnceFinding DEF Inv, history
<1> QED
  BY <1>1, <1>4, <1>5, <1>8, WorldSame DEF Good

LEMMA TombstoneProbeGood == ASSUME Inv, NEW a \in Attempts, TombstoneProbe(a) PROVE Good(a, {})
<1>. USE KeysAre, PlacesAre
<1>0. TypeInv
  BY DEF Inv
<1>. USE <1>0
<1>1. /\ pc[a] = "tombstoneProbe" /\ UNCHANGED <<job, history>> /\ (NoFault \/ Fault)
      /\ new[a] \in Claims /\ Told(new[a], {})
  BY Reads, ToldThings DEF TombstoneProbe, Fails, At, NewIsRead
<1>2. /\ ClaimsStep({}) /\ claims'["legacy"] = claims["legacy"]
      /\ Bind("primary", new[a]) => claims'["primary"] = Bound("primary", new[a])
  BY <1>1, BindStep, SameClaims DEF TombstoneProbe, Fails
<1>3. UNCHANGED registers
  BY DEF TombstoneProbe, Fails
<1>4. PICK x \in {"fence", "done"} : Goto(a, x) /\ (x = "fence" => claims'["primary"] = new[a])
  BY <1>2 DEF TombstoneProbe, Fails
<1>5. Shape(a, {}) /\ pc'[a] = x
  BY <1>1, <1>2, <1>3, <1>4, Moved DEF Open
<1>6. OwnStart(a)'
  BY <1>5, OwnOver DEF Toward, Silent, Deciding
<1>7. ~LegacyRemembers
  BY <1>1, WhereTheyAre DEF Mirroring, Idle
<1>8. JobRemembers => StartedKey("primary")' \/ Looking(a)'
  BY <1>1, <1>2, <1>4, <1>5, WhereTheyAre, ClaimTypes DEF Looking, Idle, Finding, StartedKey
<1>9. OnceInv'
  BY <1>1, <1>5, <1>7, <1>8, OnceFinding DEF Inv, history
<1> QED
  BY <1>1, <1>5, <1>6, <1>9, WorldSame DEF Good

LEMMA CrashGood == ASSUME Inv, NEW a \in Attempts, Crash(a) PROVE Good(a, {})
<1>. USE PlacesAre
<1>0. TypeInv
  BY DEF Inv
<1>. USE <1>0
<1>1. Goto(a, "done") /\ Fault /\ UNCHANGED <<claims, job, registers, history>>
  BY DEF Crash
<1>2. Shape(a, {}) /\ pc'[a] = "done"
  BY <1>1, SameClaims, Moved DEF Open
<1>3. OwnStart(a)'
  BY <1>2, OwnOver DEF Toward, Silent, Deciding
<1>4. LegacyRemembers => Mirroring(a)'
  BY <1>1, <1>2, WhereTheyAre DEF Mirroring, Idle
<1>5. JobRemembers => Looking(a)'
  BY <1>1, <1>2, WhereTheyAre DEF Looking, Idle, StartedKey
<1>6. OnceInv'
  BY <1>1, <1>2, <1>4, <1>5, OnceFinding DEF Inv, history
<1> QED
  BY <1>1, <1>2, <1>3, <1>6, WorldSame DEF Good

-----------------------------------------------------------------------------
(* The steps of the environment *)

LEMMA StartsSame ==
  ASSUME StartInv, UNCHANGED <<claims, pc, registers>>
  PROVE  StartInv'
BY DEF StartInv, StartedBy, Began, Toward, registers

LEMMA TypeSame ==
  ASSUME TypeInv, UNCHANGED <<claims, pc, registers, created, exposed, lapsed, faults>>,
         forgotten' \in BOOLEAN, job' \in Jobs \cup {NoJob}, (Ours => job.epoch \in created)'
  PROVE  TypeInv'
BY DEF TypeInv, TypeOK, registers

LEMMA Remembered ==
  Remembers <=> StartedKey("legacy") \/ StartedKey("primary")
BY KeysAre DEF Remembers, StartedKey, Free

LEMMA ExpireKeeps == ASSUME Inv, NEW k \in Keys, Expire(k) PROVE Inv'
<1>. USE KeysAre
<1>0. TypeInv
  BY DEF Inv
<1>1. /\ claims' \in [Keys -> Claims \cup {NoClaim}] /\ claims'[k] = NoClaim
      /\ \A l \in Keys \ {k} : claims'[l] = claims[l]
  BY <1>0 DEF Expire, Replace, TypeInv, TypeOK
<1>2. UNCHANGED <<job, pc, registers, created, exposed, faults>> /\ Quiet
  BY DEF Expire
<1>3. \A a \in Attempts : pc[a] \in Idle
  BY <1>2 DEF Quiet
<1>4. lapsed' = (lapsed \/ k = "legacy") /\ forgotten' \in BOOLEAN
  BY DEF Expire, Forget
<1>5. TypeInv'
  BY <1>0, <1>1, <1>2, <1>4 DEF TypeInv, TypeOK, registers, Ours
<1>6. StartInv'
  <2>. SUFFICES ASSUME NEW a \in Attempts PROVE OwnStart(a)'
    BY DEF StartInv, OwnStart
  <2>1. pc'[a] \in Idle /\ ~Toward(a, Deciding)' /\ (Toward(a, Silent)' => Toward(a, Silent))
    BY <1>2, <1>3 DEF Idle, Toward, Silent, Deciding, registers
  <2>2. ~Toward(a, {"mark", "proveLegacy", "repair"})'
    BY <2>1 DEF Idle, Toward
  <2>3. StartedBy(a)' => StartedBy(a)
    BY <1>1, <1>2 DEF StartedBy, IsStartOf, registers
  <2> QED
    BY <2>1, <2>2, <2>3 DEF Inv, StartInv, OwnStart
<1>7. OnceInv'
  <2>. SUFFICES ASSUME ~forgotten'
                PROVE  /\ \A a, b \in created : a = b
                       /\ created # {} => (StartedKey("primary") \/ LegacyRemembers \/ JobRemembers)'
    BY <1>2 DEF OnceInv
  <2>1. ~forgotten /\ (\A a, b \in created : a = b)
    BY DEF Expire, Forget, Inv, OnceInv
  <2>2. ASSUME created # {}
        PROVE  (StartedKey("primary") \/ LegacyRemembers \/ JobRemembers)'
    <3>1. (Ours /\ Running) \/ \E l \in Keys \ {k} : StartedKey(l)
      BY <2>2 DEF Expire, Forget, StartedKey, Free
    <3>2. CASE StartedKey("primary")'
      BY <3>2
    <3>3. CASE ~StartedKey("primary")' /\ StartedKey("legacy")'
      <4>1. k = "primary"
        <5>1. CASE k = "legacy"
          BY <1>1, <3>3, <5>1 DEF StartedKey
        <5> QED
          BY <5>1
      <4> QED
        BY <1>1, <1>2, <1>3, <3>3, <4>1 DEF LegacyRemembers, Idle
    <3>4. CASE ~StartedKey("primary")' /\ ~StartedKey("legacy")'
      <4>1. Ours /\ Running
        BY <1>1, <3>1, <3>4 DEF StartedKey
      <4> QED
        BY <1>2, <1>3, <3>4, <4>1 DEF JobRemembers, Idle, Ours, Running
    <3> QED
      BY <3>2, <3>3, <3>4
  <2> QED
    BY <2>1, <2>2
<1>8. RunIsFenced'
  BY <1>1, <1>2, <1>4 DEF Inv, RunIsFenced, Free
<1> QED
  BY <1>5, <1>6, <1>7, <1>8 DEF Inv

LEMMA JobStepKeeps ==
  ASSUME Inv, UNCHANGED <<claims, pc, registers, created, exposed, lapsed, faults>>,
         forgotten' \in BOOLEAN, forgotten => forgotten', job' \in Jobs \cup {NoJob}, (Ours => job.epoch \in created)',
         \/ ~(Ours /\ Running)
         \/ forgotten' = (forgotten \/ (created # {} /\ ~Remembers))
  PROVE  Inv'
<1>1. TypeInv' /\ StartInv'
  BY TypeSame, StartsSame DEF Inv
<1>2. RunIsFenced'
  BY DEF Inv, RunIsFenced, Free
<1>3. OnceInv'
  <2>1. LegacyRemembers => LegacyRemembers'
    BY DEF LegacyRemembers, StartedKey, registers
  <2>2. StartedKey("primary") => StartedKey("primary")'
    BY DEF StartedKey
  <2>3. JobRemembers /\ ~forgotten' /\ created # {} => StartedKey("primary")
    BY Remembered DEF JobRemembers
  <2> QED
    BY <2>1, <2>2, <2>3 DEF Inv, OnceInv
<1> QED
  BY <1>1, <1>2, <1>3 DEF Inv

LEMMA EndJobKeeps == ASSUME Inv, EndJob PROVE Inv'
<1>1. /\ UNCHANGED <<claims, pc, registers, created, exposed, lapsed, faults>>
      /\ Running /\ job' = [job EXCEPT !.running = FALSE]
      /\ forgotten' = (forgotten \/ (created # {} /\ Ours /\ ~Remembers))
  BY DEF EndJob, Forget
<1>2. job \in Jobs
  BY <1>1 DEF Running, Inv, TypeInv, TypeOK
<1>3. job' \in Jobs /\ job'.epoch = job.epoch
  BY <1>1, <1>2 DEF Jobs
<1>4. (Ours => job.epoch \in created)'
  BY <1>1, <1>2, <1>3 DEF Ours, Running, Inv, TypeInv
<1>5. forgotten' \in BOOLEAN /\ (forgotten => forgotten')
  BY <1>1
<1> QED
  BY <1>1, <1>3, <1>4, <1>5, JobStepKeeps

LEMMA RemoveJobKeeps == ASSUME Inv, RemoveJob PROVE Inv'
<1>1. UNCHANGED <<claims, pc, registers, history, faults>> /\ ~Running /\ job' = NoJob
  BY DEF RemoveJob
<1>2. forgotten' \in BOOLEAN /\ (forgotten => forgotten') /\ UNCHANGED <<created, exposed, lapsed>>
  BY <1>1 DEF history, Inv, TypeInv, TypeOK
<1>3. (Ours => job.epoch \in created)'
  BY <1>1 DEF Ours
<1> QED
  BY <1>1, <1>2, <1>3, JobStepKeeps

LEMMA OtherTurnKeeps == ASSUME Inv, OtherTurn PROVE Inv'
<1>1. /\ UNCHANGED <<claims, pc, registers, created, exposed, lapsed, faults>>
      /\ job' = RunningJob(Other)
      /\ forgotten' = (forgotten \/ (created # {} /\ Ours /\ Running /\ ~Remembers))
  BY DEF OtherTurn, Forget
<1>2. job' \in Jobs /\ job'.epoch = Other
  BY <1>1 DEF RunningJob, Jobs
<1>3. (Ours => job.epoch \in created)'
  BY <1>2 DEF Ours
<1>4. forgotten' \in BOOLEAN /\ (forgotten => forgotten')
  BY <1>1
<1> QED
  BY <1>1, <1>2, <1>3, <1>4, JobStepKeeps

-----------------------------------------------------------------------------
(* Together *)

LEMMA InitGood == Init => Inv
<1>. SUFFICES ASSUME Init PROVE Inv
  OBVIOUS
<1>1. \A a \in Attempts : Fresh(a) \in Claims /\ Fresh(a).token[1] = a /\ ~HasStarted(Fresh(a))
  BY DEF Fresh, Claims, Tokens, HasStarted
<1>2. TypeOK
  <2>1. claims \in [Keys -> Claims \cup {NoClaim}] /\ job \in Jobs \cup {NoJob}
    BY DEF Init, ClaimsInit
  <2>2. /\ mine \in [Attempts -> Claims]
        /\ old \in [Attempts -> Claims \cup {NoClaim}] /\ new \in [Attempts -> Claims \cup {NoClaim}]
    BY <1>1 DEF Init
  <2>3. created \subseteq Attempts /\ exposed \subseteq created
    BY DEF Init
  <2>4. forgotten \in BOOLEAN /\ lapsed \in BOOLEAN
    BY DEF Init
  <2>5. faults \in 0 .. MaxFaults
    <3>1. faults = 0
      BY DEF Init
    <3> QED
      BY <3>1, JobAssumption
  <2> QED
    BY <2>1, <2>2, <2>3, <2>4, <2>5 DEF TypeOK
<1>3. TypeInv
  BY <1>1, <1>2 DEF Init, TypeInv, Places, Goals, Ours, OldIsRead, NewIsRead
<1>4. StartInv
  BY DEF Init, ClaimsInit, StartInv, StartedBy, IsStartOf, Toward, Silent, Deciding
<1>5. OnceInv /\ RunIsFenced
  BY DEF Init, OnceInv, RunIsFenced
<1> QED
  BY <1>3, <1>4, <1>5 DEF Inv

LEMMA StepGood == ASSUME Inv, NEW a \in Attempts, Step(a) PROVE \E S \in SUBSET {a} : Good(a, S)
<1>1. {} \in SUBSET {a} /\ {a} \in SUBSET {a}
  OBVIOUS
<1>2. CASE \/ ClaimLegacy(a) \/ BindPrimary(a) \/ MirrorPrimary(a) \/ Sync(a) \/ Probe(a) \/ Answer(a)
           \/ ExpectPrimary(a) \/ Compare(a) \/ TakePrimary(a) \/ TakeLegacy(a) \/ Undo(a)
  BY <1>1, <1>2, ClaimLegacyGood, BindPrimaryGood, MirrorPrimaryGood, SyncGood, ProbeGood, AnswerGood,
     ExpectPrimaryGood, CompareGood, TakePrimaryGood, TakeLegacyGood, UndoGood
<1>3. CASE \/ ResolvePrimary(a) \/ ResolveLegacy(a) \/ FindJob(a) \/ BindJob(a) \/ Tombstone(a)
           \/ TombstoneProbe(a) \/ Fence(a) \/ Admit(a) \/ Crash(a)
  BY <1>1, <1>3, ResolvePrimaryGood, ResolveLegacyGood, FindJobGood, BindJobGood, TombstoneGood,
     TombstoneProbeGood, FenceGood, AdmitGood, CrashGood
<1>4. CASE \/ Create(a) \/ Recover(a) \/ Prove(a) \/ ProveLegacy(a) \/ Repair(a) \/ MarkLegacy(a)
           \/ ConfirmPrimary(a) \/ ConfirmLegacy(a)
  BY <1>1, <1>4, CreateGood, RecoverGood, ProveGood, ProveLegacyGood, RepairGood, MarkLegacyGood,
     ConfirmPrimaryGood, ConfirmLegacyGood
<1>5. CASE \/ Terminalize(a) \/ Initialize(a) \/ CheckPrimary(a) \/ ReleasePrimary(a)
           \/ CheckLegacy(a) \/ ReleaseLegacy(a)
  BY <1>1, <1>5, InitializeGood, CheckPrimaryGood, ReleasePrimaryGood, CheckLegacyGood, ReleaseLegacyGood
<1> QED
  BY <1>2, <1>3, <1>4, <1>5 DEF Step

LEMMA NextKeeps == Inv /\ [Next]_vars => Inv'
<1>. SUFFICES ASSUME Inv, [Next]_vars PROVE Inv'
  OBVIOUS
<1>1. ASSUME NEW a \in Attempts, Step(a) PROVE Inv'
  BY <1>1, StepGood, GoodKeeps
<1>2. CASE UNCHANGED vars
  <2>1. UNCHANGED <<claims, job, pc, registers, created, exposed, forgotten, lapsed, faults>>
    BY <1>2 DEF vars, history
  <2>2. TypeInv' /\ StartInv' /\ RunIsFenced'
    BY <2>1, StartsSame DEF Inv, TypeInv, TypeOK, RunIsFenced, Free, registers, Ours
  <2>3. OnceInv'
    BY <2>1 DEF Inv, OnceInv, StartedKey, LegacyRemembers, JobRemembers, Ours, Running, registers
  <2> QED
    BY <2>2, <2>3 DEF Inv
<1> QED
  BY <1>1, <1>2, ExpireKeeps, EndJobKeeps, RemoveJobKeeps, OtherTurnKeeps DEF Next

LEMMA Invariant == Spec => []Inv
BY InitGood, NextKeeps, PTL DEF Spec

\* Every claim, job and register is what the code may hold there.
THEOREM TypeCorrect == Spec => []TypeOK
<1>1. Inv => TypeOK
  BY DEF Inv, TypeInv
<1> QED
  BY <1>1, Invariant, PTL

\* However often the request is posted, on whichever replicas, and whatever
\* fails or dies, one generation is started for it, as long as a key remembers
\* the first or the first is alive (claimGeneration and createJob).
THEOREM OnlyOneGeneration == Spec => []OneGeneration
<1>1. Inv => OneGeneration
  <2>. SUFFICES ASSUME Inv, ~forgotten PROVE Cardinality(created) <= 1
    BY DEF OneGeneration
  <2>1. \A x, y \in created : x = y
    BY DEF Inv, OnceInv
  <2>2. CASE created = {}
    BY <2>2, FS_EmptySet
  <2>3. CASE created # {}
    <3>1. PICK x \in created : created = {x}
      BY <2>1, <2>3
    <3>2. Cardinality({x}) = 1
      BY FS_Singleton
    <3> QED
      BY <3>1, <3>2
  <2> QED
    BY <2>2, <2>3
<1> QED
  BY <1>1, Invariant, PTL

\* An old replica, which knows the legacy key only, sees every generation that
\* runs (markStarted and confirmLegacyStartedFence).
THEOREM GenerationIsFenced == Spec => []RunIsFenced
<1>1. Inv => RunIsFenced
  BY DEF Inv
<1> QED
  BY <1>1, Invariant, PTL

\* Nothing but expiry takes back that a claim has started: no mirror, takeover,
\* release or tombstone (the scripts of releaseIdempotencyKey and
\* takeoverIdempotencyKey).
THEOREM StartsStay == Spec => StartedStays
<1>1. Inv /\ [Next]_vars =>
        [\A k \in Keys : ~Free(k) /\ HasStarted(claims[k]) =>
           claims'[k] = claims[k] \/ \E l \in Keys : Expire(l)]_vars
  <2>. SUFFICES ASSUME Inv, Next, NEW k \in Keys, StartedKey(k), ~\E l \in Keys : Expire(l)
                PROVE  claims'[k] = claims[k]
    BY DEF StartedKey, Free
  <2>1. ASSUME NEW a \in Attempts, Step(a) PROVE claims'[k] = claims[k]
    <3>1. PICK S \in SUBSET {a} : Good(a, S)
      BY <2>1, StepGood
    <3> QED
      BY <3>1 DEF Good, Shape, ClaimsStep
  <2> QED
    BY <2>1 DEF Next, EndJob, RemoveJob, OtherTurn
<1> QED
  BY <1>1, Invariant, PTL DEF Spec, StartedStays
=============================================================================
