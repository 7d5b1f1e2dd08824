------------------------ MODULE StreamAttachment_proofs ------------------------
(***************************************************************************)
(* Proofs about StreamAttachment, for any clients, events and bounds.      *)
(***************************************************************************)
EXTENDS StreamAttachment, SequenceTheorems, FiniteSetTheorems, WellFoundedInduction, TLAPS

-----------------------------------------------------------------------------
(***************************************************************************)
(* The operators the model is built from: the least and the greatest of a  *)
(* set of numbers, frames put in sequence, a list without some elements.   *)
(***************************************************************************)

\* A set of numbers that is not empty has a least member.
LEMMA LeastNumber ==
  ASSUME NEW T, T \subseteq Nat, T # {}
  PROVE  Least(T) \in T /\ \A y \in T : Least(T) <= y
<1> DEFINE R == OpToRel(<, Nat)
<1>1. IsWellFoundedOn(R, Nat)
  BY NatLessThanWellFounded
<1>2. \A x, y \in Nat : y < x => <<y, x>> \in R
  BY DEF OpToRel
<1> HIDE DEF R
<1>3. PICK x \in T : \A y \in T : <<y, x>> \notin R
  BY <1>1, WFMin
<1>4. \A y \in T : ~(y < x)
  BY <1>2, <1>3
<1>5. \A y \in T : x <= y
  BY <1>4
<1> QED
  BY <1>5 DEF Least

\* A set of numbers that is not empty and has a bound has a greatest member.
LEMMA GreatestNumber ==
  ASSUME NEW T, T \subseteq Nat, T # {}, NEW m \in Nat, \A y \in T : y < m
  PROVE  Greatest(T) \in T /\ \A y \in T : y <= Greatest(T)
<1> DEFINE D == {n \in Nat : m - n \in T}
<1>1. D # {}
  <2>1. PICK y \in T : TRUE
    OBVIOUS
  <2>2. m - y \in Nat /\ m - (m - y) = y
    BY <2>1
  <2> QED
    BY <2>2
<1>2. Least(D) \in D /\ \A n \in D : Least(D) <= n
  BY <1>1, LeastNumber
<1>3. \A y \in T : m - y \in D
  OBVIOUS
<1> HIDE DEF D
<1>4. Least(D) \in Nat /\ m - Least(D) \in T
  BY <1>2 DEF D
<1>5. \A y \in T : y <= m - Least(D)
  BY <1>2, <1>3, <1>4
<1> QED
  BY <1>4, <1>5 DEF Greatest

\* Frames that can be put in sequence: finitely many, no two with one number.
Orderly(frames) ==
  /\ IsFiniteSet(frames)
  /\ \A f \in frames : f.seq \in Nat
  /\ \A f, g \in frames : f.seq = g.seq => f = g

\* The frames that come before f, and how many they are.
Below(frames, f) == {g \in frames : g.seq < f.seq}
Rank(frames, f) == Cardinality(Below(frames, f))

\* The rank tells the frames apart, and grows with their numbers.
LEMMA RanksRise ==
  ASSUME NEW F, Orderly(F)
  PROVE  /\ Cardinality(F) \in Nat
         /\ \A f \in F : Rank(F, f) \in Nat /\ Rank(F, f) < Cardinality(F)
         /\ \A f, g \in F : f.seq < g.seq => Rank(F, f) < Rank(F, g)
         /\ \A f, g \in F : Rank(F, f) = Rank(F, g) => f = g
         /\ \A f, g \in F : Rank(F, f) < Rank(F, g) => f.seq < g.seq
<1>1. IsFiniteSet(F) /\ Cardinality(F) \in Nat
  BY FS_CardinalityType DEF Orderly
<1>2. \A f, g \in F : g \in Below(F, f) <=> g.seq < f.seq
  BY DEF Below
<1>3. \A f \in F : Below(F, f) \subseteq F /\ f \notin Below(F, f)
  BY DEF Below, Orderly
<1>4. \A f, g \in F : f.seq < g.seq => Below(F, f) \subseteq Below(F, g) /\ f \in Below(F, g)
  BY DEF Below, Orderly
<1>5. ASSUME NEW f \in F
      PROVE  IsFiniteSet(Below(F, f)) /\ Rank(F, f) \in Nat /\ Rank(F, f) < Cardinality(F)
  <2>1. /\ IsFiniteSet(Below(F, f)) /\ Cardinality(Below(F, f)) <= Cardinality(F)
        /\ Cardinality(F) = Cardinality(Below(F, f)) => F = Below(F, f)
    BY <1>1, <1>3, FS_Subset
  <2>2. Cardinality(Below(F, f)) \in Nat
    BY <2>1, FS_CardinalityType
  <2> QED
    BY <1>1, <1>3, <2>1, <2>2 DEF Rank
<1>6. ASSUME NEW f \in F, NEW g \in F, f.seq < g.seq PROVE Rank(F, f) < Rank(F, g)
  <2>1. Below(F, f) \subseteq Below(F, g) /\ Below(F, g) # Below(F, f) /\ IsFiniteSet(Below(F, g))
    BY <1>3, <1>4, <1>5, <1>6
  <2>2. /\ Cardinality(Below(F, f)) <= Cardinality(Below(F, g))
        /\ Cardinality(Below(F, g)) = Cardinality(Below(F, f)) => Below(F, g) = Below(F, f)
    BY <2>1, FS_Subset
  <2>3. Rank(F, f) <= Rank(F, g) /\ Rank(F, f) # Rank(F, g)
    BY <2>1, <2>2 DEF Rank
  <2> QED
    BY <1>5, <2>3
<1>7. ASSUME NEW f \in F, NEW g \in F, Rank(F, f) = Rank(F, g) PROVE f = g
  <2>1. ~(f.seq < g.seq) /\ ~(g.seq < f.seq)
    BY <1>5, <1>6, <1>7
  <2> QED
    BY <2>1 DEF Orderly
<1>8. ASSUME NEW f \in F, NEW g \in F, Rank(F, f) < Rank(F, g) PROVE f.seq < g.seq
  <2>1. ~(g.seq < f.seq) /\ f # g
    BY <1>5, <1>6, <1>8
  <2> QED
    BY <2>1 DEF Orderly
<1> QED
  BY <1>1, <1>5, <1>6, <1>7, <1>8

\* Every rank below the number of frames is taken.
LEMMA RanksFill ==
  ASSUME NEW F, Orderly(F), NEW i \in 1 .. Cardinality(F)
  PROVE  \E f \in F : Rank(F, f) = i - 1
<1> DEFINE n == Cardinality(F)
           R == [f \in F |-> Rank(F, f) + 1]
<1>1. IsFiniteSet(F) /\ n \in Nat
  BY FS_CardinalityType DEF Orderly
<1>2. \A f \in F : Rank(F, f) \in Nat /\ Rank(F, f) < n
  BY RanksRise
<1>3. R \in [F -> 1 .. n]
  BY <1>1, <1>2
<1>4. \A f, g \in F : R[f] = R[g] => f = g
  BY <1>2, RanksRise
<1>5. R \in Injection(F, 1 .. n)
  BY <1>3, <1>4, Zenon DEF Injection, IsInjective
<1>6. IsFiniteSet(1 .. n) /\ Cardinality(1 .. n) = n
  BY <1>1, FS_Interval
<1>7. R \in Surjection(F, 1 .. n)
  BY <1>5, <1>6, FS_Injection
<1>8. PICK f \in F : R[f] = i
  BY <1>7 DEF Surjection
<1> QED
  BY <1>2, <1>8

\* InSequence lists the events of the frames, each once, by their numbers.
LEMMA InSequenceLists ==
  ASSUME NEW F, Orderly(F)
  PROVE  /\ Cardinality(F) \in Nat
         /\ DOMAIN InSequence(F) = 1 .. Cardinality(F)
         /\ \E r \in [1 .. Cardinality(F) -> F] :
              /\ InSequence(F) = [i \in 1 .. Cardinality(F) |-> r[i].event]
              /\ \A i, j \in 1 .. Cardinality(F) : i < j => r[i].seq < r[j].seq
              /\ \A f \in F : \E i \in 1 .. Cardinality(F) : r[i] = f
<1> DEFINE n == Cardinality(F)
           at(i) == CHOOSE f \in F : Rank(F, f) = i - 1
           r == [i \in 1 .. n |-> at(i)]
<1>1. n \in Nat
  BY RanksRise
<1>2. ASSUME NEW i \in 1 .. n PROVE at(i) \in F /\ Rank(F, at(i)) = i - 1
  BY RanksFill, Zenon
<1>3. InSequence(F) = [i \in 1 .. n |-> at(i).event]
  BY DEF InSequence, Rank, Below
<1> HIDE DEF at
<1>4. /\ r \in [1 .. n -> F]
      /\ InSequence(F) = [i \in 1 .. n |-> r[i].event]
  BY <1>2, <1>3
<1>5. \A i, j \in 1 .. n : i < j => r[i].seq < r[j].seq
  <2> SUFFICES ASSUME NEW i \in 1 .. n, NEW j \in 1 .. n, i < j PROVE r[i].seq < r[j].seq
    OBVIOUS
  <2>1. at(i) \in F /\ at(j) \in F /\ Rank(F, at(i)) < Rank(F, at(j))
    BY <1>1, <1>2
  <2>2. at(i).seq < at(j).seq
    BY <2>1, RanksRise
  <2> QED
    BY <2>2
<1>6. \A f \in F : \E i \in 1 .. n : r[i] = f
  <2> SUFFICES ASSUME NEW f \in F PROVE \E i \in 1 .. n : r[i] = f
    OBVIOUS
  <2> DEFINE i == Rank(F, f) + 1
  <2>1. i \in 1 .. n /\ i - 1 = Rank(F, f)
    BY <1>1, RanksRise
  <2>2. at(i) \in F /\ Rank(F, at(i)) = Rank(F, f)
    BY <1>2, <2>1
  <2>3. at(i) = f
    BY <2>2, RanksRise
  <2> QED
    BY <2>1, <2>3
<1>7. DOMAIN InSequence(F) = 1 .. n
  BY <1>3
<1> HIDE DEF r
<1> QED
  BY <1>1, <1>4, <1>5, <1>6, <1>7

\* A list that is part of another, in its order.
PartOf(w, s) ==
  /\ \A i \in DOMAIN w : \E k \in DOMAIN s : w[i] = s[k]
  /\ \A i, j \in DOMAIN w : i < j => \E k, l \in DOMAIN s : k < l /\ w[i] = s[k] /\ w[j] = s[l]

\* Without keeps what is not in S, in the order of the list.
LEMMA WithoutKeeps ==
  ASSUME NEW T, NEW seq \in Seq(T), NEW S
  PROVE  /\ Without(seq, S) \in Seq(T)
         /\ PartOf(Without(seq, S), seq)
         /\ ToSet(Without(seq, S)) = ToSet(seq) \ S
<1> DEFINE K == {j \in DOMAIN seq : seq[j] \notin S}
           frame(i) == [seq |-> i, event |-> seq[i]]
           F == {frame(i) : i \in K}
           w == InSequence(F)
<1>1. Len(seq) \in Nat /\ DOMAIN seq = 1 .. Len(seq) /\ \A i \in DOMAIN seq : seq[i] \in T
  OBVIOUS
<1>2. IsFiniteSet(K)
  <2>1. IsFiniteSet(1 .. Len(seq)) /\ K \subseteq 1 .. Len(seq)
    BY <1>1, FS_Interval
  <2> QED
    BY <2>1, FS_Subset
<1>3. IsFiniteSet(F)
  <2> DEFINE h == [i \in K |-> frame(i)]
  <2>1. h \in Surjection(K, F)
    BY DEF Surjection
  <2> HIDE DEF h, F, K
  <2> QED
    BY <1>2, <2>1, FS_Surjection
<1>4. \A f \in F : f.seq \in K /\ f.event = seq[f.seq] /\ f = frame(f.seq)
  OBVIOUS
<1>5. \A i \in K : frame(i) \in F /\ frame(i).event = seq[i]
  OBVIOUS
<1>6. K \subseteq Nat /\ \A i \in K : i \in DOMAIN seq /\ seq[i] \in T /\ seq[i] \notin S
  BY <1>1
<1>7. w = Without(seq, S)
  BY DEF Without
<1>8. \A i \in DOMAIN seq : seq[i] \notin S => i \in K
  OBVIOUS
<1> HIDE DEF F, K, frame
<1>9. Orderly(F)
  BY <1>3, <1>4, <1>6 DEF Orderly
<1>10. PICK r \in [1 .. Cardinality(F) -> F] :
         /\ w = [i \in 1 .. Cardinality(F) |-> r[i].event]
         /\ \A i, j \in 1 .. Cardinality(F) : i < j => r[i].seq < r[j].seq
         /\ \A f \in F : \E i \in 1 .. Cardinality(F) : r[i] = f
  BY <1>9, InSequenceLists
<1>11. Cardinality(F) \in Nat /\ DOMAIN w = 1 .. Cardinality(F)
  BY <1>9, InSequenceLists
<1> HIDE DEF w
<1>12. \A i \in DOMAIN w : r[i].seq \in K /\ w[i] = seq[r[i].seq]
  BY <1>4, <1>10, <1>11
<1>13. w \in Seq(T)
  <2>1. w \in [1 .. Cardinality(F) -> T]
    BY <1>6, <1>10, <1>11, <1>12
  <2> QED
    BY <1>11, <2>1
<1>14. PartOf(w, seq)
  <2>1. \A i, j \in DOMAIN w : i < j => r[i].seq < r[j].seq
    BY <1>10, <1>11
  <2>2. \A i \in DOMAIN w : r[i].seq \in DOMAIN seq /\ w[i] = seq[r[i].seq]
    BY <1>6, <1>12
  <2> QED
    BY <2>1, <2>2 DEF PartOf
<1>15. ToSet(w) = ToSet(seq) \ S
  <2>1. ASSUME NEW i \in DOMAIN w PROVE w[i] \in ToSet(seq) \ S
    BY <1>6, <1>12 DEF ToSet
  <2>2. ASSUME NEW k \in DOMAIN seq, seq[k] \notin S PROVE \E i \in DOMAIN w : w[i] = seq[k]
    <3>1. k \in K /\ frame(k) \in F /\ frame(k).event = seq[k]
      BY <1>5, <1>8, <2>2
    <3>2. PICK i \in 1 .. Cardinality(F) : r[i] = frame(k)
      BY <1>10, <3>1
    <3> QED
      BY <1>10, <1>11, <3>1, <3>2
  <2> QED
    BY <2>1, <2>2 DEF ToSet
<1> QED
  BY <1>7, <1>13, <1>14, <1>15

-----------------------------------------------------------------------------
(***************************************************************************)
(* The reorder buffer.  Its frames carry the numbers Redis gave, so that   *)
(* no two have the same; every operation hands out events by their         *)
(* numbers, none below the next it expected before and all below the one   *)
(* it expects then.                                                        *)
(***************************************************************************)

Buffers == [next: Nat, pending: SUBSET Frames, deferred: BOOLEAN, timer: BOOLEAN]

\* Frames with the numbers their events were given.
Faithful(frames) == \A f \in frames : f \in Frames /\ f.event \in Numbered /\ seqOf[f.event] = f.seq

\* Numbers are given in the order of the events.
NumbersRise ==
  /\ seqOf \in [Events -> Nat \cup {NoFrontier}]
  /\ \A e, f \in Numbered : e < f => seqOf[e] < seqOf[f]

\* What a buffer is between two operations: it waits for something, and then
\* either behind the fence from the start, or for a timer.
Waits(b) ==
  /\ b \in Buffers
  /\ Faithful(b.pending)
  /\ b.deferred = TRUE => b.next = 0 /\ b.timer = FALSE
  /\ b.deferred = FALSE => \A f \in b.pending : f.seq > b.next
  /\ b.deferred = FALSE /\ b.pending # {} => b.timer = TRUE

\* Events given out by their numbers, from lo on and below hi.
Delivers(out, lo, hi) ==
  /\ out \in Seq(Events)
  /\ \A i \in DOMAIN out : out[i] \in Numbered /\ lo <= seqOf[out[i]] /\ seqOf[out[i]] < hi
  /\ \A i, j \in DOMAIN out : i < j => seqOf[out[i]] < seqOf[out[j]]

\* Every number from lo on and below hi is that of an event given out.
Fills(out, lo, hi) == \A n \in lo .. (hi - 1) : \E e \in ToSet(out) : seqOf[e] = n

LEMMA FaithfulIsOrderly ==
  ASSUME NumbersRise, NEW F, Faithful(F)
  PROVE  Orderly(F) /\ \A f, g \in F : f.event = g.event => f = g
<1>1. \A f \in F : f.event \in Events /\ f.seq \in Nat /\ f = [seq |-> f.seq, event |-> f.event]
  BY DEF Faithful, Frames
<1>2. \A f, g \in F : f.event = g.event => f = g
  BY <1>1 DEF Faithful
<1>3. \A f, g \in F : f.seq = g.seq => f = g
  <2> SUFFICES ASSUME NEW f \in F, NEW g \in F, f.seq = g.seq PROVE f = g
    OBVIOUS
  <2>1. f.event \in Numbered /\ g.event \in Numbered /\ seqOf[f.event] = seqOf[g.event] /\ seqOf[f.event] \in Nat
    BY <1>1 DEF Faithful
  <2>2. ~(f.event < g.event) /\ ~(g.event < f.event)
    BY <2>1 DEF NumbersRise
  <2>3. f.event = g.event
    BY <1>1, <2>2, BoundsAssumption DEF Events
  <2> QED
    BY <1>2, <2>3
<1>4. IsFiniteSet(F)
  <2> DEFINE h == [f \in F |-> f.event]
  <2>1. h \in [F -> Events] /\ \A f, g \in F : h[f] = h[g] => f = g
    BY <1>1, <1>2
  <2>2. h \in Injection(F, Events)
    BY <2>1, Zenon DEF Injection, IsInjective
  <2>3. IsFiniteSet(Events)
    BY BoundsAssumption, FS_Interval DEF Events
  <2> QED
    BY <2>2, <2>3, FS_Injection
<1> QED
  BY <1>1, <1>2, <1>3, <1>4 DEF Orderly

\* What InSequence gives out of such frames.
LEMMA SequenceDelivers ==
  ASSUME NumbersRise, NEW F, Faithful(F), NEW lo \in Int, NEW hi \in Int,
         \A f \in F : lo <= f.seq /\ f.seq < hi
  PROVE  Delivers(InSequence(F), lo, hi) /\ ToSet(InSequence(F)) = {f.event : f \in F}
<1> DEFINE n == Cardinality(F)
           out == InSequence(F)
<1>1. Orderly(F)
  BY FaithfulIsOrderly
<1>2. PICK r \in [1 .. n -> F] :
         /\ out = [i \in 1 .. n |-> r[i].event]
         /\ \A i, j \in 1 .. n : i < j => r[i].seq < r[j].seq
         /\ \A f \in F : \E i \in 1 .. n : r[i] = f
  BY <1>1, InSequenceLists
<1>3. n \in Nat /\ DOMAIN out = 1 .. n
  BY <1>1, InSequenceLists
<1> HIDE DEF out, n
<1>4. \A i \in DOMAIN out : r[i] \in F /\ out[i] = r[i].event
  BY <1>2, <1>3
<1>5. \A f \in F : f.event \in Numbered /\ f.event \in Events /\ seqOf[f.event] = f.seq
  BY DEF Faithful, Frames
<1>6. \A i \in DOMAIN out : out[i] \in Events /\ out[i] \in Numbered /\ seqOf[out[i]] = r[i].seq
  BY <1>4, <1>5
<1>7. out \in Seq(Events)
  <2>1. out \in [1 .. n -> Events]
    BY <1>2, <1>3, <1>6
  <2> QED
    BY <1>3, <2>1
<1>8. ToSet(out) = {f.event : f \in F}
  <2>1. ASSUME NEW i \in DOMAIN out PROVE \E f \in F : f.event = out[i]
    BY <1>4
  <2>2. ASSUME NEW f \in F PROVE \E i \in DOMAIN out : out[i] = f.event
    BY <1>2, <1>3, <1>4
  <2> QED
    BY <2>1, <2>2 DEF ToSet
<1>9. \A i, j \in DOMAIN out : i < j => seqOf[out[i]] < seqOf[out[j]]
  BY <1>2, <1>3, <1>6
<1>10. \A i \in DOMAIN out : out[i] \in Numbered /\ lo <= seqOf[out[i]] /\ seqOf[out[i]] < hi
  BY <1>4, <1>6
<1> QED
  BY <1>7, <1>8, <1>9, <1>10 DEF Delivers, out

\* A finite set of numbers from a on, without a hole, is an interval.
LEMMA NoHole ==
  ASSUME NEW a \in Nat, NEW S, S \subseteq Nat, IsFiniteSet(S),
         \A k \in S : a <= k /\ \A j \in a .. k : j \in S
  PROVE  Cardinality(S) \in Nat /\ S = a .. (a + Cardinality(S) - 1)
<1> DEFINE D == {n \in Nat : a <= n /\ n \notin S}
           m == Least(D)
<1>1. Cardinality(S) \in Nat
  BY FS_CardinalityType
<1>2. D # {}
  <2> SUFFICES ASSUME D = {} PROVE FALSE
    OBVIOUS
  <2>1. a .. (a + Cardinality(S)) \subseteq S
    BY <1>1
  <2>2. Cardinality(a .. (a + Cardinality(S))) <= Cardinality(S)
    BY <2>1, FS_Subset
  <2>3. Cardinality(a .. (a + Cardinality(S))) = Cardinality(S) + 1
    BY <1>1, FS_Interval
  <2> QED
    BY <1>1, <2>2, <2>3
<1>3. m \in D /\ \A n \in D : m <= n
  BY <1>2, LeastNumber
<1> HIDE DEF m
<1>4. m \in Nat /\ a <= m /\ m \notin S
  BY <1>3
<1>5. S = a .. (m - 1)
  <2>1. ASSUME NEW k \in S PROVE k \in a .. (m - 1)
    BY <1>4
  <2>2. ASSUME NEW j \in a .. (m - 1) PROVE j \in S
    BY <1>3, <1>4
  <2> QED
    BY <2>1, <2>2
<1>6. Cardinality(a .. (m - 1)) = m - a
  <2>1. a \in Int /\ m - 1 \in Int
    BY <1>4
  <2>2. Cardinality(a .. (m - 1)) = IF a > m - 1 THEN 0 ELSE (m - 1) - a + 1
    BY <2>1, FS_Interval
  <2> QED
    BY <1>4, <2>2
<1> QED
  BY <1>1, <1>4, <1>5, <1>6

\* flushPendingMessages gives out what continues the sequence, all of it, and
\* leaves what comes after a hole.
LEMMA FlushingDelivers ==
  ASSUME NumbersRise, NEW b \in Buffers, Faithful(b.pending), \A f \in b.pending : b.next <= f.seq,
         NEW r, r = FlushPending(b)
  PROVE  /\ r.buffer \in Buffers /\ r.buffer.deferred = b.deferred
         /\ r.buffer.pending \subseteq b.pending /\ Faithful(r.buffer.pending)
         /\ b.next <= r.buffer.next /\ \A f \in r.buffer.pending : r.buffer.next < f.seq
         /\ r.buffer.timer = (b.timer /\ r.buffer.pending # {})
         /\ Delivers(r.out, b.next, r.buffer.next)
         /\ Fills(r.out, b.next, r.buffer.next)
<1> DEFINE P == b.pending
           flow == {f \in P : b.next .. f.seq \subseteq Seqs(P)}
           S == Seqs(flow)
           top == b.next + Cardinality(flow)
<1>1. /\ r.buffer = [b EXCEPT !.next = top, !.pending = P \ flow, !.timer = @ /\ P \ flow # {}]
      /\ r.out = InSequence(flow)
  BY DEF FlushPending, Buffers
<1>2. b.next \in Nat /\ P \subseteq Frames /\ b.timer \in BOOLEAN /\ \A f \in P : f.seq \in Nat
  BY DEF Buffers, Frames
<1>3. flow \subseteq P /\ Faithful(flow)
  BY DEF Faithful
<1>4. Orderly(flow) /\ Orderly(P)
  BY <1>3, FaithfulIsOrderly
<1>5. \A k \in S : \E f \in flow : f.seq = k
  BY DEF Seqs
<1>6. \A f \in flow : f.seq \in S
  BY DEF Seqs
<1>7. \A f \in P : f \in flow <=> b.next .. f.seq \subseteq Seqs(P)
  OBVIOUS
<1>8. \A k \in Seqs(P) : \E f \in P : f.seq = k
  BY DEF Seqs
<1>9. \A f \in P : f.seq \in Seqs(P)
  BY DEF Seqs
<1> HIDE DEF flow, S
<1>10. S \subseteq Nat /\ \A k \in S : b.next <= k
  BY <1>2, <1>3, <1>5
<1>11. \A k \in S : \A j \in b.next .. k : j \in S
  <2> SUFFICES ASSUME NEW k \in S, NEW j \in b.next .. k PROVE j \in S
    OBVIOUS
  <2>1. PICK f \in flow : f.seq = k
    BY <1>5
  <2>2. b.next .. k \subseteq Seqs(P)
    BY <1>3, <1>7, <2>1
  <2>3. PICK g \in P : g.seq = j
    BY <1>8, <2>2
  <2>4. b.next .. j \subseteq b.next .. k
    BY <1>2, <1>10
  <2>5. g \in flow
    BY <1>7, <2>2, <2>3, <2>4
  <2> QED
    BY <1>6, <2>3, <2>5
<1>12. IsFiniteSet(S) /\ Cardinality(S) = Cardinality(flow)
  <2> DEFINE h == [f \in flow |-> f.seq]
  <2>1. h \in [flow -> S] /\ \A k \in S : \E f \in flow : h[f] = k
    BY <1>5, <1>6
  <2>2. h \in Surjection(flow, S)
    BY <2>1, Zenon DEF Surjection
  <2>3. \A f, g \in flow : h[f] = h[g] => f = g
    BY <1>4 DEF Orderly
  <2>4. h \in Injection(flow, S)
    BY <2>1, <2>3, Zenon DEF Injection, IsInjective
  <2> HIDE DEF h
  <2> QED
    BY <1>4, <2>2, <2>4, FS_Surjection DEF Orderly
<1>13. Cardinality(S) \in Nat /\ S = b.next .. (b.next + Cardinality(S) - 1)
  BY <1>2, <1>10, <1>11, <1>12, NoHole
<1>14. top \in Nat /\ b.next <= top /\ S = b.next .. (top - 1)
  BY <1>2, <1>12, <1>13
<1>15. \A f \in flow : b.next <= f.seq /\ f.seq < top
  BY <1>2, <1>3, <1>6, <1>14
<1>16. \A f \in P \ flow : top < f.seq
  <2> SUFFICES ASSUME NEW f \in P \ flow PROVE top < f.seq
    OBVIOUS
  <2>1. f.seq \in Nat /\ b.next <= f.seq
    BY <1>2
  <2>2. f.seq \notin S
    BY <1>3, <1>4, <1>5 DEF Orderly
  <2>3. top <= f.seq
    BY <1>14, <2>1, <2>2
  <2>4. f.seq # top
    <3> SUFFICES ASSUME f.seq = top PROVE FALSE
      OBVIOUS
    <3>1. \A k \in S : k \in Seqs(P)
      BY <1>3, <1>5, <1>9
    <3>2. b.next .. f.seq \subseteq Seqs(P)
      BY <1>9, <1>14, <3>1
    <3> QED
      BY <1>7, <3>2
  <2> QED
    BY <1>14, <2>1, <2>3, <2>4
<1> HIDE DEF top
<1>17. /\ r.buffer.next = top /\ r.buffer.pending = P \ flow /\ r.buffer.deferred = b.deferred
       /\ r.buffer.timer = (b.timer /\ P \ flow # {})
  BY <1>1 DEF Buffers
<1>18. r.buffer \in Buffers
  BY <1>1, <1>2, <1>14 DEF Buffers
<1>19. Delivers(r.out, b.next, r.buffer.next) /\ ToSet(r.out) = {f.event : f \in flow}
  BY <1>1, <1>2, <1>3, <1>14, <1>15, <1>17, SequenceDelivers
<1>20. Fills(r.out, b.next, top)
  <2> SUFFICES ASSUME NEW n \in b.next .. (top - 1) PROVE \E e \in ToSet(r.out) : seqOf[e] = n
    BY DEF Fills
  <2>1. PICK f \in flow : f.seq = n
    BY <1>5, <1>14
  <2>2. f.event \in ToSet(r.out) /\ seqOf[f.event] = n
    BY <1>3, <1>19, <2>1 DEF Faithful
  <2> QED
    BY <2>2
<1>21. Faithful(P \ flow)
  BY DEF Faithful
<1> QED
  BY <1>14, <1>16, <1>17, <1>18, <1>19, <1>20, <1>21

\* Faithful frames of a bounded counter have a least and a greatest number.
LEMMA SeqsHaveEnds ==
  ASSUME NumbersRise, counter \in Nat, \A e \in Numbered : seqOf[e] < counter,
         NEW F, Faithful(F), F # {}
  PROVE  /\ Greatest(Seqs(F)) \in Nat /\ \A f \in F : f.seq <= Greatest(Seqs(F))
         /\ Least(Seqs(F)) \in Nat /\ \A f \in F : Least(Seqs(F)) <= f.seq
         /\ \E f \in F : f.seq = Greatest(Seqs(F))
<1>1. \A f \in F : f.seq \in Nat /\ f.seq < counter /\ f.seq \in Seqs(F)
  BY DEF Faithful, Frames, Seqs
<1>2. \A k \in Seqs(F) : \E f \in F : f.seq = k
  BY DEF Seqs
<1>3. Seqs(F) \subseteq Nat /\ Seqs(F) # {} /\ \A k \in Seqs(F) : k < counter
  BY <1>1, <1>2
<1>4. Greatest(Seqs(F)) \in Seqs(F) /\ \A k \in Seqs(F) : k <= Greatest(Seqs(F))
  BY <1>3, GreatestNumber
<1>5. Least(Seqs(F)) \in Seqs(F) /\ \A k \in Seqs(F) : Least(Seqs(F)) <= k
  BY <1>3, LeastNumber
<1> QED
  BY <1>1, <1>2, <1>3, <1>4, <1>5

\* What is known of the numbers in every state.
Counted ==
  /\ NumbersRise
  /\ counter \in Nat
  /\ \A e \in Numbered : seqOf[e] < counter

\* What an operation on a buffer that waits leaves and gives out.
Handles(b, r) ==
  /\ Waits(r.buffer)
  /\ b.next <= r.buffer.next
  /\ Delivers(r.out, b.next, r.buffer.next)

\* A buffer whose timer was set.
LEMMA Timed ==
  ASSUME NEW b \in Buffers, NEW x, x = [b EXCEPT !.timer = TRUE]
  PROVE  /\ x \in Buffers /\ x.next = b.next /\ x.pending = b.pending
         /\ x.deferred = b.deferred /\ x.timer = TRUE
<1>1. x.next = b.next /\ x.pending = b.pending /\ x.deferred = b.deferred /\ x.timer = TRUE
  BY DEF Buffers
<1> QED
  BY <1>1 DEF Buffers

\* forceFlushBuffer gives out all that waits.
LEMMA ForcingDelivers ==
  ASSUME Counted, NEW b \in Buffers, Faithful(b.pending), b.deferred = FALSE,
         \A f \in b.pending : b.next <= f.seq,
         NEW r, r = ForceFlush(b)
  PROVE  Handles(b, r) /\ r.buffer.deferred = FALSE
<1>1. b.next \in Nat
  BY DEF Buffers
<1>2. CASE b.pending = {}
  <2>1. r.buffer = [b EXCEPT !.timer = FALSE] /\ r.out = <<>>
    BY <1>2 DEF ForceFlush
  <2>2. /\ r.buffer \in Buffers /\ r.buffer.pending = {} /\ r.buffer.deferred = FALSE
        /\ r.buffer.next = b.next
    BY <1>2, <2>1 DEF Buffers
  <2>3. Waits(r.buffer)
    BY <2>2 DEF Waits, Faithful
  <2>4. Delivers(r.out, b.next, r.buffer.next)
    BY <2>1 DEF Delivers
  <2> QED
    BY <1>1, <2>2, <2>3, <2>4 DEF Handles
<1>3. CASE b.pending # {}
  <2> DEFINE top == Greatest(Seqs(b.pending))
  <2>1. /\ r.buffer = [b EXCEPT !.next = top + 1, !.pending = {}, !.timer = FALSE]
        /\ r.out = InSequence(b.pending)
    BY <1>3 DEF ForceFlush
  <2>2. /\ top \in Nat /\ \A f \in b.pending : f.seq <= top
        /\ \E f \in b.pending : f.seq = top
    BY <1>3, SeqsHaveEnds DEF Counted
  <2> HIDE DEF top
  <2>3. /\ r.buffer \in Buffers /\ r.buffer.pending = {} /\ r.buffer.deferred = FALSE
        /\ r.buffer.next = top + 1
    <3> DEFINE n == top + 1
    <3>1. n \in Nat /\ r.buffer = [b EXCEPT !.next = n, !.pending = {}, !.timer = FALSE]
      BY <2>1, <2>2
    <3> HIDE DEF n
    <3>2. /\ r.buffer.next = n /\ r.buffer.pending = {}
          /\ r.buffer.deferred = b.deferred /\ r.buffer.timer = FALSE
      BY <3>1 DEF Buffers
    <3>3. r.buffer \in Buffers
      BY <3>1 DEF Buffers
    <3> QED
      BY <3>2, <3>3 DEF n
  <2>4. Waits(r.buffer)
    BY <2>3 DEF Waits, Faithful
  <2>5. b.next <= top
    BY <1>1, <2>2
  <2>6. \A f \in b.pending : b.next <= f.seq /\ f.seq < top + 1
    BY <1>1, <2>2 DEF Faithful, Frames
  <2>7. Delivers(r.out, b.next, r.buffer.next)
    BY <1>1, <2>1, <2>2, <2>3, <2>6, SequenceDelivers DEF Counted
  <2> QED
    BY <1>1, <2>2, <2>3, <2>4, <2>5, <2>7 DEF Handles
<1> QED
  BY <1>2, <1>3

\* A buffer with one more frame.
LEMMA HeldIsFaithful ==
  ASSUME NEW b \in Buffers, Faithful(b.pending), NEW f \in Frames, Faithful({f})
  PROVE  /\ Held(b, f) \in Buffers /\ Faithful(Held(b, f).pending)
         /\ Held(b, f).next = b.next /\ Held(b, f).deferred = b.deferred /\ Held(b, f).timer = b.timer
         /\ f \in Held(b, f).pending /\ \A g \in Held(b, f).pending : g = f \/ g \in b.pending
<1>1. Held(b, f) = [b EXCEPT !.pending = {g \in b.pending : g.seq # f.seq} \cup {f}]
  BY DEF Held, Buffers
<1>2. {g \in b.pending : g.seq # f.seq} \cup {f} \subseteq Frames
  BY DEF Buffers
<1> QED
  BY <1>1, <1>2 DEF Buffers, Faithful

\* handleOrderedChunk and handleTerminalEvent, whatever arrives.
LEMMA ReceivingDelivers ==
  ASSUME Counted, NEW b, Waits(b), NEW f \in Frames, Faithful({f}), NEW terminal \in BOOLEAN,
         NEW r, r = Receive(b, f, terminal)
  PROVE  /\ Handles(b, r) /\ r.buffer.deferred = b.deferred
         /\ b.deferred = TRUE => r.out = <<>>
<1>1. /\ b \in Buffers /\ Faithful(b.pending) /\ b.next \in Nat /\ b.deferred \in BOOLEAN
      /\ f.seq \in Nat
  BY DEF Waits, Buffers, Frames
<1> DEFINE h == Held(b, f)
<1>2. /\ h \in Buffers /\ Faithful(h.pending)
      /\ h.next = b.next /\ h.deferred = b.deferred /\ h.timer = b.timer
      /\ f \in h.pending /\ \A g \in h.pending : g = f \/ g \in b.pending
  BY <1>1, HeldIsFaithful
<1> HIDE DEF h
<1>3. Delivers(<<>>, b.next, b.next)
  BY DEF Delivers
<1>4. CASE b.deferred = TRUE
  <2>1. r = [buffer |-> h, out |-> <<>>]
    BY <1>4 DEF Receive, h
  <2>2. Waits(h)
    BY <1>2, <1>4 DEF Waits
  <2> QED
    BY <1>1, <1>2, <1>3, <2>1, <2>2 DEF Handles
<1>5. CASE b.deferred = FALSE /\ f.seq < b.next
  <2>1. r = [buffer |-> b, out |-> <<>>]
    BY <1>1, <1>5 DEF Receive
  <2> QED
    BY <1>1, <1>3, <1>5, <2>1 DEF Handles
<1>6. CASE b.deferred = FALSE /\ f.seq = b.next
  <2>1. r = FlushPending(h)
    BY <1>1, <1>6 DEF Receive, h
  <2>2. \A g \in h.pending : h.next <= g.seq
    BY <1>1, <1>2, <1>6 DEF Waits, Faithful, Frames
  <2>3. /\ r.buffer \in Buffers /\ r.buffer.deferred = h.deferred /\ Faithful(r.buffer.pending)
        /\ r.buffer.pending \subseteq h.pending
        /\ h.next <= r.buffer.next /\ \A g \in r.buffer.pending : r.buffer.next < g.seq
        /\ r.buffer.timer = (h.timer /\ r.buffer.pending # {})
        /\ Delivers(r.out, h.next, r.buffer.next)
    BY <1>2, <2>1, <2>2, FlushingDelivers DEF Counted
  <2>4. r.buffer.pending # {} => r.buffer.timer = TRUE
    <3> SUFFICES ASSUME r.buffer.pending # {} PROVE r.buffer.timer = TRUE
      OBVIOUS
    <3>1. PICK g \in r.buffer.pending : TRUE
      OBVIOUS
    <3>2. b.next < g.seq /\ g \in h.pending
      BY <1>1, <1>2, <2>3, <3>1 DEF Faithful, Frames, Buffers
    <3>3. g \in b.pending
      BY <1>1, <1>2, <1>6, <3>2
    <3>4. b.timer = TRUE
      BY <1>6, <3>3 DEF Waits
    <3> QED
      BY <1>2, <2>3, <3>4
  <2>5. Waits(r.buffer)
    BY <1>2, <1>6, <2>3, <2>4 DEF Waits
  <2> QED
    BY <1>2, <1>6, <2>3, <2>5 DEF Handles
<1>7. CASE b.deferred = FALSE /\ f.seq > b.next
  <2>1. r = IF ~terminal /\ Cardinality(h.pending) >= MaxBuffer
              THEN ForceFlush(h) ELSE [buffer |-> [h EXCEPT !.timer = TRUE], out |-> <<>>]
    BY <1>1, <1>7 DEF Receive, h
  <2>2. \A g \in h.pending : h.next < g.seq
    BY <1>1, <1>2, <1>7 DEF Waits
  <2>3. CASE r = ForceFlush(h)
    <3>1. \A g \in h.pending : h.next <= g.seq
      BY <1>1, <1>2, <2>2 DEF Faithful, Frames
    <3>2. Handles(h, r) /\ r.buffer.deferred = FALSE
      BY <1>2, <1>7, <2>3, <3>1, ForcingDelivers
    <3> QED
      BY <1>2, <1>7, <3>2 DEF Handles
  <2>4. CASE r = [buffer |-> [h EXCEPT !.timer = TRUE], out |-> <<>>]
    <3>1. r.buffer = [h EXCEPT !.timer = TRUE] /\ r.out = <<>>
      BY <2>4
    <3>2. h.next \in Nat /\ h.pending \in SUBSET Frames
      BY <1>2 DEF Buffers
    <3>3. /\ r.buffer \in Buffers /\ r.buffer.next = b.next /\ r.buffer.pending = h.pending
          /\ r.buffer.deferred = FALSE /\ r.buffer.timer = TRUE
      <4>1. /\ r.buffer \in Buffers /\ r.buffer.next = h.next /\ r.buffer.pending = h.pending
            /\ r.buffer.deferred = h.deferred /\ r.buffer.timer = TRUE
        BY <1>2, <3>1, Timed, Zenon
      <4> QED
        BY <1>2, <1>7, <4>1
    <3>4. Waits(r.buffer)
      BY <1>2, <2>2, <3>3 DEF Waits
    <3>5. Handles(b, r)
      BY <1>1, <1>3, <3>1, <3>3, <3>4 DEF Handles
    <3> QED
      BY <1>7, <3>3, <3>5
  <2> QED
    BY <2>1, <2>3, <2>4
<1>8. b.deferred = TRUE \/ (b.deferred = FALSE /\ (f.seq < b.next \/ f.seq = b.next \/ f.seq > b.next))
  BY <1>1
<1> QED
  BY <1>4, <1>5, <1>6, <1>7, <1>8

\* The fence opens in front of frames that are all still expected.
LEMMA OpeningDelivers ==
  ASSUME Counted, NEW b \in Buffers, Faithful(b.pending), \A f \in b.pending : b.next <= f.seq,
         NEW r, r = Opened(b)
  PROVE  /\ Handles(b, r) /\ r.buffer.deferred = FALSE
         /\ r.buffer.pending \subseteq b.pending
         /\ Fills(r.out, b.next, r.buffer.next)
<1> DEFINE o == [b EXCEPT !.deferred = FALSE]
           f == FlushPending(o)
           more == f.buffer.pending # {}
<1>1. /\ o \in Buffers /\ o.next = b.next /\ o.pending = b.pending
      /\ o.deferred = FALSE /\ o.timer = b.timer
  BY DEF Buffers
<1>2. r = [f EXCEPT !.buffer.timer = @ \/ more]
  BY DEF Opened
<1>3. f = [buffer |-> f.buffer, out |-> f.out]
  BY DEF FlushPending
<1> HIDE DEF o
<1>4. /\ f.buffer \in Buffers /\ f.buffer.deferred = FALSE
      /\ f.buffer.pending \subseteq b.pending /\ Faithful(f.buffer.pending)
      /\ b.next <= f.buffer.next /\ \A g \in f.buffer.pending : f.buffer.next < g.seq
      /\ f.buffer.timer = (o.timer /\ f.buffer.pending # {})
      /\ Delivers(f.out, b.next, f.buffer.next)
      /\ Fills(f.out, b.next, f.buffer.next)
  BY <1>1, FlushingDelivers DEF Counted
<1> HIDE DEF f
<1>5. r.buffer = [f.buffer EXCEPT !.timer = @ \/ more] /\ r.out = f.out
  BY <1>2, <1>3
<1>6. /\ r.buffer.next = f.buffer.next /\ r.buffer.pending = f.buffer.pending
      /\ r.buffer.deferred = FALSE /\ r.buffer.timer = (f.buffer.timer \/ more)
  BY <1>4, <1>5 DEF Buffers
<1>7. r.buffer \in Buffers
  BY <1>4, <1>5 DEF Buffers
<1>8. r.buffer.pending # {} => r.buffer.timer = TRUE
  BY <1>6
<1>9. Waits(r.buffer)
  BY <1>4, <1>6, <1>7, <1>8 DEF Waits
<1> QED
  BY <1>4, <1>5, <1>6, <1>9 DEF Handles

\* syncReorderBuffer with the counter: nothing the replay has shown goes out,
\* and nothing that waits is passed over.
LEMMA SyncDelivers ==
  ASSUME Counted, NEW b, Waits(b), NEW frontier \in Int, frontier >= NoFrontier, NEW n \in Nat,
         NEW r, r = Synced(b, frontier, n)
  PROVE  /\ Handles(b, r) /\ r.buffer.deferred = FALSE
         /\ \A i \in DOMAIN r.out : frontier <= seqOf[r.out[i]]
         /\ b.deferred = TRUE => frontier <= r.buffer.next
<1> DEFINE p == {f \in b.pending : f.seq >= frontier}
           c == [Pruned(b, frontier) EXCEPT !.timer = FALSE]
           ceiling == IF frontier # NoFrontier THEN frontier ELSE n
           reached == IF c.pending = {} THEN ceiling ELSE Smaller(ceiling, Least(Seqs(c.pending)))
           d == [c EXCEPT !.next = Larger(@, reached)]
<1>1. b \in Buffers /\ Faithful(b.pending) /\ b.next \in Nat /\ b.deferred \in BOOLEAN
  BY DEF Waits, Buffers
<1>2. /\ c \in Buffers /\ c.next = b.next /\ c.pending = p
      /\ c.deferred = b.deferred /\ c.timer = FALSE
  BY <1>1 DEF Pruned, Buffers
<1>3. r = Opened(d)
  BY DEF Synced
<1>4. p \subseteq b.pending /\ Faithful(p) /\ \A f \in p : f.seq \in Nat /\ f.seq >= frontier
  BY <1>1 DEF Faithful, Frames
<1>5. ceiling \in Nat /\ frontier <= ceiling
  BY DEF NoFrontier
<1> HIDE DEF p, c, ceiling
<1>6. /\ reached \in Nat /\ frontier <= reached
      /\ \A f \in p : reached <= f.seq
  <2>1. CASE p = {}
    BY <1>2, <1>5, <2>1
  <2>2. CASE p # {}
    <3>1. Least(Seqs(p)) \in Nat /\ \A f \in p : Least(Seqs(p)) <= f.seq
      BY <1>4, <2>2, SeqsHaveEnds DEF Counted
    <3>2. \E f \in p : f.seq = Least(Seqs(p))
      <4>1. Seqs(p) \subseteq Nat /\ Seqs(p) # {}
        BY <1>4, <2>2 DEF Seqs
      <4>2. Least(Seqs(p)) \in Seqs(p)
        BY <4>1, LeastNumber
      <4> QED
        BY <4>2 DEF Seqs
    <3>3. reached = Smaller(ceiling, Least(Seqs(p)))
      BY <1>2, <2>2
    <3>4. frontier <= Least(Seqs(p))
      BY <1>4, <3>2
    <3> QED
      BY <1>4, <1>5, <3>1, <3>3, <3>4 DEF Smaller
  <2> QED
    BY <2>1, <2>2
<1> HIDE DEF reached
<1>7. \A f \in p : b.next <= f.seq
  BY <1>1, <1>4 DEF Waits
<1>8. Larger(b.next, reached) \in Nat /\ b.next <= Larger(b.next, reached) /\ reached <= Larger(b.next, reached)
      /\ \A f \in p : Larger(b.next, reached) <= f.seq
  BY <1>1, <1>6, <1>7 DEF Larger
<1> DEFINE m == Larger(b.next, reached)
<1>9. d = [c EXCEPT !.next = m]
  BY <1>2
<1> HIDE DEF m, d
<1>10. d \in Buffers /\ d.next = m /\ d.pending = p
  BY <1>2, <1>8, <1>9 DEF Buffers, m
<1>11. /\ Handles(d, r) /\ r.buffer.deferred = FALSE
  BY <1>3, <1>4, <1>8, <1>10, OpeningDelivers DEF m
<1>12. b.next <= m /\ frontier <= m /\ m \in Nat
  BY <1>6, <1>8 DEF m
<1>13. m <= r.buffer.next /\ r.buffer.next \in Nat /\ Waits(r.buffer) /\ Delivers(r.out, m, r.buffer.next)
  BY <1>10, <1>11 DEF Handles, Waits, Buffers
<1>14. \A i \in DOMAIN r.out : seqOf[r.out[i]] \in Nat /\ m <= seqOf[r.out[i]] /\ r.out[i] \in Numbered
  BY <1>13 DEF Delivers, Counted, NumbersRise, Numbered, NoFrontier
<1>15. Delivers(r.out, b.next, r.buffer.next)
  BY <1>1, <1>12, <1>13, <1>14 DEF Delivers
<1> QED
  BY <1>1, <1>11, <1>12, <1>13, <1>14, <1>15 DEF Handles

\* syncReorderBuffer when the counter cannot be read.
LEMMA FailedSyncDelivers ==
  ASSUME Counted, NEW b, Waits(b), NEW frontier \in Int, frontier >= NoFrontier,
         NEW r, r = SyncFailed(b, frontier)
  PROVE  /\ Handles(b, r) /\ r.buffer.deferred = FALSE
         /\ b.deferred = TRUE => /\ frontier <= r.buffer.next
                                 /\ \A i \in DOMAIN r.out : frontier <= seqOf[r.out[i]]
<1> DEFINE p == {f \in b.pending : f.seq >= frontier}
           d == [Pruned(b, frontier) EXCEPT !.next = Larger(@, frontier)]
           m == Larger(b.next, frontier)
<1>1. b \in Buffers /\ Faithful(b.pending) /\ b.next \in Nat /\ b.deferred \in BOOLEAN
  BY DEF Waits, Buffers
<1>2. CASE b.deferred = FALSE
  <2>1. r = [buffer |-> b, out |-> <<>>]
    BY <1>2 DEF SyncFailed
  <2> QED
    BY <1>1, <1>2, <2>1 DEF Handles, Delivers
<1>3. CASE b.deferred = TRUE
  <2>1. r = Opened(d)
    BY <1>3 DEF SyncFailed
  <2>2. p \subseteq b.pending /\ Faithful(p) /\ \A f \in p : f.seq \in Nat /\ f.seq >= frontier
    BY <1>1 DEF Faithful, Frames
  <2>3. b.next = 0 /\ m \in Nat /\ b.next <= m /\ frontier <= m /\ \A f \in p : m <= f.seq
    BY <1>1, <1>3, <2>2 DEF Larger, Waits, NoFrontier
  <2>4. d = [b EXCEPT !.pending = p, !.next = m]
    BY <1>1 DEF Pruned, Buffers
  <2> HIDE DEF p, d, m
  <2>5. d \in Buffers /\ d.next = m /\ d.pending = p
    BY <1>1, <2>2, <2>3, <2>4 DEF Buffers
  <2>6. Handles(d, r) /\ r.buffer.deferred = FALSE
    BY <2>1, <2>2, <2>3, <2>5, OpeningDelivers
  <2>7. m <= r.buffer.next /\ r.buffer.next \in Nat /\ Waits(r.buffer) /\ Delivers(r.out, m, r.buffer.next)
    BY <2>5, <2>6 DEF Handles, Waits, Buffers
  <2>8. \A i \in DOMAIN r.out : seqOf[r.out[i]] \in Nat /\ m <= seqOf[r.out[i]] /\ r.out[i] \in Numbered
    BY <2>7 DEF Delivers, Counted, NumbersRise, Numbered, NoFrontier
  <2>9. Delivers(r.out, b.next, r.buffer.next)
    BY <1>1, <2>3, <2>7, <2>8 DEF Delivers
  <2> QED
    BY <1>1, <2>3, <2>6, <2>7, <2>8, <2>9 DEF Handles
<1> QED
  BY <1>1, <1>2, <1>3

-----------------------------------------------------------------------------
(***************************************************************************)
(* What the buffer gives out is whole: it never expects more than Redis    *)
(* has numbered, and what it skips is missing.                             *)
(***************************************************************************)

\* What is given out without a hole ends below the counter.
LEMMA FilledIsCounted ==
  ASSUME Counted, NEW out, NEW lo \in Nat, NEW hi \in Nat, Delivers(out, lo, hi), Fills(out, lo, hi),
         lo <= counter, lo <= hi
  PROVE  hi <= counter
<1>1. CASE hi = lo
  BY <1>1
<1>2. CASE lo < hi
  <2>1. hi - 1 \in lo .. (hi - 1)
    BY <1>2
  <2>2. PICK e \in ToSet(out) : seqOf[e] = hi - 1
    BY <2>1 DEF Fills
  <2>3. e \in Numbered
    BY <2>2 DEF Delivers, ToSet
  <2>4. hi - 1 < counter /\ counter \in Nat
    BY <2>2, <2>3 DEF Counted
  <2> QED
    BY <2>4
<1> QED
  BY <1>1, <1>2

LEMMA ForcingReaches ==
  ASSUME Counted, NEW b \in Buffers, Faithful(b.pending), b.next <= counter
  PROVE  ForceFlush(b).buffer.next <= counter
<1>1. CASE b.pending = {}
  <2>1. ForceFlush(b).buffer = [b EXCEPT !.timer = FALSE]
    BY <1>1 DEF ForceFlush
  <2>2. ForceFlush(b).buffer.next = b.next
    BY <2>1 DEF Buffers
  <2> QED
    BY <2>2
<1>2. CASE b.pending # {}
  <2> DEFINE n == Greatest(Seqs(b.pending)) + 1
  <2>1. ForceFlush(b).buffer = [b EXCEPT !.next = n, !.pending = {}, !.timer = FALSE]
    BY <1>2 DEF ForceFlush
  <2>2. \E f \in b.pending : f.seq = Greatest(Seqs(b.pending))
    BY <1>2, SeqsHaveEnds DEF Counted
  <2>3. n <= counter
    BY <2>2 DEF Counted, Faithful, Frames
  <2> HIDE DEF n
  <2>4. ForceFlush(b).buffer.next = n
    BY <2>1 DEF Buffers
  <2> QED
    BY <2>3, <2>4
<1> QED
  BY <1>1, <1>2

LEMMA OpeningReaches ==
  ASSUME Counted, NEW b \in Buffers, Faithful(b.pending), \A f \in b.pending : b.next <= f.seq,
         b.next <= counter,
         NEW r, r = Opened(b)
  PROVE  r.buffer.next <= counter
<1>1. /\ Waits(r.buffer) /\ b.next <= r.buffer.next /\ Delivers(r.out, b.next, r.buffer.next)
      /\ Fills(r.out, b.next, r.buffer.next)
  BY OpeningDelivers DEF Handles
<1>2. b.next \in Nat /\ r.buffer.next \in Nat
  BY <1>1 DEF Waits, Buffers
<1> QED
  BY <1>1, <1>2, FilledIsCounted

LEMMA ReceivingReaches ==
  ASSUME Counted, NEW b, Waits(b), NEW f \in Frames, Faithful({f}), NEW terminal \in BOOLEAN,
         b.next <= counter
  PROVE  Receive(b, f, terminal).buffer.next <= counter
<1>1. /\ b \in Buffers /\ Faithful(b.pending) /\ b.next \in Nat /\ b.deferred \in BOOLEAN
      /\ f.seq \in Nat
  BY DEF Waits, Buffers, Frames
<1> DEFINE h == Held(b, f)
<1>2. /\ h \in Buffers /\ Faithful(h.pending) /\ h.next = b.next
      /\ f \in h.pending /\ \A g \in h.pending : g = f \/ g \in b.pending
  BY <1>1, HeldIsFaithful
<1> HIDE DEF h
<1>3. CASE b.deferred = TRUE
  <2>1. Receive(b, f, terminal).buffer = h
    BY <1>3 DEF Receive, h
  <2> QED
    BY <1>2, <2>1
<1>4. CASE b.deferred = FALSE /\ f.seq < b.next
  <2>1. Receive(b, f, terminal).buffer = b
    BY <1>1, <1>4 DEF Receive
  <2> QED
    BY <2>1
<1>5. CASE b.deferred = FALSE /\ f.seq = b.next
  <2> DEFINE r == FlushPending(h)
  <2>1. Receive(b, f, terminal) = r
    BY <1>1, <1>5 DEF Receive, h
  <2>2. \A g \in h.pending : h.next <= g.seq
    BY <1>1, <1>2, <1>5 DEF Waits, Faithful, Frames
  <2>3. /\ r.buffer \in Buffers /\ h.next <= r.buffer.next
        /\ Delivers(r.out, h.next, r.buffer.next) /\ Fills(r.out, h.next, r.buffer.next)
    BY <1>2, <2>2, FlushingDelivers DEF Counted
  <2> HIDE DEF r
  <2>4. r.buffer.next \in Nat /\ h.next \in Nat
    BY <1>2, <2>3 DEF Buffers
  <2>5. r.buffer.next <= counter
    BY <1>2, <2>3, <2>4, FilledIsCounted
  <2> QED
    BY <2>1, <2>5
<1>6. CASE b.deferred = FALSE /\ f.seq > b.next
  <2>1. Receive(b, f, terminal) = IF ~terminal /\ Cardinality(h.pending) >= MaxBuffer
              THEN ForceFlush(h) ELSE [buffer |-> [h EXCEPT !.timer = TRUE], out |-> <<>>]
    BY <1>1, <1>6 DEF Receive, h
  <2>2. ForceFlush(h).buffer.next <= counter
    BY <1>2, ForcingReaches
  <2>3. [h EXCEPT !.timer = TRUE].next = h.next
    BY <1>2 DEF Buffers
  <2> QED
    BY <1>2, <2>1, <2>2, <2>3
<1>7. b.deferred = TRUE \/ (b.deferred = FALSE /\ (f.seq < b.next \/ f.seq = b.next \/ f.seq > b.next))
  BY <1>1
<1> QED
  BY <1>3, <1>4, <1>5, <1>6, <1>7

\* A synchronization behind the fence fills what comes after the replay.
LEMMA SyncReaches ==
  ASSUME Counted, NEW b, Waits(b), NEW frontier \in Int, frontier >= NoFrontier, NEW n \in Nat,
         frontier <= counter, n <= counter, b.next <= counter,
         NEW r, r = Synced(b, frontier, n)
  PROVE  /\ r.buffer.next <= counter
         /\ b.deferred = TRUE /\ frontier # NoFrontier => Fills(r.out, frontier, r.buffer.next)
<1> DEFINE p == {f \in b.pending : f.seq >= frontier}
           c == [Pruned(b, frontier) EXCEPT !.timer = FALSE]
           ceiling == IF frontier # NoFrontier THEN frontier ELSE n
           reached == IF c.pending = {} THEN ceiling ELSE Smaller(ceiling, Least(Seqs(c.pending)))
           d == [c EXCEPT !.next = Larger(@, reached)]
<1>1. b \in Buffers /\ Faithful(b.pending) /\ b.next \in Nat /\ b.deferred \in BOOLEAN
  BY DEF Waits, Buffers
<1>2. /\ c \in Buffers /\ c.next = b.next /\ c.pending = p
  BY <1>1 DEF Pruned, Buffers
<1>3. r = Opened(d)
  BY DEF Synced
<1>4. p \subseteq b.pending /\ Faithful(p) /\ \A f \in p : f.seq \in Nat /\ f.seq >= frontier
  BY <1>1 DEF Faithful, Frames
<1>5. ceiling \in Nat /\ ceiling <= counter /\ counter \in Nat
  BY DEF NoFrontier, Counted
<1>6. p # {} => Least(Seqs(p)) \in Nat /\ (\A f \in p : Least(Seqs(p)) <= f.seq) /\ \E f \in p : f.seq = Least(Seqs(p))
  <2> SUFFICES ASSUME p # {} PROVE Least(Seqs(p)) \in Nat /\ (\A f \in p : Least(Seqs(p)) <= f.seq) /\ \E f \in p : f.seq = Least(Seqs(p))
    OBVIOUS
  <2> HIDE DEF p
  <2>1. Least(Seqs(p)) \in Nat /\ \A f \in p : Least(Seqs(p)) <= f.seq
    BY <1>4, SeqsHaveEnds DEF Counted
  <2>2. Seqs(p) \subseteq Nat /\ Seqs(p) # {}
    BY <1>4 DEF Seqs
  <2>3. Least(Seqs(p)) \in Seqs(p)
    BY <2>2, LeastNumber
  <2> QED
    BY <2>1, <2>3 DEF Seqs
<1> DEFINE least == Least(Seqs(p))
<1>8. frontier # NoFrontier => ceiling = frontier
  OBVIOUS
<1> HIDE DEF p, c, ceiling
<1>7. reached = IF p = {} THEN ceiling ELSE Smaller(ceiling, least)
  BY <1>2
<1> HIDE DEF least, reached
<1>9. /\ reached \in Nat /\ reached <= counter /\ \A f \in p : reached <= f.seq
      /\ frontier # NoFrontier => reached = frontier
  <2>1. CASE p = {}
    BY <1>5, <1>7, <1>8, <2>1
  <2>2. CASE p # {}
    <3>1. least \in Nat /\ (\A f \in p : least <= f.seq) /\ \E f \in p : f.seq = least
      BY <1>6, <2>2 DEF least
    <3>2. least >= frontier
      BY <1>4, <3>1
    <3> QED
      BY <1>4, <1>5, <1>7, <1>8, <2>2, <3>1, <3>2 DEF Smaller
  <2> QED
    BY <2>1, <2>2
<1> DEFINE m == Larger(b.next, reached)
<1>10. /\ m \in Nat /\ m <= counter /\ \A f \in p : m <= f.seq
       /\ b.deferred = TRUE /\ frontier # NoFrontier => m = frontier
  BY <1>1, <1>4, <1>9 DEF Larger, Waits
<1>11. d = [c EXCEPT !.next = m]
  BY <1>2
<1> HIDE DEF m, d
<1>12. d \in Buffers /\ d.next = m /\ d.pending = p
  BY <1>2, <1>10, <1>11 DEF Buffers
<1>13. r.buffer.next <= counter
  BY <1>3, <1>4, <1>10, <1>12, OpeningReaches
<1>14. Fills(r.out, m, r.buffer.next)
  BY <1>3, <1>4, <1>10, <1>12, OpeningDelivers
<1> QED
  BY <1>10, <1>13, <1>14

LEMMA FailedSyncReaches ==
  ASSUME Counted, NEW b, Waits(b), NEW frontier \in Int, frontier >= NoFrontier,
         frontier <= counter, b.next <= counter,
         NEW r, r = SyncFailed(b, frontier)
  PROVE  /\ r.buffer.next <= counter
         /\ b.deferred = TRUE /\ frontier # NoFrontier => Fills(r.out, frontier, r.buffer.next)
<1> DEFINE p == {f \in b.pending : f.seq >= frontier}
           d == [Pruned(b, frontier) EXCEPT !.next = Larger(@, frontier)]
           m == Larger(b.next, frontier)
<1>1. b \in Buffers /\ Faithful(b.pending) /\ b.next \in Nat /\ b.deferred \in BOOLEAN /\ counter \in Nat
  BY DEF Waits, Buffers, Counted
<1>2. CASE b.deferred = FALSE
  <2>1. r = [buffer |-> b, out |-> <<>>]
    BY <1>2 DEF SyncFailed
  <2> QED
    BY <1>2, <2>1
<1>3. CASE b.deferred = TRUE
  <2>1. r = Opened(d)
    BY <1>3 DEF SyncFailed
  <2>2. p \subseteq b.pending /\ Faithful(p) /\ \A f \in p : f.seq \in Nat /\ f.seq >= frontier
    BY <1>1 DEF Faithful, Frames
  <2>3. /\ m \in Nat /\ m <= counter /\ \A f \in p : m <= f.seq
        /\ frontier # NoFrontier => m = frontier
    BY <1>1, <1>3, <2>2 DEF Larger, Waits, NoFrontier
  <2>4. d = [b EXCEPT !.pending = p, !.next = m]
    BY <1>1 DEF Pruned, Buffers
  <2> HIDE DEF p, d, m
  <2>5. d \in Buffers /\ d.next = m /\ d.pending = p
    BY <1>1, <2>2, <2>3, <2>4 DEF Buffers
  <2>6. r.buffer.next <= counter
    BY <2>1, <2>2, <2>3, <2>5, OpeningReaches
  <2>7. Fills(r.out, m, r.buffer.next)
    BY <2>1, <2>2, <2>3, <2>5, OpeningDelivers
  <2> QED
    BY <2>3, <2>6, <2>7
<1> QED
  BY <1>1, <1>2, <1>3

-----------------------------------------------------------------------------
(***************************************************************************)
(* What a step leaves of the clients.                                      *)
(***************************************************************************)

\* The fields of a client that a step hands something, or moves.
LEMMA ClientFields ==
  ASSUME NEW k \in ClientStates
  PROVE  /\ k.at \in Places /\ k.view \in Seq(Events) /\ k.defers \in BOOLEAN /\ k.told \in BOOLEAN
         /\ k.served \in Int /\ k.checked \in BOOLEAN
         /\ \A v \in Seq(Events) :
              LET x == [k EXCEPT !.view = v]
              IN  /\ x \in ClientStates /\ x.view = v
                  /\ x.at = k.at /\ x.defers = k.defers /\ x.told = k.told
                  /\ x.served = k.served /\ x.checked = k.checked
         /\ \A a \in Places :
              LET x == [k EXCEPT !.at = a]
              IN  /\ x \in ClientStates /\ x.at = a
                  /\ x.view = k.view /\ x.defers = k.defers /\ x.told = k.told
                  /\ x.served = k.served /\ x.checked = k.checked
BY DEF ClientStates

\* What is shown of the events is part of them, in their order.
LEMMA ShownIsPart ==
  ASSUME NEW c \in Clients, NEW out \in Seq(Events)
  PROVE  /\ Shown(c, out) \in Seq(Events)
         /\ PartOf(Shown(c, out), out)
         /\ Closed(c) => Shown(c, out) = <<>>
         /\ ~Closed(c) => ToSet(out) \ {Created} \subseteq ToSet(Shown(c, out))
<1>1. CASE Closed(c)
  <2>1. Shown(c, out) = <<>>
    BY <1>1 DEF Shown
  <2> QED
    BY <1>1, <2>1 DEF PartOf
<1>2. CASE ~Closed(c)
  <2> DEFINE S == IF c \in Initial /\ Created \notin ToSet(client[c].view) THEN {} ELSE {Created}
  <2>1. Shown(c, out) = Without(out, S)
    BY <1>2 DEF Shown
  <2>2. S \subseteq {Created}
    OBVIOUS
  <2> HIDE DEF S
  <2>3. /\ Without(out, S) \in Seq(Events) /\ PartOf(Without(out, S), out)
        /\ ToSet(Without(out, S)) = ToSet(out) \ S
    BY WithoutKeeps
  <2> QED
    BY <1>2, <2>1, <2>2, <2>3
<1> QED
  BY <1>1, <1>2

LEMMA HandedClients ==
  ASSUME client \in [Clients -> ClientStates], NEW out \in Seq(Events), NEW S
  PROVE  /\ Handed(S, out) \in [Clients -> ClientStates]
         /\ \A c \in Clients :
              LET x == Handed(S, out)[c]
                  k == client[c]
              IN  /\ x.at = k.at /\ x.defers = k.defers /\ x.told = k.told
                  /\ x.served = k.served /\ x.checked = k.checked
                  /\ c \notin S => x = k
                  /\ c \in S => x.view = k.view \o Shown(c, out)
<1>1. ASSUME NEW c \in Clients, c \in S
      PROVE  Handed(S, out)[c] = [client[c] EXCEPT !.view = client[c].view \o Shown(c, out)]
  BY <1>1 DEF Handed
<1>2. ASSUME NEW c \in Clients, c \notin S PROVE Handed(S, out)[c] = client[c]
  BY <1>2 DEF Handed
<1>3. ASSUME NEW c \in Clients, c \in S
      PROVE  LET x == Handed(S, out)[c]
                 k == client[c]
             IN  /\ x \in ClientStates
                 /\ x.at = k.at /\ x.defers = k.defers /\ x.told = k.told
                 /\ x.served = k.served /\ x.checked = k.checked
                 /\ x.view = k.view \o Shown(c, out)
  <2> DEFINE v == client[c].view \o Shown(c, out)
  <2>1. client[c] \in ClientStates /\ client[c].view \in Seq(Events) /\ Shown(c, out) \in Seq(Events)
    BY ClientFields, ShownIsPart
  <2>2. v \in Seq(Events)
    BY <2>1
  <2>3. Handed(S, out)[c] = [client[c] EXCEPT !.view = v]
    BY <1>1, <1>3
  <2> HIDE DEF v
  <2>4. LET x == [client[c] EXCEPT !.view = v]
        IN  /\ x \in ClientStates /\ x.view = v
            /\ x.at = client[c].at /\ x.defers = client[c].defers /\ x.told = client[c].told
            /\ x.served = client[c].served /\ x.checked = client[c].checked
    BY <2>1, <2>2, ClientFields
  <2> QED
    BY <2>3, <2>4 DEF v
<1>4. \A c \in Clients : Handed(S, out)[c] \in ClientStates
  BY <1>2, <1>3
<1>5. Handed(S, out) = [c \in Clients |-> Handed(S, out)[c]]
  BY DEF Handed
<1>6. Handed(S, out) \in [Clients -> ClientStates]
  BY <1>4, <1>5
<1> QED
  BY <1>2, <1>3, <1>6

\* A client that is in place and closed goes.
Goes(k) == k.at = "attached" /\ Over(k)

\* What Left does with the clients; the last that goes resets the attachment.
LEMMA LeftClients ==
  ASSUME NEW clients \in [Clients -> ClientStates], NEW b, NEW hs \in BOOLEAN, Left(clients, b, hs)
  PROVE  /\ client' \in [Clients -> ClientStates]
         /\ \A c \in Clients :
              LET x == client'[c]
                  k == clients[c]
              IN  /\ x.view = k.view /\ x.defers = k.defers /\ x.told = k.told
                  /\ x.served = k.served /\ x.checked = k.checked
                  /\ Goes(k) => x.at = "left"
                  /\ ~Goes(k) => x.at = k.at
         /\ In(client') = {c \in In(clients) : ~Goes(clients[c])}
         /\ \/ /\ Subscribed # {} /\ In(client') = {}
               /\ buffer' = NewBuffer(FALSE) /\ attached' = FALSE /\ turn' = turn + 1
            \/ /\ Subscribed = {} \/ In(client') # {}
               /\ buffer' = b /\ attached' = hs /\ turn' = turn
<1>1. ASSUME NEW c \in Clients
      PROVE  LET x == client'[c]
                 k == clients[c]
             IN  /\ x \in ClientStates
                 /\ x.view = k.view /\ x.defers = k.defers /\ x.told = k.told
                 /\ x.served = k.served /\ x.checked = k.checked
                 /\ Goes(k) => x.at = "left"
                 /\ ~Goes(k) => x.at = k.at
  <2>1. client'[c] = IF Goes(clients[c]) THEN [clients[c] EXCEPT !.at = "left"] ELSE clients[c]
    BY DEF Left, Goes
  <2>2. clients[c] \in ClientStates /\ "left" \in Places
    BY DEF Places
  <2>3. LET x == [clients[c] EXCEPT !.at = "left"]
        IN  /\ x \in ClientStates /\ x.at = "left"
            /\ x.view = clients[c].view /\ x.defers = clients[c].defers /\ x.told = clients[c].told
            /\ x.served = clients[c].served /\ x.checked = clients[c].checked
    BY <2>2, ClientFields
  <2>4. CASE Goes(clients[c])
    <3>1. client'[c] = [clients[c] EXCEPT !.at = "left"]
      BY <2>1, <2>4
    <3> QED
      BY <2>3, <2>4, <3>1
  <2>5. CASE ~Goes(clients[c])
    BY <2>1, <2>2, <2>5
  <2> QED
    BY <2>4, <2>5
<1>2. client' \in [Clients -> ClientStates]
  <2>1. client' = [c \in Clients |-> client'[c]]
    BY DEF Left
  <2> QED
    BY <1>1, <2>1
<1>3. In(client') = {c \in In(clients) : ~Goes(clients[c])}
  <2>1. \A c \in Clients : c \in In(client') <=> client'[c].at \in {"reading", "booting", "attached"}
    BY DEF In
  <2>2. \A c \in Clients : c \in In(clients) <=> clients[c].at \in {"reading", "booting", "attached"}
    BY DEF In
  <2>3. In(client') \subseteq Clients /\ In(clients) \subseteq Clients
    BY DEF In
  <2> QED
    BY <1>1, <2>1, <2>2, <2>3
<1>4. \/ /\ Subscribed # {} /\ In(client') = {}
         /\ buffer' = NewBuffer(FALSE) /\ attached' = FALSE /\ turn' = turn + 1
      \/ /\ Subscribed = {} \/ In(client') # {}
         /\ buffer' = b /\ attached' = hs /\ turn' = turn
  BY DEF Left
<1> QED
  BY <1>1, <1>2, <1>3, <1>4

-----------------------------------------------------------------------------
(***************************************************************************)
(* The numbers.  What is issued and not yet executed is newer than what    *)
(* was executed or answered, in the order it was emitted; so the numbers   *)
(* rise with the events, and a frame carries the number of its event.      *)
(***************************************************************************)

\* Publications that are issued or coalesced, and not yet executed.
Queue == outbox \o batch

Rising(s) == \A i, j \in DOMAIN s : i < j => s[i] < s[j]

NumberInv ==
  /\ Counted
  /\ Faithful(net)
  /\ \A e \in Numbered \cup answered : e <= emitted
  /\ Rising(Queue)
  /\ \A i \in DOMAIN Queue : Queue[i] <= emitted /\ \A e \in Numbered \cup answered : e < Queue[i]

\* The types of what the run, Redis and the network hold.
RunTypes ==
  /\ counter \in Nat /\ emitted \in 0 .. LastEvent
  /\ batch \in Seq(Events) /\ outbox \in Seq(Events)
  /\ seqOf \in [Events -> Nat \cup {NoFrontier}]
  /\ answered \subseteq Events /\ net \subseteq Frames

LEMMA QueueParts ==
  ASSUME RunTypes
  PROVE  /\ Queue \in Seq(Events)
         /\ \A e \in Events : /\ outbox \o Append(batch, e) = Append(Queue, e)
                              /\ outbox \o Append(batch, e) \in Seq(Events)
                              /\ outbox \o Append(batch, e) \o <<>> = Append(Queue, e)
                              /\ Append(batch, e) \in Seq(Events)
         /\ Queue \o <<>> = Queue
         /\ outbox # <<>> => /\ Queue # <<>> /\ Head(Queue) = Head(outbox)
                             /\ Tail(outbox) \in Seq(Events) /\ Head(outbox) \in Events
                             /\ Tail(outbox) \o batch = Tail(Queue)
<1>1. outbox \in Seq(Events) /\ batch \in Seq(Events)
  BY DEF RunTypes
<1>2. Queue \in Seq(Events) /\ Queue \o <<>> = Queue
  BY <1>1 DEF Queue
<1>3. ASSUME NEW e \in Events
      PROVE  /\ Append(batch, e) \in Seq(Events)
             /\ outbox \o Append(batch, e) \in Seq(Events)
             /\ outbox \o Append(batch, e) = Append(Queue, e)
             /\ outbox \o Append(batch, e) \o <<>> = Append(Queue, e)
  <2>1. Append(batch, e) \in Seq(Events) /\ outbox \o Append(batch, e) \in Seq(Events)
    BY <1>1
  <2>2. outbox \o Append(batch, e) = Append(outbox \o batch, e)
    BY <1>1
  <2>3. (outbox \o Append(batch, e)) \o <<>> = outbox \o Append(batch, e)
    BY <2>1, ConcatEmptySeq
  <2> QED
    BY <2>1, <2>2, <2>3 DEF Queue
<1>4. ASSUME outbox # <<>>
      PROVE  /\ Queue # <<>> /\ Head(Queue) = Head(outbox)
             /\ Tail(outbox) \in Seq(Events) /\ Head(outbox) \in Events
             /\ Tail(outbox) \o batch = Tail(Queue)
  BY <1>1, <1>4 DEF Queue
<1> QED
  BY <1>2, <1>3, <1>4

\* What a step does to the run, Redis and the network.
Quiet == UNCHANGED <<counter, seqOf, answered, net>>

RunMoves ==
  \/ Quiet /\ Queue' = Queue /\ emitted' = emitted
  \/ Quiet /\ emitted' = emitted + 1 /\ Queue' = Append(Queue, emitted + 1)
  \/ /\ Queue # <<>> /\ Queue' = Tail(Queue) /\ emitted' = emitted /\ answered' = answered
     /\ seqOf' = [seqOf EXCEPT ![Head(Queue)] = counter]
     /\ net' = net \cup {[seq |-> counter, event |-> Head(Queue)]}
     /\ counter' = counter + 1
  \/ /\ Queue # <<>> /\ Queue' = Tail(Queue) /\ UNCHANGED <<emitted, counter, seqOf, net>>
     /\ answered' = answered \cup {Head(Queue)}
  \/ /\ UNCHANGED <<emitted, counter, seqOf, net>> /\ Queue' = Queue
     /\ \E e \in Numbered : answered' = answered \cup {e}
  \/ UNCHANGED <<emitted, counter, seqOf, answered>> /\ Queue' = Queue /\ net' \subseteq net

LEMMA RunStep ==
  ASSUME RunTypes, [Next]_vars
  PROVE  RunMoves /\ RunTypes'
<1>1. /\ LastEvent \in Nat /\ LastEvent >= 2 /\ emitted \in Nat
      /\ counter \in Nat /\ batch \in Seq(Events) /\ outbox \in Seq(Events)
      /\ seqOf \in [Events -> Nat \cup {NoFrontier}] /\ answered \subseteq Events /\ net \subseteq Frames
  BY BoundsAssumption DEF RunTypes
<1>2. ASSUME NEW e \in Events, e = emitted + 1, emitted' = e, Quiet,
             Published(e) \/ Coalesced(e)
      PROVE  RunMoves /\ RunTypes'
  <2>1. CASE Published(e)
    <3>1. outbox' = outbox \o Append(batch, e) /\ batch' = <<>>
      BY <2>1 DEF Published
    <3>2. Queue' = Append(Queue, e) /\ outbox' \in Seq(Events) /\ batch' \in Seq(Events)
      BY <3>1, QueueParts DEF Queue
    <3> QED
      BY <1>1, <1>2, <3>2 DEF RunMoves, RunTypes, Quiet, Events
  <2>2. CASE Coalesced(e)
    <3>1. outbox' = outbox /\ batch' = Append(batch, e)
      BY <2>2 DEF Coalesced
    <3>2. Queue' = Append(Queue, e) /\ outbox' \in Seq(Events) /\ batch' \in Seq(Events)
      BY <1>1, <3>1, QueueParts DEF Queue
    <3> QED
      BY <1>1, <1>2, <3>2 DEF RunMoves, RunTypes, Quiet, Events
  <2> QED
    BY <1>2, <2>1, <2>2
<1>3. CASE Emit
  <2>1. /\ emitted + 1 \in Events /\ emitted' = emitted + 1 /\ Quiet
        /\ Published(emitted + 1) \/ Coalesced(emitted + 1)
    BY <1>1, <1>3 DEF Emit, Events, outside, Quiet
  <2> QED
    BY <1>2, <2>1
<1>4. CASE EmitDone
  <2>1. emitted + 1 = LastEvent /\ LastEvent \in Events /\ emitted' = LastEvent /\ Quiet /\ Published(LastEvent)
    BY <1>1, <1>4 DEF EmitDone, Events, outside, Quiet
  <2> QED
    BY <1>2, <2>1
<1>5. CASE FlushWindow
  <2>1. /\ outbox' = Queue /\ batch' = <<>> /\ emitted' = emitted /\ Quiet
    BY <1>5 DEF FlushWindow, outside, Quiet, Queue
  <2>2. Queue' = Queue /\ outbox' \in Seq(Events) /\ batch' \in Seq(Events)
    BY <2>1, QueueParts DEF Queue
  <2> QED
    BY <2>1, <2>2 DEF RunMoves, RunTypes, Quiet
<1>6. CASE Execute
  <2>1. /\ outbox # <<>> /\ outbox' = Tail(outbox) /\ batch' = batch
        /\ seqOf' = [seqOf EXCEPT ![Head(outbox)] = counter]
        /\ net' = net \cup {[seq |-> counter, event |-> Head(outbox)]}
        /\ counter' = counter + 1 /\ emitted' = emitted /\ answered' = answered
    BY <1>6 DEF Execute
  <2>2. /\ Queue # <<>> /\ Head(Queue) = Head(outbox) /\ Tail(outbox) \in Seq(Events)
        /\ Head(outbox) \in Events /\ Queue' = Tail(Queue)
    BY <2>1, QueueParts DEF Queue
  <2>3. RunTypes'
    BY <1>1, <2>1, <2>2 DEF RunTypes, Frames
  <2> QED
    BY <2>1, <2>2, <2>3 DEF RunMoves
<1>7. CASE PublicationFails
  <2>1. /\ outbox # <<>> /\ outbox' = Tail(outbox) /\ batch' = batch
        /\ answered' = answered \cup {Head(outbox)}
        /\ UNCHANGED <<emitted, counter, seqOf, net>>
    BY <1>7 DEF PublicationFails, outside
  <2>2. /\ Queue # <<>> /\ Head(Queue) = Head(outbox) /\ Tail(outbox) \in Seq(Events)
        /\ Head(outbox) \in Events /\ Queue' = Tail(Queue)
    BY <2>1, QueueParts DEF Queue
  <2> QED
    BY <1>1, <2>1, <2>2 DEF RunMoves, RunTypes
<1>8. ASSUME NEW e \in Events, Answer(e) PROVE RunMoves /\ RunTypes'
  <2>1. /\ e \in Numbered /\ answered' = answered \cup {e}
        /\ UNCHANGED <<emitted, counter, seqOf, net, outbox, batch>>
    BY <1>8 DEF Answer, outside, Numbered
  <2> QED
    BY <1>1, <2>1 DEF RunMoves, RunTypes, Queue
<1>9. ASSUME UNCHANGED <<emitted, counter, seqOf, answered, outbox, batch>>, net' \subseteq net
      PROVE  RunMoves /\ RunTypes'
  BY <1>1, <1>9 DEF RunMoves, RunTypes, Queue
<1>10. ASSUME NEW f \in net, Lose(f) \/ Arrive(f) PROVE RunMoves /\ RunTypes'
  BY <1>9, <1>10 DEF Lose, Arrive, run
<1>11. CASE FlushTimeout
  BY <1>9, <1>11 DEF FlushTimeout, run, outside
<1>12. ASSUME NEW c \in Clients,
              \/ Ready(c) \/ PassFence(c) \/ Bootstrap(c) \/ CheckFails(c) \/ ContinueBootstrap(c)
              \/ ReadCounter(c) \/ ReadFails(c) \/ ApplyCounter(c) \/ CheckStored(c)
              \/ Subscribe(c) \/ Leave(c)
       PROVE  RunMoves /\ RunTypes'
  <2>1. UNCHANGED <<outside, run>>
    BY <1>12 DEF Ready, PassFence, Bootstrap, CheckFails, ContinueBootstrap, Replay, ReadCounter, ReadFails,
                 ApplyCounter, CheckStored, Subscribe, Leave
  <2> QED
    BY <1>9, <2>1 DEF outside, run
<1>13. CASE UNCHANGED vars
  BY <1>9, <1>13 DEF vars
<1> QED
  BY <1>3, <1>4, <1>5, <1>6, <1>7, <1>8, <1>10, <1>11, <1>12, <1>13 DEF Next, SystemStep

\* Tail and Append of a list, by the members.
LEMMA ListSteps ==
  ASSUME NEW s \in Seq(Events)
  PROVE  /\ s # <<>> =>
              /\ Tail(s) \in Seq(Events) /\ Head(s) \in Events /\ 1 \in DOMAIN s /\ s[1] = Head(s)
              /\ \A i \in DOMAIN Tail(s) : i + 1 \in DOMAIN s /\ Tail(s)[i] = s[i + 1]
         /\ \A e \in Events :
              /\ Append(s, e) \in Seq(Events)
              /\ DOMAIN Append(s, e) = DOMAIN s \cup {Len(s) + 1}
              /\ Append(s, e)[Len(s) + 1] = e
              /\ \A i \in DOMAIN s : Append(s, e)[i] = s[i] /\ i < Len(s) + 1
         /\ DOMAIN s \subseteq Nat \ {0} /\ Len(s) \in Nat
OBVIOUS

LEMMA NumbersStep ==
  ASSUME RunTypes, NumberInv, RunMoves, RunTypes'
  PROVE  /\ NumberInv'
         /\ Numbered \subseteq Numbered' /\ \A e \in Numbered : seqOf'[e] = seqOf[e]
<1>1. /\ NumbersRise /\ counter \in Nat /\ \A e \in Numbered : seqOf[e] \in Nat /\ seqOf[e] < counter
      /\ Faithful(net)
      /\ \A e \in Numbered \cup answered : e \in Events /\ e <= emitted
      /\ Rising(Queue)
      /\ \A i \in DOMAIN Queue : Queue[i] <= emitted /\ \A e \in Numbered \cup answered : e < Queue[i]
      /\ Numbered \subseteq Events
  BY DEF NumberInv, Counted, NumbersRise, Numbered, RunTypes, NoFrontier
<1>2. /\ Queue \in Seq(Events) /\ emitted \in Nat /\ Events \subseteq Nat /\ emitted' \in 0 .. LastEvent
      /\ seqOf \in [Events -> Nat \cup {NoFrontier}]
  BY BoundsAssumption, QueueParts DEF RunTypes, Events
<1>3. ASSUME seqOf' = seqOf
      PROVE  /\ Numbered' = Numbered /\ NumbersRise' = NumbersRise
             /\ \A F : (Faithful(F) <=> \A f \in F : f \in Frames /\ f.event \in Numbered' /\ seqOf'[f.event] = f.seq)
  BY <1>3 DEF Numbered, NumbersRise, Faithful
<1>4. CASE Quiet /\ Queue' = Queue /\ emitted' = emitted
  <2>1. seqOf' = seqOf /\ counter' = counter /\ answered' = answered /\ net' = net
    BY <1>4 DEF Quiet
  <2> QED
    BY <1>1, <1>3, <1>4, <2>1 DEF NumberInv, Counted, Faithful, Rising
<1>5. CASE Quiet /\ emitted' = emitted + 1 /\ Queue' = Append(Queue, emitted + 1)
  <2>1. seqOf' = seqOf /\ counter' = counter /\ answered' = answered /\ net' = net
    BY <1>5 DEF Quiet
  <2>2. emitted + 1 \in Events
    BY <1>2, <1>5, BoundsAssumption DEF Events
  <2>3. /\ DOMAIN Queue' = DOMAIN Queue \cup {Len(Queue) + 1}
        /\ Queue'[Len(Queue) + 1] = emitted + 1
        /\ \A i \in DOMAIN Queue : Queue'[i] = Queue[i] /\ i < Len(Queue) + 1
        /\ DOMAIN Queue \subseteq Nat /\ Len(Queue) \in Nat
    BY <1>2, <1>5, <2>2, ListSteps
  <2>4. \A i \in DOMAIN Queue : Queue[i] \in Nat
    BY <1>2
  <2>5. Rising(Queue)'
    <3> SUFFICES ASSUME NEW i \in DOMAIN Queue', NEW j \in DOMAIN Queue', i < j PROVE Queue'[i] < Queue'[j]
      BY DEF Rising
    <3>1. i \in DOMAIN Queue
      BY <2>3
    <3>2. CASE j \in DOMAIN Queue
      BY <1>1, <2>3, <3>1, <3>2 DEF Rising
    <3>3. CASE j = Len(Queue) + 1
      BY <1>1, <1>2, <2>3, <2>4, <3>1, <3>3
    <3> QED
      BY <2>3, <3>2, <3>3
  <2>6. \A e \in Numbered \cup answered : e <= emitted /\ e \in Nat
    BY <1>1, <1>2
  <2>7. \A i \in DOMAIN Queue' : Queue'[i] <= emitted' /\ \A e \in Numbered \cup answered : e < Queue'[i]
    <3> SUFFICES ASSUME NEW i \in DOMAIN Queue'
                 PROVE  Queue'[i] <= emitted' /\ \A e \in Numbered \cup answered : e < Queue'[i]
      OBVIOUS
    <3>1. CASE i \in DOMAIN Queue
      BY <1>1, <1>2, <1>5, <2>3, <2>4, <3>1
    <3>2. CASE i = Len(Queue) + 1
      BY <1>2, <1>5, <2>3, <2>6, <3>2
    <3> QED
      BY <2>3, <3>1, <3>2
  <2>8. \A e \in Numbered \cup answered : e <= emitted'
    BY <1>2, <1>5, <2>6
  <2>9. Numbered' = Numbered /\ Counted' /\ Faithful(net)'
    BY <1>1, <1>3, <2>1 DEF Counted, Faithful
  <2> QED
    BY <1>3, <2>1, <2>5, <2>7, <2>8, <2>9 DEF NumberInv
<1>6. ASSUME Queue # <<>>, Queue' = Tail(Queue), emitted' = emitted,
             Numbered' \cup answered' = Numbered \cup answered \cup {Head(Queue)}
      PROVE  /\ Rising(Queue)'
             /\ \A e \in Numbered' \cup answered' : e <= emitted'
             /\ \A i \in DOMAIN Queue' : Queue'[i] <= emitted' /\ \A e \in Numbered' \cup answered' : e < Queue'[i]
  <2>1. /\ 1 \in DOMAIN Queue /\ Queue[1] = Head(Queue)
        /\ \A i \in DOMAIN Queue' : i \in Nat \ {0} /\ i + 1 \in DOMAIN Queue /\ Queue'[i] = Queue[i + 1]
    <3>1. Tail(Queue) \in Seq(Events)
      BY <1>2, <1>6, ListSteps
    <3>2. DOMAIN Tail(Queue) \subseteq Nat \ {0}
      BY <3>1, ListSteps
    <3> QED
      BY <1>2, <1>6, <3>2, ListSteps
  <2>2. \A i, j \in DOMAIN Queue' : i < j => Queue'[i] < Queue'[j]
    BY <1>1, <2>1 DEF Rising
  <2>3. \A i \in DOMAIN Queue' : Head(Queue) < Queue'[i]
    BY <1>1, <2>1 DEF Rising
  <2>4. \A i \in DOMAIN Queue' : Queue'[i] <= emitted /\ \A e \in Numbered \cup answered : e < Queue'[i]
    BY <1>1, <2>1
  <2>5. Head(Queue) <= emitted
    BY <1>1, <2>1
  <2> QED
    BY <1>1, <1>6, <2>2, <2>3, <2>4, <2>5 DEF Rising
<1>7. CASE /\ Queue # <<>> /\ Queue' = Tail(Queue) /\ emitted' = emitted /\ answered' = answered
           /\ seqOf' = [seqOf EXCEPT ![Head(Queue)] = counter]
           /\ net' = net \cup {[seq |-> counter, event |-> Head(Queue)]}
           /\ counter' = counter + 1
  <2> DEFINE h == Head(Queue)
  <2>1. h \in Events /\ 1 \in DOMAIN Queue /\ Queue[1] = h
    BY <1>2, <1>7, ListSteps
  <2>2. \A e \in Numbered : e < h
    BY <1>1, <2>1
  <2>3. h \notin Numbered
    BY <1>2, <2>1, <2>2
  <2> HIDE DEF h
  <2>4. /\ \A e \in Events : seqOf'[e] = IF e = h THEN counter ELSE seqOf[e]
        /\ seqOf' \in [Events -> Nat \cup {NoFrontier}]
    BY <1>1, <1>2, <1>7, <2>1 DEF h
  <2>5. Numbered' = Numbered \cup {h}
    BY <1>1, <2>1, <2>4 DEF Numbered, NoFrontier
  <2>6. \A e \in Numbered : seqOf'[e] = seqOf[e]
    BY <1>1, <2>3, <2>4
  <2>7. \A e, f \in Numbered' : e < f => seqOf'[e] < seqOf'[f]
    <3> SUFFICES ASSUME NEW e \in Numbered', NEW f \in Numbered', e < f PROVE seqOf'[e] < seqOf'[f]
      OBVIOUS
    <3>1. CASE e \in Numbered /\ f \in Numbered
      BY <1>1, <2>6, <3>1 DEF NumbersRise
    <3>2. CASE e \in Numbered /\ f = h
      BY <1>1, <2>1, <2>4, <2>6, <3>2
    <3>3. CASE e = h
      <4>1. f = h \/ f < h
        BY <2>2, <2>5
      <4> QED
        BY <1>1, <1>2, <2>1, <2>5, <3>3, <4>1
    <3> QED
      BY <2>5, <3>1, <3>2, <3>3
  <2>8. \A e \in Numbered' : seqOf'[e] < counter'
    BY <1>1, <1>7, <2>1, <2>4, <2>5, <2>6
  <2>9. Counted'
    BY <1>1, <1>7, <2>4, <2>7, <2>8 DEF Counted, NumbersRise
  <2>10. Faithful(net)'
    <3> SUFFICES ASSUME NEW f \in net' PROVE f \in Frames /\ f.event \in Numbered' /\ seqOf'[f.event] = f.seq
      BY DEF Faithful
    <3>1. CASE f \in net
      BY <1>1, <2>5, <2>6, <3>1 DEF Faithful
    <3>2. CASE f = [seq |-> counter, event |-> h]
      BY <1>1, <2>1, <2>4, <2>5, <3>2 DEF Frames
    <3> QED
      BY <1>7, <3>1, <3>2 DEF h
  <2>11. Numbered' \cup answered' = Numbered \cup answered \cup {Head(Queue)}
    BY <1>7, <2>5 DEF h
  <2>12. /\ Rising(Queue)'
         /\ \A e \in Numbered' \cup answered' : e <= emitted'
         /\ \A i \in DOMAIN Queue' : Queue'[i] <= emitted' /\ \A e \in Numbered' \cup answered' : e < Queue'[i]
    BY <1>6, <1>7, <2>11
  <2> QED
    BY <2>5, <2>6, <2>9, <2>10, <2>12 DEF NumberInv
<1>8. CASE /\ Queue # <<>> /\ Queue' = Tail(Queue) /\ UNCHANGED <<emitted, counter, seqOf, net>>
           /\ answered' = answered \cup {Head(Queue)}
  <2>1. /\ Rising(Queue)'
        /\ \A e \in Numbered' \cup answered' : e <= emitted'
        /\ \A i \in DOMAIN Queue' : Queue'[i] <= emitted' /\ \A e \in Numbered' \cup answered' : e < Queue'[i]
    BY <1>3, <1>6, <1>8
  <2>2. Numbered' = Numbered /\ Counted' /\ Faithful(net)'
    BY <1>1, <1>3, <1>8 DEF Counted, Faithful
  <2> QED
    BY <1>8, <2>1, <2>2 DEF NumberInv
<1>9. CASE /\ UNCHANGED <<emitted, counter, seqOf, net>> /\ Queue' = Queue
           /\ \E e \in Numbered : answered' = answered \cup {e}
  <2>1. Numbered' \cup answered' = Numbered \cup answered
    BY <1>3, <1>9
  <2>2. Counted' /\ Faithful(net)' /\ Numbered' = Numbered
    BY <1>1, <1>3, <1>9 DEF Counted, Faithful
  <2> QED
    BY <1>1, <1>9, <2>1, <2>2 DEF NumberInv, Rising
<1>10. CASE UNCHANGED <<emitted, counter, seqOf, answered>> /\ Queue' = Queue /\ net' \subseteq net
  <2>1. Counted' /\ Faithful(net)' /\ Numbered' = Numbered
    BY <1>1, <1>3, <1>10 DEF Counted, Faithful
  <2> QED
    BY <1>1, <1>10, <2>1 DEF NumberInv, Rising
<1> QED
  BY <1>4, <1>5, <1>7, <1>8, <1>9, <1>10 DEF RunMoves

-----------------------------------------------------------------------------
(***************************************************************************)
(* The types, and a buffer that always waits for something.                *)
(***************************************************************************)

BaseInv ==
  /\ TypeOK
  /\ NumberInv
  /\ Waits(buffer)
  /\ \A c \in Clients : boot[c].frontier >= NoFrontier

LEMMA NewBufferWaits ==
  ASSUME NEW d \in BOOLEAN
  PROVE  /\ Waits(NewBuffer(d)) /\ NewBuffer(d).deferred = d
         /\ NewBuffer(d).pending = {} /\ NewBuffer(d).next = 0
BY DEF NewBuffer, Waits, Buffers, Faithful

\* What waits goes on waiting when more events get a number.
LEMMA WaitsStays ==
  ASSUME NEW b, Waits(b), Numbered \subseteq Numbered', \A e \in Numbered : seqOf'[e] = seqOf[e],
         buffer' = b
  PROVE  Waits(buffer)'
BY DEF Waits, Faithful, Buffers

\* The clients once c is in place.
LEMMA InPlaceClients ==
  ASSUME NEW clients \in [Clients -> ClientStates], NEW c \in Clients
  PROVE  /\ InPlace(c, clients) \in [Clients -> ClientStates]
         /\ InPlace(c, clients)[c].at = "attached"
         /\ \A d \in Clients :
              LET x == InPlace(c, clients)[d]
                  k == clients[d]
              IN  /\ x.view = k.view /\ x.defers = k.defers /\ x.served = k.served /\ x.checked = k.checked
                  /\ k.told = TRUE => x.told = TRUE
                  /\ d # c => x = k
<1> DEFINE t == clients[c].told
                \/ (overflowed /\ c \in Initial /\ emitted < LastEvent /\ ~Over(clients[c]))
<1>1. InPlace(c, clients) = [clients EXCEPT ![c] = [clients[c] EXCEPT !.at = "attached", !.told = t]]
  BY DEF InPlace
<1>2. t \in BOOLEAN
  BY ClientFields
<1>4. clients[c].told = TRUE => t = TRUE
  BY Zenon
<1> HIDE DEF t
<1>3. LET x == [clients[c] EXCEPT !.at = "attached", !.told = t]
      IN  /\ x \in ClientStates /\ x.at = "attached" /\ x.told = t
          /\ x.view = clients[c].view /\ x.defers = clients[c].defers
          /\ x.served = clients[c].served /\ x.checked = clients[c].checked
  BY <1>2 DEF ClientStates, Places
<1> QED
  BY <1>1, <1>3, <1>4

\* Whoever is subscribed was given what goes out, and nothing else changed but
\* where a client is and what it was told.
Given(clients, out) ==
  /\ clients \in [Clients -> ClientStates]
  /\ \A c \in Clients :
       LET x == clients[c]
           k == client[c]
       IN  /\ x.defers = k.defers /\ x.served = k.served /\ x.checked = k.checked
           /\ k.told = TRUE => x.told = TRUE
           /\ c \in Subscribed => x.view = k.view \o Shown(c, out)
           /\ c \notin Subscribed => x.view = k.view

LEMMA HandedGives ==
  ASSUME client \in [Clients -> ClientStates], NEW out \in Seq(Events)
  PROVE  /\ Given(Handed(Subscribed, out), out)
         /\ \A c \in Clients : Handed(Subscribed, out)[c].at = client[c].at
BY HandedClients DEF Given

\* A frame arrives, or the flush timer fires.
LEMMA Arrivals ==
  ASSUME BaseInv,
         \/ FlushTimeout
         \/ Subscribed # {} /\ \E f \in net : Arrive(f)
  PROVE  \E r : /\ Handles(buffer, r) /\ r.buffer.deferred = buffer.deferred
                /\ buffer.deferred = TRUE => r.out = <<>>
                /\ Given(Handed(Subscribed, r.out), r.out)
                /\ Left(Handed(Subscribed, r.out), r.buffer, attached)
                /\ boot' = boot /\ early' = early /\ closed' = closed
                /\ buffer.next <= counter => r.buffer.next <= counter
                /\ missing' = missing \cup Skipped(r.buffer.next, r.out)
<1>1. Waits(buffer) /\ Counted /\ Faithful(net) /\ net \subseteq Frames /\ client \in [Clients -> ClientStates]
  BY DEF BaseInv, TypeOK, NumberInv
<1>2. CASE FlushTimeout
  <2>1. /\ buffer.timer = TRUE /\ boot' = boot /\ early' = early /\ closed' = closed
        /\ Left(Handed(Subscribed, ForceFlush(buffer).out), ForceFlush(buffer).buffer, attached)
        /\ missing' = missing \cup Skipped(ForceFlush(buffer).buffer.next, ForceFlush(buffer).out)
    BY <1>1, <1>2 DEF FlushTimeout, kept, Waits, Buffers
  <2>2. /\ buffer \in Buffers /\ buffer.deferred = FALSE /\ Faithful(buffer.pending)
        /\ \A f \in buffer.pending : buffer.next <= f.seq
    BY <1>1, <2>1 DEF Waits, Buffers, Faithful, Frames
  <2>3. Handles(buffer, ForceFlush(buffer)) /\ ForceFlush(buffer).buffer.deferred = FALSE
    BY <1>1, <2>2, ForcingDelivers
  <2>4. ForceFlush(buffer).out \in Seq(Events)
    BY <2>3 DEF Handles, Delivers
  <2>5. buffer.next <= counter => ForceFlush(buffer).buffer.next <= counter
    BY <1>1, <2>2, ForcingReaches
  <2> QED
    BY <1>1, <2>1, <2>2, <2>3, <2>4, <2>5, HandedGives
<1>3. ASSUME NEW f \in net, Arrive(f), Subscribed # {}
      PROVE  \E r : /\ Handles(buffer, r) /\ r.buffer.deferred = buffer.deferred
                    /\ buffer.deferred = TRUE => r.out = <<>>
                    /\ Given(Handed(Subscribed, r.out), r.out)
                    /\ Left(Handed(Subscribed, r.out), r.buffer, attached)
                    /\ boot' = boot /\ early' = early /\ closed' = closed
                    /\ buffer.next <= counter => r.buffer.next <= counter
                    /\ missing' = missing \cup Skipped(r.buffer.next, r.out)
  <2> DEFINE last == f.event = LastEvent
             r == Receive(buffer, f, last)
  <2>1. /\ Left(Handed(Subscribed, r.out), r.buffer, attached)
        /\ boot' = boot /\ early' = early /\ closed' = closed
        /\ missing' = missing \cup Skipped(r.buffer.next, r.out)
    BY <1>3 DEF Arrive, kept
  <2>2. f \in Frames /\ Faithful({f}) /\ last \in BOOLEAN
    BY <1>1 DEF Faithful
  <2> HIDE DEF last
  <2>3. /\ Handles(buffer, r) /\ r.buffer.deferred = buffer.deferred
        /\ buffer.deferred = TRUE => r.out = <<>>
    BY <1>1, <2>2, ReceivingDelivers
  <2>5. buffer.next <= counter => r.buffer.next <= counter
    BY <1>1, <2>2, ReceivingReaches
  <2> HIDE DEF r
  <2>4. r.out \in Seq(Events)
    BY <2>3 DEF Handles, Delivers
  <2> QED
    BY <1>1, <2>1, <2>3, <2>4, <2>5, HandedGives
<1> QED
  BY <1>2, <1>3

\* A synchronization hands out what it delivers; its client is in place then.
LEMMA SynchronizedClients ==
  ASSUME client \in [Clients -> ClientStates], NEW c \in Clients, NEW synced, Synchronized(c, synced),
         synced.out \in Seq(Events)
  PROVE  \E clients :
           /\ Given(clients, synced.out)
           /\ \A d \in Clients : clients[d].at = IF d = c /\ client[c].at = "booting" THEN "attached"
                                                 ELSE client[d].at
           /\ Left(clients, synced.buffer, attached)
           /\ boot' = [boot EXCEPT ![c] = NoBoot]
<1> DEFINE shown == Handed(Subscribed, synced.out)
           clients == IF client[c].at = "booting" THEN InPlace(c, shown) ELSE shown
<1>1. Left(clients, synced.buffer, attached) /\ boot' = [boot EXCEPT ![c] = NoBoot]
  BY DEF Synchronized
<1>2. synced.out \in Seq(Events)
  OBVIOUS
<1>3. Given(shown, synced.out) /\ \A d \in Clients : shown[d].at = client[d].at
  BY <1>2, HandedGives
<1>4. shown \in [Clients -> ClientStates]
  BY <1>3 DEF Given
<1> HIDE DEF shown
<1>5. /\ InPlace(c, shown) \in [Clients -> ClientStates] /\ InPlace(c, shown)[c].at = "attached"
      /\ \A d \in Clients :
           LET x == InPlace(c, shown)[d]
               k == shown[d]
           IN  /\ x.view = k.view /\ x.defers = k.defers /\ x.served = k.served /\ x.checked = k.checked
               /\ k.told = TRUE => x.told = TRUE
               /\ d # c => x = k
  BY <1>4, InPlaceClients
<1>6. /\ Given(clients, synced.out)
      /\ \A d \in Clients : clients[d].at = IF d = c /\ client[c].at = "booting" THEN "attached"
                                            ELSE client[d].at
  <2>1. CASE client[c].at = "booting"
    <3> DEFINE placed == InPlace(c, shown)
    <3>1. clients = placed
      BY <2>1
    <3>2. /\ placed \in [Clients -> ClientStates] /\ placed[c].at = "attached"
          /\ \A d \in Clients :
               LET x == placed[d]
                   k == shown[d]
               IN  /\ x.view = k.view /\ x.defers = k.defers /\ x.served = k.served /\ x.checked = k.checked
                   /\ k.told = TRUE => x.told = TRUE
                   /\ d # c => x = k
      BY <1>5
    <3> HIDE DEF placed, clients
    <3>3. /\ placed \in [Clients -> ClientStates]
          /\ \A d \in Clients :
               LET x == placed[d]
                   k == client[d]
               IN  /\ x.defers = k.defers /\ x.served = k.served /\ x.checked = k.checked
                   /\ k.told = TRUE => x.told = TRUE
                   /\ d \in Subscribed => x.view = k.view \o Shown(d, synced.out)
                   /\ d \notin Subscribed => x.view = k.view
      BY <1>3, <3>2 DEF Given
    <3>4. \A d \in Clients : placed[d].at = IF d = c /\ client[c].at = "booting" THEN "attached"
                                              ELSE client[d].at
      BY <1>3, <2>1, <3>2
    <3>5. Given(placed, synced.out)
      BY <3>3 DEF Given
    <3> QED
      BY <3>1, <3>4, <3>5
  <2>2. CASE client[c].at # "booting"
    BY <1>3, <2>2
  <2> QED
    BY <2>1, <2>2
<1> HIDE DEF clients
<1> QED
  BY <1>1, <1>6

\* The counter was read, or could not be: the fence opens, and what comes after
\* the replay goes out without a hole.
Resumes(c, r) ==
  buffer.next <= counter /\ boot[c].frontier <= counter /\ boot[c].counter <= counter =>
    /\ r.buffer.next <= counter
    /\ buffer.deferred = TRUE /\ boot[c].frontier # NoFrontier =>
         Fills(r.out, boot[c].frontier, r.buffer.next)

LEMMA Synchronizing ==
  ASSUME BaseInv, NEW c \in Clients, ApplyCounter(c) \/ ReadFails(c)
  PROVE  \E r, clients :
           /\ Handles(buffer, r) /\ r.buffer.deferred = FALSE
           /\ buffer.deferred = TRUE => /\ boot[c].frontier <= r.buffer.next
                                        /\ \A i \in DOMAIN r.out : boot[c].frontier <= seqOf[r.out[i]]
           /\ Given(clients, r.out)
           /\ \A d \in Clients : clients[d].at = IF d = c /\ client[c].at = "booting" THEN "attached"
                                                 ELSE client[d].at
           /\ Left(clients, r.buffer, attached)
           /\ boot[c].step \in {"read", "apply"}
           /\ boot' = [boot EXCEPT ![c] = NoBoot] /\ early' = early /\ closed' = closed
           /\ missing' = missing /\ Resumes(c, r)
<1>1. /\ Waits(buffer) /\ Counted /\ client \in [Clients -> ClientStates]
      /\ boot[c].frontier \in Int /\ boot[c].frontier >= NoFrontier /\ boot[c].counter \in Nat
  BY DEF BaseInv, TypeOK, NumberInv, BootStates
<1>2. ASSUME NEW synced, Synchronized(c, synced), Handles(buffer, synced), synced.buffer.deferred = FALSE,
             buffer.deferred = TRUE => /\ boot[c].frontier <= synced.buffer.next
                                       /\ \A i \in DOMAIN synced.out : boot[c].frontier <= seqOf[synced.out[i]],
             boot[c].step \in {"read", "apply"}, UNCHANGED <<kept, missing>>, Resumes(c, synced)
      PROVE  \E r, clients :
           /\ Handles(buffer, r) /\ r.buffer.deferred = FALSE
           /\ buffer.deferred = TRUE => /\ boot[c].frontier <= r.buffer.next
                                        /\ \A i \in DOMAIN r.out : boot[c].frontier <= seqOf[r.out[i]]
           /\ Given(clients, r.out)
           /\ \A d \in Clients : clients[d].at = IF d = c /\ client[c].at = "booting" THEN "attached"
                                                 ELSE client[d].at
           /\ Left(clients, r.buffer, attached)
           /\ boot[c].step \in {"read", "apply"}
           /\ boot' = [boot EXCEPT ![c] = NoBoot] /\ early' = early /\ closed' = closed
           /\ missing' = missing /\ Resumes(c, r)
  <2>1. synced.out \in Seq(Events)
    BY <1>2 DEF Handles, Delivers
  <2>2. PICK clients :
           /\ Given(clients, synced.out)
           /\ \A d \in Clients : clients[d].at = IF d = c /\ client[c].at = "booting" THEN "attached"
                                                 ELSE client[d].at
           /\ Left(clients, synced.buffer, attached)
           /\ boot' = [boot EXCEPT ![c] = NoBoot]
    BY <1>1, <1>2, <2>1, SynchronizedClients
  <2> QED
    BY <1>2, <2>2 DEF kept
<1>3. CASE ApplyCounter(c)
  <2> DEFINE synced == Synced(buffer, boot[c].frontier, boot[c].counter)
  <2>1. Synchronized(c, synced) /\ boot[c].step \in {"read", "apply"} /\ UNCHANGED <<kept, missing>>
    BY <1>3 DEF ApplyCounter
  <2>2. /\ Handles(buffer, synced) /\ synced.buffer.deferred = FALSE
        /\ \A i \in DOMAIN synced.out : boot[c].frontier <= seqOf[synced.out[i]]
        /\ buffer.deferred = TRUE => boot[c].frontier <= synced.buffer.next
    BY <1>1, SyncDelivers
  <2>3. Resumes(c, synced)
    BY <1>1, SyncReaches DEF Resumes
  <2> HIDE DEF synced
  <2> QED
    BY <1>2, <2>1, <2>2, <2>3
<1>4. CASE ReadFails(c)
  <2> DEFINE synced == SyncFailed(buffer, boot[c].frontier)
  <2>1. Synchronized(c, synced) /\ boot[c].step \in {"read", "apply"} /\ UNCHANGED <<kept, missing>>
    BY <1>4 DEF ReadFails
  <2>2. /\ Handles(buffer, synced) /\ synced.buffer.deferred = FALSE
        /\ buffer.deferred = TRUE => /\ boot[c].frontier <= synced.buffer.next
                                     /\ \A i \in DOMAIN synced.out : boot[c].frontier <= seqOf[synced.out[i]]
    BY <1>1, FailedSyncDelivers
  <2>3. Resumes(c, synced)
    BY <1>1, FailedSyncReaches DEF Resumes
  <2> HIDE DEF synced
  <2> QED
    BY <1>2, <2>1, <2>2, <2>3
<1> QED
  BY <1>3, <1>4

\* The frontier is right after all the replayed events that have a number.
LEMMA FrontierPasses ==
  ASSUME BaseInv
  PROVE  /\ ReplayFrontier \in Int /\ ReplayFrontier >= NoFrontier
         /\ \A e \in ToSet(early) \cap Numbered : seqOf[e] < ReplayFrontier
<1>1. \A e \in Numbered : seqOf[e] \in Nat /\ seqOf[e] < counter
  BY DEF BaseInv, NumberInv, Counted, NumbersRise, Numbered, NoFrontier
<1>2. counter \in Nat
  BY DEF BaseInv, NumberInv, Counted
<1>3. Numbers \subseteq Nat /\ \A k \in Numbers : k < counter
  BY <1>1 DEF Numbers
<1>4. \A e \in ToSet(early) \cap Numbered : seqOf[e] \in Numbers
  BY DEF Numbers
<1>5. CASE Numbers = {}
  BY <1>4, <1>5 DEF ReplayFrontier, NoFrontier
<1>6. CASE Numbers # {}
  <2>1. Greatest(Numbers) \in Numbers /\ \A k \in Numbers : k <= Greatest(Numbers)
    BY <1>2, <1>3, <1>6, GreatestNumber
  <2>2. ReplayFrontier = Greatest(Numbers) + 1
    BY <1>6 DEF ReplayFrontier
  <2>3. Greatest(Numbers) \in Nat
    BY <1>3, <2>1
  <2>4. ASSUME NEW e \in ToSet(early) \cap Numbered PROVE seqOf[e] < ReplayFrontier
    BY <1>1, <1>4, <2>1, <2>2, <2>3
  <2> QED
    BY <2>2, <2>3, <2>4 DEF NoFrontier
<1> QED
  BY <1>5, <1>6

\* Who gets a replay of the events out is shown part of them, nobody moves.
Replayed(out) ==
  /\ client' \in [Clients -> ClientStates]
  /\ \A c \in Clients :
       LET x == client'[c]
           k == client[c]
       IN  /\ x.at = k.at /\ x.defers = k.defers /\ x.told = k.told /\ x.checked = k.checked
           /\ x.view = k.view \/ (c \in Subscribed /\ x.view = k.view \o Shown(c, out))

\* A bootstrap replays what was kept, or nothing but created, and closes the
\* early buffer.
LEMMA Replays ==
  ASSUME BaseInv, NEW c \in Clients,
         \/ Bootstrap(c)
         \/ ContinueBootstrap(c) /\ Subscribed # {} /\ turn = boot[c].turn
  PROVE  \E out, frontier :
           /\ out \in Seq(Events) /\ Replayed(out)
           /\ \/ early # <<>> /\ out = early
              \/ early # <<>> /\ client[c].defers = FALSE
              \/ early = <<>> /\ out = <<Created>>
           /\ frontier \in Int /\ frontier >= NoFrontier
           /\ early # <<>> /\ client[c].defers = TRUE /\ ReplayTo # {} =>
                \A e \in ToSet(early) \cap Numbered : seqOf[e] < frontier
           /\ boot' = [boot EXCEPT ![c] = [boot[c] EXCEPT !.step = "read", !.frontier = frontier]]
           /\ early' = <<>> /\ closed' = TRUE
           /\ boot[c].step \in {"check", "heir"}
           /\ \/ turn = boot[c].turn /\ ToSet(early) \subseteq answered /\ outlived' = outlived
              \/ turn # boot[c].turn /\ outlived' = TRUE
           /\ UNCHANGED <<outside, run, buffer, overflowed, attached, turn, missing>>
<1>1. /\ client \in [Clients -> ClientStates] /\ boot[c] \in BootStates /\ early \in Seq(Events)
      /\ turn \in Nat /\ boot \in [Clients -> BootStates] /\ boot[c].frontier >= NoFrontier
      /\ client[c].defers \in BOOLEAN
  BY ClientFields DEF BaseInv, TypeOK
<1>2. ReplayTo \subseteq Subscribed
  BY DEF ReplayTo
<1>3. PICK events, frontier :
        /\ events \in Seq(Events) /\ Replay(c, events, frontier)
        /\ events = early \/ client[c].defers = FALSE
        /\ frontier \in Int /\ frontier >= NoFrontier
        /\ client[c].defers = TRUE => \A e \in ToSet(early) \cap Numbered : seqOf[e] < frontier
        /\ boot[c].step \in {"check", "heir"}
        /\ \/ turn = boot[c].turn /\ ToSet(early) \subseteq answered /\ outlived' = outlived
           \/ turn # boot[c].turn /\ outlived' = TRUE
  <2>1. CASE Bootstrap(c)
    <3>1. /\ ReplayFrontier \in Int /\ ReplayFrontier >= NoFrontier
          /\ \A e \in ToSet(early) \cap Numbered : seqOf[e] < ReplayFrontier
          /\ Replay(c, early, ReplayFrontier) /\ boot[c].step = "check"
      BY <2>1, FrontierPasses DEF Bootstrap
    <3>2. \/ turn = boot[c].turn /\ ToSet(early) \subseteq answered /\ outlived' = outlived
          \/ turn # boot[c].turn /\ outlived' = TRUE
      <4>1. CASE turn = boot[c].turn
        <5>1. ToSet(early) \subseteq answered /\ outlived' = (outlived \/ FALSE)
          BY <2>1, <4>1, Zenon DEF Bootstrap, Settled
        <5>2. outlived \in BOOLEAN
          BY DEF BaseInv, TypeOK
        <5>3. outlived' = outlived
          BY <5>1, <5>2, Zenon
        <5> QED
          BY <4>1, <5>1, <5>3
      <4>2. CASE turn # boot[c].turn
        <5>1. outlived' = (outlived \/ TRUE)
          BY <2>1, <4>2, Zenon DEF Bootstrap
        <5>2. outlived' = TRUE
          BY <5>1, Zenon
        <5> QED
          BY <4>2, <5>2
      <4> QED
        BY <4>1, <4>2
    <3> QED
      BY <1>1, <3>1, <3>2
  <2>2. CASE ContinueBootstrap(c) /\ Subscribed # {} /\ turn = boot[c].turn
    <3>1. Without(early, Numbered) \in Seq(Events)
      BY <1>1, WithoutKeeps
    <3>2. CASE client[c].defers = TRUE
      BY <1>1, <2>2, <3>2, FrontierPasses DEF ContinueBootstrap, Settled
    <3>3. CASE client[c].defers = FALSE
      BY <1>1, <2>2, <3>1, <3>3 DEF ContinueBootstrap, Settled, NoFrontier
    <3> QED
      BY <1>1, <3>2, <3>3
  <2> QED
    BY <2>1, <2>2
<1>4. /\ early' = <<>> /\ closed' = TRUE
      /\ UNCHANGED <<outside, run, buffer, overflowed, attached, turn, missing>>
  BY <1>3 DEF Replay
<1>5. CASE early # <<>>
  <2> DEFINE shown == Handed(ReplayTo, events)
             fr == IF ReplayTo # {} THEN frontier ELSE NoFrontier
  <2>1. /\ client' = [d \in Clients |-> [shown[d] EXCEPT !.served = IF d \in ReplayTo THEN turn ELSE @]]
        /\ boot' = [boot EXCEPT ![c].step = "read", ![c].frontier = fr]
    BY <1>3, <1>5 DEF Replay
  <2>2. /\ shown \in [Clients -> ClientStates]
        /\ \A d \in Clients :
             /\ shown[d].at = client[d].at /\ shown[d].defers = client[d].defers
             /\ shown[d].told = client[d].told /\ shown[d].checked = client[d].checked
             /\ d \notin ReplayTo => shown[d] = client[d]
             /\ d \in ReplayTo => shown[d].view = client[d].view \o Shown(d, events)
    BY <1>1, <1>3, HandedClients
  <2> HIDE DEF shown
  <2>3. ASSUME NEW d \in Clients
        PROVE  /\ client'[d] \in ClientStates
               /\ client'[d].at = shown[d].at /\ client'[d].defers = shown[d].defers
               /\ client'[d].told = shown[d].told /\ client'[d].checked = shown[d].checked
               /\ client'[d].view = shown[d].view
    <3> DEFINE s == IF d \in ReplayTo THEN turn ELSE shown[d].served
    <3>1. shown[d] \in ClientStates /\ s \in Int
      BY <1>1, <2>2, ClientFields
    <3>2. client'[d] = [shown[d] EXCEPT !.served = s]
      BY <2>1, <3>1 DEF ClientStates
    <3> HIDE DEF s
    <3> QED
      BY <3>1, <3>2 DEF ClientStates
  <2>4. client' \in [Clients -> ClientStates]
    BY <2>1, <2>3
  <2>5. Replayed(events)
    <3> SUFFICES ASSUME NEW d \in Clients
                 PROVE  LET x == client'[d]
                            k == client[d]
                        IN  /\ x.at = k.at /\ x.defers = k.defers /\ x.told = k.told /\ x.checked = k.checked
                            /\ x.view = k.view \/ (d \in Subscribed /\ x.view = k.view \o Shown(d, events))
      BY <2>4 DEF Replayed
    <3>1. \/ shown[d].view = client[d].view
          \/ d \in Subscribed /\ shown[d].view = client[d].view \o Shown(d, events)
      BY <1>2, <2>2
    <3> QED
      BY <2>2, <2>3, <3>1
  <2>6. boot' = [boot EXCEPT ![c] = [boot[c] EXCEPT !.step = "read", !.frontier = fr]]
    BY <1>1, <2>1
  <2>7. /\ fr \in Int /\ fr >= NoFrontier
        /\ client[c].defers = TRUE /\ ReplayTo # {} => \A e \in ToSet(early) \cap Numbered : seqOf[e] < fr
    BY <1>3 DEF NoFrontier
  <2> HIDE DEF fr
  <2> QED
    BY <1>3, <1>4, <1>5, <2>5, <2>6, <2>7
<1>6. CASE early = <<>>
  <2>1. /\ client' = Handed(ReplayTo, <<Created>>) \/ client' = client
        /\ boot' = [boot EXCEPT ![c].step = "read"]
    BY <1>3, <1>6 DEF Replay
  <2>2. boot' = [boot EXCEPT ![c] = [boot[c] EXCEPT !.step = "read", !.frontier = boot[c].frontier]]
    BY <1>1, <2>1 DEF BootStates
  <2>3. <<Created>> \in Seq(Events)
    BY BoundsAssumption DEF Created, Events
  <2>4. Replayed(<<Created>>)
    <3>1. CASE client' = client
      BY <1>1, <3>1 DEF Replayed
    <3>2. CASE client' = Handed(ReplayTo, <<Created>>)
      <4> DEFINE one == <<Created>>
      <4>3. one \in Seq(Events)
        BY <2>3
      <4> DEFINE shown == Handed(ReplayTo, one)
      <4> HIDE DEF one
      <4>1. /\ shown \in [Clients -> ClientStates]
            /\ \A d \in Clients :
                 /\ shown[d].at = client[d].at /\ shown[d].defers = client[d].defers
                 /\ shown[d].told = client[d].told /\ shown[d].checked = client[d].checked
                 /\ d \notin ReplayTo => shown[d] = client[d]
                 /\ d \in ReplayTo => shown[d].view = client[d].view \o Shown(d, one)
        BY <1>1, <4>3, HandedClients
      <4>2. client' = shown
        BY <3>2 DEF one
      <4> HIDE DEF shown
      <4> QED
        BY <1>2, <4>1, <4>2 DEF Replayed, one
    <3> QED
      BY <2>1, <3>1, <3>2
  <2>5. boot[c].frontier \in Int
    BY <1>1 DEF BootStates
  <2> QED
    BY <1>1, <1>3, <1>4, <1>6, <2>2, <2>3, <2>4, <2>5
<1> QED
  BY <1>5, <1>6

\* The clients once c is somewhere else.
LEMMA MovedClient ==
  ASSUME client \in [Clients -> ClientStates], NEW c \in Clients, NEW a \in Places
  PROVE  /\ [client EXCEPT ![c].at = a] \in [Clients -> ClientStates]
         /\ \A d \in Clients :
              LET x == [client EXCEPT ![c].at = a][d]
                  k == client[d]
              IN  /\ x.at = IF d = c THEN a ELSE k.at
                  /\ x.view = k.view /\ x.defers = k.defers /\ x.told = k.told
                  /\ x.served = k.served /\ x.checked = k.checked
<1> DEFINE moved == [client EXCEPT ![c] = [client[c] EXCEPT !.at = a]]
<1>1. [client EXCEPT ![c].at = a] = moved
  OBVIOUS
<1>2. LET x == [client[c] EXCEPT !.at = a]
          k == client[c]
      IN  /\ x \in ClientStates /\ x.at = a
          /\ x.view = k.view /\ x.defers = k.defers /\ x.told = k.told
          /\ x.served = k.served /\ x.checked = k.checked
  BY ClientFields
<1>3. ASSUME NEW d \in Clients, d # c PROVE moved[d] = client[d]
  BY <1>3
<1>4. moved[c] = [client[c] EXCEPT !.at = a]
  OBVIOUS
<1>5. moved \in [Clients -> ClientStates]
  BY <1>2
<1> QED
  BY <1>1, <1>2, <1>3, <1>4, <1>5

\* The clients once the stored terminal event was looked up for c.
CheckedFor(c) ==
  [client EXCEPT ![c].checked = TRUE,
                 ![c].view = IF emitted = LastEvent /\ ~Closed(c) THEN Append(@, LastEvent) ELSE @]

LEMMA CheckedClients ==
  ASSUME client \in [Clients -> ClientStates], NEW c \in Clients
  PROVE  /\ CheckedFor(c) \in [Clients -> ClientStates]
         /\ \A d \in Clients :
              LET x == CheckedFor(c)[d]
                  k == client[d]
              IN  /\ x.at = k.at /\ x.defers = k.defers /\ x.told = k.told
                  /\ d # c => x.view = k.view
         /\ CheckedFor(c)[c].view = IF emitted = LastEvent /\ ~Closed(c)
                                      THEN Append(client[c].view, LastEvent) ELSE client[c].view
<1> DEFINE v == IF emitted = LastEvent /\ ~Closed(c) THEN Append(client[c].view, LastEvent) ELSE client[c].view
<1>1. CheckedFor(c) = [client EXCEPT ![c] = [client[c] EXCEPT !.checked = TRUE, !.view = v]]
  BY DEF CheckedFor
<1>2. LastEvent \in Events
  BY BoundsAssumption DEF Events
<1>3. client[c] \in ClientStates /\ v \in Seq(Events)
  BY <1>2, ClientFields
<1> HIDE DEF v
<1>4. LET x == [client[c] EXCEPT !.checked = TRUE, !.view = v]
          k == client[c]
      IN  x \in ClientStates /\ x.view = v /\ x.at = k.at /\ x.defers = k.defers /\ x.told = k.told
  BY <1>3 DEF ClientStates
<1> QED
  BY <1>1, <1>4 DEF v

\* Nothing but the run, Redis or the network moves.
Idle ==
  /\ UNCHANGED <<client, boot, buffer, attached, turn>>
  /\ UNCHANGED <<early, closed>> \/ Emit

\* Something reaches the clients that are there.
Arrival == FlushTimeout \/ (Subscribed # {} /\ \E f \in net : Arrive(f))

\* A bootstrap replays, or finds nobody to replay to.
Replaying(c) == Bootstrap(c) \/ (ContinueBootstrap(c) /\ Subscribed # {} /\ turn = boot[c].turn)
Abandoned(c) ==
  /\ boot[c].step = "heir"
  /\ Subscribed = {} \/ turn # boot[c].turn
  /\ boot' = [boot EXCEPT ![c] = NoBoot]
  /\ UNCHANGED <<outside, run, buffer, runtime, client, missing>>

\* A bootstrap passes its fence, or breaks off at its check.
Proceeds(c) ==
  /\ \E k : /\ boot' = [boot EXCEPT ![c] = k]
            /\ \/ boot[c].step = "fence" /\ k = [boot[c] EXCEPT !.step = "check"]
               \/ boot[c].step = "check" /\ k = [boot[c] EXCEPT !.step = "broken"]
  /\ UNCHANGED <<outside, run, buffer, runtime, client, missing>>

\* A client goes, by itself or because its check shows another generation.
Departs(c) ==
  /\ c \in Subscribed
  /\ Left([client EXCEPT ![c].at = "left"], buffer, attached)
  /\ \E k : /\ boot' = [boot EXCEPT ![c] = k]
            /\ k = LeftBehind(c) \/ (boot[c].step = "check" /\ k = [boot[c] EXCEPT !.step = "broken"])
  /\ UNCHANGED <<outside, run, kept, missing>>

\* What a client leaves behind.
LEMMA Leavings ==
  ASSUME NEW c \in Clients, boot[c] \in BootStates, Departs(c)
  PROVE  \E k \in BootStates :
           /\ boot' = [boot EXCEPT ![c] = k]
           /\ k.step # "fence"
           /\ k.step \in {"check", "read", "apply"} => k = boot[c]
           /\ \/ /\ k.step # "none" <=> boot[c].step # "none"
                 /\ k.turn = boot[c].turn /\ k.frontier = boot[c].frontier /\ k.counter = boot[c].counter
                 /\ boot[c].step \notin {"fence", "check"} => k = boot[c]
              \/ k = NoBoot /\ Subscribed = {c} /\ boot[c].step = "fence"
<1>1. PICK k : /\ boot' = [boot EXCEPT ![c] = k]
               /\ k = LeftBehind(c) \/ (boot[c].step = "check" /\ k = [boot[c] EXCEPT !.step = "broken"])
  BY DEF Departs
<1>2. \A s \in {"heir", "broken"} :
        LET x == [boot[c] EXCEPT !.step = s]
        IN  /\ x \in BootStates /\ x.step = s /\ x.turn = boot[c].turn
            /\ x.frontier = boot[c].frontier /\ x.counter = boot[c].counter
  BY DEF BootStates
<1>3. NoBoot \in BootStates /\ NoBoot.step = "none"
  BY DEF NoBoot, BootStates, NoFrontier
<1>4. CASE k = boot[c] /\ boot[c].step # "fence"
  BY <1>1, <1>4
<1>5. CASE k = NoBoot /\ Subscribed = {c} /\ boot[c].step = "fence"
  BY <1>1, <1>3, <1>5
<1>6. CASE k = [boot[c] EXCEPT !.step = "heir"] /\ boot[c].step = "fence"
  BY <1>1, <1>2, <1>6
<1>7. CASE k = [boot[c] EXCEPT !.step = "broken"] /\ boot[c].step = "check"
  BY <1>1, <1>2, <1>7
<1> QED
  BY <1>1, <1>4, <1>5, <1>6, <1>7 DEF LeftBehind

\* What a bootstrap is once it has proceeded.
LEMMA Proceeding ==
  ASSUME NEW c \in Clients, boot[c] \in BootStates, Proceeds(c)
  PROVE  \E k \in BootStates :
           /\ boot' = [boot EXCEPT ![c] = k]
           /\ k.step \in {"check", "broken"} /\ boot[c].step \in {"fence", "check"}
           /\ k.turn = boot[c].turn /\ k.frontier = boot[c].frontier /\ k.counter = boot[c].counter
<1>1. PICK k : /\ boot' = [boot EXCEPT ![c] = k]
               /\ \/ boot[c].step = "fence" /\ k = [boot[c] EXCEPT !.step = "check"]
                  \/ boot[c].step = "check" /\ k = [boot[c] EXCEPT !.step = "broken"]
  BY DEF Proceeds
<1>2. \A s \in {"check", "broken"} :
        LET x == [boot[c] EXCEPT !.step = s]
        IN  /\ x \in BootStates /\ x.step = s /\ x.turn = boot[c].turn
            /\ x.frontier = boot[c].frontier /\ x.counter = boot[c].counter
  BY DEF BootStates
<1> QED
  BY <1>1, <1>2

\* What a step does to the clients and their bootstraps.
LEMMA ClientSteps ==
  ASSUME [Next]_vars
  PROVE  \/ Idle
         \/ Arrival
         \/ \E c \in Clients :
              \/ Subscribe(c) \/ Ready(c) \/ Proceeds(c) \/ Replaying(c) \/ Abandoned(c) \/ ReadCounter(c)
              \/ ApplyCounter(c) \/ ReadFails(c) \/ CheckStored(c) \/ Departs(c)
<1>1. CASE EmitDone \/ FlushWindow \/ Execute \/ PublicationFails \/ (\E e \in Events : Answer(e))
  BY <1>1 DEF EmitDone, FlushWindow, Execute, PublicationFails, Answer, Idle, runtime, kept, outside, run
<1>2. CASE \E f \in net : Lose(f)
  BY <1>2 DEF Lose, Idle, runtime
<1>3. CASE Emit
  BY <1>3 DEF Emit, Idle
<1>4. CASE UNCHANGED vars
  BY <1>4 DEF vars, Idle
<1>5. CASE \E f \in net : Arrive(f)
  <2>1. CASE Subscribed = {}
    BY <1>5, <2>1 DEF Arrive, Idle, kept
  <2> QED
    BY <1>5, <2>1 DEF Arrival
<1>6. ASSUME NEW c \in Clients, ContinueBootstrap(c) PROVE Replaying(c) \/ Abandoned(c)
  BY <1>6 DEF ContinueBootstrap, Replaying, Abandoned
<1>7. ASSUME NEW c \in Clients, PassFence(c) PROVE Proceeds(c)
  <2>1. boot' = [boot EXCEPT ![c] = [boot[c] EXCEPT !.step = "check"]]
    BY <1>7 DEF PassFence
  <2> QED
    BY <1>7, <2>1 DEF PassFence, Proceeds
<1>8. ASSUME NEW c \in Clients, CheckFails(c) PROVE Proceeds(c) \/ Departs(c)
  <2>1. boot' = [boot EXCEPT ![c] = [boot[c] EXCEPT !.step = "broken"]] /\ boot[c].step = "check"
    BY <1>8 DEF CheckFails
  <2>2. CASE UNCHANGED <<client, buffer, attached, turn>>
    BY <1>8, <2>1, <2>2 DEF CheckFails, Proceeds, runtime, kept
  <2>3. CASE c \in Subscribed /\ Left([client EXCEPT ![c].at = "left"], buffer, attached)
    BY <1>8, <2>1, <2>3 DEF CheckFails, Departs
  <2> QED
    BY <1>8, <2>2, <2>3 DEF CheckFails
<1>9. ASSUME NEW c \in Clients, Leave(c) PROVE Departs(c)
  BY <1>9 DEF Leave, Departs
<1> QED
  BY <1>1, <1>2, <1>3, <1>4, <1>5, <1>6, <1>7, <1>8, <1>9 DEF Next, SystemStep, Arrival, Replaying

ClientTypes ==
  /\ client \in [Clients -> ClientStates] /\ attached \in BOOLEAN /\ turn \in Nat
  /\ Waits(buffer)

LEMMA LeftTypes ==
  ASSUME NEW clients \in [Clients -> ClientStates], NEW b, Waits(b), NEW hs \in BOOLEAN, turn \in Nat,
         Left(clients, b, hs), seqOf' = seqOf
  PROVE  ClientTypes'
<1>1. /\ client' \in [Clients -> ClientStates]
      /\ \/ buffer' = NewBuffer(FALSE) /\ attached' = FALSE /\ turn' = turn + 1
         \/ buffer' = b /\ attached' = hs /\ turn' = turn
  BY LeftClients
<1>2. attached' \in BOOLEAN /\ turn' \in Nat
  <2>0. turn' = turn + 1 \/ turn' = turn
    BY <1>1, Zenon
  <2>1. turn' \in Nat
    BY <2>0
  <2>2. attached' = FALSE \/ attached' = hs
    BY <1>1, Zenon
  <2>3. attached' \in BOOLEAN
    BY <2>2, Zenon
  <2> QED
    BY <2>1, <2>3
<1>3. Numbered \subseteq Numbered' /\ \A e \in Numbered : seqOf'[e] = seqOf[e]
  BY DEF Numbered
<1>4. Waits(buffer)'
  <2>1. CASE buffer' = b
    BY <1>3, <2>1, WaitsStays
  <2>2. CASE buffer' = NewBuffer(FALSE)
    BY <1>3, <2>2, NewBufferWaits, WaitsStays
  <2> QED
    BY <1>1, <2>1, <2>2
<1> QED
  BY <1>1, <1>2, <1>4 DEF ClientTypes

LEMMA ClientTypesStep ==
  ASSUME BaseInv, [Next]_vars, Numbered \subseteq Numbered', \A e \in Numbered : seqOf'[e] = seqOf[e]
  PROVE  ClientTypes'
<1>1. /\ client \in [Clients -> ClientStates] /\ attached \in BOOLEAN /\ turn \in Nat
      /\ Waits(buffer) /\ TRUE \in BOOLEAN
  BY DEF BaseInv, TypeOK
<1>2. CASE Idle
  <2>1. Waits(buffer)'
    BY <1>1, <1>2, WaitsStays DEF Idle
  <2> QED
    BY <1>1, <1>2, <2>1 DEF ClientTypes, Idle
<1>3. CASE Arrival
  <2>1. seqOf' = seqOf
    BY <1>3 DEF Arrival, FlushTimeout, Arrive, outside
  <2>2. PICK r : Handles(buffer, r) /\ Given(Handed(Subscribed, r.out), r.out)
                 /\ Left(Handed(Subscribed, r.out), r.buffer, attached)
    BY <1>3, Arrivals DEF Arrival
  <2>3. Waits(r.buffer) /\ Handed(Subscribed, r.out) \in [Clients -> ClientStates]
    BY <2>2 DEF Handles, Given
  <2> QED
    BY <1>1, <2>1, <2>2, <2>3, LeftTypes
<1>4. ASSUME NEW c \in Clients, Subscribe(c) PROVE ClientTypes'
  <2>1. /\ client' = [client EXCEPT ![c].at = "reading", ![c].defers = Defers(c)]
        /\ buffer' = IF Subscribed = {} THEN NewBuffer(Defers(c)) ELSE buffer
        /\ attached' = attached /\ turn' = turn
    BY <1>4 DEF Subscribe, runtime
  <2>2. Defers(c) \in BOOLEAN
    BY <1>1 DEF Defers
  <2>3. client' \in [Clients -> ClientStates]
    <3>1. client' = [client EXCEPT ![c] = [client[c] EXCEPT !.at = "reading", !.defers = Defers(c)]]
      BY <2>1
    <3>2. [client[c] EXCEPT !.at = "reading", !.defers = Defers(c)] \in ClientStates
      BY <1>1, <2>2 DEF ClientStates, Places
    <3> QED
      BY <1>1, <3>1, <3>2
  <2>4. Waits(buffer)'
    <3>1. CASE Subscribed = {}
      BY <2>1, <2>2, <3>1, NewBufferWaits, WaitsStays
    <3>2. CASE Subscribed # {}
      BY <1>1, <2>1, <3>2, WaitsStays
    <3> QED
      BY <3>1, <3>2
  <2> QED
    BY <1>1, <2>1, <2>3, <2>4 DEF ClientTypes
<1>5. ASSUME NEW c \in Clients, Ready(c) PROVE ClientTypes'
  <2>1. seqOf' = seqOf
    BY <1>5 DEF Ready, outside
  <2>2. InPlace(c, client) \in [Clients -> ClientStates]
    BY <1>1, InPlaceClients
  <2>3. "booting" \in Places
    BY DEF Places
  <2>4. [client EXCEPT ![c].at = "booting"] \in [Clients -> ClientStates]
    BY <1>1, <2>3, MovedClient
  <2>5. CASE attached
    <3>1. Left(InPlace(c, client), buffer, TRUE)
      BY <1>5, <2>5 DEF Ready
    <3> QED
      BY <1>1, <2>1, <2>2, <3>1, LeftTypes
  <2>6. CASE ~attached
    <3>1. Left([client EXCEPT ![c].at = "booting"], buffer, TRUE)
      BY <1>5, <2>6 DEF Ready
    <3> QED
      BY <1>1, <2>1, <2>4, <3>1, LeftTypes
  <2> QED
    BY <2>5, <2>6
<1>6. ASSUME NEW c \in Clients, Replaying(c) PROVE ClientTypes'
  <2>1. /\ client' \in [Clients -> ClientStates]
        /\ UNCHANGED <<outside, run, buffer, overflowed, attached, turn, missing>>
    BY <1>6, Replays DEF Replaying, Replayed
  <2>2. Waits(buffer)'
    BY <1>1, <2>1, WaitsStays
  <2> QED
    BY <1>1, <2>1, <2>2 DEF ClientTypes
<1>7. ASSUME NEW c \in Clients, Proceeds(c) \/ Abandoned(c) \/ ReadCounter(c) PROVE ClientTypes'
  <2>1. UNCHANGED <<client, buffer, attached, turn>>
    BY <1>7 DEF Proceeds, Abandoned, ReadCounter, runtime
  <2>2. Waits(buffer)'
    BY <1>1, <2>1, WaitsStays
  <2> QED
    BY <1>1, <2>1, <2>2 DEF ClientTypes
<1>8. ASSUME NEW c \in Clients, ApplyCounter(c) \/ ReadFails(c) PROVE ClientTypes'
  <2>1. seqOf' = seqOf
    BY <1>8 DEF ApplyCounter, ReadFails, outside
  <2>2. PICK r, clients : Handles(buffer, r) /\ Given(clients, r.out) /\ Left(clients, r.buffer, attached)
    BY <1>8, Synchronizing
  <2>3. Waits(r.buffer) /\ clients \in [Clients -> ClientStates]
    BY <2>2 DEF Handles, Given
  <2> QED
    BY <1>1, <2>1, <2>2, <2>3, LeftTypes
<1>9. ASSUME NEW c \in Clients, CheckStored(c) PROVE ClientTypes'
  <2>1. seqOf' = seqOf /\ Left(CheckedFor(c), buffer, attached)
    BY <1>9 DEF CheckStored, CheckedFor, outside
  <2>2. CheckedFor(c) \in [Clients -> ClientStates]
    BY <1>1, CheckedClients
  <2> QED
    BY <1>1, <2>1, <2>2, LeftTypes
<1>10. ASSUME NEW c \in Clients, Departs(c) PROVE ClientTypes'
  <2>1. seqOf' = seqOf /\ Left([client EXCEPT ![c].at = "left"], buffer, attached) /\ "left" \in Places
    BY <1>10 DEF Departs, outside, Places
  <2>2. [client EXCEPT ![c].at = "left"] \in [Clients -> ClientStates]
    BY <1>1, <2>1, MovedClient
  <2> QED
    BY <1>1, <2>1, <2>2, LeftTypes
<1> QED
  BY <1>2, <1>3, <1>4, <1>5, <1>6, <1>7, <1>8, <1>9, <1>10, ClientSteps

\* The bootstraps.
BootTypes == boot \in [Clients -> BootStates] /\ \A c \in Clients : boot[c].frontier >= NoFrontier

LEMMA BootTypesStep ==
  ASSUME BaseInv, [Next]_vars
  PROVE  BootTypes'
<1>1. BootTypes /\ turn \in Nat /\ counter \in Nat
  BY DEF BaseInv, TypeOK, BootTypes
<1>2. /\ NoBoot \in BootStates /\ NoBoot.frontier >= NoFrontier
      /\ NoBoot.step = "none" /\ NoBoot.turn = 0 /\ NoBoot.frontier = NoFrontier /\ NoBoot.counter = 0
  BY DEF NoBoot, BootStates, NoFrontier
<1>3. ASSUME NEW c \in Clients, NEW k \in BootStates, k.frontier >= NoFrontier, boot' = [boot EXCEPT ![c] = k]
      PROVE  BootTypes'
  BY <1>1, <1>3 DEF BootTypes
<1>4. CASE boot' = boot
  BY <1>1, <1>4 DEF BootTypes
<1>5. CASE Idle
  BY <1>4, <1>5 DEF Idle
<1>6. CASE Arrival
  BY <1>4, <1>6 DEF Arrival, FlushTimeout, Arrive
<1>7. ASSUME NEW c \in Clients, Subscribe(c) PROVE BootTypes'
  BY <1>4, <1>7 DEF Subscribe
<1>8. ASSUME NEW c \in Clients, Ready(c) PROVE BootTypes'
  <2> DEFINE k == [NoBoot EXCEPT !.step = "fence", !.turn = turn]
  <2>1. k \in BootStates
    BY <1>1, <1>2 DEF BootStates
  <2>2. k.frontier >= NoFrontier
    BY <1>2 DEF BootStates
  <2>3. boot' = boot \/ boot' = [boot EXCEPT ![c] = k]
    BY <1>8 DEF Ready
  <2> HIDE DEF k
  <2> QED
    BY <1>3, <1>4, <2>1, <2>2, <2>3
<1>9. ASSUME NEW c \in Clients, Replaying(c) PROVE BootTypes'
  <2>1. PICK frontier : /\ frontier \in Int /\ frontier >= NoFrontier
                        /\ boot' = [boot EXCEPT ![c] = [boot[c] EXCEPT !.step = "read", !.frontier = frontier]]
    BY <1>9, Replays DEF Replaying
  <2>2. LET k == [boot[c] EXCEPT !.step = "read", !.frontier = frontier]
        IN  k \in BootStates /\ k.frontier = frontier
    BY <1>1, <2>1 DEF BootTypes, BootStates
  <2> QED
    BY <1>3, <2>1, <2>2
<1>10. ASSUME NEW c \in Clients, Abandoned(c) PROVE BootTypes'
  BY <1>2, <1>3, <1>10 DEF Abandoned
<1>11. ASSUME NEW c \in Clients, ReadCounter(c) PROVE BootTypes'
  <2>1. boot' = [boot EXCEPT ![c] = [boot[c] EXCEPT !.step = "apply", !.counter = counter]]
    BY <1>1, <1>11 DEF ReadCounter, BootTypes
  <2>2. LET k == [boot[c] EXCEPT !.step = "apply", !.counter = counter]
        IN  k \in BootStates /\ k.frontier = boot[c].frontier
    BY <1>1 DEF BootTypes, BootStates
  <2> QED
    BY <1>1, <1>3, <2>1, <2>2 DEF BootTypes
<1>12. ASSUME NEW c \in Clients, ApplyCounter(c) \/ ReadFails(c) PROVE BootTypes'
  <2>1. boot' = [boot EXCEPT ![c] = NoBoot]
    BY <1>12 DEF ApplyCounter, ReadFails, Synchronized
  <2> QED
    BY <1>2, <1>3, <2>1
<1>13. ASSUME NEW c \in Clients, CheckStored(c) PROVE BootTypes'
  BY <1>4, <1>13 DEF CheckStored
<1>14. ASSUME NEW c \in Clients, Departs(c) PROVE BootTypes'
  <2>1. PICK k \in BootStates : /\ boot' = [boot EXCEPT ![c] = k]
                                /\ k.frontier = boot[c].frontier \/ k = NoBoot
    BY <1>1, <1>14, Leavings DEF BootTypes
  <2> QED
    BY <1>1, <1>2, <1>3, <2>1 DEF BootTypes
<1>15. ASSUME NEW c \in Clients, Proceeds(c) PROVE BootTypes'
  <2>1. PICK k \in BootStates : boot' = [boot EXCEPT ![c] = k] /\ k.frontier = boot[c].frontier
    BY <1>1, <1>15, Proceeding DEF BootTypes
  <2> QED
    BY <1>1, <1>3, <2>1 DEF BootTypes
<1> QED
  BY <1>5, <1>6, <1>7, <1>8, <1>9, <1>10, <1>11, <1>12, <1>13, <1>14, <1>15, ClientSteps

\* What is kept for replay, and what may be missing.
RestTypes ==
  /\ owner \in BOOLEAN /\ closed \in BOOLEAN /\ overflowed \in BOOLEAN
  /\ early \in Seq(Events) /\ missing \subseteq Events /\ outlived \in BOOLEAN

LEMMA RestTypesStep ==
  ASSUME BaseInv, [Next]_vars
  PROVE  RestTypes'
<1>1. /\ RestTypes /\ emitted \in 0 .. LastEvent /\ LastEvent \in Nat /\ net \subseteq Frames
      /\ outbox \in Seq(Events)
  BY BoundsAssumption DEF BaseInv, TypeOK, RestTypes
<1>2. CASE EmitDone \/ FlushWindow \/ Execute \/ (\E e \in Events : Answer(e))
  BY <1>1, <1>2 DEF EmitDone, FlushWindow, Execute, Answer, runtime, outside, RestTypes
<1>3. CASE UNCHANGED vars
  BY <1>1, <1>3 DEF vars, RestTypes
<1>4. CASE Emit
  <2>1. emitted + 1 \in Events
    BY <1>1, <1>4 DEF Emit, Events
  <2>2. Append(early, emitted + 1) \in Seq(Events) /\ <<>> \in Seq(Events)
    BY <1>1, <2>1 DEF RestTypes
  <2>3. /\ Buffer(emitted + 1) /\ owner' = owner /\ missing' = missing /\ outlived' = outlived
    BY <1>4 DEF Emit, outside
  <2>4. \/ early' = Append(early, emitted + 1) /\ closed' = closed /\ overflowed' = overflowed
        \/ early' = <<>> /\ closed' = TRUE /\ overflowed' = TRUE
        \/ early' = early /\ closed' = closed /\ overflowed' = overflowed
    BY <2>3 DEF Buffer
  <2>5. early' \in Seq(Events)
    BY <1>1, <2>2, <2>4 DEF RestTypes
  <2>6. closed' \in BOOLEAN /\ overflowed' \in BOOLEAN
    BY <1>1, <2>4, Zenon DEF RestTypes
  <2> QED
    BY <1>1, <2>3, <2>5, <2>6 DEF RestTypes
<1>5. CASE PublicationFails
  <2>1. Head(outbox) \in Events
    BY <1>1, <1>5 DEF PublicationFails
  <2>2. missing' = missing \/ missing' = missing \cup {Head(outbox)}
    BY <1>5 DEF PublicationFails
  <2>3. UNCHANGED <<owner, early, closed, overflowed, outlived>>
    BY <1>5 DEF PublicationFails, runtime, outside
  <2> QED
    BY <1>1, <2>1, <2>2, <2>3 DEF RestTypes
<1>6. CASE \E f \in net : Lose(f)
  <2>1. PICK f \in net : missing' = missing \cup {f.event} /\ UNCHANGED <<owner, early, closed, overflowed, outlived>>
    BY <1>6 DEF Lose, runtime
  <2>2. f.event \in Events
    BY <1>1, <2>1 DEF Frames
  <2> QED
    BY <1>1, <2>1, <2>2 DEF RestTypes
<1>7. CASE \E f \in net : Arrive(f)
  <2>1. /\ UNCHANGED <<owner, early, closed, overflowed, outlived>>
        /\ missing' = missing \/ \E next, given : missing' = missing \cup Skipped(next, given)
    BY <1>7 DEF Arrive, kept
  <2>2. \A next, given : Skipped(next, given) \subseteq Events
    BY DEF Skipped
  <2> QED
    BY <1>1, <2>1, <2>2 DEF RestTypes
<1>8. CASE FlushTimeout
  <2>1. /\ UNCHANGED <<owner, early, closed, overflowed, outlived>>
        /\ \E next, given : missing' = missing \cup Skipped(next, given)
    BY <1>8 DEF FlushTimeout, kept, outside
  <2>2. \A next, given : Skipped(next, given) \subseteq Events
    BY DEF Skipped
  <2> QED
    BY <1>1, <2>1, <2>2 DEF RestTypes
<1>9. ASSUME UNCHANGED <<owner, kept, missing, outlived>> PROVE RestTypes'
  BY <1>1, <1>9 DEF kept, RestTypes
<1>10. ASSUME NEW c \in Clients,
              \/ Subscribe(c) \/ Ready(c) \/ PassFence(c) \/ CheckFails(c) \/ ReadCounter(c)
              \/ ApplyCounter(c) \/ ReadFails(c) \/ CheckStored(c) \/ Leave(c)
       PROVE  RestTypes'
  BY <1>9, <1>10 DEF Subscribe, Ready, PassFence, CheckFails, ReadCounter, ApplyCounter, ReadFails, CheckStored,
                     Leave, outside, runtime, kept
<1>11. ASSUME NEW c \in Clients, Replaying(c) PROVE RestTypes'
  <2>1. /\ early' = <<>> /\ closed' = TRUE /\ UNCHANGED <<outside, run, buffer, overflowed, attached, turn, missing>>
        /\ outlived' = outlived \/ outlived' = TRUE
    BY <1>11, Replays DEF Replaying
  <2>2. UNCHANGED <<owner, overflowed, missing>>
    BY <2>1 DEF outside
  <2>3. outlived' \in BOOLEAN
    BY <1>1, <2>1, Zenon DEF RestTypes
  <2> QED
    BY <1>1, <2>1, <2>2, <2>3 DEF RestTypes
<1>12. ASSUME NEW c \in Clients, ContinueBootstrap(c) PROVE Replaying(c) \/ RestTypes'
  BY <1>9, <1>12 DEF ContinueBootstrap, Replaying, outside, runtime, kept
<1> QED
  BY <1>2, <1>3, <1>4, <1>5, <1>6, <1>7, <1>8, <1>10, <1>11, <1>12 DEF Next, SystemStep, Replaying

-----------------------------------------------------------------------------
(***************************************************************************)
(* The first theorems: the types, and gaps that are timed.                 *)
(***************************************************************************)

LEMMA BaseParts == BaseInv <=> RunTypes /\ NumberInv /\ ClientTypes /\ BootTypes /\ RestTypes
<1>1. ASSUME Waits(buffer)
      PROVE  /\ buffer.next \in Nat /\ buffer.pending \subseteq Frames
             /\ buffer.deferred \in BOOLEAN /\ buffer.timer \in BOOLEAN
  BY <1>1 DEF Waits, Buffers
<1>2. BaseInv => RunTypes /\ NumberInv /\ ClientTypes /\ BootTypes /\ RestTypes
  BY DEF BaseInv, TypeOK, RunTypes, ClientTypes, BootTypes, RestTypes
<1>3. ASSUME RunTypes, NumberInv, ClientTypes, BootTypes, RestTypes PROVE BaseInv
  BY <1>1, <1>3 DEF BaseInv, TypeOK, RunTypes, ClientTypes, BootTypes, RestTypes
<1> QED
  BY <1>2, <1>3

LEMMA BaseInit == Init => BaseInv
<1> SUFFICES ASSUME Init PROVE BaseInv
  OBVIOUS
<1>1. LastEvent \in Nat /\ FirstSeqs \subseteq Nat /\ Owners \subseteq BOOLEAN
  BY BoundsAssumption, OwnersAssumption
<1>2. RunTypes
  BY <1>1 DEF Init, RunTypes, NoFrontier
<1>3. Numbered = {} /\ answered = {} /\ net = {} /\ Queue = <<>>
  <2>1. <<>> \o <<>> = <<>>
    OBVIOUS
  <2> QED
    BY <2>1 DEF Init, Numbered, Queue
<1>4. NumberInv
  <2>1. Counted
    BY <1>2, <1>3 DEF Counted, NumbersRise, RunTypes
  <2>2. Faithful(net)
    BY <1>3 DEF Faithful
  <2> QED
    BY <1>3, <2>1, <2>2 DEF NumberInv, Rising
<1>5. ClientTypes
  <2>1. NewClient \in ClientStates
    BY DEF NewClient, ClientStates, Places
  <2>2. Waits(buffer)
    BY NewBufferWaits DEF Init
  <2> QED
    BY <2>1, <2>2 DEF Init, ClientTypes
<1>6. BootTypes
  <2>1. NoBoot \in BootStates /\ NoBoot.frontier >= NoFrontier
    BY DEF NoBoot, BootStates, NoFrontier
  <2> QED
    BY <2>1 DEF Init, BootTypes
<1>7. RestTypes
  <2>1. owner \in BOOLEAN /\ closed \in BOOLEAN /\ overflowed \in BOOLEAN
    BY <1>1, Zenon DEF Init
  <2>2. early = <<>> /\ missing = {} /\ outlived \in BOOLEAN
    BY Zenon DEF Init
  <2> QED
    BY <2>1, <2>2 DEF RestTypes
<1> QED
  BY <1>2, <1>4, <1>5, <1>6, <1>7, BaseParts

LEMMA BaseStep == BaseInv /\ [Next]_vars => BaseInv'
<1> SUFFICES ASSUME BaseInv, [Next]_vars PROVE BaseInv'
  OBVIOUS
<1>1. RunTypes /\ NumberInv
  BY BaseParts
<1>2. RunMoves /\ RunTypes'
  BY <1>1, RunStep
<1>3. /\ NumberInv'
      /\ Numbered \subseteq Numbered' /\ \A e \in Numbered : seqOf'[e] = seqOf[e]
  BY <1>1, <1>2, NumbersStep
<1>4. ClientTypes' /\ BootTypes' /\ RestTypes'
  BY <1>3, ClientTypesStep, BootTypesStep, RestTypesStep
<1>5. (BaseInv <=> RunTypes /\ NumberInv /\ ClientTypes /\ BootTypes /\ RestTypes)'
  BY BaseParts, PTL
<1> QED
  BY <1>2, <1>3, <1>4, <1>5

LEMMA BaseAlways == Spec => []BaseInv
BY BaseInit, BaseStep, PTL DEF Spec

\* Every variable keeps its type, whatever the clients, the events and the bounds.
THEOREM StreamTyped == Spec => []TypeOK
<1>1. BaseInv => TypeOK
  BY DEF BaseInv
<1> QED
  BY <1>1, BaseAlways, PTL

\* A frame that waits in the reorder buffer of a replica (RedisEventTransport) is
\* timed, and it is never the frame that is expected, so no gap waits for ever.
THEOREM GapsTimed == Spec => []GapsAreTimed
<1>1. BaseInv => GapsAreTimed
  BY DEF BaseInv, GapsAreTimed, Waits, Buffers
<1> QED
  BY <1>1, BaseAlways, PTL

-----------------------------------------------------------------------------
(***************************************************************************)
(* The fence.  Each attachment has one bootstrap at most, which is of the  *)
(* current turn only while somebody is attached; the last client to go     *)
(* ends the turn.  The conditions are about the clients cl, the bootstraps *)
(* bt, the buffer b, hasSubscriber and the turn, because a step first does *)
(* its work and then lets those go who are done.                           *)
(***************************************************************************)

Busy(bt, c) == bt[c].step # "none"

FenceOK(cl, bt, b, hs, tn) ==
  /\ hs = FALSE => \A c \in Clients : cl[c].at \notin {"booting", "attached"}
  /\ \A c \in Clients :
       /\ bt[c].step = "fence" => cl[c].at = "booting" /\ bt[c].turn = tn
       /\ bt[c].turn <= tn
       /\ Busy(bt, c) /\ bt[c].turn = tn => hs = TRUE
       /\ cl[c].at \in {"away", "reading"} => ~Busy(bt, c)
  /\ \A c, d \in Clients : Busy(bt, c) /\ Busy(bt, d) /\ bt[c].turn = bt[d].turn => c = d
  /\ In(cl) # {} /\ b.deferred = TRUE /\ hs = TRUE => \E c \in Clients : Busy(bt, c) /\ bt[c].turn = tn

FenceInv ==
  /\ FenceOK(client, boot, buffer, attached, turn)
  /\ Subscribed = {} => attached = FALSE /\ buffer.deferred = FALSE

\* Letting those go who are done keeps the conditions.
LEMMA LeavingKeepsFence ==
  ASSUME NEW clients \in [Clients -> ClientStates], NEW b, NEW hs \in BOOLEAN, Left(clients, b, hs),
         turn \in Nat, boot' \in [Clients -> BootStates],
         FenceOK(clients, boot', b, hs, turn),
         Subscribed = {} => hs = FALSE /\ b.deferred = FALSE
  PROVE  FenceInv'
<1>1. /\ \A c \in Clients :
           /\ Goes(clients[c]) => client'[c].at = "left"
           /\ ~Goes(clients[c]) => client'[c].at = clients[c].at
      /\ In(client') = {c \in In(clients) : ~Goes(clients[c])}
  BY LeftClients
<1>2. Subscribed' = In(client')
  BY DEF Subscribed, In
<1>3. ASSUME NEW c \in Clients, client'[c].at \in {"away", "reading", "booting", "attached"}
      PROVE  client'[c].at = clients[c].at
  BY <1>1, <1>3
<1>4. ASSUME NEW c \in Clients, clients[c].at = "booting"
      PROVE  client'[c].at = "booting" /\ c \in In(client')
  BY <1>1, <1>4 DEF Goes, In
<1>5. \A c \in Clients : boot'[c].turn \in Nat
  BY DEF BootStates
<1>6. CASE /\ Subscribed # {} /\ In(client') = {}
           /\ buffer' = NewBuffer(FALSE) /\ attached' = FALSE /\ turn' = turn + 1
  <2>1. buffer'.deferred = FALSE /\ attached' = FALSE /\ turn' = turn + 1 /\ In(client') = {}
    BY <1>6 DEF NewBuffer
  <2>2. \A c \in Clients : client'[c].at \notin {"booting", "attached", "reading"}
    BY <2>1 DEF In
  <2>3. ASSUME NEW c \in Clients
        PROVE  /\ boot'[c].step # "fence"
               /\ boot'[c].turn <= turn' /\ boot'[c].turn # turn'
               /\ client'[c].at \in {"away", "reading"} => ~Busy(boot', c)
    BY <1>3, <1>4, <1>5, <2>1 DEF FenceOK
  <2>4. \A c, d \in Clients : Busy(boot', c) /\ Busy(boot', d) /\ boot'[c].turn = boot'[d].turn => c = d
    BY DEF FenceOK
  <2>5. FenceOK(client', boot', buffer', attached', turn')
    BY <2>1, <2>2, <2>3, <2>4 DEF FenceOK
  <2> QED
    BY <2>1, <2>5 DEF FenceInv, FenceOK, Busy, In, Subscribed
<1>7. CASE /\ Subscribed = {} \/ In(client') # {}
           /\ buffer' = b /\ attached' = hs /\ turn' = turn
  <2>1. In(client') # {} => In(clients) # {}
    BY <1>1
  <2>2. hs = FALSE => \A c \in Clients : client'[c].at \notin {"booting", "attached"}
    BY <1>3 DEF FenceOK
  <2>3. ASSUME NEW c \in Clients
        PROVE  /\ boot'[c].step = "fence" => client'[c].at = "booting" /\ boot'[c].turn = turn
               /\ boot'[c].turn <= turn
               /\ Busy(boot', c) /\ boot'[c].turn = turn => hs = TRUE
               /\ client'[c].at \in {"away", "reading"} => ~Busy(boot', c)
    BY <1>3, <1>4 DEF FenceOK
  <2>4. \A c, d \in Clients : Busy(boot', c) /\ Busy(boot', d) /\ boot'[c].turn = boot'[d].turn => c = d
    BY DEF FenceOK
  <2>5. In(client') # {} /\ b.deferred = TRUE /\ hs = TRUE => \E c \in Clients : Busy(boot', c) /\ boot'[c].turn = turn
    BY <2>1 DEF FenceOK
  <2>6. FenceOK(client', boot', b, hs, turn)
    BY <2>2, <2>3, <2>4, <2>5 DEF FenceOK
  <2>7. In(client') = {} => hs = FALSE /\ b.deferred = FALSE
    BY <1>7
  <2>8. buffer' = b /\ attached' = hs /\ turn' = turn
    BY <1>7
  <2>9. FenceOK(client', boot', buffer', attached', turn')
    BY <2>6, <2>8
  <2>10. In(client') = {} => attached' = FALSE /\ buffer'.deferred = FALSE
    BY <2>7, <2>8
  <2> QED
    BY <2>9, <2>10 DEF FenceInv, FenceOK, Busy, In, Subscribed
<1>8. \/ /\ Subscribed # {} /\ In(client') = {}
         /\ buffer' = NewBuffer(FALSE) /\ attached' = FALSE /\ turn' = turn + 1
      \/ /\ Subscribed = {} \/ In(client') # {}
         /\ buffer' = b /\ attached' = hs /\ turn' = turn
  BY LeftClients
<1> QED
  BY <1>6, <1>7, <1>8

LEMMA FenceStep == BaseInv /\ FenceInv /\ [Next]_vars => FenceInv'
<1> SUFFICES ASSUME BaseInv, FenceInv, [Next]_vars PROVE FenceInv'
  OBVIOUS
<1>1. /\ client \in [Clients -> ClientStates] /\ boot \in [Clients -> BootStates]
      /\ attached \in BOOLEAN /\ turn \in Nat /\ TRUE \in BOOLEAN
  BY DEF BaseInv, TypeOK
<1>2. boot' \in [Clients -> BootStates]
  BY BootTypesStep DEF BootTypes
<1>3. /\ FenceOK(client, boot, buffer, attached, turn)
      /\ Subscribed = {} => attached = FALSE /\ buffer.deferred = FALSE
  BY DEF FenceInv
<1>4. Subscribed = In(client)
  BY DEF Subscribed
<1>5. (/\ FenceOK(client, boot, buffer, attached, turn)
       /\ In(client) = {} => attached = FALSE /\ buffer.deferred = FALSE)' => FenceInv'
  BY DEF FenceInv, FenceOK, Busy, In, Subscribed
<1>6. CASE Idle
  BY <1>3, <1>6 DEF Idle, FenceInv, FenceOK, Busy, In, Subscribed
<1>7. CASE Arrival
  <2>1. PICK r : /\ Handles(buffer, r) /\ r.buffer.deferred = buffer.deferred
                 /\ Given(Handed(Subscribed, r.out), r.out)
                 /\ Left(Handed(Subscribed, r.out), r.buffer, attached)
                 /\ boot' = boot
    BY <1>7, Arrivals DEF Arrival
  <2> DEFINE clients == Handed(Subscribed, r.out)
  <2>2. r.out \in Seq(Events)
    BY <2>1 DEF Handles, Delivers
  <2>3. \A c \in Clients : clients[c].at = client[c].at
    BY <1>1, <2>2, HandedGives
  <2>4. clients \in [Clients -> ClientStates]
    BY <2>1 DEF Given
  <2> HIDE DEF clients
  <2>5. In(clients) = In(client)
    BY <2>3 DEF In
  <2>6. FenceOK(clients, boot', r.buffer, attached, turn)
    BY <1>3, <2>1, <2>3, <2>5 DEF FenceOK
  <2> QED
    BY <1>1, <1>2, <1>3, <2>1, <2>4, <2>6, LeavingKeepsFence DEF clients
<1>8. ASSUME NEW c \in Clients, Subscribe(c) PROVE FenceInv'
  <2>1. /\ client[c].at = "away"
        /\ client' = [client EXCEPT ![c].at = "reading", ![c].defers = Defers(c)]
        /\ buffer' = IF Subscribed = {} THEN NewBuffer(Defers(c)) ELSE buffer
        /\ attached' = attached /\ turn' = turn /\ boot' = boot
    BY <1>8 DEF Subscribe, runtime
  <2>2. \A d \in Clients : client'[d].at = IF d = c THEN "reading" ELSE client[d].at
    BY <1>1, <2>1 DEF ClientStates
  <2>3. In(client') # {}
    BY <2>2 DEF In
  <2>4. attached = TRUE => buffer' = buffer /\ In(client) # {}
    BY <1>3, <1>4, <2>1
  <2>5. ASSUME NEW d \in Clients
        PROVE  /\ boot'[d].step = "fence" => client'[d].at = "booting" /\ boot'[d].turn = turn'
               /\ boot'[d].turn <= turn'
               /\ Busy(boot', d) /\ boot'[d].turn = turn' => attached = TRUE
               /\ client'[d].at \in {"away", "reading"} => ~Busy(boot', d)
               /\ attached = FALSE => client'[d].at \notin {"booting", "attached"}
    <3>1. client[c].at = "away" /\ boot' = boot /\ turn' = turn
      BY <2>1
    <3>2. /\ client'[d].at = IF d = c THEN "reading" ELSE client[d].at
          /\ boot[d].step = "fence" => client[d].at = "booting" /\ boot[d].turn = turn
          /\ boot[d].turn <= turn
          /\ Busy(boot, d) /\ boot[d].turn = turn => attached = TRUE
          /\ client[d].at \in {"away", "reading"} => ~Busy(boot, d)
          /\ attached = FALSE => client[d].at \notin {"booting", "attached"}
      BY <1>3, <2>2 DEF FenceOK
    <3>3. CASE d = c
      BY <3>1, <3>2, <3>3 DEF Busy
    <3>4. CASE d # c
      BY <3>1, <3>2, <3>4 DEF Busy
    <3> QED
      BY <3>3, <3>4
  <2>6. \A d, e \in Clients : Busy(boot', d) /\ Busy(boot', e) /\ boot'[d].turn = boot'[e].turn => d = e
    BY <1>3, <2>1 DEF FenceOK
  <2>7. attached = TRUE /\ buffer'.deferred = TRUE => \E d \in Clients : Busy(boot', d) /\ boot'[d].turn = turn'
    BY <1>3, <2>1, <2>4 DEF FenceOK
  <2>8. FenceOK(client', boot', buffer', attached', turn')
    BY <2>1, <2>5, <2>6, <2>7 DEF FenceOK
  <2> QED
    BY <1>5, <2>3, <2>8
<1>9. ASSUME NEW c \in Clients, Ready(c) PROVE FenceInv'
  <2>1. client[c].at = "reading" /\ c \in In(client) /\ ~Busy(boot, c)
    BY <1>3, <1>9 DEF Ready, In, FenceOK
  <2>2. "booting" \in Places
    BY DEF Places
  <2>3. Subscribed # {}
    BY <1>4, <2>1
  <2>4. CASE attached = TRUE
    <3> DEFINE clients == InPlace(c, client)
    <3>1. Left(clients, buffer, TRUE) /\ boot' = boot
      BY <1>9, <2>4 DEF Ready
    <3>2. /\ clients \in [Clients -> ClientStates] /\ clients[c].at = "attached"
          /\ \A d \in Clients : d # c => clients[d] = client[d]
      BY <1>1, InPlaceClients
    <3> HIDE DEF clients
    <3>3. FenceOK(clients, boot', buffer, TRUE, turn)
      BY <1>3, <2>1, <2>4, <3>1, <3>2 DEF FenceOK, Busy
    <3> QED
      BY <1>1, <1>2, <2>3, <3>1, <3>2, <3>3, LeavingKeepsFence
  <2>5. CASE attached = FALSE
    <3> DEFINE clients == [client EXCEPT ![c].at = "booting"]
               k == [NoBoot EXCEPT !.step = "fence", !.turn = turn]
    <3>1. Left(clients, buffer, TRUE) /\ boot' = [boot EXCEPT ![c] = k]
      BY <1>9, <2>5 DEF Ready
    <3>2. /\ clients \in [Clients -> ClientStates]
          /\ \A d \in Clients : clients[d].at = IF d = c THEN "booting" ELSE client[d].at
      BY <1>1, <2>2, MovedClient
    <3>3. k.step = "fence" /\ k.turn = turn
      BY DEF NoBoot
    <3> HIDE DEF clients, k
    <3>4. \A d \in Clients : boot'[d] = IF d = c THEN k ELSE boot[d]
      BY <1>1, <3>1
    <3>5. \A d \in Clients : Busy(boot, d) => boot[d].turn # turn
      BY <1>3, <2>5 DEF FenceOK
    <3>6. ASSUME NEW d \in Clients
          PROVE  /\ boot'[d].step = "fence" => clients[d].at = "booting" /\ boot'[d].turn = turn
                 /\ boot'[d].turn <= turn
                 /\ clients[d].at \in {"away", "reading"} => ~Busy(boot', d)
      <4>1. CASE d = c
        BY <1>1, <3>2, <3>3, <3>4, <4>1 DEF Busy
      <4>2. CASE d # c
        BY <1>3, <3>2, <3>4, <4>2 DEF Busy, FenceOK
      <4> QED
        BY <4>1, <4>2
    <3>7. \A d, e \in Clients : Busy(boot', d) /\ Busy(boot', e) /\ boot'[d].turn = boot'[e].turn => d = e
      BY <1>3, <3>3, <3>4, <3>5 DEF Busy, FenceOK
    <3>8. Busy(boot', c) /\ boot'[c].turn = turn
      BY <3>3, <3>4 DEF Busy
    <3>9. FenceOK(clients, boot', buffer, TRUE, turn)
      BY <3>6, <3>7, <3>8 DEF FenceOK
    <3> QED
      BY <1>1, <1>2, <2>3, <3>1, <3>2, <3>9, LeavingKeepsFence
  <2> QED
    BY <1>1, <2>4, <2>5
<1>10. ASSUME NEW c \in Clients, NEW k, boot' = [boot EXCEPT ![c] = k],
              k.step \notin {"none", "fence"}, k.turn = boot[c].turn, Busy(boot, c),
              \A d \in Clients : client'[d].at = client[d].at,
              UNCHANGED <<buffer, attached, turn>>
       PROVE  FenceInv'
  <2>1. In(client') = In(client)
    BY <1>10 DEF In
  <2>2. \A d \in Clients : boot'[d] = IF d = c THEN k ELSE boot[d]
    BY <1>1, <1>10
  <2>3. \A d \in Clients : boot'[d].turn = boot[d].turn /\ (Busy(boot', d) <=> Busy(boot, d))
    BY <1>10, <2>2 DEF Busy
  <2>4. \A d \in Clients : boot'[d].step = "fence" => boot[d].step = "fence"
    BY <1>10, <2>2
  <2>5. FenceOK(client', boot', buffer', attached', turn')
    BY <1>3, <1>10, <2>1, <2>3, <2>4 DEF FenceOK
  <2> QED
    BY <1>3, <1>4, <1>5, <1>10, <2>1, <2>5
<1>11. ASSUME NEW c \in Clients, Replaying(c) PROVE FenceInv'
  <2>1. PICK frontier :
          /\ boot' = [boot EXCEPT ![c] = [boot[c] EXCEPT !.step = "read", !.frontier = frontier]]
          /\ \E out : Replayed(out)
          /\ boot[c].step \in {"check", "heir"}
          /\ UNCHANGED <<outside, run, buffer, overflowed, attached, turn, missing>>
    BY <1>11, Replays DEF Replaying
  <2> DEFINE k == [boot[c] EXCEPT !.step = "read", !.frontier = frontier]
  <2>2. k.step = "read" /\ k.turn = boot[c].turn
    BY <1>1 DEF BootStates
  <2>3. \A d \in Clients : client'[d].at = client[d].at
    BY <2>1 DEF Replayed
  <2>4. boot' = [boot EXCEPT ![c] = k] /\ Busy(boot, c) /\ UNCHANGED <<buffer, attached, turn>>
    BY <2>1 DEF Busy
  <2> HIDE DEF k
  <2> QED
    BY <1>10, <2>2, <2>3, <2>4
<1>12. ASSUME NEW c \in Clients, Abandoned(c) PROVE FenceInv'
  <2>1. /\ Subscribed = {} \/ turn # boot[c].turn
        /\ boot' = [boot EXCEPT ![c] = NoBoot] /\ UNCHANGED <<client, buffer, attached, turn>>
    BY <1>12 DEF Abandoned, runtime
  <2>2. NoBoot.step = "none" /\ NoBoot.turn = 0
    BY DEF NoBoot
  <2>3. \A d \in Clients : boot'[d] = IF d = c THEN NoBoot ELSE boot[d]
    BY <1>1, <2>1
  <2>4. FenceOK(client', boot', buffer', attached', turn')
    BY <1>1, <1>3, <1>4, <2>1, <2>2, <2>3 DEF FenceOK, Busy
  <2> QED
    BY <1>3, <1>4, <1>5, <2>1, <2>4
<1>13. ASSUME NEW c \in Clients, ReadCounter(c) PROVE FenceInv'
  <2> DEFINE k == [boot[c] EXCEPT !.step = "apply", !.counter = counter]
  <2>1. boot' = [boot EXCEPT ![c] = k]
    BY <1>1, <1>13 DEF ReadCounter
  <2>2. k.step = "apply" /\ k.turn = boot[c].turn
    BY <1>1 DEF BootStates
  <2>3. Busy(boot, c) /\ UNCHANGED <<client, buffer, attached, turn>>
    BY <1>13 DEF ReadCounter, runtime, Busy
  <2> HIDE DEF k
  <2> QED
    BY <1>10, <2>1, <2>2, <2>3
<1>14. ASSUME NEW c \in Clients, ApplyCounter(c) \/ ReadFails(c) PROVE FenceInv'
  <2>1. PICK r, clients :
           /\ Handles(buffer, r) /\ r.buffer.deferred = FALSE
           /\ buffer.deferred = TRUE => /\ boot[c].frontier <= r.buffer.next
                                        /\ \A i \in DOMAIN r.out : boot[c].frontier <= seqOf[r.out[i]]
           /\ Given(clients, r.out)
           /\ \A d \in Clients : clients[d].at = IF d = c /\ client[c].at = "booting" THEN "attached"
                                                 ELSE client[d].at
           /\ Left(clients, r.buffer, attached)
           /\ boot[c].step \in {"read", "apply"}
           /\ boot' = [boot EXCEPT ![c] = NoBoot] /\ early' = early /\ closed' = closed
           /\ missing' = missing /\ Resumes(c, r)
    BY <1>14, Synchronizing
  <2>2. NoBoot.step = "none" /\ NoBoot.turn = 0
    BY DEF NoBoot
  <2>3. \A d \in Clients : boot'[d] = IF d = c THEN NoBoot ELSE boot[d]
    BY <1>1, <2>1
  <2>4. clients \in [Clients -> ClientStates]
    BY <2>1 DEF Given
  <2>5. attached = FALSE => \A d \in Clients : clients[d].at \notin {"booting", "attached"}
    BY <1>3, <2>1 DEF FenceOK
  <2>6. FenceOK(clients, boot', r.buffer, attached, turn)
    <3>1. ASSUME NEW d \in Clients
          PROVE  /\ boot'[d].step = "fence" => clients[d].at = "booting" /\ boot'[d].turn = turn
                 /\ boot'[d].turn <= turn
                 /\ Busy(boot', d) /\ boot'[d].turn = turn => attached = TRUE
                 /\ clients[d].at \in {"away", "reading"} => ~Busy(boot', d)
      <4>1. CASE d = c
        BY <1>1, <2>2, <2>3, <4>1 DEF Busy
      <4>2. CASE d # c
        BY <1>3, <2>1, <2>3, <4>2 DEF Busy, FenceOK
      <4> QED
        BY <4>1, <4>2
    <3>2. \A d, e \in Clients : Busy(boot', d) /\ Busy(boot', e) /\ boot'[d].turn = boot'[e].turn => d = e
      BY <1>3, <2>2, <2>3 DEF Busy, FenceOK
    <3> QED
      BY <2>1, <2>5, <3>1, <3>2 DEF FenceOK
  <2> QED
    BY <1>1, <1>2, <1>3, <2>1, <2>4, <2>6, LeavingKeepsFence
<1>15. ASSUME NEW c \in Clients, CheckStored(c) PROVE FenceInv'
  <2>1. Left(CheckedFor(c), buffer, attached) /\ boot' = boot
    BY <1>15 DEF CheckStored, CheckedFor
  <2>2. CheckedFor(c) \in [Clients -> ClientStates] /\ \A d \in Clients : CheckedFor(c)[d].at = client[d].at
    BY <1>1, CheckedClients
  <2>3. In(CheckedFor(c)) = In(client)
    BY <2>2 DEF In
  <2>4. FenceOK(CheckedFor(c), boot', buffer, attached, turn)
    BY <1>3, <2>1, <2>2, <2>3 DEF FenceOK
  <2> QED
    BY <1>1, <1>2, <1>3, <2>1, <2>2, <2>4, LeavingKeepsFence
<1>16. ASSUME NEW c \in Clients, Departs(c) PROVE FenceInv'
  <2> DEFINE clients == [client EXCEPT ![c].at = "left"]
  <2>1. Left(clients, buffer, attached) /\ c \in Subscribed
    BY <1>16 DEF Departs
  <2>2. "left" \in Places
    BY DEF Places
  <2>3. /\ clients \in [Clients -> ClientStates]
        /\ \A d \in Clients : clients[d].at = IF d = c THEN "left" ELSE client[d].at
    BY <1>1, <2>2, MovedClient
  <2> HIDE DEF clients
  <2>8. boot[c] \in BootStates
    BY <1>1
  <2>6. PICK k \in BootStates :
          /\ boot' = [boot EXCEPT ![c] = k]
          /\ k.step # "fence"
          /\ \/ /\ k.turn = boot[c].turn
                /\ k.step # "none" <=> Busy(boot, c)
             \/ k.step = "none" /\ k.turn = 0 /\ Subscribed = {c}
    <3>1. NoBoot.step = "none" /\ NoBoot.turn = 0
      BY DEF NoBoot
    <3> QED
      BY <1>16, <2>8, <3>1, Leavings DEF Busy
  <2>4. \A d \in Clients : boot'[d] = IF d = c THEN k ELSE boot[d]
    BY <1>1, <2>6
  <2>5. In(clients) = In(client) \ {c}
    BY <2>3 DEF In
  <2>7. FenceOK(clients, boot', buffer, attached, turn)
    <3>1. ASSUME NEW d \in Clients
          PROVE  /\ boot'[d].step = "fence" => clients[d].at = "booting" /\ boot'[d].turn = turn
                 /\ boot'[d].turn <= turn
                 /\ Busy(boot', d) /\ boot'[d].turn = turn => attached = TRUE
                 /\ clients[d].at \in {"away", "reading"} => ~Busy(boot', d)
      <4>1. CASE d = c
        BY <1>1, <1>3, <2>3, <2>4, <2>6, <4>1 DEF Busy, FenceOK
      <4>2. CASE d # c
        BY <1>3, <2>3, <2>4, <4>2 DEF Busy, FenceOK
      <4> QED
        BY <4>1, <4>2
    <3>2. \A d, e \in Clients : Busy(boot', d) /\ Busy(boot', e) /\ boot'[d].turn = boot'[e].turn => d = e
      BY <1>3, <2>4, <2>6 DEF Busy, FenceOK
    <3>3. attached = FALSE => \A d \in Clients : clients[d].at \notin {"booting", "attached"}
      BY <1>3, <2>3 DEF FenceOK
    <3>4. In(clients) # {} => Subscribed # {c} /\ In(client) # {}
      BY <1>4, <2>5
    <3>5. In(clients) # {} /\ buffer.deferred = TRUE /\ attached = TRUE =>
            \E d \in Clients : Busy(boot', d) /\ boot'[d].turn = turn
      BY <1>3, <2>4, <2>6, <3>4 DEF Busy, FenceOK
    <3> QED
      BY <3>1, <3>2, <3>3, <3>5 DEF FenceOK
  <2> QED
    BY <1>1, <1>2, <1>3, <2>1, <2>3, <2>7, LeavingKeepsFence
<1>17. ASSUME NEW c \in Clients, Proceeds(c) PROVE FenceInv'
  <2>1. PICK k \in BootStates :
          /\ boot' = [boot EXCEPT ![c] = k]
          /\ k.step \in {"check", "broken"} /\ boot[c].step \in {"fence", "check"}
          /\ k.turn = boot[c].turn /\ k.frontier = boot[c].frontier /\ k.counter = boot[c].counter
    BY <1>1, <1>17, Proceeding
  <2>2. UNCHANGED <<client, buffer, attached, turn>> /\ Busy(boot, c)
    BY <1>17, <2>1 DEF Proceeds, runtime, Busy
  <2> QED
    BY <1>10, <2>1, <2>2
<1> QED
  BY <1>6, <1>7, <1>8, <1>9, <1>11, <1>12, <1>13, <1>14, <1>15, <1>16, <1>17, ClientSteps

LEMMA FenceInit == Init => FenceInv
<1> SUFFICES ASSUME Init PROVE FenceInv
  OBVIOUS
<1>1. /\ client = [c \in Clients |-> NewClient] /\ boot = [c \in Clients |-> NoBoot]
      /\ attached = FALSE /\ turn = 0 /\ buffer.deferred = FALSE
  BY DEF Init, NewBuffer
<1>2. \A c \in Clients : client[c].at = "away" /\ boot[c].step = "none" /\ boot[c].turn = 0
  BY <1>1 DEF NewClient, NoBoot
<1>3. Subscribed = {}
  BY <1>2 DEF Subscribed, In
<1> QED
  BY <1>1, <1>2, <1>3 DEF FenceInv, FenceOK, Busy

LEMMA FenceAlways == Spec => [](BaseInv /\ FenceInv)
BY BaseInit, BaseStep, FenceInit, FenceStep, PTL DEF Spec

\* While the live frames of a replica are held back (deferred), there is a client
\* about to begin the bootstrap of this attachment, or a bootstrap of it that is
\* under way: whoever joins, leaves or takes over, and whichever bootstraps of
\* earlier attachments are still about, the fence of the reorder buffer is left
\* closed with nobody to open it only by a bootstrap of this attachment that broke
\* off at its second check of the generation (attachSubscription and
\* continueEarlyEventBootstrap in GenerationJobManager).
THEOREM FenceOwned == Spec => []FenceHasOwner
<1>1. BaseInv /\ FenceInv => FenceHasOwner
  <2> SUFFICES ASSUME BaseInv, FenceInv, buffer.deferred = TRUE, ~Stranded
               PROVE  IF attached THEN \E c \in Clients : /\ boot[c].step \notin {"none", "broken"}
                                                          /\ boot[c].turn = turn
                      ELSE \E c \in Clients : client[c].at = "reading"
    BY DEF FenceHasOwner, BaseInv, TypeOK
  <2>1. attached \in BOOLEAN /\ Subscribed # {} /\ Subscribed = In(client)
    BY DEF BaseInv, TypeOK, FenceInv, Subscribed
  <2>2. CASE attached = TRUE
    BY <2>1, <2>2 DEF FenceInv, FenceOK, Busy, Stranded
  <2>3. CASE attached = FALSE
    BY <2>1, <2>3 DEF FenceInv, FenceOK, In
  <2> QED
    BY <2>1, <2>2, <2>3
<1> QED
  BY <1>1, FenceAlways, PTL

-----------------------------------------------------------------------------
(***************************************************************************)
(* The order of what a client is shown, when every client wants the stream *)
(* from its start: then live frames are held back from the first           *)
(* subscription of a turn until its replay is done.                        *)
(***************************************************************************)

\* Two events of a view that are in order; only a failed publication may come early.
InOrder(e, f, failed) == f # Created => e # f /\ (e < f \/ e \in failed)
Well(v, failed) == \A i, j \in DOMAIN v : i < j => InOrder(v[i], v[j], failed)

Deltas(v) == ToSet(v) \ {Created}

\* A view in order, of events that have a number (num) or an answer (ans).
Sound(v, num, ans) == Well(v, ans \ num) /\ Deltas(v) \subseteq num \cup ans \cup {LastEvent}

\* The deltas of a view that have a number have one below n.
Under(v, num, seq, n) == \A e \in Deltas(v) \cap num : seq[e] < n

LEMMA Joined ==
  ASSUME NEW v \in Seq(Events), NEW w \in Seq(Events)
  PROVE  /\ v \o w \in Seq(Events) /\ ToSet(v \o w) = ToSet(v) \cup ToSet(w)
         /\ \A i, j \in DOMAIN (v \o w) : i < j =>
              \/ i \in DOMAIN v /\ j \in DOMAIN v /\ (v \o w)[i] = v[i] /\ (v \o w)[j] = v[j]
              \/ \E k \in DOMAIN w : i \in DOMAIN v /\ (v \o w)[i] = v[i] /\ (v \o w)[j] = w[k]
              \/ \E k, l \in DOMAIN w : k < l /\ (v \o w)[i] = w[k] /\ (v \o w)[j] = w[l]
<1> DEFINE u == v \o w
<1>1. /\ u \in Seq(Events) /\ Len(u) = Len(v) + Len(w) /\ Len(v) \in Nat /\ Len(w) \in Nat
      /\ DOMAIN u = 1 .. Len(u) /\ DOMAIN v = 1 .. Len(v) /\ DOMAIN w = 1 .. Len(w)
  OBVIOUS
<1>2. \A i \in 1 .. Len(u) : u[i] = IF i <= Len(v) THEN v[i] ELSE w[i - Len(v)]
  BY ConcatProperties
<1> HIDE DEF u
<1>3. \A i \in DOMAIN u : \/ i \in DOMAIN v /\ u[i] = v[i]
                          \/ i - Len(v) \in DOMAIN w /\ u[i] = w[i - Len(v)] /\ i > Len(v)
  BY <1>1, <1>2
<1>4. \A i \in DOMAIN v : i \in DOMAIN u /\ u[i] = v[i]
  BY <1>1, <1>2
<1>5. \A k \in DOMAIN w : k + Len(v) \in DOMAIN u /\ u[k + Len(v)] = w[k]
  BY <1>1, <1>2
<1>6. ToSet(u) = ToSet(v) \cup ToSet(w)
  <2>1. ASSUME NEW i \in DOMAIN u PROVE u[i] \in ToSet(v) \cup ToSet(w)
    BY <1>3 DEF ToSet
  <2>2. ASSUME NEW i \in DOMAIN v PROVE v[i] \in ToSet(u)
    BY <1>4 DEF ToSet
  <2>3. ASSUME NEW k \in DOMAIN w PROVE w[k] \in ToSet(u)
    BY <1>5 DEF ToSet
  <2> QED
    BY <2>1, <2>2, <2>3 DEF ToSet
<1>7. ASSUME NEW i \in DOMAIN u, NEW j \in DOMAIN u, i < j
      PROVE  \/ i \in DOMAIN v /\ j \in DOMAIN v /\ u[i] = v[i] /\ u[j] = v[j]
             \/ \E k \in DOMAIN w : i \in DOMAIN v /\ u[i] = v[i] /\ u[j] = w[k]
             \/ \E k, l \in DOMAIN w : k < l /\ u[i] = w[k] /\ u[j] = w[l]
  <2>1. CASE i \in DOMAIN v /\ j \in DOMAIN v
    BY <1>4, <2>1
  <2>2. CASE i \in DOMAIN v /\ j \notin DOMAIN v
    BY <1>3, <1>4, <2>2
  <2>3. CASE i \notin DOMAIN v
    <3>1. i - Len(v) \in DOMAIN w /\ u[i] = w[i - Len(v)] /\ i > Len(v)
      BY <1>3, <2>3
    <3>2. j \notin DOMAIN v
      BY <1>1, <1>7, <3>1
    <3>3. j - Len(v) \in DOMAIN w /\ u[j] = w[j - Len(v)]
      BY <1>3, <3>2
    <3>4. i - Len(v) < j - Len(v)
      BY <1>1, <1>7
    <3> QED
      BY <3>1, <3>3, <3>4
  <2> QED
    BY <2>1, <2>2, <2>3
<1> QED
  BY <1>1, <1>6, <1>7 DEF u

LEMMA Appending ==
  ASSUME NEW v \in Seq(Events), NEW w \in Seq(Events), NEW failed, Well(v, failed), Well(w, failed),
         \A e \in ToSet(v), f \in ToSet(w) : InOrder(e, f, failed)
  PROVE  Well(v \o w, failed)
<1> DEFINE u == v \o w
<1> SUFFICES ASSUME NEW i \in DOMAIN u, NEW j \in DOMAIN u, i < j PROVE InOrder(u[i], u[j], failed)
  BY DEF Well
<1>1. \/ i \in DOMAIN v /\ j \in DOMAIN v /\ u[i] = v[i] /\ u[j] = v[j]
      \/ \E k \in DOMAIN w : i \in DOMAIN v /\ u[i] = v[i] /\ u[j] = w[k]
      \/ \E k, l \in DOMAIN w : k < l /\ u[i] = w[k] /\ u[j] = w[l]
  BY Joined
<1> HIDE DEF u
<1>2. \A k \in DOMAIN v : v[k] \in ToSet(v)
  BY DEF ToSet
<1>3. \A k \in DOMAIN w : w[k] \in ToSet(w)
  BY DEF ToSet
<1> QED
  BY <1>1, <1>2, <1>3 DEF Well

\* Part of a list that rises, or that is created alone, is in order.
LEMMA PartIsWell ==
  ASSUME NEW s \in Seq(Events), NEW w \in Seq(Events), PartOf(w, s), Rising(s), NEW failed
  PROVE  Well(w, failed) /\ ToSet(w) \subseteq ToSet(s)
<1>1. \A i \in DOMAIN s : s[i] \in Nat
  BY BoundsAssumption DEF Events
<1>2. Well(w, failed)
  <2> SUFFICES ASSUME NEW i \in DOMAIN w, NEW j \in DOMAIN w, i < j PROVE w[i] < w[j] /\ w[i] # w[j]
    BY DEF Well, InOrder
  <2>1. PICK k \in DOMAIN s, l \in DOMAIN s : k < l /\ w[i] = s[k] /\ w[j] = s[l]
    BY DEF PartOf
  <2> QED
    BY <1>1, <2>1 DEF Rising
<1>3. ToSet(w) \subseteq ToSet(s)
  BY DEF PartOf, ToSet
<1> QED
  BY <1>2, <1>3

\* What a buffer gives out has a number, and rises.
LEMMA DeliveredRises ==
  ASSUME NumbersRise, NEW out, NEW lo \in Int, NEW hi \in Int, Delivers(out, lo, hi)
  PROVE  /\ out \in Seq(Events) /\ Rising(out)
         /\ \A e \in ToSet(out) : e \in Numbered /\ lo <= seqOf[e] /\ seqOf[e] < hi
<1>1. out \in Seq(Events) /\ \A i \in DOMAIN out : out[i] \in Nat
  BY BoundsAssumption DEF Delivers, Events
<1>2. \A e \in Numbered : seqOf[e] \in Nat
  BY DEF NumbersRise, Numbered, NoFrontier
<1>3. ASSUME NEW i \in DOMAIN out, NEW j \in DOMAIN out, i < j PROVE out[i] < out[j]
  <2>1. out[i] \in Numbered /\ out[j] \in Numbered /\ seqOf[out[i]] < seqOf[out[j]]
    BY <1>3 DEF Delivers
  <2>2. ~(out[j] < out[i]) /\ out[i] # out[j]
    <3>1. seqOf[out[i]] \in Nat /\ seqOf[out[j]] \in Nat
      BY <1>2, <2>1
    <3>2. CASE out[j] < out[i]
      <4>1. seqOf[out[j]] < seqOf[out[i]]
        BY <2>1, <3>2 DEF NumbersRise
      <4> QED
        BY <2>1, <3>1, <4>1
    <3>3. CASE out[i] = out[j]
      BY <2>1, <3>1, <3>3
    <3> QED
      BY <3>2, <3>3
  <2> QED
    BY <1>1, <2>2
<1>4. \A e \in ToSet(out) : e \in Numbered /\ lo <= seqOf[e] /\ seqOf[e] < hi
  BY DEF Delivers, ToSet
<1> QED
  BY <1>1, <1>3, <1>4 DEF Rising

\* Showing a client what a buffer gives out, all above what it was shown.
LEMMA ShowingInOrder ==
  ASSUME Counted, NEW c \in Clients, client[c].view \in Seq(Events), answered \subseteq Events,
         Sound(client[c].view, Numbered, answered),
         NEW lo \in Int, NEW hi \in Int, lo <= hi, NEW out, Delivers(out, lo, hi),
         ~Closed(c) => Under(client[c].view, Numbered, seqOf, lo),
         NEW v, v = client[c].view \o Shown(c, out)
  PROVE  /\ Sound(v, Numbered, answered) /\ ToSet(client[c].view) \subseteq ToSet(v)
         /\ Closed(c) => v = client[c].view
         /\ ~Closed(c) => Under(v, Numbered, seqOf, hi)
<1> DEFINE w == Shown(c, out)
           k == client[c].view
<1>1. NumbersRise /\ \A e \in Numbered : seqOf[e] \in Nat
  BY DEF Counted, NumbersRise, Numbered, NoFrontier
<1>2. /\ out \in Seq(Events) /\ Rising(out)
      /\ \A e \in ToSet(out) : e \in Numbered /\ lo <= seqOf[e] /\ seqOf[e] < hi
  BY <1>1, DeliveredRises
<1>3. w \in Seq(Events) /\ PartOf(w, out) /\ (Closed(c) => w = <<>>)
  BY <1>2, ShownIsPart
<1> HIDE DEF w
<1>4. Well(w, Failed) /\ ToSet(w) \subseteq ToSet(out)
  BY <1>2, <1>3, PartIsWell
<1>5. v \in Seq(Events) /\ ToSet(v) = ToSet(k) \cup ToSet(w)
  BY <1>3, Joined DEF w
<1>6. CASE Closed(c)
  <2>1. v = k
    BY <1>3, <1>6, ConcatEmptySeq DEF w
  <2> QED
    BY <1>6, <2>1
<1>7. CASE ~Closed(c)
  <2>1. Under(k, Numbered, seqOf, lo) /\ LastEvent \notin ToSet(k)
    BY <1>7 DEF Closed, Over
  <2>2. ASSUME NEW e \in ToSet(k), NEW f \in ToSet(w) PROVE InOrder(e, f, Failed)
    <3>1. f \in Numbered /\ lo <= seqOf[f] /\ seqOf[f] \in Nat
      BY <1>1, <1>2, <1>4
    <3>2. e \in Events /\ f \in Events /\ e \in Nat /\ f \in Nat /\ 1 <= f
      <4>1. k \in Seq(Events)
        OBVIOUS
      <4> HIDE DEF k
      <4>2. \A i \in DOMAIN k : k[i] \in Events
        BY <4>1
      <4>3. e \in Events /\ f \in Events
        BY <3>1, <4>2 DEF ToSet, Numbered
      <4> QED
        BY <4>3, BoundsAssumption DEF Events
    <3>3. CASE e = Created
      BY <3>2, <3>3 DEF InOrder, Created
    <3>4. CASE e # Created /\ e \in Numbered
      <4>1. seqOf[e] < lo /\ seqOf[e] \in Nat
        BY <1>1, <2>1, <3>4 DEF Under, Deltas
      <4>2. seqOf[e] < seqOf[f]
        BY <3>1, <4>1
      <4>3. e # f /\ ~(f < e)
        BY <1>1, <3>1, <3>4, <4>1, <4>2 DEF NumbersRise
      <4> QED
        BY <3>2, <4>3 DEF InOrder
    <3>5. CASE e # Created /\ e \notin Numbered
      <4>1. e \in answered
        BY <2>1, <3>5 DEF Sound, Deltas
      <4> QED
        BY <3>1, <3>5, <4>1 DEF InOrder, Failed
    <3> QED
      BY <3>3, <3>4, <3>5
  <2>3. Well(v, Failed)
    BY <1>3, <1>4, <2>2, Appending DEF Sound, Failed, w
  <2>4. Deltas(v) \subseteq Numbered \cup answered \cup {LastEvent}
    BY <1>2, <1>4, <1>5 DEF Sound, Deltas
  <2>5. Under(v, Numbered, seqOf, hi)
    <3> SUFFICES ASSUME NEW e \in Deltas(v) \cap Numbered PROVE seqOf[e] < hi
      BY DEF Under
    <3>1. CASE e \in ToSet(k)
      <4>1. seqOf[e] < lo /\ seqOf[e] \in Nat
        BY <1>1, <2>1, <3>1 DEF Under, Deltas
      <4> QED
        BY <4>1
    <3>2. CASE e \in ToSet(w)
      BY <1>2, <1>4, <3>2
    <3> QED
      BY <1>5, <3>1, <3>2 DEF Deltas
  <2> QED
    BY <1>5, <1>7, <2>3, <2>4, <2>5 DEF Sound, Failed
<1> QED
  BY <1>6, <1>7

\* What is kept for replay is kept in order, and nothing once it is closed.
EarlyInv ==
  /\ Rising(early) /\ \A i \in DOMAIN early : early[i] <= emitted
  /\ closed = TRUE => early = <<>>

\* A step leaves the early buffer alone, or emits, or replays it.
LEMMA EarlyMoves ==
  ASSUME BaseInv, [Next]_vars
  PROVE  \/ early' = early /\ closed' = closed
         \/ Emit /\ early' = Append(early, emitted + 1) /\ closed' = closed /\ closed = FALSE
         \/ early' = <<>> /\ closed' = TRUE
<1>1. CASE Emit
  <2>1. Buffer(emitted + 1) /\ closed \in BOOLEAN
    BY <1>1 DEF Emit, BaseInv, TypeOK
  <2>2. CASE Buffered(emitted + 1)
    BY <1>1, <2>1, <2>2 DEF Buffer, Buffered
  <2>3. CASE ~Buffered(emitted + 1)
    BY <1>1, <2>1, <2>3 DEF Buffer
  <2> QED
    BY <2>2, <2>3
<1>2. CASE Idle
  BY <1>1, <1>2 DEF Idle
<1>3. CASE Arrival
  <2>1. UNCHANGED kept
    BY <1>3 DEF Arrival, FlushTimeout, Arrive
  <2> QED
    BY <2>1 DEF kept
<1>4. ASSUME NEW c \in Clients,
             \/ Subscribe(c) \/ Ready(c) \/ Proceeds(c) \/ Abandoned(c) \/ ReadCounter(c)
             \/ ApplyCounter(c) \/ ReadFails(c) \/ CheckStored(c) \/ Departs(c)
      PROVE  early' = early /\ closed' = closed
  BY <1>4 DEF Subscribe, Ready, Proceeds, Abandoned, ReadCounter, ApplyCounter, ReadFails, CheckStored, Departs,
              runtime, kept
<1>5. ASSUME NEW c \in Clients, Replaying(c) PROVE early' = <<>> /\ closed' = TRUE
  BY <1>5, Replays DEF Replaying
<1> QED
  BY <1>2, <1>3, <1>4, <1>5, ClientSteps

LEMMA EarlyStep == BaseInv /\ EarlyInv /\ [Next]_vars => EarlyInv'
<1> SUFFICES ASSUME BaseInv, EarlyInv, [Next]_vars PROVE EarlyInv'
  OBVIOUS
<1>1. /\ early \in Seq(Events) /\ emitted \in Nat /\ LastEvent \in Nat
  BY BoundsAssumption DEF BaseInv, TypeOK
<1>2. \A i \in DOMAIN early : early[i] \in Nat
  BY <1>1 DEF Events
<1>3. CASE early' = early /\ closed' = closed
  <2>1. emitted' = emitted \/ emitted' = emitted + 1
    <3>1. RunTypes
      BY BaseParts
    <3> QED
      BY <3>1, RunStep DEF RunMoves, Quiet
  <2> QED
    BY <1>1, <1>2, <1>3, <2>1 DEF EarlyInv, Rising
<1>4. CASE Emit /\ early' = Append(early, emitted + 1) /\ closed' = closed /\ closed = FALSE
  <2>1. emitted' = emitted + 1 /\ emitted + 1 \in Events
    BY <1>1, <1>4 DEF Emit, Events
  <2>2. /\ DOMAIN early' = DOMAIN early \cup {Len(early) + 1}
        /\ early'[Len(early) + 1] = emitted + 1
        /\ \A i \in DOMAIN early : early'[i] = early[i] /\ i < Len(early) + 1
        /\ DOMAIN early \subseteq Nat \ {0} /\ Len(early) \in Nat
    BY <1>1, <1>4, <2>1, ListSteps
  <2>3. \A i \in DOMAIN early' : early'[i] <= emitted'
    BY <1>1, <1>2, <2>1, <2>2 DEF EarlyInv
  <2>4. Rising(early')
    <3> SUFFICES ASSUME NEW i \in DOMAIN early', NEW j \in DOMAIN early', i < j PROVE early'[i] < early'[j]
      BY DEF Rising
    <3>1. CASE j \in DOMAIN early
      <4>1. i \in DOMAIN early
        BY <2>2, <3>1
      <4> QED
        BY <2>2, <3>1, <4>1 DEF EarlyInv, Rising
    <3>2. CASE j = Len(early) + 1
      <4>1. i \in DOMAIN early
        BY <2>2, <3>2
      <4> QED
        BY <1>1, <1>2, <2>2, <3>2, <4>1 DEF EarlyInv
    <3> QED
      BY <2>2, <3>1, <3>2
  <2> QED
    BY <1>4, <2>3, <2>4 DEF EarlyInv, Rising
<1>5. CASE early' = <<>> /\ closed' = TRUE
  BY <1>5 DEF EarlyInv, Rising
<1> QED
  BY <1>3, <1>4, <1>5, EarlyMoves

\* While the early buffer is open: live frames are held back from whoever is
\* subscribed, and nobody was shown anything but the end.  cl, bt, b, hs: the clients, the
\* bootstraps, the buffer and hasSubscriber.
HeldOK(cl, bt, b, hs, shut) ==
  /\ \A c \in Clients :
       /\ cl[c].at = "reading" /\ hs = FALSE => cl[c].defers = TRUE
       /\ Busy(bt, c) => cl[c].defers = TRUE
       /\ cl[c].at = "away" => cl[c].view = <<>>
       /\ bt[c].step \in {"read", "apply"} => shut = TRUE
  /\ shut = FALSE /\ In(cl) # {} => b.deferred = TRUE
  /\ shut = FALSE => \A c \in In(cl) : ToSet(cl[c].view) \subseteq {LastEvent}

HeldInv == HeldOK(client, boot, buffer, attached, closed)

LEMMA LeavingKeepsHeld ==
  ASSUME NEW clients \in [Clients -> ClientStates], NEW b, NEW hs \in BOOLEAN, Left(clients, b, hs),
         HeldOK(clients, boot', b, hs, closed')
  PROVE  HeldInv'
<1>1. \A c \in Clients :
        /\ client'[c].view = clients[c].view /\ client'[c].defers = clients[c].defers
        /\ client'[c].told = clients[c].told
        /\ client'[c].at \in {"away", "reading"} => client'[c].at = clients[c].at
  BY LeftClients
<1>2. /\ In(client') \subseteq In(clients)
      /\ \/ In(client') = {}
         \/ buffer' = b /\ attached' = hs
  BY LeftClients
<1>3. ASSUME NEW c \in Clients
      PROVE  /\ Busy(boot', c) => client'[c].defers = TRUE
             /\ client'[c].at = "away" => client'[c].view = <<>>
             /\ boot'[c].step \in {"read", "apply"} => closed' = TRUE
  BY <1>1 DEF HeldOK
<1>4. ASSUME NEW c \in Clients, client'[c].at = "reading", attached' = FALSE PROVE client'[c].defers = TRUE
  <2>1. c \in In(client')
    BY <1>4 DEF In
  <2>2. hs = FALSE
    BY <1>2, <1>4, <2>1
  <2> QED
    BY <1>1, <1>4, <2>2 DEF HeldOK
<1>5. closed' = FALSE /\ In(client') # {} => buffer'.deferred = TRUE
  BY <1>2 DEF HeldOK
<1>6. closed' = FALSE => \A c \in In(client') : ToSet(client'[c].view) \subseteq {LastEvent}
  <2> SUFFICES ASSUME closed' = FALSE, NEW c \in In(client') PROVE ToSet(client'[c].view) \subseteq {LastEvent}
    OBVIOUS
  <2>1. c \in Clients /\ c \in In(clients)
    BY <1>2 DEF In
  <2> QED
    BY <1>1, <1>3, <2>1 DEF HeldOK
<1>7. HeldOK(client', boot', buffer', attached', closed')
  BY <1>3, <1>4, <1>5, <1>6 DEF HeldOK
<1> QED
  BY <1>7 DEF HeldInv, HeldOK, Busy, In

LEMMA NothingShown ==
  ASSUME NEW c \in Clients
  PROVE  Shown(c, <<>>) = <<>>
<1> DEFINE none == <<>>
<1>1. none \in Seq(Events) /\ DOMAIN none = {}
  OBVIOUS
<1> HIDE DEF none
<1>2. Shown(c, none) \in Seq(Events) /\ PartOf(Shown(c, none), none)
  BY <1>1, ShownIsPart
<1>3. DOMAIN Shown(c, none) = {}
  BY <1>1, <1>2 DEF PartOf
<1>4. Shown(c, none) = <<>>
  BY <1>2, <1>3
<1> QED
  BY <1>4 DEF none

\* What ends a list is all there is more in it.
LEMMA AppendedSet ==
  ASSUME NEW v \in Seq(Events), NEW e \in Events
  PROVE  ToSet(Append(v, e)) = ToSet(v) \cup {e}
<1> DEFINE u == Append(v, e)
<1>1. /\ DOMAIN u = DOMAIN v \cup {Len(v) + 1} /\ u[Len(v) + 1] = e
      /\ \A i \in DOMAIN v : u[i] = v[i]
  BY ListSteps
<1> HIDE DEF u
<1>2. ASSUME NEW i \in DOMAIN u PROVE u[i] \in ToSet(v) \cup {e}
  BY <1>1 DEF ToSet
<1>3. ASSUME NEW i \in DOMAIN v PROVE v[i] \in ToSet(u)
  BY <1>1 DEF ToSet
<1>4. e \in ToSet(u)
  BY <1>1 DEF ToSet
<1>5. ToSet(u) = ToSet(v) \cup {e}
  BY <1>2, <1>3, <1>4 DEF ToSet
<1> QED
  BY <1>5 DEF u

\* A client that is not closed and saw nothing but the terminal event saw nothing.
LEMMA SawNothing ==
  ASSUME NEW k \in ClientStates, ToSet(k.view) \subseteq {LastEvent}, ~Over(k)
  PROVE  k.view = <<>>
<1> DEFINE v == k.view
<1>1. v \in Seq(Events) /\ ToSet(v) = {}
  BY ClientFields DEF Over
<1> HIDE DEF v
<1>2. DOMAIN v = {}
  BY <1>1 DEF ToSet
<1>3. v = <<>>
  BY <1>1, <1>2
<1> QED
  BY <1>3 DEF v

\* Clients that were given nothing, and were at most told to reconnect.
LEMMA OverGrows ==
  ASSUME NEW x \in ClientStates, NEW k \in ClientStates, k.told = TRUE => x.told = TRUE,
         ToSet(k.view) \subseteq ToSet(x.view), Over(k)
  PROVE  Over(x)
BY ClientFields DEF Over

LEMMA HeldStep == Resuming = {} /\ BaseInv /\ FenceInv /\ HeldInv /\ [Next]_vars => HeldInv'
<1> SUFFICES ASSUME Resuming = {}, BaseInv, FenceInv, HeldInv, [Next]_vars PROVE HeldInv'
  OBVIOUS
<1>1. /\ client \in [Clients -> ClientStates] /\ boot \in [Clients -> BootStates]
      /\ attached \in BOOLEAN /\ turn \in Nat /\ TRUE \in BOOLEAN /\ closed \in BOOLEAN
  BY DEF BaseInv, TypeOK
<1>2. /\ \A c \in Clients :
           /\ client[c].at = "reading" /\ attached = FALSE => client[c].defers = TRUE
           /\ Busy(boot, c) => client[c].defers = TRUE
           /\ client[c].at = "away" => client[c].view = <<>>
           /\ boot[c].step \in {"read", "apply"} => closed = TRUE
      /\ closed = FALSE /\ In(client) # {} => buffer.deferred = TRUE
      /\ closed = FALSE => \A c \in In(client) : ToSet(client[c].view) \subseteq {LastEvent}
  BY DEF HeldInv, HeldOK
<1>3. HeldOK(client', boot', buffer', attached', closed') => HeldInv'
  BY DEF HeldInv, HeldOK, Busy, In
<1>4. Subscribed = In(client) /\ Initial = Clients
  BY DEF Subscribed, Clients
<1>5. CASE Idle
  <2>1. UNCHANGED <<client, boot, buffer, attached, turn>>
    BY <1>5 DEF Idle
  <2>2. closed' = closed \/ closed' = TRUE
    BY EarlyMoves
  <2>3. CASE closed' = closed
    BY <2>1, <2>3 DEF HeldInv, HeldOK, Busy, In
  <2>4. CASE closed' = TRUE
    <3>1. HeldOK(client, boot, buffer, attached, TRUE)
      BY <1>2 DEF HeldOK
    <3> QED
      BY <1>3, <2>1, <2>4, <3>1
  <2> QED
    BY <2>2, <2>3, <2>4
<1>6. CASE Arrival
  <2>1. PICK r : /\ Handles(buffer, r) /\ r.buffer.deferred = buffer.deferred
                 /\ buffer.deferred = TRUE => r.out = <<>>
                 /\ Given(Handed(Subscribed, r.out), r.out)
                 /\ Left(Handed(Subscribed, r.out), r.buffer, attached)
                 /\ boot' = boot /\ early' = early /\ closed' = closed
    BY <1>6, Arrivals DEF Arrival
  <2> DEFINE given == r.out
             clients == Handed(Subscribed, given)
  <2>2. given \in Seq(Events)
    BY <2>1 DEF Handles, Delivers
  <2> HIDE DEF given
  <2>3. \A c \in Clients :
          LET x == Handed(Subscribed, given)[c]
              k == client[c]
          IN  /\ x.at = k.at /\ x.defers = k.defers /\ x.told = k.told
              /\ x.served = k.served /\ x.checked = k.checked
              /\ c \notin Subscribed => x = k
              /\ c \in Subscribed => x.view = k.view \o Shown(c, given)
    BY <1>1, <2>2, HandedClients
  <2>4. clients \in [Clients -> ClientStates]
    BY <2>1 DEF Given, given
  <2> HIDE DEF clients
  <2>5. In(clients) = In(client)
    BY <2>3 DEF In, clients
  <2>6. ASSUME closed = FALSE, NEW c \in In(client) PROVE ToSet(clients[c].view) \subseteq {LastEvent}
    <3>1. c \in Clients /\ given = <<>>
      BY <1>2, <2>1, <2>6 DEF In, given
    <3>2. client[c].view \in Seq(Events)
      BY <1>1, <3>1, ClientFields
    <3>3. clients[c].view = client[c].view
      <4>1. c \in Subscribed /\ Shown(c, given) = <<>>
        BY <1>4, <2>6, <3>1, NothingShown
      <4>2. clients[c].view = client[c].view \o Shown(c, given)
        BY <2>3, <3>1, <4>1 DEF clients
      <4> QED
        BY <3>2, <4>1, <4>2
    <3> QED
      BY <1>2, <2>6, <3>1, <3>3
  <2>7. ASSUME NEW c \in Clients, client[c].at = "away" PROVE clients[c].view = <<>>
    BY <1>2, <1>4, <2>3, <2>7 DEF In, clients
  <2>8. HeldOK(clients, boot', r.buffer, attached, closed')
    BY <1>2, <2>1, <2>3, <2>5, <2>6, <2>7 DEF HeldOK, clients
  <2> QED
    BY <1>1, <2>1, <2>4, <2>8, LeavingKeepsHeld DEF clients, given
<1>7. ASSUME NEW c \in Clients, Subscribe(c) PROVE HeldInv'
  <2>1. /\ client[c].at = "away"
        /\ client' = [client EXCEPT ![c] = [client[c] EXCEPT !.at = "reading", !.defers = Defers(c)]]
        /\ buffer' = IF Subscribed = {} THEN NewBuffer(Defers(c)) ELSE buffer
        /\ attached' = attached /\ boot' = boot /\ closed' = closed
    BY <1>7 DEF Subscribe, runtime
  <2>2. Defers(c) = (attached = FALSE)
    BY <1>1, <1>4 DEF Defers
  <2>3. /\ client'[c].at = "reading" /\ client'[c].defers = (attached = FALSE)
        /\ client'[c].view = <<>>
        /\ \A d \in Clients : d # c => client'[d] = client[d]
    BY <1>1, <1>2, <2>1, <2>2 DEF ClientStates
  <2>4. /\ Subscribed = {} => buffer'.deferred = TRUE
        /\ Subscribed # {} => buffer' = buffer
    BY <2>1, <2>2 DEF NewBuffer, FenceInv
  <2>5. ~Busy(boot, c)
    BY <2>1 DEF FenceInv, FenceOK
  <2>6. In(client') = In(client) \cup {c}
    BY <2>3 DEF In
  <2>7. ASSUME NEW d \in Clients
        PROVE  /\ client'[d].at = "reading" /\ attached' = FALSE => client'[d].defers = TRUE
               /\ Busy(boot', d) => client'[d].defers = TRUE
               /\ client'[d].at = "away" => client'[d].view = <<>>
               /\ boot'[d].step \in {"read", "apply"} => closed' = TRUE
    <3>1. boot' = boot /\ attached' = attached /\ closed' = closed
      BY <2>1
    <3>2. CASE d = c
      <4>1. attached = FALSE => client'[c].defers = TRUE
        BY <2>3
      <4> QED
        BY <1>2, <2>3, <2>5, <3>1, <3>2, <4>1
    <3>3. CASE d # c
      <4>1. client'[d] = client[d]
        BY <2>3, <3>3
      <4> QED
        BY <1>2, <3>1, <4>1
    <3> QED
      BY <3>2, <3>3
  <2>8. closed = FALSE => buffer'.deferred = TRUE
    BY <1>2, <1>4, <2>4
  <2>9. closed = FALSE => \A d \in In(client') : ToSet(client'[d].view) \subseteq {LastEvent}
    <3> SUFFICES ASSUME closed = FALSE, NEW d \in In(client') PROVE ToSet(client'[d].view) \subseteq {LastEvent}
      OBVIOUS
    <3>1. CASE d = c
      BY <2>3, <3>1 DEF ToSet
    <3>2. CASE d # c
      <4>1. client'[d] = client[d] /\ d \in In(client)
        BY <2>3, <2>6, <3>2 DEF In
      <4> QED
        BY <1>2, <4>1
    <3> QED
      BY <3>1, <3>2
  <2>10. HeldOK(client', boot', buffer', attached', closed')
    BY <2>1, <2>7, <2>8, <2>9 DEF HeldOK
  <2> QED
    BY <1>3, <2>10
<1>8. ASSUME NEW c \in Clients, Ready(c) PROVE HeldInv'
  <2>1. client[c].at = "reading" /\ c \in In(client) /\ ~Busy(boot, c) /\ closed' = closed
    BY <1>8 DEF Ready, In, FenceInv, FenceOK, kept
  <2>2. CASE attached = TRUE
    <3> DEFINE clients == InPlace(c, client)
    <3>1. Left(clients, buffer, TRUE) /\ boot' = boot
      BY <1>8, <2>2 DEF Ready
    <3>2. /\ clients \in [Clients -> ClientStates] /\ clients[c].at = "attached"
          /\ \A d \in Clients :
               /\ clients[d].view = client[d].view /\ clients[d].defers = client[d].defers
               /\ client[d].told = TRUE => clients[d].told = TRUE
               /\ d # c => clients[d] = client[d]
      BY <1>1, InPlaceClients
    <3> HIDE DEF clients
    <3>3. In(clients) = In(client)
      BY <2>1, <3>2 DEF In
    <3>5. ASSUME closed = FALSE, NEW d \in In(clients) PROVE ToSet(clients[d].view) \subseteq {LastEvent}
      <4>1. d \in Clients /\ d \in In(client)
        BY <3>3 DEF In
      <4> QED
        BY <1>2, <3>2, <3>5, <4>1
    <3>6. ASSUME NEW d \in Clients
          PROVE  /\ Busy(boot, d) => clients[d].defers = TRUE
                 /\ clients[d].at = "away" => clients[d].view = <<>>
                 /\ boot[d].step \in {"read", "apply"} => closed = TRUE
      BY <1>2, <3>2
    <3>7. HeldOK(clients, boot', buffer, TRUE, closed')
      BY <1>2, <2>1, <3>1, <3>3, <3>5, <3>6 DEF HeldOK
    <3> QED
      BY <1>1, <3>1, <3>2, <3>7, LeavingKeepsHeld
  <2>3. CASE attached = FALSE
    <3> DEFINE clients == [client EXCEPT ![c].at = "booting"]
               k == [NoBoot EXCEPT !.step = "fence", !.turn = turn]
    <3>1. Left(clients, buffer, TRUE) /\ boot' = [boot EXCEPT ![c] = k]
      BY <1>8, <2>3 DEF Ready
    <3>2. "booting" \in Places
      BY DEF Places
    <3>3. /\ clients \in [Clients -> ClientStates]
          /\ \A d \in Clients :
               /\ clients[d].at = IF d = c THEN "booting" ELSE client[d].at
               /\ clients[d].view = client[d].view /\ clients[d].defers = client[d].defers
               /\ clients[d].told = client[d].told
      BY <1>1, <3>2, MovedClient
    <3>4. k.step = "fence"
      BY DEF NoBoot
    <3> HIDE DEF clients, k
    <3>5. \A d \in Clients : boot'[d] = IF d = c THEN k ELSE boot[d]
      BY <1>1, <3>1
    <3>6. In(clients) = In(client)
      BY <2>1, <3>3 DEF In
    <3>7. ASSUME closed = FALSE, NEW d \in In(clients) PROVE ToSet(clients[d].view) \subseteq {LastEvent}
      <4>1. d \in Clients /\ d \in In(client)
        BY <3>6 DEF In
      <4> QED
        BY <1>2, <3>3, <3>7, <4>1
    <3>8. ASSUME NEW d \in Clients
          PROVE  /\ Busy(boot', d) => clients[d].defers = TRUE
                 /\ clients[d].at = "away" => clients[d].view = <<>>
                 /\ boot'[d].step \in {"read", "apply"} => closed = TRUE
      <4>1. CASE d = c
        BY <1>2, <2>1, <2>3, <3>3, <3>4, <3>5, <4>1
      <4>2. CASE d # c
        BY <1>2, <3>3, <3>5, <4>2 DEF Busy
      <4> QED
        BY <4>1, <4>2
    <3>9. HeldOK(clients, boot', buffer, TRUE, closed')
      BY <1>2, <2>1, <3>6, <3>7, <3>8 DEF HeldOK
    <3> QED
      BY <1>1, <3>1, <3>3, <3>9, LeavingKeepsHeld
  <2> QED
    BY <1>1, <2>2, <2>3
<1>9. ASSUME NEW c \in Clients, Replaying(c) PROVE HeldInv'
  <2>1. PICK out, frontier :
          /\ boot' = [boot EXCEPT ![c] = [boot[c] EXCEPT !.step = "read", !.frontier = frontier]]
          /\ Replayed(out)
          /\ boot[c].step \in {"check", "heir"} /\ closed' = TRUE
          /\ UNCHANGED <<outside, run, buffer, overflowed, attached, turn, missing>>
    BY <1>9, Replays DEF Replaying
  <2>2. \A d \in Clients : Busy(boot', d) => Busy(boot, d)
    <3>1. \A d \in Clients : d # c => boot'[d] = boot[d]
      BY <1>1, <2>1
    <3> QED
      BY <2>1, <3>1 DEF Busy
  <2>3. \A d \in Clients :
          /\ client'[d].at = client[d].at /\ client'[d].defers = client[d].defers
          /\ client[d].at = "away" => client'[d].view = client[d].view
    BY <1>4, <2>1 DEF Replayed, In
  <2>4. HeldOK(client', boot', buffer', attached', closed')
    BY <1>2, <2>1, <2>2, <2>3 DEF HeldOK
  <2> QED
    BY <1>3, <2>4
<1>10. ASSUME NEW c \in Clients, NEW k, boot' = [boot EXCEPT ![c] = k],
              k.step # "none" => Busy(boot, c),
              k.step \in {"read", "apply"} => closed = TRUE
       PROVE  \A d \in Clients : /\ Busy(boot', d) => client[d].defers = TRUE
                                 /\ boot'[d].step \in {"read", "apply"} => closed = TRUE
  <2> SUFFICES ASSUME NEW d \in Clients
               PROVE  /\ Busy(boot', d) => client[d].defers = TRUE
                      /\ boot'[d].step \in {"read", "apply"} => closed = TRUE
    OBVIOUS
  <2>1. boot'[d] = IF d = c THEN k ELSE boot[d]
    BY <1>1, <1>10
  <2>2. CASE d = c
    BY <1>2, <1>10, <2>1, <2>2 DEF Busy
  <2>3. CASE d # c
    BY <1>2, <2>1, <2>3 DEF Busy
  <2> QED
    BY <2>2, <2>3
<1>11. ASSUME NEW c \in Clients, Abandoned(c) \/ ReadCounter(c) PROVE HeldInv'
  <2> DEFINE k == IF Abandoned(c) THEN NoBoot ELSE [boot[c] EXCEPT !.step = "apply", !.counter = counter]
  <2>1. UNCHANGED <<client, buffer, attached, closed>>
    BY <1>11 DEF Abandoned, ReadCounter, runtime
  <2>2. boot' = [boot EXCEPT ![c] = k]
    <3>1. CASE Abandoned(c)
      BY <3>1 DEF Abandoned
    <3>2. CASE ~Abandoned(c)
      BY <1>1, <1>11, <3>2 DEF ReadCounter
    <3> QED
      BY <3>1, <3>2
  <2>3. /\ k.step # "none" => Busy(boot, c)
        /\ k.step \in {"read", "apply"} => closed = TRUE
    <3>1. CASE Abandoned(c)
      BY <3>1 DEF NoBoot
    <3>2. CASE ~Abandoned(c)
      <4>1. boot[c].step = "read" /\ closed = TRUE
        BY <1>2, <1>11, <3>2 DEF ReadCounter
      <4> QED
        BY <4>1 DEF Busy
    <3> QED
      BY <3>1, <3>2
  <2> HIDE DEF k
  <2>4. \A d \in Clients : /\ Busy(boot', d) => client[d].defers = TRUE
                           /\ boot'[d].step \in {"read", "apply"} => closed = TRUE
    BY <1>10, <2>2, <2>3
  <2>5. HeldOK(client, boot', buffer, attached, closed)
    BY <1>2, <2>4 DEF HeldOK
  <2> QED
    BY <1>3, <2>1, <2>5
<1>12. ASSUME NEW c \in Clients, ApplyCounter(c) \/ ReadFails(c) PROVE HeldInv'
  <2>1. PICK r, clients :
           /\ Handles(buffer, r) /\ r.buffer.deferred = FALSE
           /\ buffer.deferred = TRUE => /\ boot[c].frontier <= r.buffer.next
                                        /\ \A i \in DOMAIN r.out : boot[c].frontier <= seqOf[r.out[i]]
           /\ Given(clients, r.out)
           /\ \A d \in Clients : clients[d].at = IF d = c /\ client[c].at = "booting" THEN "attached"
                                                 ELSE client[d].at
           /\ Left(clients, r.buffer, attached)
           /\ boot[c].step \in {"read", "apply"}
           /\ boot' = [boot EXCEPT ![c] = NoBoot] /\ early' = early /\ closed' = closed
           /\ missing' = missing /\ Resumes(c, r)
    BY <1>12, Synchronizing
  <2>2. closed = TRUE /\ NoBoot.step = "none"
    BY <1>2, <2>1 DEF NoBoot
  <2>3. \A d \in Clients : /\ Busy(boot', d) => client[d].defers = TRUE
                           /\ boot'[d].step \in {"read", "apply"} => closed = TRUE
    BY <1>10, <2>1, <2>2
  <2>4. clients \in [Clients -> ClientStates]
    BY <2>1 DEF Given
  <2>5. ASSUME NEW d \in Clients
        PROVE  /\ clients[d].defers = client[d].defers
               /\ clients[d].at = "reading" => client[d].at = "reading"
               /\ clients[d].at = "away" => clients[d].view = <<>>
    <3>1. clients[d].at \in {"away", "reading"} => client[d].at = clients[d].at
      BY <2>1
    <3>2. client[d].at = "away" => d \notin Subscribed
      BY <1>4 DEF In
    <3> QED
      BY <1>2, <2>1, <3>1, <3>2 DEF Given
  <2>6. HeldOK(clients, boot', r.buffer, attached, closed')
    BY <1>2, <2>1, <2>2, <2>3, <2>5 DEF HeldOK
  <2> QED
    BY <1>1, <2>1, <2>4, <2>6, LeavingKeepsHeld
<1>13. ASSUME NEW c \in Clients, CheckStored(c) PROVE HeldInv'
  <2>1. Left(CheckedFor(c), buffer, attached) /\ boot' = boot /\ closed' = closed /\ client[c].at = "attached"
    BY <1>13 DEF CheckStored, CheckedFor, kept
  <2> DEFINE clients == CheckedFor(c)
  <2>2. /\ clients \in [Clients -> ClientStates]
        /\ \A d \in Clients :
             /\ clients[d].at = client[d].at /\ clients[d].defers = client[d].defers
             /\ clients[d].told = client[d].told
             /\ d # c => clients[d].view = client[d].view
        /\ clients[c].view = IF emitted = LastEvent /\ ~Closed(c)
                               THEN Append(client[c].view, LastEvent) ELSE client[c].view
    BY <1>1, CheckedClients
  <2> HIDE DEF clients
  <2>3. In(clients) = In(client)
    BY <2>2 DEF In
  <2>4. ASSUME closed = FALSE, NEW d \in In(clients) PROVE ToSet(clients[d].view) \subseteq {LastEvent}
    <3>1. d \in Clients /\ d \in In(client)
      BY <2>3 DEF In
    <3>2. CASE clients[d].view = client[d].view
      BY <1>2, <2>4, <3>1, <3>2
    <3>3. CASE clients[d].view # client[d].view
      <4>1. d = c /\ clients[c].view = Append(client[c].view, LastEvent)
        BY <2>2, <3>1, <3>3
      <4>2. client[c].view \in Seq(Events) /\ LastEvent \in Events
        BY <1>1, ClientFields, BoundsAssumption DEF Events
      <4>3. ToSet(clients[c].view) = ToSet(client[c].view) \cup {LastEvent}
        BY <4>1, <4>2, AppendedSet
      <4> QED
        BY <1>2, <2>4, <3>1, <4>1, <4>3
    <3> QED
      BY <3>2, <3>3
  <2>5. ASSUME NEW d \in Clients, client[d].at = "away" PROVE clients[d].view = <<>>
    BY <1>2, <2>1, <2>2, <2>5
  <2>6. HeldOK(clients, boot', buffer, attached, closed')
    BY <1>2, <2>1, <2>2, <2>3, <2>4, <2>5 DEF HeldOK
  <2> QED
    BY <1>1, <2>1, <2>2, <2>6, LeavingKeepsHeld DEF clients
<1>14. ASSUME NEW c \in Clients, Departs(c) PROVE HeldInv'
  <2> DEFINE clients == [client EXCEPT ![c].at = "left"]
  <2>1. Left(clients, buffer, attached) /\ closed' = closed /\ "left" \in Places
    BY <1>14 DEF Departs, kept, Places
  <2>2. /\ clients \in [Clients -> ClientStates]
        /\ \A d \in Clients :
             /\ clients[d].at = IF d = c THEN "left" ELSE client[d].at
             /\ clients[d].view = client[d].view /\ clients[d].defers = client[d].defers
             /\ clients[d].told = client[d].told
    BY <1>1, <2>1, MovedClient
  <2> HIDE DEF clients
  <2>3. PICK k \in BootStates : /\ boot' = [boot EXCEPT ![c] = k]
                                /\ k.step # "none" => Busy(boot, c)
                                /\ k.step \in {"read", "apply"} => closed = TRUE
    <3>1. boot[c] \in BootStates /\ NoBoot.step = "none"
      BY <1>1 DEF NoBoot
    <3> QED
      BY <1>2, <1>14, <3>1, Leavings DEF Busy
  <2>4. \A d \in Clients : /\ Busy(boot', d) => client[d].defers = TRUE
                           /\ boot'[d].step \in {"read", "apply"} => closed = TRUE
    BY <1>10, <2>3
  <2>5. In(clients) \subseteq In(client)
    BY <2>2 DEF In
  <2>6. ASSUME closed = FALSE, NEW d \in In(clients) PROVE ToSet(clients[d].view) \subseteq {LastEvent}
    <3>1. d \in Clients /\ d \in In(client)
      BY <2>5 DEF In
    <3> QED
      BY <1>2, <2>2, <2>6, <3>1
  <2>7. HeldOK(clients, boot', buffer, attached, closed')
    BY <1>2, <2>1, <2>2, <2>4, <2>5, <2>6 DEF HeldOK
  <2> QED
    BY <1>1, <2>1, <2>2, <2>7, LeavingKeepsHeld
<1>15. ASSUME NEW c \in Clients, Proceeds(c) PROVE HeldInv'
  <2>1. PICK k \in BootStates :
          /\ boot' = [boot EXCEPT ![c] = k]
          /\ k.step \in {"check", "broken"} /\ boot[c].step \in {"fence", "check"}
          /\ k.turn = boot[c].turn /\ k.frontier = boot[c].frontier /\ k.counter = boot[c].counter
    BY <1>1, <1>15, Proceeding
  <2>2. UNCHANGED <<client, buffer, attached, closed>> /\ Busy(boot, c)
    BY <1>15, <2>1 DEF Proceeds, runtime, Busy
  <2>3. \A d \in Clients : /\ Busy(boot', d) => client[d].defers = TRUE
                           /\ boot'[d].step \in {"read", "apply"} => closed = TRUE
    BY <1>10, <2>1, <2>2
  <2>4. HeldOK(client, boot', buffer, attached, closed)
    BY <1>2, <2>3 DEF HeldOK
  <2> QED
    BY <1>3, <2>2, <2>4
<1> QED
  BY <1>5, <1>6, <1>7, <1>8, <1>9, <1>11, <1>12, <1>13, <1>14, <1>15, ClientSteps

\* A bootstrap that has replayed and waits for the counter.
Reads(bt, c) == bt[c].step \in {"read", "apply"}

\* What is still to come is above what a view shows: it is at least the next
\* number of the buffer, or the frontier of the bootstrap that will open the fence.
Ahead(v, bt, b, tn, num, seq) ==
  /\ b.deferred = FALSE => Under(v, num, seq, b.next)
  /\ b.deferred = TRUE =>
       /\ \A d \in Clients : Reads(bt, d) => Under(v, num, seq, bt[d].frontier)
       /\ \/ Deltas(v) \cap num = {}
          \/ \E d \in Clients : Reads(bt, d) /\ bt[d].turn = tn

OrderOK(cl, bt, b, tn, num, ans, seq) ==
  /\ \A c \in Clients : Sound(cl[c].view, num, ans)
  /\ \A c \in In(cl) : ~Over(cl[c]) => Ahead(cl[c].view, bt, b, tn, num, seq)

OrderInv == OrderOK(client, boot, buffer, turn, Numbered, answered, seqOf)

\* Events are numbered and answered once, and a failed one gets no number.
LEMMA NumbersStay ==
  ASSUME BaseInv, [Next]_vars
  PROVE  /\ Numbered \subseteq Numbered' /\ \A e \in Numbered : seqOf'[e] = seqOf[e]
         /\ answered \subseteq answered' /\ Numbered' \cap answered \subseteq Numbered
<1>1. RunTypes /\ NumberInv
  BY BaseParts
<1>2. RunMoves /\ RunTypes'
  BY <1>1, RunStep
<1>3. Numbered \subseteq Numbered' /\ \A e \in Numbered : seqOf'[e] = seqOf[e]
  BY <1>1, <1>2, NumbersStep
<1>4. answered \subseteq answered'
  BY <1>2 DEF RunMoves, Quiet
<1>5. CASE seqOf' = seqOf
  BY <1>3, <1>4, <1>5 DEF Numbered
<1>6. CASE Queue # <<>> /\ seqOf' = [seqOf EXCEPT ![Head(Queue)] = counter]
  <2>1. /\ 1 \in DOMAIN Queue /\ Queue[1] = Head(Queue) /\ Head(Queue) \in Events
        /\ \A e \in answered : e \in Nat
    BY <1>1, <1>6, QueueParts, ListSteps DEF RunTypes, Events
  <2>2. Head(Queue) \notin answered
    <3> SUFFICES ASSUME Head(Queue) \in answered PROVE FALSE
      OBVIOUS
    <3>1. Head(Queue) < Head(Queue) /\ Head(Queue) \in Nat
      BY <1>1, <2>1 DEF NumberInv
    <3> QED
      BY <3>1
  <2>3. \A e \in Numbered' : e \in Numbered \/ e = Head(Queue)
    BY <1>1, <1>6 DEF Numbered, RunTypes
  <2> QED
    BY <1>3, <1>4, <2>2, <2>3
<1> QED
  BY <1>2, <1>5, <1>6 DEF RunMoves, Quiet

\* More numbers and answers change nothing of what was shown.
LEMMA OrderStays ==
  ASSUME NEW cl, NEW bt, NEW b, NEW tn, NEW num, NEW ans, NEW seq, NEW num2, NEW ans2, NEW seq2,
         OrderOK(cl, bt, b, tn, num, ans, seq),
         num \subseteq num2, ans \subseteq ans2, num2 \cap ans \subseteq num,
         \A e \in num : seq2[e] = seq[e]
  PROVE  OrderOK(cl, bt, b, tn, num2, ans2, seq2)
<1>1. ASSUME NEW c \in Clients PROVE Sound(cl[c].view, num2, ans2)
  <2>1. Well(cl[c].view, ans \ num) /\ Deltas(cl[c].view) \subseteq num \cup ans \cup {LastEvent}
    BY DEF OrderOK, Sound
  <2>2. ans \ num \subseteq ans2 \ num2
    OBVIOUS
  <2> DEFINE v == cl[c].view
  <2> HIDE DEF v
  <2>3. Well(v, ans \ num) => Well(v, ans2 \ num2)
    BY <2>2 DEF Well, InOrder
  <2> QED
    BY <2>1, <2>3 DEF Sound, v
<1>2. ASSUME NEW c \in In(cl), ~Over(cl[c]) PROVE Ahead(cl[c].view, bt, b, tn, num2, seq2)
  <2> DEFINE v == cl[c].view
  <2>1. Ahead(v, bt, b, tn, num, seq) /\ Deltas(v) \subseteq num \cup ans \cup {LastEvent}
    BY <1>2 DEF OrderOK, Sound, In
  <2>2. LastEvent \notin Deltas(v)
    BY <1>2 DEF Over, Deltas
  <2> HIDE DEF v
  <2>3. Deltas(v) \cap num2 = Deltas(v) \cap num
    BY <2>1, <2>2
  <2>4. \A n : Under(v, num, seq, n) => Under(v, num2, seq2, n)
    BY <2>3 DEF Under
  <2>5. Ahead(v, bt, b, tn, num2, seq2)
    BY <2>1, <2>3, <2>4 DEF Ahead
  <2> QED
    BY <2>5 DEF v
<1> QED
  BY <1>1, <1>2 DEF OrderOK

LEMMA LeavingKeepsOrder ==
  ASSUME NEW clients \in [Clients -> ClientStates], NEW b, NEW hs \in BOOLEAN, Left(clients, b, hs),
         OrderOK(clients, boot', b, turn, Numbered, answered, seqOf),
         seqOf' = seqOf, answered' = answered
  PROVE  OrderInv'
<1>1. \A c \in Clients : client'[c].view = clients[c].view /\ client'[c].told = clients[c].told
  BY LeftClients
<1>2. /\ In(client') \subseteq In(clients)
      /\ \/ In(client') = {}
         \/ buffer' = b /\ turn' = turn
  BY LeftClients
<1>3. Numbered' = Numbered
  BY DEF Numbered
<1>4. \A c \in Clients : Sound(client'[c].view, Numbered', answered')
  BY <1>1, <1>3 DEF OrderOK
<1>5. ASSUME NEW c \in In(client'), ~Over(client'[c])
      PROVE  Ahead(client'[c].view, boot', buffer', turn', Numbered', seqOf')
  <2>1. c \in Clients /\ c \in In(clients) /\ buffer' = b /\ turn' = turn
    BY <1>2, <1>5 DEF In
  <2>2. ~Over(clients[c])
    BY <1>1, <1>5, <2>1 DEF Over
  <2>3. Ahead(clients[c].view, boot', b, turn, Numbered, seqOf)
    BY <2>1, <2>2 DEF OrderOK
  <2> QED
    BY <1>1, <1>3, <2>1, <2>3
<1>6. OrderOK(client', boot', buffer', turn', Numbered', answered', seqOf')
  BY <1>4, <1>5 DEF OrderOK
<1> QED
  BY <1>6 DEF OrderInv

\* Giving everybody what a buffer gives out, all above what they were shown.
LEMMA GivingInOrder ==
  ASSUME BaseInv, OrderInv, NEW clients, NEW lo \in Int, NEW hi \in Int, lo <= hi,
         NEW out, Delivers(out, lo, hi), Given(clients, out),
         \A c \in In(client) : ~Over(client[c]) => Under(client[c].view, Numbered, seqOf, lo)
  PROVE  /\ \A c \in Clients : Sound(clients[c].view, Numbered, answered)
         /\ \A c \in In(client) : ~Over(clients[c]) => Under(clients[c].view, Numbered, seqOf, hi)
<1>1. /\ Counted /\ answered \subseteq Events /\ client \in [Clients -> ClientStates]
      /\ clients \in [Clients -> ClientStates] /\ Subscribed = In(client)
  BY DEF BaseInv, TypeOK, NumberInv, Given, Subscribed
<1>2. ASSUME NEW c \in Clients, c \notin Subscribed PROVE Sound(clients[c].view, Numbered, answered)
  <2>1. clients[c].view = client[c].view
    BY <1>2 DEF Given
  <2> QED
    BY <2>1 DEF OrderInv, OrderOK
<1>3. ASSUME NEW c \in Clients, c \in Subscribed
      PROVE  /\ Sound(clients[c].view, Numbered, answered)
             /\ ~Over(clients[c]) => Under(clients[c].view, Numbered, seqOf, hi)
  <2>1. clients[c].view = client[c].view \o Shown(c, out)
    BY <1>3 DEF Given
  <2>2. client[c].view \in Seq(Events) /\ Sound(client[c].view, Numbered, answered)
    BY <1>1, ClientFields DEF OrderInv, OrderOK
  <2>3. ~Closed(c) => Under(client[c].view, Numbered, seqOf, lo)
    BY <1>1, <1>3 DEF Closed
  <2> DEFINE v == client[c].view \o Shown(c, out)
  <2>4. v = client[c].view \o Shown(c, out)
    OBVIOUS
  <2> HIDE DEF v
  <2>5. /\ Sound(v, Numbered, answered) /\ ToSet(client[c].view) \subseteq ToSet(v)
        /\ ~Closed(c) => Under(v, Numbered, seqOf, hi)
    BY <1>1, <2>2, <2>3, <2>4, ShowingInOrder
  <2>6. clients[c].view = v
    BY <2>1 DEF v
  <2>7. Over(client[c]) => Over(clients[c])
    <3>1. client[c].told = TRUE => clients[c].told = TRUE
      BY DEF Given
    <3>2. client[c] \in ClientStates /\ clients[c] \in ClientStates
      BY <1>1
    <3> QED
      BY <2>5, <2>6, <3>1, <3>2, OverGrows
  <2> QED
    BY <2>5, <2>6, <2>7 DEF Closed
<1> QED
  BY <1>1, <1>2, <1>3 DEF In

\* Bootstraps that read the same way keep what is ahead.
LEMMA AheadStays ==
  ASSUME NEW v, NEW bt, NEW bt2, NEW b, NEW tn, NEW num, NEW seq, Ahead(v, bt, b, tn, num, seq),
         \A d \in Clients : /\ Reads(bt2, d) <=> Reads(bt, d)
                            /\ Reads(bt, d) => bt2[d].frontier = bt[d].frontier /\ bt2[d].turn = bt[d].turn
  PROVE  Ahead(v, bt2, b, tn, num, seq)
BY DEF Ahead

LEMMA OrderStep ==
  ASSUME Resuming = {}, outlived' = FALSE
  PROVE  BaseInv /\ FenceInv /\ EarlyInv /\ HeldInv /\ OrderInv /\ [Next]_vars => OrderInv'
<1> SUFFICES ASSUME BaseInv, FenceInv, EarlyInv, HeldInv, OrderInv, [Next]_vars
             PROVE  OrderInv'
  OBVIOUS
<1>1. /\ client \in [Clients -> ClientStates] /\ boot \in [Clients -> BootStates]
      /\ attached \in BOOLEAN /\ turn \in Nat /\ TRUE \in BOOLEAN /\ closed \in BOOLEAN
      /\ early \in Seq(Events) /\ answered \subseteq Events /\ Waits(buffer)
  BY DEF BaseInv, TypeOK
<1>2. /\ \A c \in Clients : Sound(client[c].view, Numbered, answered)
      /\ \A c \in In(client) : ~Over(client[c]) => Ahead(client[c].view, boot, buffer, turn, Numbered, seqOf)
  BY DEF OrderInv, OrderOK
<1>3. ASSUME OrderOK(client', boot', buffer', turn', Numbered, answered, seqOf), seqOf' = seqOf, answered' = answered
      PROVE  OrderInv'
  <2>1. Numbered' = Numbered
    BY <1>3 DEF Numbered
  <2>2. OrderOK(client', boot', buffer', turn', Numbered', answered', seqOf')
    BY <1>3, <2>1
  <2> QED
    BY <2>2 DEF OrderInv
<1>4. Subscribed = In(client) /\ Initial = Clients /\ In(client) \subseteq Clients
  BY DEF Subscribed, Clients, In
<1>5. /\ buffer.next \in Nat /\ buffer.deferred \in BOOLEAN
      /\ \A c \in Clients : boot[c].frontier \in Int /\ client[c].view \in Seq(Events)
  BY <1>1, ClientFields DEF Waits, Buffers, BootStates
<1>6. CASE Idle
  <2>1. UNCHANGED <<client, boot, buffer, attached, turn>>
    BY <1>6 DEF Idle
  <2>2. /\ Numbered \subseteq Numbered' /\ \A e \in Numbered : seqOf'[e] = seqOf[e]
        /\ answered \subseteq answered' /\ Numbered' \cap answered \subseteq Numbered
    BY NumbersStay
  <2>3. OrderOK(client, boot, buffer, turn, Numbered', answered', seqOf')
    BY <2>2, OrderStays DEF OrderInv
  <2> QED
    BY <2>1, <2>3 DEF OrderInv
<1>7. CASE Arrival
  <2>1. PICK r : /\ Handles(buffer, r) /\ r.buffer.deferred = buffer.deferred
                 /\ buffer.deferred = TRUE => r.out = <<>>
                 /\ Given(Handed(Subscribed, r.out), r.out)
                 /\ Left(Handed(Subscribed, r.out), r.buffer, attached)
                 /\ boot' = boot /\ early' = early /\ closed' = closed
    BY <1>7, Arrivals DEF Arrival
  <2>2. seqOf' = seqOf /\ answered' = answered
    BY <1>7 DEF Arrival, FlushTimeout, Arrive, outside, run
  <2> DEFINE given == r.out
             clients == Handed(Subscribed, given)
             hi == r.buffer.next
  <2>3. /\ given \in Seq(Events) /\ Delivers(given, buffer.next, hi)
        /\ buffer.next <= hi /\ hi \in Nat
    BY <2>1 DEF Handles, Delivers, Waits, Buffers
  <2>4. Given(clients, given)
    BY <2>1
  <2> HIDE DEF given
  <2>5. clients \in [Clients -> ClientStates] /\ \A c \in Clients : clients[c].at = client[c].at
    BY <1>1, <2>3, HandedGives DEF Given
  <2> HIDE DEF clients, hi
  <2>6. In(clients) = In(client)
    BY <2>5 DEF In
  <2>7. OrderOK(clients, boot, r.buffer, turn, Numbered, answered, seqOf)
    <3>1. CASE buffer.deferred = TRUE
      <4>1. given = <<>>
        BY <2>1, <3>1 DEF given
      <4>2. ASSUME NEW c \in Clients PROVE clients[c].view = client[c].view
        BY <1>5, <2>4, <4>1, NothingShown, ConcatEmptySeq DEF Given
      <4>3. ASSUME NEW c \in Clients, Over(client[c]) PROVE Over(clients[c])
        <5>1. client[c].told = TRUE => clients[c].told = TRUE
          BY <2>4 DEF Given
        <5> QED
          BY <1>1, <2>5, <4>2, <4>3, <5>1, OverGrows
      <4>4. ASSUME NEW c \in In(clients), ~Over(clients[c])
            PROVE  Ahead(clients[c].view, boot, r.buffer, turn, Numbered, seqOf)
        <5>1. c \in Clients /\ c \in In(client) /\ ~Over(client[c])
          BY <1>4, <2>6, <4>3, <4>4
        <5>2. Ahead(client[c].view, boot, buffer, turn, Numbered, seqOf)
          BY <1>2, <5>1
        <5> QED
          BY <2>1, <3>1, <4>2, <5>1, <5>2 DEF Ahead
      <4> QED
        BY <1>2, <4>2, <4>4 DEF OrderOK
    <3>2. CASE buffer.deferred = FALSE
      <4>1. \A c \in In(client) : ~Over(client[c]) => Under(client[c].view, Numbered, seqOf, buffer.next)
        BY <1>2, <3>2 DEF Ahead
      <4>2. /\ \A c \in Clients : Sound(clients[c].view, Numbered, answered)
            /\ \A c \in In(client) : ~Over(clients[c]) => Under(clients[c].view, Numbered, seqOf, hi)
        BY <1>5, <2>3, <2>4, <4>1, GivingInOrder
      <4>3. r.buffer.deferred = FALSE
        BY <2>1, <3>2
      <4> QED
        BY <2>6, <4>2, <4>3 DEF OrderOK, Ahead, hi
    <3> QED
      BY <1>5, <3>1, <3>2
  <2>8. Left(clients, r.buffer, attached) /\ OrderOK(clients, boot', r.buffer, turn, Numbered, answered, seqOf)
    BY <2>1, <2>7 DEF clients, given
  <2> QED
    BY <1>1, <2>2, <2>5, <2>8, LeavingKeepsOrder
<1>8. ASSUME NEW c \in Clients, Subscribe(c) PROVE OrderInv'
  <2>1. /\ client[c].at = "away"
        /\ client' = [client EXCEPT ![c] = [client[c] EXCEPT !.at = "reading", !.defers = Defers(c)]]
        /\ buffer' = IF Subscribed = {} THEN NewBuffer(Defers(c)) ELSE buffer
        /\ boot' = boot /\ turn' = turn /\ seqOf' = seqOf /\ answered' = answered
    BY <1>8 DEF Subscribe, runtime, outside, run
  <2>2. /\ client'[c].view = <<>>
        /\ \A d \in Clients : client'[d].view = client[d].view /\ client'[d].told = client[d].told
        /\ \A d \in Clients : d # c => client'[d] = client[d]
    BY <1>1, <2>1 DEF ClientStates, HeldInv, HeldOK
  <2>3. In(client') \subseteq In(client) \cup {c}
    BY <2>2 DEF In
  <2>4. Deltas(<<>>) = {}
    BY DEF Deltas, ToSet
  <2>5. ASSUME NEW d \in In(client'), ~Over(client'[d])
        PROVE  Ahead(client'[d].view, boot', buffer', turn', Numbered, seqOf)
    <3>1. CASE d = c
      BY <2>2, <2>4, <3>1 DEF Ahead, Under
    <3>2. CASE d # c
      <4>1. d \in In(client) /\ client'[d] = client[d] /\ Subscribed # {}
        BY <1>4, <2>2, <2>3, <3>2
      <4> QED
        BY <1>2, <2>1, <2>5, <4>1
    <3> QED
      BY <3>1, <3>2
  <2>6. \A d \in Clients : Sound(client'[d].view, Numbered, answered)
    BY <1>2, <2>2
  <2>7. OrderOK(client', boot', buffer', turn', Numbered, answered, seqOf)
    BY <2>5, <2>6 DEF OrderOK
  <2> QED
    BY <1>3, <2>1, <2>7
<1>9. ASSUME NEW clients \in [Clients -> ClientStates], NEW hs \in BOOLEAN, Left(clients, buffer, hs),
             seqOf' = seqOf, answered' = answered,
             In(clients) \subseteq In(client),
             \A d \in Clients : /\ clients[d].view = client[d].view
                                /\ client[d].told = TRUE => clients[d].told = TRUE,
             \A d \in Clients :
               /\ Reads(boot', d) <=> Reads(boot, d)
               /\ Reads(boot, d) => boot'[d].frontier = boot[d].frontier /\ boot'[d].turn = boot[d].turn
      PROVE  OrderInv'
  <2>1. ASSUME NEW d \in In(clients), ~Over(clients[d])
        PROVE  Ahead(clients[d].view, boot', buffer, turn, Numbered, seqOf)
    <3>1. d \in Clients /\ d \in In(client)
      BY <1>4, <1>9
    <3>2. ~Over(client[d])
      BY <1>1, <1>9, <2>1, <3>1, OverGrows
    <3>3. Ahead(client[d].view, boot, buffer, turn, Numbered, seqOf)
      BY <1>2, <3>1, <3>2
    <3>4. Ahead(client[d].view, boot', buffer, turn, Numbered, seqOf)
      BY <1>9, <3>3, AheadStays
    <3> QED
      BY <1>9, <3>1, <3>4
  <2>2. OrderOK(clients, boot', buffer, turn, Numbered, answered, seqOf)
    BY <1>2, <1>9, <2>1 DEF OrderOK
  <2> QED
    BY <1>9, <2>2, LeavingKeepsOrder
<1>10. ASSUME NEW c \in Clients, Ready(c) PROVE OrderInv'
  <2>1. client[c].at = "reading" /\ c \in In(client) /\ ~Busy(boot, c) /\ seqOf' = seqOf /\ answered' = answered
    BY <1>10 DEF Ready, In, FenceInv, FenceOK, outside, run
  <2>2. CASE attached = TRUE
    <3> DEFINE clients == InPlace(c, client)
    <3>1. Left(clients, buffer, TRUE) /\ boot' = boot
      BY <1>10, <2>2 DEF Ready
    <3>2. /\ clients \in [Clients -> ClientStates]
          /\ \A d \in Clients :
               /\ clients[d].view = client[d].view
               /\ client[d].told = TRUE => clients[d].told = TRUE
               /\ d # c => clients[d] = client[d]
      BY <1>1, InPlaceClients
    <3> HIDE DEF clients
    <3>3. In(clients) \subseteq In(client)
      BY <2>1, <3>2 DEF In
    <3> QED
      BY <1>1, <1>9, <2>1, <3>1, <3>2, <3>3
  <2>3. CASE attached = FALSE
    <3> DEFINE clients == [client EXCEPT ![c].at = "booting"]
               k == [NoBoot EXCEPT !.step = "fence", !.turn = turn]
    <3>1. Left(clients, buffer, TRUE) /\ boot' = [boot EXCEPT ![c] = k]
      BY <1>10, <2>3 DEF Ready
    <3>2. "booting" \in Places
      BY DEF Places
    <3>3. /\ clients \in [Clients -> ClientStates]
          /\ \A d \in Clients :
               /\ clients[d].at = IF d = c THEN "booting" ELSE client[d].at
               /\ clients[d].view = client[d].view /\ clients[d].told = client[d].told
      BY <1>1, <3>2, MovedClient
    <3>4. k.step = "fence"
      BY DEF NoBoot
    <3> HIDE DEF clients, k
    <3>5. \A d \in Clients : boot'[d] = IF d = c THEN k ELSE boot[d]
      BY <1>1, <3>1
    <3>6. In(clients) \subseteq In(client)
      BY <2>1, <3>3 DEF In
    <3>7. ASSUME NEW d \in Clients
          PROVE  /\ Reads(boot', d) <=> Reads(boot, d)
                 /\ Reads(boot, d) => boot'[d].frontier = boot[d].frontier /\ boot'[d].turn = boot[d].turn
      <4>1. CASE d = c
        BY <2>1, <3>4, <3>5, <4>1 DEF Reads, Busy
      <4>2. CASE d # c
        BY <3>5, <4>2 DEF Reads
      <4> QED
        BY <4>1, <4>2
    <3> QED
      BY <1>1, <1>9, <2>1, <3>1, <3>3, <3>6, <3>7
  <2> QED
    BY <1>1, <2>2, <2>3
<1>11. ASSUME NEW c \in Clients, Departs(c) PROVE OrderInv'
  <2> DEFINE clients == [client EXCEPT ![c].at = "left"]
  <2>1. /\ Left(clients, buffer, attached)
        /\ seqOf' = seqOf /\ answered' = answered /\ "left" \in Places
    BY <1>11 DEF Departs, outside, run, Places
  <2>2. /\ clients \in [Clients -> ClientStates]
        /\ \A d \in Clients :
             /\ clients[d].at = IF d = c THEN "left" ELSE client[d].at
             /\ clients[d].view = client[d].view /\ clients[d].told = client[d].told
    BY <1>1, <2>1, MovedClient
  <2> HIDE DEF clients
  <2>3. In(clients) \subseteq In(client)
    BY <2>2 DEF In
  <2>4. PICK k \in BootStates : /\ boot' = [boot EXCEPT ![c] = k]
                                /\ k.step \in {"read", "apply"} <=> Reads(boot, c)
                                /\ Reads(boot, c) => k = boot[c]
    <3>1. boot[c] \in BootStates /\ NoBoot.step = "none"
      BY <1>1 DEF NoBoot
    <3> QED
      BY <1>11, <3>1, Leavings DEF Reads
  <2>5. ASSUME NEW d \in Clients
        PROVE  /\ Reads(boot', d) <=> Reads(boot, d)
               /\ Reads(boot, d) => boot'[d].frontier = boot[d].frontier /\ boot'[d].turn = boot[d].turn
    <3>1. boot'[d] = IF d = c THEN k ELSE boot[d]
      BY <1>1, <2>4
    <3> QED
      BY <2>4, <3>1 DEF Reads
  <2> QED
    BY <1>1, <1>9, <2>1, <2>2, <2>3, <2>5
<1>12. ASSUME NEW c \in Clients, Abandoned(c) \/ ReadCounter(c) PROVE OrderInv'
  <2>1. UNCHANGED <<client, buffer, turn, seqOf, answered>>
    BY <1>12 DEF Abandoned, ReadCounter, runtime, outside, run
  <2> DEFINE k == IF Abandoned(c) THEN NoBoot ELSE [boot[c] EXCEPT !.step = "apply", !.counter = counter]
  <2>2. boot' = [boot EXCEPT ![c] = k]
    <3>1. CASE Abandoned(c)
      BY <3>1 DEF Abandoned
    <3>2. CASE ~Abandoned(c)
      BY <1>1, <1>12, <3>2 DEF ReadCounter
    <3> QED
      BY <3>1, <3>2
  <2>3. /\ k.step \in {"read", "apply"} <=> Reads(boot, c)
        /\ Reads(boot, c) => k.frontier = boot[c].frontier /\ k.turn = boot[c].turn
    <3>1. CASE Abandoned(c)
      <4>1. k.step = "none" /\ boot[c].step = "heir"
        BY <3>1 DEF Abandoned, NoBoot
      <4> QED
        BY <4>1 DEF Reads
    <3>2. CASE ~Abandoned(c)
      <4>1. boot[c].step = "read" /\ boot[c] \in BootStates
        BY <1>1, <1>12, <3>2 DEF ReadCounter
      <4>2. k = [boot[c] EXCEPT !.step = "apply", !.counter = counter]
        BY <3>2
      <4> HIDE DEF k
      <4>3. k.step = "apply" /\ k.frontier = boot[c].frontier /\ k.turn = boot[c].turn
        BY <4>1, <4>2 DEF BootStates
      <4> QED
        BY <4>1, <4>3 DEF Reads
    <3> QED
      BY <3>1, <3>2
  <2> HIDE DEF k
  <2>4. \A d \in Clients : boot'[d] = IF d = c THEN k ELSE boot[d]
    BY <1>1, <2>2
  <2>5. \A d \in Clients :
          /\ Reads(boot', d) <=> Reads(boot, d)
          /\ Reads(boot, d) => boot'[d].frontier = boot[d].frontier /\ boot'[d].turn = boot[d].turn
    BY <2>3, <2>4 DEF Reads
  <2>6. ASSUME NEW d \in In(client), ~Over(client[d])
        PROVE  Ahead(client[d].view, boot', buffer, turn, Numbered, seqOf)
    BY <1>2, <2>5, <2>6, AheadStays
  <2>7. OrderOK(client', boot', buffer', turn', Numbered, answered, seqOf)
    BY <1>2, <2>1, <2>6 DEF OrderOK
  <2> QED
    BY <1>3, <2>1, <2>7
<1>13. ASSUME NEW c \in Clients, CheckStored(c) PROVE OrderInv'
  <2>1. /\ Left(CheckedFor(c), buffer, attached) /\ boot' = boot
        /\ seqOf' = seqOf /\ answered' = answered
    BY <1>13 DEF CheckStored, CheckedFor, outside, run
  <2> DEFINE clients == CheckedFor(c)
             k == client[c].view
  <2>2. /\ clients \in [Clients -> ClientStates]
        /\ \A d \in Clients :
             /\ clients[d].at = client[d].at /\ clients[d].told = client[d].told
             /\ d # c => clients[d].view = client[d].view
        /\ clients[c].view = IF emitted = LastEvent /\ ~Closed(c) THEN Append(k, LastEvent) ELSE k
    BY <1>1, CheckedClients
  <2> HIDE DEF clients
  <2>3. In(clients) = In(client)
    BY <2>2 DEF In
  <2>4. CASE emitted = LastEvent /\ ~Closed(c)
    <3>1. k \in Seq(Events) /\ LastEvent \in Events /\ Sound(k, Numbered, answered) /\ LastEvent \notin ToSet(k)
      BY <1>2, <1>5, <2>4, BoundsAssumption DEF Events, Closed, Over
    <3> HIDE DEF k
    <3>2. <<LastEvent>> \in Seq(Events) /\ DOMAIN <<LastEvent>> = {1} /\ <<LastEvent>>[1] = LastEvent
      BY <3>1
    <3>3. ToSet(<<LastEvent>>) = {LastEvent} /\ Well(<<LastEvent>>, Failed)
      BY <3>2 DEF ToSet, Well
    <3>4. ASSUME NEW e \in ToSet(k), NEW f \in ToSet(<<LastEvent>>) PROVE InOrder(e, f, Failed)
      <4>1. f = LastEvent /\ e \in Events /\ e # LastEvent
        BY <3>1, <3>3 DEF ToSet
      <4>2. e < f
        BY <4>1, BoundsAssumption DEF Events
      <4> QED
        BY <4>1, <4>2 DEF InOrder
    <3> DEFINE w == <<LastEvent>>
    <3>5. w \in Seq(Events) /\ ToSet(w) = {LastEvent} /\ Well(w, Failed)
          /\ \A e \in ToSet(k), f \in ToSet(w) : InOrder(e, f, Failed)
      BY <3>2, <3>3, <3>4
    <3>6. Append(k, LastEvent) = k \o w
      BY <3>1
    <3> HIDE DEF w
    <3>7. Well(k, Failed) /\ Deltas(k) \subseteq Numbered \cup answered \cup {LastEvent}
      BY <3>1 DEF Sound, Failed
    <3>8. Well(k \o w, Failed) /\ ToSet(k \o w) = ToSet(k) \cup {LastEvent}
      BY <3>1, <3>5, <3>7, Appending, Joined
    <3>9. Sound(k \o w, Numbered, answered)
      BY <3>7, <3>8 DEF Sound, Deltas, Failed
    <3>10. clients[c].view = k \o w
      BY <2>2, <2>4, <3>6
    <3>11. Over(clients[c])
      BY <3>8, <3>10 DEF Over
    <3>12. ASSUME NEW d \in In(clients), ~Over(clients[d])
           PROVE  Ahead(clients[d].view, boot, buffer, turn, Numbered, seqOf)
      <4>1. d # c /\ d \in Clients /\ d \in In(client)
        BY <1>4, <2>3, <3>11, <3>12
      <4>2. clients[d].view = client[d].view /\ ~Over(client[d])
        BY <2>2, <3>12, <4>1 DEF Over
      <4> QED
        BY <1>2, <4>1, <4>2
    <3>13. \A d \in Clients : Sound(clients[d].view, Numbered, answered)
      BY <1>2, <2>2, <3>9, <3>10
    <3>14. OrderOK(clients, boot', buffer, turn, Numbered, answered, seqOf)
      BY <2>1, <3>12, <3>13 DEF OrderOK
    <3> QED
      BY <1>1, <2>1, <2>2, <3>14, LeavingKeepsOrder DEF clients
  <2>5. CASE ~(emitted = LastEvent /\ ~Closed(c))
    <3>1. /\ \A d \in Clients : /\ clients[d].view = client[d].view
                                /\ client[d].told = TRUE => clients[d].told = TRUE
          /\ Left(clients, buffer, attached) /\ In(clients) \subseteq In(client)
      BY <2>1, <2>2, <2>3, <2>5 DEF clients
    <3>2. \A d \in Clients :
            /\ Reads(boot', d) <=> Reads(boot, d)
            /\ Reads(boot, d) => boot'[d].frontier = boot[d].frontier /\ boot'[d].turn = boot[d].turn
      BY <2>1
    <3> QED
      BY <1>1, <1>9, <2>1, <2>2, <3>1, <3>2
  <2> QED
    BY <2>4, <2>5
<1>14. ASSUME NEW c \in Clients, ApplyCounter(c) \/ ReadFails(c) PROVE OrderInv'
  <2>1. PICK r, clients :
           /\ Handles(buffer, r) /\ r.buffer.deferred = FALSE
           /\ buffer.deferred = TRUE => /\ boot[c].frontier <= r.buffer.next
                                        /\ \A i \in DOMAIN r.out : boot[c].frontier <= seqOf[r.out[i]]
           /\ Given(clients, r.out)
           /\ \A d \in Clients : clients[d].at = IF d = c /\ client[c].at = "booting" THEN "attached"
                                                 ELSE client[d].at
           /\ Left(clients, r.buffer, attached)
           /\ boot[c].step \in {"read", "apply"}
           /\ boot' = [boot EXCEPT ![c] = NoBoot] /\ early' = early /\ closed' = closed
           /\ missing' = missing /\ Resumes(c, r)
    BY <1>14, Synchronizing
  <2>2. seqOf' = seqOf /\ answered' = answered
    BY <1>14 DEF ApplyCounter, ReadFails, outside, run
  <2> DEFINE lo == IF buffer.deferred = TRUE THEN boot[c].frontier ELSE buffer.next
             hi == r.buffer.next
  <2>3. /\ Delivers(r.out, buffer.next, hi) /\ buffer.next <= hi /\ hi \in Nat
        /\ clients \in [Clients -> ClientStates]
    BY <2>1 DEF Handles, Waits, Buffers, Given
  <2>4. lo \in Int /\ lo <= hi
    BY <1>5, <2>1, <2>3
  <2>5. Delivers(r.out, lo, hi)
    <3>1. CASE buffer.deferred = TRUE
      BY <2>1, <2>3, <3>1 DEF Delivers
    <3>2. CASE buffer.deferred = FALSE
      BY <2>3, <3>2
    <3> QED
      BY <1>5, <3>1, <3>2
  <2>6. \A d \in In(client) : ~Over(client[d]) => Under(client[d].view, Numbered, seqOf, lo)
    <3> SUFFICES ASSUME NEW d \in In(client), ~Over(client[d]) PROVE Under(client[d].view, Numbered, seqOf, lo)
      OBVIOUS
    <3>1. Ahead(client[d].view, boot, buffer, turn, Numbered, seqOf) /\ Reads(boot, c)
      BY <1>2, <2>1 DEF Reads
    <3> QED
      BY <1>5, <3>1 DEF Ahead
  <2> HIDE DEF lo, hi
  <2>7. /\ \A d \in Clients : Sound(clients[d].view, Numbered, answered)
        /\ \A d \in In(client) : ~Over(clients[d]) => Under(clients[d].view, Numbered, seqOf, hi)
    BY <2>1, <2>3, <2>4, <2>5, <2>6, GivingInOrder
  <2>8. In(clients) = In(client)
    BY <2>1 DEF In
  <2>9. OrderOK(clients, boot', r.buffer, turn, Numbered, answered, seqOf)
    BY <2>1, <2>7, <2>8 DEF OrderOK, Ahead, hi
  <2> QED
    BY <1>1, <2>1, <2>2, <2>3, <2>9, LeavingKeepsOrder
<1>15. ASSUME NEW c \in Clients, Replaying(c) PROVE OrderInv'
  <2>1. PICK out, frontier :
           /\ out \in Seq(Events) /\ Replayed(out)
           /\ \/ early # <<>> /\ out = early
              \/ early # <<>> /\ client[c].defers = FALSE
              \/ early = <<>> /\ out = <<Created>>
           /\ frontier \in Int /\ frontier >= NoFrontier
           /\ early # <<>> /\ client[c].defers = TRUE /\ ReplayTo # {} =>
                \A e \in ToSet(early) \cap Numbered : seqOf[e] < frontier
           /\ boot' = [boot EXCEPT ![c] = [boot[c] EXCEPT !.step = "read", !.frontier = frontier]]
           /\ early' = <<>> /\ closed' = TRUE
           /\ boot[c].step \in {"check", "heir"}
           /\ \/ turn = boot[c].turn /\ ToSet(early) \subseteq answered /\ outlived' = outlived
              \/ turn # boot[c].turn /\ outlived' = TRUE
           /\ UNCHANGED <<outside, run, buffer, overflowed, attached, turn, missing>>
    BY <1>15, Replays DEF Replaying
  <2>2. seqOf' = seqOf /\ answered' = answered /\ buffer' = buffer /\ turn' = turn
    BY <2>1 DEF outside, run
  <2>3. client[c].defers = TRUE /\ boot[c].turn = turn /\ ~Reads(boot, c)
    BY <2>1 DEF HeldInv, HeldOK, Busy, Reads
  <2>4. ASSUME NEW d \in Clients
        PROVE  /\ client'[d].at = client[d].at /\ client'[d].told = client[d].told
               /\ \/ client'[d].view = client[d].view
                  \/ d \in Subscribed /\ client'[d].view = client[d].view \o Shown(d, out)
               /\ client[d].view \in Seq(Events) /\ Sound(client[d].view, Numbered, answered)
               /\ Shown(d, out) \in Seq(Events) /\ PartOf(Shown(d, out), out)
               /\ Closed(d) => Shown(d, out) = <<>>
               /\ client'[d] \in ClientStates
    BY <1>2, <1>5, <2>1, ShownIsPart DEF Replayed
  <2>5. In(client') = In(client)
    BY <2>4 DEF In
  <2> DEFINE k == [boot[c] EXCEPT !.step = "read", !.frontier = frontier]
  <2>6. k.step = "read" /\ k.frontier = frontier /\ k.turn = turn
    BY <1>1, <2>1, <2>3 DEF BootStates
  <2>7. \A d \in Clients : boot'[d] = IF d = c THEN k ELSE boot[d]
    BY <1>1, <2>1
  <2> HIDE DEF k
  <2>8. Reads(boot', c) /\ boot'[c].turn = turn /\ boot'[c].frontier = frontier
    BY <2>6, <2>7 DEF Reads
  <2>9. \A d \in Clients : d # c => boot'[d] = boot[d] /\ (Reads(boot', d) <=> Reads(boot, d))
    BY <2>7 DEF Reads
  <2>10. CASE early # <<>>
    <3>1. out = early /\ closed = FALSE /\ Rising(early)
      BY <1>1, <2>1, <2>3, <2>10 DEF EarlyInv
    <3>2. \A d \in Clients : ~Reads(boot, d)
      BY <3>1 DEF HeldInv, HeldOK, Reads
    <3>3. ASSUME NEW d \in Clients, client'[d].view # client[d].view
          PROVE  /\ d \in In(client) /\ client'[d].view = Shown(d, early)
                 /\ ToSet(client'[d].view) \subseteq ToSet(early) /\ Well(client'[d].view, Failed)
      <4>1. d \in In(client) /\ client'[d].view = client[d].view \o Shown(d, early)
        BY <1>4, <2>4, <3>1, <3>3
      <4>2. ~Over(client[d])
        <5> SUFFICES ASSUME Over(client[d]) PROVE FALSE
          OBVIOUS
        <5>1. Shown(d, early) = <<>>
          BY <2>4, <3>1 DEF Closed
        <5> QED
          BY <2>4, <3>3, <4>1, <5>1, ConcatEmptySeq
      <4>3. client[d].view = <<>>
        BY <1>1, <3>1, <4>1, <4>2, SawNothing DEF HeldInv, HeldOK
      <4>4. client'[d].view = Shown(d, early)
        BY <2>4, <3>1, <4>1, <4>3, ConcatEmptySeq
      <4> QED
        BY <1>1, <2>4, <3>1, <4>1, <4>4, PartIsWell
    <3>4. ASSUME NEW d \in Clients PROVE Sound(client'[d].view, Numbered, answered)
      <4>1. CASE client'[d].view = client[d].view
        BY <2>4, <4>1
      <4>2. CASE client'[d].view # client[d].view
        BY <2>1, <3>3, <4>2 DEF Sound, Deltas, Failed
      <4> QED
        BY <4>1, <4>2
    <3>5. ASSUME NEW d \in In(client'), ~Over(client'[d])
          PROVE  Ahead(client'[d].view, boot', buffer, turn, Numbered, seqOf)
      <4>1. d \in Clients /\ d \in In(client) /\ buffer.deferred = TRUE
        BY <1>4, <2>5, <3>1 DEF HeldInv, HeldOK
      <4>2. ReplayTo # {}
        BY <1>4, <4>1 DEF ReplayTo
      <4>3. Under(client'[d].view, Numbered, seqOf, frontier)
        <5>1. CASE client'[d].view = client[d].view
          <6>1. ~Over(client[d])
            BY <2>4, <3>5, <4>1, <5>1 DEF Over
          <6>2. client'[d].view = <<>>
            BY <1>1, <3>1, <4>1, <5>1, <6>1, SawNothing DEF HeldInv, HeldOK
          <6> QED
            BY <6>2 DEF Under, Deltas, ToSet
        <5>2. CASE client'[d].view # client[d].view
          <6>1. ToSet(client'[d].view) \subseteq ToSet(early)
            BY <3>3, <4>1, <5>2
          <6>2. \A e \in ToSet(early) \cap Numbered : seqOf[e] < frontier
            BY <2>1, <2>3, <2>10, <4>2
          <6> QED
            BY <6>1, <6>2 DEF Under, Deltas
        <5> QED
          BY <5>1, <5>2
      <4>4. \A e \in Clients : Reads(boot', e) => boot'[e].frontier = frontier
        BY <2>8, <2>9, <3>2
      <4> QED
        BY <2>8, <4>1, <4>3, <4>4 DEF Ahead
    <3>6. OrderOK(client', boot', buffer', turn', Numbered, answered, seqOf)
      BY <2>2, <3>4, <3>5 DEF OrderOK
    <3> QED
      BY <1>3, <2>2, <3>6
  <2>11. CASE early = <<>>
    <3>1. out = <<Created>>
      BY <2>1, <2>11
    <3>2. ToSet(out) = {Created}
      BY <3>1 DEF ToSet
    <3>3. ASSUME NEW d \in Clients
          PROVE  /\ Sound(client'[d].view, Numbered, answered)
                 /\ Deltas(client'[d].view) = Deltas(client[d].view)
                 /\ ToSet(client[d].view) \subseteq ToSet(client'[d].view)
      <4> DEFINE v == client[d].view
                 w == Shown(d, out)
      <4>1. CASE client'[d].view = v
        BY <2>4, <4>1
      <4>2. CASE client'[d].view = v \o w
        <5>1. v \in Seq(Events) /\ w \in Seq(Events) /\ PartOf(w, out) /\ Sound(v, Numbered, answered)
          BY <2>4
        <5>2. Rising(out)
          BY <3>1 DEF Rising
        <5> HIDE DEF v, w
        <5>3. Well(w, Failed) /\ ToSet(w) \subseteq {Created}
          BY <2>1, <3>2, <5>1, <5>2, PartIsWell
        <5>4. \A e \in ToSet(v), f \in ToSet(w) : InOrder(e, f, Failed)
          BY <5>3 DEF InOrder
        <5>5. Well(v \o w, Failed) /\ ToSet(v \o w) = ToSet(v) \cup ToSet(w)
          BY <5>1, <5>3, <5>4, Appending, Joined DEF Sound, Failed
        <5>6. Deltas(v \o w) = Deltas(v)
          BY <5>3, <5>5 DEF Deltas
        <5>7. Sound(v \o w, Numbered, answered)
          BY <5>1, <5>5, <5>6 DEF Sound, Failed
        <5> QED
          BY <4>2, <5>5, <5>6, <5>7 DEF v
      <4> QED
        BY <2>4, <4>1, <4>2
    <3>4. ASSUME NEW d \in In(client'), ~Over(client'[d])
          PROVE  Ahead(client'[d].view, boot', buffer, turn, Numbered, seqOf)
      <4>1. d \in Clients /\ d \in In(client)
        BY <1>4, <2>5
      <4>2. ~Over(client[d])
        BY <2>4, <3>3, <3>4, <4>1 DEF Over
      <4>3. Ahead(client[d].view, boot, buffer, turn, Numbered, seqOf)
        BY <1>2, <4>1, <4>2
      <4>4. \A n : Under(client'[d].view, Numbered, seqOf, n) <=> Under(client[d].view, Numbered, seqOf, n)
        BY <3>3, <4>1 DEF Under
      <4>5. CASE buffer.deferred = FALSE
        BY <4>3, <4>4, <4>5 DEF Ahead
      <4>6. CASE buffer.deferred = TRUE
        <5>1. ~ \E e \in Clients : Reads(boot, e) /\ boot[e].turn = turn
          BY <2>1, <2>3 DEF FenceInv, FenceOK, Busy, Reads
        <5>2. Deltas(client[d].view) \cap Numbered = {}
          BY <4>3, <4>6, <5>1 DEF Ahead
        <5>3. Deltas(client'[d].view) \cap Numbered = {}
          BY <3>3, <4>1, <5>2
        <5> QED
          BY <4>6, <5>3 DEF Ahead, Under
      <4> QED
        BY <1>5, <4>5, <4>6
    <3>5. OrderOK(client', boot', buffer', turn', Numbered, answered, seqOf)
      BY <2>2, <3>3, <3>4 DEF OrderOK
    <3> QED
      BY <1>3, <2>2, <3>5
  <2> QED
    BY <2>10, <2>11
<1>16. ASSUME NEW c \in Clients, Proceeds(c) PROVE OrderInv'
  <2>1. UNCHANGED <<client, buffer, turn, seqOf, answered>>
    BY <1>16 DEF Proceeds, runtime, outside, run
  <2>2. PICK k \in BootStates :
          /\ boot' = [boot EXCEPT ![c] = k]
          /\ k.step \in {"check", "broken"} /\ boot[c].step \in {"fence", "check"}
          /\ k.turn = boot[c].turn /\ k.frontier = boot[c].frontier /\ k.counter = boot[c].counter
    BY <1>1, <1>16, Proceeding
  <2>3. \A d \in Clients : boot'[d] = IF d = c THEN k ELSE boot[d]
    BY <1>1, <2>2
  <2>4. \A d \in Clients :
          /\ Reads(boot', d) <=> Reads(boot, d)
          /\ Reads(boot, d) => boot'[d].frontier = boot[d].frontier /\ boot'[d].turn = boot[d].turn
    BY <2>2, <2>3 DEF Reads
  <2>5. ASSUME NEW d \in In(client), ~Over(client[d])
        PROVE  Ahead(client[d].view, boot', buffer, turn, Numbered, seqOf)
    BY <1>2, <2>4, <2>5, AheadStays
  <2>6. OrderOK(client', boot', buffer', turn', Numbered, answered, seqOf)
    BY <1>2, <2>1, <2>5 DEF OrderOK
  <2> QED
    BY <1>3, <2>1, <2>6
<1> QED
  BY <1>6, <1>7, <1>8, <1>10, <1>11, <1>12, <1>13, <1>14, <1>15, <1>16, ClientSteps

LEMMA LateMoves ==
  ASSUME [Next]_vars
  PROVE  outlived' = outlived \/ \E c \in Clients : Bootstrap(c)
BY DEF Next, SystemStep, vars, FlushWindow, Execute, FlushTimeout, Answer, Arrive, Ready, PassFence,
   CheckFails, ContinueBootstrap, ReadCounter, ReadFails, ApplyCounter, CheckStored, Emit, EmitDone,
   PublicationFails, Lose, Subscribe, Leave

\* No bootstrap that has replayed too late is forgotten.
LEMMA OutlivedStays == BaseInv /\ [Next]_vars => (outlived' = FALSE => outlived = FALSE)
<1> SUFFICES ASSUME BaseInv, [Next]_vars, outlived' = FALSE PROVE outlived = FALSE
  OBVIOUS
<1>1. outlived \in BOOLEAN
  BY DEF BaseInv, TypeOK
<1>2. ASSUME NEW c \in Clients, Bootstrap(c) PROVE outlived = FALSE
  <2>1. outlived' = (outlived \/ turn # boot[c].turn)
    BY <1>2 DEF Bootstrap
  <2> QED
    BY <1>1, <2>1, Zenon
<1>3. ASSUME outlived' = outlived PROVE outlived = FALSE
  BY <1>3
<1> QED
  BY <1>2, <1>3, LateMoves

LEMMA ListsInit == Init => EarlyInv /\ HeldInv /\ OrderInv
<1> SUFFICES ASSUME Init PROVE EarlyInv /\ HeldInv /\ OrderInv
  OBVIOUS
<1>1. /\ client = [c \in Clients |-> NewClient] /\ boot = [c \in Clients |-> NoBoot]
      /\ early = <<>> /\ closed = FALSE /\ buffer.deferred = FALSE
  BY DEF Init, NewBuffer
<1>2. /\ \A c \in Clients : client[c].at = "away" /\ client[c].view = <<>> /\ boot[c].step = "none"
      /\ In(client) = {}
  BY <1>1 DEF NewClient, NoBoot, In
<1>3. EarlyInv
  BY <1>1 DEF EarlyInv, Rising
<1>4. HeldInv
  BY <1>1, <1>2 DEF HeldInv, HeldOK, Busy
<1>5. DOMAIN <<>> = {} /\ ToSet(<<>>) = {}
  BY DEF ToSet
<1>6. \A c \in Clients : Sound(client[c].view, Numbered, answered)
  BY <1>2, <1>5 DEF Sound, Well, Deltas
<1>7. OrderInv
  BY <1>2, <1>6 DEF OrderInv, OrderOK
<1> QED
  BY <1>3, <1>4, <1>7

\* The clients that open the stream and want it from its start are shown the
\* deltas in the order they were emitted, and none twice, although each event can
\* reach them through the replay of the early buffer (GenerationJobManager) and
\* through the reorder buffer (RedisEventTransport); only a delta whose publication
\* failed can come too soon.  It holds until a bootstrap replays although its
\* attachment is over, which DeltasInOrderOnce sets aside.  No client resumes: a
\* resumed one subscribes without holding back the live frames, and then a replay
\* can come after them.
THEOREM InOrderOnce ==
  ASSUME Resuming = {}
  PROVE  Spec => []DeltasInOrderOnce
<1> DEFINE Inv == BaseInv /\ FenceInv /\ EarlyInv /\ HeldInv /\ (outlived = FALSE => OrderInv)
<1>1. Init => Inv
  BY BaseInit, FenceInit, ListsInit
<1>2. Inv /\ [Next]_vars => Inv'
  BY BaseStep, FenceStep, EarlyStep, HeldStep, OrderStep, OutlivedStays
<1>3. Inv => DeltasInOrderOnce
  <2>1. OrderInv => \A c \in Clients : Well(client[c].view, Failed)
    BY DEF OrderInv, OrderOK, Sound, Failed
  <2> QED
    BY <2>1 DEF DeltasInOrderOnce, Well, InOrder, BaseInv, TypeOK
<1> QED
  BY <1>1, <1>2, <1>3, PTL DEF Spec

-----------------------------------------------------------------------------
(***************************************************************************)
(* What is shown has no hole.  Nothing is skipped without being missing,   *)
(* and no position in the stream is beyond the counter of Redis.           *)
(***************************************************************************)

\* A client that is not closed has everything it is handed, created once.
LEMMA ShownInFull ==
  ASSUME NEW c \in Initial, client[c].view \in Seq(Events), NEW out \in Seq(Events), ~Closed(c),
         NEW v, v = client[c].view \o Shown(c, out)
  PROVE  v \in Seq(Events) /\ ToSet(v) = ToSet(client[c].view) \cup ToSet(out)
<1> DEFINE k == client[c].view
           w == Shown(c, out)
           S == IF Created \notin ToSet(k) THEN {} ELSE {Created}
<1>1. w = Without(out, S)
  BY DEF Shown
<1>2. w \in Seq(Events) /\ ToSet(w) = ToSet(out) \ S
  BY <1>1, WithoutKeeps
<1>3. k \in Seq(Events) /\ S \subseteq ToSet(k)
  OBVIOUS
<1>4. v = k \o w
  OBVIOUS
<1> HIDE DEF k, w, S
<1>5. v \in Seq(Events) /\ ToSet(v) = ToSet(k) \cup ToSet(w)
  BY <1>2, <1>3, <1>4, Joined
<1>6. ToSet(v) = ToSet(k) \cup ToSet(out)
  BY <1>2, <1>3, <1>5
<1> QED
  BY <1>5, <1>6 DEF k

\* What is missing stays missing.
LEMMA MissingStays == [Next]_vars => missing \subseteq missing'
<1> SUFFICES ASSUME [Next]_vars PROVE missing \subseteq missing'
  OBVIOUS
<1>1. CASE UNCHANGED vars
  BY <1>1 DEF vars
<1>2. CASE \/ Emit \/ EmitDone \/ FlushWindow \/ Execute \/ (\E e \in Events : Answer(e))
  BY <1>2 DEF Emit, EmitDone, FlushWindow, Execute, Answer
<1>3. CASE \/ PublicationFails \/ FlushTimeout \/ (\E f \in net : Arrive(f) \/ Lose(f))
  BY <1>3 DEF PublicationFails, FlushTimeout, Arrive, Lose
<1>4. ASSUME NEW c \in Clients,
             \/ Subscribe(c) \/ Ready(c) \/ PassFence(c) \/ Bootstrap(c) \/ CheckFails(c)
             \/ ContinueBootstrap(c) \/ ReadCounter(c) \/ ApplyCounter(c) \/ ReadFails(c)
             \/ CheckStored(c) \/ Leave(c)
      PROVE  missing' = missing
  BY <1>4 DEF Subscribe, Ready, PassFence, Bootstrap, CheckFails, ContinueBootstrap, Replay, ReadCounter,
              ApplyCounter, ReadFails, CheckStored, Leave
<1> QED
  BY <1>1, <1>2, <1>3, <1>4 DEF Next, SystemStep

\* Whom a bootstrap serves, and from where on it lets the live frames through.
Serves(c, frontier) ==
  /\ boot' = [boot EXCEPT ![c] = [boot[c] EXCEPT !.step = "read", !.frontier = frontier]]
  /\ early = <<>> => frontier = boot[c].frontier /\ \A d \in Clients : client'[d].served = client[d].served
  /\ early # <<>> =>
       /\ frontier = IF Subscribed # {} THEN ReplayFrontier ELSE NoFrontier
       /\ \A d \in Subscribed : client'[d].served = turn /\ client'[d].view = client[d].view \o Shown(d, early)
       /\ \A d \in Clients \ Subscribed : client'[d].served = client[d].served /\ client'[d].view = client[d].view

LEMMA Serving ==
  ASSUME Resuming = {}, BaseInv, NEW c \in Clients, client[c].defers = TRUE, Replaying(c)
  PROVE  \E frontier : Serves(c, frontier)
<1>1. /\ client \in [Clients -> ClientStates] /\ boot[c] \in BootStates /\ early \in Seq(Events)
      /\ turn \in Nat /\ boot \in [Clients -> BootStates] /\ LastEvent \in Nat /\ LastEvent >= 2
  BY BoundsAssumption DEF BaseInv, TypeOK
<1>2. ReplayTo = Subscribed
  BY DEF ReplayTo, Clients, Subscribed, In
<1>3. Replay(c, early, ReplayFrontier)
  BY DEF Replaying, Bootstrap, ContinueBootstrap
<1>4. CASE early # <<>>
  <2> DEFINE shown == Handed(ReplayTo, early)
             fr == IF Subscribed # {} THEN ReplayFrontier ELSE NoFrontier
  <2>1. /\ client' = [d \in Clients |-> [shown[d] EXCEPT !.served = IF d \in ReplayTo THEN turn ELSE @]]
        /\ boot' = [boot EXCEPT ![c].step = "read", ![c].frontier = fr]
    BY <1>2, <1>3, <1>4 DEF Replay
  <2>2. /\ shown \in [Clients -> ClientStates]
        /\ \A d \in Clients : /\ d \notin ReplayTo => shown[d] = client[d]
                              /\ d \in ReplayTo => shown[d].view = client[d].view \o Shown(d, early)
    BY <1>1, HandedClients
  <2> HIDE DEF shown
  <2>3. ASSUME NEW d \in Clients
        PROVE  /\ d \in Subscribed => client'[d].served = turn /\ client'[d].view = client[d].view \o Shown(d, early)
               /\ d \notin Subscribed => client'[d].served = client[d].served /\ client'[d].view = client[d].view
    <3> DEFINE s == IF d \in ReplayTo THEN turn ELSE shown[d].served
    <3>1. shown[d] \in ClientStates
      BY <2>2
    <3>2. client'[d] = [shown[d] EXCEPT !.served = s]
      BY <2>1, <3>1 DEF ClientStates
    <3>3. client'[d].served = s /\ client'[d].view = shown[d].view
      <4> HIDE DEF s
      <4> QED
        BY <3>1, <3>2 DEF ClientStates
    <3> QED
      BY <1>2, <2>2, <3>3
  <2>4. boot' = [boot EXCEPT ![c] = [boot[c] EXCEPT !.step = "read", !.frontier = fr]]
    BY <1>1, <2>1
  <2>5. Subscribed \subseteq Clients
    BY DEF Subscribed, In
  <2>6. fr = IF Subscribed # {} THEN ReplayFrontier ELSE NoFrontier
    OBVIOUS
  <2> HIDE DEF fr
  <2>7. Serves(c, fr)
    BY <1>4, <2>3, <2>4, <2>5, <2>6 DEF Serves
  <2> QED
    BY <2>7
<1>5. CASE early = <<>>
  <2>1. /\ client' = Handed(ReplayTo, <<Created>>) \/ client' = client
        /\ boot' = [boot EXCEPT ![c].step = "read"]
    BY <1>3, <1>5 DEF Replay
  <2>2. boot' = [boot EXCEPT ![c] = [boot[c] EXCEPT !.step = "read", !.frontier = boot[c].frontier]]
    BY <1>1, <2>1 DEF BootStates
  <2>3. \A d \in Clients : client'[d].served = client[d].served
    <3>1. CASE client' = client
      BY <3>1
    <3>2. CASE client' = Handed(ReplayTo, <<Created>>)
      <4> DEFINE one == <<Created>>
      <4>1. one \in Seq(Events)
        BY <1>1 DEF Created, Events
      <4>2. client' = Handed(ReplayTo, one)
        BY <3>2
      <4> HIDE DEF one
      <4>3. \A d \in Clients : Handed(ReplayTo, one)[d].served = client[d].served
        BY <1>1, <4>1, HandedClients
      <4> QED
        BY <4>2, <4>3
    <3> QED
      BY <2>1, <3>1, <3>2
  <2>4. Serves(c, boot[c].frontier)
    BY <1>5, <2>2, <2>3 DEF Serves
  <2> QED
    BY <2>4
<1> QED
  BY <1>4, <1>5

\* Where the buffer and the bootstraps are in the stream.
ReachOK(bt, b, n) == b.next <= n /\ \A c \in Clients : bt[c].frontier <= n /\ bt[c].counter <= n
ReachInv == ReachOK(boot, buffer, counter)

LEMMA FrontierReached ==
  ASSUME BaseInv
  PROVE  ReplayFrontier <= counter
<1>1. \A e \in Numbered : seqOf[e] \in Nat /\ seqOf[e] < counter
  BY DEF BaseInv, NumberInv, Counted, NumbersRise, Numbered, NoFrontier
<1>2. counter \in Nat
  BY DEF BaseInv, NumberInv, Counted
<1>3. Numbers \subseteq Nat /\ \A k \in Numbers : k < counter
  BY <1>1 DEF Numbers
<1>4. CASE Numbers = {}
  BY <1>2, <1>4 DEF ReplayFrontier, NoFrontier
<1>5. CASE Numbers # {}
  <2>1. Greatest(Numbers) \in Numbers
    BY <1>2, <1>3, <1>5, GreatestNumber
  <2> DEFINE g == Greatest(Numbers)
  <2>2. ReplayFrontier = g + 1
    BY <1>5 DEF ReplayFrontier
  <2>3. g \in Nat /\ g < counter
    BY <1>3, <2>1
  <2> HIDE DEF g
  <2> QED
    BY <1>2, <2>2, <2>3
<1> QED
  BY <1>4, <1>5

LEMMA ReachInit == Init => ReachInv
<1> SUFFICES ASSUME Init PROVE ReachInv
  OBVIOUS
<1>1. counter \in Nat
  BY BoundsAssumption DEF Init
<1>2. buffer.next = 0 /\ \A c \in Clients : boot[c].frontier = NoFrontier /\ boot[c].counter = 0
  BY DEF Init, NewBuffer, NoBoot
<1> QED
  BY <1>1, <1>2 DEF ReachInv, ReachOK, NoFrontier

LEMMA ReachStep ==
  Resuming = {} /\ BaseInv /\ FenceInv /\ HeldInv /\ ReachInv /\ [Next]_vars => ReachInv'
<1> SUFFICES ASSUME Resuming = {}, BaseInv, FenceInv, HeldInv, ReachInv, [Next]_vars PROVE ReachInv'
  OBVIOUS
<1>1. /\ boot \in [Clients -> BootStates] /\ counter \in Nat /\ counter' \in Nat /\ counter <= counter'
      /\ buffer.next \in Nat /\ attached \in BOOLEAN /\ TRUE \in BOOLEAN
      /\ client \in [Clients -> ClientStates] /\ turn \in Nat
  <2>1. RunTypes
    BY BaseParts
  <2>2. counter' = counter \/ counter' = counter + 1
    BY <2>1, RunStep DEF RunMoves, Quiet
  <2> QED
    BY <2>1, <2>2 DEF BaseInv, TypeOK, RunTypes
<1>2. /\ buffer.next <= counter
      /\ \A c \in Clients : boot[c].frontier <= counter /\ boot[c].counter <= counter
  BY DEF ReachInv, ReachOK
<1>3. \A c \in Clients : boot[c] \in BootStates /\ boot[c].frontier \in Int /\ boot[c].counter \in Nat
  BY <1>1 DEF BootStates
<1>4. NewBuffer(FALSE).next = 0 /\ NewBuffer(TRUE).next = 0
  BY DEF NewBuffer
<1>5. ASSUME buffer'.next \in Nat, buffer'.next <= counter,
             boot' = boot \/ \E c \in Clients : \E k :
               /\ boot' = [boot EXCEPT ![c] = k]
               /\ k.frontier \in Int /\ k.counter \in Nat /\ k.frontier <= counter /\ k.counter <= counter
      PROVE  ReachInv'
  <2>1. ASSUME NEW d \in Clients
        PROVE  /\ boot'[d].frontier \in Int /\ boot'[d].counter \in Nat
               /\ boot'[d].frontier <= counter /\ boot'[d].counter <= counter
    BY <1>1, <1>2, <1>3, <1>5
  <2>2. buffer'.next <= counter' /\ \A d \in Clients : boot'[d].frontier <= counter' /\ boot'[d].counter <= counter'
    BY <1>1, <1>5, <2>1
  <2> QED
    BY <2>2 DEF ReachInv, ReachOK
<1>6. ASSUME NEW clients \in [Clients -> ClientStates], NEW b, b.next \in Nat, b.next <= counter,
             NEW hs \in BOOLEAN, Left(clients, b, hs)
      PROVE  buffer'.next \in Nat /\ buffer'.next <= counter
  <2>1. buffer' = NewBuffer(FALSE) \/ buffer' = b
    BY <1>6 DEF Left
  <2>2. CASE buffer' = NewBuffer(FALSE)
    <3>1. buffer'.next = 0 /\ counter \in Nat
      BY <1>1, <1>4, <2>2
    <3> QED
      BY <3>1
  <2>3. CASE buffer' = b
    BY <1>6, <2>3
  <2> QED
    BY <2>1, <2>2, <2>3
<1>7. NoBoot.frontier \in Int /\ NoBoot.counter \in Nat /\ NoBoot.frontier <= counter /\ NoBoot.counter <= counter
  BY <1>1 DEF NoBoot, NoFrontier
<1>8. CASE Idle
  BY <1>1, <1>2, <1>5, <1>8 DEF Idle
<1>9. CASE Arrival
  <2>1. PICK r : /\ Handles(buffer, r) /\ Given(Handed(Subscribed, r.out), r.out)
                 /\ Left(Handed(Subscribed, r.out), r.buffer, attached)
                 /\ boot' = boot
                 /\ buffer.next <= counter => r.buffer.next <= counter
    BY <1>9, Arrivals DEF Arrival
  <2>2. r.buffer.next \in Nat /\ Handed(Subscribed, r.out) \in [Clients -> ClientStates]
    BY <2>1 DEF Handles, Waits, Buffers, Given
  <2> QED
    BY <1>1, <1>2, <1>5, <1>6, <2>1, <2>2
<1>10. ASSUME NEW c \in Clients, Subscribe(c) PROVE ReachInv'
  <2>1. boot' = boot /\ (buffer' = buffer \/ buffer' = NewBuffer(Defers(c)))
    BY <1>1, <1>10 DEF Subscribe
  <2>2. NewBuffer(Defers(c)).next = 0
    BY DEF NewBuffer
  <2>3. buffer'.next \in Nat /\ buffer'.next <= counter
    <3>1. CASE buffer' = buffer
      BY <1>1, <1>2, <3>1
    <3>2. CASE buffer' = NewBuffer(Defers(c))
      BY <1>1, <2>2, <3>2
    <3> QED
      BY <2>1, <3>1, <3>2
  <2> QED
    BY <1>5, <2>1, <2>3
<1>11. ASSUME NEW c \in Clients, Ready(c) PROVE ReachInv'
  <2> DEFINE k == [NoBoot EXCEPT !.step = "fence", !.turn = turn]
  <2>1. k.frontier = NoBoot.frontier /\ k.counter = NoBoot.counter
    BY DEF NoBoot
  <2> HIDE DEF k
  <2>2. boot' = boot \/ boot' = [boot EXCEPT ![c] = k]
    BY <1>11 DEF Ready, k
  <2>3. \E clients : clients \in [Clients -> ClientStates] /\ Left(clients, buffer, TRUE)
    <3>1. InPlace(c, client) \in [Clients -> ClientStates]
      BY <1>1, InPlaceClients
    <3>2. "booting" \in Places
      BY DEF Places
    <3>3. [client EXCEPT ![c].at = "booting"] \in [Clients -> ClientStates]
      BY <1>1, <3>2, MovedClient
    <3> QED
      BY <1>11, <3>1, <3>3 DEF Ready
  <2>4. buffer'.next \in Nat /\ buffer'.next <= counter
    BY <1>1, <1>2, <1>6, <2>3
  <2> QED
    BY <1>5, <1>7, <2>1, <2>2, <2>4
<1>12. ASSUME NEW c \in Clients, Replaying(c) PROVE ReachInv'
  <2>1. PICK out, frontier :
          /\ boot' = [boot EXCEPT ![c] = [boot[c] EXCEPT !.step = "read", !.frontier = frontier]]
          /\ Replayed(out) /\ boot[c].step \in {"check", "heir"}
          /\ UNCHANGED <<outside, run, buffer, overflowed, attached, turn, missing>>
    BY <1>12, Replays DEF Replaying
  <2>2. client[c].defers = TRUE
    BY <2>1 DEF HeldInv, HeldOK, Busy
  <2>3. PICK fr : Serves(c, fr)
    BY <1>12, <2>2, Serving
  <2>4. fr = ReplayFrontier \/ fr = NoFrontier \/ fr = boot[c].frontier
    BY <2>3 DEF Serves
  <2>5. fr \in Int /\ fr <= counter
    BY <1>1, <1>2, <1>3, <2>4, FrontierReached, FrontierPasses DEF NoFrontier
  <2> DEFINE k == [boot[c] EXCEPT !.step = "read", !.frontier = fr]
  <2>6. k.frontier = fr /\ k.counter = boot[c].counter
    BY <1>3 DEF BootStates
  <2>7. boot' = [boot EXCEPT ![c] = k]
    BY <2>3 DEF Serves
  <2> HIDE DEF k
  <2> QED
    BY <1>1, <1>2, <1>3, <1>5, <2>1, <2>5, <2>6, <2>7
<1>13. ASSUME NEW c \in Clients, Abandoned(c) PROVE ReachInv'
  <2>1. boot' = [boot EXCEPT ![c] = NoBoot] /\ buffer' = buffer
    BY <1>13 DEF Abandoned
  <2> QED
    BY <1>1, <1>2, <1>5, <1>7, <2>1
<1>14. ASSUME NEW c \in Clients, ReadCounter(c) PROVE ReachInv'
  <2> DEFINE k == [boot[c] EXCEPT !.step = "apply", !.counter = counter]
  <2>1. boot' = [boot EXCEPT ![c] = k] /\ buffer' = buffer
    BY <1>1, <1>14 DEF ReadCounter
  <2>2. k.frontier = boot[c].frontier /\ k.counter = counter
    BY <1>3 DEF BootStates
  <2> HIDE DEF k
  <2>3. k.frontier \in Int /\ k.counter \in Nat /\ k.frontier <= counter /\ k.counter <= counter
    BY <1>1, <1>2, <1>3, <2>2
  <2>4. buffer'.next \in Nat /\ buffer'.next <= counter
    BY <1>1, <1>2, <2>1
  <2> QED
    BY <1>5, <2>1, <2>3, <2>4
<1>15. ASSUME NEW c \in Clients, ApplyCounter(c) \/ ReadFails(c) PROVE ReachInv'
  <2>1. PICK r, clients :
           /\ Handles(buffer, r) /\ Given(clients, r.out)
           /\ Left(clients, r.buffer, attached)
           /\ boot' = [boot EXCEPT ![c] = NoBoot] /\ Resumes(c, r)
    BY <1>15, Synchronizing
  <2>2. r.buffer.next \in Nat /\ clients \in [Clients -> ClientStates] /\ r.buffer.next <= counter
    BY <1>2, <2>1 DEF Handles, Waits, Buffers, Given, Resumes
  <2> QED
    BY <1>1, <1>5, <1>6, <1>7, <2>1, <2>2
<1>16. ASSUME NEW c \in Clients, CheckStored(c) PROVE ReachInv'
  <2>1. Left(CheckedFor(c), buffer, attached) /\ boot' = boot
    BY <1>16 DEF CheckStored, CheckedFor
  <2>2. CheckedFor(c) \in [Clients -> ClientStates]
    BY <1>1, CheckedClients
  <2> QED
    BY <1>1, <1>2, <1>5, <1>6, <2>1, <2>2
<1>17. ASSUME NEW c \in Clients, Departs(c) PROVE ReachInv'
  <2>1. Left([client EXCEPT ![c].at = "left"], buffer, attached) /\ "left" \in Places
    BY <1>17 DEF Departs, Places
  <2>2. [client EXCEPT ![c].at = "left"] \in [Clients -> ClientStates]
    BY <1>1, <2>1, MovedClient
  <2>3. PICK k \in BootStates : /\ boot' = [boot EXCEPT ![c] = k]
                                /\ \/ k.frontier = boot[c].frontier /\ k.counter = boot[c].counter
                                   \/ k = NoBoot
    BY <1>1, <1>17, Leavings
  <2>4. k.frontier \in Int /\ k.counter \in Nat /\ k.frontier <= counter /\ k.counter <= counter
    BY <1>2, <1>3, <1>7, <2>3
  <2> QED
    BY <1>1, <1>2, <1>5, <1>6, <2>1, <2>2, <2>3, <2>4
<1>18. ASSUME NEW c \in Clients, Proceeds(c) PROVE ReachInv'
  <2>1. buffer' = buffer
    BY <1>18 DEF Proceeds
  <2>2. PICK k \in BootStates :
          /\ boot' = [boot EXCEPT ![c] = k]
          /\ k.step \in {"check", "broken"} /\ boot[c].step \in {"fence", "check"}
          /\ k.turn = boot[c].turn /\ k.frontier = boot[c].frontier /\ k.counter = boot[c].counter
    BY <1>1, <1>18, Proceeding
  <2>3. k.frontier \in Int /\ k.counter \in Nat /\ k.frontier <= counter /\ k.counter <= counter
    BY <1>2, <1>3, <2>2
  <2> QED
    BY <1>1, <1>2, <1>5, <2>1, <2>2, <2>3
<1> QED
  BY <1>8, <1>9, <1>10, <1>11, <1>12, <1>13, <1>14, <1>15, <1>16, <1>17, <1>18, ClientSteps

\* Where no publication fails, whatever was emitted has a number or waits for one.
WholeRun ==
  /\ answered \subseteq Numbered
  /\ \A e \in 1 .. emitted : e \in Numbered \/ e \in ToSet(Queue)

\* A receipt is of an event that has a number.
LEMMA OnlyNumbersAreAnswered ==
  ASSUME MaxFailures = 0, BaseInv, [Next]_vars
  PROVE  answered' = answered \/ \E e \in Numbered : answered' = answered \cup {e}
<1>1. CASE PublicationFails
  <2>1. LastEvent \in Int /\ Failed \subseteq 1 .. LastEvent
    <3>1. answered \subseteq Events /\ LastEvent \in Int
      BY BoundsAssumption, BaseParts DEF RunTypes
    <3> QED
      BY <3>1 DEF Failed, Events
  <2>2. IsFiniteSet(1 .. LastEvent)
    BY <2>1, FS_Interval
  <2>3. IsFiniteSet(Failed)
    BY <2>1, <2>2, FS_Subset
  <2>4. Cardinality(Failed) \in Nat
    BY <2>3, FS_CardinalityType
  <2>5. Cardinality(Failed) < 0
    BY <1>1 DEF PublicationFails
  <2> QED
    BY <2>4, <2>5
<1>2. CASE \/ UNCHANGED vars \/ Emit \/ EmitDone \/ FlushWindow \/ Execute \/ FlushTimeout
           \/ \E f \in net : Arrive(f) \/ Lose(f)
  BY <1>2 DEF vars, Emit, EmitDone, FlushWindow, Execute, FlushTimeout, Arrive, Lose, run
<1>3. ASSUME NEW e \in Events, Answer(e) PROVE e \in Numbered /\ answered' = answered \cup {e}
  BY <1>3 DEF Answer, Numbered
<1>4. ASSUME NEW c \in Clients,
             \/ Subscribe(c) \/ Ready(c) \/ PassFence(c) \/ Bootstrap(c) \/ CheckFails(c)
             \/ ContinueBootstrap(c) \/ ReadCounter(c) \/ ApplyCounter(c) \/ ReadFails(c)
             \/ CheckStored(c) \/ Leave(c)
      PROVE  answered' = answered
  BY <1>4 DEF Subscribe, Ready, PassFence, Bootstrap, CheckFails, ContinueBootstrap, Replay, ReadCounter,
              ApplyCounter, ReadFails, CheckStored, Leave, run
<1> QED
  BY <1>1, <1>2, <1>3, <1>4 DEF Next, SystemStep

LEMMA WholeRunStep == MaxFailures = 0 /\ BaseInv /\ WholeRun /\ [Next]_vars => WholeRun'
<1> SUFFICES ASSUME MaxFailures = 0, BaseInv, WholeRun, [Next]_vars PROVE WholeRun'
  OBVIOUS
<1>1. RunTypes /\ NumberInv /\ Queue \in Seq(Events) /\ emitted \in Nat /\ LastEvent \in Nat
  BY BaseParts, QueueParts, BoundsAssumption DEF RunTypes
<1>2. RunMoves
  BY <1>1, RunStep
<1>3. Numbered \subseteq Numbered' /\ \A e \in Numbered : seqOf'[e] = seqOf[e]
  BY NumbersStay
<1>4. answered' \subseteq Numbered'
  BY <1>3, OnlyNumbersAreAnswered DEF WholeRun
<1>5. \A e \in 1 .. emitted : e \in Numbered' \/ e \in ToSet(Queue)
  BY <1>3 DEF WholeRun
<1>6. ASSUME ToSet(Queue) \subseteq ToSet(Queue'), emitted' = emitted PROVE WholeRun'
  BY <1>4, <1>5, <1>6 DEF WholeRun
<1>7. ASSUME Queue # <<>>, Queue' = Tail(Queue) PROVE ToSet(Queue) = {Head(Queue)} \cup ToSet(Queue')
  <2> DEFINE s == Queue
             t == Tail(Queue)
  <2>1. /\ t \in Seq(Events) /\ 1 \in DOMAIN s /\ s[1] = Head(s)
        /\ \A i \in DOMAIN t : i + 1 \in DOMAIN s /\ t[i] = s[i + 1]
    BY <1>1, <1>7, ListSteps
  <2>2. \A i \in DOMAIN s : i # 1 => i - 1 \in DOMAIN t /\ t[i - 1] = s[i]
    BY <1>1, <1>7
  <2>3. s \in Seq(Events)
    BY <1>1
  <2> HIDE DEF s, t
  <2>4. ToSet(s) \subseteq {Head(s)} \cup ToSet(t)
    BY <2>1, <2>2 DEF ToSet
  <2>5. {Head(s)} \cup ToSet(t) \subseteq ToSet(s)
    BY <2>1 DEF ToSet
  <2>6. ToSet(s) = {Head(s)} \cup ToSet(t)
    BY <2>4, <2>5
  <2> QED
    BY <1>7, <2>6 DEF s, t
<1>8. CASE Quiet /\ emitted' = emitted + 1 /\ Queue' = Append(Queue, emitted + 1)
  <2>1. RunTypes'
    BY <1>1, RunStep
  <2>2. emitted' \in Events /\ emitted' = emitted + 1
    BY <1>1, <1>8, <2>1 DEF RunTypes, Events
  <2> DEFINE n == emitted + 1
  <2>3. n \in Events /\ emitted' = n /\ Queue' = Append(Queue, n) /\ \A e \in 1 .. n : e = n \/ e \in 1 .. emitted
    BY <1>1, <1>8, <2>2
  <2> HIDE DEF n
  <2>4. ToSet(Queue') = ToSet(Queue) \cup {n}
    BY <1>1, <2>3, AppendedSet
  <2> QED
    BY <1>4, <1>5, <2>3, <2>4 DEF WholeRun
<1>9. CASE /\ Queue # <<>> /\ Queue' = Tail(Queue) /\ emitted' = emitted
           /\ seqOf' = [seqOf EXCEPT ![Head(Queue)] = counter]
  <2>1. Head(Queue) \in Events /\ counter # NoFrontier /\ seqOf \in [Events -> Nat \cup {NoFrontier}]
    BY <1>1, <1>9, ListSteps DEF RunTypes, NoFrontier
  <2>2. Head(Queue) \in Numbered'
    BY <1>9, <2>1 DEF Numbered
  <2> QED
    BY <1>4, <1>5, <1>7, <1>9, <2>2 DEF WholeRun
<1>10. CASE Queue # <<>> /\ answered' = answered \cup {Head(Queue)}
  <2>1. Head(Queue) \notin Numbered \cup answered
    <3>1. 1 \in DOMAIN Queue /\ Queue[1] = Head(Queue) /\ Head(Queue) \in Nat
      BY <1>1, <1>10, ListSteps DEF Events
    <3> QED
      BY <1>1, <3>1 DEF NumberInv
  <2> QED
    BY <1>10, <2>1, OnlyNumbersAreAnswered
<1> QED
  BY <1>2, <1>6, <1>8, <1>9, <1>10 DEF RunMoves, Quiet

\* What has a number is a beginning of the stream, and a new number is the counter's.
LEMMA NumberedIsABeginning ==
  ASSUME BaseInv, WholeRun, NEW f \in Numbered, NEW e \in 1 .. f
  PROVE  e \in Numbered /\ seqOf[e] <= seqOf[f]
<1>1. /\ f \in Events /\ LastEvent \in Nat /\ emitted \in Nat /\ f <= emitted /\ Queue \in Seq(Events)
      /\ Counted /\ \A i \in DOMAIN Queue : f < Queue[i]
  BY BaseParts, QueueParts, BoundsAssumption DEF NumberInv, RunTypes, Numbered
<1>2. e \in 1 .. emitted /\ e \in Nat /\ f \in Nat /\ e <= f
  BY <1>1 DEF Events
<1>3. e \notin ToSet(Queue)
  BY <1>1, <1>2 DEF ToSet, Events
<1>4. e \in Numbered
  BY <1>2, <1>3 DEF WholeRun
<1>5. seqOf[e] \in Nat /\ seqOf[f] \in Nat
  BY <1>1, <1>4 DEF Counted, NumbersRise, Numbered
<1>6. e < f => seqOf[e] < seqOf[f]
  BY <1>1, <1>4 DEF Counted, NumbersRise
<1> QED
  BY <1>2, <1>4, <1>5, <1>6

LEMMA NewNumbers ==
  ASSUME BaseInv, [Next]_vars
  PROVE  \A e \in Numbered' \ Numbered : seqOf'[e] = counter
<1>1. RunMoves /\ RunTypes
  BY BaseParts, RunStep
<1>2. CASE seqOf' = seqOf
  BY <1>2 DEF Numbered
<1>3. CASE seqOf' = [seqOf EXCEPT ![Head(Queue)] = counter]
  BY <1>1, <1>3 DEF Numbered, RunTypes
<1> QED
  BY <1>1, <1>2, <1>3 DEF RunMoves, Quiet

\* Within an attachment the subscriber stays.
LEMMA SubscriberStays ==
  ASSUME BaseInv, [Next]_vars
  PROVE  turn' = turn + 1 \/ (turn' = turn /\ (attached = TRUE => attached' = TRUE))
<1>1. attached \in BOOLEAN /\ turn \in Nat /\ client \in [Clients -> ClientStates]
  BY DEF BaseInv, TypeOK
<1>2. ASSUME NEW clients, NEW b, NEW hs \in BOOLEAN, Left(clients, b, hs), attached = TRUE => hs = TRUE
      PROVE  turn' = turn + 1 \/ (turn' = turn /\ (attached = TRUE => attached' = TRUE))
  <2> DEFINE last == Subscribed # {} /\ In(client') = {}
  <2>1. attached' = (hs /\ ~last) /\ turn' = IF last THEN turn + 1 ELSE turn
    BY <1>2 DEF Left
  <2>2. last \in BOOLEAN
    OBVIOUS
  <2> HIDE DEF last
  <2>3. CASE last = TRUE
    BY <2>1, <2>3
  <2>4. CASE last = FALSE
    <3>1. turn' = turn
      BY <2>1, <2>4
    <3>2. hs = TRUE => attached' = TRUE
      BY <2>1, <2>4
    <3> QED
      BY <1>2, <3>1, <3>2
  <2> QED
    BY <2>2, <2>3, <2>4
<1>3. CASE Idle
  BY <1>3 DEF Idle
<1>4. CASE Arrival
  <2>1. \E clients, b : Left(clients, b, attached)
    BY <1>4 DEF Arrival, FlushTimeout, Arrive
  <2> QED
    BY <1>1, <1>2, <2>1
<1>5. ASSUME NEW c \in Clients, Ready(c)
      PROVE  turn' = turn + 1 \/ (turn' = turn /\ (attached = TRUE => attached' = TRUE))
  <2>1. \E clients, b : Left(clients, b, TRUE)
    BY <1>5 DEF Ready
  <2> QED
    BY <1>2, <2>1
<1>6. ASSUME NEW c \in Clients, ApplyCounter(c) \/ ReadFails(c) \/ CheckStored(c) \/ Departs(c)
      PROVE  turn' = turn + 1 \/ (turn' = turn /\ (attached = TRUE => attached' = TRUE))
  <2>1. \E clients, b : Left(clients, b, attached)
    BY <1>6 DEF ApplyCounter, ReadFails, Synchronized, CheckStored, Departs
  <2> QED
    BY <1>1, <1>2, <2>1
<1>7. ASSUME NEW c \in Clients,
             Subscribe(c) \/ Proceeds(c) \/ Replaying(c) \/ Abandoned(c) \/ ReadCounter(c)
      PROVE  turn' = turn /\ attached' = attached
  BY <1>7 DEF Subscribe, Proceeds, Replaying, Bootstrap, ContinueBootstrap, Replay, Abandoned, ReadCounter, runtime
<1> QED
  BY <1>3, <1>4, <1>5, <1>6, <1>7, ClientSteps

\* Before the first attachment everything emitted is kept, so what is kept is
\* the beginning of the stream; the terminal event is never kept.
FirstEarly ==
  /\ \A i \in DOMAIN early : early[i] < LastEvent
  /\ turn = 0 => \A i \in DOMAIN early : early[i] = i
  /\ turn = 0 /\ owner = TRUE /\ attached = FALSE /\ closed = FALSE /\ emitted < LastEvent => Len(early) = emitted

LEMMA FirstEarlyStep == BaseInv /\ FirstEarly /\ [Next]_vars => FirstEarly'
<1> SUFFICES ASSUME BaseInv, FirstEarly, [Next]_vars PROVE FirstEarly'
  OBVIOUS
<1>1. /\ early \in Seq(Events) /\ emitted \in Nat /\ LastEvent \in Nat /\ turn \in Nat
      /\ owner \in BOOLEAN /\ attached \in BOOLEAN /\ closed \in BOOLEAN /\ attached' \in BOOLEAN /\ turn' \in Nat
  <2>1. BaseInv'
    BY BaseStep
  <2> QED
    BY <2>1, BoundsAssumption DEF BaseInv, TypeOK
<1>2. turn' = turn + 1 \/ (turn' = turn /\ (attached = TRUE => attached' = TRUE))
  BY SubscriberStays
<1>3. turn' = 0 => turn = 0 /\ (attached' = FALSE => attached = FALSE)
  BY <1>1, <1>2
<1>4. CASE early' = <<>> /\ closed' = TRUE
  BY <1>4 DEF FirstEarly
<1>5. CASE Emit
  <2>1. /\ emitted' = emitted + 1 /\ emitted + 1 < LastEvent /\ owner' = owner /\ turn' = turn
        /\ attached' = attached /\ Buffer(emitted + 1)
    BY <1>5 DEF Emit, outside
  <2> DEFINE e == emitted + 1
             held == Buffered(e)
  <2>2. CASE held
    <3>1. early' = Append(early, e) /\ closed' = closed /\ e \in Events /\ e < LastEvent
      BY <1>1, <2>1, <2>2 DEF Buffer, Events
    <3>2. owner = TRUE /\ attached = FALSE /\ closed = FALSE
      BY <1>1, <2>2 DEF Buffered
    <3>3. turn = 0 => Len(early) = emitted
      BY <1>1, <2>1, <3>2 DEF FirstEarly
    <3>4. e = emitted + 1 /\ e \in Nat
      BY <1>1
    <3> HIDE DEF e, held
    <3>5. /\ DOMAIN early' = DOMAIN early \cup {Len(early) + 1}
          /\ early'[Len(early) + 1] = e
          /\ \A i \in DOMAIN early : early'[i] = early[i]
      BY <1>1, <3>1, ListSteps
    <3>6. Len(early') = Len(early) + 1
      BY <1>1, <3>1
    <3>7. \A i \in DOMAIN early' : early'[i] < LastEvent
      BY <3>1, <3>5 DEF FirstEarly
    <3>8. turn' = 0 => \A i \in DOMAIN early' : early'[i] = i
      BY <2>1, <3>3, <3>4, <3>5 DEF FirstEarly
    <3>9. turn' = 0 => Len(early') = emitted'
      BY <2>1, <3>3, <3>6
    <3> QED
      BY <3>7, <3>8, <3>9 DEF FirstEarly
  <2>3. CASE ~held
    <3>1. \/ early' = <<>> /\ closed' = TRUE
          \/ early' = early /\ closed' = closed /\ ~(owner /\ ~attached /\ ~closed)
      BY <1>1, <2>1, <2>3 DEF Buffer
    <3>2. CASE early' = early /\ closed' = closed /\ ~(owner /\ ~attached /\ ~closed)
      <4>1. ~(owner = TRUE /\ attached = FALSE /\ closed = FALSE)
        BY <3>2, Zenon
      <4> QED
        BY <2>1, <3>2, <4>1 DEF FirstEarly
    <3> QED
      BY <1>4, <3>1, <3>2
  <2> QED
    BY <2>2, <2>3
<1>6. CASE early' = early /\ closed' = closed /\ ~Emit
  <2>1. owner' = owner
    BY <1>6 DEF Next, SystemStep, vars, outside, EmitDone, FlushWindow, Execute, PublicationFails, Answer, Lose, Arrive,
                FlushTimeout, Subscribe, Ready, PassFence, Bootstrap, CheckFails, ContinueBootstrap, Replay,
                ReadCounter, ApplyCounter, ReadFails, CheckStored, Leave
  <2>2. emitted' = emitted \/ emitted' = LastEvent
    BY <1>6 DEF Next, SystemStep, vars, run, EmitDone, FlushWindow, Execute, PublicationFails, Answer, Lose, Arrive,
                FlushTimeout, Subscribe, Ready, PassFence, Bootstrap, CheckFails, ContinueBootstrap, Replay,
                ReadCounter, ApplyCounter, ReadFails, CheckStored, Leave
  <2>3. emitted' < LastEvent => emitted' = emitted
    BY <1>1, <2>2
  <2> QED
    BY <1>3, <1>6, <2>1, <2>3 DEF FirstEarly
<1> QED
  BY <1>4, <1>5, <1>6, EarlyMoves

\* In the first attachment the fence opens once, at the end of its bootstrap.
\* cl, bt, b, hs, tn: the clients, the bootstraps, the buffer, hasSubscriber and
\* the attachment.
FirstOK(cl, bt, b, hs, tn) ==
  tn = 0 /\ In(cl) # {} /\ b.deferred = FALSE => hs = TRUE /\ \A c \in Clients : ~Busy(bt, c)

FirstInv == FirstOK(client, boot, buffer, attached, turn)

LEMMA LeavingKeepsFirst ==
  ASSUME NEW clients \in [Clients -> ClientStates], NEW b, NEW hs \in BOOLEAN, Left(clients, b, hs),
         turn \in Nat, FirstOK(clients, boot', b, hs, turn)
  PROVE  FirstInv'
<1>1. In(client') = {c \in In(clients) : ~Goes(clients[c])}
  BY LeftClients
<1>2. \/ turn' = turn + 1
      \/ buffer' = b /\ attached' = hs /\ turn' = turn
  BY LeftClients
<1>3. FirstOK(client', boot', buffer', attached', turn') => FirstInv'
  BY DEF FirstInv, FirstOK, Busy, In
<1>4. CASE turn' = turn + 1
  <2>1. turn' # 0
    BY <1>4
  <2>2. FirstOK(client', boot', buffer', attached', turn')
    BY <2>1 DEF FirstOK
  <2> QED
    BY <1>3, <2>2
<1>5. CASE buffer' = b /\ attached' = hs /\ turn' = turn
  <2>1. In(client') # {} => In(clients) # {}
    BY <1>1
  <2>2. FirstOK(client', boot', b, hs, turn)
    BY <2>1 DEF FirstOK
  <2>3. FirstOK(client', boot', buffer', attached', turn')
    BY <1>5, <2>2
  <2> QED
    BY <1>3, <2>3
<1> QED
  BY <1>2, <1>4, <1>5

LEMMA FirstStep == Resuming = {} /\ BaseInv /\ FenceInv /\ FirstInv /\ [Next]_vars => FirstInv'
<1> SUFFICES ASSUME Resuming = {}, BaseInv, FenceInv, FirstInv, [Next]_vars PROVE FirstInv'
  OBVIOUS
<1>1. /\ client \in [Clients -> ClientStates] /\ boot \in [Clients -> BootStates]
      /\ attached \in BOOLEAN /\ turn \in Nat /\ TRUE \in BOOLEAN
  BY DEF BaseInv, TypeOK
<1>2. /\ FirstOK(client, boot, buffer, attached, turn) /\ FenceOK(client, boot, buffer, attached, turn)
      /\ Subscribed = {} => attached = FALSE
  BY DEF FirstInv, FenceInv
<1>3. FirstOK(client', boot', buffer', attached', turn') => FirstInv'
  BY DEF FirstInv, FirstOK, Busy, In
<1>4. \A c \in Clients : Busy(boot, c) /\ turn = 0 => boot[c].turn = turn /\ attached = TRUE
  <2>1. \A c \in Clients : boot[c].turn \in Nat /\ boot[c].turn <= turn
    BY <1>1, <1>2 DEF BootStates, FenceOK
  <2> QED
    BY <1>1, <1>2, <2>1 DEF FenceOK
<1>5. ASSUME In(client') = {} \/ In(client) # {}, buffer'.deferred = buffer.deferred, attached' = attached, turn' = turn,
             \A c \in Clients : Busy(boot', c) => Busy(boot, c)
      PROVE  FirstInv'
  <2>1. FirstOK(client', boot', buffer', attached', turn')
    BY <1>2, <1>5 DEF FirstOK
  <2> QED
    BY <1>3, <2>1
<1>6. CASE Idle
  <2>1. In(client') = In(client)
    BY <1>6 DEF Idle
  <2> QED
    BY <1>5, <1>6, <2>1 DEF Idle
<1>7. CASE Arrival
  <2>1. PICK r : /\ Handles(buffer, r) /\ r.buffer.deferred = buffer.deferred
                 /\ Given(Handed(Subscribed, r.out), r.out)
                 /\ Left(Handed(Subscribed, r.out), r.buffer, attached)
                 /\ boot' = boot
    BY <1>7, Arrivals DEF Arrival
  <2> DEFINE clients == Handed(Subscribed, r.out)
  <2>2. r.out \in Seq(Events)
    BY <2>1 DEF Handles, Delivers
  <2>3. \A c \in Clients : clients[c].at = client[c].at
    BY <1>1, <2>2, HandedGives
  <2>4. clients \in [Clients -> ClientStates]
    BY <2>1 DEF Given
  <2> HIDE DEF clients
  <2>5. In(clients) = In(client)
    BY <2>3 DEF In
  <2>6. FirstOK(clients, boot', r.buffer, attached, turn)
    BY <1>2, <2>1, <2>5 DEF FirstOK
  <2> QED
    BY <1>1, <2>1, <2>4, <2>6, LeavingKeepsFirst DEF clients
<1>8. ASSUME NEW c \in Clients, Subscribe(c) PROVE FirstInv'
  <2>1. /\ client[c].at = "away"
        /\ buffer' = IF Subscribed = {} THEN NewBuffer(Defers(c)) ELSE buffer
        /\ attached' = attached /\ turn' = turn /\ boot' = boot
    BY <1>8 DEF Subscribe, runtime
  <2>2. CASE Subscribed = {}
    <3>1. Defers(c) = TRUE
      BY <1>2, <2>2 DEF Defers, Clients
    <3>2. buffer'.deferred = TRUE
      BY <2>1, <2>2, <3>1 DEF NewBuffer
    <3>3. FirstOK(client', boot', buffer', attached', turn')
      BY <3>2 DEF FirstOK
    <3> QED
      BY <1>3, <3>3
  <2>3. CASE Subscribed # {}
    BY <1>5, <2>1, <2>3 DEF Subscribed
  <2> QED
    BY <2>2, <2>3
<1>9. ASSUME NEW c \in Clients, Ready(c) PROVE FirstInv'
  <2>1. client[c].at = "reading" /\ c \in In(client)
    BY <1>9 DEF Ready, In
  <2>2. CASE attached = TRUE
    <3> DEFINE clients == InPlace(c, client)
    <3>1. Left(clients, buffer, TRUE) /\ boot' = boot
      BY <1>9, <2>2 DEF Ready
    <3>2. clients \in [Clients -> ClientStates]
      BY <1>1, InPlaceClients
    <3> HIDE DEF clients
    <3>3. FirstOK(clients, boot', buffer, TRUE, turn)
      BY <1>2, <2>1, <3>1 DEF FirstOK
    <3> QED
      BY <1>1, <3>1, <3>2, <3>3, LeavingKeepsFirst
  <2>3. CASE attached = FALSE
    <3> DEFINE clients == [client EXCEPT ![c].at = "booting"]
    <3>1. Left(clients, buffer, TRUE)
      BY <1>9, <2>3 DEF Ready
    <3>2. "booting" \in Places
      BY DEF Places
    <3>3. clients \in [Clients -> ClientStates]
      BY <1>1, <3>2, MovedClient
    <3> HIDE DEF clients
    <3>4. ~(turn = 0 /\ buffer.deferred = FALSE)
      BY <1>2, <2>1, <2>3 DEF FirstOK
    <3>5. FirstOK(clients, boot', buffer, TRUE, turn)
      BY <3>4 DEF FirstOK
    <3> QED
      BY <1>1, <3>1, <3>3, <3>5, LeavingKeepsFirst
  <2> QED
    BY <1>1, <2>2, <2>3
<1>10. ASSUME NEW c \in Clients, Replaying(c) PROVE FirstInv'
  <2>1. PICK frontier :
          /\ boot' = [boot EXCEPT ![c] = [boot[c] EXCEPT !.step = "read", !.frontier = frontier]]
          /\ \E out : Replayed(out)
          /\ boot[c].step \in {"check", "heir"}
          /\ UNCHANGED <<outside, run, buffer, overflowed, attached, turn, missing>>
    BY <1>10, Replays DEF Replaying
  <2>2. \A d \in Clients : client'[d].at = client[d].at
    BY <2>1 DEF Replayed
  <2>3. In(client') = In(client)
    BY <2>2 DEF In
  <2>4. \A d \in Clients : Busy(boot', d) => Busy(boot, d)
    BY <1>1, <2>1 DEF Busy
  <2> QED
    BY <1>5, <2>1, <2>3, <2>4
<1>11. ASSUME NEW c \in Clients, Proceeds(c) \/ Abandoned(c) \/ ReadCounter(c) PROVE FirstInv'
  <2>1. /\ UNCHANGED <<client, buffer, attached, turn>>
        /\ \A d \in Clients : d # c => boot'[d] = boot[d]
        /\ boot[c].step # "none"
    BY <1>1, <1>11 DEF Proceeds, Abandoned, ReadCounter, runtime
  <2>2. \A d \in Clients : Busy(boot', d) => Busy(boot, d)
    BY <2>1 DEF Busy
  <2>3. In(client') = In(client)
    BY <2>1
  <2> QED
    BY <1>5, <2>1, <2>2, <2>3
<1>12. ASSUME NEW c \in Clients, ApplyCounter(c) \/ ReadFails(c) PROVE FirstInv'
  <2>1. PICK r, clients :
           /\ Handles(buffer, r) /\ r.buffer.deferred = FALSE
           /\ buffer.deferred = TRUE => /\ boot[c].frontier <= r.buffer.next
                                        /\ \A i \in DOMAIN r.out : boot[c].frontier <= seqOf[r.out[i]]
           /\ Given(clients, r.out)
           /\ \A d \in Clients : clients[d].at = IF d = c /\ client[c].at = "booting" THEN "attached"
                                                 ELSE client[d].at
           /\ Left(clients, r.buffer, attached)
           /\ boot[c].step \in {"read", "apply"}
           /\ boot' = [boot EXCEPT ![c] = NoBoot] /\ early' = early /\ closed' = closed
           /\ missing' = missing /\ Resumes(c, r)
    BY <1>12, Synchronizing
  <2>2. \A d \in Clients : boot'[d] = IF d = c THEN NoBoot ELSE boot[d]
    BY <1>1, <2>1
  <2>3. NoBoot.step = "none"
    BY DEF NoBoot
  <2>4. clients \in [Clients -> ClientStates]
    BY <2>1 DEF Given
  <2>5. turn = 0 => \A d \in Clients : d # c => ~Busy(boot, d)
    <3>1. Busy(boot, c)
      BY <2>1 DEF Busy
    <3>2. \A d \in Clients : Busy(boot, d) /\ boot[d].turn = boot[c].turn => d = c
      BY <1>2, <3>1 DEF FenceOK
    <3> QED
      BY <1>4, <3>1, <3>2
  <2>6. turn = 0 => attached = TRUE
    BY <1>4, <2>1 DEF Busy
  <2>7. turn = 0 => \A d \in Clients : ~Busy(boot', d)
    BY <2>2, <2>3, <2>5 DEF Busy
  <2>8. FirstOK(clients, boot', r.buffer, attached, turn)
    BY <2>6, <2>7 DEF FirstOK
  <2> QED
    BY <1>1, <2>1, <2>4, <2>8, LeavingKeepsFirst
<1>13. ASSUME NEW c \in Clients, CheckStored(c) PROVE FirstInv'
  <2>1. Left(CheckedFor(c), buffer, attached) /\ boot' = boot
    BY <1>13 DEF CheckStored, CheckedFor
  <2>2. CheckedFor(c) \in [Clients -> ClientStates] /\ \A d \in Clients : CheckedFor(c)[d].at = client[d].at
    BY <1>1, CheckedClients
  <2>3. In(CheckedFor(c)) = In(client)
    BY <2>2 DEF In
  <2>4. FirstOK(CheckedFor(c), boot', buffer, attached, turn)
    BY <1>2, <2>1, <2>3 DEF FirstOK
  <2> QED
    BY <1>1, <2>1, <2>2, <2>4, LeavingKeepsFirst
<1>14. ASSUME NEW c \in Clients, Departs(c) PROVE FirstInv'
  <2> DEFINE clients == [client EXCEPT ![c].at = "left"]
  <2>1. Left(clients, buffer, attached) /\ c \in Subscribed
    BY <1>14 DEF Departs
  <2>2. "left" \in Places
    BY DEF Places
  <2>3. clients \in [Clients -> ClientStates]
    BY <1>1, <2>2, MovedClient
  <2> HIDE DEF clients
  <2>4. \A d \in Clients : Busy(boot', d) => Busy(boot, d)
    <3>1. NoBoot.step = "none"
      BY DEF NoBoot
    <3>2. PICK k \in BootStates : boot' = [boot EXCEPT ![c] = k] /\ (k.step # "none" => boot[c].step # "none")
      BY <1>1, <1>14, <3>1, Leavings
    <3>3. \A d \in Clients : boot'[d] = IF d = c THEN k ELSE boot[d]
      BY <1>1, <3>2
    <3> QED
      BY <3>2, <3>3 DEF Busy
  <2>5. In(client) # {}
    BY <2>1 DEF Subscribed
  <2>6. FirstOK(clients, boot', buffer, attached, turn)
    BY <1>2, <2>4, <2>5 DEF FirstOK
  <2> QED
    BY <1>1, <2>1, <2>3, <2>6, LeavingKeepsFirst
<1> QED
  BY <1>6, <1>7, <1>8, <1>9, <1>10, <1>11, <1>12, <1>13, <1>14, ClientSteps

\* What has a number below n was shown in v, or is gone.
Covers(v, num, seq, gone, n) == \A e \in num : seq[e] < n => e \in ToSet(v) \cup gone

\* There is no hole in v but for what is gone.
WholeView(v, gone) == \A f \in ToSet(v) \ {LastEvent} : \A e \in 1 .. f : e \in (ToSet(v) \ {LastEvent}) \cup gone

\* The frontier of a replay from the start passes exactly what was replayed.
LEMMA FrontierIsExact ==
  ASSUME BaseInv, early # <<>>, ToSet(early) \subseteq Numbered, \A i \in DOMAIN early : early[i] = i
  PROVE  /\ ReplayFrontier # NoFrontier
         /\ \A e \in Numbered : seqOf[e] < ReplayFrontier => e \in ToSet(early)
<1>1. /\ Counted /\ early \in Seq(Events) /\ LastEvent \in Nat
  BY BoundsAssumption DEF BaseInv, TypeOK, NumberInv
<1>2. /\ counter \in Nat /\ \A e \in Numbered : e \in Nat /\ seqOf[e] \in Nat /\ seqOf[e] < counter
      /\ \A e, f \in Numbered : e < f => seqOf[e] < seqOf[f]
  BY <1>1 DEF Counted, NumbersRise, Numbered, Events
<1>3. Numbers = {seqOf[e] : e \in ToSet(early)}
  BY DEF Numbers
<1>4. 1 \in DOMAIN early
  BY <1>1
<1>5. early[1] \in ToSet(early)
  BY <1>4 DEF ToSet
<1>6. Numbers # {} /\ Numbers \subseteq Nat /\ \A k \in Numbers : k < counter
  BY <1>2, <1>3, <1>5
<1>7. Greatest(Numbers) \in Numbers
  BY <1>2, <1>6, GreatestNumber
<1> DEFINE g == Greatest(Numbers)
<1>8. ReplayFrontier = g + 1 /\ g \in Nat
  BY <1>6, <1>7 DEF ReplayFrontier
<1>9. PICK f \in ToSet(early) : seqOf[f] = g
  BY <1>3, <1>7
<1> HIDE DEF g
<1>10. f \in DOMAIN early /\ f \in Numbered
  BY <1>9 DEF ToSet
<1>11. ASSUME NEW e \in Numbered, seqOf[e] < ReplayFrontier PROVE e \in ToSet(early)
  <2>1. seqOf[e] <= seqOf[f] /\ e \in Nat /\ f \in Nat
    BY <1>2, <1>8, <1>9, <1>10, <1>11
  <2>2. ~(f < e)
    BY <1>2, <1>10, <2>1
  <2>3. e \in 1 .. f
    BY <2>1, <2>2 DEF Numbered, Events
  <2>4. e \in DOMAIN early
    BY <1>1, <1>10, <2>3
  <2> QED
    BY <2>4 DEF ToSet
<1>12. ReplayFrontier # NoFrontier
  BY <1>8 DEF NoFrontier
<1> QED
  BY <1>11, <1>12

\* A client that has been shown exactly what has a number below n.
LEMMA CaughtUpIsWhole ==
  ASSUME BaseInv, WholeRun, NEW v \in Seq(Events), Sound(v, Numbered, answered), NEW n \in Int, NEW gone,
         Under(v, Numbered, seqOf, n), Covers(v, Numbered, seqOf, gone, n)
  PROVE  /\ WholeView(v, gone)
         /\ LastEvent \in ToSet(v) \cap Numbered => Events \subseteq ToSet(v) \cup gone
<1>1. /\ LastEvent \in Nat /\ LastEvent >= 2 /\ ToSet(v) \subseteq Events
      /\ \A e \in Numbered : seqOf[e] \in Nat /\ e \in Nat
  <2>1. ToSet(v) \subseteq Events
    BY DEF ToSet
  <2> QED
    BY <2>1, BoundsAssumption DEF BaseInv, NumberInv, Counted, NumbersRise, Numbered, Events
<1>2. Deltas(v) \subseteq Numbered \cup {LastEvent}
  BY DEF Sound, WholeRun
<1>3. ASSUME NEW f \in ToSet(v), f \in Numbered, f # Created, NEW e \in 1 .. f
      PROVE  e \in ToSet(v) \cup gone
  <2>1. f \in Deltas(v) \cap Numbered
    BY <1>3 DEF Deltas
  <2>2. seqOf[f] < n
    BY <2>1 DEF Under
  <2>3. e \in Numbered /\ seqOf[e] <= seqOf[f]
    BY <1>3, NumberedIsABeginning
  <2>4. seqOf[e] < n
    BY <1>1, <1>3, <2>2, <2>3
  <2> QED
    BY <2>3, <2>4 DEF Covers
<1>4. WholeView(v, gone)
  <2> SUFFICES ASSUME NEW f \in ToSet(v) \ {LastEvent}, NEW e \in 1 .. f
               PROVE  e \in (ToSet(v) \ {LastEvent}) \cup gone
    BY DEF WholeView
  <2>1. e # LastEvent
    BY <1>1 DEF Events
  <2>2. CASE f = Created
    BY <2>1, <2>2 DEF Created
  <2>3. CASE f # Created
    <3>1. f \in Numbered
      BY <1>2, <2>3 DEF Deltas
    <3> QED
      BY <1>3, <2>1, <2>3, <3>1
  <2> QED
    BY <2>2, <2>3
<1>5. ASSUME LastEvent \in ToSet(v) \cap Numbered PROVE Events \subseteq ToSet(v) \cup gone
  <2>1. LastEvent # Created
    BY <1>1 DEF Created
  <2> QED
    BY <1>3, <1>5, <2>1 DEF Events
<1> QED
  BY <1>4, <1>5

\* Whoever is handed what has a number from lo on is caught up with what follows.
LEMMA GivingCovers ==
  ASSUME NumbersRise, NEW c \in Initial, client[c].view \in Seq(Events), ~Closed(c),
         NEW lo \in Int, NEW hi \in Int, NEW out, Delivers(out, lo, hi), NEW gone, missing \subseteq gone,
         Covers(client[c].view, Numbered, seqOf, missing, lo),
         \A e \in Numbered : lo <= seqOf[e] /\ seqOf[e] < hi => e \in ToSet(out) \cup gone,
         NEW v, v = client[c].view \o Shown(c, out)
  PROVE  Covers(v, Numbered, seqOf, gone, hi)
<1>1. out \in Seq(Events)
  BY DEF Delivers
<1>2. ToSet(v) = ToSet(client[c].view) \cup ToSet(out)
  BY <1>1, ShownInFull
<1>3. \A e \in Numbered : seqOf[e] \in Nat
  BY DEF NumbersRise, Numbered
<1>4. ASSUME NEW e \in Numbered, seqOf[e] < hi PROVE e \in ToSet(v) \cup gone
  <2>1. CASE seqOf[e] < lo
    BY <1>2, <2>1 DEF Covers
  <2>2. CASE lo <= seqOf[e]
    BY <1>2, <1>4, <2>2
  <2> QED
    BY <1>3, <2>1, <2>2
<1> QED
  BY <1>4 DEF Covers

LEMMA FilledCovers ==
  ASSUME NumbersRise, NEW out, NEW lo \in Int, NEW hi \in Int, NEW from \in Int, Delivers(out, from, hi),
         Fills(out, lo, hi)
  PROVE  \A e \in Numbered : lo <= seqOf[e] /\ seqOf[e] < hi => e \in ToSet(out)
<1> SUFFICES ASSUME NEW e \in Numbered, lo <= seqOf[e], seqOf[e] < hi PROVE e \in ToSet(out)
  OBVIOUS
<1>1. /\ \A f \in Numbered : seqOf[f] \in Nat /\ f \in Nat
      /\ \A f, g \in Numbered : f < g => seqOf[f] < seqOf[g]
  BY BoundsAssumption DEF NumbersRise, Numbered, Events
<1>2. seqOf[e] \in lo .. (hi - 1)
  BY <1>1
<1>3. PICK f \in ToSet(out) : seqOf[f] = seqOf[e]
  BY <1>2 DEF Fills
<1>4. f \in Numbered
  BY DeliveredRises
<1>5. ~(f < e) /\ ~(e < f)
  BY <1>1, <1>3, <1>4
<1>6. f = e
  BY <1>1, <1>4, <1>5
<1> QED
  BY <1>6

\* A client has been shown what has a number below n, and nothing from n on.
CaughtUp(v, num, ans, seq, gone, n) == Sound(v, num, ans) /\ Under(v, num, seq, n) /\ Covers(v, num, seq, gone, n)

LEMMA CatchingUp ==
  ASSUME BaseInv, NEW c \in Initial, ~Closed(c),
         NEW lo \in Int, NEW hi \in Int, lo <= hi, NEW out, Delivers(out, lo, hi), NEW gone, missing \subseteq gone,
         CaughtUp(client[c].view, Numbered, answered, seqOf, missing, lo),
         \A e \in Numbered : lo <= seqOf[e] /\ seqOf[e] < hi => e \in ToSet(out) \cup gone,
         NEW v, v = client[c].view \o Shown(c, out)
  PROVE  CaughtUp(v, Numbered, answered, seqOf, gone, hi)
<1>1. /\ Counted /\ NumbersRise /\ c \in Clients /\ client[c].view \in Seq(Events) /\ answered \subseteq Events
  BY ClientFields DEF BaseInv, TypeOK, NumberInv, Counted, Clients
<1>2. Sound(v, Numbered, answered) /\ Under(v, Numbered, seqOf, hi)
  BY <1>1, ShowingInOrder DEF CaughtUp
<1>3. Covers(v, Numbered, seqOf, gone, hi)
  BY <1>1, GivingCovers DEF CaughtUp
<1> QED
  BY <1>2, <1>3 DEF CaughtUp

\* What a step that gives out of the buffer does to the clients; those of the
\* first attachment are caught up, unless the fence still holds everything back.
Hands(c, x, r) ==
  /\ x.served = client[c].served /\ x.checked = client[c].checked
  /\ client[c].told = TRUE => x.told = TRUE
  /\ x.at = "away" => client[c].at = "away"
  /\ x.at \in {"reading", "booting", "attached"} => c \in In(client)
  /\ x.view = client[c].view \/ (c \in In(client) /\ ~Closed(c))
  /\ ToSet(client[c].view) \subseteq ToSet(x.view) /\ ToSet(x.view) \subseteq ToSet(client[c].view) \cup Numbered
  /\ c \in In(client) /\ ~Closed(c) /\ client[c].served = 0 =>
       \/ /\ r.buffer.deferred = FALSE
          /\ CaughtUp(x.view, Numbered, answered, seqOf, missing', r.buffer.next) /\ x.view \in Seq(Events)
       \/ r.buffer.deferred = TRUE /\ buffer.deferred = TRUE /\ boot' = boot /\ x.view = client[c].view

Gives(clients, r) ==
  /\ clients \in [Clients -> ClientStates] /\ Left(clients, r.buffer, attached)
  /\ r.buffer.next \in Nat /\ seqOf' = seqOf
  /\ \A c \in Clients : Hands(c, clients[c], r)

LEMMA Handing ==
  ASSUME BaseInv, NEW c \in Clients, NEW clients, NEW out, NEW lo \in Int, NEW hi \in Int, Delivers(out, lo, hi),
         Given(clients, out)
  PROVE  /\ clients[c].view = client[c].view \/ (c \in In(client) /\ ~Closed(c))
         /\ c \in In(client) => clients[c].view = client[c].view \o Shown(c, out)
         /\ ToSet(client[c].view) \subseteq ToSet(clients[c].view)
         /\ ToSet(clients[c].view) \subseteq ToSet(client[c].view) \cup Numbered
<1> DEFINE k == client[c].view
           w == Shown(c, out)
           x == clients[c].view
<1>1. Subscribed = In(client) /\ out \in Seq(Events) /\ ToSet(out) \subseteq Numbered /\ k \in Seq(Events)
  <2>1. NumbersRise /\ client[c] \in ClientStates
    BY DEF BaseInv, TypeOK, NumberInv, Counted
  <2> QED
    BY <2>1, ClientFields, DeliveredRises DEF Subscribed
<1>2. c \notin In(client) => x = k
  BY <1>1 DEF Given
<1>3. c \in In(client) => x = k \o w
  BY <1>1 DEF Given
<1>4. w \in Seq(Events) /\ PartOf(w, out) /\ (Closed(c) => w = <<>>)
  BY <1>1, ShownIsPart
<1>5. ToSet(w) \subseteq Numbered
  BY <1>1, <1>4 DEF PartOf, ToSet
<1> HIDE DEF k, w, x
<1>6. c \in In(client) => ToSet(x) = ToSet(k) \cup ToSet(w)
  BY <1>1, <1>3, <1>4, Joined
<1>7. ToSet(k) \subseteq ToSet(x) /\ ToSet(x) \subseteq ToSet(k) \cup Numbered
  BY <1>2, <1>5, <1>6
<1>8. c \in In(client) /\ Closed(c) => x = k
  BY <1>1, <1>3, <1>4, ConcatEmptySeq
<1> QED
  BY <1>2, <1>3, <1>7, <1>8 DEF k, w, x

\* A client of the first attachment has everything up to where the buffer goes
\* on, or, before the fence opens, up to the frontier of the replay it was given.
Complete(v, bt, b, tn, num, seq, gone) ==
  /\ tn = 0
  /\ b.deferred = FALSE => Covers(v, num, seq, gone, b.next)
  /\ b.deferred = TRUE =>
       \E d \in Clients : /\ Reads(bt, d) /\ bt[d].frontier # NoFrontier
                          /\ Covers(v, num, seq, gone, bt[d].frontier)

WholeOK(cl, bt, b, tn, num, seq, gone) ==
  \A c \in Clients :
    /\ cl[c].served = 0 => WholeView(cl[c].view, gone)
    /\ cl[c].at = "away" => cl[c].served = -1
    /\ c \in In(cl) /\ cl[c].served = 0 /\ ~Over(cl[c]) => Complete(cl[c].view, bt, b, tn, num, seq, gone)

WholeInv == WholeOK(client, boot, buffer, turn, Numbered, seqOf, missing)

\* No bootstrap outlives its attachment during the first one.
LateInv == turn = 0 => outlived = FALSE

\* All that the proof of WholeInv rests on.
Grounds ==
  /\ BaseInv /\ FenceInv /\ EarlyInv /\ HeldInv /\ ReachInv /\ WholeRun /\ FirstEarly /\ FirstInv
  /\ LateInv /\ (turn = 0 => OrderInv)

LEMMA TurnRises ==
  ASSUME BaseInv, [Next]_vars
  PROVE  turn \in Nat /\ (turn' = turn \/ turn' = turn + 1)
BY SubscriberStays DEF BaseInv, TypeOK

LEMMA LateStep == BaseInv /\ FenceInv /\ LateInv /\ [Next]_vars => LateInv'
<1> SUFFICES ASSUME BaseInv, FenceInv, LateInv, [Next]_vars, turn' = 0 PROVE outlived' = FALSE
  BY DEF LateInv
<1>1. turn \in Nat /\ \A c \in Clients : boot[c].turn \in Nat /\ boot[c].turn <= turn
  BY DEF BaseInv, TypeOK, BootStates, FenceInv, FenceOK
<1>2. turn = 0
  BY TurnRises
<1>3. \A c \in Clients : boot[c].turn = turn
  BY <1>1, <1>2
<1>4. outlived = FALSE
  BY <1>2 DEF LateInv
<1>5. outlived' = outlived \/ \E c \in Clients : Bootstrap(c)
  BY LateMoves
<1>6. ASSUME NEW c \in Clients, Bootstrap(c) PROVE outlived' = FALSE
  BY <1>3, <1>4, <1>6 DEF Bootstrap
<1> QED
  BY <1>4, <1>5, <1>6

LEMMA ArrivalGives ==
  ASSUME Resuming = {}, Grounds, WholeInv, Arrival
  PROVE  \E clients, r : Gives(clients, r)
<1>1. /\ client \in [Clients -> ClientStates] /\ BaseInv /\ buffer.next \in Nat /\ buffer.deferred \in BOOLEAN
      /\ Subscribed = In(client) /\ Initial = Clients /\ NumbersRise
  BY DEF Grounds, BaseInv, TypeOK, Subscribed, Clients, NumberInv, Counted
<1>2. PICK r : /\ Handles(buffer, r) /\ r.buffer.deferred = buffer.deferred
               /\ buffer.deferred = TRUE => r.out = <<>>
               /\ Given(Handed(Subscribed, r.out), r.out)
               /\ Left(Handed(Subscribed, r.out), r.buffer, attached)
               /\ boot' = boot /\ early' = early /\ closed' = closed
               /\ buffer.next <= counter => r.buffer.next <= counter
               /\ missing' = missing \cup Skipped(r.buffer.next, r.out)
  BY <1>1, Arrivals DEF Arrival
<1> DEFINE given == r.out
           clients == Handed(Subscribed, given)
           hi == r.buffer.next
<1>3. seqOf' = seqOf
  BY DEF Arrival, FlushTimeout, Arrive, outside
<1>4. /\ given \in Seq(Events) /\ Delivers(given, buffer.next, hi)
      /\ buffer.next <= hi /\ hi \in Nat
  BY <1>2 DEF Handles, Delivers, Waits, Buffers
<1>5. /\ Given(clients, given) /\ Left(clients, r.buffer, attached)
      /\ missing' = missing \cup Skipped(hi, given) /\ (buffer.deferred = TRUE => given = <<>>)
  BY <1>2
<1> HIDE DEF given
<1>6. \A c \in Clients : clients[c].at = client[c].at
  BY <1>1, <1>4, HandedGives
<1> HIDE DEF clients, hi
<1>7. ASSUME NEW e \in Numbered, buffer.next <= seqOf[e], seqOf[e] < hi PROVE e \in ToSet(given) \cup missing'
  <2>1. seqOf[e] \in Nat
    BY <1>1 DEF NumbersRise, Numbered
  <2> QED
    BY <1>1, <1>4, <1>5, <1>7, <2>1 DEF Skipped, Numbered
<1>8. ASSUME NEW c \in Clients PROVE Hands(c, clients[c], r)
  <2>1. /\ clients[c].view = client[c].view \/ (c \in In(client) /\ ~Closed(c))
        /\ c \in In(client) => clients[c].view = client[c].view \o Shown(c, given)
        /\ ToSet(client[c].view) \subseteq ToSet(clients[c].view)
        /\ ToSet(clients[c].view) \subseteq ToSet(client[c].view) \cup Numbered
    <3> DEFINE from == buffer.next
    <3>1. from \in Int /\ hi \in Int /\ Delivers(given, from, hi)
      BY <1>1, <1>4
    <3> HIDE DEF from
    <3> QED
      BY <1>1, <1>5, <3>1, Handing
  <2>2. /\ clients[c].served = client[c].served /\ clients[c].checked = client[c].checked
        /\ client[c].told = TRUE => clients[c].told = TRUE
        /\ clients[c] \in ClientStates
    BY <1>5 DEF Given
  <2>3. ASSUME c \in In(client), ~Closed(c), client[c].served = 0, buffer.deferred = FALSE
        PROVE  CaughtUp(clients[c].view, Numbered, answered, seqOf, missing', hi)
    <3>1. Complete(client[c].view, boot, buffer, turn, Numbered, seqOf, missing)
      BY <2>3 DEF WholeInv, WholeOK, Closed
    <3>2. Sound(client[c].view, Numbered, answered) /\ Ahead(client[c].view, boot, buffer, turn, Numbered, seqOf)
      <4>1. OrderInv
        BY <3>1 DEF Complete, Grounds
      <4> QED
        BY <2>3, <4>1 DEF OrderInv, OrderOK, Closed
    <3>3. CaughtUp(client[c].view, Numbered, answered, seqOf, missing, buffer.next)
      BY <2>3, <3>1, <3>2 DEF CaughtUp, Complete, Ahead
    <3> DEFINE v == clients[c].view
               gone == missing'
               lo == buffer.next
    <3>4. /\ v = client[c].view \o Shown(c, given) /\ missing \subseteq gone /\ c \in Initial
          /\ \A e \in Numbered : lo <= seqOf[e] /\ seqOf[e] < hi => e \in ToSet(given) \cup gone
      BY <1>1, <1>5, <1>7, <2>1, <2>3
    <3>5. lo \in Int /\ hi \in Int /\ lo <= hi /\ Delivers(given, lo, hi)
      BY <1>1, <1>4
    <3>6. CaughtUp(client[c].view, Numbered, answered, seqOf, missing, lo)
      BY <3>3
    <3> HIDE DEF v, gone, lo
    <3>7. CaughtUp(v, Numbered, answered, seqOf, gone, hi)
      BY <1>1, <2>3, <3>4, <3>5, <3>6, CatchingUp
    <3> QED
      BY <3>7 DEF v, gone
  <2>4. buffer.deferred = TRUE => clients[c].view = client[c].view
    <3>1. Shown(c, <<>>) = <<>> /\ client[c].view \in Seq(Events)
      BY <1>1, NothingShown, ClientFields
    <3> QED
      BY <1>5, <2>1, <3>1, ConcatEmptySeq
  <2>5. c \in In(client) /\ ~Closed(c) /\ client[c].served = 0 =>
           \/ /\ r.buffer.deferred = FALSE
              /\ CaughtUp(clients[c].view, Numbered, answered, seqOf, missing', r.buffer.next)
              /\ clients[c].view \in Seq(Events)
           \/ r.buffer.deferred = TRUE /\ buffer.deferred = TRUE /\ boot' = boot /\ clients[c].view = client[c].view
    <3>1. clients[c].view \in Seq(Events)
      BY <2>2, ClientFields
    <3> QED
      BY <1>1, <1>2, <2>3, <2>4, <3>1 DEF hi
  <2>6. clients[c].at = client[c].at
    BY <1>6
  <2> QED
    BY <2>1, <2>2, <2>5, <2>6 DEF Hands, In
<1>9. Gives(clients, r)
  BY <1>3, <1>4, <1>5, <1>8 DEF Gives, Given, hi
<1> QED
  BY <1>9

LEMMA SynchronizingGives ==
  ASSUME Resuming = {}, Grounds, WholeInv, NEW b \in Clients, ApplyCounter(b) \/ ReadFails(b)
  PROVE  \E clients, r : Gives(clients, r)
<1>1. /\ client \in [Clients -> ClientStates] /\ boot \in [Clients -> BootStates] /\ turn \in Nat /\ BaseInv
      /\ buffer.next \in Nat /\ buffer.deferred \in BOOLEAN /\ counter \in Nat
      /\ Subscribed = In(client) /\ Initial = Clients /\ NumbersRise
  BY DEF Grounds, BaseInv, TypeOK, Subscribed, Clients, NumberInv, Counted
<1>2. PICK r, clients :
         /\ Handles(buffer, r) /\ r.buffer.deferred = FALSE
         /\ buffer.deferred = TRUE => /\ boot[b].frontier <= r.buffer.next
                                      /\ \A i \in DOMAIN r.out : boot[b].frontier <= seqOf[r.out[i]]
         /\ Given(clients, r.out)
         /\ \A d \in Clients : clients[d].at = IF d = b /\ client[b].at = "booting" THEN "attached"
                                               ELSE client[d].at
         /\ Left(clients, r.buffer, attached)
         /\ boot[b].step \in {"read", "apply"}
         /\ boot' = [boot EXCEPT ![b] = NoBoot] /\ early' = early /\ closed' = closed
         /\ missing' = missing /\ Resumes(b, r)
  BY <1>1, Synchronizing
<1> DEFINE given == r.out
           hi == r.buffer.next
           lo == boot[b].frontier
<1>3. seqOf' = seqOf
  BY DEF ApplyCounter, ReadFails, outside
<1>4. /\ given \in Seq(Events) /\ Delivers(given, buffer.next, hi)
      /\ hi \in Nat /\ lo \in Int
  BY <1>1, <1>2 DEF Handles, Delivers, Waits, Buffers, BootStates
<1>5. /\ Given(clients, given) /\ Left(clients, r.buffer, attached) /\ missing' = missing
      /\ buffer.deferred = TRUE => lo <= hi /\ \A i \in DOMAIN given : lo <= seqOf[given[i]]
  BY <1>2
<1>6. buffer.deferred = TRUE /\ lo # NoFrontier => Fills(given, lo, hi)
  <2>1. buffer.next <= counter /\ boot[b].frontier <= counter /\ boot[b].counter <= counter
    BY DEF Grounds, ReachInv, ReachOK
  <2> QED
    BY <1>2, <2>1 DEF Resumes
<1>7. Reads(boot, b) /\ Busy(boot, b)
  BY <1>2 DEF Reads, Busy
<1> HIDE DEF given, hi, lo
<1>8. ASSUME NEW c \in Clients PROVE Hands(c, clients[c], r)
  <2>1. /\ clients[c].view = client[c].view \/ (c \in In(client) /\ ~Closed(c))
        /\ c \in In(client) => clients[c].view = client[c].view \o Shown(c, given)
        /\ ToSet(client[c].view) \subseteq ToSet(clients[c].view)
        /\ ToSet(clients[c].view) \subseteq ToSet(client[c].view) \cup Numbered
    <3> DEFINE from == buffer.next
    <3>1. from \in Int /\ hi \in Int /\ Delivers(given, from, hi)
      BY <1>1, <1>4
    <3> HIDE DEF from
    <3> QED
      BY <1>1, <1>5, <3>1, Handing
  <2>2. /\ clients[c].served = client[c].served /\ clients[c].checked = client[c].checked
        /\ client[c].told = TRUE => clients[c].told = TRUE
        /\ clients[c] \in ClientStates
    BY <1>5 DEF Given
  <2>3. ASSUME c \in In(client), ~Closed(c), client[c].served = 0
        PROVE  CaughtUp(clients[c].view, Numbered, answered, seqOf, missing', hi)
    <3>1. Complete(client[c].view, boot, buffer, turn, Numbered, seqOf, missing)
      BY <2>3 DEF WholeInv, WholeOK, Closed
    <3>2. Sound(client[c].view, Numbered, answered) /\ Ahead(client[c].view, boot, buffer, turn, Numbered, seqOf)
      <4>1. OrderInv
        BY <3>1 DEF Complete, Grounds
      <4> QED
        BY <2>3, <4>1 DEF OrderInv, OrderOK, Closed
    <3>3. turn = 0 /\ buffer.deferred = TRUE
      <4>1. turn = 0 /\ In(client) # {}
        BY <2>3, <3>1 DEF Complete
      <4> QED
        BY <1>1, <1>7, <4>1 DEF Grounds, FirstInv, FirstOK
    <3>4. PICK d \in Clients : /\ Reads(boot, d) /\ boot[d].frontier # NoFrontier
                               /\ Covers(client[c].view, Numbered, seqOf, missing, boot[d].frontier)
      BY <3>1, <3>3 DEF Complete
    <3>5. d = b
      <4>1. boot[d].turn \in Nat /\ boot[b].turn \in Nat /\ boot[d].turn <= turn /\ boot[b].turn <= turn
        BY <1>1 DEF BootStates, Grounds, FenceInv, FenceOK
      <4>2. boot[d].turn = boot[b].turn
        BY <3>3, <4>1
      <4>3. Busy(boot, d)
        BY <3>4 DEF Busy, Reads
      <4> QED
        BY <1>7, <4>2, <4>3 DEF Grounds, FenceInv, FenceOK
    <3>6. CaughtUp(client[c].view, Numbered, answered, seqOf, missing, lo) /\ lo # NoFrontier
      BY <1>7, <3>2, <3>3, <3>4, <3>5 DEF CaughtUp, Ahead, lo
    <3>7. Delivers(given, lo, hi)
      BY <1>4, <1>5, <3>3 DEF Delivers
    <3>8. Fills(given, lo, hi) /\ lo <= hi
      BY <1>5, <1>6, <3>3, <3>6
    <3>9. \A e \in Numbered : lo <= seqOf[e] /\ seqOf[e] < hi => e \in ToSet(given)
      BY <1>1, <1>4, <3>7, <3>8, FilledCovers
    <3> DEFINE v == clients[c].view
               gone == missing'
    <3>10. /\ v = client[c].view \o Shown(c, given) /\ missing \subseteq gone /\ c \in Initial
           /\ \A e \in Numbered : lo <= seqOf[e] /\ seqOf[e] < hi => e \in ToSet(given) \cup gone
      BY <1>1, <1>5, <2>1, <2>3, <3>9
    <3>11. hi \in Int
      BY <1>4
    <3> HIDE DEF v, gone
    <3>12. CaughtUp(v, Numbered, answered, seqOf, gone, hi)
      BY <1>1, <1>4, <2>3, <3>6, <3>7, <3>8, <3>10, <3>11, CatchingUp
    <3> QED
      BY <3>12 DEF v, gone
  <2>4. c \in In(client) /\ ~Closed(c) /\ client[c].served = 0 =>
           /\ r.buffer.deferred = FALSE
           /\ CaughtUp(clients[c].view, Numbered, answered, seqOf, missing', r.buffer.next)
           /\ clients[c].view \in Seq(Events)
    <3>1. clients[c].view \in Seq(Events)
      BY <2>2, ClientFields
    <3> QED
      BY <1>2, <2>3, <3>1 DEF hi
  <2>5. /\ clients[c].at = "away" => client[c].at = "away"
        /\ clients[c].at \in {"reading", "booting", "attached"} => client[c].at \in {"reading", "booting", "attached"}
    BY <1>2
  <2> QED
    BY <2>1, <2>2, <2>4, <2>5 DEF Hands, In
<1>9. Gives(clients, r)
  BY <1>3, <1>4, <1>5, <1>8 DEF Gives, Given, hi
<1> QED
  BY <1>9

\* A new number is not below what was reached before.
LEMMA CoversStay ==
  ASSUME BaseInv, [Next]_vars, NEW v, NEW n \in Int, n <= counter, Covers(v, Numbered, seqOf, missing, n)
  PROVE  Covers(v, Numbered', seqOf', missing', n)
<1> SUFFICES ASSUME NEW e \in Numbered', seqOf'[e] < n PROVE e \in ToSet(v) \cup missing'
  BY DEF Covers
<1>1. counter \in Nat /\ missing \subseteq missing'
  BY MissingStays DEF BaseInv, TypeOK
<1>2. CASE e \in Numbered
  <2>1. seqOf[e] < n
    BY <1>2, NumbersStay
  <2> QED
    BY <1>1, <1>2, <2>1 DEF Covers
<1>3. CASE e \notin Numbered
  <2>1. seqOf'[e] = counter
    BY <1>3, NewNumbers
  <2> QED
    BY <1>1, <2>1
<1> QED
  BY <1>2, <1>3

LEMMA CompleteStays ==
  ASSUME Grounds, [Next]_vars, NEW v, Complete(v, boot, buffer, turn, Numbered, seqOf, missing)
  PROVE  Complete(v, boot, buffer, turn, Numbered', seqOf', missing')
<1>1. /\ BaseInv /\ buffer.next \in Int /\ buffer.next <= counter
      /\ \A d \in Clients : boot[d].frontier \in Int /\ boot[d].frontier <= counter
  BY DEF Grounds, BaseInv, TypeOK, BootStates, ReachInv, ReachOK
<1>2. turn = 0
  BY DEF Complete
<1>3. buffer.deferred = FALSE => Covers(v, Numbered', seqOf', missing', buffer.next)
  <2> DEFINE n == buffer.next
  <2>1. n \in Int /\ n <= counter
    BY <1>1
  <2>2. buffer.deferred = FALSE => Covers(v, Numbered, seqOf, missing, n)
    BY DEF Complete
  <2> HIDE DEF n
  <2>3. buffer.deferred = FALSE => Covers(v, Numbered', seqOf', missing', n)
    BY <1>1, <2>1, <2>2, CoversStay
  <2> QED
    BY <2>3 DEF n
<1>4. ASSUME buffer.deferred = TRUE
      PROVE  \E d \in Clients : /\ Reads(boot, d) /\ boot[d].frontier # NoFrontier
                                /\ Covers(v, Numbered', seqOf', missing', boot[d].frontier)
  <2>1. PICK d \in Clients : /\ Reads(boot, d) /\ boot[d].frontier # NoFrontier
                             /\ Covers(v, Numbered, seqOf, missing, boot[d].frontier)
    BY <1>4 DEF Complete
  <2> DEFINE n == boot[d].frontier
  <2>2. n \in Int /\ n <= counter /\ Covers(v, Numbered, seqOf, missing, n)
    BY <1>1, <2>1
  <2> HIDE DEF n
  <2>3. Covers(v, Numbered', seqOf', missing', n)
    BY <1>1, <2>2, CoversStay
  <2> QED
    BY <2>1, <2>3 DEF n
<1> QED
  BY <1>2, <1>3, <1>4 DEF Complete

LEMMA WholeStays ==
  ASSUME [Next]_vars, NEW v, WholeView(v, missing)
  PROVE  WholeView(v, missing')
BY MissingStays DEF WholeView

LEMMA LeavingKeepsWhole ==
  ASSUME NEW clients \in [Clients -> ClientStates], NEW b, NEW hs \in BOOLEAN, Left(clients, b, hs),
         NEW num, NEW seq, NEW gone, WholeOK(clients, boot', b, turn, num, seq, gone)
  PROVE  WholeOK(client', boot', buffer', turn', num, seq, gone)
<1>1. \A c \in Clients : /\ client'[c].view = clients[c].view /\ client'[c].told = clients[c].told
                         /\ client'[c].served = clients[c].served
                         /\ client'[c].at = "left" \/ client'[c].at = clients[c].at
  BY LeftClients
<1>2. /\ In(client') \subseteq In(clients)
      /\ \/ In(client') = {}
         \/ buffer' = b /\ turn' = turn
  BY LeftClients
<1>3. ASSUME NEW c \in Clients
      PROVE  /\ client'[c].served = 0 => WholeView(client'[c].view, gone)
             /\ client'[c].at = "away" => client'[c].served = -1
  BY <1>1 DEF WholeOK
<1>4. ASSUME NEW c \in Clients, c \in In(client'), client'[c].served = 0, ~Over(client'[c])
      PROVE  Complete(client'[c].view, boot', buffer', turn', num, seq, gone)
  <2>1. c \in In(clients) /\ buffer' = b /\ turn' = turn
    BY <1>2, <1>4
  <2>2. clients[c].served = 0 /\ ~Over(clients[c])
    BY <1>1, <1>4 DEF Over
  <2>3. Complete(clients[c].view, boot', b, turn, num, seq, gone)
    BY <2>1, <2>2 DEF WholeOK
  <2> QED
    BY <1>1, <2>1, <2>3
<1> QED
  BY <1>3, <1>4 DEF WholeOK

\* A step that gives keeps the first attachment whole.
LEMMA GivingIsWhole ==
  ASSUME Grounds, WholeInv, [Next]_vars, NEW clients, NEW r, Gives(clients, r)
  PROVE  WholeOK(client', boot', buffer', turn', Numbered, seqOf, missing')
<1>1. /\ client \in [Clients -> ClientStates] /\ clients \in [Clients -> ClientStates]
      /\ Left(clients, r.buffer, attached) /\ attached \in BOOLEAN /\ BaseInv /\ WholeRun
      /\ r.buffer.next \in Nat
  BY DEF Gives, Grounds, BaseInv, TypeOK
<1>2. ASSUME NEW c \in Clients, clients[c].served = 0 PROVE WholeView(clients[c].view, missing')
  <2>1. Hands(c, clients[c], r)
    BY DEF Gives
  <2>2. client[c].served = 0
    BY <1>2, <2>1 DEF Hands
  <2>3. CASE clients[c].view = client[c].view
    <3>1. WholeView(client[c].view, missing)
      BY <2>2 DEF WholeInv, WholeOK
    <3> QED
      BY <2>3, <3>1, WholeStays
  <2>4. CASE clients[c].view # client[c].view
    <3> DEFINE v == clients[c].view
               n == r.buffer.next
               gone == missing'
    <3>1. v \in Seq(Events) /\ CaughtUp(v, Numbered, answered, seqOf, gone, n) /\ n \in Int
      BY <1>1, <2>1, <2>2, <2>4 DEF Hands
    <3> HIDE DEF v, n, gone
    <3>2. WholeView(v, gone)
      BY <1>1, <3>1, CaughtUpIsWhole DEF CaughtUp
    <3> QED
      BY <3>2 DEF v, gone
  <2> QED
    BY <2>3, <2>4
<1>3. ASSUME NEW c \in Clients, c \in In(clients), clients[c].served = 0, ~Over(clients[c])
      PROVE  Complete(clients[c].view, boot', r.buffer, turn, Numbered, seqOf, missing')
  <2>1. Hands(c, clients[c], r)
    BY DEF Gives
  <2>2. client[c].served = 0 /\ c \in In(client)
    BY <1>3, <2>1 DEF Hands, In
  <2>3. ~Over(client[c])
    BY <1>1, <1>3, <2>1, OverGrows DEF Hands
  <2>4. Complete(client[c].view, boot, buffer, turn, Numbered, seqOf, missing)
    BY <2>2, <2>3 DEF WholeInv, WholeOK
  <2>5. turn = 0
    BY <2>4 DEF Complete
  <2>6. CASE /\ r.buffer.deferred = FALSE
             /\ CaughtUp(clients[c].view, Numbered, answered, seqOf, missing', r.buffer.next)
    BY <2>5, <2>6 DEF Complete, CaughtUp
  <2>7. CASE r.buffer.deferred = TRUE /\ buffer.deferred = TRUE /\ boot' = boot /\ clients[c].view = client[c].view
    <3>1. Complete(client[c].view, boot, buffer, turn, Numbered', seqOf', missing')
      BY <2>4, CompleteStays
    <3>2. seqOf' = seqOf /\ Numbered' = Numbered
      BY DEF Gives, Numbered
    <3> QED
      BY <2>5, <2>7, <3>1, <3>2 DEF Complete
  <2> QED
    BY <2>1, <2>2, <2>3, <2>6, <2>7 DEF Hands, Closed
<1>4. \A c \in Clients : clients[c].at = "away" => clients[c].served = -1
  BY DEF Gives, Hands, WholeInv, WholeOK
<1>5. WholeOK(clients, boot', r.buffer, turn, Numbered, seqOf, missing')
  BY <1>2, <1>3, <1>4 DEF WholeOK
<1> DEFINE gone == missing'
           b == r.buffer
<1>6. WholeOK(clients, boot', b, turn, Numbered, seqOf, gone) /\ Left(clients, b, attached)
  BY <1>1, <1>5
<1> HIDE DEF gone, b
<1>7. WholeOK(client', boot', buffer', turn', Numbered, seqOf, gone)
  BY <1>1, <1>6, LeavingKeepsWhole
<1> QED
  BY <1>7 DEF gone

\* The bootstrap of the first attachment: once a client of it is subscribed and
\* not closed, it is the only one, and it is past the replay.
LEMMA FirstBootstrap ==
  ASSUME Grounds, WholeInv, NEW d \in Clients, d \in In(client), client[d].served = 0, ~Over(client[d])
  PROVE  /\ Complete(client[d].view, boot, buffer, turn, Numbered, seqOf, missing) /\ turn = 0
         /\ \A c \in Clients : Busy(boot, c) => Reads(boot, c) /\ boot[c].turn = turn
         /\ attached = TRUE
<1>1. Complete(client[d].view, boot, buffer, turn, Numbered, seqOf, missing) /\ turn = 0
  BY DEF WholeInv, WholeOK, Complete
<1>2. buffer.deferred \in BOOLEAN /\ In(client) # {}
  BY DEF Grounds, BaseInv, TypeOK
<1>3. \A c \in Clients : boot[c].turn = turn
  <2>1. \A c \in Clients : boot[c].turn \in Nat /\ boot[c].turn <= turn
    BY DEF Grounds, BaseInv, TypeOK, BootStates, FenceInv, FenceOK
  <2> QED
    BY <1>1, <2>1
<1>4. CASE buffer.deferred = FALSE
  BY <1>1, <1>2, <1>3, <1>4 DEF Grounds, FirstInv, FirstOK
<1>5. CASE buffer.deferred = TRUE
  <2>1. PICK e \in Clients : Reads(boot, e)
    BY <1>1, <1>5 DEF Complete
  <2>2. Busy(boot, e)
    BY <2>1 DEF Busy, Reads
  <2>3. attached = TRUE /\ \A c \in Clients : Busy(boot, c) => c = e
    BY <1>3, <2>2 DEF Grounds, FenceInv, FenceOK
  <2> QED
    BY <1>1, <1>3, <2>1, <2>3
<1> QED
  BY <1>2, <1>4, <1>5

LEMMA WholeStep == Resuming = {} /\ Grounds /\ WholeInv /\ [Next]_vars => WholeInv'
<1> SUFFICES ASSUME Resuming = {}, Grounds, WholeInv, [Next]_vars PROVE WholeInv'
  OBVIOUS
<1>1. /\ client \in [Clients -> ClientStates] /\ boot \in [Clients -> BootStates] /\ turn \in Nat
      /\ attached \in BOOLEAN /\ TRUE \in BOOLEAN /\ BaseInv
      /\ Subscribed = In(client) /\ Initial = Clients /\ In(client) \subseteq Clients
  BY DEF Grounds, BaseInv, TypeOK, Subscribed, Clients, In
<1>2. WholeOK(client', boot', buffer', turn', Numbered', seqOf', missing') => WholeInv'
  BY DEF WholeInv
<1>3. ASSUME NEW d \in Clients
      PROVE  /\ client[d].served = 0 => WholeView(client[d].view, missing')
             /\ client[d].at = "away" => client[d].served = -1
             /\ d \in In(client) /\ client[d].served = 0 /\ ~Over(client[d]) =>
                  Complete(client[d].view, boot, buffer, turn, Numbered', seqOf', missing')
  BY <1>3, WholeStays, CompleteStays DEF WholeInv, WholeOK
<1>4. ASSUME seqOf' = seqOf, WholeOK(client', boot', buffer', turn', Numbered, seqOf, missing') PROVE WholeInv'
  <2>1. Numbered' = Numbered
    BY <1>4 DEF Numbered
  <2> QED
    BY <1>2, <1>4, <2>1
<1>5. CASE Idle
  <2>1. UNCHANGED <<client, boot, buffer, turn>>
    BY <1>5 DEF Idle
  <2>2. WholeOK(client, boot, buffer, turn, Numbered', seqOf', missing')
    BY <1>3 DEF WholeOK
  <2> QED
    BY <1>2, <2>1, <2>2
<1>6. ASSUME NEW clients, NEW r, Gives(clients, r) PROVE WholeInv'
  BY <1>4, <1>6, GivingIsWhole DEF Gives
<1>7. CASE Arrival
  BY <1>6, <1>7, ArrivalGives
<1>8. ASSUME NEW c \in Clients, ApplyCounter(c) \/ ReadFails(c) PROVE WholeInv'
  BY <1>6, <1>8, SynchronizingGives
<1>9. ASSUME NEW clients \in [Clients -> ClientStates], NEW hs \in BOOLEAN, Left(clients, buffer, hs),
             In(clients) \subseteq In(client),
             \A d \in Clients :
               /\ clients[d].served = client[d].served
               /\ clients[d].at = "away" => client[d].at = "away"
               /\ ToSet(clients[d].view) \ {LastEvent} = ToSet(client[d].view) \ {LastEvent}
               /\ Over(client[d]) => Over(clients[d])
               /\ d \in In(clients) /\ client[d].served = 0 /\ ~Over(clients[d]) =>
                    /\ clients[d].view = client[d].view
                    /\ Complete(client[d].view, boot', buffer, turn, Numbered', seqOf', missing')
      PROVE  WholeInv'
  <2>1. ASSUME NEW d \in Clients, clients[d].served = 0 PROVE WholeView(clients[d].view, missing')
    <3>1. WholeView(client[d].view, missing')
      BY <1>3, <1>9, <2>1
    <3>2. ToSet(clients[d].view) \ {LastEvent} = ToSet(client[d].view) \ {LastEvent}
      BY <1>9
    <3> QED
      BY <3>1, <3>2 DEF WholeView
  <2>2. \A d \in Clients : clients[d].at = "away" => clients[d].served = -1
    BY <1>3, <1>9
  <2>3. ASSUME NEW d \in Clients, d \in In(clients), clients[d].served = 0, ~Over(clients[d])
        PROVE  Complete(clients[d].view, boot', buffer, turn, Numbered', seqOf', missing')
    BY <1>9, <2>3
  <2> DEFINE num == Numbered'
             seq == seqOf'
             gone == missing'
  <2>4. WholeOK(clients, boot', buffer, turn, num, seq, gone)
    BY <2>1, <2>2, <2>3 DEF WholeOK
  <2> HIDE DEF num, seq, gone
  <2>5. WholeOK(client', boot', buffer', turn', num, seq, gone)
    BY <1>9, <2>4, LeavingKeepsWhole
  <2> QED
    BY <1>2, <2>5 DEF num, seq, gone
<1>10. ASSUME NEW c \in Clients, CheckStored(c) PROVE WholeInv'
  <2>1. Left(CheckedFor(c), buffer, attached) /\ boot' = boot
    BY <1>10 DEF CheckStored, CheckedFor
  <2> DEFINE clients == CheckedFor(c)
             v == client[c].view
  <2>2. /\ clients \in [Clients -> ClientStates]
        /\ \A d \in Clients : /\ clients[d].at = client[d].at /\ clients[d].told = client[d].told
                              /\ d # c => clients[d].view = client[d].view
        /\ clients[c].view = v \/ (clients[c].view = Append(v, LastEvent) /\ ~Closed(c))
    BY <1>1, CheckedClients
  <2>3. \A d \in Clients : clients[d].served = client[d].served
    BY <1>1 DEF CheckedFor, ClientStates
  <2>4. v \in Seq(Events) /\ LastEvent \in Events
    BY <1>1, ClientFields, BoundsAssumption DEF Events
  <2> HIDE DEF clients, v
  <2>5. ToSet(Append(v, LastEvent)) = ToSet(v) \cup {LastEvent}
    BY <2>4, AppendedSet
  <2>6. In(clients) = In(client)
    BY <2>2 DEF In
  <2>7. ASSUME NEW d \in Clients
        PROVE  /\ ToSet(clients[d].view) \ {LastEvent} = ToSet(client[d].view) \ {LastEvent}
               /\ Over(client[d]) => Over(clients[d])
               /\ ~Over(clients[d]) => clients[d].view = client[d].view
    BY <2>2, <2>5 DEF Over, v
  <2>8. ASSUME NEW d \in Clients, d \in In(clients), client[d].served = 0, ~Over(clients[d])
        PROVE  Complete(client[d].view, boot', buffer, turn, Numbered', seqOf', missing')
    BY <1>3, <2>1, <2>6, <2>7, <2>8
  <2> QED
    BY <1>1, <1>9, <2>1, <2>2, <2>3, <2>6, <2>7, <2>8 DEF clients
<1>11. ASSUME NEW c \in Clients, Departs(c) PROVE WholeInv'
  <2> DEFINE clients == [client EXCEPT ![c].at = "left"]
  <2>1. Left(clients, buffer, attached) /\ "left" \in Places
    BY <1>11 DEF Departs, Places
  <2>2. /\ clients \in [Clients -> ClientStates]
        /\ \A d \in Clients : /\ clients[d].at = IF d = c THEN "left" ELSE client[d].at
                              /\ clients[d].view = client[d].view /\ clients[d].told = client[d].told
                              /\ clients[d].served = client[d].served
    BY <1>1, <2>1, MovedClient
  <2> HIDE DEF clients
  <2>3. In(clients) \subseteq In(client)
    BY <2>2 DEF In
  <2>4. \A d \in Clients : Reads(boot, d) => boot'[d] = boot[d]
    <3>1. NoBoot.step = "none"
      BY DEF NoBoot
    <3>2. PICK k \in BootStates : boot' = [boot EXCEPT ![c] = k] /\ (Reads(boot, c) => k = boot[c])
      BY <1>1, <1>11, <3>1, Leavings DEF Reads
    <3>3. \A d \in Clients : boot'[d] = IF d = c THEN k ELSE boot[d]
      BY <1>1, <3>2
    <3> QED
      BY <3>2, <3>3
  <2>5. ASSUME NEW d \in Clients, d \in In(clients), client[d].served = 0, ~Over(clients[d])
        PROVE  Complete(client[d].view, boot', buffer, turn, Numbered', seqOf', missing')
    <3>1. Complete(client[d].view, boot, buffer, turn, Numbered', seqOf', missing')
      BY <1>3, <2>2, <2>3, <2>5 DEF Over
    <3> QED
      BY <2>4, <3>1 DEF Complete, Reads
  <2>6. \A d \in Clients : Over(client[d]) => Over(clients[d])
    BY <2>2 DEF Over
  <2> QED
    BY <1>1, <1>9, <2>1, <2>2, <2>3, <2>5, <2>6
<1>12. ASSUME NEW c \in Clients, Ready(c) PROVE WholeInv'
  <2>1. client[c].at = "reading" /\ c \in In(client)
    BY <1>12 DEF Ready, In
  <2>2. CASE attached = TRUE
    <3> DEFINE clients == InPlace(c, client)
    <3>1. Left(clients, buffer, TRUE) /\ boot' = boot
      BY <1>12, <2>2 DEF Ready
    <3>2. /\ clients \in [Clients -> ClientStates] /\ clients[c].at = "attached"
          /\ \A d \in Clients :
               LET x == clients[d]
                   k == client[d]
               IN  /\ x.view = k.view /\ x.defers = k.defers /\ x.served = k.served /\ x.checked = k.checked
                   /\ k.told = TRUE => x.told = TRUE
                   /\ d # c => x = k
      BY <1>1, InPlaceClients
    <3> HIDE DEF clients
    <3>3. In(clients) \subseteq In(client) /\ \A d \in Clients : clients[d].at = "away" => client[d].at = "away"
      BY <2>1, <3>2 DEF In
    <3>4. \A d \in Clients : Over(client[d]) => Over(clients[d])
      BY <1>1, <3>2, OverGrows
    <3>5. ASSUME NEW d \in Clients, d \in In(clients), client[d].served = 0, ~Over(clients[d])
          PROVE  Complete(client[d].view, boot', buffer, turn, Numbered', seqOf', missing')
      BY <1>3, <3>1, <3>3, <3>4, <3>5
    <3> QED
      BY <1>1, <1>9, <3>1, <3>2, <3>3, <3>4, <3>5
  <2>3. CASE attached = FALSE
    <3> DEFINE clients == [client EXCEPT ![c].at = "booting"]
    <3>1. Left(clients, buffer, TRUE) /\ "booting" \in Places
      BY <1>12, <2>3 DEF Ready, Places
    <3>2. /\ clients \in [Clients -> ClientStates]
          /\ \A d \in Clients : /\ clients[d].at = IF d = c THEN "booting" ELSE client[d].at
                                /\ clients[d].view = client[d].view /\ clients[d].told = client[d].told
                                /\ clients[d].served = client[d].served
      BY <1>1, <3>1, MovedClient
    <3> HIDE DEF clients
    <3>3. In(clients) \subseteq In(client)
      BY <2>1, <3>2 DEF In
    <3>4. \A d \in Clients : Over(client[d]) <=> Over(clients[d])
      BY <3>2 DEF Over
    <3>5. \A d \in Clients : ~(d \in In(client) /\ client[d].served = 0 /\ ~Over(client[d]))
      BY <2>3, FirstBootstrap
    <3> QED
      BY <1>1, <1>9, <3>1, <3>2, <3>3, <3>4, <3>5
  <2> QED
    BY <1>1, <2>2, <2>3
<1>13. ASSUME NEW c \in Clients, ReadCounter(c) PROVE WholeInv'
  <2> DEFINE k == [boot[c] EXCEPT !.step = "apply", !.counter = counter]
  <2>1. boot' = [boot EXCEPT ![c] = k] /\ UNCHANGED <<client, buffer, turn>> /\ Reads(boot, c)
    BY <1>1, <1>13 DEF ReadCounter, Reads, runtime
  <2>2. k.step = "apply" /\ k.frontier = boot[c].frontier
    BY <1>1 DEF BootStates
  <2> HIDE DEF k
  <2>3. \A d \in Clients : Reads(boot, d) => Reads(boot', d) /\ boot'[d].frontier = boot[d].frontier
    BY <1>1, <2>1, <2>2 DEF Reads
  <2>4. ASSUME NEW d \in Clients, d \in In(client), client[d].served = 0, ~Over(client[d])
        PROVE  Complete(client[d].view, boot', buffer, turn, Numbered', seqOf', missing')
    <3>1. Complete(client[d].view, boot, buffer, turn, Numbered', seqOf', missing')
      BY <1>3, <2>4
    <3> QED
      BY <2>3, <3>1 DEF Complete
  <2>5. WholeOK(client, boot', buffer, turn, Numbered', seqOf', missing')
    BY <1>3, <2>4 DEF WholeOK
  <2> QED
    BY <1>2, <2>1, <2>5
<1>14. ASSUME NEW c \in Clients, Abandoned(c) PROVE WholeInv'
  <2>1. /\ boot[c].step = "heir" /\ UNCHANGED <<client, buffer, turn>>
        /\ Subscribed = {} \/ turn # boot[c].turn
    BY <1>14 DEF Abandoned, runtime
  <2>2. Busy(boot, c) /\ ~Reads(boot, c)
    BY <2>1 DEF Busy, Reads
  <2>3. \A d \in Clients : ~(d \in In(client) /\ client[d].served = 0 /\ ~Over(client[d]))
    BY <2>2, FirstBootstrap
  <2>4. WholeOK(client, boot', buffer, turn, Numbered', seqOf', missing')
    BY <1>3, <2>3 DEF WholeOK
  <2> QED
    BY <1>2, <2>1, <2>4
<1>15. ASSUME NEW c \in Clients, Subscribe(c) PROVE WholeInv'
  <2>1. /\ client[c].at = "away"
        /\ client' = [client EXCEPT ![c] = [client[c] EXCEPT !.at = "reading", !.defers = Defers(c)]]
        /\ buffer' = IF Subscribed = {} THEN NewBuffer(Defers(c)) ELSE buffer
        /\ boot' = boot /\ turn' = turn
    BY <1>15 DEF Subscribe, runtime
  <2>2. /\ client'[c].at = "reading" /\ client'[c].served = client[c].served
        /\ \A d \in Clients : d # c => client'[d] = client[d]
    BY <1>1, <2>1 DEF ClientStates
  <2>3. client[c].served = -1
    BY <1>3, <2>1
  <2>4. ASSUME NEW d \in Clients
        PROVE  /\ client'[d].served = 0 => WholeView(client'[d].view, missing')
               /\ client'[d].at = "away" => client'[d].served = -1
               /\ d \in In(client') /\ client'[d].served = 0 /\ ~Over(client'[d]) =>
                    Complete(client'[d].view, boot', buffer', turn', Numbered', seqOf', missing')
    <3>1. CASE d = c
      BY <2>2, <2>3, <3>1
    <3>2. CASE d # c
      <4>1. client'[d] = client[d] /\ (d \in In(client') => d \in In(client))
        BY <2>2, <3>2 DEF In
      <4>2. d \in In(client) => buffer' = buffer
        BY <1>1, <2>1
      <4> QED
        BY <1>3, <2>1, <4>1, <4>2
    <3> QED
      BY <3>1, <3>2
  <2>5. WholeOK(client', boot', buffer', turn', Numbered', seqOf', missing')
    BY <2>4 DEF WholeOK
  <2> QED
    BY <1>2, <2>5
<1>16. ASSUME NEW c \in Clients, Replaying(c) PROVE WholeInv'
  <2>1. PICK out, frontier :
           /\ out \in Seq(Events) /\ Replayed(out)
           /\ boot' = [boot EXCEPT ![c] = [boot[c] EXCEPT !.step = "read", !.frontier = frontier]]
           /\ boot[c].step \in {"check", "heir"}
           /\ \/ turn = boot[c].turn /\ ToSet(early) \subseteq answered /\ outlived' = outlived
              \/ turn # boot[c].turn /\ outlived' = TRUE
           /\ UNCHANGED <<outside, run, buffer, overflowed, attached, turn, missing>>
    BY <1>1, <1>16, Replays DEF Replaying
  <2>2. seqOf' = seqOf /\ buffer' = buffer /\ turn' = turn /\ missing' = missing
    BY <2>1 DEF outside
  <2>3. Busy(boot, c) /\ ~Reads(boot, c) /\ client[c].defers = TRUE
    BY <2>1 DEF Busy, Reads, Grounds, HeldInv, HeldOK
  <2>4. PICK fr : Serves(c, fr)
    BY <1>1, <1>16, <2>3, Serving
  <2>5. ASSUME NEW d \in Clients
        PROVE  /\ client'[d].at = client[d].at /\ client'[d].told = client[d].told
               /\ \/ client'[d].view = client[d].view
                  \/ d \in Subscribed /\ client'[d].view = client[d].view \o Shown(d, out)
               /\ client[d].view \in Seq(Events) /\ client'[d] \in ClientStates
               /\ Closed(d) => Shown(d, out) = <<>>
    BY <1>1, <2>1, ShownIsPart, ClientFields DEF Replayed
  <2>6. In(client') = In(client)
    BY <2>5 DEF In
  <2>7. \A d \in Clients : ~(d \in In(client) /\ client[d].served = 0 /\ ~Over(client[d]))
    BY <2>3, FirstBootstrap
  <2>8. CASE early = <<>>
    <3>1. \A d \in Clients : client'[d].served = client[d].served
      BY <2>4, <2>8 DEF Serves
    <3>2. ASSUME NEW d \in Clients, client[d].served = 0 PROVE client'[d].view = client[d].view
      <4>1. d \in Subscribed => Closed(d)
        BY <1>1, <2>7, <3>2 DEF Closed
      <4> QED
        BY <2>5, <4>1, ConcatEmptySeq
    <3>3. ASSUME NEW d \in Clients, client'[d].served = 0 PROVE WholeView(client'[d].view, missing)
      BY <2>2, <1>3, <3>1, <3>2, <3>3
    <3>4. ASSUME NEW d \in Clients, d \in In(client'), client'[d].served = 0, ~Over(client'[d]) PROVE FALSE
      <4>1. ~Over(client[d])
        BY <2>5, <3>1, <3>2, <3>4 DEF Over
      <4> QED
        BY <2>6, <2>7, <3>1, <3>4, <4>1
    <3>5. \A d \in Clients : client'[d].at = "away" => client'[d].served = -1
      BY <1>3, <2>5, <3>1
    <3>6. WholeOK(client', boot', buffer', turn', Numbered, seqOf, missing)
      BY <3>3, <3>4, <3>5 DEF WholeOK
    <3> QED
      BY <1>4, <2>2, <3>6
  <2>9. CASE early # <<>>
    <3>1. /\ fr = IF Subscribed # {} THEN ReplayFrontier ELSE NoFrontier
          /\ \A d \in Subscribed : client'[d].served = turn /\ client'[d].view = client[d].view \o Shown(d, early)
          /\ \A d \in Clients \ Subscribed : client'[d].served = client[d].served /\ client'[d].view = client[d].view
          /\ boot' = [boot EXCEPT ![c] = [boot[c] EXCEPT !.step = "read", !.frontier = fr]]
      BY <2>4, <2>9 DEF Serves
    <3>2. closed = FALSE /\ early \in Seq(Events) /\ (turn = 0 => ToSet(early) \subseteq Numbered)
      <4>1. turn = 0 => turn = boot[c].turn
        BY <1>1 DEF BootStates, Grounds, FenceInv, FenceOK
      <4>2. turn = 0 => ToSet(early) \subseteq answered
        BY <2>1, <4>1
      <4> QED
        BY <2>9, <4>2 DEF Grounds, EarlyInv, BaseInv, TypeOK, WholeRun
    <3>3. turn = 0 => /\ \A i \in DOMAIN early : early[i] = i /\ early[i] < LastEvent
                      /\ ReplayFrontier # NoFrontier
                      /\ \A e \in Numbered : seqOf[e] < ReplayFrontier => e \in ToSet(early)
      BY <1>1, <2>9, <3>2, FrontierIsExact DEF Grounds, FirstEarly
    <3>4. Reads(boot', c) /\ boot'[c].frontier = fr
      BY <1>1, <3>1 DEF Reads, BootStates
    <3>5. ASSUME NEW d \in Subscribed, turn = 0
          PROVE  /\ WholeView(client'[d].view, missing)
                 /\ ~Over(client'[d]) => Complete(client'[d].view, boot', buffer, turn, Numbered, seqOf, missing)
      <4>1. /\ d \in Clients /\ d \in In(client) /\ client'[d].view = client[d].view \o Shown(d, early)
            /\ ToSet(client[d].view) \subseteq {LastEvent} /\ buffer.deferred = TRUE
        BY <1>1, <3>1, <3>2 DEF Grounds, HeldInv, HeldOK
      <4>2. CASE Over(client[d])
        <5>1. Shown(d, early) = <<>>
          BY <3>2, <4>1, <4>2, ShownIsPart DEF Closed
        <5>2. client'[d].view = client[d].view
          BY <2>5, <4>1, <5>1, ConcatEmptySeq
        <5>3. Over(client'[d])
          BY <2>5, <4>1, <4>2, <5>2 DEF Over
        <5> QED
          BY <4>1, <5>2, <5>3 DEF WholeView
      <4>3. CASE ~Over(client[d])
        <5> DEFINE v == client'[d].view
        <5>1. ToSet(v) = ToSet(client[d].view) \cup ToSet(early)
          <6>1. d \in Initial /\ client[d].view \in Seq(Events) /\ ~Closed(d) /\ v = client[d].view \o Shown(d, early)
            BY <1>1, <2>5, <4>1, <4>3 DEF Closed
          <6> HIDE DEF v
          <6> QED
            BY <3>2, <6>1, ShownInFull
        <5>2. ToSet(client[d].view) = {}
          BY <4>1, <4>3 DEF Over
        <5> HIDE DEF v
        <5>3. ASSUME NEW f \in ToSet(v) \ {LastEvent}, NEW e \in 1 .. f PROVE e \in ToSet(v) \ {LastEvent}
          <6>1. f \in DOMAIN early
            BY <3>3, <3>5, <5>1, <5>2 DEF ToSet
          <6>2. e \in DOMAIN early
            BY <3>2, <6>1
          <6> QED
            BY <3>3, <3>5, <5>1, <6>2, BoundsAssumption DEF ToSet
        <5>4. WholeView(v, missing)
          BY <5>3 DEF WholeView
        <5>5. fr = ReplayFrontier
          BY <3>1
        <5>6. Covers(v, Numbered, seqOf, missing, boot'[c].frontier) /\ boot'[c].frontier # NoFrontier
          BY <3>3, <3>4, <3>5, <5>1, <5>5 DEF Covers
        <5>7. Complete(v, boot', buffer, turn, Numbered, seqOf, missing)
          BY <3>4, <3>5, <4>1, <5>6 DEF Complete
        <5> QED
          BY <5>4, <5>7 DEF v
      <4> QED
        BY <4>2, <4>3
    <3>6. ASSUME NEW d \in Clients
          PROVE  /\ client'[d].served = 0 => WholeView(client'[d].view, missing)
                 /\ client'[d].at = "away" => client'[d].served = -1
                 /\ d \in In(client') /\ client'[d].served = 0 /\ ~Over(client'[d]) =>
                      Complete(client'[d].view, boot', buffer', turn', Numbered, seqOf, missing)
      <4>1. CASE d \in Subscribed
        <5>1. client'[d].served = turn /\ client'[d].at # "away"
          BY <1>1, <2>5, <3>1, <4>1 DEF In
        <5> QED
          BY <2>2, <3>5, <4>1, <5>1
      <4>2. CASE d \notin Subscribed
        BY <1>1, <1>3, <2>2, <2>5, <2>6, <3>1, <4>2
      <4> QED
        BY <4>1, <4>2
    <3>7. WholeOK(client', boot', buffer', turn', Numbered, seqOf, missing)
      BY <3>6 DEF WholeOK
    <3> QED
      BY <1>4, <2>2, <3>7
  <2> QED
    BY <2>8, <2>9
<1>17. ASSUME NEW c \in Clients, Proceeds(c) PROVE WholeInv'
  <2>1. UNCHANGED <<client, buffer, turn>>
    BY <1>17 DEF Proceeds, runtime
  <2>2. boot[c].step \in {"fence", "check"}
    BY <1>1, <1>17, Proceeding
  <2>3. Busy(boot, c) /\ ~Reads(boot, c)
    BY <2>2 DEF Busy, Reads
  <2>4. \A d \in Clients : ~(d \in In(client) /\ client[d].served = 0 /\ ~Over(client[d]))
    BY <2>3, FirstBootstrap
  <2>5. WholeOK(client, boot', buffer, turn, Numbered', seqOf', missing')
    BY <1>3, <2>4 DEF WholeOK
  <2> QED
    BY <1>2, <2>1, <2>5
<1> QED
  BY <1>5, <1>7, <1>8, <1>10, <1>11, <1>12, <1>13, <1>14, <1>15, <1>16, <1>17, ClientSteps

\* What closes a client through Redis comes after all the rest.
LEMMA DoneStep ==
  ASSUME Resuming = {}, Grounds, WholeInv, [Next]_vars, NEW c \in Clients,
         LastEvent \in ToSet(client'[c].view) \ ToSet(client[c].view),
         client'[c].checked = client[c].checked, client[c].served = 0
  PROVE  Events \subseteq ToSet(client'[c].view) \cup missing'
<1>1. /\ client \in [Clients -> ClientStates] /\ attached \in BOOLEAN /\ TRUE \in BOOLEAN /\ BaseInv /\ WholeRun
      /\ LastEvent \in Nat /\ LastEvent >= 2 /\ LastEvent \in Events
  BY BoundsAssumption DEF Grounds, BaseInv, TypeOK, Events
<1>2. client'[c].view # client[c].view
  OBVIOUS
<1>3. ASSUME NEW clients \in [Clients -> ClientStates], NEW b, NEW hs \in BOOLEAN, Left(clients, b, hs)
      PROVE  client'[c].view = clients[c].view /\ client'[c].checked = clients[c].checked
  BY <1>3, LeftClients
<1>4. ASSUME NEW clients, NEW r, Gives(clients, r) PROVE Events \subseteq ToSet(client'[c].view) \cup missing'
  <2>1. /\ clients \in [Clients -> ClientStates] /\ Left(clients, r.buffer, attached) /\ Hands(c, clients[c], r)
        /\ r.buffer.next \in Nat
    BY <1>4 DEF Gives
  <2>2. client'[c].view = clients[c].view
    BY <1>1, <1>3, <2>1
  <2> DEFINE v == clients[c].view
             n == r.buffer.next
             gone == missing'
  <2>3. v \in Seq(Events) /\ CaughtUp(v, Numbered, answered, seqOf, gone, n) /\ n \in Int
    BY <1>2, <2>1, <2>2 DEF Hands
  <2>4. LastEvent \in ToSet(v) \cap Numbered
    BY <2>1, <2>2 DEF Hands
  <2> HIDE DEF v, n, gone
  <2>5. Events \subseteq ToSet(v) \cup gone
    BY <1>1, <2>3, <2>4, CaughtUpIsWhole DEF CaughtUp
  <2> QED
    BY <2>2, <2>5 DEF v, gone
<1>5. CASE Idle
  BY <1>2, <1>5 DEF Idle
<1>6. CASE Arrival
  BY <1>4, <1>6, ArrivalGives
<1>7. ASSUME NEW d \in Clients, ApplyCounter(d) \/ ReadFails(d)
      PROVE  Events \subseteq ToSet(client'[c].view) \cup missing'
  BY <1>4, <1>7, SynchronizingGives
<1>8. ASSUME NEW d \in Clients, CheckStored(d) PROVE FALSE
  <2>1. Left(CheckedFor(d), buffer, attached) /\ client[d].checked = FALSE
    BY <1>1, <1>8 DEF CheckStored, CheckedFor, ClientStates
  <2> DEFINE clients == CheckedFor(d)
  <2>2. /\ clients \in [Clients -> ClientStates]
        /\ d # c => clients[c].view = client[c].view
    BY <1>1, CheckedClients
  <2>3. clients[d].checked = TRUE
    BY <1>1 DEF CheckedFor, ClientStates
  <2> HIDE DEF clients
  <2>4. client'[c].view = clients[c].view /\ client'[c].checked = clients[c].checked
    BY <1>1, <1>3, <2>1, <2>2 DEF clients
  <2> QED
    BY <1>2, <2>1, <2>2, <2>3, <2>4
<1>9. ASSUME NEW d \in Clients, Departs(d) PROVE FALSE
  <2> DEFINE clients == [client EXCEPT ![d].at = "left"]
  <2>1. Left(clients, buffer, attached) /\ "left" \in Places
    BY <1>9 DEF Departs, Places
  <2>2. clients \in [Clients -> ClientStates] /\ clients[c].view = client[c].view
    BY <1>1, <2>1, MovedClient
  <2> HIDE DEF clients
  <2> QED
    BY <1>1, <1>2, <1>3, <2>1, <2>2
<1>10. ASSUME NEW d \in Clients, Ready(d) PROVE FALSE
  <2>1. \E clients \in [Clients -> ClientStates] : clients[c].view = client[c].view /\ Left(clients, buffer, TRUE)
    <3>1. InPlace(d, client) \in [Clients -> ClientStates] /\ InPlace(d, client)[c].view = client[c].view
      BY <1>1, InPlaceClients
    <3>2. "booting" \in Places
      BY DEF Places
    <3>3. /\ [client EXCEPT ![d].at = "booting"] \in [Clients -> ClientStates]
          /\ [client EXCEPT ![d].at = "booting"][c].view = client[c].view
      BY <1>1, <3>2, MovedClient
    <3> QED
      BY <1>10, <3>1, <3>3 DEF Ready
  <2> QED
    BY <1>1, <1>2, <1>3, <2>1
<1>11. ASSUME NEW d \in Clients, Subscribe(d) \/ Proceeds(d) \/ Abandoned(d) \/ ReadCounter(d) PROVE FALSE
  <2>1. CASE Subscribe(d)
    <3>1. client' = [client EXCEPT ![d] = [client[d] EXCEPT !.at = "reading", !.defers = Defers(d)]]
      BY <1>1, <2>1 DEF Subscribe
    <3>2. client'[c].view = client[c].view
      BY <1>1, <3>1 DEF ClientStates
    <3> QED
      BY <1>2, <3>2
  <2>2. CASE Proceeds(d) \/ Abandoned(d) \/ ReadCounter(d)
    BY <1>2, <2>2 DEF Proceeds, Abandoned, ReadCounter
  <2> QED
    BY <1>11, <2>1, <2>2
<1>12. ASSUME NEW d \in Clients, Replaying(d) PROVE FALSE
  <2>1. PICK out :
           /\ out \in Seq(Events) /\ Replayed(out) /\ boot[d].step \in {"check", "heir"}
           /\ \/ early # <<>> /\ out = early
              \/ early # <<>> /\ client[d].defers = FALSE
              \/ early = <<>> /\ out = <<Created>>
    BY <1>1, <1>12, Replays DEF Replaying
  <2>2. client[d].defers = TRUE
    BY <2>1 DEF Busy, Grounds, HeldInv, HeldOK
  <2>3. LastEvent \notin ToSet(out)
    <3>1. CASE out = early
      BY <1>1, <3>1 DEF ToSet, Grounds, FirstEarly
    <3>2. CASE out = <<Created>>
      BY <1>1, <3>2 DEF ToSet, Created
    <3> QED
      BY <2>1, <2>2, <3>1, <3>2
  <2>4. /\ client'[c].view = client[c].view \/ client'[c].view = client[c].view \o Shown(c, out)
        /\ client[c].view \in Seq(Events)
    BY <1>1, <2>1, ClientFields DEF Replayed
  <2>5. Shown(c, out) \in Seq(Events) /\ PartOf(Shown(c, out), out)
    BY <2>1, ShownIsPart
  <2>6. LastEvent \notin ToSet(Shown(c, out))
    BY <2>3, <2>5 DEF PartOf, ToSet
  <2> DEFINE k == client[c].view
             w == Shown(c, out)
  <2>7. k \in Seq(Events) /\ w \in Seq(Events) /\ LastEvent \notin ToSet(k) \cup ToSet(w)
    BY <2>4, <2>5, <2>6
  <2> HIDE DEF k, w
  <2>8. LastEvent \notin ToSet(k \o w)
    BY <2>7, Joined
  <2> QED
    BY <1>2, <2>4, <2>8 DEF k, w
<1> QED
  BY <1>5, <1>6, <1>7, <1>8, <1>9, <1>10, <1>11, <1>12, ClientSteps

LEMMA WholeInit == Init => WholeRun /\ FirstEarly /\ FirstInv /\ WholeInv
<1> SUFFICES ASSUME Init PROVE WholeRun /\ FirstEarly /\ FirstInv /\ WholeInv
  OBVIOUS
<1>1. /\ client = [c \in Clients |-> NewClient] /\ early = <<>> /\ emitted = 0 /\ answered = {}
  BY DEF Init
<1>2. \A c \in Clients : client[c].at = "away" /\ client[c].served = -1
  BY <1>1 DEF NewClient
<1>3. In(client) = {}
  BY <1>2 DEF In
<1>4. WholeRun /\ FirstEarly
  BY <1>1 DEF WholeRun, FirstEarly
<1>5. FirstInv /\ WholeInv
  BY <1>2, <1>3 DEF FirstInv, FirstOK, WholeInv, WholeOK
<1> QED
  BY <1>4, <1>5

LEMMA FirstOrderStep ==
  ASSUME Resuming = {}, BaseInv, FenceInv, EarlyInv, HeldInv, turn = 0 => OrderInv, [Next]_vars, LateInv'
  PROVE  turn' = 0 => OrderInv'
<1> SUFFICES ASSUME turn' = 0 PROVE OrderInv'
  OBVIOUS
<1>1. outlived' = FALSE
  BY DEF LateInv
<1>2. turn = 0
  BY TurnRises
<1> QED
  BY <1>1, <1>2, OrderStep

LEMMA WholeAlways ==
  ASSUME Resuming = {}, MaxFailures = 0
  PROVE  /\ Init => Grounds /\ WholeInv
         /\ Grounds /\ WholeInv /\ [Next]_vars => Grounds' /\ WholeInv'
<1>1. Init => Grounds /\ WholeInv
  BY BaseInit, FenceInit, ListsInit, ReachInit, WholeInit DEF Grounds, LateInv, Init
<1>2. Grounds /\ [Next]_vars => Grounds'
  <2> SUFFICES ASSUME Grounds, [Next]_vars PROVE Grounds'
    OBVIOUS
  <2>1. BaseInv' /\ FenceInv' /\ EarlyInv' /\ HeldInv' /\ ReachInv' /\ WholeRun' /\ FirstEarly' /\ FirstInv'
    BY BaseStep, FenceStep, EarlyStep, HeldStep, ReachStep, WholeRunStep, FirstEarlyStep, FirstStep DEF Grounds
  <2>2. LateInv'
    BY LateStep DEF Grounds
  <2>3. turn' = 0 => OrderInv'
    BY <2>2, FirstOrderStep DEF Grounds
  <2> QED
    BY <2>1, <2>2, <2>3 DEF Grounds
<1> QED
  BY <1>1, <1>2, WholeStep

\* The clients that the first attachment's replay reaches (deliverEarlyEvents, with
\* the frontier that syncReorderBuffer is given) are shown the stream from its
\* start and without a hole: whatever number is below the frontier was replayed,
\* what is above it comes out of the reorder buffer in a row, and a number the
\* buffer gives up on is counted as missing.  No client resumes, and no publication
\* fails: an event without a number is in no row, and a replay that has none for
\* what it shows leaves the buffer to start from the counter.
THEOREM FirstIsWhole ==
  ASSUME Resuming = {}, MaxFailures = 0
  PROVE  Spec => []FirstAttachmentWhole
<1>1. Grounds /\ WholeInv => FirstAttachmentWhole
  BY DEF WholeInv, WholeOK, WholeView, FirstAttachmentWhole, Whole
<1> QED
  BY <1>1, WholeAlways, PTL DEF Spec

\* The terminal event that Redis brings such a client (handleTerminalEvent) finds
\* everything before it shown: it is the last one the client's queue takes.
THEOREM DoneIsLast ==
  ASSUME Resuming = {}, MaxFailures = 0
  PROVE  Spec => DoneComesLast
<1>1. Grounds /\ WholeInv /\ [Next]_vars =>
        [\A c \in Clients :
           /\ LastEvent \in ToSet(client'[c].view) \ ToSet(client[c].view)
           /\ client'[c].checked = client[c].checked
           /\ client[c].served = 0
           => Events \subseteq ToSet(client'[c].view) \cup missing']_vars
  BY DoneStep
<1> QED
  BY <1>1, WholeAlways, PTL DEF Spec, DoneComesLast

-----------------------------------------------------------------------------
(***************************************************************************)
(* Created comes first, as long as the first attachment lasts.             *)
(***************************************************************************)

\* There is only one client.
Alone == \A c, d \in Clients : c = d

\* Created is nowhere in a view but at its start.
Opens(v) == \A i \in DOMAIN v : v[i] = Created => i = 1

\* A client of the first attachment that sees something without created sees what
\* came through Redis.  A client that is alone has only that attachment.
\* cl, b, tn, num: the clients, the buffer, the attachment and what has a number.
StartOK(cl, b, tn, num) ==
  /\ tn = 0 \/ Alone => \A c \in Clients : Opens(cl[c].view)
  /\ tn = 0 => \A c \in In(cl) :
       ~Over(cl[c]) /\ cl[c].view # <<>> /\ Created \notin ToSet(cl[c].view) =>
         b.deferred = FALSE /\ ToSet(cl[c].view) \subseteq num
  /\ Alone /\ tn # 0 => \A c \in Clients : cl[c].at = "left"

StartInv == StartOK(client, buffer, turn, Numbered)

\* What is added to a view does not bring created late.
LEMMA OpensLonger ==
  ASSUME NEW v \in Seq(Events), NEW w \in Seq(Events), Opens(v),
         Created \notin ToSet(w) \/ (v = <<>> /\ Opens(w))
  PROVE  Opens(v \o w)
<1> DEFINE u == v \o w
<1>1. CASE Created \notin ToSet(w)
  <2>1. /\ Len(u) = Len(v) + Len(w) /\ Len(v) \in Nat /\ Len(w) \in Nat
        /\ DOMAIN u = 1 .. Len(u) /\ DOMAIN v = 1 .. Len(v) /\ DOMAIN w = 1 .. Len(w)
    OBVIOUS
  <2>2. \A i \in 1 .. Len(u) : u[i] = IF i <= Len(v) THEN v[i] ELSE w[i - Len(v)]
    BY ConcatProperties
  <2> HIDE DEF u
  <2>3. ASSUME NEW i \in DOMAIN u, u[i] = Created PROVE i = 1
    <3>1. CASE i <= Len(v)
      <4>1. i \in DOMAIN v /\ v[i] = Created
        BY <2>1, <2>2, <2>3, <3>1
      <4> QED
        BY <4>1 DEF Opens
    <3>2. CASE ~(i <= Len(v))
      <4>1. i - Len(v) \in DOMAIN w /\ w[i - Len(v)] = Created
        BY <2>1, <2>2, <2>3, <3>2
      <4> QED
        BY <1>1, <4>1 DEF ToSet
    <3> QED
      BY <3>1, <3>2
  <2>4. Opens(u)
    BY <2>3 DEF Opens
  <2> QED
    BY <2>4 DEF u
<1>2. CASE v = <<>> /\ Opens(w)
  <2>1. v \o w = w
    BY <1>2, ConcatEmptySeq
  <2> QED
    BY <1>2, <2>1
<1> QED
  BY <1>1, <1>2

\* Nor does a part of a list that rises.
LEMMA PartOpens ==
  ASSUME NEW s \in Seq(Events), NEW w \in Seq(Events), PartOf(w, s), Rising(s)
  PROVE  Opens(w)
<1>1. \A i \in DOMAIN s : s[i] \in Nat /\ 1 <= s[i]
  BY BoundsAssumption DEF Events
<1>2. DOMAIN w = 1 .. Len(w) /\ Len(w) \in Nat
  OBVIOUS
<1>3. ASSUME NEW i \in DOMAIN w, w[i] = Created, i # 1 PROVE FALSE
  <2>1. 1 \in DOMAIN w /\ 1 < i
    BY <1>2, <1>3
  <2>2. PICK k \in DOMAIN s, l \in DOMAIN s : k < l /\ w[1] = s[k] /\ w[i] = s[l]
    BY <2>1 DEF PartOf
  <2>3. s[k] < s[l] /\ s[l] = 1
    BY <1>3, <2>2 DEF Rising, Created
  <2> QED
    BY <1>1, <2>3
<1> QED
  BY <1>3 DEF Opens

\* What is shown of a list that rises to a client that has seen nothing, or
\* that has created.
LEMMA ShowingOpens ==
  ASSUME NEW c \in Initial, client[c].view \in Seq(Events), Opens(client[c].view),
         NEW out \in Seq(Events), Rising(out),
         Closed(c) \/ client[c].view = <<>> \/ Created \in ToSet(client[c].view) \/ Created \notin ToSet(out)
  PROVE  Opens(client[c].view \o Shown(c, out))
<1> DEFINE k == client[c].view
           w == Shown(c, out)
           S == IF Created \notin ToSet(k) THEN {} ELSE {Created}
<1>1. w \in Seq(Events) /\ PartOf(w, out) /\ (Closed(c) => w = <<>>)
  BY ShownIsPart DEF Clients
<1>2. Opens(w)
  BY <1>1, PartOpens
<1>3. ~Closed(c) => w = Without(out, S)
  BY DEF Shown
<1>4. ToSet(Without(out, S)) = ToSet(out) \ S
  BY WithoutKeeps
<1>5. Created \in ToSet(k) => S = {Created}
  OBVIOUS
<1>6. ToSet(<<>>) = {}
  BY DEF ToSet
<1>7. k \in Seq(Events) /\ Opens(k)
  OBVIOUS
<1>8. Closed(c) \/ k = <<>> \/ Created \in ToSet(k) \/ Created \notin ToSet(out)
  OBVIOUS
<1> HIDE DEF k, w, S
<1>9. k = <<>> \/ Created \notin ToSet(w)
  <2>1. CASE Closed(c)
    BY <1>1, <1>6, <2>1
  <2>2. CASE ~Closed(c)
    BY <1>3, <1>4, <1>5, <1>8, <2>2
  <2> QED
    BY <2>1, <2>2
<1>10. Opens(k \o w)
  BY <1>1, <1>2, <1>7, <1>9, OpensLonger
<1> QED
  BY <1>10 DEF k, w

\* What a buffer gives out to a client that has seen only what came through Redis.
LEMMA GivingOpens ==
  ASSUME Counted, NEW c \in Initial, client[c].view \in Seq(Events), Opens(client[c].view),
         NEW out, NEW lo \in Int, NEW hi \in Int, Delivers(out, lo, hi),
         ~Closed(c) /\ client[c].view # <<>> /\ Created \notin ToSet(client[c].view) =>
           ToSet(client[c].view) \subseteq Numbered /\ Under(client[c].view, Numbered, seqOf, lo)
  PROVE  /\ Opens(client[c].view \o Shown(c, out))
         /\ client[c].view \o Shown(c, out) \in Seq(Events)
         /\ ToSet(client[c].view) \subseteq ToSet(client[c].view \o Shown(c, out))
         /\ ToSet(client[c].view \o Shown(c, out)) \subseteq ToSet(client[c].view) \cup Numbered
<1> DEFINE k == client[c].view
           w == Shown(c, out)
<1>1. /\ out \in Seq(Events) /\ Rising(out)
      /\ \A e \in ToSet(out) : e \in Numbered /\ lo <= seqOf[e] /\ seqOf[e] < hi
  BY DeliveredRises DEF Counted
<1>2. w \in Seq(Events) /\ PartOf(w, out)
  BY <1>1, ShownIsPart DEF Clients
<1>3. ToSet(w) \subseteq Numbered
  <2>1. ToSet(w) \subseteq ToSet(out)
    BY <1>1, <1>2, PartIsWell
  <2> QED
    BY <1>1, <2>1
<1>4. k \o w \in Seq(Events) /\ ToSet(k \o w) = ToSet(k) \cup ToSet(w)
  BY <1>2, Joined
<1>5. Closed(c) \/ k = <<>> \/ Created \in ToSet(k) \/ Created \notin ToSet(out)
  <2> SUFFICES ASSUME ~Closed(c), k # <<>>, Created \notin ToSet(k), Created \in ToSet(out) PROVE FALSE
    OBVIOUS
  <2>1. ToSet(k) \subseteq Numbered /\ Under(k, Numbered, seqOf, lo)
    OBVIOUS
  <2>2. k[1] \in ToSet(k) /\ k[1] \in Events
    <3>1. k \in Seq(Events)
      OBVIOUS
    <3> HIDE DEF k
    <3>2. 1 \in DOMAIN k
      BY <3>1
    <3> QED
      BY <3>1, <3>2 DEF ToSet
  <2> DEFINE e == k[1]
  <2>3. e \in Numbered /\ e \in ToSet(k) /\ e \in Events /\ e # Created
    BY <2>1, <2>2
  <2> HIDE DEF e, k
  <2>4. Created \in Numbered /\ lo <= seqOf[Created]
    BY <1>1
  <2>5. seqOf[e] < lo
    BY <2>1, <2>3 DEF Under, Deltas
  <2>6. Created < e
    BY <2>3, BoundsAssumption DEF Events, Created
  <2>7. seqOf[Created] < seqOf[e]
    BY <2>3, <2>4, <2>6 DEF Counted, NumbersRise
  <2>8. seqOf[Created] \in Int /\ seqOf[e] \in Int
    BY <2>3, <2>4 DEF Counted, NumbersRise, Numbered, NoFrontier
  <2> QED
    BY <2>4, <2>5, <2>7, <2>8
<1>6. Opens(k \o w)
  BY <1>1, <1>5, ShowingOpens
<1> QED
  BY <1>3, <1>4, <1>6

LEMMA StartStays ==
  ASSUME NEW clients, NEW b, NEW tn, NEW num, NEW more, num \subseteq more, StartOK(clients, b, tn, num)
  PROVE  StartOK(clients, b, tn, more)
BY DEF StartOK

LEMMA LeavingKeepsStart ==
  ASSUME NEW clients \in [Clients -> ClientStates], NEW b, NEW hs \in BOOLEAN, Left(clients, b, hs), turn \in Nat,
         \A c \in Clients : clients[c].at = "away" => client[c].at = "away",
         Numbered \subseteq Numbered', StartOK(clients, b, turn, Numbered)
  PROVE  StartInv'
<1>1. /\ \A c \in Clients : /\ client'[c].view = clients[c].view /\ client'[c].told = clients[c].told
                            /\ client'[c].at = clients[c].at \/ client'[c].at = "left"
      /\ In(client') = {c \in In(clients) : ~Goes(clients[c])}
  BY LeftClients
<1>2. \/ /\ Subscribed # {} /\ In(client') = {}
         /\ buffer' = NewBuffer(FALSE) /\ attached' = FALSE /\ turn' = turn + 1
      \/ /\ Subscribed = {} \/ In(client') # {}
         /\ buffer' = b /\ attached' = hs /\ turn' = turn
  BY LeftClients
<1>3. StartOK(clients, b, turn, Numbered')
  BY StartStays
<1>4. StartOK(client', buffer', turn', Numbered') => StartInv'
  BY DEF StartInv, StartOK, Opens, Alone, In, Over
<1>5. CASE Subscribed # {} /\ In(client') = {} /\ turn' = turn + 1
  <2>1. turn' # 0
    BY <1>5
  <2>2. Alone => \A c \in Clients : Opens(client'[c].view)
    BY <1>1, <1>3 DEF StartOK
  <2>3. ASSUME Alone, NEW c \in Clients PROVE client'[c].at = "left"
    <3>1. c \in Subscribed
      BY <1>5, <2>3 DEF Alone, Subscribed, In
    <3>2. client[c].at # "away"
      BY <3>1 DEF Subscribed, In
    <3>3. client'[c].at # "away"
      BY <1>1, <3>2
    <3>4. client'[c].at \in Places
      <4>1. client' \in [Clients -> ClientStates]
        BY LeftClients
      <4>2. client'[c] \in ClientStates
        BY <4>1
      <4> QED
        BY <4>2 DEF ClientStates
    <3>5. client'[c].at \notin {"reading", "booting", "attached"}
      BY <1>5 DEF In
    <3> QED
      BY <3>3, <3>4, <3>5 DEF Places
  <2>4. StartOK(client', buffer', turn', Numbered')
    BY <2>1, <2>2, <2>3 DEF StartOK
  <2> QED
    BY <1>4, <2>4
<1>6. CASE buffer' = b /\ turn' = turn
  <2>1. turn = 0 \/ Alone => \A c \in Clients : Opens(client'[c].view)
    BY <1>1, <1>3 DEF StartOK
  <2>2. ASSUME turn = 0, NEW c \in In(client'), ~Over(client'[c]), client'[c].view # <<>>,
               Created \notin ToSet(client'[c].view)
        PROVE  b.deferred = FALSE /\ ToSet(client'[c].view) \subseteq Numbered'
    <3>1. c \in In(clients) /\ client'[c].view = clients[c].view /\ client'[c].told = clients[c].told
      BY <1>1 DEF In
    <3>2. ~Over(clients[c])
      BY <2>2, <3>1 DEF Over
    <3> QED
      BY <1>3, <2>2, <3>1, <3>2 DEF StartOK
  <2>3. ASSUME Alone, turn # 0, NEW c \in Clients PROVE client'[c].at = "left"
    BY <1>1, <1>3, <2>3 DEF StartOK
  <2>4. StartOK(client', b, turn, Numbered')
    BY <2>1, <2>2, <2>3 DEF StartOK
  <2>5. StartOK(client', buffer', turn', Numbered')
    BY <1>6, <2>4
  <2> QED
    BY <1>4, <2>5
<1> QED
  BY <1>2, <1>5, <1>6

\* What the buffer gives out keeps created first.
LEMMA GivingKeepsStart ==
  ASSUME Resuming = {}, BaseInv, turn = 0 => OrderInv, StartInv, NEW clients, NEW r, Given(clients, r.out), Handles(buffer, r),
         r.buffer.deferred = FALSE,
         In(clients) = Subscribed, \A c \in Clients : client[c].at = "left" => clients[c].at = "left",
         Subscribed = {} \/ turn = 0
  PROVE  StartOK(clients, r.buffer, turn, Numbered)
<1>1. /\ client \in [Clients -> ClientStates] /\ Counted /\ buffer.next \in Int /\ Clients = Initial
  BY DEF BaseInv, TypeOK, NumberInv, Clients
<1>2. r.buffer.next \in Int /\ Delivers(r.out, buffer.next, r.buffer.next)
  BY DEF Handles, Waits, Buffers
<1>3. StartOK(client, buffer, turn, Numbered)
  BY DEF StartInv
<1>4. \A c \in Clients : client[c].view \in Seq(Events)
  BY <1>1, ClientFields
<1> DEFINE out == r.out
           lo == buffer.next
           hi == r.buffer.next
<1>5. lo \in Int /\ hi \in Int /\ Delivers(out, lo, hi) /\ Given(clients, out)
  BY <1>1, <1>2
<1>6. ASSUME NEW c \in Subscribed, ~Closed(c), buffer.deferred = FALSE PROVE Under(client[c].view, Numbered, seqOf, lo)
  <2>1. OrderInv
    BY <1>6
  <2> QED
    BY <1>6, <2>1 DEF OrderInv, OrderOK, Ahead, Closed, Subscribed
<1> HIDE DEF out, lo, hi
<1>7. ASSUME NEW c \in Subscribed, turn = 0
      PROVE  /\ Opens(clients[c].view)
             /\ ~Over(clients[c]) /\ Created \notin ToSet(clients[c].view) => ToSet(clients[c].view) \subseteq Numbered
  <2> DEFINE k == client[c].view
             x == clients[c].view
  <2>1. c \in Clients /\ c \in Initial /\ k \in Seq(Events) /\ c \in In(client)
    BY <1>1, <1>4 DEF Subscribed, In
  <2>2. Opens(k) /\ x = k \o Shown(c, out)
    BY <1>3, <1>5, <1>7, <2>1 DEF StartOK, Given
  <2>3. ~Closed(c) /\ k # <<>> /\ Created \notin ToSet(k) =>
          buffer.deferred = FALSE /\ ToSet(k) \subseteq Numbered
    BY <1>3, <1>7, <2>1 DEF StartOK, Closed
  <2>4. ~Closed(c) /\ k # <<>> /\ Created \notin ToSet(k) =>
          ToSet(k) \subseteq Numbered /\ Under(k, Numbered, seqOf, lo)
    BY <1>6, <2>1, <2>3
  <2>5. Opens(x) /\ ToSet(k) \subseteq ToSet(x) /\ ToSet(x) \subseteq ToSet(k) \cup Numbered
    BY <1>1, <1>5, <2>1, <2>2, <2>4, GivingOpens
  <2>6. ASSUME ~Over(clients[c]), Created \notin ToSet(x) PROVE ToSet(x) \subseteq Numbered
    <3>1. ~Closed(c)
      <4>1. clients[c] \in ClientStates /\ client[c] \in ClientStates /\ (client[c].told = TRUE => clients[c].told = TRUE)
        BY <1>1, <2>1 DEF Given
      <4> QED
        BY <2>5, <2>6, <4>1, OverGrows DEF Closed
    <3>2. Created \notin ToSet(k)
      BY <2>5, <2>6
    <3>3. CASE k = <<>>
      <4>1. ToSet(k) = {}
        BY <3>3 DEF ToSet
      <4> QED
        BY <2>5, <4>1
    <3>4. CASE k # <<>>
      BY <2>3, <2>5, <3>1, <3>2, <3>4
    <3> QED
      BY <3>3, <3>4
  <2> QED
    BY <2>5, <2>6
<1>8. ASSUME NEW c \in Clients, c \notin Subscribed PROVE clients[c].view = client[c].view
  BY <1>8 DEF Given
<1>9. turn = 0 \/ Alone => \A c \in Clients : Opens(clients[c].view)
  BY <1>3, <1>7, <1>8 DEF StartOK
<1>10. Alone /\ turn # 0 => \A c \in Clients : clients[c].at = "left"
  BY <1>3 DEF StartOK
<1> QED
  BY <1>7, <1>9, <1>10 DEF StartOK

LEMMA StartStep ==
  /\ Resuming = {} /\ BaseInv /\ FenceInv /\ EarlyInv /\ HeldInv /\ (turn = 0 => OrderInv) /\ FirstEarly /\ FirstInv
  /\ StartInv /\ [Next]_vars
  => StartInv'
<1> SUFFICES ASSUME Resuming = {}, BaseInv, FenceInv, EarlyInv, HeldInv, turn = 0 => OrderInv, FirstEarly, FirstInv,
                    StartInv, [Next]_vars
             PROVE  StartInv'
  OBVIOUS
<1>0. client \in [Clients -> ClientStates]
  BY DEF BaseInv, TypeOK
<1>1. /\ client \in [Clients -> ClientStates] /\ boot \in [Clients -> BootStates] /\ buffer.deferred \in BOOLEAN
      /\ attached \in BOOLEAN /\ turn \in Nat /\ TRUE \in BOOLEAN /\ Clients = Initial /\ early \in Seq(Events)
  BY DEF BaseInv, TypeOK, Clients
<1>2. StartOK(client, buffer, turn, Numbered) /\ Numbered \subseteq Numbered'
  BY NumbersStay DEF StartInv
<1>3. StartOK(client', buffer', turn', Numbered') => StartInv'
  BY DEF StartInv, StartOK, Opens, Alone, In, Over
<1>4. \A c \in Clients : client[c].view \in Seq(Events)
  BY <1>1, ClientFields
<1>5. Subscribed = In(client)
  BY DEF Subscribed
<1>6. \A c \in Clients : Busy(boot, c) /\ turn = 0 /\ Subscribed # {} => buffer.deferred = TRUE
  BY <1>1, <1>5 DEF FirstInv, FirstOK
<1>7. CASE Idle
  <2>1. client' = client /\ buffer' = buffer /\ turn' = turn
    BY <1>7 DEF Idle
  <2>2. StartOK(client, buffer, turn, Numbered')
    BY <1>2, StartStays
  <2>3. StartOK(client', buffer', turn', Numbered')
    BY <2>1, <2>2
  <2> QED
    BY <1>3, <2>3
<1>8. CASE Arrival
  <2>1. PICK r : /\ Handles(buffer, r) /\ r.buffer.deferred = buffer.deferred
                 /\ buffer.deferred = TRUE => r.out = <<>>
                 /\ Given(Handed(Subscribed, r.out), r.out)
                 /\ Left(Handed(Subscribed, r.out), r.buffer, attached)
    BY <1>8, Arrivals DEF Arrival
  <2> DEFINE clients == Handed(Subscribed, r.out)
  <2>2. r.out \in Seq(Events)
    BY <2>1 DEF Handles, Delivers
  <2>3. \A c \in Clients : clients[c].at = client[c].at
    BY <1>1, <2>2, HandedGives
  <2>4. clients \in [Clients -> ClientStates] /\ Given(clients, r.out) /\ Left(clients, r.buffer, attached)
    BY <2>1 DEF Given
  <2> HIDE DEF clients
  <2>5. In(clients) = In(client)
    BY <2>3 DEF In
  <2>6. StartOK(clients, r.buffer, turn, Numbered)
    <3>1. CASE buffer.deferred = FALSE /\ (Subscribed = {} \/ turn = 0)
      BY <1>5, <2>1, <2>3, <2>4, <2>5, <3>1, GivingKeepsStart
    <3>2. CASE buffer.deferred = TRUE \/ Subscribed = {}
      <4>1. ASSUME NEW c \in Clients
            PROVE  /\ clients[c].view = client[c].view
                   /\ ~Over(clients[c]) => ~Over(client[c])
        <5>1. c \in Subscribed => r.out = <<>>
          BY <2>1, <3>2
        <5>2. client[c].view \o <<>> = client[c].view
          BY <1>4, ConcatEmptySeq
        <5>3. clients[c].view = client[c].view
          BY <2>4, <4>1, <5>1, <5>2, NothingShown DEF Given
        <5>4. client[c].told = TRUE => clients[c].told = TRUE
          BY <2>4 DEF Given
        <5>5. clients[c] \in ClientStates /\ client[c] \in ClientStates
          BY <1>1, <2>4
        <5> QED
          BY <5>3, <5>4, <5>5, OverGrows
      <4>2. r.buffer.deferred = buffer.deferred
        BY <2>1
      <4> QED
        BY <1>2, <2>3, <2>5, <4>1, <4>2 DEF StartOK, In
    <3>3. CASE turn # 0 /\ Subscribed # {}
      <4>1. ~Alone
        BY <1>2, <1>5, <3>3 DEF StartOK, In
      <4> QED
        BY <3>3, <4>1 DEF StartOK
    <3> QED
      BY <1>1, <3>1, <3>2, <3>3
  <2> QED
    BY <1>1, <1>2, <2>3, <2>4, <2>6, LeavingKeepsStart
<1>9. ASSUME NEW c \in Clients, Subscribe(c) PROVE StartInv'
  <2>1. /\ client[c].at = "away" /\ turn' = turn
        /\ buffer' = IF Subscribed = {} THEN NewBuffer(Defers(c)) ELSE buffer
        /\ client' = [client EXCEPT ![c].at = "reading", ![c].defers = Defers(c)]
    BY <1>9 DEF Subscribe, runtime
  <2>2. \A d \in Clients : client'[d].view = client[d].view /\ client'[d].told = client[d].told
    BY <1>1, <2>1 DEF ClientStates
  <2>3. \A d \in Clients : d # c => client'[d] = client[d]
    BY <1>1, <2>1
  <2>4. client[c].view = <<>>
    BY <2>1 DEF HeldInv, HeldOK
  <2>5. ~(Alone /\ turn # 0)
    BY <1>2, <2>1 DEF StartOK
  <2>6. turn = 0 \/ Alone => \A d \in Clients : Opens(client'[d].view)
    BY <1>2, <2>2 DEF StartOK
  <2>7. ASSUME turn = 0, NEW d \in In(client'), ~Over(client'[d]), client'[d].view # <<>>,
               Created \notin ToSet(client'[d].view)
        PROVE  buffer'.deferred = FALSE /\ ToSet(client'[d].view) \subseteq Numbered
    <3>1. d \in Clients /\ d # c
      BY <2>2, <2>4, <2>7 DEF In
    <3>2. d \in In(client)
      BY <2>3, <2>7, <3>1 DEF In
    <3>3. buffer' = buffer
      BY <1>5, <2>1, <3>2
    <3> QED
      BY <1>2, <2>3, <2>7, <3>1, <3>2, <3>3 DEF StartOK
  <2>8. StartOK(client', buffer', turn, Numbered)
    BY <2>5, <2>6, <2>7 DEF StartOK
  <2>9. StartOK(client', buffer', turn, Numbered')
    BY <1>2, <2>8, StartStays
  <2> QED
    BY <1>3, <2>1, <2>9
<1>10. ASSUME NEW clients \in [Clients -> ClientStates], Subscribed # {}, In(clients) \subseteq In(client),
              \A d \in Clients : /\ clients[d].at = "away" => client[d].at = "away"
                                 /\ clients[d].view = client[d].view /\ ~Over(clients[d]) => ~Over(client[d])
                                 /\ Opens(client[d].view) => Opens(clients[d].view)
                                 /\ clients[d].view = client[d].view \/ Over(clients[d]),
              NEW hs \in BOOLEAN, Left(clients, buffer, hs)
       PROVE  StartInv'
  <2>1. ~(Alone /\ turn # 0)
    BY <1>2, <1>5, <1>10 DEF StartOK, In
  <2>2. turn = 0 \/ Alone => \A d \in Clients : Opens(clients[d].view)
    BY <1>2, <1>10 DEF StartOK
  <2>3. ASSUME turn = 0, NEW d \in In(clients), ~Over(clients[d]), clients[d].view # <<>>,
               Created \notin ToSet(clients[d].view)
        PROVE  buffer.deferred = FALSE /\ ToSet(clients[d].view) \subseteq Numbered
    <3>1. d \in In(client) /\ d \in Clients
      BY <1>10, <2>3 DEF In
    <3>2. clients[d].view = client[d].view /\ ~Over(client[d])
      BY <1>10, <2>3, <3>1
    <3> QED
      BY <1>2, <2>3, <3>1, <3>2 DEF StartOK
  <2>4. StartOK(clients, buffer, turn, Numbered)
    BY <2>1, <2>2, <2>3 DEF StartOK
  <2> QED
    BY <1>1, <1>2, <1>10, <2>4, LeavingKeepsStart
<1>11. ASSUME NEW c \in Clients, Ready(c) PROVE StartInv'
  <2>1. client[c].at = "reading" /\ c \in In(client)
    BY <1>11 DEF Ready, In
  <2>2. CASE attached = TRUE
    <3> DEFINE clients == InPlace(c, client)
    <3>1. Left(clients, buffer, TRUE)
      BY <1>11, <2>2 DEF Ready
    <3>2. /\ clients \in [Clients -> ClientStates]
          /\ clients[c].at = "attached"
          /\ \A d \in Clients :
               LET x == clients[d]
                   k == client[d]
               IN  /\ x.view = k.view /\ x.defers = k.defers /\ x.served = k.served /\ x.checked = k.checked
                   /\ k.told = TRUE => x.told = TRUE
                   /\ d # c => x = k
      BY <1>0, InPlaceClients
    <3> HIDE DEF clients
    <3>3. \A d \in Clients : ~Over(clients[d]) => ~Over(client[d])
      BY <1>1, <3>2, OverGrows
    <3>4. In(clients) \subseteq In(client)
      BY <2>1, <3>2 DEF In
    <3> QED
      BY <1>1, <1>5, <1>10, <2>1, <3>1, <3>2, <3>3, <3>4
  <2>3. CASE attached = FALSE
    <3> DEFINE clients == [client EXCEPT ![c].at = "booting"]
    <3>1. Left(clients, buffer, TRUE)
      BY <1>11, <2>3 DEF Ready
    <3>2. "booting" \in Places
      BY DEF Places
    <3>3. /\ clients \in [Clients -> ClientStates]
          /\ \A d \in Clients : /\ clients[d].at = IF d = c THEN "booting" ELSE client[d].at
                                /\ clients[d].view = client[d].view /\ clients[d].told = client[d].told
      BY <1>1, <3>2, MovedClient
    <3> HIDE DEF clients
    <3>4. \A d \in Clients : ~Over(clients[d]) => ~Over(client[d])
      BY <3>3 DEF Over
    <3>5. In(clients) \subseteq In(client)
      BY <2>1, <3>3 DEF In
    <3> QED
      BY <1>1, <1>5, <1>10, <2>1, <3>1, <3>3, <3>4, <3>5
  <2> QED
    BY <1>1, <2>2, <2>3
<1>12. ASSUME NEW c \in Clients, Replaying(c) PROVE StartInv'
  <2>1. PICK out, frontier :
           /\ out \in Seq(Events) /\ Replayed(out)
           /\ \/ early # <<>> /\ out = early
              \/ early # <<>> /\ client[c].defers = FALSE
              \/ early = <<>> /\ out = <<Created>>
           /\ frontier \in Int /\ frontier >= NoFrontier
           /\ early # <<>> /\ client[c].defers = TRUE /\ ReplayTo # {} =>
                \A e \in ToSet(early) \cap Numbered : seqOf[e] < frontier
           /\ boot' = [boot EXCEPT ![c] = [boot[c] EXCEPT !.step = "read", !.frontier = frontier]]
           /\ early' = <<>> /\ closed' = TRUE
           /\ boot[c].step \in {"check", "heir"}
           /\ \/ turn = boot[c].turn /\ ToSet(early) \subseteq answered /\ outlived' = outlived
              \/ turn # boot[c].turn /\ outlived' = TRUE
           /\ UNCHANGED <<outside, run, buffer, overflowed, attached, turn, missing>>
    BY <1>12, Replays DEF Replaying
  <2>2. client[c].defers = TRUE /\ Busy(boot, c)
    BY <2>1 DEF HeldInv, HeldOK, Busy
  <2>3. Rising(out) /\ (turn = 0 => Created \in ToSet(out))
    <3>1. CASE out = early /\ early # <<>>
      <4>1. 1 \in DOMAIN early
        BY <1>1, <3>1
      <4>2. turn = 0 => early[1] = Created
        BY <4>1 DEF FirstEarly, Created
      <4> QED
        BY <3>1, <4>1, <4>2 DEF EarlyInv, ToSet
    <3>2. CASE out = <<Created>>
      <4>1. DOMAIN out = {1} /\ out[1] = Created
        BY <3>2
      <4> QED
        BY <4>1 DEF Rising, ToSet
    <3> QED
      BY <2>1, <2>2, <3>1, <3>2
  <2>4. /\ client' \in [Clients -> ClientStates] /\ buffer' = buffer /\ turn' = turn
        /\ \A d \in Clients : /\ client'[d].at = client[d].at /\ client'[d].told = client[d].told
                              /\ client'[d].view = client[d].view
                                 \/ (d \in Subscribed /\ client'[d].view = client[d].view \o Shown(d, out))
    BY <2>1 DEF Replayed
  <2>5. ASSUME turn = 0, NEW d \in Subscribed, client'[d].view = client[d].view \o Shown(d, out)
        PROVE  /\ Opens(client'[d].view)
               /\ Over(client'[d]) \/ Created \in ToSet(client'[d].view)
    <3> DEFINE k == client[d].view
               v == client'[d].view
    <3>1. d \in Clients /\ d \in Initial /\ k \in Seq(Events) /\ buffer.deferred = TRUE /\ d \in In(client)
      <4>1. d \in Clients /\ d \in In(client)
        BY <1>5, <2>5 DEF In
      <4>2. buffer.deferred = TRUE
        BY <1>6, <2>2, <2>5
      <4> QED
        BY <1>1, <1>4, <4>1, <4>2
    <3>2. Opens(k)
      BY <1>2, <2>5, <3>1 DEF StartOK
    <3>3. Closed(d) \/ k = <<>> \/ Created \in ToSet(k)
      BY <1>2, <2>5, <3>1 DEF StartOK, Closed
    <3>4. Opens(v)
      BY <2>1, <2>3, <2>5, <3>1, <3>2, <3>3, ShowingOpens
    <3>5. CASE Closed(d)
      <4>1. ToSet(k) \subseteq ToSet(v)
        <5>1. Shown(d, out) \in Seq(Events)
          BY <2>1, <3>1, ShownIsPart
        <5> QED
          BY <2>5, <3>1, <5>1, Joined
      <4>2. client'[d] \in ClientStates /\ client[d] \in ClientStates
        BY <1>1, <2>4, <3>1
      <4>3. Over(client'[d])
        BY <2>4, <3>1, <3>5, <4>1, <4>2, OverGrows DEF Closed
      <4> QED
        BY <3>4, <4>3
    <3>6. CASE ~Closed(d)
      <4>1. ToSet(v) = ToSet(k) \cup ToSet(out)
        BY <2>1, <2>5, <3>1, <3>6, ShownInFull
      <4> QED
        BY <2>3, <2>5, <3>4, <4>1
    <3> QED
      BY <3>5, <3>6
  <2>6. CASE turn = 0
    <3>1. \A d \in Clients : Opens(client'[d].view)
      BY <1>2, <2>4, <2>5, <2>6 DEF StartOK
    <3>2. ASSUME NEW d \in In(client'), ~Over(client'[d]), client'[d].view # <<>>,
                 Created \notin ToSet(client'[d].view)
          PROVE  buffer.deferred = FALSE /\ ToSet(client'[d].view) \subseteq Numbered
      <4>1. d \in Clients /\ d \in In(client) /\ d \in Subscribed
        BY <1>5, <2>4, <3>2 DEF In
      <4>2. client'[d].view = client[d].view
        BY <2>4, <2>5, <2>6, <3>2, <4>1
      <4>3. ~Over(client[d])
        BY <2>4, <3>2, <4>1, <4>2 DEF Over
      <4> QED
        BY <1>2, <2>6, <3>2, <4>1, <4>2, <4>3 DEF StartOK
    <3>3. StartOK(client', buffer, turn, Numbered)
      BY <2>6, <3>1, <3>2 DEF StartOK
    <3>4. StartOK(client', buffer, turn, Numbered')
      BY <1>2, <3>3, StartStays
    <3> QED
      BY <1>3, <2>4, <3>4
  <2>7. CASE turn # 0
    <3>1. Alone => \A d \in Clients : d \notin Subscribed
      BY <1>2, <1>5, <2>7 DEF StartOK, In
    <3>2. Alone => \A d \in Clients : client'[d].at = "left" /\ Opens(client'[d].view)
      BY <1>2, <2>4, <2>7, <3>1 DEF StartOK
    <3>3. StartOK(client', buffer', turn', Numbered')
      BY <2>4, <2>7, <3>2 DEF StartOK
    <3> QED
      BY <1>3, <3>3
  <2> QED
    BY <2>6, <2>7
<1>13. ASSUME NEW c \in Clients, Proceeds(c) \/ Abandoned(c) \/ ReadCounter(c) PROVE StartInv'
  <2>1. client' = client /\ buffer' = buffer /\ turn' = turn
    BY <1>13 DEF Proceeds, Abandoned, ReadCounter, runtime
  <2>2. StartOK(client, buffer, turn, Numbered')
    BY <1>2, StartStays
  <2>3. StartOK(client', buffer', turn', Numbered')
    BY <2>1, <2>2
  <2> QED
    BY <1>3, <2>3
<1>14. ASSUME NEW c \in Clients, ApplyCounter(c) \/ ReadFails(c) PROVE StartInv'
  <2>1. PICK r, clients :
           /\ Handles(buffer, r) /\ r.buffer.deferred = FALSE
           /\ buffer.deferred = TRUE => /\ boot[c].frontier <= r.buffer.next
                                        /\ \A i \in DOMAIN r.out : boot[c].frontier <= seqOf[r.out[i]]
           /\ Given(clients, r.out)
           /\ \A d \in Clients : clients[d].at = IF d = c /\ client[c].at = "booting" THEN "attached"
                                                 ELSE client[d].at
           /\ Left(clients, r.buffer, attached)
           /\ boot[c].step \in {"read", "apply"}
           /\ boot' = [boot EXCEPT ![c] = NoBoot] /\ early' = early /\ closed' = closed
           /\ missing' = missing /\ Resumes(c, r)
    BY <1>14, Synchronizing
  <2>2. clients \in [Clients -> ClientStates]
    BY <2>1 DEF Given
  <2>3. \A d \in Clients : /\ clients[d].at = "away" => client[d].at = "away"
                           /\ client[d].at = "left" => clients[d].at = "left"
    BY <2>1
  <2>4. In(clients) = Subscribed
    BY <1>5, <2>1 DEF In
  <2>5. StartOK(clients, r.buffer, turn, Numbered)
    <3>1. CASE Subscribed = {} \/ turn = 0
      BY <2>1, <2>3, <2>4, <3>1, GivingKeepsStart
    <3>2. CASE turn # 0 /\ Subscribed # {}
      <4>1. ~Alone
        BY <1>2, <1>5, <3>2 DEF StartOK, In
      <4> QED
        BY <3>2, <4>1 DEF StartOK
    <3> QED
      BY <3>1, <3>2
  <2> QED
    BY <1>1, <1>2, <2>1, <2>2, <2>3, <2>5, LeavingKeepsStart
<1>15. ASSUME NEW c \in Clients, CheckStored(c) PROVE StartInv'
  <2> DEFINE clients == CheckedFor(c)
  <2>1. Left(clients, buffer, attached) /\ c \in In(client)
    BY <1>15 DEF CheckStored, CheckedFor, In
  <2>2. /\ clients \in [Clients -> ClientStates]
        /\ \A d \in Clients : /\ clients[d].at = client[d].at /\ clients[d].told = client[d].told
                              /\ d # c => clients[d].view = client[d].view
        /\ clients[c].view = IF emitted = LastEvent /\ ~Closed(c)
                                      THEN Append(client[c].view, LastEvent) ELSE client[c].view
    BY <1>1, CheckedClients
  <2> HIDE DEF clients
  <2>3. In(clients) = In(client)
    BY <2>2 DEF In
  <2>4. \A d \in Clients : clients[d].view = client[d].view /\ ~Over(clients[d]) => ~Over(client[d])
    BY <2>2 DEF Over
  <2>5. CASE clients[c].view = client[c].view
    BY <1>1, <1>5, <1>10, <2>1, <2>2, <2>3, <2>4, <2>5
  <2>6. CASE clients[c].view = Append(client[c].view, LastEvent)
    <3> DEFINE k == client[c].view
               v == Append(k, LastEvent)
    <3>1. k \in Seq(Events) /\ LastEvent \in Events /\ LastEvent # Created
      BY <1>4, BoundsAssumption DEF Events, Created
    <3> HIDE DEF k
    <3>2. ToSet(v) = ToSet(k) \cup {LastEvent}
      BY <3>1, AppendedSet
    <3>3. /\ DOMAIN v = DOMAIN k \cup {Len(k) + 1} /\ v[Len(k) + 1] = LastEvent
          /\ \A i \in DOMAIN k : v[i] = k[i]
      BY <3>1, ListSteps
    <3> HIDE DEF v
    <3>4. Opens(k) => Opens(v)
      BY <3>1, <3>3 DEF Opens
    <3>5. clients[c].view = v /\ client[c].view = k
      BY <2>6 DEF v, k
    <3>6. Over(clients[c])
      BY <3>2, <3>5 DEF Over
    <3> QED
      BY <1>1, <1>5, <1>10, <2>1, <2>2, <2>3, <2>4, <3>4, <3>5, <3>6
  <2> QED
    BY <2>2, <2>5, <2>6
<1>16. ASSUME NEW c \in Clients, Departs(c) PROVE StartInv'
  <2> DEFINE clients == [client EXCEPT ![c].at = "left"]
  <2>1. Left(clients, buffer, attached) /\ c \in Subscribed
    BY <1>16 DEF Departs
  <2>2. "left" \in Places
    BY DEF Places
  <2>3. /\ clients \in [Clients -> ClientStates]
        /\ \A d \in Clients : /\ clients[d].at = IF d = c THEN "left" ELSE client[d].at
                              /\ clients[d].view = client[d].view /\ clients[d].told = client[d].told
    BY <1>1, <2>2, MovedClient
  <2> HIDE DEF clients
  <2>4. In(clients) \subseteq In(client)
    BY <2>3 DEF In
  <2>5. \A d \in Clients : ~Over(clients[d]) => ~Over(client[d])
    BY <2>3 DEF Over
  <2> QED
    BY <1>1, <1>10, <2>1, <2>3, <2>4, <2>5
<1> QED
  BY <1>7, <1>8, <1>9, <1>11, <1>12, <1>13, <1>14, <1>15, <1>16, ClientSteps

LEMMA StartInit == Init => StartInv
<1> SUFFICES ASSUME Init PROVE StartInv
  OBVIOUS
<1>1. client = [c \in Clients |-> NewClient] /\ turn = 0
  BY DEF Init
<1>2. \A c \in Clients : client[c].at = "away" /\ client[c].view = <<>>
  BY <1>1 DEF NewClient
<1>3. In(client) = {}
  BY <1>2 DEF In
<1>4. \A c \in Clients : Opens(client[c].view)
  BY <1>2 DEF Opens
<1> QED
  BY <1>1, <1>3, <1>4 DEF StartInv, StartOK

\* Created stays the first event a client is shown (attachSubscription,
\* deliverEarlyEvents), whether it is replayed, rebuilt from the job's metadata or
\* comes through Redis: for any number of clients as long as the first attachment
\* lasts, and to the end if there is one client.  No client resumes.  With a second
\* attachment it is false, as the counter read of the first one opens its fence.
THEOREM CreatedComesFirst ==
  ASSUME Resuming = {}
  PROVE  Spec => [](turn = 0 \/ Alone => CreatedFirst)
<1> DEFINE Base == /\ BaseInv /\ FenceInv /\ EarlyInv /\ HeldInv /\ FirstEarly /\ FirstInv /\ StartInv
                   /\ LateInv /\ (turn = 0 => OrderInv)
<1>1. Init => Base
  BY BaseInit, FenceInit, ListsInit, WholeInit, StartInit DEF LateInv, Init
<1>2. Base /\ [Next]_vars => Base'
  <2> SUFFICES ASSUME Base, [Next]_vars PROVE Base'
    OBVIOUS
  <2>1. /\ BaseInv' /\ FenceInv' /\ EarlyInv' /\ HeldInv' /\ FirstEarly' /\ FirstInv' /\ StartInv'
        /\ LateInv'
    BY BaseStep, FenceStep, EarlyStep, HeldStep, FirstEarlyStep, FirstStep, StartStep, LateStep
  <2>2. turn' = 0 => OrderInv'
    BY <2>1, FirstOrderStep
  <2> QED
    BY <2>1, <2>2
<1>3. Base => (turn = 0 \/ Alone => CreatedFirst)
  BY DEF StartInv, StartOK, Opens, CreatedFirst
<1> QED
  BY <1>1, <1>2, <1>3, PTL DEF Spec
=============================================================================
