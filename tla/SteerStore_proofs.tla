-------------------------- MODULE SteerStore_proofs --------------------------
(***************************************************************************)
(* Proofs about SteerStore, for any set of steers and any bounds.          *)
(***************************************************************************)
EXTENDS SteerStore, SequenceTheorems, WellFoundedInduction, TLAPS

-----------------------------------------------------------------------------
(***************************************************************************)
(* What Without returns.  It is a recursive function; that it is defined,  *)
(* and what it yields for every list, follows from the least index at      *)
(* which it would go wrong.                                                *)
(***************************************************************************)

\* A set of numbers that is not empty has a least member.
LEMMA LeastNumber ==
  ASSUME NEW T, T \subseteq Nat, T # {}
  PROVE  \E x \in T : \A y \in T : x <= y
<1> DEFINE R == OpToRel(<, Nat)
<1>1. IsWellFoundedOn(R, Nat)
  BY NatLessThanWellFounded
<1>2. \A x, y \in Nat : y < x => <<y, x>> \in R
  BY DEF OpToRel
<1> HIDE DEF R
<1>3. PICK x \in T : \A y \in T : <<y, x>> \notin R
  BY <1>1, WFMin
<1>4. \A y \in T : ~(y < x)
  BY <1>2, <1>3
<1>5. \A y \in T : x <= y
  BY <1>4
<1> QED
  BY <1>5

\* The function that Without is built from, up to the index m.
KeptUpTo(f, seq, S, m) ==
  f = [i \in 0 .. m |-> IF i = 0 THEN <<>>
                        ELSE IF seq[i] \in S THEN f[i - 1] ELSE Append(f[i - 1], seq[i])]

LEMMA KeptExists ==
  ASSUME NEW seq, NEW S, NEW n \in Nat
  PROVE  \E f : KeptUpTo(f, seq, S, n)
<1> DEFINE Missing == {m \in Nat : ~\E f : KeptUpTo(f, seq, S, m)}
<1> SUFFICES Missing = {}
  OBVIOUS
<1> SUFFICES ASSUME Missing # {} PROVE FALSE
  OBVIOUS
<1>1. PICK m \in Missing : \A k \in Missing : m <= k
  BY LeastNumber
<1>2. m # 0
  <2> DEFINE f == [i \in 0 .. 0 |-> <<>>]
  <2>1. KeptUpTo(f, seq, S, 0)
    BY DEF KeptUpTo
  <2> QED
    BY <1>1, <2>1
<1>3. m - 1 \in Nat /\ m - 1 \notin Missing
  BY <1>1, <1>2
<1>4. PICK f : KeptUpTo(f, seq, S, m - 1)
  BY <1>3
<1> DEFINE e == IF seq[m] \in S THEN f[m - 1] ELSE Append(f[m - 1], seq[m])
           g == [i \in 0 .. m |-> IF i = m THEN e ELSE f[i]]
<1>5. \A i \in 0 .. m : g[i] = IF i = 0 THEN <<>>
                               ELSE IF seq[i] \in S THEN g[i - 1] ELSE Append(g[i - 1], seq[i])
  <2> SUFFICES ASSUME NEW i \in 0 .. m
               PROVE  g[i] = IF i = 0 THEN <<>>
                             ELSE IF seq[i] \in S THEN g[i - 1] ELSE Append(g[i - 1], seq[i])
    OBVIOUS
  <2>1. CASE i = m
    <3>1. g[i] = e /\ g[i - 1] = f[m - 1] /\ i # 0
      BY <1>1, <1>2, <2>1
    <3> QED
      BY <2>1, <3>1
  <2>2. CASE i # m
    <3>1. i \in 0 .. (m - 1) /\ g[i] = f[i] /\ (i # 0 => g[i - 1] = f[i - 1])
      BY <1>1, <2>2
    <3>2. f[i] = IF i = 0 THEN <<>>
                 ELSE IF seq[i] \in S THEN f[i - 1] ELSE Append(f[i - 1], seq[i])
      BY <1>4, <3>1 DEF KeptUpTo
    <3> QED
      BY <3>1, <3>2
  <2> QED
    BY <2>1, <2>2
<1>6. KeptUpTo(g, seq, S, m)
  <2> HIDE DEF e
  <2>1. g = [i \in 0 .. m |-> g[i]]
    OBVIOUS
  <2> HIDE DEF g
  <2> QED
    BY <1>5, <2>1 DEF KeptUpTo
<1> QED
  BY <1>1, <1>6

LEMMA WithoutIsKept ==
  ASSUME NEW seq, NEW S, Len(seq) \in Nat
  PROVE  \E f : KeptUpTo(f, seq, S, Len(seq)) /\ Without(seq, S) = f[Len(seq)]
<1> DEFINE kept == CHOOSE f : f = [i \in 0 .. Len(seq) |->
                     IF i = 0 THEN <<>>
                     ELSE IF seq[i] \in S THEN f[i - 1] ELSE Append(f[i - 1], seq[i])]
<1>1. \E f : f = [i \in 0 .. Len(seq) |->
                     IF i = 0 THEN <<>>
                     ELSE IF seq[i] \in S THEN f[i - 1] ELSE Append(f[i - 1], seq[i])]
  <2>1. \E f : KeptUpTo(f, seq, S, Len(seq))
    BY KeptExists
  <2> QED
    BY <2>1 DEF KeptUpTo
<1>2. kept = [i \in 0 .. Len(seq) |->
                     IF i = 0 THEN <<>>
                     ELSE IF seq[i] \in S THEN kept[i - 1] ELSE Append(kept[i - 1], seq[i])]
  BY <1>1, Zenon
<1>3. Without(seq, S) = kept[Len(seq)]
  BY DEF Without
<1> HIDE DEF kept
<1> QED
  BY <1>2, <1>3 DEF KeptUpTo

\* Part of a list, in the order of the list: without S, every member kept.
LEMMA WithoutProperties ==
  ASSUME NEW T, NEW seq \in Seq(T), NEW S
  PROVE  /\ Without(seq, S) \in Seq(T)
         /\ ToSet(Without(seq, S)) = ToSet(seq) \ S
         /\ \A i, j \in DOMAIN Without(seq, S) : i < j =>
              \E k, l \in DOMAIN seq : k < l /\ Without(seq, S)[i] = seq[k] /\ Without(seq, S)[j] = seq[l]
<1>1. Len(seq) \in Nat /\ DOMAIN seq = 1 .. Len(seq)
  OBVIOUS
<1>2. PICK f : KeptUpTo(f, seq, S, Len(seq)) /\ Without(seq, S) = f[Len(seq)]
  BY <1>1, WithoutIsKept
<1> DEFINE Good(n) ==
      /\ f[n] \in Seq(T)
      /\ \A x : x \in ToSet(f[n]) <=> x \notin S /\ \E k \in 1 .. n : x = seq[k]
      /\ \A i, j \in DOMAIN f[n] : i < j =>
           \E k, l \in 1 .. n : k < l /\ f[n][i] = seq[k] /\ f[n][j] = seq[l]
    Bad == {n \in 0 .. Len(seq) : ~Good(n)}
<1>3. /\ f[0] = <<>>
      /\ \A n \in 1 .. Len(seq) : f[n] = IF seq[n] \in S THEN f[n - 1] ELSE Append(f[n - 1], seq[n])
  <2>1. \A n \in 0 .. Len(seq) : f[n] = IF n = 0 THEN <<>>
                                        ELSE IF seq[n] \in S THEN f[n - 1] ELSE Append(f[n - 1], seq[n])
    BY <1>1, <1>2 DEF KeptUpTo
  <2> QED
    BY <1>1, <2>1
<1>4. Good(0)
  BY <1>3 DEF ToSet
<1>5. ASSUME NEW n \in 1 .. Len(seq), Good(n - 1) PROVE Good(n)
  <2>1. seq[n] \in T /\ n \in Nat /\ n - 1 \in Nat
    BY <1>1
  <2>2. CASE seq[n] \in S
    <3>1. f[n] = f[n - 1]
      BY <1>3, <2>2
    <3>2. \A x : (\E k \in 1 .. n : x = seq[k]) <=> x = seq[n] \/ \E k \in 1 .. (n - 1) : x = seq[k]
      BY <1>5, <2>1
    <3>3. 1 .. (n - 1) \subseteq 1 .. n
      BY <2>1
    <3> HIDE DEF Bad
    <3> QED
      BY <1>5, <2>2, <3>1, <3>2, <3>3
  <2>3. CASE seq[n] \notin S
    <3> DEFINE b == f[n - 1]  a == Append(b, seq[n])
    <3>1. f[n] = a
      BY <1>3, <2>3
    <3>2. b \in Seq(T) /\ Len(b) \in Nat /\ DOMAIN b = 1 .. Len(b)
      BY <1>5
    <3>3. /\ a \in Seq(T) /\ DOMAIN a = 1 .. (Len(b) + 1)
          /\ \A i \in 1 .. Len(b) : a[i] = b[i]
          /\ a[Len(b) + 1] = seq[n]
      <4> HIDE DEF b
      <4> QED
        BY <2>1, <3>2, AppendProperties
    <3> HIDE DEF a, b, Bad
    <3>4. ASSUME NEW x PROVE x \in ToSet(a) <=> x \in ToSet(b) \/ x = seq[n]
      BY <3>2, <3>3 DEF ToSet
    <3>5. \A x : (\E k \in 1 .. n : x = seq[k]) <=> x = seq[n] \/ \E k \in 1 .. (n - 1) : x = seq[k]
      BY <1>5, <2>1
    <3>6. \A i \in DOMAIN b : \E k \in 1 .. (n - 1) : b[i] = seq[k]
      BY <1>5 DEF ToSet, b
    <3>7. ASSUME NEW i \in DOMAIN a, NEW j \in DOMAIN a, i < j
          PROVE  \E k, l \in 1 .. n : k < l /\ a[i] = seq[k] /\ a[j] = seq[l]
      <4>1. i \in 1 .. Len(b) /\ (j \in 1 .. Len(b) \/ j = Len(b) + 1)
        BY <3>2, <3>3, <3>7
      <4>2. CASE j \in 1 .. Len(b)
        <5>1. \E k, l \in 1 .. (n - 1) : k < l /\ b[i] = seq[k] /\ b[j] = seq[l]
          BY <1>5, <3>2, <3>7, <4>1, <4>2 DEF b
        <5> QED
          BY <2>1, <3>3, <4>1, <4>2, <5>1
      <4>3. CASE j = Len(b) + 1
        <5>1. PICK k \in 1 .. (n - 1) : b[i] = seq[k]
          BY <3>2, <3>6, <4>1
        <5>2. k \in 1 .. n /\ n \in 1 .. n /\ k < n
          BY <2>1
        <5> QED
          BY <3>3, <4>1, <4>3, <5>1, <5>2
      <4> QED
        BY <4>1, <4>2, <4>3
    <3>8. \A x : x \in ToSet(b) <=> x \notin S /\ \E k \in 1 .. (n - 1) : x = seq[k]
      BY <1>5 DEF b
    <3>9. \A x : x \in ToSet(a) <=> x \notin S /\ \E k \in 1 .. n : x = seq[k]
      BY <2>3, <3>4, <3>5, <3>8
    <3> QED
      BY <3>1, <3>3, <3>7, <3>9
  <2> QED
    BY <2>2, <2>3
<1> HIDE DEF Good
<1>6. Bad = {}
  <2> SUFFICES ASSUME Bad # {} PROVE FALSE
    OBVIOUS
  <2>1. Bad \subseteq Nat
    OBVIOUS
  <2>2. PICK m \in Bad : \A k \in Bad : m <= k
    BY <2>1, LeastNumber
  <2>3. m \in 1 .. Len(seq) /\ m - 1 \in 0 .. Len(seq) /\ ~(m <= m - 1)
    BY <1>1, <1>4, <2>2
  <2>4. Good(m - 1)
    BY <2>2, <2>3
  <2> QED
    BY <1>5, <2>2, <2>3, <2>4
<1>7. Good(Len(seq))
  BY <1>1, <1>6
<1> DEFINE w == Without(seq, S)
<1>8. /\ w \in Seq(T)
      /\ \A x : x \in ToSet(w) <=> x \notin S /\ \E k \in 1 .. Len(seq) : x = seq[k]
      /\ \A i, j \in DOMAIN w : i < j =>
           \E k, l \in 1 .. Len(seq) : k < l /\ w[i] = seq[k] /\ w[j] = seq[l]
  <2>1. w = f[Len(seq)]
    BY <1>2
  <2> HIDE DEF w
  <2> QED
    BY <1>7, <2>1 DEF Good
<1> HIDE DEF w
<1>9. \A x : x \in ToSet(seq) <=> \E k \in 1 .. Len(seq) : x = seq[k]
  BY <1>1 DEF ToSet
<1>10. ToSet(w) = ToSet(seq) \ S
  BY <1>8, <1>9
<1> QED
  BY <1>1, <1>8, <1>10 DEF w

\* The members of the lists the actions build.
LEMMA AppendMembers ==
  ASSUME NEW T, NEW seq \in Seq(T), NEW x \in T
  PROVE  /\ Append(seq, x) \in Seq(T)
         /\ ToSet(Append(seq, x)) = ToSet(seq) \cup {x}
         /\ IsInjective(seq) /\ x \notin ToSet(seq) => IsInjective(Append(seq, x))
<1> DEFINE a == Append(seq, x)
<1>1. /\ a \in Seq(T) /\ DOMAIN a = 1 .. (Len(seq) + 1) /\ DOMAIN seq = 1 .. Len(seq) /\ Len(seq) \in Nat
      /\ \A i \in 1 .. Len(seq) : a[i] = seq[i]
      /\ a[Len(seq) + 1] = x
  BY AppendProperties
<1> HIDE DEF a
<1>2. \A y : y \in ToSet(a) <=> y \in ToSet(seq) \/ y = x
  BY <1>1 DEF ToSet
<1>3. ASSUME IsInjective(seq), x \notin ToSet(seq) PROVE IsInjective(a)
  <2>1. \A i \in 1 .. Len(seq) : seq[i] # x
    BY <1>1, <1>3 DEF ToSet
  <2>2. \A i, j \in 1 .. Len(seq) : seq[i] = seq[j] => i = j
    BY <1>1, <1>3 DEF IsInjective
  <2>3. \A i \in 1 .. (Len(seq) + 1) : i \in 1 .. Len(seq) \/ i = Len(seq) + 1
    BY <1>1
  <2>4. \A i, j \in 1 .. (Len(seq) + 1) : a[i] = a[j] => i = j
    BY <1>1, <2>1, <2>2, <2>3
  <2> QED
    BY <1>1, <2>4 DEF IsInjective
<1> QED
  BY <1>1, <1>2, <1>3 DEF a

LEMMA ConcatMembers ==
  ASSUME NEW T, NEW s1 \in Seq(T), NEW s2 \in Seq(T)
  PROVE  /\ s1 \o s2 \in Seq(T)
         /\ ToSet(s1 \o s2) = ToSet(s1) \cup ToSet(s2)
         /\ IsInjective(s1) /\ IsInjective(s2) /\ ToSet(s1) \cap ToSet(s2) = {} => IsInjective(s1 \o s2)
<1> DEFINE c == s1 \o s2
<1>1. /\ c \in Seq(T) /\ DOMAIN c = 1 .. (Len(s1) + Len(s2)) /\ Len(s1) \in Nat /\ Len(s2) \in Nat
      /\ DOMAIN s1 = 1 .. Len(s1) /\ DOMAIN s2 = 1 .. Len(s2)
      /\ \A i \in 1 .. Len(s1) : c[i] = s1[i]
      /\ \A i \in 1 .. Len(s2) : c[Len(s1) + i] = s2[i]
  BY ConcatProperties
<1> HIDE DEF c
<1>2. \A i \in DOMAIN c : i \in 1 .. Len(s1) \/ \E k \in 1 .. Len(s2) : i = Len(s1) + k
  <2> SUFFICES ASSUME NEW i \in DOMAIN c, i \notin 1 .. Len(s1)
               PROVE  \E k \in 1 .. Len(s2) : i = Len(s1) + k
    OBVIOUS
  <2>1. i - Len(s1) \in 1 .. Len(s2) /\ i = Len(s1) + (i - Len(s1))
    BY <1>1
  <2> QED
    BY <2>1
<1>3. \A k \in 1 .. Len(s2) : Len(s1) + k \in DOMAIN c
  BY <1>1
<1>4. \A i \in 1 .. Len(s1) : i \in DOMAIN c
  BY <1>1
<1>5. \A y : y \in ToSet(c) <=> y \in ToSet(s1) \/ y \in ToSet(s2)
  <2>1. ASSUME NEW i \in DOMAIN c PROVE c[i] \in ToSet(s1) \/ c[i] \in ToSet(s2)
    BY <1>1, <1>2 DEF ToSet
  <2>2. ASSUME NEW i \in DOMAIN s1 PROVE s1[i] \in ToSet(c)
    BY <1>1, <1>4 DEF ToSet
  <2>3. ASSUME NEW k \in DOMAIN s2 PROVE s2[k] \in ToSet(c)
    BY <1>1, <1>3 DEF ToSet
  <2> QED
    BY <2>1, <2>2, <2>3 DEF ToSet
<1>6. ASSUME IsInjective(s1), IsInjective(s2), ToSet(s1) \cap ToSet(s2) = {} PROVE IsInjective(c)
  <2>1. \A i \in 1 .. Len(s1), k \in 1 .. Len(s2) : s1[i] # s2[k]
    BY <1>1, <1>6 DEF ToSet
  <2>2. /\ \A i, j \in 1 .. Len(s1) : s1[i] = s1[j] => i = j
        /\ \A i, j \in 1 .. Len(s2) : s2[i] = s2[j] => i = j
    BY <1>1, <1>6 DEF IsInjective
  <2>3. \A i, j \in DOMAIN c : c[i] = c[j] => i = j
    BY <1>1, <1>2, <2>1, <2>2
  <2> QED
    BY <2>3 DEF IsInjective
<1> QED
  BY <1>1, <1>5, <1>6 DEF c

LEMMA TailMembers ==
  ASSUME NEW T, NEW seq \in Seq(T), seq # <<>>, IsInjective(seq)
  PROVE  /\ Tail(seq) \in Seq(T) /\ IsInjective(Tail(seq))
         /\ Head(seq) \in ToSet(seq)
         /\ ToSet(Tail(seq)) = ToSet(seq) \ {Head(seq)}
<1> DEFINE t == Tail(seq)
<1>1. /\ t \in Seq(T) /\ Len(seq) \in Nat /\ DOMAIN seq = 1 .. Len(seq) /\ Len(seq) # 0
      /\ DOMAIN t = 1 .. (Len(seq) - 1) /\ Head(seq) = seq[1]
      /\ \A i \in 1 .. (Len(seq) - 1) : t[i] = seq[i + 1]
  BY HeadTailProperties, EmptySeq, LenProperties
<1> HIDE DEF t
<1>2. \A i, j \in 1 .. Len(seq) : seq[i] = seq[j] => i = j
  BY <1>1 DEF IsInjective
<1>3. \A i \in 1 .. (Len(seq) - 1) : i + 1 \in 1 .. Len(seq) /\ i + 1 # 1
  BY <1>1
<1>4. \A i \in 1 .. Len(seq) : i = 1 \/ \E k \in 1 .. (Len(seq) - 1) : i = k + 1
  <2> SUFFICES ASSUME NEW i \in 1 .. Len(seq), i # 1 PROVE \E k \in 1 .. (Len(seq) - 1) : i = k + 1
    OBVIOUS
  <2>1. i - 1 \in 1 .. (Len(seq) - 1) /\ i = (i - 1) + 1
    BY <1>1
  <2> QED
    BY <2>1
<1>5. 1 \in DOMAIN seq
  BY <1>1
<1>6. \A y : y \in ToSet(t) <=> y \in ToSet(seq) /\ y # seq[1]
  <2>1. ASSUME NEW i \in DOMAIN t PROVE t[i] \in ToSet(seq) /\ t[i] # seq[1]
    BY <1>1, <1>2, <1>3, <1>5, <2>1 DEF ToSet
  <2>2. ASSUME NEW i \in DOMAIN seq, seq[i] # seq[1] PROVE seq[i] \in ToSet(t)
    <3>1. PICK k \in 1 .. (Len(seq) - 1) : i = k + 1
      BY <1>1, <1>4, <2>2
    <3>2. k \in DOMAIN t /\ t[k] = seq[i]
      BY <1>1, <3>1
    <3> QED
      BY <3>2 DEF ToSet
  <2> QED
    BY <2>1, <2>2 DEF ToSet
<1>7. Head(seq) \in ToSet(seq)
  BY <1>1, <1>5 DEF ToSet
<1>8. IsInjective(t)
  BY <1>1, <1>2, <1>3 DEF IsInjective
<1> QED
  BY <1>1, <1>6, <1>7, <1>8 DEF t

LEMMA WithoutMembers ==
  ASSUME NEW T, NEW seq \in Seq(T), IsInjective(seq), NEW S
  PROVE  /\ Without(seq, S) \in Seq(T) /\ IsInjective(Without(seq, S))
         /\ ToSet(Without(seq, S)) = ToSet(seq) \ S
<1> DEFINE w == Without(seq, S)
<1>1. /\ w \in Seq(T) /\ ToSet(w) = ToSet(seq) \ S
      /\ \A i, j \in DOMAIN w : i < j => \E k, l \in DOMAIN seq : k < l /\ w[i] = seq[k] /\ w[j] = seq[l]
  BY WithoutProperties
<1>2. DOMAIN seq = 1 .. Len(seq) /\ Len(seq) \in Nat
  OBVIOUS
<1> HIDE DEF w
<1>3. \A i, j \in DOMAIN w : i < j => w[i] # w[j]
  <2> SUFFICES ASSUME NEW i \in DOMAIN w, NEW j \in DOMAIN w, i < j PROVE w[i] # w[j]
    OBVIOUS
  <2>1. PICK k, l \in DOMAIN seq : k < l /\ w[i] = seq[k] /\ w[j] = seq[l]
    BY <1>1
  <2>2. k \in Nat /\ l \in Nat /\ k # l
    BY <1>2, <2>1
  <2> QED
    BY <2>1, <2>2 DEF IsInjective
<1>4. DOMAIN w = 1 .. Len(w) /\ Len(w) \in Nat
  BY <1>1
<1>5. \A i, j \in DOMAIN w : i # j => i < j \/ j < i
  BY <1>4
<1>6. IsInjective(w)
  BY <1>3, <1>5 DEF IsInjective
<1> QED
  BY <1>1, <1>6 DEF w

-----------------------------------------------------------------------------
(***************************************************************************)
(* Types and places.  The two hold together: no steer is twice in a list   *)
(* because its receipt names the one place it is in.                       *)
(***************************************************************************)
RunInv ==
  /\ row.createdAt <= epochs
  /\ row.status # "none" => row.createdAt \in Generations
  /\ \A g \in Generations :
       /\ IsInjective(batch[g].items)
       /\ batch[g].failed = TRUE => batch[g].items # <<>>
       /\ g > epochs => batch[g] = NoBatch /\ applied[g] = <<>>

\* A receipt exists from the acceptance on, and what lapsed stays unused.
HistoryInv ==
  \A s \in Steers :
    /\ receipts[s].state = "none" <=> s \notin ToSet(accepted)
    /\ s \in lapsed => s \notin parked /\ receipts[s].state \in {"leftover", "cancelled"}

PlaceInv == TypeOK /\ RunInv /\ IsInjective(accepted) /\ ReceiptsTellPlace /\ HistoryInv

LEMMA SettledReceipts ==
  ASSUME TypeOK, NEW S, NEW state \in ReceiptStates
  PROVE  /\ Settled(S, state) \in [Steers -> [state: ReceiptStates, generation: Nat]]
         /\ \A s \in Steers :
              /\ Settled(S, state)[s].generation = receipts[s].generation
              /\ Settled(S, state)[s].state = IF s \in S THEN state ELSE receipts[s].state
<1>1. receipts \in [Steers -> [state: ReceiptStates, generation: Nat]]
  BY DEF TypeOK
<1>2. \A s \in Steers : LET r == [receipts[s] EXCEPT !.state = state]
                        IN  r \in [state: ReceiptStates, generation: Nat] /\ r.state = state
                            /\ r.generation = receipts[s].generation
  BY <1>1
<1> QED
  BY <1>1, <1>2 DEF Settled

\* The empty list, which every generation starts from.
LEMMA NothingYet ==
  /\ <<>> \in Seq(Steers) /\ IsInjective(<<>>) /\ ToSet(<<>>) = {}
  /\ NoBatch.items = <<>> /\ NoBatch.failed = FALSE
  /\ NoBatch \in [items: Seq(Steers), failed: BOOLEAN]
  BY DEF IsInjective, ToSet, NoBatch

LEMMA NoRowTyped == NoRow \in Rows /\ NoRow.status = "none" /\ NoRow.createdAt = 0
  BY DEF NoRow, Rows

LEMMA PlaceInit == Init => PlaceInv
<1> SUFFICES ASSUME Init PROVE PlaceInv
  OBVIOUS
<1>1. TypeOK
  BY NothingYet, NoRowTyped, BoundsAssumption
  DEF Init, TypeOK, NoReceipt, ReceiptStates
<1>2. RunInv
  BY NothingYet, NoRowTyped DEF Init, RunInv, NoRow
<1>3. \A g \in Generations : ToSet(applied[g]) = {}
  BY NothingYet DEF Init
<1>4. \A s \in Steers : receipts[s].state = "none"
  BY DEF Init, NoReceipt
<1>5. ReceiptsTellPlace
  BY <1>3, <1>4, NothingYet DEF Init, ReceiptsTellPlace
<1>6. HistoryInv
  BY <1>4, NothingYet DEF Init, HistoryInv
<1> QED
  BY <1>1, <1>2, <1>5, <1>6, NothingYet DEF Init, PlaceInv

\* Parking: what no run will apply any more becomes a leftover.
LEMMA Parks ==
  ASSUME PlaceInv, ParkQueuedSteers, UNCHANGED <<batch, applied, history>>
  PROVE  /\ queue' = <<>> /\ claimed' = <<>>
         /\ receipts' \in [Steers -> [state: ReceiptStates, generation: Nat]]
         /\ parked' \subseteq Steers
         /\ ReceiptsTellPlace' /\ HistoryInv'
         /\ \A s \in Undelivered : receipts'[s].state = "leftover" /\ s \in parked'
         /\ \A s \in Steers \ Undelivered : receipts'[s].state = receipts[s].state /\ (s \in parked' <=> s \in parked)
<1>1. TypeOK /\ ReceiptsTellPlace /\ HistoryInv
  BY DEF PlaceInv
<1>2. Undelivered \subseteq Steers
  BY <1>1 DEF TypeOK, Undelivered, ToSet
<1>3. /\ queue' = <<>> /\ claimed' = <<>> /\ parked' = parked \cup Undelivered
      /\ receipts' = Settled(Undelivered, "leftover")
      /\ applied' = applied /\ batch' = batch /\ accepted' = accepted /\ recovered' = recovered
      /\ cancelled' = cancelled /\ lapsed' = lapsed
  BY DEF ParkQueuedSteers, history
<1>4. /\ receipts' \in [Steers -> [state: ReceiptStates, generation: Nat]]
      /\ \A s \in Steers : receipts'[s].state = IF s \in Undelivered THEN "leftover" ELSE receipts[s].state
  BY <1>1, <1>3, SettledReceipts DEF ReceiptStates
<1>5. \A s \in Steers : s \in Undelivered <=> receipts[s].state \in {"queued", "claimed"}
  BY <1>1 DEF ReceiptsTellPlace, Undelivered
<1>6. ReceiptsTellPlace'
  BY <1>1, <1>3, <1>4, <1>5, NothingYet DEF ReceiptsTellPlace
<1>7. HistoryInv'
  BY <1>1, <1>3, <1>4, <1>5 DEF HistoryInv
<1> QED
  BY <1>1, <1>2, <1>3, <1>4, <1>6, <1>7 DEF TypeOK

LEMMA PlaceCreates ==
  ASSUME PlaceInv, NEW r \in Steers \cup {NoSteer}, CreateJob(r)
  PROVE  PlaceInv'
<1>1. /\ epochs \in Nat /\ epochs < MaxGenerations /\ epochs' = epochs + 1
      /\ row' = [createdAt |-> epochs + 1, status |-> "running", recovered |-> r]
      /\ ParkQueuedSteers /\ UNCHANGED <<batch, applied, history>>
      /\ TypeOK /\ RunInv /\ MaxGenerations \in Nat
  BY BoundsAssumption DEF CreateJob, PlaceInv, TypeOK
<1>2. epochs' \in 0 .. MaxGenerations /\ epochs' \in Generations
  BY <1>1 DEF Generations
<1>3. row' \in Rows
  BY <1>1 DEF Rows, Active
<1>4. lease' \in [Steers -> Nat]
  BY <1>1 DEF CreateJob
<1>5. TypeOK'
  BY <1>1, <1>2, <1>3, <1>4, Parks, NothingYet DEF TypeOK, history
<1>6. RunInv'
  <2>1. row'.createdAt = epochs' /\ epochs' <= epochs' /\ batch' = batch /\ applied' = applied
    BY <1>1
  <2>2. \A g \in Generations : g > epochs' => g > epochs
    BY <1>1 DEF Generations
  <2> QED
    BY <1>1, <1>2, <2>1, <2>2 DEF RunInv
<1> QED
  BY <1>1, <1>5, <1>6, Parks DEF PlaceInv, history

LEMMA PlaceEnds ==
  ASSUME PlaceInv, Terminate \/ Reap
  PROVE  PlaceInv'
<1>1. /\ row \in Rows /\ epochs' = epochs /\ lease' = lease
      /\ ParkQueuedSteers /\ UNCHANGED <<batch, applied, history>>
      /\ TypeOK /\ RunInv
  BY DEF Terminate, Reap, PlaceInv, TypeOK
<1>2. row' \in Rows /\ row'.createdAt \in {0, row.createdAt}
      /\ (row'.status # "none" => row'.createdAt = row.createdAt /\ row.status # "none")
  BY <1>1, NoRowTyped DEF Terminate, Reap, Rows, Active
<1>3. TypeOK'
  BY <1>1, <1>2, Parks, NothingYet DEF TypeOK, history
<1>4. RunInv'
  <2>1. epochs \in Nat
    BY <1>1 DEF TypeOK
  <2> QED
    BY <1>1, <1>2, <2>1 DEF RunInv
<1> QED
  BY <1>1, <1>3, <1>4, Parks DEF PlaceInv, history

\* Pausing and resuming keep a row active; a row that ended holds no steers,
\* so that deleting it drops none.
LEMMA PlaceTurns ==
  ASSUME PlaceInv, Pause \/ Resume \/ DeleteJob
  PROVE  PlaceInv'
<1>1. TypeOK /\ RunInv /\ ReceiptsTellPlace /\ HistoryInv
  BY DEF PlaceInv
<1>2. /\ UNCHANGED <<epochs, receipts, parked, lease, batch, applied, history>>
      /\ row' \in Rows
      /\ row'.createdAt \in {0, row.createdAt}
      /\ row'.status # "none" => row'.createdAt = row.createdAt /\ row.status # "none"
      /\ row.status \in Active => row'.status \in Active /\ row'.createdAt = row.createdAt
  BY <1>1, NoRowTyped DEF Pause, Resume, DeleteJob, store, TypeOK, Rows, Active
<1>3. queue' = queue /\ claimed' = claimed
  <2>1. CASE Pause \/ Resume
    BY <2>1 DEF Pause, Resume, store
  <2>2. CASE DeleteJob
    <3>1. row.status \notin Active
      BY <2>2 DEF DeleteJob, Active
    <3>2. \A s \in Steers : s \notin ToSet(queue) /\ s \notin ToSet(claimed)
      BY <1>1, <3>1 DEF ReceiptsTellPlace
    <3>3. \A i : i \in DOMAIN queue => queue[i] \in Steers /\ queue[i] \in ToSet(queue)
      BY <1>1 DEF TypeOK, ToSet
    <3>4. \A i : i \in DOMAIN claimed => claimed[i] \in Steers /\ claimed[i] \in ToSet(claimed)
      BY <1>1 DEF TypeOK, ToSet
    <3>5. queue = <<>> /\ claimed = <<>>
      BY <1>1, <3>2, <3>3, <3>4 DEF TypeOK
    <3> QED
      BY <2>2, <3>5 DEF DeleteJob
  <2> QED
    BY <2>1, <2>2
<1>4. TypeOK'
  BY <1>1, <1>2, <1>3 DEF TypeOK, history
<1>5. RunInv'
  <2>1. epochs \in Nat
    BY <1>1 DEF TypeOK
  <2> QED
    BY <1>1, <1>2, <2>1 DEF RunInv
<1>6. ReceiptsTellPlace' /\ HistoryInv'
  BY <1>1, <1>2, <1>3 DEF ReceiptsTellPlace, HistoryInv, history
<1> QED
  BY <1>2, <1>4, <1>5, <1>6 DEF PlaceInv, history

\* ReceiptsTellPlace, of one steer.
Tells(s) ==
  LET r == receipts[s]
  IN  /\ r.state = "queued" <=> s \in ToSet(queue)
      /\ r.state = "claimed" <=> s \in ToSet(claimed)
      /\ r.state \in {"queued", "claimed"} => row.status \in Active /\ r.generation = row.createdAt
      /\ r.state = "delivered" <=> \E g \in Generations : s \in ToSet(applied[g])
      /\ r.state = "recovered" <=> s \in recovered
      /\ r.state = "cancelled" <=> s \in cancelled
      /\ s \in parked => r.state = "leftover"
      /\ r.state = "leftover" => s \in parked \cup lapsed

LEMMA TellsEach ==
  /\ ReceiptsTellPlace <=> \A s \in Steers : Tells(s)
  /\ ReceiptsTellPlace' <=> \A s \in Steers : Tells(s)'
  BY DEF ReceiptsTellPlace, Tells

\* What PlaceInv says of one steer, for the steps that move one or a batch.
LEMMA Places ==
  ASSUME PlaceInv
  PROVE  /\ TypeOK /\ RunInv /\ ReceiptsTellPlace /\ HistoryInv
         /\ ToSet(queue) \subseteq Steers /\ ToSet(claimed) \subseteq Steers /\ ToSet(accepted) \subseteq Steers
         /\ \A g \in Generations : ToSet(applied[g]) \subseteq Steers /\ ToSet(batch[g].items) \subseteq Steers
         /\ \A s \in Steers : receipts[s].state \in ReceiptStates /\ receipts[s].generation \in Nat
         /\ ToSet(queue) \cap ToSet(claimed) = {}
<1>1. TypeOK /\ RunInv /\ ReceiptsTellPlace /\ HistoryInv
  BY DEF PlaceInv
<1>2. ToSet(queue) \subseteq Steers /\ ToSet(claimed) \subseteq Steers /\ ToSet(accepted) \subseteq Steers
  BY <1>1 DEF TypeOK, ToSet
<1>3. \A g \in Generations : applied[g] \in Seq(Steers) /\ batch[g].items \in Seq(Steers)
  BY <1>1 DEF TypeOK
<1>4. \A g \in Generations : ToSet(applied[g]) \subseteq Steers /\ ToSet(batch[g].items) \subseteq Steers
  BY <1>3 DEF ToSet
<1>5. \A s \in Steers : receipts[s].state \in ReceiptStates /\ receipts[s].generation \in Nat
  BY <1>1 DEF TypeOK
<1>6. ToSet(queue) \cap ToSet(claimed) = {}
  BY <1>1, <1>2 DEF ReceiptsTellPlace
<1> QED
  BY <1>1, <1>2, <1>4, <1>5, <1>6

LEMMA PlaceEnqueues ==
  ASSUME PlaceInv, NEW s \in Steers, EnqueueSteer(s)
  PROVE  PlaceInv'
<1>1. TypeOK /\ RunInv /\ ReceiptsTellPlace /\ HistoryInv
  BY Places
<1>2. /\ row.status = "running" /\ receipts[s].state = "none"
      /\ queue' = Append(queue, s) /\ accepted' = Append(accepted, s)
      /\ receipts' = [receipts EXCEPT ![s] = [state |-> "queued", generation |-> row.createdAt]]
      /\ UNCHANGED <<row, epochs, claimed, parked, lease, batch, applied, recovered, cancelled, lapsed>>
  BY DEF EnqueueSteer, NoReceipt
<1>3. s \notin ToSet(queue) /\ s \notin ToSet(accepted)
  BY <1>1, <1>2 DEF ReceiptsTellPlace, HistoryInv
<1>4. /\ queue' \in Seq(Steers) /\ IsInjective(queue') /\ ToSet(queue') = ToSet(queue) \cup {s}
      /\ accepted' \in Seq(Steers) /\ IsInjective(accepted') /\ ToSet(accepted') = ToSet(accepted) \cup {s}
  BY <1>1, <1>2, <1>3, AppendMembers DEF TypeOK, PlaceInv
<1>5. /\ receipts' \in [Steers -> [state: ReceiptStates, generation: Nat]]
      /\ receipts'[s].state = "queued" /\ receipts'[s].generation = row.createdAt
      /\ \A q \in Steers : q # s => receipts'[q] = receipts[q]
  BY <1>1, <1>2 DEF TypeOK, Rows, ReceiptStates
<1>6. TypeOK'
  BY <1>1, <1>2, <1>4, <1>5 DEF TypeOK
<1>7. RunInv'
  BY <1>1, <1>2 DEF RunInv
<1>8. ReceiptsTellPlace'
  BY <1>1, <1>2, <1>4, <1>5 DEF ReceiptsTellPlace, Active
<1>9. HistoryInv'
  BY <1>1, <1>2, <1>4, <1>5 DEF HistoryInv
<1> QED
  BY <1>4, <1>6, <1>7, <1>8, <1>9 DEF PlaceInv

LEMMA PlaceRemoves ==
  ASSUME PlaceInv, NEW s \in Steers, RemoveSteer(s)
  PROVE  PlaceInv'
<1>1. TypeOK /\ RunInv /\ ReceiptsTellPlace /\ HistoryInv
  BY Places
<1>2. /\ s \in ToSet(queue) /\ queue' = Without(queue, {s}) /\ receipts' = Settled({s}, "cancelled")
      /\ cancelled' = cancelled \cup {s}
      /\ UNCHANGED <<row, epochs, claimed, parked, lease, batch, applied, accepted, recovered, lapsed>>
  BY DEF RemoveSteer
<1>3. receipts[s].state = "queued"
  BY <1>1, <1>2 DEF ReceiptsTellPlace
<1>4. queue' \in Seq(Steers) /\ IsInjective(queue') /\ ToSet(queue') = ToSet(queue) \ {s}
  BY <1>1, <1>2, WithoutMembers DEF TypeOK
<1>5. /\ receipts' \in [Steers -> [state: ReceiptStates, generation: Nat]]
      /\ \A q \in Steers : /\ receipts'[q].generation = receipts[q].generation
                           /\ receipts'[q].state = IF q = s THEN "cancelled" ELSE receipts[q].state
  <2>1. "cancelled" \in ReceiptStates
    BY DEF ReceiptStates
  <2> QED
    BY <1>1, <1>2, <2>1, SettledReceipts
<1>6. TypeOK'
  BY <1>1, <1>2, <1>4, <1>5 DEF TypeOK
<1>7. RunInv'
  BY <1>1, <1>2 DEF RunInv
<1>8. ReceiptsTellPlace'
  BY <1>1, <1>2, <1>3, <1>4, <1>5 DEF ReceiptsTellPlace
<1>9. HistoryInv'
  BY <1>1, <1>2, <1>3, <1>5 DEF HistoryInv
<1> QED
  BY <1>2, <1>6, <1>7, <1>8, <1>9 DEF PlaceInv

\* The two ways out for a leftover: dismissed, or sent by its recovery.
LEMMA PlaceReleases ==
  ASSUME PlaceInv, NEW s \in Steers, DiscardSteerLeftover(s) \/ ConsumeParkedSteer(s)
  PROVE  PlaceInv'
<1>1. TypeOK /\ RunInv /\ ReceiptsTellPlace /\ HistoryInv
  BY Places
<1>2. /\ receipts[s].state = "leftover" /\ parked' = parked \ {s} /\ lease' = [lease EXCEPT ![s] = 0]
      /\ \/ /\ receipts' = Settled({s}, "cancelled") /\ cancelled' = cancelled \cup {s}
            /\ recovered' = recovered
         \/ /\ receipts' = Settled({s}, "recovered") /\ recovered' = recovered \cup {s}
            /\ cancelled' = cancelled /\ s \in parked
      /\ UNCHANGED <<row, epochs, queue, claimed, batch, applied, accepted, lapsed>>
  BY DEF DiscardSteerLeftover, ConsumeParkedSteer, Discardable
<1>3. PICK end \in {"cancelled", "recovered"} :
        /\ receipts' = Settled({s}, end)
        /\ end = "cancelled" => cancelled' = cancelled \cup {s} /\ recovered' = recovered
        /\ end = "recovered" => recovered' = recovered \cup {s} /\ cancelled' = cancelled /\ s \in parked
  BY <1>2
<1>4. /\ receipts' \in [Steers -> [state: ReceiptStates, generation: Nat]]
      /\ \A q \in Steers : /\ receipts'[q].generation = receipts[q].generation
                           /\ receipts'[q].state = IF q = s THEN end ELSE receipts[q].state
  <2>1. end \in ReceiptStates
    BY DEF ReceiptStates
  <2> QED
    BY <1>1, <1>3, <2>1, SettledReceipts
<1>5. TypeOK'
  BY <1>1, <1>2, <1>3, <1>4 DEF TypeOK
<1>6. RunInv'
  BY <1>1, <1>2 DEF RunInv
<1>7. ReceiptsTellPlace'
  BY <1>1, <1>2, <1>3, <1>4 DEF ReceiptsTellPlace
<1>8. HistoryInv'
  BY <1>1, <1>2, <1>3, <1>4 DEF HistoryInv
<1> QED
  BY <1>2, <1>5, <1>6, <1>7, <1>8 DEF PlaceInv

LEMMA PlaceLapses ==
  ASSUME PlaceInv, ParkedExpires
  PROVE  PlaceInv'
<1>1. TypeOK /\ RunInv /\ ReceiptsTellPlace /\ HistoryInv
  BY Places
<1>2. /\ lapsed' = lapsed \cup parked /\ parked' = {} /\ lease' = [s \in Steers |-> 0]
      /\ UNCHANGED <<row, epochs, queue, claimed, receipts, batch, applied, accepted, recovered, cancelled>>
  BY DEF ParkedExpires
<1>3. TypeOK'
  BY <1>1, <1>2 DEF TypeOK
<1>4. RunInv'
  BY <1>1, <1>2 DEF RunInv
<1>5. ReceiptsTellPlace' /\ HistoryInv'
  BY <1>1, <1>2 DEF ReceiptsTellPlace, HistoryInv
<1> QED
  BY <1>2, <1>3, <1>4, <1>5 DEF PlaceInv

\* A batch that shrinks, fails or is dropped keeps its type, and the rest.
LEMMA BatchTyped ==
  ASSUME TypeOK, RunInv, NEW g \in Generations, g <= epochs,
         NEW b \in [items: Seq(Steers), failed: BOOLEAN], batch' = [batch EXCEPT ![g] = b],
         IsInjective(b.items), b.failed = TRUE => b.items # <<>>
  PROVE  /\ batch' \in [Generations -> [items: Seq(Steers), failed: BOOLEAN]]
         /\ \A h \in Generations :
              /\ IsInjective(batch'[h].items)
              /\ batch'[h].failed = TRUE => batch'[h].items # <<>>
              /\ h > epochs => batch'[h] = NoBatch
<1>1. batch \in [Generations -> [items: Seq(Steers), failed: BOOLEAN]]
  BY DEF TypeOK
<1>2. batch'[g] = b /\ \A h \in Generations : h # g => batch'[h] = batch[h]
  BY <1>1
<1>3. ~(g > epochs)
  BY DEF TypeOK, Generations
<1> QED
  BY <1>1, <1>2, <1>3 DEF RunInv

\* A generation that has a batch, or that runs, was created.
LEMMA RunsCreated ==
  ASSUME PlaceInv, NEW g \in Generations, batch[g] # NoBatch \/ g = row.createdAt
  PROVE  g <= epochs
<1>1. TypeOK /\ RunInv /\ epochs \in Nat /\ g \in Nat
  BY DEF PlaceInv, TypeOK, Generations
<1> QED
  BY <1>1 DEF RunInv

LEMMA PlaceDrains ==
  ASSUME PlaceInv, NEW g \in Generations, DrainSteers(g)
  PROVE  PlaceInv'
<1>1. TypeOK /\ RunInv /\ ReceiptsTellPlace /\ HistoryInv /\ ToSet(queue) \cap ToSet(claimed) = {}
  BY Places
<1>2. /\ Running(g) /\ queue # <<>> /\ batch[g] = NoBatch
      /\ batch' = [batch EXCEPT ![g].items = queue]
      /\ claimed' = claimed \o queue /\ queue' = <<>>
      /\ receipts' = Settled(ToSet(queue), "claimed")
      /\ UNCHANGED <<row, epochs, parked, lease, applied, accepted, recovered, cancelled, lapsed>>
  BY DEF DrainSteers, history
<1>3. /\ claimed' \in Seq(Steers) /\ IsInjective(claimed') /\ ToSet(claimed') = ToSet(claimed) \cup ToSet(queue)
      /\ queue \in Seq(Steers) /\ IsInjective(queue)
  BY <1>1, <1>2, ConcatMembers DEF TypeOK
<1>4. /\ receipts' \in [Steers -> [state: ReceiptStates, generation: Nat]]
      /\ \A q \in Steers : /\ receipts'[q].generation = receipts[q].generation
                           /\ receipts'[q].state = IF q \in ToSet(queue) THEN "claimed" ELSE receipts[q].state
  <2>1. "claimed" \in ReceiptStates
    BY DEF ReceiptStates
  <2> QED
    BY <1>1, <1>2, <2>1, SettledReceipts
<1>5. /\ batch' \in [Generations -> [items: Seq(Steers), failed: BOOLEAN]]
      /\ \A h \in Generations :
           /\ IsInjective(batch'[h].items)
           /\ batch'[h].failed = TRUE => batch'[h].items # <<>>
           /\ h > epochs => batch'[h] = NoBatch
  <2> DEFINE b == [NoBatch EXCEPT !.items = queue]
  <2>1. b \in [items: Seq(Steers), failed: BOOLEAN] /\ b.items = queue /\ b.failed = FALSE
    BY <1>3 DEF NoBatch
  <2>2. batch' = [batch EXCEPT ![g] = b]
    BY <1>2
  <2>3. g <= epochs
    BY <1>2, RunsCreated DEF Running
  <2> HIDE DEF b
  <2> QED
    BY <1>1, <1>3, <2>1, <2>2, <2>3, BatchTyped
<1>6. TypeOK'
  BY <1>1, <1>2, <1>3, <1>4, <1>5, NothingYet DEF TypeOK
<1>7. RunInv'
  BY <1>1, <1>2, <1>5 DEF RunInv
<1>8. ReceiptsTellPlace'
  BY <1>1, <1>2, <1>3, <1>4, NothingYet DEF ReceiptsTellPlace
<1>9. HistoryInv'
  BY <1>1, <1>2, <1>4 DEF HistoryInv, ReceiptsTellPlace
<1> QED
  BY <1>2, <1>6, <1>7, <1>8, <1>9 DEF PlaceInv

\* What the store does when a steer is applied.
LEMMA Applying ==
  ASSUME PlaceInv, NEW g \in Generations, ApplySteer(g)
  PROVE  LET s == Head(batch[g].items)
         IN  /\ s \in Steers /\ s \in ToSet(batch[g].items) /\ s \in ToSet(claimed) /\ s \notin ToSet(queue)
             /\ Running(g)
             /\ batch'[g].items = Tail(batch[g].items) /\ batch'[g].items \in Seq(Steers)
             /\ IsInjective(batch'[g].items)
             /\ ToSet(batch'[g].items) = ToSet(batch[g].items) \ {s}
             /\ \A h \in Generations : h # g => batch'[h] = batch[h] /\ applied'[h] = applied[h]
             /\ claimed' = Without(claimed, {s}) /\ claimed' \in Seq(Steers) /\ IsInjective(claimed')
             /\ ToSet(claimed') = ToSet(claimed) \ {s}
             /\ applied'[g] = Append(applied[g], s)
             /\ applied' \in [Generations -> Seq(Steers)]
             /\ ToSet(applied'[g]) = ToSet(applied[g]) \cup {s}
<1>1. TypeOK /\ RunInv /\ ReceiptsTellPlace /\ HistoryInv /\ ToSet(queue) \cap ToSet(claimed) = {}
  BY Places
<1> DEFINE items == batch[g].items
           s == Head(items)
<1>2. /\ items # <<>> /\ Running(g) /\ s \in ToSet(claimed)
      /\ claimed' = Without(claimed, {s})
      /\ applied' = [applied EXCEPT ![g] = Append(@, s)]
      /\ batch' = [batch EXCEPT ![g].items = Tail(@)]
  BY DEF ApplySteer, Appendable
<1>3. items \in Seq(Steers) /\ IsInjective(items) /\ batch[g] \in [items: Seq(Steers), failed: BOOLEAN]
  BY <1>1 DEF TypeOK, RunInv
<1>4. s \in Steers
  BY <1>2, Places
<1>5. /\ Tail(items) \in Seq(Steers) /\ IsInjective(Tail(items)) /\ s \in ToSet(items)
      /\ ToSet(Tail(items)) = ToSet(items) \ {s}
  BY <1>2, <1>3, TailMembers
<1>6. /\ claimed' \in Seq(Steers) /\ IsInjective(claimed')
      /\ ToSet(claimed') = ToSet(claimed) \ {s}
  BY <1>1, <1>2, WithoutMembers DEF TypeOK
<1>7. /\ Append(applied[g], s) \in Seq(Steers)
      /\ ToSet(Append(applied[g], s)) = ToSet(applied[g]) \cup {s}
  BY <1>1, <1>4, AppendMembers DEF TypeOK
<1>8. /\ applied'[g] = Append(applied[g], s) /\ applied' \in [Generations -> Seq(Steers)]
      /\ \A h \in Generations : h # g => applied'[h] = applied[h]
  <2>1. applied \in [Generations -> Seq(Steers)]
    BY <1>1 DEF TypeOK
  <2> HIDE DEF s
  <2> QED
    BY <1>2, <1>7, <2>1
<1>9. /\ batch'[g].items = Tail(items)
      /\ \A h \in Generations : h # g => batch'[h] = batch[h]
  <2>1. batch \in [Generations -> [items: Seq(Steers), failed: BOOLEAN]]
    BY <1>1 DEF TypeOK
  <2> QED
    BY <1>2, <1>3, <2>1
<1> HIDE DEF s, items
<1>10. s \notin ToSet(queue)
  BY <1>1, <1>2
<1> QED
  BY <1>2, <1>4, <1>5, <1>6, <1>7, <1>8, <1>9, <1>10 DEF s, items

LEMMA PlaceApplies ==
  ASSUME PlaceInv, NEW g \in Generations, ApplySteer(g)
  PROVE  PlaceInv'
<1>1. TypeOK /\ RunInv /\ ReceiptsTellPlace /\ HistoryInv
  BY Places
<1>2. PICK s \in Steers :
        /\ s = Head(batch[g].items) /\ s \in ToSet(claimed) /\ s \notin ToSet(queue) /\ Running(g)
        /\ batch'[g].items = Tail(batch[g].items) /\ batch'[g].items \in Seq(Steers)
        /\ IsInjective(batch'[g].items)
        /\ \A h \in Generations : h # g => batch'[h] = batch[h] /\ applied'[h] = applied[h]
        /\ claimed' \in Seq(Steers) /\ IsInjective(claimed') /\ ToSet(claimed') = ToSet(claimed) \ {s}
        /\ applied' \in [Generations -> Seq(Steers)]
        /\ ToSet(applied'[g]) = ToSet(applied[g]) \cup {s}
  BY Applying
<1>3. /\ receipts' = Settled({s}, "delivered")
      /\ batch' = [batch EXCEPT ![g].items = Tail(@)]
      /\ ~batch[g].failed /\ batch[g].items # <<>>
      /\ UNCHANGED <<row, epochs, queue, parked, lease, accepted, recovered, cancelled, lapsed>>
  BY <1>2 DEF ApplySteer, history
<1>4. /\ receipts' \in [Steers -> [state: ReceiptStates, generation: Nat]]
      /\ \A q \in Steers : /\ receipts'[q].generation = receipts[q].generation
                           /\ receipts'[q].state = IF q = s THEN "delivered" ELSE receipts[q].state
  <2>1. "delivered" \in ReceiptStates
    BY DEF ReceiptStates
  <2> QED
    BY <1>1, <1>3, <2>1, SettledReceipts
<1>5. g <= epochs
  BY <1>2, RunsCreated DEF Running
<1>6. /\ batch' \in [Generations -> [items: Seq(Steers), failed: BOOLEAN]]
      /\ \A h \in Generations :
           /\ IsInjective(batch'[h].items)
           /\ batch'[h].failed = TRUE => batch'[h].items # <<>>
           /\ h > epochs => batch'[h] = NoBatch
  <2> DEFINE b == [batch[g] EXCEPT !.items = Tail(@)]
  <2>1. batch[g] \in [items: Seq(Steers), failed: BOOLEAN] /\ batch \in [Generations -> [items: Seq(Steers), failed: BOOLEAN]]
    BY <1>1 DEF TypeOK
  <2>2. batch' = [batch EXCEPT ![g] = b]
    BY <1>3
  <2>3. batch'[g] = b
    BY <2>1, <2>2
  <2>4. Tail(batch[g].items) \in Seq(Steers) /\ IsInjective(Tail(batch[g].items))
    BY <1>2
  <2>5. b \in [items: Seq(Steers), failed: BOOLEAN] /\ b.items = Tail(batch[g].items) /\ b.failed = FALSE
    BY <1>3, <2>1, <2>4
  <2> HIDE DEF b
  <2> QED
    BY <1>1, <1>5, <2>2, <2>4, <2>5, BatchTyped
<1>7. TypeOK'
  BY <1>1, <1>2, <1>3, <1>4, <1>6 DEF TypeOK
<1>8. RunInv'
  <2>1. \A h \in Generations : h > epochs => h # g
    BY <1>1, <1>5 DEF TypeOK, Generations
  <2> QED
    BY <1>1, <1>2, <1>3, <1>6, <2>1 DEF RunInv
<1>9. ReceiptsTellPlace'
  <2>1. receipts[s].state = "claimed"
    BY <1>1, <1>2 DEF ReceiptsTellPlace
  <2>2. \A q \in Steers : (\E h \in Generations : q \in ToSet(applied'[h]))
                            <=> q = s \/ \E h \in Generations : q \in ToSet(applied[h])
    BY <1>2
  <2> SUFFICES ASSUME NEW q \in Steers PROVE Tells(q)'
    BY TellsEach
  <2>3. Tells(q)
    BY <1>1, TellsEach
  <2>4. CASE q = s
    BY <1>2, <1>3, <1>4, <2>1, <2>2, <2>3, <2>4 DEF Tells
  <2>5. CASE q # s
    <3>1. receipts'[q].state = receipts[q].state /\ receipts'[q].generation = receipts[q].generation
      BY <1>4, <2>5
    <3>2. /\ q \in ToSet(claimed') <=> q \in ToSet(claimed)
          /\ (\E h \in Generations : q \in ToSet(applied'[h])) <=> \E h \in Generations : q \in ToSet(applied[h])
      BY <1>2, <2>2, <2>5
    <3>3. UNCHANGED <<row, queue, parked, recovered, cancelled, lapsed>>
      BY <1>3
    <3> QED
      BY <2>3, <3>1, <3>2, <3>3 DEF Tells
  <2> QED
    BY <2>4, <2>5
<1>10. HistoryInv'
  <2>1. receipts[s].state = "claimed"
    BY <1>1, <1>2 DEF ReceiptsTellPlace
  <2>2. \A q \in Steers : receipts'[q].state = IF q = s THEN "delivered" ELSE receipts[q].state
    BY <1>4
  <2>3. UNCHANGED <<accepted, parked, lapsed>>
    BY <1>3
  <2> QED
    BY <1>1, <2>1, <2>2, <2>3 DEF HistoryInv
<1> QED
  BY <1>3, <1>7, <1>8, <1>9, <1>10 DEF PlaceInv

\* A batch that fails, and a run that dies, leave the store alone.
LEMMA PlaceGivesUp ==
  ASSUME PlaceInv, NEW g \in Generations, ApplyFails(g) \/ RunDies(g)
  PROVE  PlaceInv'
<1>1. TypeOK /\ RunInv /\ ReceiptsTellPlace /\ HistoryInv
  BY Places
<1>2. UNCHANGED <<row, epochs, queue, claimed, receipts, parked, lease, applied, accepted, recovered,
                  cancelled, lapsed>>
  BY DEF ApplyFails, RunDies, store, history
<1>3. batch[g] \in [items: Seq(Steers), failed: BOOLEAN]
  BY <1>1 DEF TypeOK
<1>4. batch[g] # NoBatch
  BY NothingYet DEF ApplyFails, RunDies
<1>5. g <= epochs
  BY <1>4, RunsCreated
<1>6. /\ batch' \in [Generations -> [items: Seq(Steers), failed: BOOLEAN]]
      /\ \A h \in Generations :
           /\ IsInjective(batch'[h].items)
           /\ batch'[h].failed = TRUE => batch'[h].items # <<>>
           /\ h > epochs => batch'[h] = NoBatch
  <2>1. CASE ApplyFails(g)
    <3> DEFINE b == [batch[g] EXCEPT !.failed = TRUE]
    <3>1. /\ b \in [items: Seq(Steers), failed: BOOLEAN] /\ b.items = batch[g].items
          /\ batch' = [batch EXCEPT ![g] = b] /\ batch[g].items # <<>>
      BY <1>3, <2>1 DEF ApplyFails
    <3>2. IsInjective(batch[g].items)
      BY <1>1 DEF RunInv
    <3> HIDE DEF b
    <3> QED
      BY <1>1, <1>5, <3>1, <3>2, BatchTyped
  <2>2. CASE RunDies(g)
    <3>1. batch' = [batch EXCEPT ![g] = NoBatch]
      BY <2>2 DEF RunDies
    <3> QED
      BY <1>1, <1>5, <3>1, NothingYet, BatchTyped
  <2> QED
    BY <2>1, <2>2
<1>7. TypeOK'
  BY <1>1, <1>2, <1>6 DEF TypeOK
<1>8. RunInv'
  BY <1>1, <1>2, <1>6 DEF RunInv
<1>9. ReceiptsTellPlace' /\ HistoryInv'
  BY <1>1, <1>2 DEF ReceiptsTellPlace, HistoryInv
<1> QED
  BY <1>2, <1>7, <1>8, <1>9 DEF PlaceInv

\* A failed batch that is put back was claimed by the run that puts it back.
LEMMA Restoring ==
  ASSUME PlaceInv, NEW g \in Generations, RestoreClaimedSteers(g)
  PROVE  /\ UNCHANGED <<row, epochs, parked, lease, applied, accepted, recovered, cancelled, lapsed>>
         /\ batch' = [batch EXCEPT ![g] = NoBatch]
         /\ batch[g].items \in Seq(Steers) /\ IsInjective(batch[g].items) /\ g <= epochs
         /\ \/ UNCHANGED <<queue, claimed, receipts>>
            \/ /\ Running(g) /\ ToSet(batch[g].items) \subseteq ToSet(claimed)
               /\ ToSet(batch[g].items) \subseteq Steers
               /\ claimed' = Without(claimed, ToSet(batch[g].items))
               /\ queue' = batch[g].items \o queue
               /\ receipts' = Settled(ToSet(batch[g].items), "queued")
<1>1. TypeOK /\ RunInv
  BY Places
<1>2. batch[g] \in [items: Seq(Steers), failed: BOOLEAN] /\ IsInjective(batch[g].items)
  BY <1>1 DEF TypeOK, RunInv
<1>3. batch[g].failed = TRUE /\ batch[g].items # <<>>
  BY <1>1, <1>2 DEF RestoreClaimedSteers, RunInv
<1>4. batch[g] # NoBatch
  BY <1>3, NothingYet
<1>5. g <= epochs
  BY <1>4, RunsCreated
<1>6. Head(batch[g].items) \in ToSet(batch[g].items)
  BY <1>2, <1>3, TailMembers
<1>7. ToSet(batch[g].items) \subseteq Steers
  BY Places
<1> QED
  BY <1>2, <1>5, <1>6, <1>7 DEF RestoreClaimedSteers, Appendable, Restored, history

LEMMA PlaceRestores ==
  ASSUME PlaceInv, NEW g \in Generations, RestoreClaimedSteers(g)
  PROVE  PlaceInv'
<1>1. TypeOK /\ RunInv /\ ReceiptsTellPlace /\ HistoryInv /\ ToSet(queue) \cap ToSet(claimed) = {}
  BY Places
<1> DEFINE items == batch[g].items
<1>2. /\ UNCHANGED <<row, epochs, parked, lease, applied, accepted, recovered, cancelled, lapsed>>
      /\ batch' = [batch EXCEPT ![g] = NoBatch]
      /\ items \in Seq(Steers) /\ IsInjective(items) /\ g <= epochs
  BY Restoring
<1>3. /\ batch' \in [Generations -> [items: Seq(Steers), failed: BOOLEAN]]
      /\ \A h \in Generations :
           /\ IsInjective(batch'[h].items)
           /\ batch'[h].failed = TRUE => batch'[h].items # <<>>
           /\ h > epochs => batch'[h] = NoBatch
  BY <1>1, <1>2, NothingYet, BatchTyped
<1>4. RunInv'
  BY <1>1, <1>2, <1>3 DEF RunInv
<1>5. CASE UNCHANGED <<queue, claimed, receipts>>
  <2>1. TypeOK'
    BY <1>1, <1>2, <1>3, <1>5 DEF TypeOK
  <2>2. ReceiptsTellPlace' /\ HistoryInv'
    BY <1>1, <1>2, <1>5 DEF ReceiptsTellPlace, HistoryInv
  <2> QED
    BY <1>2, <1>4, <2>1, <2>2 DEF PlaceInv
<1>6. CASE /\ Running(g) /\ ToSet(items) \subseteq ToSet(claimed) /\ ToSet(items) \subseteq Steers
           /\ claimed' = Without(claimed, ToSet(items))
           /\ queue' = items \o queue
           /\ receipts' = Settled(ToSet(items), "queued")
  <2> HIDE DEF items
  <2>1. claimed' \in Seq(Steers) /\ IsInjective(claimed') /\ ToSet(claimed') = ToSet(claimed) \ ToSet(items)
    BY <1>1, <1>6, WithoutMembers DEF TypeOK
  <2>2. /\ queue' \in Seq(Steers) /\ IsInjective(queue')
        /\ ToSet(queue') = ToSet(items) \cup ToSet(queue)
    BY <1>1, <1>2, <1>6, ConcatMembers DEF TypeOK
  <2>3. /\ receipts' \in [Steers -> [state: ReceiptStates, generation: Nat]]
        /\ \A q \in Steers : /\ receipts'[q].generation = receipts[q].generation
                             /\ receipts'[q].state = IF q \in ToSet(items) THEN "queued" ELSE receipts[q].state
    <3>1. "queued" \in ReceiptStates
      BY DEF ReceiptStates
    <3> QED
      BY <1>1, <1>6, <3>1, SettledReceipts
  <2>4. TypeOK'
    BY <1>1, <1>2, <1>3, <2>1, <2>2, <2>3 DEF TypeOK
  <2>5. \A q \in ToSet(items) : receipts[q].state = "claimed"
    BY <1>1, <1>6 DEF ReceiptsTellPlace
  <2>6. ReceiptsTellPlace'
    <3> SUFFICES ASSUME NEW q \in Steers PROVE Tells(q)'
      BY TellsEach
    <3>1. Tells(q)
      BY <1>1, TellsEach
    <3>2. CASE q \in ToSet(items)
      BY <1>2, <2>1, <2>2, <2>3, <2>5, <3>1, <3>2 DEF Tells
    <3>3. CASE q \notin ToSet(items)
      BY <1>2, <2>1, <2>2, <2>3, <3>1, <3>3 DEF Tells
    <3> QED
      BY <3>2, <3>3
  <2>7. HistoryInv'
    BY <1>1, <1>2, <2>3, <2>5 DEF HistoryInv
  <2> QED
    BY <1>2, <1>4, <2>4, <2>6, <2>7 DEF PlaceInv
<1> QED
  BY <1>5, <1>6, Restoring

LEMMA PlaceStep == PlaceInv /\ [Next]_vars => PlaceInv'
<1> SUFFICES ASSUME PlaceInv, [Next]_vars PROVE PlaceInv'
  OBVIOUS
<1>1. ASSUME NEW r \in Steers \cup {NoSteer}, CreateJob(r) PROVE PlaceInv'
  BY <1>1, PlaceCreates
<1>2. CASE Pause \/ Resume \/ DeleteJob
  BY <1>2, PlaceTurns
<1>3. CASE Terminate \/ Reap
  BY <1>3, PlaceEnds
<1>4. ASSUME NEW s \in Steers, UserStep(s) PROVE PlaceInv'
  BY <1>4, PlaceEnqueues, PlaceRemoves, PlaceReleases DEF UserStep
<1>5. ASSUME NEW g \in Generations, RunStep(g) PROVE PlaceInv'
  BY <1>5, PlaceDrains, PlaceApplies, PlaceGivesUp, PlaceRestores DEF RunStep
<1>6. CASE ParkedExpires
  BY <1>6, PlaceLapses
<1>7. CASE UNCHANGED vars
  BY <1>7 DEF vars, PlaceInv, TypeOK, RunInv, ReceiptsTellPlace, HistoryInv
<1> QED
  BY <1>1, <1>2, <1>3, <1>4, <1>5, <1>6, <1>7 DEF Next

\* Every variable keeps its type, for any number of steers and generations;
\* in particular no steer is ever twice in the queue or among the claimed.
THEOREM StoreTyped == Spec => []TypeOK
<1>1. PlaceInv => TypeOK
  BY DEF PlaceInv
<1> QED
  BY PlaceInit, PlaceStep, <1>1, PTL DEF Spec

\* The receipt a client polls always names the place the steer is in.
THEOREM ReceiptsTrue == Spec => []ReceiptsTellPlace
<1>1. PlaceInv => ReceiptsTellPlace
  BY DEF PlaceInv
<1> QED
  BY PlaceInit, PlaceStep, <1>1, PTL DEF Spec

-----------------------------------------------------------------------------
(***************************************************************************)
(* Order, in terms of the steers rather than of the lists: a was accepted  *)
(* before b, when both were.                                               *)
(***************************************************************************)
Before(a, b, acc) == \A k, l \in DOMAIN acc : acc[k] = a /\ acc[l] = b => k < l

AllBefore(A, B, acc) == \A a \in A, b \in B : Before(a, b, acc)

Sorted(seq, acc) == \A i, j \in DOMAIN seq : i < j => Before(seq[i], seq[j], acc)

\* What a run has drained was accepted before what still queues, what it has
\* applied before both; and of the drained steers those of its batch are the
\* last, so that a batch that is put back still follows what stays claimed.
OrderInv ==
  /\ Sorted(claimed, accepted) /\ Sorted(queue, accepted)
  /\ AllBefore(ToSet(claimed), ToSet(queue), accepted)
  /\ \A g \in Generations :
       /\ ToSet(batch[g].items) \subseteq ToSet(accepted)
       /\ Sorted(applied[g], accepted) /\ Sorted(batch[g].items, accepted)
       /\ AllBefore(ToSet(applied[g]), ToSet(batch[g].items), accepted)
       /\ g = row.createdAt =>
            /\ AllBefore(ToSet(applied[g]), ToSet(queue), accepted)
            /\ AllBefore(ToSet(claimed) \ ToSet(batch[g].items), ToSet(batch[g].items), accepted)

\* The lists the actions build out of sorted lists are sorted.
LEMMA SortedEmpty == \A acc : Sorted(<<>>, acc)
  BY DEF Sorted

LEMMA SortedAppend ==
  ASSUME NEW T, NEW seq \in Seq(T), NEW x \in T, NEW acc, Sorted(seq, acc),
         AllBefore(ToSet(seq), {x}, acc)
  PROVE  Sorted(Append(seq, x), acc)
<1> DEFINE a == Append(seq, x)
<1>1. /\ DOMAIN a = 1 .. (Len(seq) + 1) /\ DOMAIN seq = 1 .. Len(seq) /\ Len(seq) \in Nat
      /\ \A i \in 1 .. Len(seq) : a[i] = seq[i]
      /\ a[Len(seq) + 1] = x
  BY AppendProperties
<1> HIDE DEF a
<1> SUFFICES ASSUME NEW i \in DOMAIN a, NEW j \in DOMAIN a, i < j PROVE Before(a[i], a[j], acc)
  BY DEF Sorted, a
<1>2. i \in 1 .. Len(seq) /\ (j \in 1 .. Len(seq) \/ j = Len(seq) + 1)
  BY <1>1
<1>3. seq[i] \in ToSet(seq)
  BY <1>1, <1>2 DEF ToSet
<1> QED
  BY <1>1, <1>2, <1>3 DEF Sorted, AllBefore

LEMMA SortedConcat ==
  ASSUME NEW T, NEW s1 \in Seq(T), NEW s2 \in Seq(T), NEW acc, Sorted(s1, acc), Sorted(s2, acc),
         AllBefore(ToSet(s1), ToSet(s2), acc)
  PROVE  Sorted(s1 \o s2, acc)
<1> DEFINE c == s1 \o s2
<1>1. /\ DOMAIN c = 1 .. (Len(s1) + Len(s2)) /\ Len(s1) \in Nat /\ Len(s2) \in Nat
      /\ DOMAIN s1 = 1 .. Len(s1) /\ DOMAIN s2 = 1 .. Len(s2)
      /\ \A i \in 1 .. Len(s1) : c[i] = s1[i]
      /\ \A i \in 1 .. Len(s2) : c[Len(s1) + i] = s2[i]
  BY ConcatProperties
<1> HIDE DEF c
<1> SUFFICES ASSUME NEW i \in DOMAIN c, NEW j \in DOMAIN c, i < j PROVE Before(c[i], c[j], acc)
  BY DEF Sorted, c
<1>2. CASE j \in 1 .. Len(s1)
  <2>1. i \in 1 .. Len(s1)
    BY <1>1, <1>2
  <2> QED
    BY <1>1, <1>2, <2>1 DEF Sorted
<1>3. CASE i \in 1 .. Len(s1) /\ j \notin 1 .. Len(s1)
  <2>1. j - Len(s1) \in 1 .. Len(s2) /\ j = Len(s1) + (j - Len(s1))
    BY <1>1, <1>3
  <2>2. c[i] = s1[i] /\ c[j] = s2[j - Len(s1)]
    BY <1>1, <1>3, <2>1
  <2>3. s1[i] \in ToSet(s1) /\ s2[j - Len(s1)] \in ToSet(s2)
    BY <1>1, <1>3, <2>1 DEF ToSet
  <2> QED
    BY <2>2, <2>3 DEF AllBefore
<1>4. CASE i \notin 1 .. Len(s1)
  <2>1. i \in Nat /\ j \in Nat /\ i > Len(s1) /\ j > Len(s1)
        /\ i <= Len(s1) + Len(s2) /\ j <= Len(s1) + Len(s2)
    <3>1. i \in 1 .. (Len(s1) + Len(s2)) /\ j \in 1 .. (Len(s1) + Len(s2))
      BY <1>1
    <3> HIDE DEF c
    <3> QED
      BY <1>1, <1>4, <3>1
  <2> DEFINE p == i - Len(s1)  q == j - Len(s1)
  <2>2. /\ p \in 1 .. Len(s2) /\ q \in 1 .. Len(s2) /\ p < q
        /\ i = Len(s1) + p /\ j = Len(s1) + q
    BY <1>1, <2>1
  <2> HIDE DEF p, q
  <2>3. c[i] = s2[p] /\ c[j] = s2[q]
    BY <1>1, <2>2
  <2> QED
    BY <1>1, <2>2, <2>3 DEF Sorted
<1> QED
  BY <1>2, <1>3, <1>4

LEMMA SortedTail ==
  ASSUME NEW T, NEW seq \in Seq(T), seq # <<>>, NEW acc, Sorted(seq, acc)
  PROVE  Sorted(Tail(seq), acc) /\ AllBefore({Head(seq)}, ToSet(Tail(seq)), acc)
<1> DEFINE t == Tail(seq)
<1>1. /\ Len(seq) \in Nat /\ DOMAIN seq = 1 .. Len(seq) /\ Len(seq) # 0
      /\ DOMAIN t = 1 .. (Len(seq) - 1) /\ Head(seq) = seq[1]
      /\ \A i \in 1 .. (Len(seq) - 1) : t[i] = seq[i + 1]
  BY HeadTailProperties, EmptySeq, LenProperties
<1> HIDE DEF t
<1>2. \A i \in DOMAIN t : i + 1 \in DOMAIN seq /\ 1 \in DOMAIN seq /\ 1 < i + 1 /\ t[i] = seq[i + 1]
  BY <1>1
<1>3. \A i, j \in DOMAIN t : i < j => i + 1 < j + 1
  BY <1>1
<1>4. Sorted(t, acc)
  BY <1>2, <1>3 DEF Sorted
<1>5. \A i \in DOMAIN t : Before(seq[1], t[i], acc)
  BY <1>2 DEF Sorted
<1>6. AllBefore({seq[1]}, ToSet(t), acc)
  BY <1>5 DEF AllBefore, ToSet
<1> QED
  BY <1>1, <1>4, <1>6 DEF t

LEMMA SortedWithout ==
  ASSUME NEW T, NEW seq \in Seq(T), NEW S, NEW acc, Sorted(seq, acc)
  PROVE  Sorted(Without(seq, S), acc)
<1> DEFINE w == Without(seq, S)
<1>1. \A i, j \in DOMAIN w : i < j => \E k, l \in DOMAIN seq : k < l /\ w[i] = seq[k] /\ w[j] = seq[l]
  BY WithoutProperties
<1> HIDE DEF w
<1>2. Sorted(w, acc)
  BY <1>1 DEF Sorted
<1> QED
  BY <1>2 DEF w

\* An acceptance adds a last steer and moves no other.
LEMMA SortedGrows ==
  ASSUME NEW T, NEW acc \in Seq(T), NEW x \in T, x \notin ToSet(acc)
  PROVE  /\ \A A, B : x \notin A /\ x \notin B /\ AllBefore(A, B, acc) => AllBefore(A, B, Append(acc, x))
         /\ \A A : x \notin A => AllBefore(A, {x}, Append(acc, x))
         /\ \A seq : x \notin ToSet(seq) /\ Sorted(seq, acc) => Sorted(seq, Append(acc, x))
<1> DEFINE n == Append(acc, x)
<1>1. /\ DOMAIN n = 1 .. (Len(acc) + 1) /\ DOMAIN acc = 1 .. Len(acc) /\ Len(acc) \in Nat
      /\ \A i \in 1 .. Len(acc) : n[i] = acc[i]
      /\ n[Len(acc) + 1] = x
  BY AppendProperties
<1> HIDE DEF n
<1>2. \A k \in DOMAIN n : n[k] # x => k \in DOMAIN acc /\ n[k] = acc[k]
  BY <1>1
<1>3. \A k \in DOMAIN acc : acc[k] # x
  BY DEF ToSet
<1>4. \A k \in DOMAIN n : n[k] = x => k = Len(acc) + 1
  BY <1>1, <1>3
<1>5. \A a, b : a # x /\ b # x /\ Before(a, b, acc) => Before(a, b, n)
  BY <1>2 DEF Before
<1>6. \A a : a # x => Before(a, x, n)
  BY <1>1, <1>2, <1>4 DEF Before
<1>7. \A A, B : x \notin A /\ x \notin B /\ AllBefore(A, B, acc) => AllBefore(A, B, n)
  BY <1>5 DEF AllBefore
<1>8. \A A : x \notin A => AllBefore(A, {x}, n)
  BY <1>6 DEF AllBefore
<1>9. ASSUME NEW seq, x \notin ToSet(seq), Sorted(seq, acc) PROVE Sorted(seq, n)
  <2>1. \A i \in DOMAIN seq : seq[i] # x
    BY <1>9 DEF ToSet
  <2> QED
    BY <1>5, <1>9, <2>1 DEF Sorted
<1> QED
  BY <1>7, <1>8, <1>9 DEF n

LEMMA BeforeParts ==
  \A acc, A, B, C :
    /\ AllBefore({}, B, acc) /\ AllBefore(A, {}, acc)
    /\ AllBefore(A, B, acc) /\ C \subseteq A => AllBefore(C, B, acc)
    /\ AllBefore(A, B, acc) /\ C \subseteq B => AllBefore(A, C, acc)
    /\ AllBefore(A, B, acc) /\ AllBefore(A, C, acc) => AllBefore(A, B \cup C, acc)
    /\ AllBefore(A, B, acc) /\ AllBefore(C, B, acc) => AllBefore(A \cup C, B, acc)
  BY DEF AllBefore

LEMMA OrderInit == Init => OrderInv
<1> SUFFICES ASSUME Init PROVE OrderInv
  OBVIOUS
<1>1. /\ queue = <<>> /\ claimed = <<>> /\ ToSet(queue) = {} /\ ToSet(claimed) = {}
      /\ \A g \in Generations : applied[g] = <<>> /\ batch[g].items = <<>> /\ ToSet(applied[g]) = {}
                                /\ ToSet(batch[g].items) = {}
  BY NothingYet DEF Init
<1> QED
  BY <1>1, SortedEmpty, BeforeParts DEF OrderInv

\* The steps that move no steer, or empty a list, keep the order.
LEMMA OrderQuiet ==
  ASSUME OrderInv, applied' = applied, accepted' = accepted,
         queue' = queue \/ queue' = <<>>,
         claimed' = claimed \/ claimed' = <<>>,
         \A g \in Generations : batch'[g].items = batch[g].items \/ batch'[g].items = <<>>,
         \A g \in Generations : g = row'.createdAt => g = row.createdAt \/ (queue' = <<>> /\ claimed' = <<>>)
  PROVE  OrderInv'
<1>1. Sorted(claimed', accepted') /\ Sorted(queue', accepted')
  BY SortedEmpty DEF OrderInv
<1>2. ToSet(claimed') \subseteq ToSet(claimed) /\ ToSet(queue') \subseteq ToSet(queue)
  BY NothingYet
<1>3. AllBefore(ToSet(claimed'), ToSet(queue'), accepted')
  BY <1>2, BeforeParts DEF OrderInv
<1>4. ASSUME NEW g \in Generations
      PROVE  /\ ToSet(batch'[g].items) \subseteq ToSet(accepted')
             /\ Sorted(applied'[g], accepted') /\ Sorted(batch'[g].items, accepted')
             /\ AllBefore(ToSet(applied'[g]), ToSet(batch'[g].items), accepted')
  <2>1. CASE batch'[g].items = batch[g].items
    BY <2>1 DEF OrderInv
  <2>2. CASE batch'[g].items = <<>>
    BY <2>2, NothingYet, SortedEmpty, BeforeParts DEF OrderInv
  <2> QED
    BY <1>4, <2>1, <2>2
<1>5. ASSUME NEW g \in Generations, g = row'.createdAt
      PROVE  /\ AllBefore(ToSet(applied'[g]), ToSet(queue'), accepted')
             /\ AllBefore(ToSet(claimed') \ ToSet(batch'[g].items), ToSet(batch'[g].items), accepted')
  <2>1. CASE queue' = <<>> /\ claimed' = <<>>
    <3>1. ToSet(queue') = {} /\ ToSet(claimed') \ ToSet(batch'[g].items) = {}
      BY <2>1, NothingYet
    <3> QED
      BY <3>1, BeforeParts
  <2>2. CASE g = row.createdAt
    <3>1. /\ AllBefore(ToSet(applied[g]), ToSet(queue), accepted)
          /\ AllBefore(ToSet(claimed) \ ToSet(batch[g].items), ToSet(batch[g].items), accepted)
      BY <2>2 DEF OrderInv
    <3>2. AllBefore(ToSet(applied'[g]), ToSet(queue'), accepted')
      BY <1>2, <3>1, BeforeParts
    <3>3. CASE batch'[g].items = <<>>
      BY <3>2, <3>3, NothingYet, BeforeParts
    <3>4. CASE batch'[g].items = batch[g].items
      <4>1. ToSet(claimed') \ ToSet(batch'[g].items) \subseteq ToSet(claimed) \ ToSet(batch[g].items)
        BY <1>2, <3>4
      <4>2. AllBefore(ToSet(claimed') \ ToSet(batch'[g].items), ToSet(batch[g].items), accepted)
        BY <3>1, <4>1 DEF AllBefore
      <4> QED
        BY <3>2, <3>4, <4>2
    <3> QED
      BY <3>3, <3>4
  <2> QED
    BY <1>5, <2>1, <2>2
<1> QED
  BY <1>1, <1>3, <1>4, <1>5 DEF OrderInv

LEMMA OrderEnqueues ==
  ASSUME PlaceInv, OrderInv, NEW s \in Steers, EnqueueSteer(s)
  PROVE  OrderInv'
<1>1. TypeOK /\ ReceiptsTellPlace /\ HistoryInv
  BY Places
<1>2. /\ receipts[s].state = "none"
      /\ queue' = Append(queue, s) /\ accepted' = Append(accepted, s)
      /\ UNCHANGED <<row, claimed, batch, applied>>
  BY DEF EnqueueSteer, NoReceipt
<1>3. queue \in Seq(Steers) /\ accepted \in Seq(Steers)
  BY <1>1 DEF TypeOK
<1>4. /\ s \notin ToSet(accepted) /\ s \notin ToSet(queue) /\ s \notin ToSet(claimed)
      /\ \A g \in Generations : s \notin ToSet(applied[g]) /\ s \notin ToSet(batch[g].items)
  BY <1>1, <1>2 DEF ReceiptsTellPlace, HistoryInv, OrderInv
<1>5. ToSet(queue') = ToSet(queue) \cup {s} /\ ToSet(accepted') = ToSet(accepted) \cup {s}
  BY <1>2, <1>3, AppendMembers
<1>6. /\ \A A, B : s \notin A /\ s \notin B /\ AllBefore(A, B, accepted) => AllBefore(A, B, accepted')
      /\ \A A : s \notin A => AllBefore(A, {s}, accepted')
      /\ \A seq : s \notin ToSet(seq) /\ Sorted(seq, accepted) => Sorted(seq, accepted')
  BY <1>2, <1>3, <1>4, SortedGrows
<1>7. Sorted(claimed', accepted') /\ Sorted(queue', accepted')
  <2>1. Sorted(queue, accepted') /\ AllBefore(ToSet(queue), {s}, accepted')
    BY <1>4, <1>6 DEF OrderInv
  <2>2. Sorted(queue', accepted')
    BY <1>2, <1>3, <2>1, SortedAppend
  <2> QED
    BY <1>2, <1>4, <1>6, <2>2 DEF OrderInv
<1>8. \A A : s \notin A /\ AllBefore(A, ToSet(queue), accepted) => AllBefore(A, ToSet(queue'), accepted')
  BY <1>4, <1>5, <1>6, BeforeParts
<1>9. AllBefore(ToSet(claimed'), ToSet(queue'), accepted')
  BY <1>2, <1>4, <1>8 DEF OrderInv
<1>10. ASSUME NEW g \in Generations
       PROVE  /\ ToSet(batch'[g].items) \subseteq ToSet(accepted')
              /\ Sorted(applied'[g], accepted') /\ Sorted(batch'[g].items, accepted')
              /\ AllBefore(ToSet(applied'[g]), ToSet(batch'[g].items), accepted')
              /\ g = row'.createdAt =>
                   /\ AllBefore(ToSet(applied'[g]), ToSet(queue'), accepted')
                   /\ AllBefore(ToSet(claimed') \ ToSet(batch'[g].items), ToSet(batch'[g].items), accepted')
  <2>1. ToSet(batch[g].items) \subseteq ToSet(accepted')
    BY <1>5 DEF OrderInv
  <2>2. /\ Sorted(applied[g], accepted') /\ Sorted(batch[g].items, accepted')
        /\ AllBefore(ToSet(applied[g]), ToSet(batch[g].items), accepted')
    BY <1>4, <1>6 DEF OrderInv
  <2>3. g = row.createdAt =>
          /\ AllBefore(ToSet(applied[g]), ToSet(queue'), accepted')
          /\ AllBefore(ToSet(claimed) \ ToSet(batch[g].items), ToSet(batch[g].items), accepted')
    BY <1>4, <1>6, <1>8 DEF OrderInv
  <2> QED
    BY <1>2, <2>1, <2>2, <2>3
<1> QED
  BY <1>7, <1>9, <1>10 DEF OrderInv

LEMMA OrderRemoves ==
  ASSUME PlaceInv, OrderInv, NEW s \in Steers, RemoveSteer(s)
  PROVE  OrderInv'
<1>1. queue' = Without(queue, {s}) /\ UNCHANGED <<row, claimed, batch, applied, accepted>>
  BY DEF RemoveSteer
<1>2. queue \in Seq(Steers)
  BY DEF PlaceInv, TypeOK
<1>3. ToSet(queue') \subseteq ToSet(queue)
  BY <1>1, <1>2, WithoutProperties
<1>4. Sorted(queue', accepted)
  BY <1>1, <1>2, SortedWithout DEF OrderInv
<1>5. \A A : AllBefore(A, ToSet(queue), accepted) => AllBefore(A, ToSet(queue'), accepted)
  BY <1>3, BeforeParts
<1> QED
  BY <1>1, <1>4, <1>5 DEF OrderInv

LEMMA OrderDrains ==
  ASSUME PlaceInv, OrderInv, NEW g \in Generations, DrainSteers(g)
  PROVE  OrderInv'
<1>1. TypeOK /\ ReceiptsTellPlace /\ HistoryInv /\ ToSet(queue) \subseteq Steers
  BY Places
<1>2. /\ g = row.createdAt
      /\ batch' = [batch EXCEPT ![g].items = queue]
      /\ claimed' = claimed \o queue /\ queue' = <<>>
      /\ UNCHANGED <<row, applied, accepted>>
  BY DEF DrainSteers, Running, history
<1>3. /\ queue \in Seq(Steers) /\ claimed \in Seq(Steers)
      /\ batch \in [Generations -> [items: Seq(Steers), failed: BOOLEAN]]
  BY <1>1 DEF TypeOK
<1>4. ToSet(claimed') = ToSet(claimed) \cup ToSet(queue) /\ ToSet(queue') = {}
  BY <1>2, <1>3, ConcatMembers, NothingYet
<1>5. batch'[g].items = queue /\ \A h \in Generations : h # g => batch'[h] = batch[h]
  BY <1>2, <1>3
<1>6. Sorted(claimed', accepted)
  BY <1>2, <1>3, SortedConcat DEF OrderInv
<1>7. ToSet(queue) \subseteq ToSet(accepted)
  BY <1>1 DEF ReceiptsTellPlace, HistoryInv
<1>8. AllBefore(ToSet(applied[g]), ToSet(queue), accepted)
  BY <1>2 DEF OrderInv
<1>9. AllBefore(ToSet(claimed') \ ToSet(queue), ToSet(queue), accepted)
  <2>1. ToSet(claimed') \ ToSet(queue) \subseteq ToSet(claimed)
    BY <1>4
  <2> QED
    BY <2>1, BeforeParts DEF OrderInv
<1>10. ASSUME NEW h \in Generations
       PROVE  /\ ToSet(batch'[h].items) \subseteq ToSet(accepted)
              /\ Sorted(applied[h], accepted) /\ Sorted(batch'[h].items, accepted)
              /\ AllBefore(ToSet(applied[h]), ToSet(batch'[h].items), accepted)
              /\ h = row.createdAt =>
                   /\ AllBefore(ToSet(applied[h]), ToSet(queue'), accepted)
                   /\ AllBefore(ToSet(claimed') \ ToSet(batch'[h].items), ToSet(batch'[h].items), accepted)
  <2>1. CASE h = g
    BY <1>4, <1>5, <1>7, <1>8, <1>9, <2>1, BeforeParts DEF OrderInv
  <2>2. CASE h # g
    BY <1>2, <1>5, <2>2 DEF OrderInv
  <2> QED
    BY <2>1, <2>2
<1> QED
  BY <1>2, <1>4, <1>6, <1>10, SortedEmpty, BeforeParts DEF OrderInv

LEMMA OrderApplies ==
  ASSUME PlaceInv, OrderInv, NEW g \in Generations, ApplySteer(g)
  PROVE  OrderInv'
<1>1. TypeOK
  BY Places
<1> DEFINE items == batch[g].items
<1>2. items \in Seq(Steers) /\ claimed \in Seq(Steers) /\ applied[g] \in Seq(Steers)
  BY <1>1 DEF TypeOK
<1>3. PICK s \in Steers :
        /\ s = Head(items) /\ s \in ToSet(items) /\ s \in ToSet(claimed) /\ g = row.createdAt
        /\ batch'[g].items = Tail(items) /\ ToSet(batch'[g].items) = ToSet(items) \ {s}
        /\ \A h \in Generations : h # g => batch'[h] = batch[h] /\ applied'[h] = applied[h]
        /\ claimed' = Without(claimed, {s}) /\ ToSet(claimed') = ToSet(claimed) \ {s}
        /\ applied'[g] = Append(applied[g], s) /\ ToSet(applied'[g]) = ToSet(applied[g]) \cup {s}
  BY Applying DEF Running
<1>4. items # <<>> /\ UNCHANGED <<row, queue, accepted>>
  BY DEF ApplySteer, history
<1>5. Sorted(claimed', accepted)
  BY <1>2, <1>3, SortedWithout DEF OrderInv
<1>6. AllBefore(ToSet(claimed'), ToSet(queue), accepted)
  BY <1>3, BeforeParts DEF OrderInv
<1>7. Sorted(Tail(items), accepted) /\ AllBefore({s}, ToSet(Tail(items)), accepted)
  BY <1>2, <1>3, <1>4, SortedTail DEF OrderInv
<1>8. AllBefore({s}, ToSet(queue), accepted) /\ AllBefore(ToSet(applied[g]), {s}, accepted)
  <2>1. {s} \subseteq ToSet(claimed) /\ {s} \subseteq ToSet(items)
    BY <1>3
  <2> QED
    BY <2>1, BeforeParts DEF OrderInv
<1>9. Sorted(applied'[g], accepted)
  <2>1. Sorted(applied[g], accepted)
    BY DEF OrderInv
  <2>2. Sorted(Append(applied[g], s), accepted)
    BY <1>2, <1>8, <2>1, SortedAppend
  <2> QED
    BY <1>3, <2>2
<1>10. AllBefore(ToSet(applied'[g]), ToSet(batch'[g].items), accepted)
  <2>1. AllBefore(ToSet(applied[g]), ToSet(items), accepted)
    BY DEF OrderInv
  <2>2. AllBefore(ToSet(applied[g]), ToSet(batch'[g].items), accepted)
    BY <1>3, <2>1 DEF AllBefore
  <2>3. AllBefore({s}, ToSet(batch'[g].items), accepted)
    BY <1>3, <1>7
  <2> QED
    BY <1>3, <2>2, <2>3 DEF AllBefore
<1>11. AllBefore(ToSet(applied'[g]), ToSet(queue), accepted)
  <2>1. AllBefore(ToSet(applied[g]), ToSet(queue), accepted)
    BY <1>3 DEF OrderInv
  <2> QED
    BY <1>3, <1>8, <2>1 DEF AllBefore
<1>12. AllBefore(ToSet(claimed') \ ToSet(batch'[g].items), ToSet(batch'[g].items), accepted)
  <2>1. AllBefore(ToSet(claimed) \ ToSet(items), ToSet(items), accepted)
    BY <1>3 DEF OrderInv
  <2>2. /\ ToSet(claimed') \ ToSet(batch'[g].items) \subseteq ToSet(claimed) \ ToSet(items)
        /\ ToSet(batch'[g].items) \subseteq ToSet(items)
    BY <1>3
  <2> QED
    BY <2>1, <2>2 DEF AllBefore
<1>13. ASSUME NEW h \in Generations
       PROVE  /\ ToSet(batch'[h].items) \subseteq ToSet(accepted)
              /\ Sorted(applied'[h], accepted) /\ Sorted(batch'[h].items, accepted)
              /\ AllBefore(ToSet(applied'[h]), ToSet(batch'[h].items), accepted)
              /\ h = row.createdAt =>
                   /\ AllBefore(ToSet(applied'[h]), ToSet(queue), accepted)
                   /\ AllBefore(ToSet(claimed') \ ToSet(batch'[h].items), ToSet(batch'[h].items), accepted)
  <2>1. CASE h = g
    <3>1. ToSet(batch'[g].items) \subseteq ToSet(accepted)
      BY <1>3 DEF OrderInv
    <3> QED
      BY <1>3, <1>7, <1>9, <1>10, <1>11, <1>12, <2>1, <3>1
  <2>2. CASE h # g
    BY <1>3, <2>2 DEF OrderInv
  <2> QED
    BY <2>1, <2>2
<1> QED
  BY <1>4, <1>5, <1>6, <1>13 DEF OrderInv

LEMMA OrderRestores ==
  ASSUME PlaceInv, OrderInv, NEW g \in Generations, RestoreClaimedSteers(g)
  PROVE  OrderInv'
<1> DEFINE items == batch[g].items
<1>1. /\ UNCHANGED <<row, applied, accepted>>
      /\ batch' = [batch EXCEPT ![g] = NoBatch] /\ items \in Seq(Steers)
      /\ \/ UNCHANGED <<queue, claimed>>
         \/ /\ Running(g) /\ ToSet(items) \subseteq ToSet(claimed)
            /\ claimed' = Without(claimed, ToSet(items)) /\ queue' = items \o queue
  BY Restoring
<1>2. /\ queue \in Seq(Steers) /\ claimed \in Seq(Steers)
      /\ batch \in [Generations -> [items: Seq(Steers), failed: BOOLEAN]]
  BY DEF PlaceInv, TypeOK
<1>3. /\ batch'[g].items = <<>> /\ ToSet(batch'[g].items) = {}
      /\ \A h \in Generations : h # g => batch'[h] = batch[h]
  BY <1>1, <1>2, NothingYet
<1>4. CASE UNCHANGED <<queue, claimed>>
  <2>1. \A h \in Generations : batch'[h].items = batch[h].items \/ batch'[h].items = <<>>
    BY <1>3
  <2> QED
    BY <1>1, <1>4, <2>1, OrderQuiet
<1>5. CASE /\ Running(g) /\ ToSet(items) \subseteq ToSet(claimed)
           /\ claimed' = Without(claimed, ToSet(items)) /\ queue' = items \o queue
  <2>1. g = row.createdAt
    BY <1>5 DEF Running
  <2>2. /\ ToSet(claimed') = ToSet(claimed) \ ToSet(items)
        /\ ToSet(queue') = ToSet(items) \cup ToSet(queue)
    BY <1>1, <1>2, <1>5, WithoutProperties, ConcatMembers
  <2>3. Sorted(claimed', accepted)
    BY <1>2, <1>5, SortedWithout DEF OrderInv
  <2>4. AllBefore(ToSet(items), ToSet(queue), accepted)
    BY <1>5 DEF AllBefore, OrderInv
  <2>5. Sorted(queue', accepted)
    <3>1. Sorted(items, accepted) /\ Sorted(queue, accepted)
      BY DEF OrderInv
    <3> QED
      BY <1>1, <1>2, <1>5, <2>4, <3>1, SortedConcat
  <2>6. AllBefore(ToSet(claimed'), ToSet(queue'), accepted)
    <3>1. /\ AllBefore(ToSet(claimed), ToSet(queue), accepted)
          /\ AllBefore(ToSet(claimed) \ ToSet(items), ToSet(items), accepted)
      BY <2>1 DEF OrderInv
    <3> QED
      BY <2>2, <3>1 DEF AllBefore
  <2>7. AllBefore(ToSet(applied[g]), ToSet(queue'), accepted)
    <3>1. /\ AllBefore(ToSet(applied[g]), ToSet(queue), accepted)
          /\ AllBefore(ToSet(applied[g]), ToSet(items), accepted)
      BY <2>1 DEF OrderInv
    <3> QED
      BY <2>2, <3>1 DEF AllBefore
  <2>8. ASSUME NEW h \in Generations
        PROVE  /\ ToSet(batch'[h].items) \subseteq ToSet(accepted)
               /\ Sorted(applied[h], accepted) /\ Sorted(batch'[h].items, accepted)
               /\ AllBefore(ToSet(applied[h]), ToSet(batch'[h].items), accepted)
               /\ h = row.createdAt =>
                    /\ AllBefore(ToSet(applied[h]), ToSet(queue'), accepted)
                    /\ AllBefore(ToSet(claimed') \ ToSet(batch'[h].items), ToSet(batch'[h].items), accepted)
    <3>1. CASE h = g
      BY <1>3, <2>7, <3>1, SortedEmpty, BeforeParts DEF OrderInv
    <3>2. CASE h # g
      BY <1>3, <2>1, <3>2 DEF OrderInv
    <3> QED
      BY <3>1, <3>2
  <2> QED
    BY <1>1, <2>3, <2>5, <2>6, <2>8 DEF OrderInv
<1> QED
  BY <1>1, <1>4, <1>5

LEMMA OrderStep == PlaceInv /\ OrderInv /\ [Next]_vars => OrderInv'
<1> SUFFICES ASSUME PlaceInv, OrderInv, [Next]_vars PROVE OrderInv'
  OBVIOUS
<1>1. ASSUME NEW r \in Steers \cup {NoSteer}, CreateJob(r) PROVE OrderInv'
  <2>1. applied' = applied /\ accepted' = accepted /\ batch' = batch /\ queue' = <<>> /\ claimed' = <<>>
    BY <1>1 DEF CreateJob, ParkQueuedSteers, history
  <2> QED
    BY <2>1, OrderQuiet
<1>2. CASE Pause \/ Resume
  <2>1. /\ applied' = applied /\ accepted' = accepted /\ batch' = batch /\ queue' = queue /\ claimed' = claimed
        /\ row'.createdAt = row.createdAt
    BY <1>2 DEF Pause, Resume, store, history, PlaceInv, TypeOK, Rows
  <2> QED
    BY <2>1, OrderQuiet
<1>3. CASE Terminate \/ Reap \/ DeleteJob
  <2>1. applied' = applied /\ accepted' = accepted /\ batch' = batch /\ queue' = <<>> /\ claimed' = <<>>
    BY <1>3 DEF Terminate, Reap, DeleteJob, ParkQueuedSteers, history
  <2> QED
    BY <2>1, OrderQuiet
<1>4. ASSUME NEW s \in Steers, UserStep(s) PROVE OrderInv'
  <2>1. CASE DiscardSteerLeftover(s) \/ ConsumeParkedSteer(s)
    <3>1. UNCHANGED <<row, queue, claimed, batch, applied, accepted>>
      BY <2>1 DEF DiscardSteerLeftover, ConsumeParkedSteer
    <3> QED
      BY <3>1, OrderQuiet
  <2> QED
    BY <1>4, <2>1, OrderEnqueues, OrderRemoves DEF UserStep
<1>5. ASSUME NEW g \in Generations, RunStep(g) PROVE OrderInv'
  <2>1. CASE ApplyFails(g) \/ RunDies(g)
    <3>1. UNCHANGED <<row, queue, claimed, applied, accepted>>
      BY <2>1 DEF ApplyFails, RunDies, store, history
    <3>2. batch \in [Generations -> [items: Seq(Steers), failed: BOOLEAN]]
      BY DEF PlaceInv, TypeOK
    <3>3. \A h \in Generations : batch'[h].items = batch[h].items \/ batch'[h].items = <<>>
      <4>1. CASE ApplyFails(g)
        BY <3>2, <4>1 DEF ApplyFails
      <4>2. CASE RunDies(g)
        BY <3>2, <4>2, NothingYet DEF RunDies
      <4> QED
        BY <2>1, <4>1, <4>2
    <3> QED
      BY <3>1, <3>3, OrderQuiet
  <2> QED
    BY <1>5, <2>1, OrderDrains, OrderApplies, OrderRestores DEF RunStep
<1>6. CASE ParkedExpires \/ UNCHANGED vars
  <2>1. UNCHANGED <<row, queue, claimed, batch, applied, accepted>>
    BY <1>6 DEF ParkedExpires, vars
  <2> QED
    BY <2>1, OrderQuiet
<1> QED
  BY <1>1, <1>2, <1>3, <1>4, <1>5, <1>6 DEF Next

\* Steers are applied in the order they were accepted, and what is still to
\* be applied is drained and applied in that order: also when a batch fails
\* half way, goes back to the front of the queue and is drained again.
THEOREM OrderKept == Spec => []AppliedInOrder
<1>1. PlaceInv /\ OrderInv => AppliedInOrder
  <2> SUFFICES ASSUME PlaceInv, OrderInv PROVE AppliedInOrder
    OBVIOUS
  <2>1. claimed \in Seq(Steers) /\ queue \in Seq(Steers)
    BY DEF PlaceInv, TypeOK
  <2>2. Sorted(claimed \o queue, accepted)
    BY <2>1, SortedConcat DEF OrderInv
  <2>3. \A g \in Generations : Sorted(applied[g], accepted)
    BY DEF OrderInv
  <2>4. \A seq : Sorted(seq, accepted) => InOrder(seq)
    BY DEF Sorted, Before, InOrder
  <2> QED
    BY <2>2, <2>3, <2>4 DEF AppliedInOrder
<1> QED
  BY PlaceInit, PlaceStep, OrderInit, OrderStep, <1>1, PTL DEF Spec

-----------------------------------------------------------------------------
(* What a step may not do *)

\* An operation of a run that was replaced, or paused, finds the stream not
\* its own: it can only drop what it still holds, and moves no steer.
THEOREM StaleRunsInert == Spec => StaleRunIsInert
<1> DEFINE Inert == \A g \in Generations :
              batch'[g] # batch[g] /\ g # row.createdAt => UNCHANGED <<queue, claimed, receipts, applied>>
<1>1. PlaceInv /\ [Next]_vars => Inert
  <2> SUFFICES ASSUME PlaceInv, [Next]_vars, NEW h \in Generations, batch'[h] # batch[h], h # row.createdAt
               PROVE  UNCHANGED <<queue, claimed, receipts, applied>>
    OBVIOUS
  <2>1. batch \in [Generations -> [items: Seq(Steers), failed: BOOLEAN]]
    BY DEF PlaceInv, TypeOK
  <2>2. PICK g \in Generations : RunStep(g)
    BY DEF Next, vars, CreateJob, Pause, Resume, Terminate, DeleteJob, Reap, UserStep, EnqueueSteer,
           RemoveSteer, DiscardSteerLeftover, ConsumeParkedSteer, ParkedExpires
  <2>3. g = h
    BY <2>1, <2>2 DEF RunStep, DrainSteers, ApplySteer, ApplyFails, RestoreClaimedSteers, RunDies
  <2>4. ~DrainSteers(g) /\ ~ApplySteer(g)
    BY <2>3, Applying DEF DrainSteers, Running
  <2>5. CASE ApplyFails(g) \/ RunDies(g)
    BY <2>5 DEF ApplyFails, RunDies, store
  <2>6. CASE RestoreClaimedSteers(g)
    BY <2>3, <2>6, Restoring DEF Running
  <2> QED
    BY <2>2, <2>4, <2>5, <2>6 DEF RunStep
<1> QED
  BY PlaceInit, PlaceStep, <1>1, PTL DEF Spec, StaleRunIsInert

\* While the generation that recovers a steer is live, the steer leaves the
\* parked ones only by that recovery's own commit.
THEOREM RecoveriesOwn == Spec => RecoveryOwnsSteer
<1> DEFINE Owns == \A s \in parked :
              RecoveryLive(s) /\ lease[s] = row.createdAt /\ s \notin parked' => s \in recovered'
<1>1. PlaceInv /\ [Next]_vars => Owns
  <2> SUFFICES ASSUME PlaceInv, [Next]_vars, NEW s \in parked, RecoveryLive(s), lease[s] = row.createdAt,
                      s \notin parked'
               PROVE  s \in recovered'
    OBVIOUS
  <2>1. PICK q \in Steers : DiscardSteerLeftover(q) \/ ConsumeParkedSteer(q)
    BY DEF Next, vars, CreateJob, Pause, Resume, Terminate, DeleteJob, Reap, UserStep, EnqueueSteer,
           RemoveSteer, ParkedExpires, ParkQueuedSteers, RunStep, DrainSteers, ApplySteer, ApplyFails,
           RestoreClaimedSteers, RunDies, store
  <2>2. q = s
    BY <2>1 DEF DiscardSteerLeftover, ConsumeParkedSteer
  <2> QED
    BY <2>1, <2>2 DEF DiscardSteerLeftover, Discardable, ConsumeParkedSteer
<1> QED
  BY PlaceInit, PlaceStep, <1>1, PTL DEF Spec, RecoveryOwnsSteer

-----------------------------------------------------------------------------
(***************************************************************************)
(* The contract: every step of the store is a step of SteerContract, or    *)
(* changes no steer's life.                                                *)
(***************************************************************************)

\* The life of a steer, told from its receipt and from whether it is parked.
Told(s) ==
  LET state == receipts[s].state
  IN  IF state = "none" THEN "fresh"
      ELSE IF state \in {"queued", "claimed"} THEN "waiting"
      ELSE IF state = "delivered" THEN "applied"
      ELSE IF state # "leftover" THEN state
      ELSE IF s \in parked THEN "leftover" ELSE "lapsed"

LEMMA LifeTold == PlaceInv => \A s \in Steers : Life(s) = Told(s)
<1> SUFFICES ASSUME PlaceInv, NEW s \in Steers PROVE Life(s) = Told(s)
  OBVIOUS
<1>1. ReceiptsTellPlace /\ HistoryInv /\ receipts[s].state \in ReceiptStates
  BY Places
<1>2. /\ receipts[s].state = "queued" <=> s \in ToSet(queue)
      /\ receipts[s].state = "claimed" <=> s \in ToSet(claimed)
      /\ receipts[s].state = "delivered" <=> s \in UNION {ToSet(applied[g]) : g \in Generations}
      /\ receipts[s].state = "recovered" <=> s \in recovered
      /\ receipts[s].state = "cancelled" <=> s \in cancelled
      /\ s \in parked => receipts[s].state = "leftover"
      /\ receipts[s].state = "leftover" => s \in parked \cup lapsed
      /\ receipts[s].state = "none" <=> s \notin ToSet(accepted)
      /\ s \in lapsed => s \notin parked /\ receipts[s].state \in {"leftover", "cancelled"}
  BY <1>1 DEF ReceiptsTellPlace, HistoryInv
<1>3. s \in Undelivered <=> receipts[s].state \in {"queued", "claimed"}
  BY <1>2 DEF Undelivered
<1> QED
  BY <1>1, <1>2, <1>3 DEF Life, Told, ReceiptStates

LEMMA LifeToldNext == PlaceInv' => (\A s \in Steers : Life(s) = Told(s))'
  BY LifeTold, PTL

\* A step that moves the steers of S, and them only, is a move of the contract.
LEMMA Moves ==
  ASSUME NEW S, NEW from, NEW to, S \subseteq Steers,
         \A s \in S : Life(s) \in from /\ Life(s)' = to,
         \A s \in Steers \ S : Life(s)' = Life(s)
  PROVE  Contract!Move(S, from, to)
  BY DEF Contract!Move

LEMMA LivesStart == Init => Contract!Init
<1> SUFFICES ASSUME Init PROVE Contract!Init
  OBVIOUS
<1>1. \A s \in Steers : Told(s) = "fresh"
  BY DEF Init, NoReceipt, Told
<1>2. \A s \in Steers : Life(s) = "fresh"
  BY <1>1, PlaceInit, LifeTold
<1> QED
  BY <1>2 DEF Contract!Init

LEMMA LivesStep ==
  PlaceInv /\ PlaceInv' /\ [Next]_vars => [Contract!Next]_([s \in Steers |-> Life(s)])
<1> SUFFICES ASSUME PlaceInv, PlaceInv', [Next]_vars
             PROVE  [Contract!Next]_([s \in Steers |-> Life(s)])
  OBVIOUS
<1> DEFINE Stutters == [s \in Steers |-> Life(s)]' = [s \in Steers |-> Life(s)]
<1>1. \A s \in Steers : Life(s) = Told(s) /\ Life(s)' = Told(s)'
  BY LifeTold, LifeToldNext
<1>2. \A s \in Steers : receipts'[s].state = receipts[s].state /\ (s \in parked' <=> s \in parked)
                          => Life(s)' = Life(s)
  BY <1>1 DEF Told
<1>3. /\ TypeOK /\ ReceiptsTellPlace /\ parked \subseteq Steers
      /\ ToSet(queue) \subseteq Steers /\ ToSet(claimed) \subseteq Steers
      /\ receipts \in [Steers -> [state: ReceiptStates, generation: Nat]]
  BY Places DEF TypeOK
<1>4. ASSUME UNCHANGED <<receipts, parked>> PROVE Stutters
  BY <1>2, <1>4
<1>5. ASSUME ParkQueuedSteers, UNCHANGED <<batch, applied, history>>
      PROVE  Stutters \/ Contract!Next
  <2>1. Undelivered \subseteq Steers
    BY <1>3 DEF Undelivered
  <2>2. \A s \in Undelivered : Life(s) \in {"waiting"} /\ Life(s)' = "leftover"
    <3>1. \A s \in Undelivered : receipts[s].state \in {"queued", "claimed"}
      BY <1>3, <2>1 DEF Undelivered, ReceiptsTellPlace
    <3>2. \A s \in Undelivered : receipts'[s].state = "leftover" /\ s \in parked'
      BY <1>5, Parks
    <3> QED
      BY <1>1, <2>1, <3>1, <3>2 DEF Told
  <2>3. \A s \in Steers \ Undelivered : Life(s)' = Life(s)
    <3>1. \A s \in Steers \ Undelivered :
            receipts'[s].state = receipts[s].state /\ (s \in parked' <=> s \in parked)
      BY <1>5, Parks
    <3> QED
      BY <1>2, <3>1
  <2>4. CASE Undelivered = {}
    BY <2>3, <2>4
  <2>5. CASE Undelivered # {}
    <3>1. Contract!HandBack(Undelivered)
      BY <2>1, <2>2, <2>3, Moves DEF Contract!HandBack
    <3> QED
      BY <2>1, <2>5, <3>1 DEF Contract!Next
  <2> QED
    BY <2>4, <2>5
<1>6. ASSUME NEW s \in Steers, EnqueueSteer(s) PROVE Contract!Next
  <2>1. /\ receipts[s].state = "none" /\ receipts'[s].state = "queued" /\ parked' = parked
        /\ \A q \in Steers \ {s} : receipts'[q].state = receipts[q].state
    BY <1>3, <1>6 DEF EnqueueSteer, NoReceipt
  <2>2. Life(s) \in {"fresh"} /\ Life(s)' = "waiting"
    BY <1>1, <2>1 DEF Told
  <2>3. Contract!Accept(s)
    BY <1>2, <2>1, <2>2, Moves DEF Contract!Accept
  <2> QED
    BY <2>3 DEF Contract!Next
<1>7. ASSUME NEW s \in Steers, RemoveSteer(s) \/ DiscardSteerLeftover(s) PROVE Contract!Next
  <2>1. receipts' = Settled({s}, "cancelled") /\ receipts[s].state \in {"queued", "leftover"}
        /\ (parked' = parked \/ parked' = parked \ {s})
    BY <1>3, <1>7 DEF RemoveSteer, DiscardSteerLeftover, Discardable, ReceiptsTellPlace
  <2>2. \A q \in Steers : receipts'[q].state = IF q = s THEN "cancelled" ELSE receipts[q].state
    BY <1>3, <2>1, SettledReceipts DEF ReceiptStates
  <2>3. Life(s) \in {"waiting", "leftover", "lapsed"} /\ Life(s)' = "cancelled"
    BY <1>1, <2>1, <2>2 DEF Told
  <2>4. Contract!Cancel(s)
    BY <1>2, <2>1, <2>2, <2>3, Moves DEF Contract!Cancel
  <2> QED
    BY <2>4 DEF Contract!Next
<1>8. ASSUME NEW s \in Steers, ConsumeParkedSteer(s) PROVE Contract!Next
  <2>1. /\ receipts' = Settled({s}, "recovered") /\ receipts[s].state = "leftover"
        /\ s \in parked /\ parked' = parked \ {s}
    BY <1>8 DEF ConsumeParkedSteer
  <2>2. \A q \in Steers : receipts'[q].state = IF q = s THEN "recovered" ELSE receipts[q].state
    BY <1>3, <2>1, SettledReceipts DEF ReceiptStates
  <2>3. Life(s) \in {"leftover"} /\ Life(s)' = "recovered"
    BY <1>1, <2>1, <2>2 DEF Told
  <2>4. Contract!Recover(s)
    BY <1>2, <2>1, <2>2, <2>3, Moves DEF Contract!Recover
  <2> QED
    BY <2>4 DEF Contract!Next
<1>9. ASSUME NEW g \in Generations, DrainSteers(g) PROVE Stutters
  <2>1. receipts' = Settled(ToSet(queue), "claimed") /\ parked' = parked
    BY <1>9 DEF DrainSteers
  <2>2. \A q \in Steers : receipts'[q].state = IF q \in ToSet(queue) THEN "claimed" ELSE receipts[q].state
    BY <1>3, <2>1, SettledReceipts DEF ReceiptStates
  <2>3. \A q \in ToSet(queue) : receipts[q].state = "queued"
    BY <1>3 DEF ReceiptsTellPlace
  <2>4. \A q \in Steers : Told(q)' = Told(q)
    BY <2>1, <2>2, <2>3 DEF Told
  <2> QED
    BY <1>1, <2>4
<1>10. ASSUME NEW g \in Generations, RestoreClaimedSteers(g) PROVE Stutters
  <2> DEFINE B == ToSet(batch[g].items)
  <2>1. CASE UNCHANGED receipts
    BY <1>4, <1>10, <2>1, Restoring
  <2>2. CASE receipts' = Settled(B, "queued") /\ B \subseteq ToSet(claimed)
    <3>1. \A q \in Steers : receipts'[q].state = IF q \in B THEN "queued" ELSE receipts[q].state
      BY <1>3, <2>2, SettledReceipts DEF ReceiptStates
    <3>2. \A q \in B : receipts[q].state = "claimed"
      BY <1>3, <2>2 DEF ReceiptsTellPlace
    <3>3. parked' = parked
      BY <1>10, Restoring
    <3>4. \A q \in Steers : Told(q)' = Told(q)
      BY <3>1, <3>2, <3>3 DEF Told
    <3> QED
      BY <1>1, <3>4
  <2> QED
    BY <1>10, <2>1, <2>2, Restoring
<1>11. ASSUME NEW g \in Generations, ApplySteer(g) PROVE Contract!Next
  <2>1. PICK s \in Steers : s \in ToSet(claimed) /\ s = Head(batch[g].items)
    BY <1>11, Applying
  <2>2. receipts' = Settled({s}, "delivered") /\ parked' = parked
    BY <1>11, <2>1 DEF ApplySteer
  <2>3. \A q \in Steers : receipts'[q].state = IF q = s THEN "delivered" ELSE receipts[q].state
    BY <1>3, <2>2, SettledReceipts DEF ReceiptStates
  <2>4. receipts[s].state = "claimed"
    BY <1>3, <2>1 DEF ReceiptsTellPlace
  <2>5. Life(s) \in {"waiting"} /\ Life(s)' = "applied"
    BY <1>1, <2>3, <2>4 DEF Told
  <2>6. Contract!Apply(s)
    BY <1>2, <2>2, <2>3, <2>5, Moves DEF Contract!Apply
  <2> QED
    BY <2>6 DEF Contract!Next
<1>12. ASSUME ParkedExpires PROVE Contract!Next
  <2>1. parked # {} /\ parked' = {} /\ receipts' = receipts
    BY <1>12 DEF ParkedExpires
  <2>2. \A s \in parked : receipts[s].state = "leftover"
    BY <1>3 DEF ReceiptsTellPlace
  <2>3. \A s \in parked : Life(s) \in {"leftover"} /\ Life(s)' = "lapsed"
    BY <1>1, <1>3, <2>1, <2>2 DEF Told
  <2>4. \A s \in Steers \ parked : Life(s)' = Life(s)
    BY <1>2, <2>1
  <2>5. Contract!Lapse(parked)
    BY <1>3, <2>3, <2>4, Moves DEF Contract!Lapse
  <2> QED
    BY <1>3, <2>1, <2>5 DEF Contract!Next
<1>13. ASSUME NEW r \in Steers \cup {NoSteer}, CreateJob(r) PROVE Stutters \/ Contract!Next
  BY <1>5, <1>13 DEF CreateJob
<1>14. ASSUME Terminate \/ Reap PROVE Stutters \/ Contract!Next
  BY <1>5, <1>14 DEF Terminate, Reap
<1>15. ASSUME Pause \/ Resume \/ DeleteJob \/ UNCHANGED vars PROVE Stutters
  BY <1>4, <1>15 DEF Pause, Resume, DeleteJob, store, vars
<1>16. ASSUME NEW g \in Generations, ApplyFails(g) \/ RunDies(g) PROVE Stutters
  BY <1>4, <1>16 DEF ApplyFails, RunDies, store
<1> HIDE DEF Stutters
<1>17. Stutters \/ Contract!Next
  BY <1>6, <1>7, <1>8, <1>9, <1>10, <1>11, <1>12, <1>13, <1>14, <1>15, <1>16 DEF Next, UserStep, RunStep
<1> QED
  BY <1>17 DEF Stutters

\* The store keeps the contract of steering: an accepted steer is applied
\* once, or handed back and then sent again once, dismissed, or expired; it
\* is never lost and never used twice.
THEOREM ContractKept == Spec => KeepsContract
<1> QED
  BY PlaceInit, PlaceStep, LivesStart, LivesStep, PTL DEF Spec, KeepsContract, Contract!Spec
=============================================================================
