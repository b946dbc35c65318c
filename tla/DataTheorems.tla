------------------------------ MODULE DataTheorems ------------------------------
(***************************************************************************)
(* What the proofs of several components need of their data: sequences in  *)
(* which nothing comes twice, as queues and orders of use are, and sums    *)
(* over finite sets, as sizes and counters are.                            *)
(*                                                                         *)
(* The folds of the community modules add the elements of a set in an      *)
(* order that CHOOSE gives.  IsSum says what every order gives, and the    *)
(* lemmas show that a fold computes it.  Induction over a finite set goes  *)
(* by a smallest subset among those that are bad (SmallestSet).            *)
(***************************************************************************)
EXTENDS SequencesExt, FiniteSetsExt, FiniteSetTheorems, TLAPS

-----------------------------------------------------------------------------
(* Sequences in which nothing comes twice                                  *)

\* Something new comes last.
LEMMA AppendNew ==
  ASSUME NEW S, NEW s \in Seq(S), IsInjective(s), NEW t \in S, t \notin ToSet(s)
  PROVE  /\ Append(s, t) \in Seq(S) /\ IsInjective(Append(s, t))
         /\ ToSet(Append(s, t)) = ToSet(s) \cup {t}
  BY DEF IsInjective, ToSet

\* What is left of a sequence without its first.
LEMMA TailItems ==
  ASSUME NEW S, NEW s \in Seq(S), s # << >>
  PROVE  /\ Tail(s) \in Seq(S) /\ Len(s) \in Nat \ {0} /\ Len(Tail(s)) = Len(s) - 1
         /\ \A i \in 1 .. Len(s) - 1 : Tail(s)[i] = s[i + 1]
  OBVIOUS

LEMMA IsSequence ==
  ASSUME NEW S, NEW n \in Nat, NEW f, f \in [1 .. n -> S]
  PROVE  f \in Seq(S)
OBVIOUS

\* The first and the others.
LEMMA FirstAndRest ==
  ASSUME NEW S, NEW s \in Seq(S), s # << >>
  PROVE  ToSet(s) = {Head(s)} \cup ToSet(Tail(s))
<1>. DEFINE r == Tail(s)
<1>1. /\ r \in Seq(S) /\ Len(s) \in Nat \ {0} /\ Len(r) = Len(s) - 1
      /\ \A i \in 1 .. Len(s) - 1 : r[i] = s[i + 1]
      /\ Head(s) = s[1]
  BY TailItems
<1>. HIDE DEF r
<1>2. ASSUME NEW w \in ToSet(s), w # s[1] PROVE w \in ToSet(r)
  <2>1. PICK i \in 1 .. Len(s) : s[i] = w
    BY DEF ToSet
  <2>2. i # 1
    BY <1>2, <2>1
  <2>3. i - 1 \in 1 .. Len(s) - 1 /\ r[i - 1] = w
    BY <1>1, <2>1, <2>2
  <2>. QED
    BY <1>1, <2>3 DEF ToSet
<1>3. ASSUME NEW w \in ToSet(r) PROVE w \in ToSet(s)
  <2>1. PICK i \in 1 .. Len(s) - 1 : r[i] = w
    BY <1>1 DEF ToSet
  <2>2. i + 1 \in 1 .. Len(s) /\ s[i + 1] = w
    BY <1>1, <2>1
  <2>. QED
    BY <2>2 DEF ToSet
<1>4. s[1] \in ToSet(s)
  BY <1>1 DEF ToSet
<1>. QED
  BY <1>1, <1>2, <1>3, <1>4 DEF r

\* The first leaves.
LEMMA TailRest ==
  ASSUME NEW S, NEW s \in Seq(S), IsInjective(s), s # << >>
  PROVE  /\ Tail(s) \in Seq(S) /\ IsInjective(Tail(s))
         /\ ToSet(Tail(s)) = ToSet(s) \ {Head(s)}
<1>. DEFINE r == Tail(s)
<1>1. /\ r \in Seq(S) /\ Len(s) \in Nat \ {0} /\ Len(r) = Len(s) - 1
      /\ \A i \in 1 .. Len(s) - 1 : r[i] = s[i + 1]
      /\ Head(s) = s[1]
  OBVIOUS
<1>. HIDE DEF r
<1>2. IsInjective(r)
  <2>1. ASSUME NEW i \in 1 .. Len(r), NEW j \in 1 .. Len(r), r[i] = r[j] PROVE i = j
    <3>1. i + 1 \in DOMAIN s /\ j + 1 \in DOMAIN s /\ s[i + 1] = s[j + 1]
      BY <1>1, <2>1
    <3>2. i + 1 = j + 1
      BY <3>1 DEF IsInjective
    <3>. QED
      BY <1>1, <3>2
  <2>. QED
    BY <1>1, <2>1 DEF IsInjective
<1>3. \A w \in ToSet(r) : w \in ToSet(s) /\ w # Head(s)
  BY <1>1 DEF IsInjective, ToSet
<1>4. ASSUME NEW w \in ToSet(s), w # Head(s) PROVE w \in ToSet(r)
  <2>1. PICK i \in 1 .. Len(s) : s[i] = w
    BY DEF ToSet
  <2>2. i - 1 \in 1 .. Len(s) - 1 /\ r[i - 1] = w
    BY <1>1, <1>4, <2>1
  <2>. QED
    BY <1>1, <2>2 DEF ToSet
<1>. QED
  BY <1>1, <1>2, <1>3, <1>4 DEF r

\* What is where once one of them has left.
LEMMA RemoveItems ==
  ASSUME NEW S, NEW s \in Seq(S), IsInjective(s), NEW k \in 1 .. Len(s)
  PROVE  /\ RemoveFirst(s, s[k]) \in Seq(S) /\ Len(RemoveFirst(s, s[k])) = Len(s) - 1
         /\ \A i \in 1 .. Len(s) - 1 : RemoveFirst(s, s[k])[i] = IF i < k THEN s[i] ELSE s[i + 1]
<1>. DEFINE t == s[k]
            r == RemoveFirst(s, t)
<1>1. k \in 1 .. Len(s) /\ s[k] = t
  OBVIOUS
<1>2. {i \in 1 .. Len(s) : s[i] = t} = {k}
  BY <1>1 DEF IsInjective
<1>3. SelectInSeq(s, LAMBDA v : v = t) = k
  BY <1>2 DEF SelectInSeq, Min
<1>4. r = SubSeq(s, 1, k - 1) \o SubSeq(s, k + 1, Len(s))
  BY <1>1, <1>3 DEF RemoveFirst, RemoveAt
<1>. DEFINE a == SubSeq(s, 1, k - 1)
            b == SubSeq(s, k + 1, Len(s))
<1>a. /\ a \in Seq(S) /\ Len(a) = k - 1
      /\ \A i \in 1 .. k - 1 : a[i] = s[i]
  BY <1>1
<1>b. /\ b \in Seq(S) /\ Len(b) = Len(s) - k
      /\ \A i \in 1 .. Len(s) - k : b[i] = s[k + i]
  BY <1>1
<1>c. r = a \o b
  BY <1>4
<1>. HIDE DEF t, r, a, b
<1>d. r \in Seq(S) /\ Len(r) = Len(s) - 1
  BY <1>1, <1>a, <1>b, <1>c
<1>5. /\ r \in Seq(S) /\ Len(r) = Len(s) - 1
      /\ \A i \in 1 .. Len(s) - 1 : r[i] = IF i < k THEN s[i] ELSE s[i + 1]
  <2>1. ASSUME NEW i \in 1 .. Len(s) - 1 PROVE r[i] = IF i < k THEN s[i] ELSE s[i + 1]
    <3>1. r[i] = IF i <= Len(a) THEN a[i] ELSE b[i - Len(a)]
      BY <1>1, <1>a, <1>b, <1>c
    <3>2. CASE i < k
      BY <1>1, <1>a, <3>1, <3>2
    <3>3. CASE i >= k
      BY <1>1, <1>a, <1>b, <3>1, <3>3
    <3>. QED
      BY <1>1, <3>2, <3>3
  <2>. QED
    BY <1>d, <2>1
<1>. QED
  BY <1>5 DEF r, t

\* One of them leaves, if it is there.
LEMMA RemoveOne ==
  ASSUME NEW S, NEW s \in Seq(S), IsInjective(s), NEW t
  PROVE  /\ RemoveFirst(s, t) \in Seq(S) /\ IsInjective(RemoveFirst(s, t))
         /\ ToSet(RemoveFirst(s, t)) = ToSet(s) \ {t}
<1>. DEFINE r == RemoveFirst(s, t)
<1>1. CASE t \notin ToSet(s)
  <2>1. r = s
    BY <1>1 DEF RemoveFirst, ToSet
  <2>. QED
    BY <1>1, <2>1
<1>2. CASE t \in ToSet(s)
  <2>1. PICK k \in 1 .. Len(s) : s[k] = t
    BY <1>2 DEF ToSet
  <2>2. /\ r \in Seq(S) /\ Len(r) = Len(s) - 1
        /\ \A i \in 1 .. Len(s) - 1 : r[i] = IF i < k THEN s[i] ELSE s[i + 1]
    BY <2>1, RemoveItems
  <2>. HIDE DEF r
  <2>3. IsInjective(r)
    BY <2>1, <2>2 DEF IsInjective
  <2>4. \A w \in ToSet(r) : w \in ToSet(s) /\ w # t
    BY <2>1, <2>2 DEF IsInjective, ToSet
  <2>5. ASSUME NEW w \in ToSet(s), w # t PROVE w \in ToSet(r)
    <3>1. PICK i \in 1 .. Len(s) : s[i] = w
      BY DEF ToSet
    <3>2. CASE i < k
      BY <2>1, <2>2, <3>1, <3>2 DEF ToSet
    <3>3. CASE i > k
      <4>1. i - 1 \in 1 .. Len(s) - 1 /\ r[i - 1] = w
        BY <2>1, <2>2, <3>1, <3>3
      <4>. QED
        BY <2>2, <4>1 DEF ToSet
    <3>. QED
      BY <2>1, <2>5, <3>1, <3>2, <3>3
  <2>. QED
    BY <2>2, <2>3, <2>4, <2>5 DEF r
<1>. QED
  BY <1>1, <1>2

\* One of them, or a new one, is moved to the end: an order of use.
LEMMA MoveLast ==
  ASSUME NEW S, NEW s \in Seq(S), IsInjective(s), NEW t \in S
  PROVE  /\ Append(RemoveFirst(s, t), t) \in Seq(S)
         /\ IsInjective(Append(RemoveFirst(s, t), t))
         /\ ToSet(Append(RemoveFirst(s, t), t)) = ToSet(s) \cup {t}
<1>1. /\ RemoveFirst(s, t) \in Seq(S) /\ IsInjective(RemoveFirst(s, t))
      /\ ToSet(RemoveFirst(s, t)) = ToSet(s) \ {t}
  BY RemoveOne
<1>. QED
  BY <1>1, AppendNew

\* A set in some order.
LEMMA AllInOrder ==
  ASSUME NEW S, IsFiniteSet(S), NEW s \in SetToSeqs(S)
  PROVE  s \in Seq(S) /\ IsInjective(s) /\ ToSet(s) = S
<1>. DEFINE n == Cardinality(S)
<1>1. n \in Nat
  BY FS_CardinalityType
<1>2. s \in [1 .. n -> S] /\ \A i, j \in 1 .. n : i # j => s[i] # s[j]
  BY DEF SetToSeqs
<1>3. IsFiniteSet(1 .. n) /\ Cardinality(1 .. n) = n
  <2>1. /\ IsFiniteSet(1 .. n)
        /\ Cardinality(1 .. n) = IF 1 > n THEN 0 ELSE n - 1 + 1
    BY <1>1, FS_Interval
  <2>. QED
    BY <1>1, <2>1
<1>4. s \in Injection(1 .. n, S)
  BY <1>2 DEF Injection, IsInjective
<1>5. s \in Surjection(1 .. n, S)
  BY <1>3, <1>4, FS_Injection
<1>6. s \in Seq(S) /\ DOMAIN s = 1 .. n
  BY <1>1, <1>2
<1>7. ToSet(s) = S
  BY <1>5, <1>6 DEF Surjection, ToSet
<1>. QED
  BY <1>4, <1>6, <1>7 DEF Injection, IsInjective

\* As many as its places.
LEMMA LenOfSet ==
  ASSUME NEW S, NEW s \in Seq(S), IsInjective(s)
  PROVE  IsFiniteSet(ToSet(s)) /\ Cardinality(ToSet(s)) = Len(s)
<1>0. Len(s) \in Nat
  OBVIOUS
<1>1. IsFiniteSet(1 .. Len(s)) /\ Cardinality(1 .. Len(s)) = Len(s)
  <2>1. /\ IsFiniteSet(1 .. Len(s))
        /\ Cardinality(1 .. Len(s)) = IF 1 > Len(s) THEN 0 ELSE Len(s) - 1 + 1
    BY <1>0, FS_Interval
  <2>. QED
    BY <1>0, <2>1
<1>2. s \in Bijection(1 .. Len(s), ToSet(s))
  BY DEF Bijection, Injection, Surjection, IsInjective, ToSet
<1>. QED
  <2>1. /\ IsFiniteSet(ToSet(s))
        /\ Cardinality(ToSet(s)) = Cardinality(1 .. Len(s))
    BY <1>1, <1>2, FS_Bijection DEF ExistsBijection
  <2>. QED
    BY <1>1, <2>1

\* Two that share nothing, one after the other.
LEMMA Concatenated ==
  ASSUME NEW S, NEW s \in Seq(S), NEW t \in Seq(S), IsInjective(s), IsInjective(t),
         ToSet(s) \cap ToSet(t) = {}
  PROVE  /\ s \o t \in Seq(S) /\ IsInjective(s \o t) /\ Len(s \o t) = Len(s) + Len(t)
         /\ ToSet(s \o t) = ToSet(s) \cup ToSet(t)
<1>. DEFINE r == s \o t
<1>1. /\ r \in Seq(S) /\ Len(r) = Len(s) + Len(t) /\ Len(s) \in Nat /\ Len(t) \in Nat
      /\ \A i \in 1 .. Len(s) : r[i] = s[i]
      /\ \A i \in 1 .. Len(t) : r[Len(s) + i] = t[i]
  OBVIOUS
<1>. HIDE DEF r
<1>2. \A i \in 1 .. Len(s) : s[i] \in ToSet(s)
  BY DEF ToSet
<1>3. \A i \in 1 .. Len(t) : t[i] \in ToSet(t)
  BY DEF ToSet
<1>4. ASSUME NEW i \in 1 .. Len(r), NEW j \in 1 .. Len(r), r[i] = r[j] PROVE i = j
  <2>1. CASE i <= Len(s) /\ j <= Len(s)
    BY <1>1, <1>4, <2>1 DEF IsInjective
  <2>2. CASE i > Len(s) /\ j > Len(s)
    <3>1. /\ i - Len(s) \in 1 .. Len(t) /\ j - Len(s) \in 1 .. Len(t)
          /\ r[Len(s) + (i - Len(s))] = r[i] /\ r[Len(s) + (j - Len(s))] = r[j]
      BY <1>1, <2>2
    <3>2. t[i - Len(s)] = t[j - Len(s)]
      BY <1>1, <1>4, <3>1
    <3>3. i - Len(s) = j - Len(s)
      BY <3>1, <3>2 DEF IsInjective
    <3>. QED
      BY <1>1, <3>3
  <2>3. CASE (i <= Len(s) /\ j > Len(s)) \/ (i > Len(s) /\ j <= Len(s))
    <3>1. \A k \in 1 .. Len(r) : k <= Len(s) => r[k] \in ToSet(s)
      BY <1>1, <1>2
    <3>2. \A k \in 1 .. Len(r) : k > Len(s) => r[k] \in ToSet(t)
      <4>1. ASSUME NEW k \in 1 .. Len(r), k > Len(s) PROVE r[k] \in ToSet(t)
        <5>1. k - Len(s) \in 1 .. Len(t) /\ r[Len(s) + (k - Len(s))] = r[k]
          BY <1>1, <4>1
        <5>. QED
          BY <1>1, <1>3, <5>1
      <4>. QED
        BY <4>1
    <3>. QED
      BY <1>4, <2>3, <3>1, <3>2
  <2>. QED
    BY <1>1, <2>1, <2>2, <2>3
<1>5. ASSUME NEW w \in ToSet(r) PROVE w \in ToSet(s) \cup ToSet(t)
  <2>1. PICK i \in 1 .. Len(r) : r[i] = w
    BY <1>1 DEF ToSet
  <2>2. CASE i <= Len(s)
    BY <1>1, <1>2, <2>1, <2>2
  <2>3. CASE i > Len(s)
    <3>1. i - Len(s) \in 1 .. Len(t) /\ r[Len(s) + (i - Len(s))] = r[i]
      BY <1>1, <2>3
    <3>. QED
      BY <1>1, <1>3, <2>1, <3>1
  <2>. QED
    BY <1>1, <2>2, <2>3
<1>r. \A i \in 1 .. Len(r) : r[i] \in ToSet(r)
  <2>1. r \in Seq(S)
    BY <1>1
  <2>. QED
    BY <2>1 DEF ToSet
<1>6. ASSUME NEW w \in ToSet(s) PROVE w \in ToSet(r)
  <2>1. PICK i \in 1 .. Len(s) : s[i] = w
    BY DEF ToSet
  <2>2. i \in 1 .. Len(r) /\ r[i] = w
    BY <1>1, <2>1
  <2>. QED
    BY <1>r, <2>2
<1>7. ASSUME NEW w \in ToSet(t) PROVE w \in ToSet(r)
  <2>1. PICK i \in 1 .. Len(t) : t[i] = w
    BY DEF ToSet
  <2>2. Len(s) + i \in 1 .. Len(r) /\ r[Len(s) + i] = w
    BY <1>1, <2>1
  <2>. QED
    BY <1>r, <2>2
<1>8. IsInjective(r)
  BY <1>1, <1>4 DEF IsInjective
<1>. QED
  BY <1>1, <1>5, <1>6, <1>7, <1>8 DEF r

\* The first n and the others.
LEMMA Split ==
  ASSUME NEW S, NEW s \in Seq(S), NEW n \in 0 .. Len(s), IsInjective(s)
  PROVE  LET a == SubSeq(s, 1, n)
             b == SubSeq(s, n + 1, Len(s))
         IN  /\ a \in Seq(S) /\ IsInjective(a) /\ Len(a) = n
             /\ b \in Seq(S) /\ IsInjective(b) /\ Len(b) = Len(s) - n
             /\ ToSet(a) \cap ToSet(b) = {} /\ ToSet(a) \cup ToSet(b) = ToSet(s)
             /\ \A i \in 1 .. n : a[i] = s[i]
<1>. DEFINE a == SubSeq(s, 1, n)
            b == SubSeq(s, n + 1, Len(s))
<1>1. /\ a \in Seq(S) /\ Len(a) = n /\ Len(s) \in Nat
      /\ \A i \in 1 .. n : a[i] = s[i]
  OBVIOUS
<1>2. /\ b \in Seq(S) /\ Len(b) = Len(s) - n
      /\ \A i \in 1 .. Len(s) - n : b[i] = s[n + i]
  OBVIOUS
<1>. HIDE DEF a, b
<1>3. IsInjective(a)
  BY <1>1 DEF IsInjective
<1>4. IsInjective(b)
  <2>1. ASSUME NEW i \in 1 .. Len(b), NEW j \in 1 .. Len(b), b[i] = b[j] PROVE i = j
    <3>1. n + i \in DOMAIN s /\ n + j \in DOMAIN s /\ s[n + i] = s[n + j]
      BY <1>1, <1>2, <2>1
    <3>2. n + i = n + j
      BY <3>1 DEF IsInjective
    <3>. QED
      BY <1>2, <3>2
  <2>. QED
    BY <1>2, <2>1 DEF IsInjective
<1>5. ASSUME NEW w \in ToSet(a), w \in ToSet(b) PROVE FALSE
  <2>1. PICK i \in 1 .. n : s[i] = w
    BY <1>1 DEF ToSet
  <2>2. PICK j \in 1 .. Len(s) - n : s[n + j] = w
    BY <1>2, <1>5 DEF ToSet
  <2>. QED
    BY <1>1, <2>1, <2>2 DEF IsInjective
<1>6. ASSUME NEW w \in ToSet(a) \cup ToSet(b) PROVE w \in ToSet(s)
  <2>1. CASE w \in ToSet(a)
    BY <1>1, <2>1 DEF ToSet
  <2>2. CASE w \in ToSet(b)
    <3>1. PICK i \in 1 .. Len(s) - n : b[i] = w
      BY <1>2, <2>2 DEF ToSet
    <3>2. n + i \in 1 .. Len(s) /\ s[n + i] = w
      BY <1>1, <1>2, <3>1
    <3>. QED
      BY <3>2 DEF ToSet
  <2>. QED
    BY <1>6, <2>1, <2>2
<1>7. ASSUME NEW w \in ToSet(s) PROVE w \in ToSet(a) \cup ToSet(b)
  <2>1. PICK i \in 1 .. Len(s) : s[i] = w
    BY DEF ToSet
  <2>2. CASE i <= n
    BY <1>1, <2>1, <2>2 DEF ToSet
  <2>3. CASE i > n
    <3>1. i - n \in 1 .. Len(s) - n /\ b[i - n] = w
      BY <1>1, <1>2, <2>1, <2>3
    <3>. QED
      BY <1>2, <3>1 DEF ToSet
  <2>. QED
    BY <1>1, <2>2, <2>3
<1>8. ToSet(a) \cap ToSet(b) = {} /\ ToSet(a) \cup ToSet(b) = ToSet(s)
  BY <1>5, <1>6, <1>7
<1>. QED
  BY <1>1, <1>2, <1>3, <1>4, <1>8 DEF a, b

\* The other way round.
LEMMA Reversed ==
  ASSUME NEW S, NEW s \in Seq(S), IsInjective(s)
  PROVE  Reverse(s) \in Seq(S) /\ IsInjective(Reverse(s)) /\ ToSet(Reverse(s)) = ToSet(s)
<1>. DEFINE r == Reverse(s)
<1>1. /\ r \in Seq(S) /\ Len(r) = Len(s) /\ Len(s) \in Nat
      /\ \A i \in 1 .. Len(s) : r[i] = s[Len(s) - i + 1]
  BY DEF Reverse
<1>. HIDE DEF r
<1>2. IsInjective(r)
  <2>1. ASSUME NEW i \in 1 .. Len(s), NEW j \in 1 .. Len(s), r[i] = r[j] PROVE i = j
    <3>1. Len(s) - i + 1 \in DOMAIN s /\ Len(s) - j + 1 \in DOMAIN s
      BY <1>1
    <3>2. Len(s) - i + 1 = Len(s) - j + 1
      BY <1>1, <2>1, <3>1 DEF IsInjective
    <3>. QED
      BY <1>1, <3>2
  <2>. QED
    BY <1>1, <2>1 DEF IsInjective
<1>3. ASSUME NEW w \in ToSet(r) PROVE w \in ToSet(s)
  <2>1. PICK i \in 1 .. Len(s) : r[i] = w
    BY <1>1 DEF ToSet
  <2>2. Len(s) - i + 1 \in 1 .. Len(s) /\ s[Len(s) - i + 1] = w
    BY <1>1, <2>1
  <2>. QED
    BY <2>2 DEF ToSet
<1>4. ASSUME NEW w \in ToSet(s) PROVE w \in ToSet(r)
  <2>1. PICK i \in 1 .. Len(s) : s[i] = w
    BY DEF ToSet
  <2>2. Len(s) - i + 1 \in 1 .. Len(s) /\ r[Len(s) - i + 1] = w
    BY <1>1, <2>1
  <2>. QED
    BY <1>1, <2>2 DEF ToSet
<1>. QED
  BY <1>1, <1>2, <1>3, <1>4 DEF r

-----------------------------------------------------------------------------
(* Sums over finite sets                                                   *)

\* sum[T] is the sum of the numbers g[x] over T, for every subset T of S.
IsSum(sum, g, S) ==
  /\ sum \in [SUBSET S -> Int]
  /\ sum[{}] = 0
  /\ \A T \in SUBSET S : \A x \in T : sum[T] = g[x] + sum[T \ {x}]

\* The recursion by which a fold computes it, pick[T] first.
IsFold(sum, g, pick, S) ==
  sum = [T \in SUBSET S |-> IF T = {} THEN 0 ELSE g[pick[T]] + sum[T \ {pick[T]}]]

\* A set of sets, of which one is bad, has a smallest bad one.
LEMMA SmallestSet ==
  ASSUME NEW S, IsFiniteSet(S), NEW Bad \in SUBSET (SUBSET S), Bad # {}
  PROVE  \E T \in Bad : \A U \in SUBSET T : U # T => U \notin Bad
<1>1. FiniteSubsetsOf(S) = SUBSET S
  BY FS_FiniteSubsetsOfFinite
<1>2. IsWellFoundedOn(StrictSubsetOrdering(S), SUBSET S)
  BY <1>1, FS_StrictSubsetOrderingWellFounded
<1>3. PICK T \in Bad : \A U \in Bad : ~(<<U, T>> \in StrictSubsetOrdering(S))
  BY <1>2, WFMin, Zenon
<1>4. ASSUME NEW U \in SUBSET T, U # T, U \in Bad PROVE FALSE
  BY <1>3, <1>4 DEF StrictSubsetOrdering
<1>. QED
  BY <1>4

\* A finite set of numbers has a least one.
LEMMA LeastNumber ==
  ASSUME NEW S, IsFiniteSet(S), S \subseteq Int, S # {}
  PROVE  \E n \in S : \A m \in S : n <= m
<1>. DEFINE Bad == {T \in SUBSET S : T # {} /\ \A n \in T : \E m \in T : m < n}
<1>1. SUFFICES ASSUME S \in Bad PROVE FALSE
  BY DEF Bad
<1>2. PICK T \in Bad : \A U \in SUBSET T : U # T => U \notin Bad
  <2>1. Bad \in SUBSET (SUBSET S) /\ Bad # {}
    BY <1>1
  <2>. HIDE DEF Bad
  <2>. QED
    BY <2>1, SmallestSet, Zenon
<1>3. PICK x \in T : TRUE
  BY <1>2
<1>4. T \ {x} \notin Bad /\ T \ {x} \in SUBSET S
  BY <1>2, <1>3
<1>5. T \ {x} # {}
  BY <1>2, <1>3
<1>6. PICK y \in T \ {x} : \A m \in T \ {x} : ~(m < y)
  BY <1>4, <1>5
<1>7. x \in Int /\ y \in Int /\ T \subseteq Int
  BY <1>2, <1>3, <1>6
<1>8. CASE x <= y
  <2>1. \A m \in T : ~(m < x)
    BY <1>6, <1>7, <1>8
  <2>. QED
    BY <1>2, <1>3, <2>1
<1>9. CASE y < x
  <2>1. \A m \in T : ~(m < y)
    BY <1>6, <1>7, <1>9
  <2>. QED
    BY <1>2, <1>6, <2>1
<1>. QED
  BY <1>7, <1>8, <1>9

LEMMA FoldsAgree ==
  ASSUME NEW g, NEW pick, NEW S, IsFiniteSet(S), NEW U \in SUBSET S,
         \A T \in SUBSET S : T # {} => pick[T] \in T,
         NEW a, NEW b, IsFold(a, g, pick, S), IsFold(b, g, pick, U)
  PROVE  a[U] = b[U]
<1>. DEFINE Bad == {T \in SUBSET U : a[T] # b[T]}
<1>1. SUFFICES ASSUME Bad # {} PROVE FALSE
  BY DEF Bad
<1>2. IsFiniteSet(U)
  BY FS_Subset
<1>b. Bad \in SUBSET (SUBSET U)
  OBVIOUS
<1>. HIDE DEF Bad
<1>3. PICK T \in Bad : \A W \in SUBSET T : W # T => W \notin Bad
  BY <1>1, <1>2, <1>b, SmallestSet, Zenon
<1>4. T \in SUBSET U /\ T \in SUBSET S
  BY <1>b
<1>5. a[T] = (IF T = {} THEN 0 ELSE g[pick[T]] + a[T \ {pick[T]}])
  BY <1>4 DEF IsFold
<1>6. b[T] = (IF T = {} THEN 0 ELSE g[pick[T]] + b[T \ {pick[T]}])
  BY <1>4 DEF IsFold
<1>7. CASE T = {}
  BY <1>3, <1>5, <1>6, <1>7 DEF Bad
<1>8. CASE T # {}
  <2>1. T \ {pick[T]} \in SUBSET T /\ T \ {pick[T]} # T /\ T \ {pick[T]} \in SUBSET U
    BY <1>4, <1>8
  <2>2. a[T \ {pick[T]}] = b[T \ {pick[T]}]
    BY <1>3, <2>1 DEF Bad
  <2>. QED
    BY <1>3, <1>5, <1>6, <1>8, <2>2 DEF Bad
<1>. QED
  BY <1>7, <1>8

LEMMA FoldsExist ==
  ASSUME NEW g, NEW pick, NEW S, IsFiniteSet(S),
         \A T \in SUBSET S : T # {} => pick[T] \in T
  PROVE  \E sum : IsFold(sum, g, pick, S)
<1>. DEFINE Bad == {T \in SUBSET S : ~ \E sum : IsFold(sum, g, pick, T)}
<1>1. SUFFICES ASSUME Bad # {} PROVE FALSE
  BY DEF Bad
<1>b. Bad \in SUBSET (SUBSET S)
  OBVIOUS
<1>. HIDE DEF Bad
<1>2. PICK T \in Bad : \A W \in SUBSET T : W # T => W \notin Bad
  BY <1>1, <1>b, SmallestSet, Zenon
<1>c. T \in SUBSET S
  BY <1>b
<1>. DEFINE Best(U) == CHOOSE sum : IsFold(sum, g, pick, U)
            sum == [U \in SUBSET T |-> IF U = {} THEN 0 ELSE g[pick[U]] + Best(U \ {pick[U]})[U \ {pick[U]}]]
<1>3. ASSUME NEW W \in SUBSET T, W # T PROVE IsFold(Best(W), g, pick, W)
  <2>1. \E s : IsFold(s, g, pick, W)
    BY <1>2, <1>3, <1>c DEF Bad
  <2>. QED
    BY <2>1, Zenon
<1>. HIDE DEF Best
<1>4. ASSUME NEW W \in SUBSET T, W # T PROVE sum[W] = Best(W)[W]
  <2>1. Best(W)[W] = (IF W = {} THEN 0 ELSE g[pick[W]] + Best(W)[W \ {pick[W]}])
    BY <1>3, <1>4 DEF IsFold
  <2>2. CASE W = {}
    BY <2>1, <2>2
  <2>3. CASE W # {}
    <3>. DEFINE V == W \ {pick[W]}
    <3>1. /\ V \in SUBSET W /\ V \in SUBSET T /\ V # T
          /\ \A U \in SUBSET W : U # {} => pick[U] \in U
          /\ IsFiniteSet(W)
      BY <1>4, <1>c, <2>3, FS_Subset
    <3>2. IsFold(Best(V), g, pick, V) /\ IsFold(Best(W), g, pick, W)
      BY <1>3, <1>4, <3>1
    <3>3. Best(W)[V] = Best(V)[V]
      BY <3>1, <3>2, FoldsAgree
    <3>. QED
      BY <2>1, <2>3, <3>3
  <2>. QED
    BY <2>2, <2>3
<1>5. IsFold(sum, g, pick, T)
  <2>1. ASSUME NEW U \in SUBSET T, U # {} PROVE sum[U] = g[pick[U]] + sum[U \ {pick[U]}]
    <3>1. U \ {pick[U]} \in SUBSET T /\ U \ {pick[U]} # T
      BY <1>c, <2>1
    <3>2. sum[U \ {pick[U]}] = Best(U \ {pick[U]})[U \ {pick[U]}]
      BY <1>4, <3>1
    <3>. QED
      BY <2>1, <3>2
  <2>2. sum[{}] = 0
    OBVIOUS
  <2>3. sum \in [SUBSET T -> {sum[U] : U \in SUBSET T}]
    OBVIOUS
  <2>. HIDE DEF sum
  <2>. QED
    BY <2>1, <2>2, <2>3 DEF IsFold
<1>. HIDE DEF sum
<1>. QED
  BY <1>2, <1>5 DEF Bad

\* A fold is a sum, whatever the order.
LEMMA FoldsSum ==
  ASSUME NEW g, NEW pick, NEW S, IsFiniteSet(S), \A x \in S : g[x] \in Int,
         \A T \in SUBSET S : T # {} => pick[T] \in T,
         NEW sum, IsFold(sum, g, pick, S)
  PROVE  IsSum(sum, g, S)
<1>1. \A T \in SUBSET S : sum[T] = IF T = {} THEN 0 ELSE g[pick[T]] + sum[T \ {pick[T]}]
  BY DEF IsFold
<1>. DEFINE Odd == {T \in SUBSET S : sum[T] \notin Int}
            Bad == {T \in SUBSET S : ~ \A x \in T : sum[T] = g[x] + sum[T \ {x}]}
<1>b. Odd \in SUBSET (SUBSET S) /\ Bad \in SUBSET (SUBSET S)
  OBVIOUS
<1>. HIDE DEF Odd, Bad
<1>2. ASSUME Odd # {} PROVE FALSE
  <2>1. PICK T \in Odd : \A W \in SUBSET T : W # T => W \notin Odd
    BY <1>2, <1>b, SmallestSet, Zenon
  <2>. T \in SUBSET S /\ sum[T] \notin Int
    BY <2>1 DEF Odd
  <2>2. T # {}
    BY <1>1
  <2>3. /\ pick[T] \in S /\ g[pick[T]] \in Int
        /\ T \ {pick[T]} \in SUBSET T /\ T \ {pick[T]} # T /\ T \ {pick[T]} \in SUBSET S
    BY <2>2
  <2>4. sum[T \ {pick[T]}] \in Int
    BY <2>1, <2>3 DEF Odd
  <2>5. sum[T] = g[pick[T]] + sum[T \ {pick[T]}]
    BY <1>1, <2>2
  <2>. QED
    BY <2>3, <2>4, <2>5
<1>3. \A T \in SUBSET S : sum[T] \in Int
  BY <1>2 DEF Odd
<1>4. ASSUME Bad # {} PROVE FALSE
  <2>1. PICK T \in Bad : \A W \in SUBSET T : W # T => W \notin Bad
    BY <1>4, <1>b, SmallestSet, Zenon
  <2>. T \in SUBSET S
    BY <1>b
  <2>2. PICK x \in T : sum[T] # g[x] + sum[T \ {x}]
    BY <2>1 DEF Bad
  <2>. DEFINE p == pick[T]
              V == T \ {p}
              W == T \ {x}
  <2>3. /\ p \in T /\ p # x
        /\ sum[T] = g[p] + sum[V]
    BY <1>1, <2>2
  <2>4. /\ V \in SUBSET T /\ V # T /\ V \in SUBSET S /\ x \in V
        /\ W \in SUBSET T /\ W # T /\ W \in SUBSET S /\ p \in W
        /\ W \ {p} = V \ {x}
    BY <2>3
  <2>5. sum[V] = g[x] + sum[V \ {x}] /\ sum[W] = g[p] + sum[W \ {p}]
    BY <2>1, <2>4 DEF Bad
  <2>6. g[x] \in Int /\ g[p] \in Int /\ sum[V \ {x}] \in Int
    BY <1>3, <2>3, <2>4
  <2>7. sum[W] # sum[T] - g[x]
    BY <1>3, <2>2, <2>4, <2>6
  <2>8. sum[V \ {x}] = sum[W \ {p}]
    BY <2>4
  <2>. HIDE DEF V, W, p
  <2>. QED
    BY <2>3, <2>5, <2>6, <2>7, <2>8
<1>5. sum \in [SUBSET S -> Int]
  BY <1>3 DEF IsFold
<1>. QED
  BY <1>1, <1>4, <1>5 DEF IsSum, Bad

\* Sums of numbers that agree on a set are equal.
LEMMA SumsAgree ==
  ASSUME NEW S, NEW T, NEW U, IsFiniteSet(U), U \subseteq S, U \subseteq T,
         NEW f, NEW g, \A x \in U : f[x] = g[x],
         NEW a, NEW b, IsSum(a, f, S), IsSum(b, g, T)
  PROVE  a[U] = b[U]
<1>. DEFINE Bad == {V \in SUBSET U : a[V] # b[V]}
<1>1. SUFFICES ASSUME Bad # {} PROVE FALSE
  BY DEF Bad
<1>b. Bad \in SUBSET (SUBSET U)
  OBVIOUS
<1>. HIDE DEF Bad
<1>2. PICK V \in Bad : \A W \in SUBSET V : W # V => W \notin Bad
  BY <1>1, <1>b, SmallestSet, Zenon
<1>c. V \in SUBSET U /\ a[V] # b[V]
  BY DEF Bad
<1>3. V # {}
  BY <1>c DEF IsSum
<1>4. PICK x \in V : TRUE
  BY <1>3
<1>5. V \ {x} \in SUBSET V /\ V \ {x} # V /\ a[V \ {x}] = b[V \ {x}]
  BY <1>2, <1>4, <1>c DEF Bad
<1>6. a[V] = f[x] + a[V \ {x}] /\ b[V] = g[x] + b[V \ {x}] /\ f[x] = g[x]
  BY <1>4, <1>c DEF IsSum
<1>. QED
  BY <1>c, <1>5, <1>6

\* A sum of natural numbers is one.
LEMMA SumsAreNat ==
  ASSUME NEW S, IsFiniteSet(S), NEW g, \A x \in S : g[x] \in Nat, NEW sum, IsSum(sum, g, S)
  PROVE  \A T \in SUBSET S : sum[T] \in Nat
<1>. DEFINE Bad == {T \in SUBSET S : sum[T] \notin Nat}
<1>1. SUFFICES ASSUME Bad # {} PROVE FALSE
  BY DEF Bad
<1>b. Bad \in SUBSET (SUBSET S)
  OBVIOUS
<1>. HIDE DEF Bad
<1>2. PICK T \in Bad : \A W \in SUBSET T : W # T => W \notin Bad
  BY <1>1, <1>b, SmallestSet, Zenon
<1>c. T \in SUBSET S /\ sum[T] \notin Nat
  BY DEF Bad
<1>d. T # {}
  <2>1. sum[{}] = 0
    BY DEF IsSum
  <2>. QED
    BY <1>c, <2>1
<1>3. PICK x \in T : TRUE
  BY <1>d
<1>4. sum[T] = g[x] + sum[T \ {x}] /\ g[x] \in Nat
  BY <1>3, <1>c DEF IsSum
<1>5. sum[T \ {x}] \in Nat
  BY <1>2, <1>3, <1>c DEF Bad
<1>. QED
  BY <1>c, <1>4, <1>5

\* Values that folds over each subset give are one sum.
LEMMA FoldsAreSum ==
  ASSUME NEW S, IsFiniteSet(S), NEW g, \A x \in S : g[x] \in Int,
         NEW pick, \A T \in SUBSET S : T # {} => pick[T] \in T,
         NEW value, value = [T \in SUBSET S |-> value[T]],
         \A T \in SUBSET S : \E sum : IsFold(sum, g, pick, T) /\ value[T] = sum[T]
  PROVE  IsSum(value, g, S)
<1>1. PICK all : IsFold(all, g, pick, S)
  OBVIOUS
<1>2. IsSum(all, g, S)
  BY <1>1, FoldsSum
<1>3. ASSUME NEW T \in SUBSET S PROVE value[T] = all[T]
  <2>1. PICK sum : IsFold(sum, g, pick, T) /\ value[T] = sum[T]
    OBVIOUS
  <2>2. all[T] = sum[T]
    BY <1>1, <2>1, FoldsAgree
  <2>. QED
    BY <2>1, <2>2
<1>4. value \in [SUBSET S -> Int]
  <2>1. \A T \in SUBSET S : value[T] \in Int
    BY <1>2, <1>3 DEF IsSum
  <2>. QED
    BY <2>1
<1>5. value[{}] = 0
  BY <1>2, <1>3 DEF IsSum
<1>6. ASSUME NEW T \in SUBSET S, NEW x \in T PROVE value[T] = g[x] + value[T \ {x}]
  <2>1. T \ {x} \in SUBSET S
    OBVIOUS
  <2>2. all[T] = g[x] + all[T \ {x}]
    BY <1>2, <1>6 DEF IsSum
  <2>. QED
    BY <1>3, <2>1, <2>2
<1>. QED
  BY <1>4, <1>5, <1>6 DEF IsSum

\* A sum with one more element.
LEMMA SumWith ==
  ASSUME NEW S, NEW g, NEW sum, IsSum(sum, g, S), NEW T \in SUBSET S, NEW x \in S, x \notin T
  PROVE  sum[T \cup {x}] = g[x] + sum[T]
<1>1. T \cup {x} \in SUBSET S /\ x \in T \cup {x} /\ (T \cup {x}) \ {x} = T
  OBVIOUS
<1>. QED
  BY <1>1 DEF IsSum

\* The sum of the numbers g[x] over S, as the community modules compute it.
SumOver(g, S) == MapThenSumSet(LAMBDA x : g[x], S)

LEMMA SumOverIsSum ==
  ASSUME NEW S, IsFiniteSet(S), NEW g, \A x \in S : g[x] \in Int
  PROVE  IsSum([T \in SUBSET S |-> SumOver(g, T)], g, S)
<1>. DEFINE pick == [T \in SUBSET S |-> CHOOSE x \in T : TRUE]
            value == [T \in SUBSET S |-> SumOver(g, T)]
            Rec(sum, T) == sum = [s \in SUBSET T |->
                             IF s = {} THEN 0
                             ELSE g[CHOOSE x \in s : TRUE] + sum[s \ {CHOOSE x \in s : TRUE}]]
            Best(T) == CHOOSE sum : Rec(sum, T)
<1>1. \A T \in SUBSET S : T # {} => pick[T] \in T
  OBVIOUS
<1>3. ASSUME NEW T \in SUBSET S, NEW sum PROVE Rec(sum, T) <=> IsFold(sum, g, pick, T)
  BY <1>1, <1>3 DEF IsFold
<1>4. ASSUME NEW T \in SUBSET S PROVE value[T] = Best(T)[T]
  BY Zenon DEF SumOver, MapThenSumSet, MapThenFoldSet
<1>5. value = [T \in SUBSET S |-> value[T]]
  OBVIOUS
<1>. HIDE DEF pick, value
<1>6. ASSUME NEW T \in SUBSET S PROVE IsFold(Best(T), g, pick, T)
  <2>1. IsFiniteSet(T)
    BY FS_Subset
  <2>2. \E sum : IsFold(sum, g, pick, T)
    BY <1>1, <2>1, FoldsExist
  <2>3. \E sum : Rec(sum, T)
    <3>. HIDE DEF Rec
    <3>. QED
      BY <1>3, <2>2
  <2>4. Rec(Best(T), T)
    BY <2>3, Zenon
  <2>. QED
    BY <1>3, <2>4
<1>. HIDE DEF Best
<1>7. \A T \in SUBSET S : \E sum : IsFold(sum, g, pick, T) /\ value[T] = sum[T]
  BY <1>4, <1>6
<1>8. \A x \in S : g[x] \in Int
  OBVIOUS
<1>9. IsFiniteSet(S)
  OBVIOUS
<1>10. IsSum(value, g, S)
  BY <1>1, <1>5, <1>7, <1>8, <1>9, FoldsAreSum
<1>. QED
  BY <1>10 DEF value

\* What a sum of natural numbers is, by itself and with one element more.
LEMMA SumOverFacts ==
  ASSUME NEW S, IsFiniteSet(S), NEW g, \A x \in S : g[x] \in Nat
  PROVE  /\ SumOver(g, {}) = 0
         /\ \A T \in SUBSET S : SumOver(g, T) \in Nat
         /\ \A T \in SUBSET S : \A x \in T : SumOver(g, T) = g[x] + SumOver(g, T \ {x})
         /\ \A T \in SUBSET S : \A x \in S \ T : SumOver(g, T \cup {x}) = g[x] + SumOver(g, T)
<1>. DEFINE value == [T \in SUBSET S |-> SumOver(g, T)]
<1>0. \A x \in S : g[x] \in Int
  OBVIOUS
<1>1. IsSum(value, g, S)
  BY <1>0, SumOverIsSum
<1>2. \A T \in SUBSET S : value[T] = SumOver(g, T)
  OBVIOUS
<1>. HIDE DEF value
<1>3. \A T \in SUBSET S : value[T] \in Nat
  BY <1>1, SumsAreNat
<1>4. ASSUME NEW T \in SUBSET S, NEW x \in T PROVE SumOver(g, T) = g[x] + SumOver(g, T \ {x})
  <2>1. T \ {x} \in SUBSET S
    OBVIOUS
  <2>2. value[T] = g[x] + value[T \ {x}]
    BY <1>1 DEF IsSum
  <2>. QED
    BY <1>2, <2>1, <2>2
<1>5. ASSUME NEW T \in SUBSET S, NEW x \in S \ T PROVE SumOver(g, T \cup {x}) = g[x] + SumOver(g, T)
  <2>1. T \cup {x} \in SUBSET S /\ (T \cup {x}) \ {x} = T /\ x \in T \cup {x}
    OBVIOUS
  <2>. QED
    BY <1>4, <2>1
<1>6. SumOver(g, {}) = 0
  BY <1>1, <1>2 DEF IsSum
<1>7. \A T \in SUBSET S : SumOver(g, T) \in Nat
  BY <1>2, <1>3
<1>. QED
  BY <1>4, <1>5, <1>6, <1>7

\* Two parts add up.
LEMMA SumOverSplit ==
  ASSUME NEW S, IsFiniteSet(S), NEW g, \A x \in S : g[x] \in Nat,
         NEW U \in SUBSET S, NEW V \in SUBSET S, U \cap V = {}
  PROVE  SumOver(g, U \cup V) = SumOver(g, U) + SumOver(g, V)
<1>. DEFINE Bad == {T \in SUBSET V : SumOver(g, U \cup T) # SumOver(g, U) + SumOver(g, T)}
<1>1. SUFFICES ASSUME Bad # {} PROVE FALSE
  OBVIOUS
<1>2. PICK T \in Bad : \A W \in SUBSET T : W # T => W \notin Bad
  <2>1. Bad \in SUBSET (SUBSET V) /\ IsFiniteSet(V)
    BY FS_Subset
  <2>. HIDE DEF Bad
  <2>. QED
    BY <1>1, <2>1, SmallestSet, Zenon
<1>3. T \in SUBSET V /\ T \in SUBSET S
  OBVIOUS
<1>4. SumOver(g, U) \in Nat /\ SumOver(g, T) \in Nat /\ SumOver(g, {}) = 0
  BY <1>3, SumOverFacts
<1>5. T # {}
  <2>1. SUFFICES ASSUME T = {} PROVE FALSE
    OBVIOUS
  <2>2. U \cup T = U
    BY <2>1
  <2>. HIDE DEF SumOver
  <2>. QED
    BY <1>4, <2>1, <2>2
<1>6. PICK x \in T : TRUE
  BY <1>5
<1>. DEFINE W == T \ {x}
<1>7. W \in SUBSET T /\ W # T /\ W \in SUBSET V /\ W \in SUBSET S /\ U \cup W \in SUBSET S
      /\ U \cup T = (U \cup W) \cup {x} /\ x \in S \ (U \cup W) /\ T = W \cup {x} /\ x \in S \ W
  BY <1>3, <1>6
<1>8. SumOver(g, U \cup W) = SumOver(g, U) + SumOver(g, W)
  BY <1>2, <1>7
<1>10. SumOver(g, U \cup T) # SumOver(g, U) + SumOver(g, T)
  OBVIOUS
<1>. HIDE DEF SumOver, W, Bad
<1>9. /\ \A Y \in SUBSET S : SumOver(g, Y) \in Nat
      /\ \A Y \in SUBSET S : \A y \in S \ Y : SumOver(g, Y \cup {y}) = g[y] + SumOver(g, Y)
  BY SumOverFacts
<1>a. SumOver(g, U \cup T) = g[x] + SumOver(g, U \cup W)
  <2>1. SumOver(g, (U \cup W) \cup {x}) = g[x] + SumOver(g, U \cup W)
    BY <1>7, <1>9
  <2>. QED
    BY <1>7, <2>1
<1>b. SumOver(g, T) = g[x] + SumOver(g, W)
  <2>1. SumOver(g, W \cup {x}) = g[x] + SumOver(g, W)
    BY <1>7, <1>9
  <2>. QED
    BY <1>7, <2>1
<1>c. SumOver(g, W) \in Nat /\ g[x] \in Nat
  BY <1>7, <1>9
<1>11. SumOver(g, U \cup T) = SumOver(g, U) + SumOver(g, T)
  BY <1>4, <1>8, <1>a, <1>b, <1>c
<1>. QED
  BY <1>10, <1>11

\* A sum over numbers that are larger, by at most d each.
LEMMA SumOverBound ==
  ASSUME NEW S, IsFiniteSet(S), NEW d \in Nat,
         NEW f, \A x \in S : f[x] \in Nat, NEW g, \A x \in S : g[x] \in Nat,
         NEW V \in SUBSET S, \A x \in V : f[x] <= g[x] + d
  PROVE  SumOver(f, V) <= SumOver(g, V) + Cardinality(V) * d
<1>. DEFINE Bad == {T \in SUBSET V : ~(SumOver(f, T) <= SumOver(g, T) + Cardinality(T) * d)}
<1>1. SUFFICES ASSUME Bad # {} PROVE FALSE
  OBVIOUS
<1>0. IsFiniteSet(V)
  BY FS_Subset
<1>2. PICK T \in Bad : \A W \in SUBSET T : W # T => W \notin Bad
  <2>1. Bad \in SUBSET (SUBSET V)
    OBVIOUS
  <2>. HIDE DEF Bad
  <2>. QED
    BY <1>0, <1>1, <2>1, SmallestSet, Zenon
<1>3. T \in SUBSET V /\ T \in SUBSET S /\ IsFiniteSet(T)
  <2>1. T \in SUBSET V
    OBVIOUS
  <2>. QED
    BY <1>0, <2>1, FS_Subset
<1>4. ~(SumOver(f, T) <= SumOver(g, T) + Cardinality(T) * d)
  OBVIOUS
<1>5. T # {}
  <2>1. SUFFICES ASSUME T = {} PROVE FALSE
    OBVIOUS
  <2>2. SumOver(f, {}) = 0 /\ SumOver(g, {}) = 0
    BY SumOverFacts
  <2>3. Cardinality({}) = 0
    BY FS_EmptySet
  <2>4. 0 * d = 0
    OBVIOUS
  <2>. HIDE DEF SumOver
  <2>. QED
    BY <1>4, <2>1, <2>2, <2>3, <2>4
<1>6. PICK x \in T : TRUE
  BY <1>5
<1>. DEFINE W == T \ {x}
<1>7. W \in SUBSET T /\ W # T /\ W \in SUBSET V /\ W \in SUBSET S /\ x \in V /\ x \in S
  BY <1>3, <1>6
<1>8. SumOver(f, W) <= SumOver(g, W) + Cardinality(W) * d
  BY <1>2, <1>7
<1>9. /\ SumOver(f, T) = f[x] + SumOver(f, W) /\ SumOver(g, T) = g[x] + SumOver(g, W)
      /\ SumOver(f, W) \in Nat /\ SumOver(g, W) \in Nat /\ f[x] \in Nat /\ g[x] \in Nat
      /\ f[x] <= g[x] + d
  BY <1>3, <1>6, <1>7, SumOverFacts, SMTT(40)
<1>10. IsFiniteSet(W) /\ Cardinality(W) = Cardinality(T) - 1 /\ Cardinality(T) \in Nat
  BY <1>3, <1>6, FS_RemoveElement, FS_CardinalityType
<1>11. Cardinality(W) \in Nat
  BY <1>10, FS_CardinalityType
<1>12. Cardinality(T) = Cardinality(W) + 1
  BY <1>10, <1>11
<1>13. Cardinality(T) * d = Cardinality(W) * d + d /\ Cardinality(W) * d \in Nat
  BY <1>11, <1>12
<1>. HIDE DEF SumOver, W, Bad
<1>14. SumOver(f, T) <= SumOver(g, T) + Cardinality(T) * d
  BY <1>8, <1>9, <1>13
<1>. QED
  BY <1>4, <1>14

LEMMA SumOverZero ==
  ASSUME NEW S, IsFiniteSet(S), NEW g, \A x \in S : g[x] = 0
  PROVE  SumOver(g, S) = 0
<1>. DEFINE Bad == {T \in SUBSET S : SumOver(g, T) # 0}
<1>1. SUFFICES ASSUME Bad # {} PROVE FALSE
  OBVIOUS
<1>2. Bad \in SUBSET (SUBSET S)
  OBVIOUS
<1>3. PICK T \in Bad : \A U \in SUBSET T : U # T => U \notin Bad
  <2>. HIDE DEF Bad
  <2>. QED
    BY <1>1, <1>2, SmallestSet, Zenon
<1>4. /\ SumOver(g, {}) = 0
      /\ \A U \in SUBSET S : \A x \in U : SumOver(g, U) = g[x] + SumOver(g, U \ {x})
  BY SumOverFacts
<1>5. PICK x \in T : TRUE
  BY <1>3, <1>4
<1>6. SumOver(g, T \ {x}) = 0
  BY <1>3, <1>5
<1>. QED
  BY <1>3, <1>4, <1>5, <1>6

\* Two functions that agree have the same sum.
LEMMA SumOverSame ==
  ASSUME NEW S, IsFiniteSet(S), NEW f, NEW g, \A x \in S : f[x] = g[x] /\ f[x] \in Int
  PROVE  SumOver(f, S) = SumOver(g, S)
<1>. DEFINE a == [T \in SUBSET S |-> SumOver(f, T)]
            b == [T \in SUBSET S |-> SumOver(g, T)]
<1>1. IsSum(a, f, S) /\ IsSum(b, g, S)
  BY SumOverIsSum
<1>2. a[S] = SumOver(f, S) /\ b[S] = SumOver(g, S)
  OBVIOUS
<1>. HIDE DEF a, b, SumOver
<1>3. S \subseteq S /\ \A x \in S : f[x] = g[x]
  OBVIOUS
<1>4. a[S] = b[S]
  BY <1>1, <1>3, SumsAgree
<1>. QED
  BY <1>2, <1>4

\* Max and Min of the community modules.
LEMMA MaxFacts ==
  ASSUME NEW S, IsFiniteSet(S), S \subseteq Int, S # {}
  PROVE  Max(S) \in S /\ \A x \in S : x <= Max(S)
<1>. DEFINE T == {0 - x : x \in S}
<1>1. IsFiniteSet(T)
  <2>. DEFINE f == [x \in S |-> 0 - x]
  <2>1. f \in Surjection(S, T)
    BY DEF Surjection
  <2>. QED
    BY <2>1, FS_Surjection
<1>2. T \subseteq Int /\ T # {}
  OBVIOUS
<1>3. PICK n \in T : \A m \in T : n <= m
  <2>. HIDE DEF T
  <2>. QED
    BY <1>1, <1>2, LeastNumber
<1>4. PICK y \in S : n = 0 - y
  OBVIOUS
<1>5. ASSUME NEW x \in S PROVE x <= y
  <2>1. 0 - x \in T
    OBVIOUS
  <2>2. n <= 0 - x
    BY <1>3, <2>1
  <2>. QED
    BY <1>4, <2>2
<1>6. \E y2 \in S : \A x \in S : y2 >= x
  BY <1>5
<1>. QED
  BY <1>6 DEF Max

LEMMA MinFacts ==
  ASSUME NEW S, IsFiniteSet(S), S \subseteq Int, S # {}
  PROVE  Min(S) \in S /\ \A x \in S : Min(S) <= x
<1>1. \E n \in S : \A m \in S : n <= m
  BY LeastNumber
<1>. QED
  BY <1>1 DEF Min

\* Among bad numbers there is a least one.
LEMMA LeastBad ==
  ASSUME NEW N \in Nat, NEW Bad, Bad \subseteq 0 .. N, Bad # {}
  PROVE  \E n \in Bad : \A m \in 0 .. n - 1 : m \notin Bad
<1>1. IsFiniteSet(0 .. N)
  BY FS_Interval
<1>2. IsFiniteSet(Bad)
  BY <1>1, FS_Subset
<1>3. Bad \subseteq Int
  OBVIOUS
<1>4. \E n \in Bad : \A m \in Bad : n <= m
  BY <1>2, <1>3, LeastNumber
<1>. QED
  BY <1>4

-----------------------------------------------------------------------------
(* Recursion over numbers                                                  *)

\* A function that gives each number a step from the value of an earlier one
\* exists.
Recursion(f, start, step, back, n) ==
    f = [i \in 0 .. n |-> IF i = 0 THEN start ELSE step[i, f[back[i]]]]

LEMMA RecursionExists ==
  ASSUME NEW N \in Nat, NEW S, NEW start \in S, NEW step \in [(1 .. N) \X S -> S],
         NEW back, \A i \in 1 .. N : back[i] \in 0 .. i - 1
  PROVE  \E f \in [0 .. N -> S] : Recursion(f, start, step, back, N)
<1>. DEFINE Bad == {n \in 0 .. N : \A f \in [0 .. n -> S] : ~Recursion(f, start, step, back, n)}
<1>1. Bad = {} => N \notin Bad
  OBVIOUS
<1>2. SUFFICES ASSUME Bad # {} PROVE FALSE
  BY <1>1
<1>3. PICK n \in Bad : \A m \in 0 .. n - 1 : m \notin Bad
  <2>1. Bad \subseteq 0 .. N
    OBVIOUS
  <2>. HIDE DEF Bad
  <2>. QED
    BY <1>2, <2>1, LeastBad
<1>0. n # 0
  <2>. DEFINE f == [j \in 0 .. 0 |-> start]
  <2>1. f \in [0 .. 0 -> S]
    OBVIOUS
  <2>2. \A j \in 0 .. 0 : f[j] = start /\ j = 0
    OBVIOUS
  <2>. HIDE DEF f
  <2>3. Recursion(f, start, step, back, 0)
    BY <2>1, <2>2 DEF Recursion
  <2>. QED
    BY <1>3, <2>1, <2>3
<1>4. n \in 1 .. N /\ n - 1 \in 0 .. n - 1 /\ n - 1 \in 0 .. N
  BY <1>3, <1>0
<1>5. PICK f \in [0 .. n - 1 -> S] : Recursion(f, start, step, back, n - 1)
  BY <1>3, <1>4
<1>. DEFINE last == step[n, f[back[n]]]
            g == [j \in 0 .. n |-> IF j = n THEN last ELSE f[j]]
<1>6. back[n] \in 0 .. n - 1 /\ f[back[n]] \in S /\ <<n, f[back[n]]>> \in (1 .. N) \X S
  BY <1>4
<1>7. last \in S
  BY <1>6
<1>. HIDE DEF last
<1>a. n \in Nat /\ \A j \in 0 .. n : j # n => j \in 0 .. n - 1
  BY <1>4
<1>8. g \in [0 .. n -> S]
  BY <1>7, <1>a
<1>b. g[n] = last /\ \A j \in 0 .. n - 1 : g[j] = f[j]
  BY <1>4
<1>. HIDE DEF g
<1>9. ASSUME NEW i \in 0 .. n PROVE g[i] = IF i = 0 THEN start ELSE step[i, g[back[i]]]
  <2>1. CASE i = n
    <3>1. g[back[n]] = f[back[n]]
      BY <1>6, <1>b
    <3>2. last = step[i, g[back[i]]]
      BY <2>1, <3>1 DEF last
    <3>. QED
      BY <1>0, <1>b, <2>1, <3>2
  <2>2. CASE i # n
    <3>1. g[i] = f[i] /\ i \in 0 .. n - 1
      BY <1>4, <1>b, <2>2
    <3>2. f[i] = IF i = 0 THEN start ELSE step[i, f[back[i]]]
      BY <1>5, <3>1 DEF Recursion
    <3>3. i # 0 => back[i] \in 0 .. n - 1 /\ back[i] # n
      <4>1. i # 0 => i \in 1 .. N
        BY <1>4, <3>1
      <4>2. i # 0 => back[i] \in 0 .. i - 1
        BY <4>1
      <4>. QED
        BY <1>4, <3>1, <4>2
    <3>4. i # 0 => g[back[i]] = f[back[i]]
      BY <1>b, <3>3
    <3>. QED
      BY <3>1, <3>2, <3>4
  <2>. QED
    BY <2>1, <2>2
<1>10. Recursion(g, start, step, back, n)
  <2>1. g = [i \in 0 .. n |-> g[i]]
    BY <1>8
  <2>. QED
    BY <1>9, <2>1 DEF Recursion
<1>. QED
  BY <1>3, <1>8, <1>10
=============================================================================
