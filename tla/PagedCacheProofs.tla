-------------------------- MODULE PagedCacheProofs --------------------------
(***************************************************************************)
(* The free list and the block pool are correct for every pool size,       *)
(* growth step, set of requests and set of hashes.                         *)
(*                                                                         *)
(* The free list first: each method of FreeKVCacheBlockQueue gets a lemma, *)
(* from a list that spells s it makes one that spells the sequence a       *)
(* reader expects.  The pool rests on the same lemmas: Inv strengthens the *)
(* invariants that TLC checks by what they need to be inductive: the null  *)
(* block is never free, shared or held; no block is allocated before it is *)
(* created; and a block its owner has not registered has one owner and no  *)
(* cache entry.                                                            *)
(***************************************************************************)
EXTENDS PagedCache, FiniteSetTheorems, SequenceTheorems, NaturalsInduction, TLAPS

\* The pointers spell s[1], ..., s[n]: Represents without Len and << >>.
Spells(q, n, s) ==
  /\ q.num = n
  /\ \A i, j \in 1 .. n : s[i] = s[j] => i = j
  /\ q.next[FakeHead] = IF n = 0 THEN FakeTail ELSE s[1]
  /\ q.prev[FakeTail] = IF n = 0 THEN FakeHead ELSE s[n]
  /\ q.next[FakeTail] = None
  /\ q.prev[FakeHead] = None
  /\ \A i \in 1 .. n : /\ q.next[s[i]] = IF i = n THEN FakeTail ELSE s[i + 1]
                       /\ q.prev[s[i]] = IF i = 1 THEN FakeHead ELSE s[i - 1]
  /\ \A b \in Block : (\A i \in 1 .. n : s[i] # b) => q.next[b] = None /\ q.prev[b] = None

LEMMA SeqOfFunction ==
  ASSUME NEW n \in Nat, NEW S, NEW s \in [1 .. n -> S]
  PROVE  s \in Seq(S) /\ Len(s) = n /\ (s = << >> <=> n = 0)
OBVIOUS

LEMMA SpellsIsRepresents ==
  ASSUME NEW q, NEW n \in Nat, NEW s \in [1 .. n -> Block]
  PROVE  Represents(q, s) <=> Spells(q, n, s)
<1>1. Len(s) = n /\ (s = << >> <=> n = 0)
  BY SeqOfFunction
<1>. QED
  BY <1>1 DEF Represents, Spells

LEMMA Nodes ==
  /\ FakeHead \in Node /\ FakeTail \in Node /\ FakeHead # FakeTail
  /\ FakeHead \notin Block /\ FakeTail \notin Block
  /\ Block \subseteq Node /\ None \notin Node
  /\ \A x \in Node : x \in Block \/ x = FakeHead \/ x = FakeTail
  /\ Block \subseteq Nat /\ \A b \in Block : b < MaxBlocks
  /\ MaxBlocks \in Nat \ {0} /\ InitialBlocks \in 1 .. MaxBlocks
BY QueueAssumption DEF Node, Block, FakeHead, FakeTail

\* popleft and its siblings never meet a list longer than the pool.
LEMMA SpelledLength ==
  ASSUME NEW n \in Nat, NEW s \in [1 .. n -> Block],
         \A i, j \in 1 .. n : s[i] = s[j] => i = j
  PROVE  n <= MaxBlocks
<1>1. IsFiniteSet(1 .. n) /\ Cardinality(1 .. n) = n
  BY FS_Interval
<1>2. IsFiniteSet(Block) /\ Cardinality(Block) = MaxBlocks
  BY FS_Interval, Nodes DEF Block
<1>3. ~ (Cardinality(Block) < Cardinality(1 .. n))
  BY <1>1, <1>2, FS_PigeonHole
<1>. QED
  BY <1>1, <1>2, <1>3, Nodes

-----------------------------------------------------------------------------
(* One lemma per method, with the sequence its result spells.              *)

Appended(n, s, b) == [i \in 1 .. n + 1 |-> IF i = n + 1 THEN b ELSE s[i]]
Without(n, s, k)  == [i \in 1 .. n - 1 |-> IF i < k THEN s[i] ELSE s[i + 1]]
Dropped(n, s, m)  == [i \in 1 .. n - m |-> s[i + m]]
Extended(n, s, lo, hi) ==
  [i \in 1 .. n + (hi - lo + 1) |-> IF i <= n THEN s[i] ELSE lo + (i - n - 1)]

LEMMA SpellsNewQueue ==
  /\ NewQueue(InitialBlocks) \in Queue
  /\ [i \in 1 .. InitialBlocks |-> i - 1] \in [1 .. InitialBlocks -> Block]
  /\ Spells(NewQueue(InitialBlocks), InitialBlocks, [i \in 1 .. InitialBlocks |-> i - 1])
<1>. DEFINE s == [i \in 1 .. InitialBlocks |-> i - 1]
            q == NewQueue(InitialBlocks)
<1>1. q \in Queue
  BY QueueAssumption DEF Queue, NewQueue, Node, Block, FakeHead, FakeTail
<1>2. s \in [1 .. InitialBlocks -> Block]
  BY Nodes DEF Block
<1>3. \A x \in Node :
        /\ q.next[x] = IF x = FakeHead THEN 0
                       ELSE IF x \in 0 .. InitialBlocks - 2 THEN x + 1
                       ELSE IF x = InitialBlocks - 1 THEN FakeTail ELSE None
        /\ q.prev[x] = IF x = FakeTail THEN InitialBlocks - 1
                       ELSE IF x = 0 THEN FakeHead
                       ELSE IF x \in 1 .. InitialBlocks - 1 THEN x - 1 ELSE None
  BY DEF NewQueue
<1>4. Spells(q, InitialBlocks, s)
  <2>1. q.num = InitialBlocks /\ \A i, j \in 1 .. InitialBlocks : s[i] = s[j] => i = j
    BY Nodes DEF NewQueue
  <2>2. /\ q.next[FakeHead] = IF InitialBlocks = 0 THEN FakeTail ELSE s[1]
        /\ q.prev[FakeTail] = IF InitialBlocks = 0 THEN FakeHead ELSE s[InitialBlocks]
        /\ q.next[FakeTail] = None
        /\ q.prev[FakeHead] = None
    BY <1>3, Nodes DEF FakeHead, FakeTail
  <2>3. ASSUME NEW i \in 1 .. InitialBlocks
        PROVE  /\ q.next[s[i]] = IF i = InitialBlocks THEN FakeTail ELSE s[i + 1]
               /\ q.prev[s[i]] = IF i = 1 THEN FakeHead ELSE s[i - 1]
    <3>1. s[i] = i - 1 /\ i - 1 \in Block /\ i \in Nat
      BY Nodes DEF Block
    <3>. QED
      BY <1>3, <3>1, Nodes DEF FakeHead, FakeTail
  <2>4. ASSUME NEW b \in Block, \A i \in 1 .. InitialBlocks : s[i] # b
        PROVE  q.next[b] = None /\ q.prev[b] = None
    <3>1. b \in Nat /\ b \notin 0 .. InitialBlocks - 1
      <4>1. CASE b \in 0 .. InitialBlocks - 1
        <5>1. b + 1 \in 1 .. InitialBlocks /\ s[b + 1] = b
          BY <4>1, Nodes
        <5>. QED
          BY <2>4, <5>1
      <4>. QED
        BY <4>1, Nodes
    <3>. QED
      BY <1>3, <3>1, Nodes DEF FakeHead, FakeTail
  <2>. QED
    BY <2>1, <2>2, <2>3, <2>4 DEF Spells
<1>. QED
  BY <1>1, <1>2, <1>4

\* append: the block becomes the last of the list.
LEMMA SpellsAppendBlock ==
  ASSUME NEW q \in Queue, NEW n \in Nat, NEW s \in [1 .. n -> Block],
         Spells(q, n, s), NEW b \in Block, \A i \in 1 .. n : s[i] # b
  PROVE  /\ AppendBlock(q, b) \in Queue
         /\ Appended(n, s, b) \in [1 .. n + 1 -> Block]
         /\ Spells(AppendBlock(q, b), n + 1, Appended(n, s, b))
<1>. USE DEF Appended
<1>. DEFINE t == Appended(n, s, b)
            last == q.prev[FakeTail]
            p == AppendBlock(q, b)
<1>1. /\ q.next \in [Node -> Node \cup {None}] /\ q.prev \in [Node -> Node \cup {None}]
      /\ q.num \in Int /\ q.num = n
  BY DEF Queue, Spells
<1>2. last = (IF n = 0 THEN FakeHead ELSE s[n]) /\ last \in Node /\ last # b /\ last # FakeTail
  <2>1. last = IF n = 0 THEN FakeHead ELSE s[n]
    BY DEF Spells
  <2>2. CASE n = 0
    BY <2>1, <2>2, Nodes
  <2>3. CASE n # 0
    <3>1. n \in 1 .. n /\ s[n] \in Block /\ s[n] # b
      BY <2>3
    <3>. QED
      BY <2>1, <2>3, <3>1, Nodes
  <2>. QED
    BY <2>2, <2>3
<1>3. b \in Node /\ b # FakeHead /\ b # FakeTail
  BY Nodes
<1>4. p.num = n + 1
  BY <1>1 DEF AppendBlock
<1>5. ASSUME NEW x \in Node
      PROVE  /\ p.next[x] = IF x = b THEN FakeTail ELSE IF x = last THEN b ELSE q.next[x]
             /\ p.prev[x] = IF x = FakeTail THEN b ELSE IF x = b THEN last ELSE q.prev[x]
  BY <1>1, <1>2, <1>3 DEF AppendBlock
<1>6. p \in Queue
  <2>1. [q.next EXCEPT ![last] = b, ![b] = FakeTail] \in [Node -> Node \cup {None}]
    BY <1>1, <1>3, Nodes
  <2>2. [q.prev EXCEPT ![b] = last, ![FakeTail] = b] \in [Node -> Node \cup {None}]
    BY <1>1, <1>2, <1>3
  <2>. QED
    BY <1>1, <2>1, <2>2 DEF Queue, AppendBlock
<1>7. t \in [1 .. n + 1 -> Block]
  OBVIOUS
<1>8. Spells(p, n + 1, t)
  <2>1. \A i, j \in 1 .. n + 1 : t[i] = t[j] => i = j
    <3>. SUFFICES ASSUME NEW i \in 1 .. n + 1, NEW j \in 1 .. n + 1, t[i] = t[j] PROVE i = j
      OBVIOUS
    <3>1. \A k \in 1 .. n + 1 : k = n + 1 \/ (k \in 1 .. n /\ t[k] = s[k] /\ s[k] # b)
      OBVIOUS
    <3>. QED
      BY <3>1 DEF Spells
  <2>2. n + 1 # 0 /\ t[n + 1] = b
    OBVIOUS
  <2>3. p.next[FakeHead] = t[1]
    <3>1. CASE n = 0
      BY <3>1, <1>2, <1>3, <1>5, <2>2, Nodes
    <3>2. CASE n # 0
      <4>1. 1 \in 1 .. n /\ n \in 1 .. n /\ t[1] = s[1] /\ last \in Block
        BY <3>2, <1>2
      <4>2. last # FakeHead /\ q.next[FakeHead] = s[1]
        BY <3>2, <4>1, Nodes DEF Spells
      <4>. QED
        BY <1>3, <1>5, <4>1, <4>2, Nodes
    <3>. QED
      BY <3>1, <3>2
  <2>4. p.prev[FakeTail] = b /\ p.next[FakeTail] = None /\ p.prev[FakeHead] = None
    BY <1>2, <1>3, <1>5, Nodes DEF Spells
  <2>5. ASSUME NEW i \in 1 .. n + 1
        PROVE  /\ p.next[t[i]] = IF i = n + 1 THEN FakeTail ELSE t[i + 1]
               /\ p.prev[t[i]] = IF i = 1 THEN FakeHead ELSE t[i - 1]
    <3>1. CASE i = n + 1
      <4>1. t[i] = b /\ p.next[t[i]] = FakeTail /\ p.prev[t[i]] = last
        BY <3>1, <1>3, <1>5
      <4>2. n # 0 => t[i - 1] = s[n] /\ i # 1
        BY <3>1
      <4>3. n = 0 <=> i = 1
        BY <3>1
      <4>. QED
        BY <3>1, <4>1, <4>2, <4>3, <1>2
    <3>2. CASE i # n + 1
      <4>1. i \in 1 .. n /\ t[i] = s[i] /\ s[i] \in Block /\ s[i] # b /\ n # 0 /\ n \in 1 .. n
        BY <3>2
      <4>2. s[i] = last <=> i = n
        BY <4>1, <1>2 DEF Spells
      <4>3. t[i + 1] = IF i = n THEN b ELSE s[i + 1]
        BY <4>1
      <4>4. q.next[s[i]] = IF i = n THEN FakeTail ELSE s[i + 1]
        BY <4>1 DEF Spells
      <4>5. p.next[t[i]] = IF i = n THEN b ELSE q.next[s[i]]
        BY <4>1, <4>2, <1>5, Nodes
      <4>6. p.prev[t[i]] = q.prev[s[i]]
        BY <4>1, <1>5, Nodes
      <4>7. q.prev[s[i]] = IF i = 1 THEN FakeHead ELSE s[i - 1]
        BY <4>1 DEF Spells
      <4>8. i # 1 => t[i - 1] = s[i - 1]
        BY <4>1
      <4>. QED
        BY <3>2, <4>3, <4>4, <4>5, <4>6, <4>7, <4>8
    <3>. QED
      BY <3>1, <3>2
  <2>6. ASSUME NEW c \in Block, \A i \in 1 .. n + 1 : t[i] # c
        PROVE  p.next[c] = None /\ p.prev[c] = None
    <3>1. c # b
      BY <2>2, <2>6
    <3>2. \A i \in 1 .. n : s[i] # c
      <4>. SUFFICES ASSUME NEW i \in 1 .. n PROVE s[i] # c
        OBVIOUS
      <4>1. i \in 1 .. n + 1 /\ t[i] = s[i]
        OBVIOUS
      <4>. QED
        BY <4>1, <2>6
    <3>3. c # last
      <4>1. n # 0 => n \in 1 .. n
        OBVIOUS
      <4>. QED
        BY <3>2, <4>1, <1>2, Nodes
    <3>4. q.next[c] = None /\ q.prev[c] = None
      BY <3>2 DEF Spells
    <3>. QED
      BY <3>1, <3>3, <3>4, <1>5, Nodes
  <2>. QED
    BY <1>4, <2>1, <2>2, <2>3, <2>4, <2>5, <2>6 DEF Spells
<1>. QED
  BY <1>6, <1>7, <1>8

\* remove: the block leaves the list wherever it stands.
LEMMA SpellsRemove ==
  ASSUME NEW q \in Queue, NEW n \in Nat, NEW s \in [1 .. n -> Block],
         Spells(q, n, s), NEW k \in 1 .. n
  PROVE  /\ Remove(q, s[k]) \in Queue
         /\ Without(n, s, k) \in [1 .. n - 1 -> Block]
         /\ Spells(Remove(q, s[k]), n - 1, Without(n, s, k))
<1>. USE DEF Without
<1>. DEFINE t == Without(n, s, k)
            b == s[k]
            before == q.prev[b]
            after == q.next[b]
            p == Remove(q, b)
<1>1. /\ q.next \in [Node -> Node \cup {None}] /\ q.prev \in [Node -> Node \cup {None}]
      /\ q.num \in Int /\ q.num = n
  BY DEF Queue, Spells
<1>2. before = (IF k = 1 THEN FakeHead ELSE s[k - 1]) /\ after = (IF k = n THEN FakeTail ELSE s[k + 1])
  BY DEF Spells
<1>3. b \in Block /\ b \in Node /\ b # FakeHead /\ b # FakeTail
  BY Nodes
<1>4. before \in Node /\ before # b /\ before # FakeTail
  <2>1. CASE k = 1
    BY <2>1, <1>2, <1>3, Nodes
  <2>2. CASE k # 1
    <3>1. k - 1 \in 1 .. n /\ k - 1 # k /\ s[k - 1] \in Block
      BY <2>2
    <3>2. s[k - 1] # b
      BY <3>1 DEF Spells
    <3>. QED
      BY <2>2, <3>1, <3>2, <1>2, Nodes
  <2>. QED
    BY <2>1, <2>2
<1>5. after \in Node /\ after # b /\ after # FakeHead
  <2>1. CASE k = n
    BY <2>1, <1>2, <1>3, Nodes
  <2>2. CASE k # n
    <3>1. k + 1 \in 1 .. n /\ k + 1 # k /\ s[k + 1] \in Block
      BY <2>2
    <3>2. s[k + 1] # b
      BY <3>1 DEF Spells
    <3>. QED
      BY <2>2, <3>1, <3>2, <1>2, Nodes
  <2>. QED
    BY <2>1, <2>2
<1>6. p.num = n - 1
  BY <1>1 DEF Remove
<1>7. ASSUME NEW x \in Node
      PROVE  /\ p.next[x] = IF x = b THEN None ELSE IF x = before THEN after ELSE q.next[x]
             /\ p.prev[x] = IF x = b THEN None ELSE IF x = after THEN before ELSE q.prev[x]
  BY <1>1, <1>3, <1>4, <1>5 DEF Remove
<1>8. p \in Queue
  <2>1. [q.next EXCEPT ![before] = after, ![b] = None] \in [Node -> Node \cup {None}]
    BY <1>1, <1>5
  <2>2. [q.prev EXCEPT ![after] = before, ![b] = None] \in [Node -> Node \cup {None}]
    BY <1>1, <1>4
  <2>. QED
    BY <1>1, <2>1, <2>2 DEF Queue, Remove
<1>9. t \in [1 .. n - 1 -> Block]
  <2>1. ASSUME NEW i \in 1 .. n - 1 PROVE (IF i < k THEN s[i] ELSE s[i + 1]) \in Block
    <3>1. i \in 1 .. n /\ i + 1 \in 1 .. n
      OBVIOUS
    <3>. QED
      BY <3>1
  <2>. QED
    BY <2>1
<1>10. ASSUME NEW i \in 1 .. n - 1
       PROVE  /\ i < k => i \in 1 .. n /\ i # k /\ t[i] = s[i]
              /\ ~(i < k) => i + 1 \in 1 .. n /\ i + 1 # k /\ t[i] = s[i + 1]
  OBVIOUS
<1>11. ASSUME NEW j \in 1 .. n, j # k
       PROVE  IF j < k THEN j \in 1 .. n - 1 /\ t[j] = s[j]
                       ELSE j - 1 \in 1 .. n - 1 /\ t[j - 1] = s[j]
  <2>1. CASE j < k
    BY <2>1
  <2>2. CASE ~(j < k)
    <3>1. j - 1 \in 1 .. n - 1 /\ ~(j - 1 < k) /\ (j - 1) + 1 = j
      BY <2>2, <1>11
    <3>. QED
      BY <2>2, <3>1
  <2>. QED
    BY <2>1, <2>2
<1>12. \A i, j \in 1 .. n : s[i] = s[j] => i = j
  BY DEF Spells
<1>13. ASSUME NEW j \in 1 .. n, j # k
       PROVE  /\ s[j] \in Node /\ s[j] # b
              /\ s[j] = before <=> j = k - 1
              /\ s[j] = after <=> j = k + 1
              /\ q.next[s[j]] = IF j = n THEN FakeTail ELSE s[j + 1]
              /\ q.prev[s[j]] = IF j = 1 THEN FakeHead ELSE s[j - 1]
  <2>1. s[j] \in Block /\ s[j] \in Node /\ s[j] # b
    BY <1>12, <1>13, Nodes
  <2>2. s[j] = before <=> j = k - 1
    <3>1. CASE k = 1
      BY <3>1, <2>1, <1>2, Nodes
    <3>2. CASE k # 1
      BY <3>2, <1>2, <1>12, k - 1 \in 1 .. n
    <3>. QED
      BY <3>1, <3>2
  <2>3. s[j] = after <=> j = k + 1
    <3>1. CASE k = n
      BY <3>1, <2>1, <1>2, Nodes
    <3>2. CASE k # n
      BY <3>2, <1>2, <1>12, k + 1 \in 1 .. n
    <3>. QED
      BY <3>1, <3>2
  <2>4. /\ q.next[s[j]] = IF j = n THEN FakeTail ELSE s[j + 1]
        /\ q.prev[s[j]] = IF j = 1 THEN FakeHead ELSE s[j - 1]
    BY DEF Spells
  <2>. QED
    BY <2>1, <2>2, <2>3, <2>4
<1>14. Spells(p, n - 1, t)
  <2>1. \A i, j \in 1 .. n - 1 : t[i] = t[j] => i = j
    BY <1>10, <1>12
  <2>2. p.next[FakeHead] = IF n - 1 = 0 THEN FakeTail ELSE t[1]
    <3>1. q.next[FakeHead] = s[1] /\ 1 \in 1 .. n
      BY DEF Spells
    <3>2. FakeHead = before <=> k = 1
      <4>1. k # 1 => s[k - 1] \in Block
        OBVIOUS
      <4>. QED
        BY <4>1, <1>2, Nodes
    <3>3. p.next[FakeHead] = IF k = 1 THEN after ELSE s[1]
      BY <3>1, <3>2, <1>3, <1>7, Nodes
    <3>4. CASE n = 1
      BY <3>3, <3>4, <1>2
    <3>5. CASE n # 1 /\ k = 1
      <4>1. 1 \in 1 .. n - 1 /\ t[1] = s[1 + 1]
        BY <3>5
      <4>2. after = s[k + 1] /\ s[k + 1] = s[1 + 1]
        BY <3>5, <1>2
      <4>. QED
        BY <3>3, <3>5, <4>1, <4>2
    <3>6. CASE n # 1 /\ k # 1
      <4>1. 1 \in 1 .. n - 1 /\ t[1] = s[1]
        BY <3>6
      <4>. QED
        BY <3>3, <3>6, <4>1
    <3>. QED
      BY <3>4, <3>5, <3>6
  <2>3. p.prev[FakeTail] = IF n - 1 = 0 THEN FakeHead ELSE t[n - 1]
    <3>1. q.prev[FakeTail] = s[n] /\ n \in 1 .. n
      BY DEF Spells
    <3>2. FakeTail = after <=> k = n
      <4>1. k # n => s[k + 1] \in Block
        OBVIOUS
      <4>. QED
        BY <4>1, <1>2, Nodes
    <3>3. p.prev[FakeTail] = IF k = n THEN before ELSE s[n]
      BY <3>1, <3>2, <1>3, <1>7, Nodes
    <3>4. CASE n = 1
      BY <3>3, <3>4, <1>2
    <3>5. CASE n # 1 /\ k = n
      <4>1. n - 1 \in 1 .. n - 1 /\ t[n - 1] = s[n - 1]
        BY <3>5
      <4>2. before = s[n - 1]
        BY <3>5, <1>2
      <4>. QED
        BY <3>3, <3>5, <4>1, <4>2
    <3>6. CASE n # 1 /\ k # n
      <4>1. n # k /\ ~(n < k) /\ t[n - 1] = s[n]
        BY <3>6, <3>1, <1>11
      <4>. QED
        BY <3>3, <3>6, <4>1
    <3>. QED
      BY <3>4, <3>5, <3>6
  <2>4. p.next[FakeTail] = None /\ p.prev[FakeHead] = None
    BY <1>3, <1>4, <1>5, <1>7, Nodes DEF Spells
  <2>5. ASSUME NEW i \in 1 .. n - 1
        PROVE  /\ p.next[t[i]] = IF i = n - 1 THEN FakeTail ELSE t[i + 1]
               /\ p.prev[t[i]] = IF i = 1 THEN FakeHead ELSE t[i - 1]
    <3>1. CASE i < k
      <4>1. i \in 1 .. n /\ i # k /\ t[i] = s[i]
        BY <3>1, <1>10
      <4>2. p.next[t[i]] = IF i = k - 1 THEN after ELSE s[i + 1]
        <5>1. p.next[s[i]] = IF i = k - 1 THEN after ELSE q.next[s[i]]
          BY <4>1, <1>7, <1>13
        <5>2. q.next[s[i]] = s[i + 1]
          BY <4>1, <1>13
        <5>. QED
          BY <4>1, <5>1, <5>2
      <4>3. (IF i = k - 1 THEN after ELSE s[i + 1]) = IF i = n - 1 THEN FakeTail ELSE t[i + 1]
        <5>1. CASE i = k - 1 /\ i = n - 1
          <6>1. k = n
            BY <5>1
          <6>. QED
            BY <5>1, <6>1, <1>2
        <5>2. CASE i = k - 1 /\ i # n - 1
          <6>1. i + 1 \in 1 .. n - 1 /\ ~(i + 1 < k) /\ k # n /\ after = s[k + 1]
            BY <5>2, <1>2
          <6>2. t[i + 1] = s[k + 1]
            BY <5>2, <6>1
          <6>. QED
            BY <5>2, <6>1, <6>2
        <5>3. CASE i # k - 1
          <6>1. i + 1 \in 1 .. n - 1 /\ i + 1 < k /\ t[i + 1] = s[i + 1] /\ i # n - 1
            BY <5>3, <3>1
          <6>. QED
            BY <5>3, <6>1
        <5>. QED
          BY <5>1, <5>2, <5>3
      <4>4. p.prev[t[i]] = IF i = 1 THEN FakeHead ELSE s[i - 1]
        <5>1. i # k + 1
          BY <3>1
        <5>2. p.prev[s[i]] = q.prev[s[i]]
          BY <4>1, <5>1, <1>7, <1>13
        <5>. QED
          BY <4>1, <5>2, <1>13
      <4>5. i # 1 => t[i - 1] = s[i - 1]
        BY <3>1
      <4>. QED
        BY <4>2, <4>3, <4>4, <4>5
    <3>2. CASE ~(i < k)
      <4>1. i + 1 \in 1 .. n /\ i + 1 # k /\ t[i] = s[i + 1]
        BY <3>2, <1>10
      <4>2. p.next[t[i]] = IF i + 1 = n THEN FakeTail ELSE s[(i + 1) + 1]
        <5>1. i + 1 # k - 1
          BY <3>2
        <5>2. p.next[s[i + 1]] = q.next[s[i + 1]]
          BY <4>1, <5>1, <1>7, <1>13
        <5>. QED
          BY <4>1, <5>2, <1>13
      <4>3. i # n - 1 => t[i + 1] = s[(i + 1) + 1]
        BY <3>2
      <4>4. p.prev[t[i]] = IF i + 1 = k + 1 THEN before ELSE s[(i + 1) - 1]
        <5>1. p.prev[s[i + 1]] = IF i + 1 = k + 1 THEN before ELSE q.prev[s[i + 1]]
          BY <4>1, <1>7, <1>13
        <5>2. q.prev[s[i + 1]] = s[(i + 1) - 1]
          BY <4>1, <1>13
        <5>. QED
          BY <4>1, <5>1, <5>2
      <4>5. (IF i + 1 = k + 1 THEN before ELSE s[(i + 1) - 1]) = IF i = 1 THEN FakeHead ELSE t[i - 1]
        <5>1. CASE i = k
          <6>1. i + 1 = k + 1 /\ (i # 1 => t[i - 1] = s[k - 1])
            BY <5>1
          <6>. QED
            BY <5>1, <6>1, <1>2
        <5>2. CASE i # k
          <6>1. i - 1 \in 1 .. n - 1 /\ ~(i - 1 < k) /\ i # 1 /\ i + 1 # k + 1
            BY <3>2, <5>2
          <6>2. t[i - 1] = s[(i + 1) - 1]
            BY <6>1
          <6>. QED
            BY <6>1, <6>2
        <5>. QED
          BY <5>1, <5>2
      <4>6. i + 1 = n <=> i = n - 1
        OBVIOUS
      <4>. QED
        BY <4>2, <4>3, <4>4, <4>5, <4>6
    <3>. QED
      BY <3>1, <3>2
  <2>6. ASSUME NEW c \in Block, \A i \in 1 .. n - 1 : t[i] # c
        PROVE  p.next[c] = None /\ p.prev[c] = None
    <3>1. CASE c = b
      BY <3>1, <1>3, <1>7
    <3>2. CASE c # b
      <4>1. \A j \in 1 .. n : s[j] # c
        <5>. SUFFICES ASSUME NEW j \in 1 .. n PROVE s[j] # c
          OBVIOUS
        <5>1. CASE j = k
          BY <5>1, <3>2
        <5>2. CASE j # k
          BY <5>2, <2>6, <1>11
        <5>. QED
          BY <5>1, <5>2
      <4>2. c # before /\ c # after
        <5>1. (k # 1 => k - 1 \in 1 .. n) /\ (k # n => k + 1 \in 1 .. n)
          OBVIOUS
        <5>. QED
          BY <4>1, <5>1, <1>2, Nodes
      <4>3. q.next[c] = None /\ q.prev[c] = None
        BY <4>1 DEF Spells
      <4>. QED
        BY <3>2, <4>2, <4>3, <1>7, Nodes
    <3>. QED
      BY <3>1, <3>2
  <2>. QED
    BY <1>6, <2>1, <2>2, <2>3, <2>4, <2>5, <2>6 DEF Spells
<1>. QED
  BY <1>8, <1>9, <1>14

\* popleft: the list loses its first block, the one that is returned.
LEMMA SpellsPopLeft ==
  ASSUME NEW q \in Queue, NEW n \in Nat, NEW s \in [1 .. n -> Block],
         Spells(q, n, s), ~IsEmpty(q)
  PROVE  /\ n > 0 /\ First(q) = s[1] /\ First(q) \in Block
         /\ PopLeft(q) \in Queue
         /\ Dropped(n, s, 1) \in [1 .. n - 1 -> Block]
         /\ Spells(PopLeft(q), n - 1, Dropped(n, s, 1))
<1>1. n > 0 /\ First(q) = s[1] /\ s[1] \in Block /\ 1 \in 1 .. n
  BY DEF Spells, IsEmpty, First
<1>2. q.prev[s[1]] = FakeHead
  BY <1>1 DEF Spells
<1>3. PopLeft(q) = Remove(q, s[1])
  BY <1>1, <1>2 DEF PopLeft, Remove
<1>4. Dropped(n, s, 1) = Without(n, s, 1)
  BY DEF Dropped, Without
<1>. QED
  BY <1>1, <1>3, <1>4, SpellsRemove

\* append_n of the blocks a growth creates: they follow in the order of their ids.
LEMMA SpellsAppendRange ==
  ASSUME NEW q \in Queue, NEW n \in Nat, NEW s \in [1 .. n -> Block],
         Spells(q, n, s), NEW lo \in Block, NEW hi \in Block, lo <= hi,
         \A i \in 1 .. n : s[i] \notin lo .. hi
  PROVE  /\ n + (hi - lo + 1) \in Nat
         /\ AppendRange(q, lo, hi) \in Queue
         /\ Extended(n, s, lo, hi) \in [1 .. n + (hi - lo + 1) -> Block]
         /\ Spells(AppendRange(q, lo, hi), n + (hi - lo + 1), Extended(n, s, lo, hi))
<1>. USE DEF Extended
<1>. DEFINE m == n + (hi - lo + 1)
            t == Extended(n, s, lo, hi)
            last == q.prev[FakeTail]
            p == AppendRange(q, lo, hi)
            N == [x \in Node |-> IF x = last THEN lo
                                ELSE IF x \in lo .. hi - 1 THEN x + 1
                                ELSE IF x = hi THEN FakeTail ELSE q.next[x]]
            P == [x \in Node |-> IF x = FakeTail THEN hi
                                ELSE IF x = lo THEN last
                                ELSE IF x \in lo + 1 .. hi THEN x - 1
                                ELSE q.prev[x]]
<1>1. /\ q.next \in [Node -> Node \cup {None}] /\ q.prev \in [Node -> Node \cup {None}]
      /\ q.num \in Int /\ q.num = n
  BY DEF Queue, Spells
<1>2. lo \in Nat /\ hi \in Nat /\ m \in Nat /\ m > n /\ \A x \in lo .. hi : x \in Block /\ x \in Nat
  BY Nodes DEF Block
<1>3. last = (IF n = 0 THEN FakeHead ELSE s[n]) /\ last \in Node /\ last \notin lo .. hi /\ last # FakeTail
  <2>1. last = IF n = 0 THEN FakeHead ELSE s[n]
    BY DEF Spells
  <2>2. CASE n = 0
    BY <2>1, <2>2, <1>2, Nodes
  <2>3. CASE n # 0
    <3>1. n \in 1 .. n /\ s[n] \in Block /\ s[n] \notin lo .. hi
      BY <2>3
    <3>. QED
      BY <2>1, <2>3, <3>1, Nodes
  <2>. QED
    BY <2>2, <2>3
<1>4. p = [next |-> N, prev |-> P, num |-> m]
  <2>1. ~(hi < lo) /\ m = q.num + (hi - lo + 1)
    BY <1>1, <1>2
  <2>. QED
    BY <2>1 DEF AppendRange
<1>5. p \in Queue
  <2>1. N \in [Node -> Node \cup {None}]
    <3>. SUFFICES ASSUME NEW x \in Node PROVE N[x] \in Node \cup {None}
      OBVIOUS
    <3>1. x \in lo .. hi - 1 => x + 1 \in Node
      BY <1>2, Nodes
    <3>. QED
      BY <1>1, <3>1, Nodes
  <2>2. P \in [Node -> Node \cup {None}]
    <3>. SUFFICES ASSUME NEW x \in Node PROVE P[x] \in Node \cup {None}
      OBVIOUS
    <3>1. x \in lo + 1 .. hi => x - 1 \in Node
      BY <1>2, Nodes
    <3>. QED
      BY <1>1, <1>3, <3>1, Nodes
  <2>. QED
    BY <1>2, <1>4, <2>1, <2>2 DEF Queue
<1>6. ASSUME NEW i \in 1 .. m
      PROVE  /\ i <= n => i \in 1 .. n /\ t[i] = s[i] /\ s[i] \in Block /\ s[i] \notin lo .. hi
             /\ ~(i <= n) => t[i] = lo + (i - n - 1) /\ t[i] \in lo .. hi
  BY <1>2
<1>7. t \in [1 .. m -> Block]
  <2>1. \A i \in 1 .. m : t[i] \in Block
    BY <1>2, <1>6
  <2>. QED
    BY <2>1
<1>8. Spells(p, m, t)
  <2>1. \A i, j \in 1 .. m : t[i] = t[j] => i = j
    <3>. SUFFICES ASSUME NEW i \in 1 .. m, NEW j \in 1 .. m, t[i] = t[j] PROVE i = j
      OBVIOUS
    <3>1. CASE i <= n /\ j <= n
      BY <3>1, <1>6 DEF Spells
    <3>2. CASE ~(i <= n) /\ ~(j <= n)
      BY <3>2, <1>2, <1>6
    <3>3. CASE ~(i <= n <=> j <= n)
      BY <3>3, <1>6
    <3>. QED
      BY <3>1, <3>2, <3>3
  <2>2. p.next[FakeHead] = IF m = 0 THEN FakeTail ELSE t[1]
    <3>1. FakeHead \notin lo .. hi - 1 /\ FakeHead # hi
      BY <1>2, Nodes
    <3>2. CASE n = 0
      <4>1. t[1] = lo + (1 - n - 1) /\ lo + (1 - n - 1) = lo
        BY <3>2, <1>2
      <4>. QED
        BY <3>2, <4>1, <1>2, <1>3, <1>4, Nodes
    <3>3. CASE n # 0
      <4>1. 1 \in 1 .. n /\ n \in 1 .. n /\ t[1] = s[1] /\ last \in Block
        BY <3>3, <1>2, <1>3
      <4>2. last # FakeHead /\ q.next[FakeHead] = s[1]
        BY <3>3, <4>1, Nodes DEF Spells
      <4>. QED
        BY <1>2, <3>1, <4>1, <4>2, <1>4, Nodes
    <3>. QED
      BY <3>2, <3>3
  <2>3. p.prev[FakeTail] = IF m = 0 THEN FakeHead ELSE t[m]
    <3>1. m # 0 /\ m \in 1 .. m /\ t[m] = hi
      BY <1>2
    <3>. QED
      BY <3>1, <1>4, Nodes
  <2>4. p.next[FakeTail] = None /\ p.prev[FakeHead] = None
    <3>1. /\ FakeTail \notin lo .. hi - 1 /\ FakeTail # hi
          /\ FakeHead \notin lo + 1 .. hi /\ FakeHead # lo
      BY <1>2, Nodes
    <3>2. q.next[FakeTail] = None /\ q.prev[FakeHead] = None
      BY DEF Spells
    <3>. QED
      BY <3>1, <3>2, <1>3, <1>4, Nodes
  <2>5. ASSUME NEW i \in 1 .. m
        PROVE  /\ p.next[t[i]] = IF i = m THEN FakeTail ELSE t[i + 1]
               /\ p.prev[t[i]] = IF i = 1 THEN FakeHead ELSE t[i - 1]
    <3>1. CASE i <= n
      <4>1. i \in 1 .. n /\ n \in 1 .. n /\ t[i] = s[i] /\ s[i] \in Node /\ s[i] \notin lo .. hi /\ s[i] # FakeTail
        <5>1. i \in 1 .. n /\ n \in 1 .. n /\ t[i] = s[i] /\ s[i] \in Block /\ s[i] \notin lo .. hi
          BY <3>1, <1>6
        <5>. QED
          BY <5>1, Nodes
      <4>2. s[i] = last <=> i = n
        BY <4>1, <1>3 DEF Spells
      <4>3. s[i] \notin lo .. hi - 1 /\ s[i] # hi /\ s[i] # lo /\ s[i] \notin lo + 1 .. hi
        BY <4>1, <1>2
      <4>4. p.next[s[i]] = IF i = n THEN lo ELSE q.next[s[i]]
        BY <4>1, <4>2, <4>3, <1>4
      <4>5. p.prev[s[i]] = q.prev[s[i]]
        BY <4>1, <4>3, <1>4
      <4>6. /\ q.next[s[i]] = IF i = n THEN FakeTail ELSE s[i + 1]
            /\ q.prev[s[i]] = IF i = 1 THEN FakeHead ELSE s[i - 1]
        BY <4>1 DEF Spells
      <4>7. i # m /\ t[i + 1] = (IF i = n THEN lo ELSE s[i + 1])
        <5>1. i # m /\ i + 1 \in 1 .. m
          BY <4>1, <1>2
        <5>2. CASE i = n
          <6>1. t[i + 1] = lo + ((i + 1) - n - 1) /\ lo + ((i + 1) - n - 1) = lo
            BY <5>1, <5>2, <1>2
          <6>. QED
            BY <5>1, <5>2, <6>1
        <5>3. CASE i # n
          BY <5>1, <5>3, <4>1
        <5>. QED
          BY <5>2, <5>3
      <4>8. i # 1 => t[i - 1] = s[i - 1]
        BY <4>1, <1>2
      <4>. QED
        BY <4>1, <4>4, <4>5, <4>6, <4>7, <4>8
    <3>2. CASE ~(i <= n)
      <4>1. t[i] = lo + (i - n - 1) /\ t[i] \in lo .. hi /\ t[i] \in Node /\ t[i] # last /\ t[i] # FakeTail
        BY <3>2, <1>2, <1>3, <1>6, Nodes
      <4>2. t[i] = hi <=> i = m
        BY <4>1, <1>2
      <4>3. t[i] = lo <=> i = n + 1
        BY <4>1, <1>2
      <4>4. p.next[t[i]] = IF i = m THEN FakeTail ELSE t[i] + 1
        <5>1. t[i] \in lo .. hi - 1 <=> i # m
          BY <4>1, <4>2, <1>2
        <5>. QED
          BY <4>1, <4>2, <5>1, <1>4
      <4>5. p.prev[t[i]] = IF i = n + 1 THEN last ELSE t[i] - 1
        <5>1. i # n + 1 => t[i] \in lo + 1 .. hi
          BY <4>1, <4>3, <1>2
        <5>. QED
          BY <4>1, <4>3, <5>1, <1>4
      <4>6. i # m => t[i + 1] = t[i] + 1
        BY <3>2, <4>1, <1>2
      <4>7. i # n + 1 => t[i - 1] = t[i] - 1
        BY <3>2, <4>1, <1>2
      <4>8. i = n + 1 => last = IF i = 1 THEN FakeHead ELSE t[i - 1]
        <5>. SUFFICES ASSUME i = n + 1 PROVE last = IF i = 1 THEN FakeHead ELSE t[i - 1]
          OBVIOUS
        <5>1. n # 0 => t[i - 1] = s[n]
          BY <1>2
        <5>. QED
          BY <5>1, <1>3
      <4>9. i # n + 1 => i # 1
        BY <3>2
      <4>. QED
        BY <4>4, <4>5, <4>6, <4>7, <4>8, <4>9
    <3>. QED
      BY <3>1, <3>2
  <2>6. ASSUME NEW c \in Block, \A i \in 1 .. m : t[i] # c
        PROVE  p.next[c] = None /\ p.prev[c] = None
    <3>1. c \notin lo .. hi
      <4>. SUFFICES ASSUME c \in lo .. hi PROVE FALSE
        OBVIOUS
      <4>1. n + 1 + (c - lo) \in 1 .. m /\ t[n + 1 + (c - lo)] = c
        BY <1>2
      <4>. QED
        BY <2>6, <4>1
    <3>2. \A i \in 1 .. n : s[i] # c
      <4>. SUFFICES ASSUME NEW i \in 1 .. n PROVE s[i] # c
        OBVIOUS
      <4>1. i \in 1 .. m /\ t[i] = s[i]
        BY <1>2
      <4>. QED
        BY <2>6, <4>1
    <3>3. c # last /\ c # FakeTail /\ c \in Node
      <4>1. n # 0 => n \in 1 .. n
        OBVIOUS
      <4>. QED
        BY <3>2, <4>1, <1>3, Nodes
    <3>4. q.next[c] = None /\ q.prev[c] = None
      BY <3>2 DEF Spells
    <3>5. c \notin lo .. hi - 1 /\ c # hi /\ c # lo /\ c \notin lo + 1 .. hi
      BY <3>1, <1>2
    <3>. QED
      BY <3>3, <3>4, <3>5, <1>4
  <2>7. p.num = m
    BY <1>4
  <2>. HIDE DEF t, p, N, P, m
  <2>. QED
    BY <2>1, <2>2, <2>3, <2>4, <2>5, <2>6, <2>7 DEF Spells
<1>. QED
  BY <1>2, <1>5, <1>7, <1>8

-----------------------------------------------------------------------------
(* popleft_n collects its nodes in a loop.  The induction over that loop   *)
(* is the absence of a smallest index at which it leaves the list.         *)

LEMMA FrontIsPrefix ==
  ASSUME NEW q \in Queue, NEW n \in Nat, NEW s \in [1 .. n -> Block],
         Spells(q, n, s), NEW m \in 0 .. n, NEW t \in [1 .. m -> Block], IsFront(q, t)
  PROVE  \A i \in 1 .. m : t[i] = s[i]
<1>. DEFINE bad == {i \in 1 .. m : t[i] # s[i]}
<1>. SUFFICES ASSUME bad # {} PROVE FALSE
  OBVIOUS
<1>1. PICK k \in bad : \A i \in bad : ~ (i < k)
  <2>1. PICK k \in bad : \A i \in bad : <<i, k>> \notin OpToRel(<, Nat)
    <3>1. bad \subseteq Nat
      OBVIOUS
    <3>. QED
      BY <3>1, WFMin, NatLessThanWellFounded, Zenon
  <2>2. \A i \in bad : i \in Nat
    OBVIOUS
  <2>. QED
    BY <2>1, <2>2, Zenon DEF OpToRel
<1>3. k \in 1 .. m /\ t[k] # s[k] /\ n # 0 /\ k \in 1 .. n
  OBVIOUS
<1>4. t[k] = IF k = 1 THEN First(q) ELSE q.next[t[k - 1]]
  BY <1>3 DEF IsFront
<1>5. CASE k = 1
  BY <1>3, <1>4, <1>5 DEF Spells, First
<1>6. CASE k # 1
  <2>1. k - 1 \in 1 .. m /\ k - 1 \in 1 .. n /\ k - 1 < k /\ k - 1 # n
    BY <1>3, <1>6
  <2>2. t[k - 1] = s[k - 1]
    BY <1>1, <2>1
  <2>3. q.next[s[k - 1]] = s[(k - 1) + 1] /\ (k - 1) + 1 = k
    BY <2>1 DEF Spells
  <2>. QED
    BY <1>3, <1>4, <1>6, <2>2, <2>3
<1>. QED
  BY <1>5, <1>6

\* popleft_n: the list loses its first m blocks.
LEMMA SpellsPopLeftN ==
  ASSUME NEW q \in Queue, NEW n \in Nat, NEW s \in [1 .. n -> Block],
         Spells(q, n, s), NEW m \in 1 .. n, NEW t \in [1 .. m -> Block], IsFront(q, t)
  PROVE  /\ PopLeftN(q, t) \in Queue
         /\ Dropped(n, s, m) \in [1 .. n - m -> Block]
         /\ Spells(PopLeftN(q, t), n - m, Dropped(n, s, m))
<1>. USE DEF Dropped
<1>. DEFINE u == Dropped(n, s, m)
            rest == q.next[s[m]]
            popped == {s[i] : i \in 1 .. m}
            N == [x \in Node |-> IF x \in popped THEN None
                                ELSE IF x = FakeHead THEN rest ELSE q.next[x]]
            P == [x \in Node |-> IF x \in popped THEN None
                                ELSE IF x = rest THEN FakeHead ELSE q.prev[x]]
            p == PopLeftN(q, t)
<1>1. /\ q.next \in [Node -> Node \cup {None}] /\ q.prev \in [Node -> Node \cup {None}]
      /\ q.num \in Int /\ q.num = n /\ m \in Nat /\ m > 0 /\ m <= n /\ n - m \in Nat
  BY DEF Queue, Spells
<1>2. \A i \in 1 .. m : t[i] = s[i]
  BY FrontIsPrefix
<1>3. t # << >> /\ Len(t) = m /\ DOMAIN t = 1 .. m /\ m \in 1 .. m
  BY SeqOfFunction
<1>4. p = [next |-> N, prev |-> P, num |-> n - m]
  <2>1. {t[i] : i \in DOMAIN t} = popped
    BY <1>2, <1>3
  <2>2. (IF t = << >> THEN First(q) ELSE q.next[t[Len(t)]]) = rest
    BY <1>2, <1>3
  <2>3. q.num - Len(t) = n - m
    BY <1>1, <1>3
  <2>. QED
    BY <2>1, <2>2, <2>3 DEF PopLeftN
<1>5. rest = (IF m = n THEN FakeTail ELSE s[m + 1]) /\ rest \in Node
  <2>1. rest = IF m = n THEN FakeTail ELSE s[m + 1]
    BY <1>1 DEF Spells
  <2>2. m # n => m + 1 \in 1 .. n /\ s[m + 1] \in Block
    BY <1>1
  <2>. QED
    BY <2>1, <2>2, Nodes
<1>6. popped \subseteq Block /\ popped \subseteq Node /\ FakeHead \notin popped /\ FakeTail \notin popped
  <2>1. popped \subseteq Block
    BY <1>1
  <2>. QED
    BY <2>1, Nodes
<1>7. p \in Queue
  <2>1. N \in [Node -> Node \cup {None}] /\ P \in [Node -> Node \cup {None}]
    BY <1>1, <1>5, Nodes
  <2>. HIDE DEF N, P
  <2>. QED
    BY <1>1, <1>4, <2>1 DEF Queue
<1>8. ASSUME NEW i \in 1 .. n - m
      PROVE  i + m \in 1 .. n /\ u[i] = s[i + m] /\ s[i + m] \in Block /\ s[i + m] \notin popped
  <2>1. i + m \in 1 .. n /\ i + m \notin 1 .. m
    BY <1>1
  <2>2. \A j \in 1 .. m : s[j] # s[i + m]
    BY <1>1, <2>1 DEF Spells
  <2>. QED
    BY <2>1, <2>2
<1>9. u \in [1 .. n - m -> Block]
  BY <1>8
<1>10. Spells(p, n - m, u)
  <2>1. \A i, j \in 1 .. n - m : u[i] = u[j] => i = j
    <3>. SUFFICES ASSUME NEW i \in 1 .. n - m, NEW j \in 1 .. n - m, u[i] = u[j] PROVE i = j
      OBVIOUS
    <3>1. i + m = j + m
      BY <1>8 DEF Spells
    <3>. QED
      BY <1>1, <3>1
  <2>2. p.num = n - m /\ p.next = N /\ p.prev = P
    BY <1>4
  <2>3. p.next[FakeHead] = IF n - m = 0 THEN FakeTail ELSE u[1]
    <3>1. p.next[FakeHead] = rest
      BY <2>2, <1>6, Nodes
    <3>2. m = n <=> n - m = 0
      BY <1>1
    <3>3. m # n => u[1] = s[m + 1]
      BY <1>1
    <3>. QED
      BY <3>1, <3>2, <3>3, <1>5
  <2>4. p.prev[FakeTail] = IF n - m = 0 THEN FakeHead ELSE u[n - m]
    <3>1. p.prev[FakeTail] = IF FakeTail = rest THEN FakeHead ELSE q.prev[FakeTail]
      BY <2>2, <1>6, Nodes
    <3>2. FakeTail = rest <=> m = n
      <4>1. m # n => s[m + 1] \in Block
        BY <1>1
      <4>. QED
        BY <4>1, <1>5, Nodes
    <3>3. m = n <=> n - m = 0
      BY <1>1
    <3>4. m # n => u[n - m] = s[n]
      <4>1. m # n => n - m \in 1 .. n - m /\ (n - m) + m = n
        BY <1>1
      <4>. QED
        BY <4>1
    <3>5. n # 0 /\ q.prev[FakeTail] = s[n]
      BY <1>1 DEF Spells
    <3>. QED
      BY <3>1, <3>2, <3>3, <3>4, <3>5
  <2>5. p.next[FakeTail] = None /\ p.prev[FakeHead] = None
    <3>1. rest # FakeHead
      <4>1. m # n => s[m + 1] \in Block
        BY <1>1
      <4>. QED
        BY <4>1, <1>5, Nodes
    <3>2. q.next[FakeTail] = None /\ q.prev[FakeHead] = None
      BY DEF Spells
    <3>. QED
      BY <2>2, <3>1, <3>2, <1>6, Nodes
  <2>6. ASSUME NEW i \in 1 .. n - m
        PROVE  /\ p.next[u[i]] = IF i = n - m THEN FakeTail ELSE u[i + 1]
               /\ p.prev[u[i]] = IF i = 1 THEN FakeHead ELSE u[i - 1]
    <3>1. i + m \in 1 .. n /\ u[i] = s[i + m] /\ s[i + m] \in Node /\ s[i + m] \notin popped /\ s[i + m] # FakeHead
      BY <1>8, Nodes
    <3>2. p.next[u[i]] = q.next[s[i + m]]
      BY <2>2, <3>1
    <3>3. q.next[s[i + m]] = IF i + m = n THEN FakeTail ELSE s[(i + m) + 1]
      BY <3>1 DEF Spells
    <3>4. (i + m = n <=> i = n - m) /\ (i # n - m => u[i + 1] = s[(i + m) + 1])
      <4>1. i + m = n <=> i = n - m
        BY <1>1
      <4>2. i # n - m => i + 1 \in 1 .. n - m /\ (i + 1) + m = (i + m) + 1
        BY <1>1
      <4>. QED
        BY <4>1, <4>2
    <3>5. s[i + m] = rest <=> i = 1
      <4>1. m # n /\ m + 1 \in 1 .. n /\ rest = s[m + 1]
        BY <1>1, <1>5
      <4>2. s[i + m] = s[m + 1] <=> i + m = m + 1
        BY <3>1, <4>1 DEF Spells
      <4>. QED
        BY <1>1, <4>1, <4>2
    <3>6. p.prev[u[i]] = IF i = 1 THEN FakeHead ELSE q.prev[s[i + m]]
      BY <2>2, <3>1, <3>5
    <3>7. i # 1 => q.prev[s[i + m]] = s[(i + m) - 1]
      <4>1. i + m # 1
        BY <1>1
      <4>. QED
        BY <3>1, <4>1 DEF Spells
    <3>8. i # 1 => u[i - 1] = s[(i + m) - 1]
      <4>1. i # 1 => i - 1 \in 1 .. n - m /\ (i - 1) + m = (i + m) - 1
        BY <1>1
      <4>. QED
        BY <4>1
    <3>. QED
      BY <3>2, <3>3, <3>4, <3>6, <3>7, <3>8
  <2>7. ASSUME NEW c \in Block, \A i \in 1 .. n - m : u[i] # c
        PROVE  p.next[c] = None /\ p.prev[c] = None
    <3>1. CASE c \in popped
      BY <3>1, <1>6, <2>2
    <3>2. CASE c \notin popped
      <4>1. \A j \in 1 .. n : s[j] # c
        <5>. SUFFICES ASSUME NEW j \in 1 .. n PROVE s[j] # c
          OBVIOUS
        <5>1. CASE j \in 1 .. m
          BY <5>1, <3>2
        <5>2. CASE j \notin 1 .. m
          <6>1. j - m \in 1 .. n - m /\ (j - m) + m = j
            BY <5>2, <1>1
          <6>. QED
            BY <6>1, <2>7
        <5>. QED
          BY <5>1, <5>2
      <4>2. c # rest /\ c # FakeHead /\ c \in Node
        <5>1. m # n => m + 1 \in 1 .. n
          BY <1>1
        <5>. QED
          BY <4>1, <5>1, <1>5, Nodes
      <4>3. q.next[c] = None /\ q.prev[c] = None
        BY <4>1 DEF Spells
      <4>. QED
        BY <2>2, <3>2, <4>2, <4>3
    <3>. QED
      BY <3>1, <3>2
  <2>. HIDE DEF u, p, N, P
  <2>. QED
    BY <2>1, <2>2, <2>3, <2>4, <2>5, <2>6, <2>7 DEF Spells
<1>. QED
  BY <1>7, <1>9, <1>10

-----------------------------------------------------------------------------
(* The queue on its own.                                                   *)

Intact(q) == \E n \in Nat : \E s \in [1 .. n -> Block] : Spells(q, n, s)

LEMMA IntactIsListIntact == ListIntact <=> Intact(queue)
<1>1. ASSUME ListIntact PROVE Intact(queue)
  <2>1. PICK n \in 0 .. MaxBlocks : \E s \in [1 .. n -> Block] : Represents(queue, s)
    BY <1>1 DEF ListIntact
  <2>2. n \in Nat
    OBVIOUS
  <2>. QED
    BY <2>1, <2>2, SpellsIsRepresents DEF Intact
<1>2. ASSUME Intact(queue) PROVE ListIntact
  <2>1. PICK n \in Nat : \E s \in [1 .. n -> Block] : Spells(queue, n, s)
    BY <1>2 DEF Intact
  <2>2. PICK s \in [1 .. n -> Block] : Spells(queue, n, s)
    BY <2>1
  <2>3. n <= MaxBlocks
    BY <2>2, SpelledLength DEF Spells
  <2>4. n \in 0 .. MaxBlocks /\ Represents(queue, s)
    BY <2>2, <2>3, SpellsIsRepresents, Nodes
  <2>. QED
    BY <2>4 DEF ListIntact
<1>. QED
  BY <1>1, <1>2

LEMMA UnlinkedIsOutside ==
  ASSUME NEW q \in Queue, NEW n \in Nat, NEW s \in [1 .. n -> Block], Spells(q, n, s),
         NEW b \in Block
  PROVE  /\ q.next[b] = None <=> \A i \in 1 .. n : s[i] # b
         /\ q.prev[b] = None <=> \A i \in 1 .. n : s[i] # b
<1>1. ASSUME NEW i \in 1 .. n PROVE q.next[s[i]] # None /\ q.prev[s[i]] # None
  <2>1. /\ q.next[s[i]] = IF i = n THEN FakeTail ELSE s[i + 1]
        /\ q.prev[s[i]] = IF i = 1 THEN FakeHead ELSE s[i - 1]
    BY DEF Spells
  <2>2. /\ i # n => i + 1 \in 1 .. n /\ s[i + 1] \in Block
        /\ i # 1 => i - 1 \in 1 .. n /\ s[i - 1] \in Block
    OBVIOUS
  <2>. QED
    BY <2>1, <2>2, Nodes
<1>. QED
  BY <1>1 DEF Spells

\* Whatever is done to the free list alone keeps it an intact list.
LEMMA QueueStep ==
  ASSUME queue \in Queue, Intact(queue), QueueNext
  PROVE  queue' \in Queue /\ Intact(queue')
<1>1. PICK n \in Nat : \E s \in [1 .. n -> Block] : Spells(queue, n, s)
  BY DEF Intact
<1>2. PICK s \in [1 .. n -> Block] : Spells(queue, n, s)
  BY <1>1
<1>3. queue.num = n
  BY <1>2 DEF Spells
<1>4. ASSUME PopLeftStep PROVE queue' \in Queue /\ Intact(queue')
  <2>1. ~IsEmpty(queue) /\ queue' = PopLeft(queue)
    BY <1>4 DEF PopLeftStep
  <2>2. /\ n > 0 /\ queue' \in Queue
        /\ Dropped(n, s, 1) \in [1 .. n - 1 -> Block]
        /\ Spells(queue', n - 1, Dropped(n, s, 1))
    BY <1>2, <2>1, SpellsPopLeft
  <2>3. n - 1 \in Nat
    BY <2>2
  <2>. QED
    BY <2>2, <2>3 DEF Intact
<1>5. ASSUME NEW m \in 1 .. MaxBlocks, PopLeftNStep(m) PROVE queue' \in Queue /\ Intact(queue')
  <2>1. PICK t \in [1 .. m -> Block] : IsFront(queue, t) /\ queue' = PopLeftN(queue, t)
    BY <1>5 DEF PopLeftNStep
  <2>2. m \in 1 .. n
    BY <1>3, <1>5, Nodes DEF PopLeftNStep
  <2>3. /\ queue' \in Queue
        /\ Dropped(n, s, m) \in [1 .. n - m -> Block]
        /\ Spells(queue', n - m, Dropped(n, s, m))
    BY <1>2, <2>1, <2>2, SpellsPopLeftN
  <2>4. n - m \in Nat
    BY <2>2
  <2>. QED
    BY <2>3, <2>4 DEF Intact
<1>6. ASSUME NEW b \in Block, RemoveStep(b) PROVE queue' \in Queue /\ Intact(queue')
  <2>1. queue' = Remove(queue, b) /\ queue.next[b] # None
    BY <1>6 DEF RemoveStep
  <2>2. PICK k \in 1 .. n : s[k] = b
    BY <1>2, <2>1, UnlinkedIsOutside
  <2>3. /\ queue' \in Queue
        /\ Without(n, s, k) \in [1 .. n - 1 -> Block]
        /\ Spells(queue', n - 1, Without(n, s, k))
    BY <1>2, <2>1, <2>2, SpellsRemove
  <2>4. n - 1 \in Nat
    BY <2>2
  <2>. QED
    BY <2>3, <2>4 DEF Intact
<1>7. ASSUME NEW b \in Block, AppendStep(b) PROVE queue' \in Queue /\ Intact(queue')
  <2>1. queue' = AppendBlock(queue, b) /\ queue.next[b] = None
    BY <1>7 DEF AppendStep, Linked
  <2>2. \A i \in 1 .. n : s[i] # b
    BY <1>2, <2>1, UnlinkedIsOutside
  <2>3. /\ queue' \in Queue
        /\ Appended(n, s, b) \in [1 .. n + 1 -> Block]
        /\ Spells(queue', n + 1, Appended(n, s, b))
    BY <1>2, <2>1, <2>2, SpellsAppendBlock
  <2>. QED
    BY <2>3 DEF Intact
<1>8. ASSUME NEW lo \in Block, NEW hi \in Block, AppendRangeStep(lo, hi)
      PROVE  queue' \in Queue /\ Intact(queue')
  <2>1. /\ lo <= hi /\ queue' = AppendRange(queue, lo, hi)
        /\ \A b \in lo .. hi : queue.next[b] = None
    BY <1>8 DEF AppendRangeStep, Linked
  <2>2. \A i \in 1 .. n : s[i] \notin lo .. hi
    BY <1>2, <2>1, UnlinkedIsOutside
  <2>3. /\ n + (hi - lo + 1) \in Nat /\ queue' \in Queue
        /\ Extended(n, s, lo, hi) \in [1 .. n + (hi - lo + 1) -> Block]
        /\ Spells(queue', n + (hi - lo + 1), Extended(n, s, lo, hi))
    BY <1>2, <2>1, <2>2, SpellsAppendRange
  <2>. QED
    BY <2>3 DEF Intact
<1>. QED
  BY <1>4, <1>5, <1>6, <1>7, <1>8 DEF QueueNext

(***************************************************************************)
(* FreeKVCacheBlockQueue keeps an intact doubly linked list, for every     *)
(* pool size and every order of its methods.                               *)
(***************************************************************************)
THEOREM QueueCorrect == QueueSpec => [](QueueTypeOK /\ ListIntact)
<1>. DEFINE Inv == queue \in Queue /\ Intact(queue)
<1>1. QueueInit => Inv
  <2>1. InitialBlocks \in Nat
    BY Nodes
  <2>. QED
    BY <2>1, SpellsNewQueue DEF QueueInit, Intact
<1>2. Inv /\ [QueueNext]_queue => Inv'
  <2>1. Inv /\ UNCHANGED queue => Inv'
    BY DEF Intact
  <2>. QED
    BY <2>1, QueueStep DEF Intact
<1>3. Inv => QueueTypeOK /\ ListIntact
  BY IntactIsListIntact DEF QueueTypeOK
<1>. QED
  BY <1>1, <1>2, <1>3, PTL DEF QueueSpec

-----------------------------------------------------------------------------
(***************************************************************************)
(* The list implements the sequence of module AbsFreeQueue.                *)
(*                                                                         *)
(* A list that spells s is in the order s (SpelledOrder): the walk along   *)
(* next is the one function that has its equations, and the prefixes of s  *)
(* have them.  Each method then is the abstract operation, as a fact about *)
(* sequences.                                                              *)
(***************************************************************************)
\* The first i of the n blocks of s.
FirstOf(n, s, i) == [j \in 1 .. (IF i <= n THEN i ELSE n) |-> s[j]]

\* What the walk has at n, from what it has at n - 1.
Further(q, before, n) ==
  IF n > q.num THEN before
  ELSE Append(before, IF n = 1 THEN First(q) ELSE q.next[before[n - 1]])

WalkedBy(q, f) ==
  f = [n \in 0 .. MaxBlocks |-> IF n = 0 THEN << >> ELSE Further(q, f[n - 1], n)]

LEMMA FirstOfOneMore ==
  ASSUME NEW q, NEW n \in Nat, NEW s \in [1 .. n -> Block], Spells(q, n, s),
         NEW i \in Nat \ {0}
  PROVE  FirstOf(n, s, i) = Further(q, FirstOf(n, s, i - 1), i)
<1>1. q.num = n
  BY DEF Spells
<1>2. CASE i > n
  BY <1>1, <1>2 DEF FirstOf, Further
<1>3. CASE i <= n
  <2>. DEFINE t == FirstOf(n, s, i - 1)
              x == IF i = 1 THEN First(q) ELSE q.next[t[i - 1]]
  <2>1. t = [j \in 1 .. i - 1 |-> s[j]] /\ t \in [1 .. i - 1 -> Block] /\ i - 1 \in Nat
    BY <1>3 DEF FirstOf
  <2>2. x = s[i] /\ s[i] \in Block
    <3>1. CASE i = 1
      BY <1>3, <3>1 DEF Spells, First
    <3>2. CASE i # 1
      <4>1. i - 1 \in 1 .. n /\ i - 1 # n /\ i - 1 + 1 = i /\ i - 1 \in 1 .. i - 1
        BY <1>3, <3>2
      <4>2. t[i - 1] = s[i - 1]
        BY <2>1, <4>1
      <4>3. q.next[s[i - 1]] = s[i]
        BY <4>1 DEF Spells
      <4>. QED
        BY <1>3, <3>2, <4>2, <4>3
    <3>. QED
      BY <3>1, <3>2
  <2>3. t \in Seq(Block) /\ Len(t) = i - 1
    BY <2>1, SeqOfFunction
  <2>4. FirstOf(n, s, i) = [j \in 1 .. i |-> s[j]] /\ FirstOf(n, s, i) \in [1 .. i -> Block]
    BY <1>3 DEF FirstOf
  <2>5. FirstOf(n, s, i) \in Seq(Block) /\ Len(FirstOf(n, s, i)) = i
    BY <2>4, SeqOfFunction
  <2>6. Further(q, t, i) = Append(t, x)
    BY <1>1, <1>3 DEF Further
  <2>. HIDE DEF t, x
  <2>7. Append(t, x) \in Seq(Block) /\ Len(Append(t, x)) = i
        /\ \A j \in 1 .. i : Append(t, x)[j] = IF j = i THEN x ELSE t[j]
    BY <2>2, <2>3, AppendProperties
  <2>8. \A j \in 1 .. i : Append(t, x)[j] = s[j]
    BY <2>1, <2>2, <2>7
  <2>9. \A j \in 1 .. i : FirstOf(n, s, i)[j] = s[j]
    BY <2>4
  <2>10. FirstOf(n, s, i) = Append(t, x)
    BY <2>5, <2>7, <2>8, <2>9, SeqEqual
  <2>. QED
    BY <2>6, <2>10 DEF t
<1>. QED
  BY <1>2, <1>3

LEMMA SpelledOrder ==
  ASSUME NEW q, NEW n \in Nat, NEW s \in [1 .. n -> Block], Spells(q, n, s)
  PROVE  Order(q) = s
<1>. DEFINE f == [i \in 0 .. MaxBlocks |-> FirstOf(n, s, i)]
            g == Walk(q)
<1>1. MaxBlocks \in Nat /\ n <= MaxBlocks
  BY Nodes, SpelledLength DEF Spells
<1>2. FirstOf(n, s, 0) = << >> /\ FirstOf(n, s, MaxBlocks) = s
  BY <1>1 DEF FirstOf
<1>3. WalkedBy(q, f)
  <2>1. ASSUME NEW i \in 0 .. MaxBlocks, i # 0 PROVE f[i] = Further(q, f[i - 1], i)
    <3>1. i - 1 \in 0 .. MaxBlocks /\ i \in Nat \ {0}
      BY <1>1, <2>1
    <3>2. f[i] = FirstOf(n, s, i) /\ f[i - 1] = FirstOf(n, s, i - 1)
      BY <3>1
    <3>. HIDE DEF f
    <3>. QED
      BY <3>1, <3>2, FirstOfOneMore
  <2>2. f[0] = << >>
    BY <1>1, <1>2
  <2>3. f = [i \in 0 .. MaxBlocks |-> f[i]]
    OBVIOUS
  <2>. HIDE DEF f
  <2>. QED
    BY <2>1, <2>2, <2>3 DEF WalkedBy
<1>4. g = CHOOSE h : WalkedBy(q, h)
  BY DEF Walk, WalkedBy, Further
<1>. HIDE DEF f, g
<1>5. WalkedBy(q, g)
  BY <1>3, <1>4
<1>6. \A i \in 0 .. MaxBlocks : g[i] = f[i]
  <2>. DEFINE Bad == {i \in 0 .. MaxBlocks : g[i] # f[i]}
  <2>1. SUFFICES ASSUME Bad # {} PROVE FALSE
    OBVIOUS
  <2>2. PICK k \in Bad : \A i \in Bad : ~ (i < k)
    <3>1. PICK k \in Bad : \A i \in Bad : <<i, k>> \notin OpToRel(<, Nat)
      <4>1. Bad \subseteq Nat
        BY <1>1
      <4>. QED
        BY <2>1, <4>1, WFMin, NatLessThanWellFounded, Zenon
    <3>2. \A i \in Bad : i \in Nat
      BY <1>1
    <3>. QED
      BY <3>1, <3>2, Zenon DEF OpToRel
  <2>3. k # 0
    BY <1>1, <1>3, <1>5 DEF WalkedBy
  <2>4. k - 1 \in 0 .. MaxBlocks /\ k - 1 < k
    BY <1>1, <2>3
  <2>5. g[k - 1] = f[k - 1]
    BY <2>2, <2>4
  <2>6. g[k] = Further(q, g[k - 1], k) /\ f[k] = Further(q, f[k - 1], k)
    BY <1>3, <1>5, <2>3 DEF WalkedBy
  <2>. QED
    BY <2>5, <2>6
<1>. QED
  BY <1>1, <1>2, <1>6 DEF Order, f, g

\* The abstract operations, on the sequence that the list spells.
LEMMA TakeIsDropped ==
  ASSUME NEW n \in Nat, NEW s \in [1 .. n -> Block], NEW m \in 1 .. n
  PROVE  SubSeq(s, m + 1, Len(s)) = Dropped(n, s, m)
<1>. DEFINE t == SubSeq(s, m + 1, n)
            u == Dropped(n, s, m)
<1>1. s \in Seq(Block) /\ Len(s) = n
  BY SeqOfFunction
<1>2. /\ n - m \in Nat /\ m \in Nat /\ n \in Int /\ m + 1 \in Int /\ \A i \in m + 1 .. n : s[i] \in Block
      /\ (IF m + 1 <= n THEN n - (m + 1) + 1 ELSE 0) = n - m /\ n - (m + 1) + 1 = n - m
  OBVIOUS
<1>3. t \in Seq(Block) /\ Len(t) = n - m /\ \A i \in 1 .. n - m : t[i] = s[(m + 1) + i - 1]
  BY <1>2, SubSeqProperties
<1>4. u \in [1 .. n - m -> Block] /\ \A i \in 1 .. n - m : u[i] = s[i + m]
  BY <1>2 DEF Dropped
<1>5. u \in Seq(Block) /\ Len(u) = n - m
  BY <1>2, <1>4, SeqOfFunction
<1>6. \A i \in 1 .. n - m : (m + 1) + i - 1 = i + m
  OBVIOUS
<1>. HIDE DEF t, u
<1>7. t = u
  BY <1>3, <1>4, <1>5, <1>6, SeqEqual
<1>. QED
  BY <1>1, <1>7 DEF t, u

LEMMA TakeOutIsWithout ==
  ASSUME NEW n \in Nat, NEW s \in [1 .. n -> Block], NEW k \in 1 .. n
  PROVE  SubSeq(s, 1, k - 1) \o SubSeq(s, k + 1, Len(s)) = Without(n, s, k)
<1>. DEFINE t == SubSeq(s, 1, k - 1)
            u == SubSeq(s, k + 1, n)
            w == Without(n, s, k)
<1>1. s \in Seq(Block) /\ Len(s) = n
  BY SeqOfFunction
<1>2. /\ k - 1 \in Nat /\ n - k \in Nat /\ n - 1 \in Nat /\ k \in Int /\ n \in Int /\ k + 1 \in Int
      /\ \A i \in 1 .. k - 1 : s[i] \in Block
      /\ \A i \in k + 1 .. n : s[i] \in Block
      /\ (IF 1 <= k - 1 THEN k - 1 - 1 + 1 ELSE 0) = k - 1 /\ k - 1 - 1 + 1 = k - 1
      /\ (IF k + 1 <= n THEN n - (k + 1) + 1 ELSE 0) = n - k /\ n - (k + 1) + 1 = n - k
  OBVIOUS
<1>3. t \in Seq(Block) /\ Len(t) = k - 1 /\ \A i \in 1 .. k - 1 : t[i] = s[1 + i - 1]
  BY <1>2, SubSeqProperties
<1>4. u \in Seq(Block) /\ Len(u) = n - k /\ \A i \in 1 .. n - k : u[i] = s[(k + 1) + i - 1]
  BY <1>2, SubSeqProperties
<1>5. w \in [1 .. n - 1 -> Block] /\ \A i \in 1 .. n - 1 : w[i] = IF i < k THEN s[i] ELSE s[i + 1]
  BY DEF Without
<1>6. w \in Seq(Block) /\ Len(w) = n - 1
  BY <1>2, <1>5, SeqOfFunction
<1>. HIDE DEF t, u, w
<1>7. /\ t \o u \in Seq(Block) /\ Len(t \o u) = n - 1
      /\ \A i \in 1 .. n - 1 : (t \o u)[i] = IF i <= k - 1 THEN t[i] ELSE u[i - (k - 1)]
  <2>1. (k - 1) + (n - k) = n - 1
    BY <1>2
  <2>2. t \in Seq(Block) /\ u \in Seq(Block)
    BY <1>3, <1>4
  <2>3. /\ t \o u \in Seq(Block) /\ Len(t \o u) = Len(t) + Len(u)
        /\ \A i \in 1 .. Len(t) + Len(u) : (t \o u)[i] = IF i <= Len(t) THEN t[i] ELSE u[i - Len(t)]
    BY <2>2, ConcatProperties
  <2>. QED
    BY <1>3, <1>4, <2>1, <2>3, Zenon
<1>8. ASSUME NEW i \in 1 .. n - 1 PROVE (t \o u)[i] = w[i]
  <2>1. CASE i < k
    <3>1. i <= k - 1 /\ i \in 1 .. k - 1 /\ 1 + i - 1 = i
      BY <2>1
    <3>. QED
      BY <1>3, <1>5, <1>7, <2>1, <3>1
  <2>2. CASE ~(i < k)
    <3>1. ~(i <= k - 1) /\ i - (k - 1) \in 1 .. n - k /\ (k + 1) + (i - (k - 1)) - 1 = i + 1
      BY <2>2
    <3>. QED
      BY <1>4, <1>5, <1>7, <2>2, <3>1
  <2>. QED
    BY <2>1, <2>2
<1>9. t \o u = w
  BY <1>6, <1>7, <1>8, SeqEqual
<1>. QED
  BY <1>1, <1>9 DEF t, u, w

LEMMA ReturnIsAppended ==
  ASSUME NEW n \in Nat, NEW s \in [1 .. n -> Block], NEW b \in Block
  PROVE  Append(s, b) = Appended(n, s, b)
<1>1. s \in Seq(Block) /\ Len(s) = n
  BY SeqOfFunction
<1>2. /\ Append(s, b) \in Seq(Block) /\ Len(Append(s, b)) = n + 1
      /\ \A i \in 1 .. n : Append(s, b)[i] = s[i]
      /\ Append(s, b)[n + 1] = b
  BY <1>1, AppendProperties
<1>3. /\ Appended(n, s, b) \in [1 .. n + 1 -> Block]
      /\ \A i \in 1 .. n : Appended(n, s, b)[i] = s[i]
      /\ Appended(n, s, b)[n + 1] = b
  BY DEF Appended
<1>4. Appended(n, s, b) \in Seq(Block) /\ Len(Appended(n, s, b)) = n + 1
  BY <1>3, SeqOfFunction
<1>5. \A i \in 1 .. n + 1 : i \in 1 .. n \/ i = n + 1
  OBVIOUS
<1>. QED
  BY <1>2, <1>3, <1>4, <1>5, SeqEqual

LEMMA ReturnRangeIsExtended ==
  ASSUME NEW n \in Nat, NEW s \in [1 .. n -> Block], NEW lo \in Block, NEW hi \in Block, lo <= hi
  PROVE  s \o [i \in 1 .. hi - lo + 1 |-> lo + i - 1] = Extended(n, s, lo, hi)
<1>. DEFINE t == [i \in 1 .. hi - lo + 1 |-> lo + i - 1]
            u == Extended(n, s, lo, hi)
            m == hi - lo + 1
<1>1. s \in Seq(Block) /\ Len(s) = n
  BY SeqOfFunction
<1>2. lo \in Nat /\ hi \in Nat /\ m \in Nat /\ n + m \in Nat
  BY Nodes
<1>3. t \in [1 .. m -> Block] /\ \A i \in 1 .. m : t[i] = lo + i - 1
  BY <1>2, Nodes DEF Block
<1>4. /\ u \in [1 .. n + m -> Block]
      /\ \A i \in 1 .. n + m : u[i] = IF i <= n THEN s[i] ELSE lo + (i - n - 1)
  BY <1>2, Nodes DEF Block, Extended
<1>. HIDE DEF t, u, m
<1>5. /\ t \in Seq(Block) /\ Len(t) = m /\ u \in Seq(Block) /\ Len(u) = n + m
  BY <1>2, <1>3, <1>4, SeqOfFunction
<1>6. /\ s \o t \in Seq(Block) /\ Len(s \o t) = n + m
      /\ \A i \in 1 .. n + m : (s \o t)[i] = IF i <= n THEN s[i] ELSE t[i - n]
  BY <1>1, <1>5, ConcatProperties
<1>7. ASSUME NEW i \in 1 .. n + m PROVE (s \o t)[i] = u[i]
  <2>1. CASE i <= n
    BY <1>4, <1>6, <2>1
  <2>2. CASE ~(i <= n)
    <3>1. i - n \in 1 .. m /\ lo + (i - n) - 1 = lo + (i - n - 1)
      BY <1>2, <2>2
    <3>. QED
      BY <1>3, <1>4, <1>6, <2>2, <3>1
  <2>. QED
    BY <2>1, <2>2
<1>8. s \o t = u
  BY <1>5, <1>6, <1>7, SeqEqual
<1>. QED
  BY <1>8 DEF t, u

\* Each method is an abstract operation.
LEMMA QueueImplementsAbs ==
  ASSUME queue \in Queue, Intact(queue), QueueNext
  PROVE  Abs!Next
<1>. DEFINE free == Order(queue)
<1>0. free' = Order(queue')
  BY DEF Order, Walk, First
<1>1. PICK n \in Nat : \E s \in [1 .. n -> Block] : Spells(queue, n, s)
  BY DEF Intact
<1>2. PICK s \in [1 .. n -> Block] : Spells(queue, n, s)
  BY <1>1
<1>3. queue.num = n
  BY <1>2 DEF Spells
<1>4. free = s /\ s \in Seq(Block) /\ Len(s) = n /\ DOMAIN s = 1 .. n
  BY <1>2, SpelledOrder, SeqOfFunction
<1>5. ASSUME NEW m \in Nat, NEW t \in [1 .. m -> Block], Spells(queue', m, t)
      PROVE  free' = t
  BY <1>0, <1>5, SpelledOrder
<1>. HIDE DEF free
<1>6. ASSUME PopLeftStep PROVE \E m \in 1 .. MaxBlocks : m <= Len(free) /\ free' = SubSeq(free, m + 1, Len(free))
  <2>1. ~IsEmpty(queue) /\ queue' = PopLeft(queue)
    BY <1>6 DEF PopLeftStep
  <2>2. /\ n > 0 /\ Dropped(n, s, 1) \in [1 .. n - 1 -> Block]
        /\ Spells(queue', n - 1, Dropped(n, s, 1))
    BY <1>2, <2>1, SpellsPopLeft
  <2>3. n - 1 \in Nat /\ 1 \in 1 .. n /\ 1 <= n /\ 1 \in 1 .. MaxBlocks
    BY <2>2, Nodes
  <2>4. free' = Dropped(n, s, 1)
    BY <1>5, <2>2, <2>3
  <2>5. free' = SubSeq(s, 1 + 1, Len(s))
    BY <2>3, <2>4, TakeIsDropped
  <2>. QED
    BY <1>4, <2>3, <2>5
<1>7. ASSUME NEW m \in 1 .. MaxBlocks, PopLeftNStep(m)
      PROVE  m <= Len(free) /\ free' = SubSeq(free, m + 1, Len(free))
  <2>1. PICK t \in [1 .. m -> Block] : IsFront(queue, t) /\ queue' = PopLeftN(queue, t)
    BY <1>7 DEF PopLeftNStep
  <2>2. m \in 1 .. n
    BY <1>3, <1>7, Nodes DEF PopLeftNStep
  <2>3. Dropped(n, s, m) \in [1 .. n - m -> Block] /\ Spells(queue', n - m, Dropped(n, s, m))
    BY <1>2, <2>1, <2>2, SpellsPopLeftN
  <2>4. n - m \in Nat /\ m <= n
    BY <2>2
  <2>5. free' = Dropped(n, s, m)
    BY <1>5, <2>3, <2>4
  <2>. QED
    BY <1>4, <2>2, <2>4, <2>5, TakeIsDropped
<1>8. ASSUME NEW b \in Block, RemoveStep(b)
      PROVE  \E k \in DOMAIN free :
               free[k] = b /\ free' = SubSeq(free, 1, k - 1) \o SubSeq(free, k + 1, Len(free))
  <2>1. queue' = Remove(queue, b) /\ queue.next[b] # None
    BY <1>8 DEF RemoveStep
  <2>2. PICK k \in 1 .. n : s[k] = b
    BY <1>2, <2>1, UnlinkedIsOutside
  <2>3. Without(n, s, k) \in [1 .. n - 1 -> Block] /\ Spells(queue', n - 1, Without(n, s, k))
    BY <1>2, <2>1, <2>2, SpellsRemove
  <2>4. n - 1 \in Nat
    BY <2>2
  <2>5. free' = Without(n, s, k)
    BY <1>5, <2>3, <2>4
  <2>6. free' = SubSeq(s, 1, k - 1) \o SubSeq(s, k + 1, Len(s))
    BY <2>5, TakeOutIsWithout
  <2>. QED
    BY <1>4, <2>2, <2>6
<1>9. ASSUME NEW b \in Block, AppendStep(b)
      PROVE  (~ \E i \in DOMAIN free : free[i] = b) /\ free' = Append(free, b)
  <2>1. queue' = AppendBlock(queue, b) /\ queue.next[b] = None
    BY <1>9 DEF AppendStep, Linked
  <2>2. \A i \in 1 .. n : s[i] # b
    BY <1>2, <2>1, UnlinkedIsOutside
  <2>3. Appended(n, s, b) \in [1 .. n + 1 -> Block] /\ Spells(queue', n + 1, Appended(n, s, b))
    BY <1>2, <2>1, <2>2, SpellsAppendBlock
  <2>4. n + 1 \in Nat
    OBVIOUS
  <2>5. free' = Appended(n, s, b)
    BY <1>5, <2>3, <2>4
  <2>. QED
    BY <1>4, <2>2, <2>5, ReturnIsAppended
<1>10. ASSUME NEW lo \in Block, NEW hi \in Block, AppendRangeStep(lo, hi)
       PROVE  /\ lo <= hi /\ \A b \in lo .. hi : ~ \E i \in DOMAIN free : free[i] = b
              /\ free' = free \o [i \in 1 .. hi - lo + 1 |-> lo + i - 1]
  <2>1. /\ lo <= hi /\ queue' = AppendRange(queue, lo, hi)
        /\ \A b \in lo .. hi : queue.next[b] = None
    BY <1>10 DEF AppendRangeStep, Linked
  <2>2. \A i \in 1 .. n : s[i] \notin lo .. hi
    BY <1>2, <2>1, UnlinkedIsOutside
  <2>3. /\ n + (hi - lo + 1) \in Nat
        /\ Extended(n, s, lo, hi) \in [1 .. n + (hi - lo + 1) -> Block]
        /\ Spells(queue', n + (hi - lo + 1), Extended(n, s, lo, hi))
    BY <1>2, <2>1, <2>2, SpellsAppendRange
  <2>4. free' = Extended(n, s, lo, hi)
    BY <1>5, <2>3
  <2>5. free' = s \o [i \in 1 .. hi - lo + 1 |-> lo + i - 1]
    BY <2>1, <2>4, ReturnRangeIsExtended
  <2>. QED
    BY <1>4, <2>1, <2>2, <2>5
<1>11. CASE PopLeftStep
  BY <1>6, <1>11 DEF free, Abs!Next, Abs!Take
<1>12. ASSUME NEW m \in 1 .. MaxBlocks, PopLeftNStep(m) PROVE Abs!Next
  BY <1>7, <1>12 DEF free, Abs!Next, Abs!Take
<1>13. ASSUME NEW b \in Block, RemoveStep(b) PROVE Abs!Next
  BY <1>8, <1>13 DEF free, Abs!Next, Abs!TakeOut, Block
<1>14. ASSUME NEW b \in Block, AppendStep(b) PROVE Abs!Next
  BY <1>9, <1>14 DEF free, Abs!Next, Abs!Return, Abs!InFree, Block
<1>15. ASSUME NEW lo \in Block, NEW hi \in Block, AppendRangeStep(lo, hi) PROVE Abs!Next
  BY <1>10, <1>15 DEF free, Abs!Next, Abs!ReturnRange, Abs!InFree, Block
<1>. QED
  BY <1>11, <1>12, <1>13, <1>14, <1>15 DEF QueueNext

(***************************************************************************)
(* FreeKVCacheBlockQueue implements the free list that its owner sees:     *)
(* each of its methods is one operation on a sequence of blocks, for every *)
(* pool size.                                                              *)
(***************************************************************************)
THEOREM QueueImplementsFreeList == QueueSpec => ImplementsAbs
<1>. DEFINE Good == queue \in Queue /\ Intact(queue)
<1>1. QueueInit => Good /\ Abs!Init
  <2>1. InitialBlocks \in Nat
    BY Nodes
  <2>2. ASSUME QueueInit PROVE Good /\ Order(queue) = [i \in 1 .. InitialBlocks |-> i - 1]
    BY <2>1, <2>2, SpellsNewQueue, SpelledOrder DEF QueueInit, Intact
  <2>. QED
    BY <2>2 DEF Abs!Init
<1>2. Good /\ [QueueNext]_queue => Good'
  <2>1. Good /\ UNCHANGED queue => Good'
    BY DEF Intact
  <2>. QED
    BY <2>1, QueueStep DEF Intact
<1>3. Good /\ [QueueNext]_queue => [Abs!Next]_(Order(queue))
  <2>1. UNCHANGED queue => UNCHANGED Order(queue)
    BY DEF Order, Walk, First
  <2>. QED
    BY <2>1, QueueImplementsAbs
<1>. QED
  BY <1>1, <1>2, <1>3, PTL DEF QueueSpec, ImplementsAbs, Abs!Spec

(***************************************************************************)
(* The block pool.                                                         *)
(***************************************************************************)
\* The list q holds exactly the blocks below c that are not in al.
FreeExactly(q, c, al) ==
  \E n \in Nat : \E s \in [1 .. n -> Block] :
    /\ Spells(q, n, s)
    /\ \A b \in Block : (\E i \in 1 .. n : s[i] = b) <=> (b < c /\ b \notin al)

Pool == /\ NullBlock \in allocated
        /\ \A b \in allocated : b < created
        /\ FreeExactly(queue, created, allocated)

Owners == /\ \A r \in Request : NullBlock \notin held[r]
          /\ fresh \subseteq allocated \ Null
          /\ \A b \in fresh : \A h \in Hash : b \notin cached[h]
          /\ \A b \in fresh : \A r1, r2 \in Request : b \in held[r1] /\ b \in held[r2] => r1 = r2

Inv == TypeOK /\ Pool /\ Owners /\ RefCountExact /\ CachedSound /\ StatsExact

-----------------------------------------------------------------------------
(* The free list as a set of blocks.                                       *)

LEMMA FreeIntro ==
  ASSUME NEW q, NEW c, NEW al, NEW n \in Nat, NEW s \in [1 .. n -> Block], Spells(q, n, s),
         \A b \in Block : (\E i \in 1 .. n : s[i] = b) <=> (b < c /\ b \notin al)
  PROVE  FreeExactly(q, c, al)
BY DEF FreeExactly

LEMMA FreePop ==
  ASSUME NEW q \in Queue, NEW c \in Nat, NEW al \in SUBSET Block,
         FreeExactly(q, c, al), ~IsEmpty(q)
  PROVE  /\ First(q) \in Block /\ First(q) < c /\ First(q) \notin al
         /\ PopLeft(q) \in Queue /\ PopLeft(q).num = q.num - 1
         /\ FreeExactly(PopLeft(q), c, al \cup {First(q)})
<1>0. PICK n \in Nat : \E s \in [1 .. n -> Block] :
         Spells(q, n, s) /\ \A b \in Block : (\E i \in 1 .. n : s[i] = b) <=> (b < c /\ b \notin al)
  BY DEF FreeExactly
<1>1. PICK s \in [1 .. n -> Block] :
         Spells(q, n, s) /\ \A b \in Block : (\E i \in 1 .. n : s[i] = b) <=> (b < c /\ b \notin al)
  BY <1>0
<1>2. /\ n > 0 /\ First(q) = s[1] /\ First(q) \in Block
      /\ PopLeft(q) \in Queue
      /\ Dropped(n, s, 1) \in [1 .. n - 1 -> Block]
      /\ Spells(PopLeft(q), n - 1, Dropped(n, s, 1))
  BY <1>1, SpellsPopLeft
<1>3. First(q) < c /\ First(q) \notin al
  BY <1>1, <1>2, 1 \in 1 .. n
<1>4. ASSUME NEW b \in Block
      PROVE  (\E i \in 1 .. n - 1 : Dropped(n, s, 1)[i] = b) <=> (b < c /\ b \notin al \cup {First(q)})
  <2>1. (\E i \in 1 .. n - 1 : Dropped(n, s, 1)[i] = b) <=> (\E i \in 1 .. n : s[i] = b /\ i # 1)
    <3>1. ASSUME NEW i \in 1 .. n - 1 PROVE i + 1 \in 1 .. n /\ i + 1 # 1 /\ Dropped(n, s, 1)[i] = s[i + 1]
      BY DEF Dropped
    <3>2. ASSUME NEW i \in 1 .. n, i # 1 PROVE i - 1 \in 1 .. n - 1 /\ (i - 1) + 1 = i
      BY <3>2
    <3>3. ASSUME NEW i \in 1 .. n, i # 1 PROVE Dropped(n, s, 1)[i - 1] = s[i]
      BY <3>1, <3>2, <3>3
    <3>4. ASSUME NEW i \in 1 .. n, i # 1, s[i] = b PROVE \E j \in 1 .. n - 1 : Dropped(n, s, 1)[j] = b
      BY <3>2, <3>3, <3>4
    <3>. QED
      BY <3>1, <3>4
  <2>2. \A i \in 1 .. n : s[i] = s[1] <=> i = 1
    BY <1>1, <1>2 DEF Spells
  <2>. QED
    BY <1>1, <1>2, <2>1, <2>2
<1>5. n - 1 \in Nat /\ PopLeft(q).num = n - 1 /\ q.num = n
  BY <1>1, <1>2 DEF Spells
<1>6. FreeExactly(PopLeft(q), c, al \cup {First(q)})
  <2>. DEFINE m == n - 1
              d == Dropped(n, s, 1)
              a == al \cup {First(q)}
  <2>1. m \in Nat /\ d \in [1 .. m -> Block] /\ Spells(PopLeft(q), m, d)
    BY <1>2, <1>5
  <2>2. \A b \in Block : (\E i \in 1 .. m : d[i] = b) <=> (b < c /\ b \notin a)
    BY <1>4
  <2>. HIDE DEF m, d, a
  <2>3. FreeExactly(PopLeft(q), c, a)
    BY <2>1, <2>2, FreeIntro
  <2>. QED
    BY <2>3 DEF a
<1>. QED
  BY <1>2, <1>3, <1>5, <1>6

LEMMA FreeAppend ==
  ASSUME NEW q \in Queue, NEW c \in Nat, NEW al \in SUBSET Block, FreeExactly(q, c, al),
         NEW b \in al, b < c
  PROVE  /\ AppendBlock(q, b) \in Queue /\ AppendBlock(q, b).num = q.num + 1
         /\ FreeExactly(AppendBlock(q, b), c, al \ {b})
<1>0. PICK n \in Nat : \E s \in [1 .. n -> Block] :
         Spells(q, n, s) /\ \A x \in Block : (\E i \in 1 .. n : s[i] = x) <=> (x < c /\ x \notin al)
  BY DEF FreeExactly
<1>1. PICK s \in [1 .. n -> Block] :
         Spells(q, n, s) /\ \A x \in Block : (\E i \in 1 .. n : s[i] = x) <=> (x < c /\ x \notin al)
  BY <1>0
<1>2. b \in Block /\ \A i \in 1 .. n : s[i] # b
  BY <1>1
<1>3. /\ AppendBlock(q, b) \in Queue
      /\ Appended(n, s, b) \in [1 .. n + 1 -> Block]
      /\ Spells(AppendBlock(q, b), n + 1, Appended(n, s, b))
  BY <1>1, <1>2, SpellsAppendBlock
<1>4. ASSUME NEW x \in Block
      PROVE  (\E i \in 1 .. n + 1 : Appended(n, s, b)[i] = x) <=> (x < c /\ x \notin al \ {b})
  <2>1. (\E i \in 1 .. n + 1 : Appended(n, s, b)[i] = x) <=> (x = b \/ \E i \in 1 .. n : s[i] = x)
    <3>1. ASSUME NEW i \in 1 .. n PROVE i \in 1 .. n + 1 /\ Appended(n, s, b)[i] = s[i]
      BY DEF Appended
    <3>2. n + 1 \in 1 .. n + 1 /\ Appended(n, s, b)[n + 1] = b
      BY DEF Appended
    <3>3. \A i \in 1 .. n + 1 : i \in 1 .. n \/ i = n + 1
      OBVIOUS
    <3>. QED
      BY <3>1, <3>2, <3>3
  <2>. QED
    BY <1>1, <2>1
<1>5. n + 1 \in Nat /\ AppendBlock(q, b).num = n + 1 /\ q.num = n
  BY <1>1, <1>3 DEF Spells
<1>. QED
  BY <1>3, <1>4, <1>5 DEF FreeExactly

LEMMA FreeRemove ==
  ASSUME NEW q \in Queue, NEW c \in Nat, NEW al \in SUBSET Block, FreeExactly(q, c, al),
         NEW b \in Block, q.next[b] # None
  PROVE  /\ b < c /\ b \notin al
         /\ Remove(q, b) \in Queue /\ Remove(q, b).num = q.num - 1
         /\ FreeExactly(Remove(q, b), c, al \cup {b})
<1>0. PICK n \in Nat : \E s \in [1 .. n -> Block] :
         Spells(q, n, s) /\ \A x \in Block : (\E i \in 1 .. n : s[i] = x) <=> (x < c /\ x \notin al)
  BY DEF FreeExactly
<1>1. PICK s \in [1 .. n -> Block] :
         Spells(q, n, s) /\ \A x \in Block : (\E i \in 1 .. n : s[i] = x) <=> (x < c /\ x \notin al)
  BY <1>0
<1>2. PICK k \in 1 .. n : s[k] = b
  BY <1>1, UnlinkedIsOutside
<1>3. /\ Remove(q, b) \in Queue
      /\ Without(n, s, k) \in [1 .. n - 1 -> Block]
      /\ Spells(Remove(q, b), n - 1, Without(n, s, k))
  BY <1>1, <1>2, SpellsRemove
<1>4. ASSUME NEW x \in Block
      PROVE  (\E i \in 1 .. n - 1 : Without(n, s, k)[i] = x) <=> (x < c /\ x \notin al \cup {b})
  <2>1. (\E i \in 1 .. n - 1 : Without(n, s, k)[i] = x) <=> (\E i \in 1 .. n : s[i] = x /\ i # k)
    <3>1. ASSUME NEW i \in 1 .. n - 1
          PROVE  \E j \in 1 .. n : j # k /\ Without(n, s, k)[i] = s[j]
      <4>1. CASE i < k
        BY <4>1 DEF Without
      <4>2. CASE ~(i < k)
        <5>1. i + 1 \in 1 .. n /\ i + 1 # k /\ Without(n, s, k)[i] = s[i + 1]
          BY <4>2 DEF Without
        <5>. QED
          BY <5>1
      <4>. QED
        BY <4>1, <4>2
    <3>2. ASSUME NEW i \in 1 .. n, i # k
          PROVE  \E j \in 1 .. n - 1 : Without(n, s, k)[j] = s[i]
      <4>1. CASE i < k
        <5>1. i \in 1 .. n - 1 /\ Without(n, s, k)[i] = s[i]
          BY <4>1 DEF Without
        <5>. QED
          BY <5>1
      <4>2. CASE ~(i < k)
        <5>1. i - 1 \in 1 .. n - 1 /\ ~(i - 1 < k) /\ (i - 1) + 1 = i
          BY <3>2, <4>2
        <5>2. Without(n, s, k)[i - 1] = s[i]
          BY <5>1 DEF Without
        <5>. QED
          BY <5>1, <5>2
      <4>. QED
        BY <4>1, <4>2
    <3>. QED
      BY <3>1, <3>2
  <2>2. \A i \in 1 .. n : s[i] = s[k] <=> i = k
    BY <1>1 DEF Spells
  <2>. QED
    BY <1>1, <1>2, <2>1, <2>2
<1>5. n - 1 \in Nat /\ Remove(q, b).num = n - 1 /\ q.num = n /\ b < c /\ b \notin al
  BY <1>1, <1>2, <1>3 DEF Spells
<1>6. FreeExactly(Remove(q, b), c, al \cup {b})
  BY <1>3, <1>4, <1>5, FreeIntro
<1>. QED
  BY <1>3, <1>5, <1>6

LEMMA FreeLinked ==
  ASSUME NEW q \in Queue, NEW c, NEW al, FreeExactly(q, c, al),
         NEW b \in Block, b < c, b \notin al
  PROVE  q.next[b] # None /\ q.prev[b] # None
<1>1. PICK n \in Nat : \E s \in [1 .. n -> Block] :
        Spells(q, n, s) /\ \A x \in Block : (\E i \in 1 .. n : s[i] = x) <=> (x < c /\ x \notin al)
  BY DEF FreeExactly
<1>2. PICK s \in [1 .. n -> Block] :
        Spells(q, n, s) /\ \A x \in Block : (\E i \in 1 .. n : s[i] = x) <=> (x < c /\ x \notin al)
  BY <1>1
<1>3. \E i \in 1 .. n : s[i] = b
  BY <1>2
<1>. QED
  BY <1>2, <1>3, UnlinkedIsOutside

LEMMA FreeGrow ==
  ASSUME NEW q \in Queue, NEW c \in Nat, NEW al \in SUBSET Block, FreeExactly(q, c, al),
         \A b \in al : b < c, NEW g \in Nat \ {0}, c + g <= MaxBlocks
  PROVE  /\ AppendRange(q, c, c + g - 1) \in Queue
         /\ AppendRange(q, c, c + g - 1).num = q.num + g
         /\ FreeExactly(AppendRange(q, c, c + g - 1), c + g, al)
<1>. DEFINE hi == c + g - 1
<1>0. PICK n \in Nat : \E s \in [1 .. n -> Block] :
         Spells(q, n, s) /\ \A x \in Block : (\E i \in 1 .. n : s[i] = x) <=> (x < c /\ x \notin al)
  BY DEF FreeExactly
<1>1. PICK s \in [1 .. n -> Block] :
         Spells(q, n, s) /\ \A x \in Block : (\E i \in 1 .. n : s[i] = x) <=> (x < c /\ x \notin al)
  BY <1>0
<1>2. c \in Block /\ hi \in Block /\ c <= hi
  BY Nodes DEF Block
<1>3. \A i \in 1 .. n : s[i] \notin c .. hi
  <2>1. \A i \in 1 .. n : s[i] \in Block /\ s[i] < c /\ s[i] \in Nat
    BY <1>1, Nodes
  <2>. QED
    BY <2>1
<1>4. n + (hi - c + 1) = n + g /\ n + g \in Nat /\ hi \in Int
  OBVIOUS
<1>5. /\ AppendRange(q, c, hi) \in Queue
      /\ Extended(n, s, c, hi) \in [1 .. n + (hi - c + 1) -> Block]
      /\ Spells(AppendRange(q, c, hi), n + (hi - c + 1), Extended(n, s, c, hi))
  BY <1>1, <1>2, <1>3, SpellsAppendRange
<1>6. ASSUME NEW x \in Block
      PROVE  (\E i \in 1 .. n + g : Extended(n, s, c, hi)[i] = x) <=> (x < c + g /\ x \notin al)
  <2>1. x \in Nat
    BY Nodes
  <2>2. ASSUME NEW i \in 1 .. n + g
        PROVE  Extended(n, s, c, hi)[i] = IF i <= n THEN s[i] ELSE c + (i - n - 1)
    BY <1>4 DEF Extended
  <2>3. (\E i \in 1 .. n + g : Extended(n, s, c, hi)[i] = x) <=> (x \in c .. hi \/ \E i \in 1 .. n : s[i] = x)
    <3>1. ASSUME x \in c .. hi PROVE \E i \in 1 .. n + g : Extended(n, s, c, hi)[i] = x
      <4>1. n + 1 + (x - c) \in 1 .. n + g /\ ~(n + 1 + (x - c) <= n) /\ c + ((n + 1 + (x - c)) - n - 1) = x
        BY <3>1, <2>1
      <4>. QED
        BY <2>2, <4>1
    <3>2. ASSUME NEW i \in 1 .. n, s[i] = x PROVE \E j \in 1 .. n + g : Extended(n, s, c, hi)[j] = x
      <4>1. i \in 1 .. n + g /\ i <= n
        OBVIOUS
      <4>. QED
        BY <2>2, <3>2, <4>1
    <3>3. ASSUME NEW i \in 1 .. n + g, Extended(n, s, c, hi)[i] = x
          PROVE  x \in c .. hi \/ \E j \in 1 .. n : s[j] = x
      <4>1. CASE i <= n
        BY <2>2, <3>3, <4>1
      <4>2. CASE ~(i <= n)
        <5>1. x = c + (i - n - 1)
          BY <2>2, <3>3, <4>2
        <5>. QED
          BY <4>2, <5>1
      <4>. QED
        BY <4>1, <4>2
    <3>. QED
      BY <3>1, <3>2, <3>3
  <2>4. x \in c .. hi => x \notin al
    BY <2>1
  <2>. QED
    BY <1>1, <2>1, <2>3, <2>4
<1>7. AppendRange(q, c, hi).num = n + g /\ q.num = n
  BY <1>1, <1>4, <1>5 DEF Spells
<1>8. Extended(n, s, c, hi) \in [1 .. n + g -> Block] /\ Spells(AppendRange(q, c, hi), n + g, Extended(n, s, c, hi))
  BY <1>4, <1>5
<1>9. FreeExactly(AppendRange(q, c, hi), c + g, al)
  BY <1>4, <1>6, <1>8, FreeIntro
<1>. QED
  BY <1>5, <1>7, <1>9

-----------------------------------------------------------------------------
(* Reference counts are cardinalities.                                     *)

LEMMA HoldersFinite == \A b : IsFiniteSet(Holders(b)) /\ Holders(b) \subseteq Request
<1>1. \A b : Holders(b) \in SUBSET Request
  BY DEF Holders
<1>. QED
  BY <1>1, FS_Subset, PagedCacheAssumption

LEMMA HoldersAdd ==
  ASSUME NEW b, NEW r \in Request, b \notin held[r],
         \A x \in Request : b \in held'[x] <=> b \in held[x] \/ x = r
  PROVE  Cardinality(Holders(b)') = Cardinality(Holders(b)) + 1
<1>1. Holders(b)' = Holders(b) \cup {r} /\ r \notin Holders(b)
  BY DEF Holders
<1>. QED
  BY <1>1, HoldersFinite, FS_AddElement

LEMMA HoldersDrop ==
  ASSUME NEW b, NEW r \in Request, b \in held[r],
         \A x \in Request : b \in held'[x] <=> b \in held[x] /\ x # r
  PROVE  /\ Cardinality(Holders(b)') = Cardinality(Holders(b)) - 1
         /\ Cardinality(Holders(b)) = 1 => Holders(b)' = {}
<1>1. Holders(b)' = Holders(b) \ {r} /\ r \in Holders(b)
  BY DEF Holders
<1>2. Cardinality(Holders(b)') = Cardinality(Holders(b)) - 1 /\ IsFiniteSet(Holders(b)')
  BY <1>1, HoldersFinite, FS_RemoveElement
<1>. QED
  BY <1>2, HoldersFinite, FS_CardinalityType, FS_EmptySet

LEMMA HoldersSame ==
  ASSUME NEW b, \A x \in Request : b \in held'[x] <=> b \in held[x]
  PROVE  Holders(b)' = Holders(b)
BY DEF Holders

LEMMA HeldCounts ==
  ASSUME RefCountExact, NEW b \in Block \ Null
  PROVE  /\ Cardinality(Holders(b)) \in Nat /\ ref_count[b] = Cardinality(Holders(b))
         /\ \A r \in Request : b \in held[r] => ref_count[b] > 0
         /\ ref_count[b] = 0 => \A r \in Request : b \notin held[r]
         /\ b \notin allocated => \A r \in Request : b \notin held[r]
<1>1. Cardinality(Holders(b)) \in Nat /\ ref_count[b] = Cardinality(Holders(b))
  BY HoldersFinite, FS_CardinalityType DEF RefCountExact
<1>2. Cardinality(Holders(b)) = 0 <=> Holders(b) = {}
  BY HoldersFinite, FS_EmptySet
<1>3. b \notin allocated => Holders(b) = {}
  BY DEF RefCountExact
<1>4. \A r \in Request : b \in held[r] => r \in Holders(b)
  BY DEF Holders
<1>5. Cardinality(Holders(b)) # 0 => Cardinality(Holders(b)) > 0
  BY <1>1
<1>. QED
  BY <1>1, <1>2, <1>3, <1>4, <1>5

LEMMA AllocatedFinite ==
  ASSUME allocated \in SUBSET Block
  PROVE  IsFiniteSet(allocated) /\ Cardinality(allocated) \in Nat
<1>1. IsFiniteSet(Block)
  BY FS_Interval, Nodes DEF Block
<1>. QED
  BY <1>1, FS_Subset, FS_CardinalityType

-----------------------------------------------------------------------------
(* Allocation.                                                             *)

\* What every allocation establishes: the block taken was free, so nobody
\* held it, nobody could find it, and the pool stays exact.
LEMMA Taken ==
  ASSUME Inv, NEW b \in Block, TakeBlock(b)
  PROVE  /\ b \notin allocated /\ b # NullBlock /\ b \notin fresh
         /\ \A r \in Request : b \notin held[r]
         /\ \A h \in Hash : b \notin cached[h]
         /\ EvictedCached(b) = cached
         /\ queue' \in Queue /\ created' \in InitialBlocks .. MaxBlocks
         /\ allocated' = allocated \cup {b} /\ allocated' \in SUBSET Block
         /\ stats' \in [allocated_blocks: Int, free_blocks: Int]
         /\ Pool' /\ StatsExact'
<1>. USE DEF Inv, TypeOK
<1>1. /\ created \in Nat /\ created <= MaxBlocks /\ MaxBlocks \in Nat /\ GrowBy \in Nat \ {0}
      /\ InitialBlocks \in Nat
  BY Nodes, PagedCacheAssumption
<1>2. queue.num \in Int /\ FreeExactly(queue, created, allocated) /\ \A x \in allocated : x < created
  BY DEF Pool, Queue
<1>3. /\ GrownQueue \in Queue
      /\ Growth \in Nat /\ created + Growth <= MaxBlocks
      /\ GrownQueue.num = queue.num + Growth
      /\ FreeExactly(GrownQueue, created + Growth, allocated)
  <2>1. CASE queue.num # 0
    <3>1. Growth = 0 /\ created + Growth - 1 < created
      BY <2>1, <1>1 DEF Growth
    <3>2. GrownQueue = queue
      BY <3>1 DEF GrownQueue, AppendRange
    <3>. QED
      BY <1>1, <1>2, <3>1, <3>2
  <2>2. CASE queue.num = 0
    <3>1. created < MaxBlocks
      BY <2>2 DEF TakeBlock, CanAllocate
    <3>2. Growth \in Nat \ {0} /\ created + Growth <= MaxBlocks
      BY <1>1, <2>2, <3>1 DEF Growth, Min2
    <3>. QED
      BY <1>1, <1>2, <3>2, FreeGrow DEF GrownQueue
  <2>. QED
    BY <2>1, <2>2
<1>4. /\ ~IsEmpty(GrownQueue) /\ b = First(GrownQueue)
      /\ queue' = PopLeft(GrownQueue)
      /\ created' = created + Growth
      /\ allocated' = allocated \cup {b}
  BY DEF TakeBlock
<1>5. created + Growth \in Nat
  BY <1>1, <1>3
<1>6. /\ b < created' /\ b \notin allocated /\ queue' \in Queue
      /\ queue'.num = GrownQueue.num - 1 /\ FreeExactly(queue', created', allocated')
  BY <1>3, <1>4, <1>5, FreePop
<1>7. b # NullBlock /\ Pool'
  <2>1. b # NullBlock /\ NullBlock \in allocated'
    BY <1>4, <1>6 DEF Pool
  <2>2. \A x \in allocated' : x < created'
    <3>. SUFFICES ASSUME NEW x \in allocated PROVE x < created'
      BY <1>4, <1>6
    <3>1. x \in Nat /\ x < created
      BY <1>2, Nodes
    <3>. QED
      BY <1>1, <1>3, <1>4, <3>1
  <2>. QED
    BY <1>6, <2>1, <2>2 DEF Pool
<1>8. created' \in InitialBlocks .. MaxBlocks /\ allocated' \in SUBSET Block
  BY <1>1, <1>3, <1>4
<1>9. StatsExact' /\ stats' \in [allocated_blocks: Int, free_blocks: Int]
  <2>1. stats' = [allocated_blocks |-> stats.allocated_blocks + 1,
                  free_blocks |-> (IF Growth = 0 THEN stats.free_blocks
                                                 ELSE GrownQueue.num) - 1]
    BY DEF TakeBlock
  <2>2. Cardinality(allocated') = Cardinality(allocated) + 1
    BY <1>4, <1>6, AllocatedFinite, FS_AddElement
  <2>3. stats.free_blocks = queue.num /\ stats.allocated_blocks = Cardinality(allocated)
    BY DEF StatsExact
  <2>4. stats'.free_blocks = queue'.num /\ stats'.allocated_blocks = Cardinality(allocated')
    BY <1>2, <1>3, <1>6, <2>1, <2>2, <2>3
  <2>5. stats'.free_blocks \in Int /\ stats'.allocated_blocks \in Int
    BY <1>2, <1>3, <2>1, <2>3, AllocatedFinite
  <2>. QED
    BY <2>1, <2>4, <2>5 DEF StatsExact
<1>10. b \notin fresh /\ (\A r \in Request : b \notin held[r]) /\ \A h \in Hash : b \notin cached[h]
  BY <1>6, <1>7, HeldCounts DEF Owners, CachedSound, Null
<1>11. EvictedCached(b) = cached
  <2>1. EvictedCached(b) = [h \in Hash |-> cached[h]]
    BY <1>10 DEF EvictedCached
  <2>. QED
    BY <2>1
<1>. QED
  BY <1>4, <1>6, <1>7, <1>8, <1>9, <1>10, <1>11

LEMMA AllocateStep ==
  ASSUME Inv, NEW r \in Request, NEW b \in Block, AllocateBlock(r, b)
  PROVE  Inv'
<1>. USE DEF Inv, TypeOK
<1>1. TakeBlock(b)
  BY DEF AllocateBlock
<1>2. /\ b \notin allocated /\ b # NullBlock /\ b \notin fresh
      /\ \A x \in Request : b \notin held[x]
      /\ \A h \in Hash : b \notin cached[h]
      /\ EvictedCached(b) = cached
      /\ queue' \in Queue /\ created' \in InitialBlocks .. MaxBlocks
      /\ allocated' = allocated \cup {b} /\ allocated' \in SUBSET Block
      /\ stats' \in [allocated_blocks: Int, free_blocks: Int]
      /\ Pool' /\ StatsExact'
  BY <1>1, Taken
<1>3. /\ cached' = cached /\ ref_count' = [ref_count EXCEPT ![b] = 1]
      /\ held' = [held EXCEPT ![r] = @ \cup {b}] /\ fresh' = fresh \cup {b}
      /\ block_hash' = [block_hash EXCEPT ![b] = EvictedHash(b)]
  BY <1>2 DEF AllocateBlock
<1>4. EvictedHash(b) \in Hash \cup {None}
  BY DEF EvictedHash
<1>5. TypeOK'
  BY <1>2, <1>3, <1>4
<1>6. \A x \in Request : \A c : c \in held'[x] <=> c \in held[x] \/ (c = b /\ x = r)
  BY <1>3
<1>7. Owners'
  BY <1>2, <1>3, <1>6 DEF Owners, Null
<1>8. RefCountExact'
  <2>. SUFFICES ASSUME NEW c \in Block \ Null
                PROVE  ref_count'[c] = Cardinality(Holders(c)') /\ (c \notin allocated' => Holders(c)' = {})
    BY DEF RefCountExact
  <2>1. CASE c = b
    <3>1. Cardinality(Holders(b)') = Cardinality(Holders(b)) + 1
      BY <1>2, <1>6, HoldersAdd
    <3>2. Holders(b) = {}
      BY <1>2 DEF Holders
    <3>3. Cardinality(Holders(b)') = 1
      BY <3>1, <3>2, FS_EmptySet
    <3>. QED
      BY <2>1, <3>3, <1>2, <1>3
  <2>2. CASE c # b
    <3>1. Holders(c)' = Holders(c)
      BY <2>2, <1>6, HoldersSame
    <3>. QED
      BY <2>2, <3>1, <1>2, <1>3 DEF RefCountExact
  <2>. QED
    BY <2>1, <2>2
<1>9. CachedSound'
  BY <1>2, <1>3 DEF CachedSound
<1>. QED
  BY <1>2, <1>5, <1>7, <1>8, <1>9

LEMMA RestoreStep ==
  ASSUME Inv, NEW h \in Hash, NEW b \in Block, RestoreBlock(h, b)
  PROVE  Inv'
<1>. USE DEF Inv, TypeOK
<1>1. TakeBlock(b)
  BY DEF RestoreBlock
<1>2. /\ b \notin allocated /\ b # NullBlock /\ b \notin fresh
      /\ \A x \in Request : b \notin held[x]
      /\ \A g \in Hash : b \notin cached[g]
      /\ EvictedCached(b) = cached
      /\ queue' \in Queue /\ created' \in InitialBlocks .. MaxBlocks
      /\ allocated' = allocated \cup {b} /\ allocated' \in SUBSET Block
      /\ stats' \in [allocated_blocks: Int, free_blocks: Int]
      /\ Pool' /\ StatsExact'
  BY <1>1, Taken
<1>3. /\ cached' = [cached EXCEPT ![h] = @ \cup {b}] /\ ref_count' = [ref_count EXCEPT ![b] = 0]
      /\ held' = held /\ fresh' = fresh /\ block_hash' = [block_hash EXCEPT ![b] = h]
  BY <1>2 DEF RestoreBlock
<1>4. TypeOK'
  BY <1>2, <1>3
<1>5. Owners'
  BY <1>2, <1>3 DEF Owners, Null
<1>6. RefCountExact'
  <2>. SUFFICES ASSUME NEW c \in Block \ Null
                PROVE  ref_count'[c] = Cardinality(Holders(c)') /\ (c \notin allocated' => Holders(c)' = {})
    BY DEF RefCountExact
  <2>1. Holders(c)' = Holders(c)
    BY <1>3, HoldersSame
  <2>2. CASE c = b
    <3>1. Holders(b) = {}
      BY <1>2 DEF Holders
    <3>2. Cardinality(Holders(c)') = 0
      BY <2>1, <2>2, <3>1, FS_EmptySet
    <3>. QED
      BY <2>1, <2>2, <3>1, <3>2, <1>3
  <2>3. CASE c # b
    BY <2>1, <2>3, <1>2, <1>3 DEF RefCountExact
  <2>. QED
    BY <2>2, <2>3
<1>7. CachedSound'
  BY <1>2, <1>3 DEF CachedSound, Null
<1>. QED
  BY <1>2, <1>4, <1>5, <1>6, <1>7

LEMMA CowStep ==
  ASSUME Inv, NEW r \in Request, NEW b \in Block, NEW n \in Block, CowCopy(r, b, n)
  PROVE  Inv'
<1>. USE DEF Inv, TypeOK
<1>1. TakeBlock(n) /\ b \in held[r] /\ b \in allocated /\ b \notin fresh /\ ref_count[b] > 1
  BY DEF CowCopy
<1>2. /\ n \notin allocated /\ n # NullBlock /\ n \notin fresh
      /\ \A x \in Request : n \notin held[x]
      /\ \A h \in Hash : n \notin cached[h]
      /\ EvictedCached(n) = cached
      /\ queue' \in Queue /\ created' \in InitialBlocks .. MaxBlocks
      /\ allocated' = allocated \cup {n} /\ allocated' \in SUBSET Block
      /\ stats' \in [allocated_blocks: Int, free_blocks: Int]
      /\ Pool' /\ StatsExact'
  BY <1>1, Taken
<1>3. /\ cached' = cached /\ ref_count' = [ref_count EXCEPT ![n] = 1, ![b] = @ - 1]
      /\ held' = [held EXCEPT ![r] = (@ \ {b}) \cup {n}] /\ fresh' = fresh
      /\ block_hash' = [block_hash EXCEPT ![n] = block_hash[b]]
  BY <1>2 DEF CowCopy
<1>4. b # n /\ b # NullBlock
  BY <1>1, <1>2 DEF Owners
<1>5. TypeOK'
  BY <1>2, <1>3
<1>6. \A x \in Request : \A c : c \in held'[x] <=> (c \in held[x] /\ ~(c = b /\ x = r)) \/ (c = n /\ x = r)
  BY <1>2, <1>3
<1>7. Owners'
  BY <1>2, <1>3, <1>6 DEF Owners
<1>8. RefCountExact'
  <2>. SUFFICES ASSUME NEW c \in Block \ Null
                PROVE  ref_count'[c] = Cardinality(Holders(c)') /\ (c \notin allocated' => Holders(c)' = {})
    BY DEF RefCountExact
  <2>1. CASE c = n
    <3>1. Cardinality(Holders(n)') = Cardinality(Holders(n)) + 1
      BY <1>2, <1>4, <1>6, HoldersAdd
    <3>2. Holders(n) = {}
      BY <1>2 DEF Holders
    <3>3. Cardinality(Holders(n)') = 1
      BY <3>1, <3>2, FS_EmptySet
    <3>. QED
      BY <2>1, <3>3, <1>2, <1>3, <1>4
  <2>2. CASE c = b
    <3>1. Cardinality(Holders(b)') = Cardinality(Holders(b)) - 1
      BY <1>1, <1>4, <1>6, HoldersDrop
    <3>2. ref_count[b] = Cardinality(Holders(b))
      BY <2>2, HeldCounts
    <3>. QED
      BY <2>2, <3>1, <3>2, <1>1, <1>2, <1>3, <1>4
  <2>3. CASE c # n /\ c # b
    <3>1. Holders(c)' = Holders(c)
      BY <2>3, <1>6, HoldersSame
    <3>. QED
      BY <2>3, <3>1, <1>2, <1>3 DEF RefCountExact
  <2>. QED
    BY <2>1, <2>2, <2>3
<1>9. CachedSound'
  BY <1>2, <1>3 DEF CachedSound
<1>. QED
  BY <1>2, <1>5, <1>7, <1>8, <1>9

-----------------------------------------------------------------------------
(* Reference counting.                                                     *)

\* One more reference to an allocated block, or one fewer.
LEMMA ClaimCounts ==
  ASSUME Inv, NEW r \in Request, NEW b \in Block \ Null, b \notin held[r],
         ref_count' = [ref_count EXCEPT ![b] = @ + 1],
         held' = [held EXCEPT ![r] = @ \cup {b}],
         b \in allocated', allocated \subseteq allocated'
  PROVE  RefCountExact'
<1>. USE DEF Inv, TypeOK
<1>1. \A x \in Request : \A c : c \in held'[x] <=> c \in held[x] \/ (c = b /\ x = r)
  OBVIOUS
<1>. SUFFICES ASSUME NEW c \in Block \ Null
              PROVE  ref_count'[c] = Cardinality(Holders(c)') /\ (c \notin allocated' => Holders(c)' = {})
  BY DEF RefCountExact
<1>2. CASE c = b
  <2>1. Cardinality(Holders(b)') = Cardinality(Holders(b)) + 1
    BY <1>1, HoldersAdd
  <2>. QED
    BY <1>2, <2>1, HeldCounts
<1>3. CASE c # b
  <2>1. Holders(c)' = Holders(c)
    BY <1>1, <1>3, HoldersSame
  <2>. QED
    BY <1>3, <2>1 DEF RefCountExact
<1>. QED
  BY <1>2, <1>3

LEMMA DropCounts ==
  ASSUME Inv, NEW r \in Request, NEW b \in Block \ Null, b \in held[r],
         ref_count' = [ref_count EXCEPT ![b] = @ - 1],
         held' = [held EXCEPT ![r] = @ \ {b}],
         \/ allocated' = allocated
         \/ allocated' = allocated \ {b} /\ ref_count[b] <= 1
  PROVE  RefCountExact'
<1>. USE DEF Inv, TypeOK
<1>1. \A x \in Request : \A c : c \in held'[x] <=> c \in held[x] /\ ~(c = b /\ x = r)
  OBVIOUS
<1>. SUFFICES ASSUME NEW c \in Block \ Null
              PROVE  ref_count'[c] = Cardinality(Holders(c)') /\ (c \notin allocated' => Holders(c)' = {})
  BY DEF RefCountExact
<1>2. CASE c = b
  <2>1. /\ Cardinality(Holders(b)') = Cardinality(Holders(b)) - 1
        /\ Cardinality(Holders(b)) = 1 => Holders(b)' = {}
    BY <1>1, HoldersDrop
  <2>2. ref_count[b] = Cardinality(Holders(b)) /\ ref_count[b] > 0 /\ ref_count[b] \in Nat /\ b \in allocated
    BY HeldCounts
  <2>3. ref_count'[b] = Cardinality(Holders(b)')
    BY <2>1, <2>2
  <2>4. b \notin allocated' => Holders(b)' = {}
    BY <2>1, <2>2
  <2>. QED
    BY <1>2, <2>3, <2>4
<1>3. CASE c # b
  <2>1. Holders(c)' = Holders(c)
    BY <1>1, <1>3, HoldersSame
  <2>. QED
    BY <1>3, <2>1 DEF RefCountExact
<1>. QED
  BY <1>2, <1>3

LEMMA IncrementStep ==
  ASSUME Inv, NEW r \in Request, NEW b \in Block, IncrementRef(r, b)
  PROVE  Inv'
<1>. USE DEF Inv, TypeOK
<1>1. /\ b \in allocated /\ b \in Block \ Null /\ b \notin fresh /\ b \notin held[r]
      /\ ref_count' = [ref_count EXCEPT ![b] = @ + 1]
      /\ held' = [held EXCEPT ![r] = @ \cup {b}]
      /\ UNCHANGED <<queue, created, block_hash, allocated, cached, fresh, stats>>
  BY DEF IncrementRef
<1>2. TypeOK'
  BY <1>1
<1>3. Pool' /\ StatsExact' /\ CachedSound'
  BY <1>1 DEF Pool, StatsExact, CachedSound
<1>4. Owners'
  BY <1>1 DEF Owners, Null
<1>5. RefCountExact'
  BY <1>1, ClaimCounts
<1>. QED
  BY <1>2, <1>3, <1>4, <1>5

LEMMA DropStep ==
  ASSUME Inv, NEW r \in Request, NEW b \in Block, FreeShared(r, b) \/ ReleaseForEviction(r, b)
  PROVE  Inv'
<1>. USE DEF Inv, TypeOK
<1>1. /\ b \in allocated /\ b \in Block \ Null /\ b \in held[r]
      /\ ref_count' = [ref_count EXCEPT ![b] = @ - 1]
      /\ held' = [held EXCEPT ![r] = @ \ {b}]
      /\ UNCHANGED <<queue, created, block_hash, allocated, cached, fresh, stats>>
  BY DEF FreeShared, ReleaseForEviction
<1>2. TypeOK'
  BY <1>1
<1>3. Pool' /\ StatsExact' /\ CachedSound'
  BY <1>1 DEF Pool, StatsExact, CachedSound
<1>4. Owners'
  BY <1>1 DEF Owners
<1>5. RefCountExact'
  BY <1>1, DropCounts
<1>. QED
  BY <1>2, <1>3, <1>4, <1>5

LEMMA FreeLastStep ==
  ASSUME Inv, NEW r \in Request, NEW b \in Block, FreeLast(r, b)
  PROVE  Inv'
<1>. USE DEF Inv, TypeOK
<1>1. /\ b \in allocated /\ b \in Block \ Null /\ b \in held[r] /\ ref_count[b] <= 1
      /\ ref_count' = [ref_count EXCEPT ![b] = @ - 1]
      /\ held' = [held EXCEPT ![r] = @ \ {b}]
      /\ cached' = EvictedCached(b)
      /\ allocated' = allocated \ {b}
      /\ queue' = AppendBlock(queue, b)
      /\ stats' = [allocated_blocks |-> stats.allocated_blocks - 1,
                   free_blocks      |-> stats.free_blocks + 1]
      /\ fresh' = fresh \ {b}
      /\ created' = created /\ block_hash' = block_hash
  BY DEF FreeLast
<1>2. created \in Nat /\ b < created /\ FreeExactly(queue, created, allocated)
  BY <1>1, Nodes DEF Pool
<1>3. queue' \in Queue /\ queue'.num = queue.num + 1 /\ FreeExactly(queue', created', allocated')
  BY <1>1, <1>2, FreeAppend
<1>4. \A h \in Hash : cached'[h] = IF h = block_hash[b] THEN cached[h] \ {b} ELSE cached[h]
  BY <1>1 DEF EvictedCached
<1>5. cached' \in [Hash -> SUBSET Block]
  BY <1>1 DEF EvictedCached
<1>6. \A h \in Hash : b \notin cached'[h] /\ cached'[h] \subseteq cached[h]
  <2>. SUFFICES ASSUME NEW h \in Hash
                PROVE  b \notin cached'[h] /\ cached'[h] \subseteq cached[h]
    OBVIOUS
  <2>1. b \in cached[h] => h = block_hash[b]
    BY DEF CachedSound
  <2>. HIDE DEF Inv, TypeOK
  <2>2. CASE h = block_hash[b]
    BY <1>4, <2>2
  <2>3. CASE h # block_hash[b]
    BY <1>4, <2>1, <2>3
  <2>. QED
    BY <2>2, <2>3
<1>7. /\ stats.free_blocks = queue.num /\ stats.allocated_blocks = Cardinality(allocated)
      /\ Cardinality(allocated') = Cardinality(allocated) - 1
  BY <1>1, AllocatedFinite, FS_RemoveElement DEF StatsExact
<1>8. TypeOK'
  BY <1>1, <1>3, <1>5
<1>9. Pool'
  BY <1>1, <1>3 DEF Pool, Null
<1>10. Owners'
  <2>1. fresh' \subseteq allocated' \ Null
    BY <1>1 DEF Owners
  <2>2. \A r1 \in Request : held'[r1] \subseteq held[r1]
    BY <1>1
  <2>. QED
    BY <1>1, <1>6, <2>1, <2>2 DEF Owners
<1>11. RefCountExact'
  BY <1>1, DropCounts
<1>12. CachedSound'
  BY <1>1, <1>6 DEF CachedSound
<1>13. StatsExact'
  BY <1>1, <1>3, <1>7 DEF StatsExact
<1>. QED
  BY <1>8, <1>9, <1>10, <1>11, <1>12, <1>13

LEMMA TouchStep ==
  ASSUME Inv, NEW r \in Request, NEW b \in Block, Touch(r, b)
  PROVE  Inv'
<1>. USE DEF Inv, TypeOK
<1>1. /\ b \in Block \ Null /\ b \notin fresh /\ b \notin held[r]
      /\ ref_count' = [ref_count EXCEPT ![b] = @ + 1]
      /\ held' = [held EXCEPT ![r] = @ \cup {b}]
      /\ UNCHANGED <<created, block_hash, cached, fresh>>
      /\ b < created
  BY DEF Touch, Null, NullBlock
<1>2. CASE ref_count[b] = 0 /\ queue.prev[b] # None /\ queue.next[b] # None
  <2>1. /\ queue' = Remove(queue, b)
        /\ allocated' = allocated \cup {b}
        /\ stats' = [allocated_blocks |-> stats.allocated_blocks + 1,
                     free_blocks      |-> stats.free_blocks - 1]
    BY <1>2 DEF Touch
  <2>2. created \in Nat /\ FreeExactly(queue, created, allocated)
    BY Nodes DEF Pool
  <2>3. /\ b \notin allocated /\ queue' \in Queue /\ queue'.num = queue.num - 1
        /\ FreeExactly(queue', created', allocated')
    BY <1>1, <1>2, <2>1, <2>2, FreeRemove
  <2>4. /\ stats.free_blocks = queue.num /\ stats.allocated_blocks = Cardinality(allocated)
        /\ Cardinality(allocated') = Cardinality(allocated) + 1
    BY <2>1, <2>3, AllocatedFinite, FS_AddElement DEF StatsExact
  <2>5. TypeOK'
    BY <1>1, <2>1, <2>3
  <2>6. Pool'
    BY <1>1, <2>1, <2>3 DEF Pool
  <2>7. Owners'
    BY <1>1, <2>1 DEF Owners, Null
  <2>8. RefCountExact'
    BY <1>1, <2>1, ClaimCounts
  <2>9. CachedSound' /\ StatsExact'
    BY <1>1, <2>1, <2>3, <2>4 DEF CachedSound, StatsExact
  <2>. QED
    BY <2>5, <2>6, <2>7, <2>8, <2>9
<1>3. CASE ~(ref_count[b] = 0 /\ queue.prev[b] # None /\ queue.next[b] # None)
  <2>1. UNCHANGED <<queue, allocated, stats>>
    BY <1>3 DEF Touch
  <2>2. b \in allocated
    <3>1. ASSUME b \notin allocated PROVE FALSE
      <4>3. queue.next[b] # None /\ queue.prev[b] # None
        BY <1>1, <3>1, FreeLinked DEF Pool
      <4>4. Holders(b) = {} /\ ref_count[b] = Cardinality(Holders(b))
        BY <1>1, <3>1 DEF RefCountExact
      <4>5. ref_count[b] = 0
        BY <4>4, FS_EmptySet
      <4>. QED
        BY <1>3, <4>3, <4>5
    <3>. QED
      BY <3>1
  <2>3. TypeOK'
    BY <1>1, <2>1
  <2>4. Pool' /\ StatsExact' /\ CachedSound'
    BY <1>1, <2>1 DEF Pool, StatsExact, CachedSound
  <2>5. Owners'
    BY <1>1, <2>1 DEF Owners, Null
  <2>6. RefCountExact'
    BY <1>1, <2>1, <2>2, ClaimCounts
  <2>. QED
    BY <2>3, <2>4, <2>5, <2>6
<1>. QED
  BY <1>2, <1>3

-----------------------------------------------------------------------------
(* The hash map, eviction and reset.                                       *)

LEMMA RegisterStep ==
  ASSUME Inv, NEW r \in Request, NEW b \in Block, NEW h \in Hash, RegisterBlockHash(r, b, h)
  PROVE  Inv'
<1>. USE DEF Inv, TypeOK
<1>1. /\ b \in held[r] /\ b \in fresh
      /\ block_hash' = [block_hash EXCEPT ![b] = h]
      /\ cached' = [cached EXCEPT ![h] = @ \cup {b}]
      /\ fresh' = fresh \ {b}
      /\ UNCHANGED <<queue, created, ref_count, allocated, held, stats>>
  BY DEF RegisterBlockHash
<1>2. b \in allocated \ Null /\ \A g \in Hash : b \notin cached[g]
  BY <1>1 DEF Owners
<1>3. TypeOK'
  BY <1>1
<1>4. Pool' /\ StatsExact'
  BY <1>1 DEF Pool, StatsExact
<1>5. Owners'
  BY <1>1 DEF Owners
<1>6. RefCountExact'
  BY <1>1, HoldersSame DEF RefCountExact
<1>7. CachedSound'
  BY <1>1, <1>2 DEF CachedSound
<1>. QED
  BY <1>3, <1>4, <1>5, <1>6, <1>7

LEMMA ForgetStep ==
  ASSUME Inv, NEW r \in Request, NEW b \in Block, ForgetHash(r, b)
  PROVE  Inv'
<1>. USE DEF Inv, TypeOK
<1>1. /\ cached' = EvictedCached(b)
      /\ UNCHANGED <<queue, created, ref_count, block_hash, allocated, held, fresh, stats>>
  BY DEF ForgetHash
<1>2. cached' \in [Hash -> SUBSET Block] /\ \A h \in Hash : cached'[h] \subseteq cached[h]
  BY <1>1 DEF EvictedCached
<1>3. TypeOK'
  BY <1>1, <1>2
<1>4. Pool' /\ StatsExact'
  BY <1>1 DEF Pool, StatsExact
<1>5. Owners' /\ CachedSound'
  BY <1>1, <1>2 DEF Owners, CachedSound
<1>6. RefCountExact'
  BY <1>1, HoldersSame DEF RefCountExact
<1>. QED
  BY <1>3, <1>4, <1>5, <1>6

LEMMA EvictLruStep ==
  ASSUME Inv, EvictLruBlock
  PROVE  /\ Inv' /\ held' = held /\ block_hash' = block_hash
<1>. USE DEF Inv, TypeOK
<1>. DEFINE b == First(queue)
<1>1. /\ ~IsEmpty(queue)
      /\ queue' = AppendBlock(PopLeft(queue), b)
      /\ cached' = EvictedCached(b)
      /\ block_hash' = [block_hash EXCEPT ![b] = EvictedHash(b)]
      /\ UNCHANGED <<created, ref_count, allocated, held, fresh, stats>>
  BY DEF EvictLruBlock
<1>2. created \in Nat /\ FreeExactly(queue, created, allocated)
  BY Nodes DEF Pool
<1>3. /\ b \in Block /\ b < created /\ b \notin allocated
      /\ PopLeft(queue) \in Queue /\ PopLeft(queue).num = queue.num - 1
      /\ FreeExactly(PopLeft(queue), created, allocated \cup {b})
  BY <1>1, <1>2, FreePop
<1>4. /\ queue' \in Queue /\ queue'.num = (queue.num - 1) + 1
      /\ FreeExactly(queue', created, (allocated \cup {b}) \ {b})
  <2>1. b \in allocated \cup {b} /\ allocated \cup {b} \in SUBSET Block
    BY <1>3
  <2>. QED
    BY <1>1, <1>2, <1>3, <2>1, FreeAppend
<1>5. (allocated \cup {b}) \ {b} = allocated /\ queue'.num = queue.num
  <2>1. queue.num \in Int
    BY DEF Queue
  <2>. QED
    BY <1>3, <1>4, <2>1
<1>6. \A h \in Hash : b \notin cached[h]
  BY <1>3 DEF CachedSound
<1>7. cached' = cached
  <2>1. EvictedCached(b) = [h \in Hash |-> cached[h]]
    BY <1>6 DEF EvictedCached
  <2>. QED
    BY <1>1, <2>1
<1>8. block_hash' = block_hash
  <2>1. EvictedHash(b) = block_hash[b]
    BY <1>3, <1>6 DEF EvictedHash
  <2>. QED
    BY <1>1, <2>1
<1>9. TypeOK'
  BY <1>1, <1>4, <1>7, <1>8
<1>10. Pool' /\ StatsExact'
  BY <1>1, <1>4, <1>5 DEF Pool, StatsExact
<1>11. Owners' /\ CachedSound'
  BY <1>1, <1>7, <1>8 DEF Owners, CachedSound
<1>12. RefCountExact'
  BY <1>1, HoldersSame DEF RefCountExact
<1>. QED
  BY <1>1, <1>8, <1>9, <1>10, <1>11, <1>12

LEMMA ResetStep ==
  ASSUME Inv, ResetPrefixCache
  PROVE  Inv'
<1>. USE DEF Inv, TypeOK
<1>1. /\ cached' = [h \in Hash |-> {}]
      /\ block_hash' = [b \in Block |-> None]
      /\ UNCHANGED <<queue, created, ref_count, allocated, held, fresh, stats>>
  BY DEF ResetPrefixCache
<1>2. TypeOK'
  BY <1>1
<1>3. Pool' /\ StatsExact'
  BY <1>1 DEF Pool, StatsExact
<1>4. Owners' /\ CachedSound'
  BY <1>1 DEF Owners, CachedSound
<1>5. RefCountExact'
  BY <1>1, HoldersSame DEF RefCountExact
<1>. QED
  BY <1>2, <1>3, <1>4, <1>5

LEMMA FreshPool ==
  /\ FreshQueue \in Queue /\ FreshQueue.num = InitialBlocks - 1
  /\ FreeExactly(FreshQueue, InitialBlocks, Null)
  /\ NullBlock \in Block /\ NullBlock < InitialBlocks /\ InitialBlocks \in InitialBlocks .. MaxBlocks
<1>1. InitialBlocks \in Nat /\ InitialBlocks > 0 /\ InitialBlocks <= MaxBlocks /\ NullBlock \in Block
  BY Nodes DEF NullBlock, Block
<1>. DEFINE q == NewQueue(InitialBlocks)
            s == [i \in 1 .. InitialBlocks |-> i - 1]
<1>2. q \in Queue /\ s \in [1 .. InitialBlocks -> Block] /\ Spells(q, InitialBlocks, s)
  BY SpellsNewQueue
<1>3. \A b \in Block : (\E i \in 1 .. InitialBlocks : s[i] = b) <=> (b < InitialBlocks /\ b \notin {})
  <2>. SUFFICES ASSUME NEW b \in Block
                PROVE  (\E i \in 1 .. InitialBlocks : s[i] = b) <=> b < InitialBlocks
    OBVIOUS
  <2>1. ASSUME b < InitialBlocks PROVE b + 1 \in 1 .. InitialBlocks /\ s[b + 1] = b
    BY <2>1, <1>1, Nodes
  <2>. QED
    BY <2>1, <1>1, Nodes
<1>4. FreeExactly(q, InitialBlocks, {})
  BY <1>1, <1>2, <1>3, FreeIntro
<1>5. First(q) = NullBlock /\ ~IsEmpty(q)
  BY Nodes DEF NewQueue, First, IsEmpty, NullBlock, FakeTail, FakeHead
<1>6. q.num = InitialBlocks
  BY DEF NewQueue
<1>. HIDE DEF q
<1>7. PopLeft(q) \in Queue /\ PopLeft(q).num = q.num - 1 /\ FreeExactly(PopLeft(q), InitialBlocks, {} \cup {First(q)})
  BY <1>1, <1>2, <1>4, <1>5, FreePop
<1>8. FreshQueue = PopLeft(q) /\ {} \cup {First(q)} = Null
  BY <1>5 DEF FreshQueue, Null, q
<1>9. NullBlock < InitialBlocks /\ InitialBlocks \in InitialBlocks .. MaxBlocks
  BY <1>1 DEF NullBlock
<1>. QED
  BY <1>1, <1>6, <1>7, <1>8, <1>9

LEMMA InitInv == Init => Inv
<1>. SUFFICES ASSUME Init PROVE Inv
  OBVIOUS
<1>1. /\ queue = FreshQueue /\ created = InitialBlocks
      /\ ref_count = [b \in Block |-> IF b = NullBlock THEN 1 ELSE 0]
      /\ block_hash = [b \in Block |-> None] /\ allocated = Null
      /\ cached = [h \in Hash |-> {}] /\ held = [r \in Request |-> {}]
      /\ fresh = {} /\ stats = FreshStats
  BY DEF Init
<1>2. TypeOK
  BY <1>1, FreshPool, Nodes DEF TypeOK, FreshStats, Null
<1>3. Pool
  BY <1>1, FreshPool DEF Pool, Null
<1>4. Owners /\ CachedSound
  BY <1>1 DEF Owners, CachedSound
<1>5. RefCountExact
  <2>. SUFFICES ASSUME NEW b \in Block \ Null
                PROVE  ref_count[b] = Cardinality(Holders(b)) /\ Holders(b) = {}
    BY DEF RefCountExact
  <2>1. Holders(b) = {}
    BY <1>1 DEF Holders
  <2>. QED
    BY <1>1, <2>1, FS_EmptySet DEF Null
<1>6. StatsExact
  <2>1. Cardinality(Null) = 1
    BY FS_Singleton DEF Null
  <2>. QED
    BY <1>1, <2>1, FreshPool DEF StatsExact, FreshStats
<1>. QED
  BY <1>2, <1>3, <1>4, <1>5, <1>6 DEF Inv

LEMMA ClearStep == Clear => Inv'
<1>1. Clear => Init'
  BY DEF Clear, Init
<1>2. Init' => Inv'
  BY InitInv, PTL
<1>. QED
  BY <1>1, <1>2

-----------------------------------------------------------------------------
LEMMA InvStep == Inv /\ [Next]_vars => Inv'
<1>. SUFFICES ASSUME Inv, [Next]_vars PROVE Inv'
  OBVIOUS
<1>1. CASE UNCHANGED vars
  <2>1. TypeOK' /\ Pool'
    BY <1>1 DEF vars, Inv, TypeOK, Pool
  <2>2. Owners' /\ CachedSound' /\ StatsExact'
    BY <1>1 DEF vars, Inv, Owners, CachedSound, StatsExact
  <2>3. RefCountExact'
    BY <1>1, HoldersSame DEF vars, Inv, RefCountExact
  <2>. QED
    BY <2>1, <2>2, <2>3 DEF Inv
<1>2. ASSUME NEW r \in Request, NEW b \in Block,
             \/ AllocateBlock(r, b) \/ IncrementRef(r, b) \/ FreeBlock(r, b)
             \/ ReleaseForEviction(r, b) \/ Touch(r, b) \/ ForgetHash(r, b)
             \/ \E h \in Hash : RegisterBlockHash(r, b, h)
             \/ \E n \in Block : CowCopy(r, b, n)
      PROVE  Inv'
  BY <1>2, AllocateStep, IncrementStep, DropStep, FreeLastStep, TouchStep, ForgetStep, RegisterStep, CowStep
     DEF FreeBlock
<1>3. CASE \E h \in Hash, b \in Block : RestoreBlock(h, b)
  BY <1>3, RestoreStep
<1>4. CASE EvictLruBlock
  BY <1>4, EvictLruStep
<1>5. CASE ResetPrefixCache
  BY <1>5, ResetStep
<1>6. CASE Clear
  BY <1>6, ClearStep
<1>. QED
  BY <1>1, <1>2, <1>3, <1>4, <1>5, <1>6 DEF Next

LEMMA FreeIsExact ==
  ASSUME TypeOK, Pool
  PROVE  FreeListExact
<1>1. PICK n \in Nat : \E s \in [1 .. n -> Block] :
        /\ Spells(queue, n, s)
        /\ \A b \in Block : (\E i \in 1 .. n : s[i] = b) <=> (b < created /\ b \notin allocated)
  BY DEF Pool, FreeExactly
<1>2. PICK s \in [1 .. n -> Block] :
        /\ Spells(queue, n, s)
        /\ \A b \in Block : (\E i \in 1 .. n : s[i] = b) <=> (b < created /\ b \notin allocated)
  BY <1>1
<1>3. n <= MaxBlocks
  BY <1>2, SpelledLength DEF Spells
<1>4. n \in 0 .. MaxBlocks /\ Represents(queue, s) /\ Len(s) = n
  BY <1>2, <1>3, SpellsIsRepresents, SeqOfFunction, Nodes
<1>5. {s[i] : i \in 1 .. Len(s)} = (0 .. created - 1) \ allocated
  <2>1. \A b : b \in 0 .. created - 1 <=> b \in Block /\ b < created
    BY Nodes DEF TypeOK, Block
  <2>2. \A b : b \in {s[i] : i \in 1 .. n} <=> b \in Block /\ \E i \in 1 .. n : s[i] = b
    OBVIOUS
  <2>. QED
    BY <1>2, <1>4, <2>1, <2>2
<1>. QED
  BY <1>4, <1>5 DEF FreeListExact, FreeIs

LEMMA InvAlways == Spec => []Inv
BY InitInv, InvStep, PTL DEF Spec

(***************************************************************************)
(* No method of PagedCacheManager leaves the state it is meant to keep.    *)
(***************************************************************************)
THEOREM PagedTypeOK == Spec => []TypeOK
<1>1. Inv => TypeOK
  BY DEF Inv
<1>. QED
  BY <1>1, InvAlways, PTL

(***************************************************************************)
(* No block is lost, free twice, or free and in use: the free list is an   *)
(* intact list of exactly the created blocks that are not allocated.       *)
(***************************************************************************)
THEOREM PagedFreeListExact == Spec => []FreeListExact
<1>1. Inv => FreeListExact
  BY FreeIsExact DEF Inv
<1>. QED
  BY <1>1, InvAlways, PTL

(***************************************************************************)
(* A reference count is the number of requests that hold the block, and a  *)
(* free block is held by none.                                             *)
(***************************************************************************)
THEOREM PagedRefCountExact == Spec => []RefCountExact
<1>1. Inv => RefCountExact
  BY DEF Inv
<1>. QED
  BY <1>1, InvAlways, PTL

(***************************************************************************)
(* A lookup by hash finds an allocated block that carries that hash.       *)
(***************************************************************************)
THEOREM PagedCachedSound == Spec => []CachedSound
<1>1. Inv => CachedSound
  BY DEF Inv
<1>. QED
  BY <1>1, InvAlways, PTL

(***************************************************************************)
(* The counters of PagedCacheStats agree with the pool.                    *)
(***************************************************************************)
THEOREM PagedStatsExact == Spec => []StatsExact
<1>1. Inv => StatsExact
  BY DEF Inv
<1>. QED
  BY <1>1, InvAlways, PTL

-----------------------------------------------------------------------------
(* Who may write a block's hash.                                           *)

\* reset_prefix_cache runs only when the pool is free but for the null block.
LEMMA ResetFindsNobody ==
  ASSUME Inv, MaxBlocks - queue.num <= 1, NEW r \in Request, NEW b \in held[r]
  PROVE  FALSE
<1>1. b \in Block \ Null /\ b \in allocated
  BY HeldCounts DEF Inv, TypeOK, Owners, Null
<1>2. PICK n \in Nat : \E s \in [1 .. n -> Block] :
        /\ Spells(queue, n, s)
        /\ \A x \in Block : (\E i \in 1 .. n : s[i] = x) <=> (x < created /\ x \notin allocated)
  BY DEF Inv, Pool, FreeExactly
<1>3. PICK s \in [1 .. n -> Block] :
        /\ Spells(queue, n, s)
        /\ \A x \in Block : (\E i \in 1 .. n : s[i] = x) <=> (x < created /\ x \notin allocated)
  BY <1>2
<1>. DEFINE T == (Block \ Null) \ {b}
<1>4. s \in [1 .. n -> T]
  BY <1>1, <1>3 DEF Inv, Pool, Null
<1>5. IsFiniteSet(T) /\ Cardinality(T) = MaxBlocks - 2
  <2>1. IsFiniteSet(Block) /\ Cardinality(Block) = MaxBlocks
    BY FS_Interval, Nodes DEF Block
  <2>2. NullBlock \in Block
    BY Nodes DEF Block, NullBlock
  <2>3. IsFiniteSet(Block \ Null) /\ Cardinality(Block \ Null) = MaxBlocks - 1
    BY <2>1, <2>2, FS_RemoveElement DEF Null
  <2>4. IsFiniteSet((Block \ Null) \ {b}) /\ Cardinality((Block \ Null) \ {b}) = Cardinality(Block \ Null) - 1
    BY <1>1, <2>3, FS_RemoveElement
  <2>5. Cardinality(Block \ Null) - 1 = MaxBlocks - 2
    BY <2>3, Nodes
  <2>. QED
    BY <2>4, <2>5
<1>6. IsFiniteSet(1 .. n) /\ Cardinality(1 .. n) = n
  BY FS_Interval
<1>7. Cardinality(T) < Cardinality(1 .. n)
  <2>1. queue.num = n
    BY <1>3 DEF Spells
  <2>. QED
    BY <1>5, <1>6, <2>1, Nodes
<1>8. \E i, j \in 1 .. n : i # j /\ s[i] = s[j]
  BY <1>4, <1>5, <1>6, <1>7, FS_PigeonHole
<1>. QED
  BY <1>3, <1>8 DEF Spells

SoleWrite ==
  \A r \in Request : \A b \in held[r] \cap held'[r] :
    block_hash'[b] # block_hash[b] => Holders(b) = {r} /\ b \in fresh

\* An allocation writes the hash of a block that nobody held.
LEMMA SoleWriteOfTaken ==
  ASSUME Inv, NEW n \in Block, TakeBlock(n), NEW v, block_hash' = [block_hash EXCEPT ![n] = v]
  PROVE  SoleWrite
<1>1. \A r \in Request : n \notin held[r]
  BY Taken
<1>. QED
  BY <1>1 DEF Inv, TypeOK, SoleWrite

LEMMA SoleWriteStep ==
  ASSUME Inv, [Next]_vars
  PROVE  SoleWrite
<1>1. CASE block_hash' = block_hash
  BY <1>1 DEF SoleWrite
<1>2. ASSUME NEW r \in Request, NEW b \in Block, AllocateBlock(r, b) PROVE SoleWrite
  BY <1>2, SoleWriteOfTaken DEF AllocateBlock
<1>3. ASSUME NEW h \in Hash, NEW b \in Block, RestoreBlock(h, b) PROVE SoleWrite
  BY <1>3, SoleWriteOfTaken DEF RestoreBlock
<1>4. ASSUME NEW r \in Request, NEW b \in Block, NEW n \in Block, CowCopy(r, b, n) PROVE SoleWrite
  BY <1>4, SoleWriteOfTaken DEF CowCopy
<1>5. ASSUME NEW r \in Request, NEW b \in Block, NEW h \in Hash, RegisterBlockHash(r, b, h) PROVE SoleWrite
  <2>1. /\ b \in held[r] /\ b \in fresh /\ block_hash' = [block_hash EXCEPT ![b] = h]
    BY <1>5 DEF RegisterBlockHash
  <2>2. \A x \in Request : b \in held[x] => x = r
    BY <2>1 DEF Inv, Owners
  <2>3. Holders(b) = {r}
    BY <2>1, <2>2 DEF Holders
  <2>4. \A c \in Block : c # b => block_hash'[c] = block_hash[c]
    BY <2>1 DEF Inv, TypeOK
  <2>5. \A x \in Request : held[x] \subseteq Block
    BY DEF Inv, TypeOK
  <2>. QED
    BY <2>1, <2>2, <2>3, <2>4, <2>5 DEF SoleWrite
<1>6. CASE EvictLruBlock
  BY <1>1, <1>6, EvictLruStep
<1>7. CASE ResetPrefixCache
  BY <1>7, ResetFindsNobody DEF ResetPrefixCache, SoleWrite
<1>8. CASE Clear
  BY <1>8 DEF Clear, SoleWrite
<1>9. CASE UNCHANGED vars
  BY <1>1, <1>9 DEF vars
<1>10. ASSUME NEW r \in Request, NEW b \in Block,
              \/ IncrementRef(r, b) \/ FreeBlock(r, b) \/ ReleaseForEviction(r, b)
              \/ Touch(r, b) \/ ForgetHash(r, b)
       PROVE  SoleWrite
  BY <1>1, <1>10 DEF IncrementRef, FreeBlock, FreeShared, FreeLast, ReleaseForEviction, Touch, ForgetHash
<1>. QED
  BY <1>2, <1>3, <1>4, <1>5, <1>6, <1>7, <1>8, <1>9, <1>10 DEF Next

(***************************************************************************)
(* What a request's table points to does not change under it: the hash of  *)
(* a held block is written only by its sole holder, before it is found.    *)
(***************************************************************************)
THEOREM PagedWrittenBySoleHolder == Spec => WrittenBySoleHolder
<1>1. Inv /\ [Next]_vars => [SoleWrite]_vars
  BY SoleWriteStep
<1>. QED
  BY <1>1, InvAlways, PTL DEF Spec, WrittenBySoleHolder, SoleWrite
=============================================================================
