--------------------------- MODULE FreeBlockQueue ---------------------------
(***************************************************************************)
(* FreeKVCacheBlockQueue of omlx/cache/paged_cache.py: the doubly linked   *)
(* list of free KV-cache blocks, with its two sentinels and its separate   *)
(* element counter.  The methods are operators on a queue value (the       *)
(* pointers and the counter), because PagedCache calls several of them     *)
(* inside one locked region; the actions below are the single calls.       *)
(***************************************************************************)
EXTENDS Integers, Sequences

CONSTANTS
  MaxBlocks,      \* the largest number of CacheBlock objects
  InitialBlocks,  \* blocks the queue is built with
  None            \* Python's None in a pointer field

Block    == 0 .. MaxBlocks - 1
FakeHead == -1       \* fake_head, block_id = -1
FakeTail == -2       \* fake_tail, block_id = -2
Node     == Block \cup {FakeHead, FakeTail}

ASSUME QueueAssumption ==
  /\ MaxBlocks \in Nat \ {0}
  /\ InitialBlocks \in 1 .. MaxBlocks
  /\ None \notin Node

VARIABLE queue    \* the pointers next_free_block and prev_free_block of every
                  \* node, and num_free_blocks

Queue == [next: [Node -> Node \cup {None}],
          prev: [Node -> Node \cup {None}],
          num:  Int]

Linked(q, b) == q.next[b] # None

-----------------------------------------------------------------------------
(* The methods, as functions from queue to queue.                          *)

\* __init__: blocks 0 .. n-1 linked in the order of their ids.
NewQueue(n) ==
  [next |-> [x \in Node |-> IF x = FakeHead THEN 0
                            ELSE IF x \in 0 .. n - 2 THEN x + 1
                            ELSE IF x = n - 1 THEN FakeTail ELSE None],
   prev |-> [x \in Node |-> IF x = FakeTail THEN n - 1
                            ELSE IF x = 0 THEN FakeHead
                            ELSE IF x \in 1 .. n - 1 THEN x - 1 ELSE None],
   num  |-> n]

IsEmpty(q) == q.next[FakeHead] = FakeTail

First(q) == q.next[FakeHead]

\* Mutant: the new first block keeps its pointer to the block popped.
PopLeft_StalePrev(q) ==
  LET block == First(q)
      succ  == q.next[block]
  IN  [next |-> [q.next EXCEPT ![FakeHead] = succ, ![block] = None],
       prev |-> [q.prev EXCEPT ![block] = None],
       num  |-> q.num - 1]

PopLeft(q) ==
  LET block == First(q)
      succ  == q.next[block]
  IN  [next |-> [q.next EXCEPT ![FakeHead] = succ, ![block] = None],
       prev |-> [q.prev EXCEPT ![succ] = FakeHead, ![block] = None],
       num  |-> q.num - 1]

\* The first n nodes, in list order, as the loop of popleft_n collects them.
IsFront(q, s) ==
  \A i \in DOMAIN s : s[i] = IF i = 1 THEN First(q) ELSE q.next[s[i - 1]]

PopLeftN(q, s) ==
  LET rest    == IF s = << >> THEN First(q) ELSE q.next[s[Len(s)]]
      popped  == {s[i] : i \in DOMAIN s}
  IN  [next |-> [x \in Node |-> IF x \in popped THEN None
                                ELSE IF x = FakeHead THEN rest ELSE q.next[x]],
       prev |-> [x \in Node |-> IF x \in popped THEN None
                                ELSE IF x = rest THEN FakeHead ELSE q.prev[x]],
       num  |-> q.num - Len(s)]

Remove(q, b) ==
  LET before == q.prev[b]
      after  == q.next[b]
  IN  [next |-> [q.next EXCEPT ![before] = after, ![b] = None],
       prev |-> [q.prev EXCEPT ![after] = before, ![b] = None],
       num  |-> q.num - 1]

\* Mutant: the new block is linked behind the sentinel but not before it.
AppendBlock_NoTailPrev(q, b) ==
  LET last == q.prev[FakeTail]
  IN  [next |-> [q.next EXCEPT ![last] = b, ![b] = FakeTail],
       prev |-> [q.prev EXCEPT ![b] = last],
       num  |-> q.num + 1]

\* The four assignments in the order of the code: a block that is already in
\* the list is linked a second time.
AppendBlock(q, b) ==
  LET last == q.prev[FakeTail]
  IN  [next |-> [q.next EXCEPT ![last] = b, ![b] = FakeTail],
       prev |-> [q.prev EXCEPT ![b] = last, ![FakeTail] = b],
       num  |-> q.num + 1]

\* append_n of the blocks lo .. hi, which _grow_blocks has just created.
AppendRange(q, lo, hi) ==
  LET last == q.prev[FakeTail]
  IN  IF hi < lo THEN q ELSE
      [next |-> [x \in Node |-> IF x = last THEN lo
                                ELSE IF x \in lo .. hi - 1 THEN x + 1
                                ELSE IF x = hi THEN FakeTail ELSE q.next[x]],
       prev |-> [x \in Node |-> IF x = FakeTail THEN hi
                                ELSE IF x = lo THEN last
                                ELSE IF x \in lo + 1 .. hi THEN x - 1
                                ELSE q.prev[x]],
       num  |-> q.num + (hi - lo + 1)]

-----------------------------------------------------------------------------
(* The queue on its own.  Its owner appends only a block it has taken out: *)
(* the contract PagedCache is checked against.                             *)

QueueInit == queue = NewQueue(InitialBlocks)

PopLeftStep == /\ ~IsEmpty(queue)
               /\ queue' = PopLeft(queue)

\* The assertion of popleft_n compares with the counter, not with the list.
PopLeftNStep(n) ==
  /\ n <= queue.num
  /\ \E s \in [1 .. n -> Block] : IsFront(queue, s) /\ queue' = PopLeftN(queue, s)

RemoveStep(b) ==
  /\ queue.prev[b] # None
  /\ queue.next[b] # None
  /\ queue' = Remove(queue, b)

AppendStep(b) == /\ ~Linked(queue, b)
                 /\ queue' = AppendBlock(queue, b)

AppendRangeStep(lo, hi) ==
  /\ lo <= hi
  /\ \A b \in lo .. hi : ~Linked(queue, b)
  /\ queue' = AppendRange(queue, lo, hi)

QueueNext ==
  \/ PopLeftStep
  \/ \E n \in 1 .. MaxBlocks : PopLeftNStep(n)
  \/ \E b \in Block : RemoveStep(b)
  \/ \E b \in Block : AppendStep(b)
  \/ \E lo, hi \in Block : AppendRangeStep(lo, hi)

QueueSpec == QueueInit /\ [][QueueNext]_queue

-----------------------------------------------------------------------------
QueueTypeOK == queue \in Queue

(***************************************************************************)
(* The pointers represent the sequence s: following next from the head     *)
(* visits s and then the tail, prev retraces it, the counter is its        *)
(* length, and no other block has a pointer.                               *)
(***************************************************************************)
Represents(q, s) ==
  /\ q.num = Len(s)
  /\ \A i, j \in 1 .. Len(s) : s[i] = s[j] => i = j
  /\ q.next[FakeHead]  = IF s = << >> THEN FakeTail ELSE s[1]
  /\ q.prev[FakeTail] = IF s = << >> THEN FakeHead ELSE s[Len(s)]
  /\ q.next[FakeTail] = None
  /\ q.prev[FakeHead]  = None
  /\ \A i \in 1 .. Len(s) :
       /\ q.next[s[i]] = IF i = Len(s) THEN FakeTail ELSE s[i + 1]
       /\ q.prev[s[i]] = IF i = 1 THEN FakeHead ELSE s[i - 1]
  /\ \A b \in Block :
       (\A i \in 1 .. Len(s) : s[i] # b) => q.next[b] = None /\ q.prev[b] = None

(***************************************************************************)
(* The list is never broken, whatever order of popleft, popleft_n, remove, *)
(* append and append_n leads to it: some sequence of blocks without        *)
(* repetition is exactly what the pointers hold.                           *)
(***************************************************************************)
ListIntact == \E n \in 0 .. MaxBlocks : \E s \in [1 .. n -> Block] : Represents(queue, s)

(***************************************************************************)
(* The blocks in the order of the list: walk[n] are the first n, read off  *)
(* by following next from the head as far as the counter says.             *)
(***************************************************************************)
Walk(q) ==
  LET walk[n \in 0 .. MaxBlocks] ==
        IF n = 0 THEN << >>
        ELSE IF n > q.num THEN walk[n - 1]
        ELSE Append(walk[n - 1], IF n = 1 THEN First(q) ELSE q.next[walk[n - 1][n - 1]])
  IN  walk

Order(q) == Walk(q)[MaxBlocks]

(***************************************************************************)
(* The linked list implements the abstract free list: each method is one   *)
(* abstract operation on the sequence that the pointers spell out.         *)
(***************************************************************************)
Abs == INSTANCE AbsFreeQueue WITH free <- Order(queue)
ImplementsAbs == Abs!Spec
=============================================================================
