---------------------------- MODULE AbsFreeQueue ----------------------------
(***************************************************************************)
(* What FreeKVCacheBlockQueue promises its owner: a sequence of distinct   *)
(* blocks, least recently freed first, from which blocks are taken at the  *)
(* front or anywhere by name, and to which they return at the back.        *)
(***************************************************************************)
EXTENDS Integers, Sequences

CONSTANTS MaxBlocks, InitialBlocks
VARIABLE free

InFree(b) == \E i \in DOMAIN free : free[i] = b

Init == free = [i \in 1 .. InitialBlocks |-> i - 1]

Take(n) == n <= Len(free) /\ free' = SubSeq(free, n + 1, Len(free))

TakeOut(b) == \E k \in DOMAIN free :
    free[k] = b /\ free' = SubSeq(free, 1, k - 1) \o SubSeq(free, k + 1, Len(free))

Return(b) == ~InFree(b) /\ free' = Append(free, b)

ReturnRange(lo, hi) ==
  /\ \A b \in lo .. hi : ~InFree(b)
  /\ free' = free \o [i \in 1 .. hi - lo + 1 |-> lo + i - 1]

Next ==
  \/ \E n \in 1 .. MaxBlocks : Take(n)
  \/ \E b \in 0 .. MaxBlocks - 1 : TakeOut(b) \/ Return(b)
  \/ \E lo, hi \in 0 .. MaxBlocks - 1 : lo <= hi /\ ReturnRange(lo, hi)

Spec == Init /\ [][Next]_free
=============================================================================
