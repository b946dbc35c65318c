---------------------- MODULE BoundarySnapshotsProofs ----------------------
(***************************************************************************)
(* SnapshotsSound holds for any requests, engines, sizes of blocks and     *)
(* chunks, disk errors and restarts.                                       *)
(*                                                                         *)
(* SnapInv adds where requests and the executor are (Places), that a       *)
(* prefill has captured every boundary up to where it is (Captured), and   *)
(* what makes a mark worth something: nothing is written twice in the      *)
(* first attempt of a request (FirstWrites), and otherwise a snapshot      *)
(* that is no longer buffered has a file, which a late write of an earlier *)
(* attempt replaces but does not remove (Findable).                        *)
(***************************************************************************)
EXTENDS BoundarySnapshots, TLAPS

OwnKeys(e) == {k \in Keys : EngineOf[k[1]] = e}
Item == [key : Keys, val : Snapshot]
Working == {"write", "rename", "finish", "dying"}

RequestTypes ==
    /\ up \in [Engines -> BOOLEAN]
    /\ phase \in [Requests -> {"new", "waiting", "prefill", "decode", "gone"}]
    /\ base \in [Requests -> Nat] /\ length \in [Requests -> Nat] /\ done \in [Requests -> Nat]
    /\ made \in [Requests -> Nat] /\ attempt \in [Requests -> Nat]
    /\ executor = None \/ executor \in [req : Requests, at : {"chunk", "check"}]

StoreTypes ==
    /\ faults \in Nat
    /\ DOMAIN marks = Requests
    /\ \A r \in Requests : \A tc \in DOMAIN marks[r] :
         tc \in Nat /\ marks[r][tc] \in Snapshot \cup {None}
    /\ DOMAIN pending = Engines
    /\ \A e \in Engines : \A k \in DOMAIN pending[e] :
         k \in OwnKeys(e) /\ pending[e][k] \in Snapshot
    /\ queue \in [Engines -> Seq(Item)]
    /\ \A e \in Engines : \A i \in 1..Len(queue[e]) : queue[e][i].key \in OwnKeys(e)
    /\ DOMAIN writer = Engines
    /\ \A e \in Engines :
         \/ writer[e] \in [at : {"idle", "dead"}]
         \/ writer[e] \in [at : Working, item : Item] /\ writer[e].item.key \in OwnKeys(e)
    /\ \A k \in DOMAIN files : k \in Keys /\ files[k] \in Snapshot

\* A request that lives has an engine and a prompt, one that waits has no
\* snapshots, and the executor is at the one that is prefilled, if any.
Places ==
    /\ \A r \in Requests :
         /\ Live(r) => up[EngineOf[r]] /\ length[r] > 0 /\ attempt[r] > 0
         /\ phase[r] = "new" => attempt[r] = 0
         /\ phase[r] \in {"new", "waiting"} => DOMAIN marks[r] = {}
         /\ phase[r] \in {"new", "waiting", "prefill"} => made[r] = 0
         /\ phase[r] = "prefill" => executor # None /\ executor.req = r
    /\ executor # None =>
         /\ phase[executor.req] \in {"prefill", "gone"}
         /\ done[executor.req] < length[executor.req]

BoundariesIn(lo, hi) == {tc \in (lo + 1)..hi : tc % BlockSize = 0}

Captured ==
    \A r \in Requests :
        /\ phase[r] = "prefill" => DOMAIN marks[r] = BoundariesIn(base[r], base[r] + done[r])
        /\ phase[r] = "decode" => DOMAIN marks[r] = BoundariesIn(base[r], Prompt(r) + made[r])

WriterHas(e, k) == writer[e].at \in Working /\ writer[e].item.key = k

Awaits(q, k) == \E i \in 1..Len(q) : q[i].key = k
Once(q, k) == \A i, j \in 1..Len(q) : q[i].key = k /\ q[j].key = k => i = j

\* In its first attempt a request has every token count saved once, and what
\* is still to be written is still buffered.
FirstWrite(r, tc) ==
    LET k == <<r, tc>>  e == EngineOf[r] IN
    /\ Once(queue[e], k)
    /\ ~(Awaits(queue[e], k) /\ WriterHas(e, k))
    /\ Awaits(queue[e], k) \/ WriterHas(e, k) => tc \in DOMAIN marks[r] /\ k \in DOMAIN pending[e]

FirstWrites ==
    \A r \in Requests : attempt[r] <= 1 /\ phase[r] # "gone" => \A tc \in Nat : FirstWrite(r, tc)

Excused(r, tc) == <<r, tc>> \in swept \/ (attempt[r] > 1 /\ faults > 0)

\* A file whose key is being written again has its temporary file: the rename
\* will succeed.
OnDisk(e, k) ==
    /\ k \in DOMAIN files
    /\ writer[e].at = "rename" /\ writer[e].item.key = k => k \in temps

Findable ==
    \A r \in Requests : phase[r] \in {"prefill", "decode"} =>
        \A tc \in DOMAIN marks[r] : marks[r][tc] = None =>
            \/ <<r, tc>> \in DOMAIN pending[EngineOf[r]]
            \/ OnDisk(EngineOf[r], <<r, tc>>)
            \/ Excused(r, tc)

SnapInv ==
    /\ RequestTypes /\ StoreTypes /\ Places /\ Captured /\ SnapshotsExact /\ BufferIsMarked
    /\ FirstWrites /\ Findable

-----------------------------------------------------------------------------
(* Multiples of the block size.                                            *)

\* A multiple above n is at least one block above the one at or below n.
LEMMA NextMultiple ==
  ASSUME NEW b \in Nat \ {0}, NEW n \in Nat, NEW m \in Nat, m % b = 0, m > n
  PROVE  m >= (n \div b + 1) * b
<1> DEFINE p == n \div b
           q == m \div b
<1>1. p \in Nat /\ q \in Nat
  OBVIOUS
<1>2. n = b * p + (n % b) /\ n % b >= 0 /\ n % b < b
  OBVIOUS
<1>3. m = b * q
  OBVIOUS
<1> HIDE DEF p, q
<1>4. ASSUME q <= p PROVE FALSE
  <2>1. b * q <= b * p
    BY <1>1, <1>4
  <2> QED BY <1>1, <1>2, <1>3, <2>1
<1>5. q >= p + 1
  BY <1>1, <1>4
<1>6. b * q >= b * (p + 1)
  BY <1>1, <1>5
<1>7. b * (p + 1) = (p + 1) * b
  BY <1>1
<1> QED BY <1>1, <1>3, <1>6, <1>7 DEF p

\* The multiple at or below n.
LEMMA MultipleBelow ==
  ASSUME NEW b \in Nat \ {0}, NEW n \in Nat
  PROVE  /\ n \div b \in Nat /\ (n \div b) * b \in Nat
         /\ (n \div b) * b <= n /\ n < (n \div b + 1) * b
         /\ (n \div b + 1) * b = (n \div b) * b + b
<1> DEFINE p == n \div b
<1>1. p \in Nat
  OBVIOUS
<1>2. n = b * p + (n % b) /\ n % b >= 0 /\ n % b < b
  OBVIOUS
<1> HIDE DEF p
<1>3. b * p = p * b /\ (p + 1) * b = p * b + b /\ p * b \in Nat
  BY <1>1
<1> QED BY <1>1, <1>2, <1>3 DEF p

\* The multiples of b around n.
LEMMA MultiplesAround ==
  ASSUME NEW b \in Nat \ {0}, NEW n \in Nat
  PROVE  \E low \in Nat :
           /\ low = (n \div b) * b /\ (n \div b + 1) * b = low + b
           /\ low <= n /\ n < low + b
           /\ \A m \in Nat : m % b = 0 /\ m > low => m >= low + b
<1>1. PICK low \in Nat : low = (n \div b) * b
  BY MultipleBelow
<1>2. (n \div b + 1) * b = low + b /\ low <= n /\ n < low + b
  BY <1>1, MultipleBelow
<1>3. ASSUME NEW m \in Nat, m % b = 0, m > low PROVE m >= low + b
  <2>1. CASE m > n
    BY <1>2, <1>3, <2>1, NextMultiple
  <2>2. CASE m <= n
    <3>1. PICK mid \in Nat : mid = (m \div b) * b
      BY MultipleBelow
    <3>2. m = mid
      BY <1>3, <3>1
    <3>3. PICK p \in Nat, q \in Nat : p = n \div b /\ q = m \div b
      OBVIOUS
    <3>4. q * b > p * b /\ q * b < (p + 1) * b
      BY <1>1, <1>2, <1>3, <2>2, <3>1, <3>2, <3>3
    <3>5. CASE q <= p
      <4>1. q * b <= p * b
        BY <3>3, <3>5
      <4>2. q * b \in Nat /\ p * b \in Nat
        OBVIOUS
      <4> QED BY <3>4, <4>1, <4>2
    <3>6. CASE q >= p + 1
      <4>1. q * b >= (p + 1) * b
        BY <3>3, <3>6
      <4>2. q * b \in Nat /\ (p + 1) * b \in Nat
        OBVIOUS
      <4> QED BY <3>4, <4>1, <4>2
    <3> QED BY <3>5, <3>6
  <2> QED BY <2>1, <2>2
<1> QED BY <1>1, <1>2, <1>3

\* A chunk makes progress, leaves the last token, and jumps over no boundary.
LEMMA NextStepStops ==
  ASSUME RequestTypes, NEW r \in Requests, length[r] - done[r] > 1
  PROVE  /\ NextStep(r) \in Nat /\ NextStep(r) >= 1
         /\ done[r] + NextStep(r) <= length[r] - 1
         /\ \A tc \in Nat : base[r] + done[r] < tc /\ tc < base[r] + done[r] + NextStep(r) =>
              tc % BlockSize # 0
<1>0. /\ base[r] \in Nat /\ done[r] \in Nat /\ length[r] \in Nat
      /\ StepSize \in Nat \ {0} /\ BlockSize \in Nat \ {0}
  BY SnapshotAssumption DEF RequestTypes
<1>1a. /\ base[r] + done[r] \in Nat /\ length[r] - 1 - done[r] \in Nat
       /\ length[r] - 1 - done[r] >= 1 /\ Prompt(r) \in Nat
       /\ Prompt(r) = base[r] + done[r] + (length[r] - 1 - done[r]) + 1
  BY <1>0 DEF Prompt
<1>1. PICK total \in Nat, last \in Nat :
        /\ total = base[r] + done[r] /\ last = length[r] - 1 - done[r]
        /\ base[r] \in Nat /\ done[r] \in Nat /\ length[r] \in Nat
        /\ last >= 1 /\ StepSize \in Nat \ {0} /\ BlockSize \in Nat \ {0} /\ Prompt(r) \in Nat
        /\ Prompt(r) = total + last + 1
  BY <1>0, <1>1a, Zenon
<1>2. PICK low \in Nat :
        /\ (total \div BlockSize + 1) * BlockSize = low + BlockSize
        /\ low <= total /\ total < low + BlockSize
        /\ \A m \in Nat : m % BlockSize = 0 /\ m > low => m >= low + BlockSize
  BY <1>1, MultiplesAround
<1>3. PICK target \in Nat :
        /\ TargetBoundary(r) = target
        /\ target <= Prompt(r) /\ Prompt(r) < target + BlockSize
        /\ \A m \in Nat : m % BlockSize = 0 /\ m > target => m >= target + BlockSize
  BY <1>1, MultiplesAround DEF TargetBoundary
<1>4. base[r] + Least(done[r], length[r] - 1) = total
  BY <1>1 DEF Least
<1>5. PICK delta \in Int : delta = Least(low + BlockSize, target) - base[r] - done[r]
  BY <1>1 DEF Least
<1>6. PICK allowed \in Nat :
        allowed = Least(StepSize, length[r] - 1 - done[r]) /\ allowed >= 1 /\ allowed <= last
  BY <1>1 DEF Least
<1>7. NextStep(r) = IF target > base[r] /\ total < target /\ delta > 0
                    THEN Most(1, Least(allowed, delta)) ELSE Most(1, allowed)
  BY <1>2, <1>3, <1>4, <1>5, <1>6 DEF NextStep, HasTarget
<1>8. CASE target > base[r] /\ total < target
  <2>1. NextStep(r) \in Nat /\ NextStep(r) >= 1 /\ NextStep(r) <= last
    BY <1>1, <1>5, <1>6, <1>7, <1>8 DEF Least, Most
  <2>2. delta > 0 /\ delta <= low + BlockSize - total
    BY <1>1, <1>2, <1>5, <1>8 DEF Least
  <2>3. total + NextStep(r) <= low + BlockSize
    BY <1>1, <1>2, <1>6, <1>7, <1>8, <2>2 DEF Least, Most
  <2> QED BY <1>1, <1>2, <2>1, <2>3
<1>9. CASE ~(target > base[r] /\ total < target)
  <2>1. NextStep(r) \in Nat /\ NextStep(r) >= 1 /\ NextStep(r) <= last
    BY <1>1, <1>6, <1>7, <1>9 DEF Most
  <2>2. target <= total
    BY <1>1, <1>3, <1>9
  <2> QED BY <1>1, <1>3, <2>1, <2>2
<1> QED BY <1>8, <1>9

\* From one boundary to the next there is none.
LEMMA BoundariesGrow ==
  ASSUME NEW lo \in Nat, NEW a \in Nat, NEW b \in Nat, lo <= a, a < b,
         \A tc \in Nat : a < tc /\ tc < b => tc % BlockSize # 0
  PROVE  /\ b % BlockSize = 0 => BoundariesIn(lo, b) = BoundariesIn(lo, a) \cup {b}
         /\ b % BlockSize # 0 => BoundariesIn(lo, b) = BoundariesIn(lo, a)
         /\ b \notin BoundariesIn(lo, a)
  BY DEF BoundariesIn

-----------------------------------------------------------------------------
(* What is done to a function, the queue and the keys.                     *)

LEMMA PutFacts ==
  ASSUME NEW f, NEW k, NEW v
  PROVE  /\ DOMAIN Put(f, k, v) = DOMAIN f \cup {k}
         /\ Put(f, k, v)[k] = v
         /\ \A x \in DOMAIN f \ {k} : Put(f, k, v)[x] = f[x]
  BY DEF Put

LEMMA DropFacts ==
  ASSUME NEW f, NEW ks
  PROVE  /\ DOMAIN Drop(f, ks) = DOMAIN f \ ks
         /\ \A x \in DOMAIN f \ ks : Drop(f, ks)[x] = f[x]
  BY DEF Drop

\* A key belongs to one engine.
LEMMA KeyFacts ==
  ASSUME NEW r \in Requests, NEW tc \in Nat
  PROVE  /\ <<r, tc>> \in OwnKeys(EngineOf[r]) /\ EngineOf[r] \in Engines
         /\ \A e \in Engines : <<r, tc>> \in OwnKeys(e) => e = EngineOf[r]
  BY SnapshotAssumption DEF OwnKeys, Keys

\* q is p with an item of key k behind it.
Extended(p, q, k) ==
    /\ Len(p) \in Nat /\ Len(q) = Len(p) + 1
    /\ \A i \in 1..Len(p) : q[i] = p[i]
    /\ q[Len(p) + 1].key = k

\* An item more at the end, or one less at the front.
LEMMA AppendedItem ==
  ASSUME NEW p, NEW q, NEW j, NEW k, Extended(p, q, j)
  PROVE  /\ j # k => (Awaits(q, k) <=> Awaits(p, k)) /\ (Once(q, k) <=> Once(p, k))
         /\ j = k /\ ~Awaits(p, k) => Once(q, k)
  BY DEF Awaits, Once, Extended

LEMMA TakenItem ==
  ASSUME NEW q \in Seq(Item), q # << >>, NEW k
  PROVE  /\ Awaits(Tail(q), k) => Awaits(q, k)
         /\ Once(q, k) => Once(Tail(q), k)
         /\ Head(q).key = k => Awaits(q, k)
         /\ Once(q, k) /\ Head(q).key = k => ~Awaits(Tail(q), k)
<1>1. /\ Len(q) \in Nat /\ Len(q) >= 1 /\ Len(Tail(q)) = Len(q) - 1 /\ Head(q) = q[1]
      /\ \A i \in 1..Len(Tail(q)) : Tail(q)[i] = q[i + 1]
  OBVIOUS
<1> QED BY <1>1 DEF Awaits, Once

\* What save() does to the buffer and the write queue.
LEMMA SaveEffect ==
  ASSUME StoreTypes, NEW r \in Requests, NEW tc \in Nat, NEW s \in Snapshot, Save(r, tc, s)
  PROVE  /\ DOMAIN pending' = Engines /\ queue' \in [Engines -> Seq(Item)]
         /\ writer' = writer /\ files' = files /\ temps' = temps
         /\ pending'[EngineOf[r]] = Put(pending[EngineOf[r]], <<r, tc>>, s)
         /\ \A e \in Engines : e # EngineOf[r] => pending'[e] = pending[e] /\ queue'[e] = queue[e]
         /\ \/ queue'[EngineOf[r]] = queue[EngineOf[r]]
            \/ /\ Len(queue'[EngineOf[r]]) = Len(queue[EngineOf[r]]) + 1
               /\ \A i \in 1..Len(queue[EngineOf[r]]) : queue'[EngineOf[r]][i] = queue[EngineOf[r]][i]
               /\ queue'[EngineOf[r]][Len(queue[EngineOf[r]]) + 1] = [key |-> <<r, tc>>, val |-> s]
<1> DEFINE e == EngineOf[r]
           x == [key |-> <<r, tc>>, val |-> s]
<1>1. e \in Engines /\ x \in Item /\ queue[e] \in Seq(Item)
  BY KeyFacts DEF Item, Keys, StoreTypes
<1>2. queue' = queue \/ queue' = [queue EXCEPT ![e] = Append(queue[e], x)]
  BY DEF Save
<1>3. pending' = [pending EXCEPT ![e] = Put(pending[e], <<r, tc>>, s)]
      /\ writer' = writer /\ files' = files /\ temps' = temps
  BY DEF Save
<1> HIDE DEF e, x
<1>4. Append(queue[e], x) \in Seq(Item) /\ Len(Append(queue[e], x)) = Len(queue[e]) + 1
      /\ Append(queue[e], x)[Len(queue[e]) + 1] = x
      /\ \A i \in 1..Len(queue[e]) : Append(queue[e], x)[i] = queue[e][i]
  BY <1>1
<1>5. /\ DOMAIN pending' = Engines /\ pending'[e] = Put(pending[e], <<r, tc>>, s)
      /\ \A d \in Engines : d # e => pending'[d] = pending[d]
  BY <1>1, <1>3 DEF StoreTypes
<1>6. /\ queue' \in [Engines -> Seq(Item)] /\ \A d \in Engines : d # e => queue'[d] = queue[d]
      /\ queue'[e] = queue[e] \/ queue'[e] = Append(queue[e], x)
  BY <1>1, <1>2, <1>4 DEF StoreTypes
<1> QED BY <1>3, <1>4, <1>5, <1>6 DEF e, x

\* A snapshot of a token count that has none is saved, or kept by the scheduler.
LEMMA CaptureKeeps ==
  ASSUME SnapInv, NEW r \in Requests, NEW tc \in Nat, tc \notin DOMAIN marks[r],
         phase[r] \in {"prefill", "decode"},
         Capture(r, tc, StateAfter(r, tc)), UNCHANGED <<up, attempt, swept>>,
         \A q \in Requests : q # r => phase'[q] = phase[q],
         phase'[r] \in {"prefill", "decode"}
  PROVE  /\ StoreTypes' /\ SnapshotsExact' /\ BufferIsMarked' /\ FirstWrites' /\ Findable'
         /\ DOMAIN marks'[r] = DOMAIN marks[r] \cup {tc}
         /\ \A q \in Requests : q # r => marks'[q] = marks[q]
<1> DEFINE s == StateAfter(r, tc)
           e == EngineOf[r]
           k == <<r, tc>>
<1>0. /\ RequestTypes /\ StoreTypes /\ Places
      /\ SnapshotsExact /\ BufferIsMarked /\ FirstWrites /\ Findable
  BY DEF SnapInv
<1>1. s \in Snapshot /\ s.req = r /\ s.tokens = tc /\ s.attempt = attempt[r] /\ s # None
  BY <1>0, SnapshotAssumption DEF RequestTypes, StateAfter, Snapshot
<1>2. \/ marks' = [marks EXCEPT ![r] = Put(marks[r], tc, None)] /\ Save(r, tc, s) /\ faults' = faults
      \/ marks' = [marks EXCEPT ![r] = Put(marks[r], tc, s)] /\ faults' = faults + 1 /\ UNCHANGED storeVars
  BY DEF Capture
<1>3. PICK m \in {None, s} :
        /\ marks' = [marks EXCEPT ![r] = Put(marks[r], tc, m)]
        /\ m = None => Save(r, tc, s) /\ faults' = faults
        /\ m = s => faults' = faults + 1 /\ UNCHANGED storeVars
  <2> HIDE DEF s
  <2> QED BY <1>1, <1>2, Zenon
<1>4. /\ DOMAIN marks' = Requests /\ DOMAIN marks'[r] = DOMAIN marks[r] \cup {tc}
      /\ marks'[r][tc] = m
      /\ \A t \in DOMAIN marks[r] : marks'[r][t] = marks[r][t]
      /\ \A q \in Requests : q # r => marks'[q] = marks[q]
  <2> DEFINE f == Put(marks[r], tc, m)
  <2>1. DOMAIN f = DOMAIN marks[r] \cup {tc} /\ f[tc] = m /\ \A t \in DOMAIN marks[r] \ {tc} : f[t] = marks[r][t]
    BY DEF Put
  <2>2. marks' = [marks EXCEPT ![r] = f] /\ DOMAIN marks = Requests
    BY <1>0, <1>3 DEF StoreTypes
  <2> HIDE DEF f, s
  <2> QED BY <2>1, <2>2
<1>5. e \in Engines /\ k \in OwnKeys(e) /\ k[1] = r /\ k[2] = tc
  BY KeyFacts
<1>6. /\ writer' = writer /\ files' = files /\ temps' = temps
      /\ faults' \in Nat /\ faults' >= faults
      /\ DOMAIN pending' = Engines /\ queue' \in [Engines -> Seq(Item)]
      /\ \A d \in Engines : d # e => pending'[d] = pending[d] /\ queue'[d] = queue[d]
  <2>1. CASE m = None
    <3>1. Save(r, tc, s) /\ faults' = faults
      BY <1>3, <2>1
    <3> HIDE DEF s
    <3>2. /\ writer' = writer /\ files' = files /\ temps' = temps
          /\ DOMAIN pending' = Engines /\ queue' \in [Engines -> Seq(Item)]
          /\ \A d \in Engines : d # e => pending'[d] = pending[d] /\ queue'[d] = queue[d]
      BY <1>0, <1>1, <3>1, SaveEffect
    <3> QED BY <1>0, <3>1, <3>2 DEF StoreTypes
  <2>2. CASE m = s
    <3>1. faults' = faults + 1 /\ UNCHANGED storeVars
      BY <1>3, <2>2
    <3> QED BY <1>0, <3>1 DEF storeVars, StoreTypes
  <2> QED BY <1>3, <2>1, <2>2
<1>7. \/ pending'[e] = pending[e] /\ queue'[e] = queue[e] /\ m # None
      \/ /\ m = None
         /\ DOMAIN pending'[e] = DOMAIN pending[e] \cup {k} /\ pending'[e][k] = s
         /\ \A x \in DOMAIN pending[e] \ {k} : pending'[e][x] = pending[e][x]
         /\ \/ queue'[e] = queue[e]
            \/ /\ Len(queue'[e]) = Len(queue[e]) + 1
               /\ \A i \in 1..Len(queue[e]) : queue'[e][i] = queue[e][i]
               /\ queue'[e][Len(queue[e]) + 1] = [key |-> k, val |-> s]
  <2>1. CASE m = None
    <3>1. Save(r, tc, s)
      BY <1>3, <2>1
    <3> HIDE DEF s
    <3>2. pending'[e] = Put(pending[e], k, s)
      BY <1>0, <1>1, <3>1, SaveEffect, ZenonT(40)
    <3>3. /\ DOMAIN pending'[e] = DOMAIN pending[e] \cup {k} /\ pending'[e][k] = s
          /\ \A x \in DOMAIN pending[e] \ {k} : pending'[e][x] = pending[e][x]
      <4> HIDE DEF e, k
      <4> QED BY <3>2 DEF Put
    <3> QED BY <1>0, <1>1, <2>1, <3>1, <3>3, SaveEffect
  <2>2. CASE m = s
    BY <1>1, <1>3, <2>2 DEF storeVars
  <2> QED BY <1>3, <2>1, <2>2
<1> HIDE DEF e, k, s
<1>8. /\ \A d \in Engines : \A i \in 1..Len(queue'[d]) :
           \/ i \in 1..Len(queue[d]) /\ queue'[d][i] = queue[d][i]
           \/ /\ d = e /\ queue'[d][i] = [key |-> k, val |-> s] /\ m = None
              /\ i = Len(queue[e]) + 1
      /\ \A d \in Engines : Len(queue[d]) \in Nat
  <2>1. \A d \in Engines : Len(queue[d]) \in Nat
    BY <1>0 DEF StoreTypes
  <2> QED BY <1>5, <1>6, <1>7, <2>1
<1>9. /\ \A d \in Engines : \A x \in DOMAIN pending'[d] :
           \/ x \in DOMAIN pending[d] /\ pending'[d][x] = pending[d][x]
           \/ d = e /\ x = k /\ pending'[d][x] = s /\ m = None
      /\ \A d \in Engines : DOMAIN pending[d] \subseteq DOMAIN pending'[d]
      /\ m = None => k \in DOMAIN pending'[e]
  BY <1>5, <1>6, <1>7, ZenonT(40)
<1>10. StoreTypes'
  <2>1. \A q \in Requests : \A t \in DOMAIN marks'[q] : t \in Nat /\ marks'[q][t] \in Snapshot \cup {None}
    <3>1. m \in Snapshot \cup {None}
      BY <1>1
    <3> QED BY <1>0, <1>4, <3>1 DEF StoreTypes
  <2>2. \A d \in Engines : \A x \in DOMAIN pending'[d] : x \in OwnKeys(d) /\ pending'[d][x] \in Snapshot
    <3>1. \A d \in Engines : \A x \in DOMAIN pending[d] : x \in OwnKeys(d) /\ pending[d][x] \in Snapshot
      BY <1>0 DEF StoreTypes
    <3> QED BY <1>1, <1>5, <1>9, <3>1
  <2>3. \A d \in Engines : \A i \in 1..Len(queue'[d]) : queue'[d][i].key \in OwnKeys(d)
    BY <1>0, <1>5, <1>8 DEF StoreTypes
  <2> QED BY <1>0, <1>4, <1>6, <2>1, <2>2, <2>3 DEF StoreTypes
<1>11. SnapshotsExact'
  <2>1. \A q \in Requests : \A t \in DOMAIN marks'[q] :
          marks'[q][t] # None => /\ marks'[q][t].req = q /\ marks'[q][t].tokens = t
                                 /\ marks'[q][t].attempt <= attempt[q]
    <3>1. m # None => m.req = r /\ m.tokens = tc /\ m.attempt <= attempt[r]
      BY <1>0, <1>1 DEF RequestTypes
    <3> QED BY <1>0, <1>4, <3>1 DEF SnapshotsExact, Fits
  <2>2. s.req = k[1] /\ s.tokens = k[2] /\ s.attempt <= attempt[k[1]]
    BY <1>0, <1>1, <1>5 DEF RequestTypes
  <2>3. \A d \in Engines : \A x \in DOMAIN pending'[d] : Fits(x, pending'[d][x])
    BY <1>0, <1>9, <2>2 DEF SnapshotsExact, Fits
  <2>4. \A d \in Engines : \A i \in 1..Len(queue'[d]) : Fits(queue'[d][i].key, queue'[d][i].val)
    BY <1>0, <1>8, <2>2, SMTT(40) DEF SnapshotsExact, Fits
  <2> QED BY <1>0, <1>6, <2>1, <2>3, <2>4 DEF SnapshotsExact, Fits
<1>12. BufferIsMarked'
  <2>1. up[e] /\ up' = up
    BY <1>0 DEF Places, Live, e
  <2>2. k \notin DOMAIN pending[e]
    BY <1>0, <1>5 DEF BufferIsMarked
  <2> QED BY <1>0, <1>3, <1>4, <1>5, <1>6, <1>9, <2>1, <2>2 DEF BufferIsMarked, StoreTypes, OwnKeys, Keys, e
<1>13. FirstWrites'
  <2>1. SUFFICES ASSUME NEW q \in Requests, attempt'[q] <= 1, phase'[q] # "gone", NEW t \in Nat
                 PROVE  FirstWrite(q, t)'
    BY DEF FirstWrites
  <2>2. FirstWrite(q, t) /\ EngineOf[q] \in Engines
    BY <1>0, <2>1, KeyFacts DEF FirstWrites
  <2>3. WriterHas(EngineOf[q], <<q, t>>)' <=> WriterHas(EngineOf[q], <<q, t>>)
    BY <1>6 DEF WriterHas
  <2>4. CASE q = r /\ t = tc
    <3>1. Once(queue[e], k) /\ ~Awaits(queue[e], k) /\ ~WriterHas(e, k)
      BY <1>0, <2>2, <2>4 DEF FirstWrite, e, k
    <3>2. Once(queue'[e], k)
      <4>1. CASE queue'[e] = queue[e]
        BY <3>1, <4>1
      <4>2. CASE queue'[e] # queue[e]
        <5>1. Extended(queue[e], queue'[e], k)
          BY <1>5, <1>7, <1>8, <4>2 DEF Extended
        <5> QED BY <3>1, <5>1, AppendedItem, Zenon
      <4> QED BY <4>1, <4>2
    <3>3. Awaits(queue'[e], k) => tc \in DOMAIN marks'[r] /\ k \in DOMAIN pending'[e]
      BY <1>4, <1>7, <1>9, <3>1
    <3> QED BY <2>3, <2>4, <3>1, <3>2, <3>3 DEF FirstWrite, e, k
  <2>5. CASE ~(q = r /\ t = tc)
    <3>1. <<q, t>> # k
      BY <2>5 DEF k
    <3>2. t \in DOMAIN marks[q] => t \in DOMAIN marks'[q]
      BY <1>4
    <3>3. /\ Awaits(queue'[EngineOf[q]], <<q, t>>) <=> Awaits(queue[EngineOf[q]], <<q, t>>)
          /\ Once(queue'[EngineOf[q]], <<q, t>>) <=> Once(queue[EngineOf[q]], <<q, t>>)
      <4>1. CASE queue'[EngineOf[q]] = queue[EngineOf[q]]
        BY <4>1
      <4>2. CASE queue'[EngineOf[q]] # queue[EngineOf[q]]
        <5>1. EngineOf[q] = e
          BY <1>6, <2>2, <4>2
        <5>2. Extended(queue[e], queue'[e], k)
          BY <1>5, <1>7, <1>8, <4>2, <5>1 DEF Extended
        <5>4. /\ Awaits(queue'[e], <<q, t>>) <=> Awaits(queue[e], <<q, t>>)
              /\ Once(queue'[e], <<q, t>>) <=> Once(queue[e], <<q, t>>)
          BY <3>1, <5>2, AppendedItem, Zenon
        <5> QED BY <5>1, <5>4
      <4> QED BY <4>1, <4>2
    <3> QED BY <1>9, <2>2, <2>3, <3>2, <3>3 DEF FirstWrite
  <2> QED BY <2>4, <2>5
<1>14. Findable'
  <2>1. SUFFICES ASSUME NEW q \in Requests, phase'[q] \in {"prefill", "decode"},
                        NEW t \in DOMAIN marks'[q], marks'[q][t] = None
                 PROVE  \/ <<q, t>> \in DOMAIN pending'[EngineOf[q]]
                        \/ OnDisk(EngineOf[q], <<q, t>>)
                        \/ <<q, t>> \in swept \/ (attempt[q] > 1 /\ faults' > 0)
    BY <1>6 DEF Findable, OnDisk, Excused
  <2>2. phase[q] \in {"prefill", "decode"} /\ EngineOf[q] \in Engines
    BY <2>1, SnapshotAssumption
  <2>3. CASE q = r /\ t = tc
    BY <1>4, <1>9, <2>1, <2>3 DEF e, k
  <2>4. CASE ~(q = r /\ t = tc)
    <3>1. t \in DOMAIN marks[q] /\ marks[q][t] = None
      BY <1>4, <2>1, <2>4
    <3>2. \/ <<q, t>> \in DOMAIN pending[EngineOf[q]]
          \/ OnDisk(EngineOf[q], <<q, t>>)
          \/ <<q, t>> \in swept \/ (attempt[q] > 1 /\ faults > 0)
      BY <1>0, <2>2, <3>1 DEF Findable, Excused
    <3>3. faults > 0 => faults' > 0
      BY <1>0, <1>6 DEF StoreTypes
    <3> QED BY <1>9, <2>2, <3>2, <3>3
  <2> QED BY <2>3, <2>4
<1> QED BY <1>4, <1>10, <1>11, <1>12, <1>13, <1>14

-----------------------------------------------------------------------------
(* Requests that move on.                                                  *)

\* Wherever a snapshot is kept, it is one, under a key.
LEMMA KeptSnapshots ==
  ASSUME StoreTypes
  PROVE  /\ \A r \in Requests : \A tc \in DOMAIN marks[r] :
              /\ <<r, tc>> \in Keys /\ (marks[r][tc] # None => marks[r][tc] \in Snapshot)
         /\ \A e \in Engines : \A k \in DOMAIN pending[e] : k \in Keys /\ pending[e][k] \in Snapshot
         /\ \A e \in Engines : \A i \in 1..Len(queue[e]) :
              queue[e][i].key \in Keys /\ queue[e][i].val \in Snapshot
         /\ \A e \in Engines : writer[e].at \in {"write", "rename", "finish"} =>
              writer[e].item.key \in Keys /\ writer[e].item.val \in Snapshot
         /\ \A k \in DOMAIN files : k \in Keys /\ files[k] \in Snapshot
<1>1. \A e \in Engines : \A i \in 1..Len(queue[e]) : queue[e][i] \in Item
  BY DEF StoreTypes
<1>2. \A r \in Requests : \A tc \in DOMAIN marks[r] :
        <<r, tc>> \in Keys /\ (marks[r][tc] # None => marks[r][tc] \in Snapshot)
  BY DEF StoreTypes, Keys
<1>3. \A e \in Engines : \A k \in DOMAIN pending[e] : k \in Keys /\ pending[e][k] \in Snapshot
  BY DEF StoreTypes, OwnKeys
<1>4. \A e \in Engines : writer[e].at \in {"write", "rename", "finish"} =>
        writer[e].item.key \in Keys /\ writer[e].item.val \in Snapshot
  BY DEF StoreTypes, Item
<1> QED BY <1>1, <1>2, <1>3, <1>4 DEF StoreTypes, Item

\* Nothing is captured, written or removed, and a request only starts to be
\* filled when it has no snapshots.
LEMMA StoreStays ==
  ASSUME SnapInv, UNCHANGED <<up, marks, storeVars, swept>>, faults' \in Nat, faults' >= faults,
         attempt' \in [Requests -> Nat],
         \A q \in Requests :
           /\ attempt'[q] >= attempt[q]
           /\ phase[q] = "gone" => phase'[q] = "gone"
           /\ phase'[q] \in {"prefill", "decode"} =>
                phase[q] \in {"prefill", "decode"} \/ DOMAIN marks[q] = {}
  PROVE  StoreTypes' /\ SnapshotsExact' /\ BufferIsMarked' /\ FirstWrites' /\ Findable'
<1>0. /\ RequestTypes /\ StoreTypes /\ Places
      /\ SnapshotsExact /\ BufferIsMarked /\ FirstWrites /\ Findable
  BY DEF SnapInv
<1>1. /\ pending' = pending /\ queue' = queue /\ writer' = writer /\ files' = files
      /\ temps' = temps /\ marks' = marks /\ swept' = swept /\ up' = up
  BY DEF storeVars
<1>2. StoreTypes'
  BY <1>0, <1>1 DEF StoreTypes
<1>3. SnapshotsExact'
  <2>1. \A k \in Keys, s \in Snapshot : Fits(k, s) => Fits(k, s)'
    BY <1>0 DEF Fits, Keys, Snapshot, RequestTypes
  <2> HIDE DEF Fits
  <2> QED BY <1>0, <1>1, <2>1, KeptSnapshots DEF SnapshotsExact
<1>4. BufferIsMarked'
  BY <1>0, <1>1 DEF BufferIsMarked
<1>5. FirstWrites'
  BY <1>0, <1>1 DEF FirstWrites, FirstWrite, WriterHas, RequestTypes
<1>6. Findable'
  <2>1. SUFFICES ASSUME NEW q \in Requests, phase'[q] \in {"prefill", "decode"},
                        NEW t \in DOMAIN marks[q], marks[q][t] = None
                 PROVE  \/ <<q, t>> \in DOMAIN pending[EngineOf[q]]
                        \/ OnDisk(EngineOf[q], <<q, t>>)
                        \/ <<q, t>> \in swept \/ (attempt'[q] > 1 /\ faults' > 0)
    BY <1>1 DEF Findable, OnDisk, Excused
  <2>2. \/ <<q, t>> \in DOMAIN pending[EngineOf[q]]
        \/ OnDisk(EngineOf[q], <<q, t>>)
        \/ <<q, t>> \in swept \/ (attempt[q] > 1 /\ faults > 0)
    BY <1>0, <2>1 DEF Findable, Excused
  <2>3. attempt[q] > 1 /\ faults > 0 => attempt'[q] > 1 /\ faults' > 0
    BY <1>0 DEF RequestTypes, StoreTypes
  <2> QED BY <2>2, <2>3
<1> QED BY <1>2, <1>3, <1>4, <1>5, <1>6

LEMMA ArriveKeeps ==
  ASSUME SnapInv, NEW r \in Requests, Arrive(r) PROVE SnapInv'
<1>0. /\ RequestTypes /\ Places /\ Captured
  BY DEF SnapInv
<1>1. /\ phase[r] = "new" /\ up[EngineOf[r]] /\ LengthOf[r] \in Nat \ {0} /\ BaseOf[r] \in Nat
      /\ phase' = [phase EXCEPT ![r] = "waiting"] /\ attempt' = [attempt EXCEPT ![r] = 1]
      /\ length' = [length EXCEPT ![r] = LengthOf[r]] /\ base' = [base EXCEPT ![r] = BaseOf[r]]
      /\ UNCHANGED <<up, done, made, executor, marks, storeVars, swept, faults>>
  BY SnapshotAssumption DEF Arrive
<1>2. RequestTypes'
  BY <1>0, <1>1 DEF RequestTypes
<1>3. Places'
  BY <1>0, <1>1 DEF RequestTypes, Places, Live
<1>4. Captured'
  BY <1>0, <1>1 DEF RequestTypes, Captured, Prompt
<1>5. StoreTypes' /\ SnapshotsExact' /\ BufferIsMarked' /\ FirstWrites' /\ Findable'
  <2>1. /\ attempt' \in [Requests -> Nat] /\ faults' \in Nat /\ faults' >= faults
    BY <1>0, <1>1 DEF RequestTypes, SnapInv, StoreTypes
  <2>2. \A q \in Requests :
           /\ attempt'[q] >= attempt[q]
           /\ phase[q] = "gone" => phase'[q] = "gone"
           /\ phase'[q] \in {"prefill", "decode"} => phase[q] \in {"prefill", "decode"}
    BY <1>0, <1>1 DEF RequestTypes, Places
  <2> QED BY <1>1, <2>1, <2>2, StoreStays
<1> QED BY <1>2, <1>3, <1>4, <1>5 DEF SnapInv

LEMMA StartPrefillKeeps ==
  ASSUME SnapInv, NEW r \in Requests, StartPrefill(r) PROVE SnapInv'
<1>0. /\ RequestTypes /\ Places /\ Captured /\ faults \in Nat
  BY DEF SnapInv, StoreTypes
<1>1. /\ phase[r] = "waiting" /\ executor = None
      /\ phase' = [phase EXCEPT ![r] = "prefill"] /\ done' = [done EXCEPT ![r] = 0]
      /\ executor' = [req |-> r, at |-> "chunk"]
      /\ UNCHANGED <<up, base, length, made, attempt, marks, storeVars, swept, faults>>
  BY DEF StartPrefill
<1>2. RequestTypes' /\ executor' # None /\ executor'.req = r
  BY <1>0, <1>1, SnapshotAssumption DEF RequestTypes
<1>3. Places'
  BY <1>0, <1>1, <1>2 DEF RequestTypes, Places, Live
<1>4. Captured'
  <2>1. DOMAIN marks'[r] = {} /\ BoundariesIn(base'[r], base'[r] + done'[r]) = {}
    BY <1>0, <1>1 DEF RequestTypes, Places, BoundariesIn
  <2>2. phase'[r] = "prefill"
    BY <1>0, <1>1 DEF RequestTypes
  <2>3. \A q \in Requests : q # r => /\ phase'[q] = phase[q] /\ marks'[q] = marks[q] /\ base'[q] = base[q]
                                     /\ done'[q] = done[q] /\ made'[q] = made[q] /\ length'[q] = length[q]
    BY <1>0, <1>1 DEF RequestTypes
  <2> QED BY <1>0, <2>1, <2>2, <2>3 DEF Captured, Prompt, BoundariesIn
<1>5. StoreTypes' /\ SnapshotsExact' /\ BufferIsMarked' /\ FirstWrites' /\ Findable'
  <2>1. \A q \in Requests :
           /\ attempt'[q] >= attempt[q]
           /\ phase[q] = "gone" => phase'[q] = "gone"
           /\ phase'[q] \in {"prefill", "decode"} =>
                phase[q] \in {"prefill", "decode"} \/ DOMAIN marks[q] = {}
    BY <1>0, <1>1 DEF RequestTypes, Places
  <2>2. attempt' \in [Requests -> Nat] /\ faults' >= faults /\ faults' \in Nat
    BY <1>0, <1>1 DEF RequestTypes
  <2> QED BY <1>0, <1>1, <2>1, <2>2, StoreStays
<1> QED BY <1>2, <1>3, <1>4, <1>5 DEF SnapInv

\* The executor stays where it is, or leaves a request that is forgotten.
LEMMA ChunkGoesOnKeeps ==
  ASSUME SnapInv, NEW r \in Requests, ChunkGoesOn(r) PROVE SnapInv'
<1>0. /\ RequestTypes /\ Places /\ Captured /\ faults \in Nat
  BY DEF SnapInv, StoreTypes
<1>1. /\ executor # None /\ executor = [req |-> r, at |-> "check"] /\ executor' = [executor EXCEPT !.at = "chunk"]
      /\ UNCHANGED <<up, phase, base, length, done, made, attempt, marks, storeVars, swept, faults>>
  BY DEF ChunkGoesOn, At
<1>2. RequestTypes' /\ executor' # None /\ executor'.req = r /\ executor.req = r
  BY <1>0, <1>1, SnapshotAssumption DEF RequestTypes
<1>3. Places' /\ Captured'
  BY <1>0, <1>1, <1>2 DEF Places, Live, Captured, Prompt, BoundariesIn
<1>5. StoreTypes' /\ SnapshotsExact' /\ BufferIsMarked' /\ FirstWrites' /\ Findable'
  <2>1. /\ attempt' \in [Requests -> Nat] /\ faults' >= faults /\ faults' \in Nat
        /\ \A q \in Requests : attempt'[q] >= attempt[q]
    BY <1>0, <1>1 DEF RequestTypes
  <2> QED BY <1>1, <2>1, StoreStays
<1> QED BY <1>2, <1>3, <1>5 DEF SnapInv

LEMMA RequestAbortKeeps ==
  ASSUME SnapInv, UNCHANGED <<up, phase, base, length, done, made, attempt, executor, marks, storeVars,
                              swept, faults>>
  PROVE  SnapInv'
<1>0. /\ RequestTypes /\ Places /\ Captured /\ faults \in Nat
  BY DEF SnapInv, StoreTypes
<1>1. RequestTypes'
  BY <1>0 DEF RequestTypes
<1>2. Places' /\ Captured'
  BY <1>0 DEF Places, Live, Captured, Prompt, BoundariesIn
<1>3. StoreTypes' /\ SnapshotsExact' /\ BufferIsMarked' /\ FirstWrites' /\ Findable'
  <2>1. /\ attempt' \in [Requests -> Nat] /\ faults' >= faults /\ faults' \in Nat
        /\ \A q \in Requests : attempt'[q] >= attempt[q]
    BY <1>0 DEF RequestTypes
  <2> QED BY <2>1, StoreStays
<1> QED BY <1>1, <1>2, <1>3 DEF SnapInv

LEMMA MemoryExceededKeeps ==
  ASSUME SnapInv, NEW r \in Requests, MemoryExceeded(r) PROVE SnapInv'
<1>0. /\ RequestTypes /\ Places /\ Captured /\ faults \in Nat
  BY DEF SnapInv, StoreTypes
<1>1. /\ executor # None /\ executor = [req |-> r, at |-> "check"] /\ executor' = None /\ faults' = faults + 1
      /\ phase' = [q \in Requests |-> IF q \in OfEngine(EngineOf[r]) /\ Live(q) THEN "gone" ELSE phase[q]]
      /\ UNCHANGED <<up, base, length, done, made, attempt, marks, storeVars, swept>>
  BY DEF MemoryExceeded, At
<1>2. RequestTypes'
  BY <1>0, <1>1 DEF RequestTypes
<1>3. \A q \in Requests : (phase'[q] = phase[q] /\ phase[q] # "prefill") \/ phase'[q] = "gone"
  BY <1>0, <1>1 DEF Places, OfEngine, Live
<1>4. Places'
  BY <1>0, <1>1, <1>3 DEF Places, Live
<1>5. Captured'
  BY <1>0, <1>1, <1>3 DEF Captured, Prompt, BoundariesIn
<1>6. StoreTypes' /\ SnapshotsExact' /\ BufferIsMarked' /\ FirstWrites' /\ Findable'
  <2>1. /\ attempt' \in [Requests -> Nat] /\ faults' >= faults /\ faults' \in Nat
        /\ \A q \in Requests : attempt'[q] >= attempt[q]
    BY <1>0, <1>1 DEF RequestTypes
  <2>2. \A q \in Requests :
           /\ phase[q] = "gone" => phase'[q] = "gone"
           /\ phase'[q] \in {"prefill", "decode"} => phase[q] \in {"prefill", "decode"}
    BY <1>3
  <2> QED BY <1>1, <2>1, <2>2, StoreStays
<1> QED BY <1>2, <1>4, <1>5, <1>6 DEF SnapInv

\* A request leaves, with all that is kept of it.
LEMMA LeaveKeeps ==
  ASSUME SnapInv, NEW r \in Requests, executor = None,
         phase' = [phase EXCEPT ![r] = "gone"], marks' = [marks EXCEPT ![r] = Empty], CleanupRequest(r),
         UNCHANGED <<up, base, length, done, made, attempt, executor, faults>>
  PROVE  SnapInv'
<1>0. /\ RequestTypes /\ StoreTypes /\ Places /\ Captured
      /\ SnapshotsExact /\ BufferIsMarked /\ FirstWrites /\ Findable
  BY DEF SnapInv
<1>1. /\ DOMAIN marks' = Requests /\ DOMAIN marks'[r] = {} /\ \A q \in Requests : q # r => marks'[q] = marks[q]
      /\ phase'[r] = "gone" /\ \A q \in Requests : q # r => phase'[q] = phase[q]
  BY <1>0 DEF RequestTypes, StoreTypes, Empty
<1>2. /\ queue' = queue /\ writer' = writer /\ swept' = swept
      /\ temps' = temps \ KeysOf(r)
      /\ DOMAIN files' = DOMAIN files \ KeysOf(r) /\ \A k \in DOMAIN files' : files'[k] = files[k]
  BY DEF CleanupRequest, Drop
<1>3. /\ DOMAIN pending' = Engines
      /\ \A d \in Engines : /\ DOMAIN pending'[d] = DOMAIN pending[d] \ KeysOf(r)
                            /\ \A k \in DOMAIN pending'[d] : pending'[d][k] = pending[d][k]
  <2>1. \A d \in Engines : d # EngineOf[r] => DOMAIN pending[d] \ KeysOf(r) = DOMAIN pending[d]
    BY <1>0 DEF StoreTypes, OwnKeys, KeysOf
  <2>2. /\ DOMAIN pending' = Engines /\ pending'[EngineOf[r]] = Drop(pending[EngineOf[r]], KeysOf(r))
        /\ \A d \in Engines : d # EngineOf[r] => pending'[d] = pending[d]
    BY <1>0, SnapshotAssumption DEF CleanupRequest, StoreTypes
  <2>3. /\ DOMAIN pending'[EngineOf[r]] = DOMAIN pending[EngineOf[r]] \ KeysOf(r)
        /\ \A k \in DOMAIN pending'[EngineOf[r]] : pending'[EngineOf[r]][k] = pending[EngineOf[r]][k]
    BY <2>2 DEF Drop
  <2> QED BY <2>1, <2>2, <2>3
<1>4. \A q \in Requests, t \in Nat : <<q, t>> \in KeysOf(r) <=> q = r
  BY DEF KeysOf, Keys
<1>5. \A k \in Keys : k \in KeysOf(r) <=> k[1] = r
  BY DEF KeysOf
<1>6. RequestTypes'
  BY <1>0 DEF RequestTypes
<1>7. Places'
  BY <1>0, <1>1 DEF Places, Live
<1>8. Captured'
  BY <1>0, <1>1 DEF Captured, Prompt, BoundariesIn
<1>9. StoreTypes'
  BY <1>0, <1>1, <1>2, <1>3 DEF StoreTypes
<1>10. SnapshotsExact'
  BY <1>0, <1>1, <1>2, <1>3 DEF SnapshotsExact, Fits
<1>11. BufferIsMarked'
  BY <1>0, <1>1, <1>3, <1>5 DEF BufferIsMarked, StoreTypes, OwnKeys, Keys
<1>12. FirstWrites'
  BY <1>0, <1>1, <1>2, <1>3, <1>4, KeyFacts DEF FirstWrites, FirstWrite, WriterHas
<1>13. Findable'
  BY <1>0, <1>1, <1>2, <1>3, <1>4, KeyFacts DEF Findable, OnDisk, Excused, StoreTypes
<1> QED BY <1>6, <1>7, <1>8, <1>9, <1>10, <1>11, <1>12, <1>13 DEF SnapInv

LEMMA FinishKeeps ==
  ASSUME SnapInv, NEW r \in Requests, Finish(r) PROVE SnapInv'
  BY LeaveKeeps DEF Finish

LEMMA ProcessAbortKeeps ==
  ASSUME SnapInv, NEW r \in Requests, ProcessAbort(r) PROVE SnapInv'
<1>1. CASE Live(r)
  BY <1>1, LeaveKeeps DEF ProcessAbort
<1>2. CASE ~Live(r)
  BY <1>2, RequestAbortKeeps DEF ProcessAbort
<1> QED BY <1>1, <1>2

-----------------------------------------------------------------------------
(* Requests that are processed.                                            *)

\* After an emission the snapshots reach as far as the request.
LEMMA EmitKeeps ==
  ASSUME SnapInv, NEW r \in Requests, NEW n \in Nat, n > 0, Emit(r, n, n),
         UNCHANGED <<up, attempt, swept>>,
         \A q \in Requests : q # r => phase'[q] = phase[q],
         phase[r] \in {"prefill", "gone"},
         phase[r] = "prefill" => phase'[r] \in {"prefill", "decode"} /\ n \notin DOMAIN marks[r],
         phase[r] = "gone" => phase'[r] = "gone"
  PROVE  /\ StoreTypes' /\ SnapshotsExact' /\ BufferIsMarked' /\ FirstWrites' /\ Findable'
         /\ \A q \in Requests : q # r => marks'[q] = marks[q]
         /\ phase[r] = "prefill" =>
              DOMAIN marks'[r] = IF n % BlockSize = 0 THEN DOMAIN marks[r] \cup {n} ELSE DOMAIN marks[r]
<1>0. RequestTypes /\ StoreTypes
  BY DEF SnapInv
<1>1. CASE n % BlockSize = 0 /\ phase[r] = "prefill"
  <2>1. Capture(r, n, StateAfter(r, n)) /\ n \notin DOMAIN marks[r] /\ phase'[r] \in {"prefill", "decode"}
    BY <1>1 DEF Emit
  <2>2. /\ StoreTypes' /\ SnapshotsExact' /\ BufferIsMarked' /\ FirstWrites' /\ Findable'
        /\ DOMAIN marks'[r] = DOMAIN marks[r] \cup {n}
        /\ \A q \in Requests : q # r => marks'[q] = marks[q]
    BY <1>1, <2>1, CaptureKeeps
  <2> QED BY <1>1, <2>2
<1>2. CASE ~(n % BlockSize = 0 /\ phase[r] = "prefill")
  <2>1. UNCHANGED <<marks, storeVars, faults>>
    BY <1>2 DEF Emit, NoSnapshot, storeVars
  <2>2. /\ attempt' \in [Requests -> Nat] /\ faults' \in Nat /\ faults' >= faults
        /\ \A q \in Requests :
             /\ attempt'[q] >= attempt[q]
             /\ phase[q] = "gone" => phase'[q] = "gone"
             /\ phase'[q] \in {"prefill", "decode"} => phase[q] \in {"prefill", "decode"}
    BY <1>0, <2>1 DEF RequestTypes, StoreTypes
  <2>3. StoreTypes' /\ SnapshotsExact' /\ BufferIsMarked' /\ FirstWrites' /\ Findable'
    BY <2>1, <2>2, StoreStays
  <2> QED BY <1>2, <2>1, <2>3
<1> QED BY <1>1, <1>2

LEMMA PrefillChunkKeeps ==
  ASSUME SnapInv, NEW r \in Requests, PrefillChunk(r) PROVE SnapInv'
<1>0. RequestTypes /\ StoreTypes /\ Places /\ Captured
  BY DEF SnapInv
<1>1. /\ executor # None /\ executor = [req |-> r, at |-> "chunk"] /\ length[r] - done[r] > 1
      /\ done' = [done EXCEPT ![r] = done[r] + NextStep(r)]
      /\ Emit(r, base[r] + Least(done'[r], length[r] - 1), base[r] + done'[r])
      /\ executor' = [executor EXCEPT !.at = "check"]
      /\ UNCHANGED <<up, phase, base, length, made, attempt, swept>>
  BY DEF PrefillChunk, At
<1>2. /\ base[r] \in Nat /\ done[r] \in Nat /\ length[r] \in Nat
      /\ phase[r] \in {"prefill", "gone"} /\ executor.req = r
  BY <1>0, <1>1 DEF RequestTypes, Places
<1>3. PICK step \in Nat :
        /\ step = NextStep(r) /\ step >= 1 /\ done[r] + step <= length[r] - 1
        /\ \A tc \in Nat : base[r] + done[r] < tc /\ tc < base[r] + done[r] + step =>
              tc % BlockSize # 0
  BY <1>0, <1>1, NextStepStops
<1>4. PICK old \in Nat, new \in Nat :
        /\ old = base[r] + done[r] /\ new = base[r] + done[r] + step
        /\ base[r] <= old /\ old < new
  <2>1. base[r] + done[r] \in Nat /\ base[r] + done[r] + step \in Nat
        /\ base[r] <= base[r] + done[r] /\ base[r] + done[r] < base[r] + done[r] + step
    BY <1>2, <1>3
  <2> QED BY <2>1, Zenon
<1>5. /\ done'[r] = done[r] + step /\ done' \in [Requests -> Nat]
      /\ \A q \in Requests : q # r => done'[q] = done[q]
      /\ base[r] + done'[r] = new /\ base[r] + Least(done'[r], length[r] - 1) = new
      /\ done'[r] < length[r]
  <2>1. done'[r] = done[r] + step /\ done' \in [Requests -> Nat] /\ \A q \in Requests : q # r => done'[q] = done[q]
    BY <1>0, <1>1, <1>2, <1>3 DEF RequestTypes
  <2> QED BY <1>2, <1>3, <1>4, <2>1 DEF Least
<1>6. /\ new % BlockSize = 0 => BoundariesIn(base[r], new) = BoundariesIn(base[r], old) \cup {new}
      /\ new % BlockSize # 0 => BoundariesIn(base[r], new) = BoundariesIn(base[r], old)
      /\ new \notin BoundariesIn(base[r], old)
  BY <1>2, <1>3, <1>4, BoundariesGrow
<1>7. phase[r] = "prefill" => DOMAIN marks[r] = BoundariesIn(base[r], old)
  BY <1>0, <1>4 DEF Captured
<1>8. Emit(r, new, new) /\ new > 0
  BY <1>1, <1>4, <1>5
<1>9. /\ StoreTypes' /\ SnapshotsExact' /\ BufferIsMarked' /\ FirstWrites' /\ Findable'
      /\ \A q \in Requests : q # r => marks'[q] = marks[q]
      /\ phase[r] = "prefill" =>
           DOMAIN marks'[r] = IF new % BlockSize = 0 THEN DOMAIN marks[r] \cup {new} ELSE DOMAIN marks[r]
  BY <1>1, <1>2, <1>6, <1>7, <1>8, EmitKeeps
<1>10. executor' # None /\ executor'.req = r /\ executor' \in [req : Requests, at : {"chunk", "check"}]
  BY <1>1, SnapshotAssumption
<1>11. RequestTypes'
  BY <1>0, <1>1, <1>5, <1>10 DEF RequestTypes
<1>12. Places'
  BY <1>0, <1>1, <1>2, <1>5, <1>9, <1>10 DEF Places, Live
<1>13. Captured'
  <2>1. phase[r] = "prefill" => DOMAIN marks'[r] = BoundariesIn(base[r], new)
    BY <1>6, <1>7, <1>9
  <2>2. phase'[r] # "decode"
    BY <1>1, <1>2
  <2> QED BY <1>0, <1>1, <1>5, <1>9, <2>1, <2>2 DEF Captured, Prompt, BoundariesIn
<1> QED BY <1>9, <1>11, <1>12, <1>13 DEF SnapInv

LEMMA EndPrefillKeeps ==
  ASSUME SnapInv, NEW r \in Requests, EndPrefill(r) PROVE SnapInv'
<1>0. RequestTypes /\ StoreTypes /\ Places /\ Captured
  BY DEF SnapInv
<1>1. /\ executor # None /\ executor = [req |-> r, at |-> "chunk"] /\ length[r] - done[r] <= 1
      /\ Emit(r, Prompt(r), base[r] + done[r] + 1)
      /\ phase' = [phase EXCEPT ![r] = IF Live(r) THEN "decode" ELSE phase[r]]
      /\ executor' = None
      /\ UNCHANGED <<up, base, length, done, made, attempt, swept>>
  BY DEF EndPrefill, At
<1>2. /\ base[r] \in Nat /\ done[r] \in Nat /\ length[r] \in Nat
      /\ phase[r] \in {"prefill", "gone"} /\ executor.req = r /\ done[r] < length[r]
  BY <1>0, <1>1 DEF RequestTypes, Places
<1>3. /\ \A q \in Requests : q # r => phase'[q] = phase[q]
      /\ phase'[r] = IF phase[r] = "prefill" THEN "decode" ELSE "gone"
  BY <1>0, <1>1, <1>2 DEF RequestTypes, Live
<1>4. PICK old \in Nat, new \in Nat :
        /\ old = base[r] + done[r] /\ new = Prompt(r) /\ new = old + 1 /\ base[r] <= old
  <2>1. /\ base[r] + done[r] \in Nat /\ Prompt(r) \in Nat /\ Prompt(r) = base[r] + done[r] + 1
        /\ base[r] <= base[r] + done[r]
    BY <1>1, <1>2 DEF Prompt
  <2> QED BY <2>1, Zenon
<1>5. /\ new % BlockSize = 0 => BoundariesIn(base[r], new) = BoundariesIn(base[r], old) \cup {new}
      /\ new % BlockSize # 0 => BoundariesIn(base[r], new) = BoundariesIn(base[r], old)
      /\ new \notin BoundariesIn(base[r], old)
  BY <1>2, <1>4, BoundariesGrow
<1>6. phase[r] = "prefill" => DOMAIN marks[r] = BoundariesIn(base[r], old)
  BY <1>0, <1>4 DEF Captured
<1>7. Emit(r, new, new) /\ new > 0
  BY <1>1, <1>4
<1>8. /\ StoreTypes' /\ SnapshotsExact' /\ BufferIsMarked' /\ FirstWrites' /\ Findable'
      /\ \A q \in Requests : q # r => marks'[q] = marks[q]
      /\ phase[r] = "prefill" =>
           DOMAIN marks'[r] = IF new % BlockSize = 0 THEN DOMAIN marks[r] \cup {new} ELSE DOMAIN marks[r]
  <2>1. /\ phase[r] = "prefill" => phase'[r] \in {"prefill", "decode"} /\ new \notin DOMAIN marks[r]
        /\ phase[r] = "gone" => phase'[r] = "gone"
    BY <1>3, <1>5, <1>6
  <2> QED BY <1>1, <1>2, <1>3, <1>7, <2>1, EmitKeeps
<1>9. RequestTypes'
  BY <1>0, <1>1 DEF RequestTypes, Live
<1>10. \A q \in Requests : phase'[q] # "prefill"
  BY <1>0, <1>2, <1>3 DEF Places
<1>11. Places'
  BY <1>0, <1>1, <1>2, <1>3, <1>8, <1>10 DEF Places, Live
<1>12. Captured'
  <2>1. phase[r] = "prefill" => DOMAIN marks'[r] = BoundariesIn(base[r], Prompt(r) + made[r])
    <3>1. phase[r] = "prefill" => made[r] = 0
      BY <1>0 DEF Places
    <3>2. phase[r] = "prefill" => Prompt(r) + made[r] = new
      BY <1>4, <3>1
    <3>3. phase[r] = "prefill" => DOMAIN marks'[r] = BoundariesIn(base[r], new)
      BY <1>5, <1>6, <1>8
    <3> QED BY <3>2, <3>3
  <2> QED BY <1>0, <1>1, <1>2, <1>3, <1>8, <1>10, <2>1 DEF Captured, Prompt, BoundariesIn
<1> QED BY <1>8, <1>9, <1>11, <1>12 DEF SnapInv

LEMMA DecodeKeeps ==
  ASSUME SnapInv, NEW r \in Requests, Decode(r) PROVE SnapInv'
<1>0. RequestTypes /\ StoreTypes /\ Places /\ Captured
  BY DEF SnapInv
<1>1. /\ executor = None /\ phase[r] = "decode" /\ made' = [made EXCEPT ![r] = made[r] + 1]
      /\ CaptureOutput(r, Prompt(r) + made'[r])
      /\ UNCHANGED <<up, phase, base, length, done, attempt, executor, swept>>
  BY DEF Decode
<1>2. PICK old \in Nat, new \in Nat :
        /\ old = Prompt(r) + made[r] /\ new = Prompt(r) + made'[r] /\ new = old + 1
        /\ base[r] \in Nat /\ base[r] <= old
  <2>1. base[r] \in Nat /\ length[r] \in Nat /\ made[r] \in Nat /\ made'[r] = made[r] + 1
    BY <1>0, <1>1 DEF RequestTypes
  <2>2. /\ Prompt(r) + made[r] \in Nat /\ Prompt(r) + made'[r] \in Nat
        /\ Prompt(r) + made'[r] = Prompt(r) + made[r] + 1 /\ base[r] <= Prompt(r) + made[r]
    BY <2>1 DEF Prompt
  <2> QED BY <2>1, <2>2, Zenon
<1>3. /\ new % BlockSize = 0 => BoundariesIn(base[r], new) = BoundariesIn(base[r], old) \cup {new}
      /\ new % BlockSize # 0 => BoundariesIn(base[r], new) = BoundariesIn(base[r], old)
      /\ new \notin BoundariesIn(base[r], old)
  BY <1>2, BoundariesGrow
<1>4. DOMAIN marks[r] = BoundariesIn(base[r], old)
  BY <1>0, <1>1, <1>2 DEF Captured
<1>5. /\ StoreTypes' /\ SnapshotsExact' /\ BufferIsMarked' /\ FirstWrites' /\ Findable'
      /\ \A q \in Requests : q # r => marks'[q] = marks[q]
      /\ DOMAIN marks'[r] = BoundariesIn(base[r], new)
  <2>1. CASE new % BlockSize = 0
    <3>1. Capture(r, new, StateAfter(r, new)) /\ new \notin DOMAIN marks[r]
      BY <1>1, <1>2, <1>3, <1>4, <2>1 DEF CaptureOutput
    <3>2. /\ StoreTypes' /\ SnapshotsExact' /\ BufferIsMarked' /\ FirstWrites' /\ Findable'
          /\ DOMAIN marks'[r] = DOMAIN marks[r] \cup {new}
          /\ \A q \in Requests : q # r => marks'[q] = marks[q]
      BY <1>1, <3>1, CaptureKeeps
    <3> QED BY <1>3, <1>4, <2>1, <3>2
  <2>2. CASE new % BlockSize # 0
    <3>1. UNCHANGED <<marks, storeVars, faults>>
      BY <1>1, <1>2, <2>2 DEF CaptureOutput, NoSnapshot, storeVars
    <3>2. /\ attempt' \in [Requests -> Nat] /\ faults' \in Nat /\ faults' >= faults
          /\ \A q \in Requests : attempt'[q] >= attempt[q]
      BY <1>0, <1>1, <3>1 DEF RequestTypes, StoreTypes
    <3>3. StoreTypes' /\ SnapshotsExact' /\ BufferIsMarked' /\ FirstWrites' /\ Findable'
      BY <1>1, <3>1, <3>2, StoreStays
    <3> QED BY <1>3, <1>4, <2>2, <3>1, <3>3
  <2> QED BY <2>1, <2>2
<1>6. RequestTypes'
  BY <1>0, <1>1 DEF RequestTypes
<1>7. \A q \in Requests : q # r => made'[q] = made[q]
  BY <1>0, <1>1 DEF RequestTypes
<1>8. Places'
  BY <1>0, <1>1, <1>5, <1>7 DEF Places, Live
<1>9. Captured'
  BY <1>0, <1>1, <1>2, <1>5, <1>7 DEF Captured, Prompt, BoundariesIn
<1> QED BY <1>5, <1>6, <1>8, <1>9 DEF SnapInv

-----------------------------------------------------------------------------
(* Engines that start over, start or stop.                                 *)

\* An engine forgets all snapshots and removes the directory.  Its requests
\* are gone, wait for another attempt, or had nothing yet; the files of the
\* others are swept.
LEMMA ForgetKeeps ==
  ASSUME SnapInv, NEW e \in Engines, ForgetSnapshots(e), faults' \in Nat, faults' >= faults,
         attempt' \in [Requests -> Nat],
         \A d \in Engines : d # e => up'[d] = up[d],
         \A q \in Requests :
           /\ attempt'[q] >= attempt[q]
           /\ EngineOf[q] # e => phase'[q] = phase[q] /\ attempt'[q] = attempt[q]
           /\ EngineOf[q] = e =>
                /\ phase'[q] \notin {"prefill", "decode"}
                /\ attempt'[q] <= 1 /\ phase'[q] # "gone" =>
                     attempt[q] <= 1 /\ phase[q] \in {"new", "waiting"}
  PROVE  /\ StoreTypes' /\ SnapshotsExact' /\ BufferIsMarked' /\ FirstWrites' /\ Findable'
         /\ \A q \in Requests : /\ EngineOf[q] # e => marks'[q] = marks[q]
                                /\ EngineOf[q] = e => DOMAIN marks'[q] = {}
<1>0. /\ RequestTypes /\ StoreTypes /\ Places
      /\ SnapshotsExact /\ BufferIsMarked /\ FirstWrites /\ Findable
  BY DEF SnapInv
<1>1. /\ DOMAIN marks' = Requests
      /\ \A q \in Requests : /\ EngineOf[q] # e => marks'[q] = marks[q]
                             /\ EngineOf[q] = e => DOMAIN marks'[q] = {}
  BY DEF ForgetSnapshots, Empty
<1>2. /\ queue' = queue /\ writer' = writer /\ DOMAIN files' = {}
      /\ swept \subseteq swept'
      /\ \A q \in Requests, t \in Nat : <<q, t>> \in DOMAIN files /\ EngineOf[q] # e => <<q, t>> \in swept'
  BY DEF ForgetSnapshots, CleanupAll, RemoveDirectory, Empty
<1>3. /\ DOMAIN pending' = Engines /\ DOMAIN pending'[e] = {}
      /\ \A d \in Engines : d # e => pending'[d] = pending[d]
  BY <1>0 DEF ForgetSnapshots, CleanupAll, Empty, StoreTypes
<1>4. StoreTypes'
  BY <1>0, <1>1, <1>2, <1>3 DEF StoreTypes
<1>5. SnapshotsExact'
  <2>1. \A k \in Keys, s \in Snapshot : Fits(k, s) => Fits(k, s)'
    BY <1>0 DEF Fits, Keys, Snapshot, RequestTypes
  <2>3. \A q \in Requests : \A t \in DOMAIN marks'[q] : t \in DOMAIN marks[q] /\ marks'[q][t] = marks[q][t]
    BY <1>1
  <2>4. \A d \in Engines : \A k \in DOMAIN pending'[d] : k \in DOMAIN pending[d] /\ pending'[d][k] = pending[d][k]
    BY <1>3
  <2> HIDE DEF Fits
  <2> QED BY <1>0, <1>2, <2>1, <2>3, <2>4, KeptSnapshots DEF SnapshotsExact
<1>6. BufferIsMarked'
  <2>1. \A d \in Engines : \A k \in DOMAIN pending[d] : k[1] \in Requests /\ EngineOf[k[1]] = d
    BY <1>0 DEF StoreTypes, OwnKeys, Keys
  <2> QED BY <1>0, <1>1, <1>3, <2>1 DEF BufferIsMarked
<1>7. FirstWrites'
  <2>1. SUFFICES ASSUME NEW q \in Requests, attempt'[q] <= 1, phase'[q] # "gone", NEW t \in Nat
                 PROVE  FirstWrite(q, t)'
    BY DEF FirstWrites
  <2>2. EngineOf[q] \in Engines
    BY KeyFacts
  <2>3. CASE EngineOf[q] # e
    <3>1. FirstWrite(q, t)
      BY <1>0, <2>1, <2>3 DEF FirstWrites
    <3> QED BY <1>1, <1>2, <1>3, <2>2, <2>3, <3>1 DEF FirstWrite, WriterHas
  <2>4. CASE EngineOf[q] = e
    <3>1. attempt[q] <= 1 /\ phase[q] \in {"new", "waiting"} /\ DOMAIN marks[q] = {}
      BY <1>0, <2>1, <2>4 DEF Places
    <3>2. FirstWrite(q, t)
      BY <1>0, <3>1 DEF FirstWrites
    <3> QED BY <1>2, <3>1, <3>2 DEF FirstWrite, WriterHas
  <2> QED BY <2>3, <2>4
<1>8. Findable'
  <2>1. SUFFICES ASSUME NEW q \in Requests, phase'[q] \in {"prefill", "decode"},
                        NEW t \in DOMAIN marks'[q], marks'[q][t] = None
                 PROVE  \/ <<q, t>> \in DOMAIN pending'[EngineOf[q]]
                        \/ <<q, t>> \in swept' \/ (attempt'[q] > 1 /\ faults' > 0)
    BY DEF Findable, Excused
  <2>2. /\ EngineOf[q] # e /\ phase[q] \in {"prefill", "decode"} /\ attempt'[q] = attempt[q]
        /\ t \in DOMAIN marks[q] /\ marks[q][t] = None /\ EngineOf[q] \in Engines /\ t \in Nat
    BY <1>0, <1>1, <2>1, SnapshotAssumption DEF StoreTypes
  <2>3. \/ <<q, t>> \in DOMAIN pending[EngineOf[q]] \/ <<q, t>> \in DOMAIN files
        \/ <<q, t>> \in swept \/ (attempt[q] > 1 /\ faults > 0)
    BY <1>0, <2>2 DEF Findable, OnDisk, Excused
  <2>4. faults > 0 => faults' > 0
    BY <1>0 DEF StoreTypes
  <2> QED BY <1>2, <1>3, <2>2, <2>3, <2>4
<1> QED BY <1>1, <1>4, <1>5, <1>6, <1>7, <1>8

\* The requests at work start again from scratch, or fail.
LEMMA RescheduleKeeps ==
  ASSUME SnapInv, NEW e \in Engines, NEW failed \in SUBSET Running(e),
         ForgetSnapshots(e), Reschedule(e, failed), UNCHANGED <<up, done>>, executor' = None,
         \A q \in Requests : phase[q] = "prefill" => EngineOf[q] = e,
         faults' \in Nat, faults' >= faults
  PROVE  SnapInv'
<1>0. RequestTypes /\ Places /\ Captured
  BY DEF SnapInv
<1> DEFINE again == Running(e) \ failed
<1>1. /\ phase' = [r \in Requests |-> IF r \in again THEN "waiting" ELSE IF r \in failed THEN "gone" ELSE phase[r]]
      /\ attempt' = [r \in Requests |-> IF r \in again THEN attempt[r] + 1 ELSE attempt[r]]
      /\ length' = [r \in Requests |-> IF r \in again THEN Prompt(r) ELSE length[r]]
      /\ base' = [r \in Requests |-> IF r \in again THEN 0 ELSE base[r]]
      /\ made' = [r \in Requests |-> IF r \in again THEN 0 ELSE made[r]]
  BY DEF Reschedule
<1>2. \A q \in Requests : q \in again \cup failed <=> EngineOf[q] = e /\ phase[q] \in {"prefill", "decode"}
  BY DEF Running
<1> HIDE DEF again
<1>3. \A q \in Requests : Prompt(q) \in Nat /\ (length[q] > 0 => Prompt(q) > 0)
  BY <1>0 DEF RequestTypes, Prompt
<1>4. RequestTypes'
  BY <1>0, <1>1, <1>3 DEF RequestTypes
<1>5. /\ StoreTypes' /\ SnapshotsExact' /\ BufferIsMarked' /\ FirstWrites' /\ Findable'
      /\ \A q \in Requests : /\ EngineOf[q] # e => marks'[q] = marks[q]
                             /\ EngineOf[q] = e => DOMAIN marks'[q] = {}
  <2>1. \A q \in Requests :
           /\ attempt'[q] >= attempt[q]
           /\ EngineOf[q] # e => phase'[q] = phase[q] /\ attempt'[q] = attempt[q]
           /\ EngineOf[q] = e =>
                /\ phase'[q] \notin {"prefill", "decode"}
                /\ attempt'[q] <= 1 /\ phase'[q] # "gone" =>
                     attempt[q] <= 1 /\ phase[q] \in {"new", "waiting"}
    BY <1>0, <1>1, <1>2 DEF RequestTypes, Places, Live
  <2>2. attempt' \in [Requests -> Nat]
    BY <1>4 DEF RequestTypes
  <2> QED BY <2>1, <2>2, ForgetKeeps
<1>6. \A q \in Requests :
        \/ /\ q \in again /\ phase'[q] = "waiting" /\ phase[q] \in {"prefill", "decode"} /\ EngineOf[q] = e
           /\ length'[q] = Prompt(q) /\ attempt'[q] = attempt[q] + 1 /\ made'[q] = 0
        \/ phase'[q] = "gone" /\ EngineOf[q] = e
        \/ /\ phase'[q] = phase[q] /\ phase[q] # "prefill" /\ length'[q] = length[q] /\ base'[q] = base[q]
           /\ attempt'[q] = attempt[q] /\ made'[q] = made[q]
           /\ phase[q] = "decode" => EngineOf[q] # e
  BY <1>1, <1>2
<1>7. Places'
  BY <1>0, <1>3, <1>5, <1>6 DEF Places, Live, RequestTypes
<1>8. Captured'
  BY <1>0, <1>5, <1>6 DEF Captured, Prompt, BoundariesIn
<1> QED BY <1>4, <1>5, <1>7, <1>8 DEF SnapInv

LEMMA PrefillAbortedKeeps ==
  ASSUME SnapInv, NEW r \in Requests, PrefillAborted(r) PROVE SnapInv'
<1>1. /\ executor # None /\ executor = [req |-> r, at |-> "check"] /\ executor' = None
      /\ ForgetSnapshots(EngineOf[r]) /\ Reschedule(EngineOf[r], {}) /\ UNCHANGED <<up, done, faults>>
  BY DEF PrefillAborted, At
<1>2. /\ \A q \in Requests : phase[q] = "prefill" => EngineOf[q] = EngineOf[r]
      /\ EngineOf[r] \in Engines /\ {} \in SUBSET Running(EngineOf[r]) /\ faults' \in Nat /\ faults' >= faults
  BY <1>1, SnapshotAssumption DEF SnapInv, Places, StoreTypes
<1> QED BY <1>1, <1>2, RescheduleKeeps

LEMMA CacheCorruptedKeeps ==
  ASSUME SnapInv, NEW e \in Engines, CacheCorrupted(e) PROVE SnapInv'
<1>1. PICK failed \in SUBSET Running(e) : Reschedule(e, failed)
  BY DEF CacheCorrupted
<1>2. executor = None /\ executor' = None /\ ForgetSnapshots(e) /\ UNCHANGED <<up, done>> /\ faults' = faults + 1
  BY DEF CacheCorrupted
<1>3. /\ \A q \in Requests : phase[q] = "prefill" => EngineOf[q] = e
      /\ faults' \in Nat /\ faults' >= faults
  BY <1>2 DEF SnapInv, Places, StoreTypes
<1> QED BY <1>1, <1>2, <1>3, RescheduleKeeps

LEMMA StopEngineKeeps ==
  ASSUME SnapInv, NEW e \in Engines, StopEngine(e) PROVE SnapInv'
<1>0. RequestTypes /\ StoreTypes /\ Places /\ Captured
  BY DEF SnapInv
<1>1. /\ up' = [up EXCEPT ![e] = FALSE]
      /\ phase' = [r \in Requests |-> IF EngineOf[r] = e THEN "gone" ELSE phase[r]]
      /\ ForgetSnapshots(e)
      /\ UNCHANGED <<base, length, done, made, attempt, executor, faults>>
  BY DEF StopEngine
<1>2. RequestTypes'
  BY <1>0, <1>1 DEF RequestTypes
<1>3. \A d \in Engines : d # e => up'[d] = up[d]
  BY <1>0, <1>1 DEF RequestTypes
<1>4. /\ StoreTypes' /\ SnapshotsExact' /\ BufferIsMarked' /\ FirstWrites' /\ Findable'
      /\ \A q \in Requests : /\ EngineOf[q] # e => marks'[q] = marks[q]
                             /\ EngineOf[q] = e => DOMAIN marks'[q] = {}
  <2>1. \A q \in Requests :
           /\ attempt'[q] >= attempt[q] /\ attempt'[q] = attempt[q]
           /\ EngineOf[q] # e => phase'[q] = phase[q]
           /\ EngineOf[q] = e => phase'[q] = "gone"
    BY <1>0, <1>1 DEF RequestTypes
  <2>2. attempt' \in [Requests -> Nat] /\ faults' \in Nat /\ faults' >= faults
    BY <1>0, <1>1 DEF RequestTypes, StoreTypes
  <2> QED BY <1>1, <1>3, <2>1, <2>2, ForgetKeeps
<1>5. \A q \in Requests : EngineOf[q] \in Engines
  BY SnapshotAssumption
<1>6. Places'
  BY <1>0, <1>1, <1>3, <1>4, <1>5 DEF Places, Live, RequestTypes
<1>7. Captured'
  BY <1>0, <1>1, <1>4 DEF Captured, Prompt, BoundariesIn
<1> QED BY <1>2, <1>4, <1>6, <1>7 DEF SnapInv

\* A starting engine removes the directory before it has any request.
LEMMA StartEngineKeeps ==
  ASSUME SnapInv, NEW e \in Engines, StartEngine(e) PROVE SnapInv'
<1>0. /\ RequestTypes /\ StoreTypes /\ Places /\ Captured
      /\ SnapshotsExact /\ BufferIsMarked /\ FirstWrites /\ Findable
  BY DEF SnapInv
<1>1. /\ \A r \in Requests : EngineOf[r] = e => phase[r] = "new"
      /\ up' = [up EXCEPT ![e] = TRUE] /\ RemoveDirectory(e)
      /\ UNCHANGED <<phase, base, length, done, made, attempt, executor, marks, pending, queue, writer, faults>>
  BY DEF StartEngine, OfEngine
<1>2. /\ DOMAIN files' = {} /\ swept \subseteq swept'
      /\ \A q \in Requests, t \in Nat : <<q, t>> \in DOMAIN files /\ EngineOf[q] # e => <<q, t>> \in swept'
  BY <1>1 DEF RemoveDirectory, Empty
<1>3. up' \in [Engines -> BOOLEAN] /\ \A d \in Engines : up[d] => up'[d]
  BY <1>0, <1>1 DEF RequestTypes
<1>4. RequestTypes' /\ StoreTypes'
  BY <1>0, <1>1, <1>2, <1>3 DEF RequestTypes, StoreTypes
<1>5. Places'
  BY <1>0, <1>1, <1>3, SnapshotAssumption DEF Places, Live
<1>6. Captured'
  BY <1>0, <1>1 DEF Captured, Prompt, BoundariesIn
<1>7. SnapshotsExact'
  BY <1>0, <1>1, <1>2 DEF SnapshotsExact, Fits
<1>8. BufferIsMarked' /\ FirstWrites'
  BY <1>0, <1>1, <1>3 DEF BufferIsMarked, FirstWrites, FirstWrite, WriterHas
<1>9. Findable'
  <2>1. SUFFICES ASSUME NEW q \in Requests, phase[q] \in {"prefill", "decode"},
                        NEW t \in DOMAIN marks[q], marks[q][t] = None
                 PROVE  \/ <<q, t>> \in DOMAIN pending[EngineOf[q]]
                        \/ <<q, t>> \in swept' \/ (attempt[q] > 1 /\ faults > 0)
    BY <1>1 DEF Findable, Excused
  <2>2. \/ <<q, t>> \in DOMAIN pending[EngineOf[q]] \/ <<q, t>> \in DOMAIN files
        \/ <<q, t>> \in swept \/ (attempt[q] > 1 /\ faults > 0)
    BY <1>0, <2>1 DEF Findable, OnDisk, Excused
  <2>3. EngineOf[q] # e /\ t \in Nat
    BY <1>0, <1>1, <2>1 DEF StoreTypes
  <2> QED BY <1>2, <2>2, <2>3
<1> QED BY <1>4, <1>5, <1>6, <1>7, <1>8, <1>9 DEF SnapInv

-----------------------------------------------------------------------------
(* The writer.                                                             *)

\* Of the store, a writer's step changes what is its own, one file and the
\* temporary files.
LEMMA WriterFrame ==
  ASSUME SnapInv, UNCHANGED <<reqVars, swept>>,
         StoreTypes', SnapshotsExact', BufferIsMarked', FirstWrites', Findable'
  PROVE  SnapInv'
<1>1. RequestTypes' /\ Places' /\ Captured'
  BY DEF SnapInv, reqVars, RequestTypes, Places, Live, Captured, Prompt, BoundariesIn
<1> QED BY <1>1 DEF SnapInv

LEMMA TakeItemKeeps ==
  ASSUME SnapInv, NEW e \in Engines, TakeItem(e) PROVE SnapInv'
<1>0. StoreTypes /\ SnapshotsExact /\ BufferIsMarked /\ FirstWrites /\ Findable
  BY DEF SnapInv
<1>1. /\ writer[e] = Idle /\ queue[e] # << >>
      /\ writer' = [writer EXCEPT ![e] = [at |-> "write", item |-> Head(queue[e])]]
      /\ queue' = [queue EXCEPT ![e] = Tail(queue[e])]
      /\ UNCHANGED <<reqVars, pending, files, temps, swept, faults>>
  BY DEF TakeItem
<1>2. UNCHANGED <<phase, attempt, marks, up>>
  BY <1>1 DEF reqVars
<1>3. PICK q, h : q = queue[e] /\ h = Head(q)
  OBVIOUS
<1>4. /\ q \in Seq(Item) /\ q # << >> /\ h \in Item /\ h.key \in OwnKeys(e) /\ Fits(h.key, h.val)
      /\ Tail(q) \in Seq(Item) /\ Len(q) \in Nat /\ Len(Tail(q)) = Len(q) - 1
      /\ \A i \in 1..Len(Tail(q)) : Tail(q)[i] = q[i + 1]
  <2>1. q \in Seq(Item) /\ q # << >>
    BY <1>0, <1>1, <1>3 DEF StoreTypes
  <2>2. /\ Tail(q) \in Seq(Item) /\ Len(q) \in Nat /\ Len(q) >= 1 /\ Len(Tail(q)) = Len(q) - 1
        /\ \A i \in 1..Len(Tail(q)) : Tail(q)[i] = q[i + 1]
        /\ h = q[1] /\ h \in Item
    BY <1>3, <2>1
  <2>3. 1 \in 1..Len(q)
    BY <2>2
  <2> QED BY <1>0, <1>3, <2>1, <2>2, <2>3 DEF StoreTypes, SnapshotsExact
<1>5. /\ DOMAIN writer' = Engines /\ writer'[e] = [at |-> "write", item |-> h]
      /\ \A d \in Engines : d # e => writer'[d] = writer[d] /\ queue'[d] = queue[d]
      /\ queue'[e] = Tail(q) /\ queue' \in [Engines -> Seq(Item)]
  BY <1>0, <1>1, <1>3, <1>4 DEF StoreTypes
<1>6. \A d \in Engines : \A i \in 1..Len(queue'[d]) :
        \E j \in 1..Len(queue[d]) : queue'[d][i] = queue[d][j]
  <2>1. \A i \in 1..Len(Tail(q)) : i + 1 \in 1..Len(q)
    BY <1>4
  <2>2. \A d \in Engines : d # e => queue'[d] = queue[d]
    BY <1>5
  <2>3. \A i \in 1..Len(queue'[e]) : i + 1 \in 1..Len(queue[e]) /\ queue'[e][i] = queue[e][i + 1]
    BY <1>3, <1>4, <1>5, <2>1
  <2> QED BY <2>2, <2>3
<1>7. StoreTypes'
  <2>1. \A d \in Engines : \A i \in 1..Len(queue'[d]) : queue'[d][i].key \in OwnKeys(d)
    BY <1>0, <1>6 DEF StoreTypes
  <2>2. writer'[e] \in [at : Working, item : Item] /\ writer'[e].item.key \in OwnKeys(e)
    BY <1>4, <1>5 DEF Working
  <2> QED BY <1>0, <1>1, <1>2, <1>5, <2>1, <2>2 DEF StoreTypes
<1>8. SnapshotsExact'
  <2>1. \A d \in Engines : \A i \in 1..Len(queue'[d]) : Fits(queue'[d][i].key, queue'[d][i].val)
    BY <1>0, <1>6 DEF SnapshotsExact
  <2>2. Fits(writer'[e].item.key, writer'[e].item.val)
    BY <1>4, <1>5
  <2>3. \A d \in Engines : writer'[d].at \in {"write", "rename", "finish"} =>
          Fits(writer'[d].item.key, writer'[d].item.val)
    BY <1>0, <1>5, <2>2 DEF SnapshotsExact
  <2> QED BY <1>0, <1>1, <1>2, <2>1, <2>3, SMTT(40) DEF SnapshotsExact, Fits
<1>9. BufferIsMarked'
  BY <1>0, <1>1, <1>2 DEF BufferIsMarked
<1>10. FirstWrites'
  <2>1. SUFFICES ASSUME NEW r \in Requests, attempt[r] <= 1, phase[r] # "gone", NEW t \in Nat
                 PROVE  FirstWrite(r, t)'
    BY <1>2 DEF FirstWrites
  <2>2. FirstWrite(r, t) /\ EngineOf[r] \in Engines
    BY <1>0, <2>1, KeyFacts DEF FirstWrites
  <2>3. CASE EngineOf[r] # e
    BY <1>1, <1>2, <1>5, <2>2, <2>3 DEF FirstWrite, WriterHas
  <2>4. CASE EngineOf[r] = e
    <3>1. /\ Awaits(Tail(q), <<r, t>>) => Awaits(q, <<r, t>>)
          /\ Once(q, <<r, t>>) => Once(Tail(q), <<r, t>>)
          /\ h.key = <<r, t>> => Awaits(q, <<r, t>>)
          /\ Once(q, <<r, t>>) /\ h.key = <<r, t>> => ~Awaits(Tail(q), <<r, t>>)
      BY <1>3, <1>4, TakenItem
    <3>2. WriterHas(e, <<r, t>>)' => h.key = <<r, t>>
      BY <1>5 DEF WriterHas
    <3> QED BY <1>1, <1>2, <1>3, <1>5, <2>2, <2>4, <3>1, <3>2 DEF FirstWrite
  <2> QED BY <2>3, <2>4
<1>11. Findable'
  <2>1. \A d \in Engines : writer'[d].at = "rename" => writer'[d] = writer[d]
    BY <1>5
  <2> QED BY <1>0, <1>1, <1>2, <2>1, SnapshotAssumption DEF Findable, OnDisk, Excused
<1> QED BY <1>1, <1>7, <1>8, <1>9, <1>10, <1>11, WriterFrame

\* What the steps after it share: the writer keeps its item, or drops it, and
\* leaves the files of other keys alone.
LEMMA WriterMoves ==
  ASSUME SnapInv, NEW e \in Engines, writer[e].at \in Working, NEW k, k = writer[e].item.key,
         UNCHANGED <<reqVars, queue, swept>>, faults' \in Nat, faults' >= faults,
         DOMAIN writer' = Engines,
         \A d \in Engines : d # e => writer'[d] = writer[d],
         \/ writer'[e] \in [at : {"idle", "dead"}]
         \/ /\ writer'[e] \in [at : Working, item : Item] /\ writer'[e].item = writer[e].item
            /\ writer'[e].at = "finish" => writer[e].at \in {"write", "rename"}
            /\ writer'[e].at = "rename" => writer[e].at = "write" /\ k \in temps'
            /\ writer'[e].at # "write",
         DOMAIN pending' = Engines,
         \A d \in Engines : /\ DOMAIN pending'[d] \subseteq DOMAIN pending[d]
                            /\ \A x \in DOMAIN pending'[d] : pending'[d][x] = pending[d][x]
                            /\ \A x \in DOMAIN pending[d] : x # k => x \in DOMAIN pending'[d],
         \A x \in DOMAIN files' :
           \/ x \in DOMAIN files /\ files'[x] = files[x]
           \/ x = k /\ files'[x] = writer[e].item.val /\ writer[e].at = "rename",
         \A x \in Keys : x # k => (x \in DOMAIN files' <=> x \in DOMAIN files) /\ (x \in temps' <=> x \in temps),
         k \notin DOMAIN pending'[e] =>
           k \notin DOMAIN pending[e] \/ (k \in DOMAIN files' /\ writer'[e] \in [at : {"idle", "dead"}]),
         k \in DOMAIN files => k \in DOMAIN files' \/ faults' > 0 \/ (writer[e].at = "rename" /\ k \notin temps)
  PROVE  SnapInv'
<1>0. RequestTypes /\ StoreTypes /\ SnapshotsExact /\ BufferIsMarked /\ FirstWrites /\ Findable
  BY DEF SnapInv
<1>1. UNCHANGED <<phase, attempt, marks, up, queue, swept>>
  BY DEF reqVars
<1>2. /\ writer[e] \in [at : Working, item : Item] /\ k \in OwnKeys(e) /\ k \in Keys
  <2>1. writer[e] \notin [at : {"idle", "dead"}]
    BY DEF Working
  <2> QED BY <1>0, <2>1 DEF StoreTypes, OwnKeys
<1>3. \A d \in Engines : k \in OwnKeys(d) => d = e
  BY <1>2 DEF OwnKeys
<1>4. \A d \in Engines : d # e => DOMAIN pending'[d] = DOMAIN pending[d]
  <2>1. \A d \in Engines : d # e => k \notin DOMAIN pending[d]
    BY <1>0, <1>3 DEF StoreTypes
  <2>2. ASSUME NEW d \in Engines, d # e PROVE DOMAIN pending[d] \subseteq DOMAIN pending'[d]
    BY <2>1, <2>2
  <2> QED BY <2>2
<1>5. StoreTypes'
  <2>1. \A x \in DOMAIN files' : x \in Keys /\ files'[x] \in Snapshot
    BY <1>0, <1>2 DEF StoreTypes, Item
  <2>2. \A d \in Engines : \A x \in DOMAIN pending'[d] : x \in OwnKeys(d) /\ pending'[d][x] \in Snapshot
    BY <1>0 DEF StoreTypes
  <2>3. \A d \in Engines :
          \/ writer'[d] \in [at : {"idle", "dead"}]
          \/ writer'[d] \in [at : Working, item : Item] /\ writer'[d].item.key \in OwnKeys(d)
    BY <1>0, <1>2 DEF StoreTypes
  <2> QED BY <1>0, <1>1, <2>1, <2>2, <2>3 DEF StoreTypes
<1>6. SnapshotsExact'
  <2>1. writer[e].at \in {"write", "rename", "finish"} => Fits(k, writer[e].item.val)
    BY <1>0 DEF SnapshotsExact
  <2>2. \A x \in DOMAIN files' : Fits(x, files'[x])
    BY <1>0, <2>1 DEF SnapshotsExact
  <2>3. \A d \in Engines : \A x \in DOMAIN pending'[d] : Fits(x, pending'[d][x])
    BY <1>0 DEF SnapshotsExact
  <2>4. \A d \in Engines : writer'[d].at \in {"write", "rename", "finish"} =>
          Fits(writer'[d].item.key, writer'[d].item.val)
    BY <1>0, <2>1 DEF SnapshotsExact
  <2> QED BY <1>0, <1>1, <2>2, <2>3, <2>4, SMTT(40) DEF SnapshotsExact, Fits
<1>7. BufferIsMarked'
  BY <1>0, <1>1 DEF BufferIsMarked
<1>8. FirstWrites'
  <2>1. SUFFICES ASSUME NEW r \in Requests, attempt[r] <= 1, phase[r] # "gone", NEW t \in Nat
                 PROVE  FirstWrite(r, t)'
    BY <1>1 DEF FirstWrites
  <2>2. FirstWrite(r, t) /\ EngineOf[r] \in Engines
    BY <1>0, <2>1, KeyFacts DEF FirstWrites
  <2>3. WriterHas(EngineOf[r], <<r, t>>)' => WriterHas(EngineOf[r], <<r, t>>)
    BY <2>2 DEF WriterHas, Working
  <2>4. CASE <<r, t>> # k
    <3>1. <<r, t>> \in DOMAIN pending[EngineOf[r]] => <<r, t>> \in DOMAIN pending'[EngineOf[r]]
      BY <2>2, <2>4
    <3> QED BY <1>1, <2>2, <2>3, <3>1 DEF FirstWrite
  <2>5. CASE <<r, t>> = k
    <3>1. EngineOf[r] = e
      <4>1. <<r, t>> \in OwnKeys(EngineOf[r])
        BY KeyFacts
      <4> QED BY <1>3, <2>2, <2>5, <4>1
    <3>2. WriterHas(e, k) /\ k \in DOMAIN pending[e] /\ ~Awaits(queue[e], k)
      BY <2>2, <2>5, <3>1 DEF FirstWrite, WriterHas
    <3>3. WriterHas(e, k)' => k \in DOMAIN pending'[e]
      BY <3>2 DEF WriterHas, Working
    <3> QED BY <1>1, <2>2, <2>3, <2>5, <3>1, <3>2, <3>3 DEF FirstWrite
  <2> QED BY <2>4, <2>5
<1>9. Findable'
  <2>1. SUFFICES ASSUME NEW r \in Requests, phase[r] \in {"prefill", "decode"},
                        NEW t \in DOMAIN marks[r], marks[r][t] = None
                 PROVE  \/ <<r, t>> \in DOMAIN pending'[EngineOf[r]]
                        \/ OnDisk(EngineOf[r], <<r, t>>)'
                        \/ <<r, t>> \in swept \/ (attempt[r] > 1 /\ faults' > 0)
    BY <1>1 DEF Findable, Excused
  <2>2. \/ <<r, t>> \in DOMAIN pending[EngineOf[r]]
        \/ OnDisk(EngineOf[r], <<r, t>>)
        \/ <<r, t>> \in swept \/ (attempt[r] > 1 /\ faults > 0)
    BY <1>0, <2>1 DEF Findable, Excused
  <2>3. /\ t \in Nat /\ EngineOf[r] \in Engines /\ <<r, t>> \in Keys
        /\ faults > 0 => faults' > 0
    BY <1>0, <2>1, SnapshotAssumption DEF StoreTypes, Keys
  <2>4. CASE <<r, t>> # k
    <3>1. <<r, t>> \in DOMAIN pending[EngineOf[r]] => <<r, t>> \in DOMAIN pending'[EngineOf[r]]
      BY <2>3, <2>4
    <3>2. OnDisk(EngineOf[r], <<r, t>>) => OnDisk(EngineOf[r], <<r, t>>)'
      BY <1>2, <2>3, <2>4 DEF OnDisk
    <3> QED BY <2>2, <2>3, <3>1, <3>2
  <2>5. CASE <<r, t>> = k
    <3>1. EngineOf[r] = e
      <4>1. <<r, t>> \in OwnKeys(EngineOf[r])
        BY <2>3, KeyFacts
      <4> QED BY <1>3, <2>3, <2>5, <4>1
    <3>2. CASE k \in DOMAIN pending'[e]
      BY <2>5, <3>1, <3>2
    <3>3. CASE k \notin DOMAIN pending'[e] /\ k \in DOMAIN pending[e]
      BY <2>5, <3>1, <3>3 DEF OnDisk
    <3>4. CASE k \notin DOMAIN pending[e]
      <4>1. attempt[r] > 1
        <5>1. attempt[r] <= 1 => FirstWrite(r, t)
          BY <1>0, <2>1, <2>3 DEF FirstWrites
        <5>2. attempt[r] <= 1 => k \in DOMAIN pending[e]
          BY <2>5, <3>1, <5>1 DEF FirstWrite, WriterHas
        <5> QED BY <1>0, <3>4, <5>2 DEF RequestTypes
      <4>2. OnDisk(e, k) => OnDisk(e, k)' \/ faults' > 0
        BY DEF OnDisk
      <4> QED BY <2>2, <2>3, <2>5, <3>1, <3>4, <4>1, <4>2
    <3> QED BY <3>2, <3>3, <3>4
  <2> QED BY <2>4, <2>5
<1> QED BY <1>5, <1>6, <1>7, <1>8, <1>9, WriterFrame

LEMMA WriteTempKeeps ==
  ASSUME SnapInv, NEW e \in Engines, WriteTemp(e) PROVE SnapInv'
<1>0. StoreTypes
  BY DEF SnapInv
<1>1. PICK k : k = writer[e].item.key
  OBVIOUS
<1>2. /\ writer[e].at = "write" /\ temps' = temps \cup {k}
      /\ writer' = [writer EXCEPT ![e].at = "rename"]
      /\ UNCHANGED <<reqVars, pending, queue, files, swept, faults>>
  BY <1>1 DEF WriteTemp
<1>3. writer[e] \in [at : Working, item : Item]
  BY <1>0, <1>2 DEF StoreTypes
<1>4. /\ DOMAIN writer' = Engines /\ \A d \in Engines : d # e => writer'[d] = writer[d]
      /\ writer'[e] \in [at : Working, item : Item] /\ writer'[e].item = writer[e].item
      /\ writer'[e].at = "rename" /\ writer[e].at \in Working
  BY <1>0, <1>2, <1>3 DEF StoreTypes, Working
<1>5. faults' \in Nat /\ faults' >= faults /\ DOMAIN pending' = Engines
  BY <1>0, <1>2 DEF StoreTypes
<1> QED BY <1>1, <1>2, <1>4, <1>5, WriterMoves

LEMMA WriteFailsKeeps ==
  ASSUME SnapInv, NEW e \in Engines, WriteFails(e) PROVE SnapInv'
<1>0. StoreTypes
  BY DEF SnapInv
<1>1. PICK k : k = writer[e].item.key
  OBVIOUS
<1>2. PICK end \in {"finish", "dying"} : writer' = [writer EXCEPT ![e].at = end]
  BY DEF WriteFails
<1>3. /\ writer[e].at = "write" /\ faults' = faults + 1
      /\ UNCHANGED <<reqVars, pending, queue, swept>>
      /\ \A x \in DOMAIN files' : x \in DOMAIN files /\ files'[x] = files[x]
      /\ \A x \in Keys : x # k => (x \in DOMAIN files' <=> x \in DOMAIN files) /\ (x \in temps' <=> x \in temps)
  BY <1>1 DEF WriteFails, Unlink, Drop
<1>4. writer[e] \in [at : Working, item : Item]
  BY <1>0, <1>3 DEF StoreTypes
<1>5. /\ DOMAIN writer' = Engines /\ \A d \in Engines : d # e => writer'[d] = writer[d]
      /\ writer'[e] \in [at : Working, item : Item] /\ writer'[e].item = writer[e].item
      /\ writer'[e].at = end /\ writer[e].at \in Working
  BY <1>0, <1>2, <1>3, <1>4 DEF StoreTypes, Working
<1>6. faults' \in Nat /\ faults' >= faults /\ faults' > 0 /\ DOMAIN pending' = Engines
  BY <1>0, <1>3 DEF StoreTypes
<1> QED BY <1>1, <1>3, <1>5, <1>6, WriterMoves

LEMMA RenameTempKeeps ==
  ASSUME SnapInv, NEW e \in Engines, RenameTemp(e) PROVE SnapInv'
<1>0. StoreTypes
  BY DEF SnapInv
<1>1. PICK k : k = writer[e].item.key
  OBVIOUS
<1>2. /\ writer[e].at = "rename" /\ writer' = [writer EXCEPT ![e].at = "finish"]
      /\ UNCHANGED <<reqVars, pending, queue, swept, faults>>
  BY DEF RenameTemp
<1>3. /\ \A x \in DOMAIN files' :
           (x \in DOMAIN files /\ files'[x] = files[x]) \/ (x = k /\ files'[x] = writer[e].item.val)
      /\ \A x \in Keys : x # k => (x \in DOMAIN files' <=> x \in DOMAIN files) /\ (x \in temps' <=> x \in temps)
      /\ k \in DOMAIN files => k \in DOMAIN files' \/ k \notin temps
  <2>1. CASE k \in temps
    <3>1. files' = Put(files, k, writer[e].item.val) /\ temps' = temps \ {k}
      BY <1>1, <2>1 DEF RenameTemp
    <3> QED BY <3>1 DEF Put
  <2>2. CASE k \notin temps
    <3>1. files' = Drop(files, {k}) /\ temps' = temps \ {k}
      BY <1>1, <2>2 DEF RenameTemp, Unlink
    <3> QED BY <2>2, <3>1 DEF Drop
  <2> QED BY <2>1, <2>2
<1>4. writer[e] \in [at : Working, item : Item]
  BY <1>0, <1>2 DEF StoreTypes
<1>5. /\ DOMAIN writer' = Engines /\ \A d \in Engines : d # e => writer'[d] = writer[d]
      /\ writer'[e] \in [at : Working, item : Item] /\ writer'[e].item = writer[e].item
      /\ writer'[e].at = "finish" /\ writer[e].at \in Working
  BY <1>0, <1>2, <1>4 DEF StoreTypes, Working
<1>6. faults' \in Nat /\ faults' >= faults /\ DOMAIN pending' = Engines
  BY <1>0, <1>2 DEF StoreTypes
<1> QED BY <1>1, <1>2, <1>3, <1>5, <1>6, WriterMoves

LEMMA FinishWriteKeeps ==
  ASSUME SnapInv, NEW e \in Engines, FinishWrite(e) PROVE SnapInv'
<1>0. StoreTypes
  BY DEF SnapInv
<1>1. PICK k : k = writer[e].item.key
  OBVIOUS
<1>2. /\ writer[e].at \in {"finish", "dying"}
      /\ pending' = IF k \in DOMAIN files THEN [pending EXCEPT ![e] = Drop(pending[e], {k})] ELSE pending
      /\ writer' = [writer EXCEPT ![e] = IF writer[e].at = "dying" THEN [at |-> "dead"] ELSE Idle]
      /\ UNCHANGED <<reqVars, queue, files, temps, swept, faults>>
  BY <1>1 DEF FinishWrite
<1>3. /\ DOMAIN writer' = Engines /\ \A d \in Engines : d # e => writer'[d] = writer[d]
      /\ writer'[e] \in [at : {"idle", "dead"}] /\ writer[e].at \in Working
  BY <1>0, <1>2 DEF StoreTypes, Working, Idle
<1>4. /\ DOMAIN pending' = Engines
      /\ \A d \in Engines : /\ DOMAIN pending'[d] \subseteq DOMAIN pending[d]
                            /\ \A x \in DOMAIN pending'[d] : pending'[d][x] = pending[d][x]
                            /\ \A x \in DOMAIN pending[d] : x # k => x \in DOMAIN pending'[d]
      /\ k \in DOMAIN files \/ DOMAIN pending'[e] = DOMAIN pending[e]
  <2>1. CASE k \in DOMAIN files
    <3>1. DOMAIN pending' = Engines /\ pending'[e] = Drop(pending[e], {k})
          /\ \A d \in Engines : d # e => pending'[d] = pending[d]
      BY <1>0, <1>2, <2>1 DEF StoreTypes
    <3>2. DOMAIN pending'[e] = DOMAIN pending[e] \ {k} /\ \A x \in DOMAIN pending'[e] : pending'[e][x] = pending[e][x]
      BY <3>1 DEF Drop
    <3> QED BY <2>1, <3>1, <3>2
  <2>2. CASE k \notin DOMAIN files
    BY <1>0, <1>2, <2>2 DEF StoreTypes
  <2> QED BY <2>1, <2>2
<1>5. faults' \in Nat /\ faults' >= faults
  BY <1>0, <1>2 DEF StoreTypes
<1> QED BY <1>1, <1>2, <1>3, <1>4, <1>5, WriterMoves, ZenonT(40)

-----------------------------------------------------------------------------
(* SnapInv is inductive and implies what is checked.                       *)

LEMMA SnapInitHolds == SnapInit => SnapInv
<1> SUFFICES ASSUME SnapInit PROVE SnapInv
  OBVIOUS
<1> USE DEF SnapInit, Empty, Idle
<1>1. RequestTypes /\ StoreTypes
  BY DEF RequestTypes, StoreTypes
<1>2. Places /\ Captured
  BY DEF Places, Live, Captured
<1>3. SnapshotsExact /\ BufferIsMarked
  BY DEF SnapshotsExact, BufferIsMarked
<1>4. FirstWrites /\ Findable
  BY SnapshotAssumption DEF FirstWrites, FirstWrite, Awaits, Once, WriterHas, Working, Findable
<1> QED BY <1>1, <1>2, <1>3, <1>4 DEF SnapInv

LEMMA SnapStepHolds == SnapInv /\ [SnapNext]_snapVars => SnapInv'
<1> SUFFICES ASSUME SnapInv, [SnapNext]_snapVars PROVE SnapInv'
  OBVIOUS
<1>1. ASSUME NEW r \in Requests,
             \/ Arrive(r) \/ StartPrefill(r) \/ PrefillChunk(r) \/ ChunkGoesOn(r) \/ EndPrefill(r)
             \/ Decode(r) \/ Finish(r) \/ RequestAbort(r) \/ ProcessAbort(r)
             \/ PrefillAborted(r) \/ MemoryExceeded(r)
      PROVE  SnapInv'
  <2>1. CASE RequestAbort(r)
    BY <2>1, RequestAbortKeeps DEF RequestAbort
  <2> QED BY <1>1, <2>1, ArriveKeeps, StartPrefillKeeps, PrefillChunkKeeps, ChunkGoesOnKeeps,
             EndPrefillKeeps, DecodeKeeps, FinishKeeps, ProcessAbortKeeps, PrefillAbortedKeeps,
             MemoryExceededKeeps
<1>2. ASSUME NEW e \in Engines, CacheCorrupted(e) \/ StartEngine(e) \/ StopEngine(e) \/ WriterStep(e)
      PROVE  SnapInv'
  BY <1>2, CacheCorruptedKeeps, StartEngineKeeps, StopEngineKeeps, TakeItemKeeps, WriteTempKeeps,
     WriteFailsKeeps, RenameTempKeeps, FinishWriteKeeps DEF WriterStep
<1>3. CASE UNCHANGED snapVars
  BY <1>3, RequestAbortKeeps DEF snapVars, reqVars, storeVars
<1> QED BY <1>1, <1>2, <1>3 DEF SnapNext

\* What is marked is loaded, as a buffered snapshot or a file is never None.
LEMMA SnapInvIsSound == SnapInv => SnapshotsSound
<1> SUFFICES ASSUME SnapInv PROVE SnapshotsSound
  OBVIOUS
<1>1. \A r \in Requests : EveryBoundary(r)
  BY DEF SnapInv, Captured, EveryBoundary, BoundariesIn
<1>2. ASSUME NEW r \in Requests, phase[r] \in {"prefill", "decode"},
             NEW tc \in DOMAIN ReadBack(r, Prompt(r) + made[r])
      PROVE  ReadBack(r, Prompt(r) + made[r])[tc] # None \/ Excused(r, tc)
  <2>1. /\ tc \in DOMAIN marks[r]
        /\ ReadBack(r, Prompt(r) + made[r])[tc] = IF marks[r][tc] = None THEN Load(r, tc) ELSE marks[r][tc]
    BY <1>2 DEF ReadBack
  <2>2. CASE marks[r][tc] # None
    BY <2>1, <2>2
  <2>3. CASE marks[r][tc] = None
    <3>1. \/ <<r, tc>> \in DOMAIN pending[EngineOf[r]] \/ <<r, tc>> \in DOMAIN files \/ Excused(r, tc)
      BY <1>2, <2>1, <2>3 DEF SnapInv, Findable, OnDisk
    <3>2. /\ <<r, tc>> \in DOMAIN pending[EngineOf[r]] => pending[EngineOf[r]][<<r, tc>>] \in Snapshot
          /\ <<r, tc>> \in DOMAIN files => files[<<r, tc>>] \in Snapshot
          /\ None \notin Snapshot
      BY SnapshotAssumption DEF SnapInv, StoreTypes
    <3>3. Load(r, tc) # None \/ Excused(r, tc)
      BY <3>1, <3>2 DEF Load
    <3> QED BY <2>1, <2>3, <3>3
  <2> QED BY <2>2, <2>3
<1>3. \A r \in Requests : MarkedIsFound(r)
  BY <1>2 DEF MarkedIsFound, Excused
<1> QED BY <1>1, <1>3 DEF SnapshotsSound, SnapshotsConsistent, SnapshotsComplete, SnapInv

\* Whatever is kept of a snapshot is the state of that request after so many
\* tokens, every boundary is captured, and what is marked as saved is found.
THEOREM BoundarySnapshotsSound == SnapSpec => []SnapshotsSound
<1>1. SnapInit => SnapInv
  BY SnapInitHolds
<1>2. SnapInv /\ [SnapNext]_snapVars => SnapInv'
  BY SnapStepHolds
<1>3. SnapInv => SnapshotsSound
  BY SnapInvIsSound
<1> QED BY <1>1, <1>2, <1>3, PTL DEF SnapSpec
=============================================================================
