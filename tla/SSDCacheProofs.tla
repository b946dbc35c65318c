---------------------------- MODULE SSDCacheProofs ----------------------------
(***************************************************************************)
(* Theorems about the SSD cache of omlx/cache/paged_ssd_cache.py (module   *)
(* SSDCache), for any blocks, sizes, limits and queue lengths, and any     *)
(* number of restarts and failures: the sizes that evictions go by are     *)
(* those of the blocks that are there, the index and the files tell of the *)
(* same blocks, and without the hot cache a saved block stays loadable.    *)
(*                                                                         *)
(* SSDInv is inductive.  Shapes, Thread and Levels say where the two       *)
(* threads are and what they hold; Sizes accounts for the bytes; Trail     *)
(* follows each indexed block on its way to its file, in both modes; and   *)
(* the last four say what more is known without the hot cache.            *)
(***************************************************************************)
EXTENDS SSDCache, DataTheorems

-----------------------------------------------------------------------------
(* The invariant                                                           *)

Item   == (Hash \X Level) \cup {None}
Places == {"idle", "lookup", "save", "flush", "add", "put", "missing", "read", "signal", "join"}
Stages == {"idle", "write", "fill", "rename", "check", "drop", "failed", "clean", "finish", "gone"}
Busy   == writer.at \notin {"idle", "gone"}

Procs   == [at: Places, h: Hash \cup {None}, unlinks: Seq(Hash \X Level), flush: Seq(Hash)]
Writers == [at: Stages, h: Hash \cup {None}, k: Level]

Shapes ==
  /\ index \in Seq(Hash) /\ IsInjective(index)
  /\ hot \in Seq(Hash) /\ IsInjective(hot)
  /\ fileSize \in [Hash -> Nat] /\ level \in [Hash -> Level]
  /\ files \in [Hash \X Level -> {"none", "partial", "complete"}]
  /\ writeQueue \in Seq(Item) /\ Len(writeQueue) <= QueueSize
  /\ writer \in Writers /\ proc \in Procs
  /\ promise \in [Hash -> {"yes", "no", "buffer"}]
  /\ hot_enabled \in Modes /\ shutdown \in BOOLEAN
  /\ phase \in {"open", "closing", "closed"}
  /\ scanned \in Nat /\ restarts \in 0 .. MaxRestarts
  /\ failed \subseteq Hash /\ removed \subseteq Hash

\* What the places of the two threads say of what they hold.
Thread ==
  /\ proc.at \in {"lookup", "save", "missing", "read"} => proc.h \in Hash /\ phase = "open"
  /\ proc.at \in {"lookup", "save"} => proc.h \notin Indexed
  /\ proc.at \in {"add", "put"} => proc.flush # <<>>
  /\ proc.at = "add" => Flushed \notin Indexed
  /\ proc.at \notin {"flush", "add", "put"} => proc.flush = <<>>
  /\ proc.at \notin {"save", "add"} => proc.unlinks = <<>>
  /\ proc.at \in {"signal", "join"} => phase = "closing"
  /\ phase = "closing" => proc.at \in {"flush", "add", "put", "signal", "join"}
  /\ phase = "closed" => proc.at = "idle" /\ hot = <<>> /\ writer.at = "gone"
  /\ shutdown => proc.at = "join" \/ phase = "closed"
  /\ writer.at = "gone" => shutdown /\ writeQueue = <<>>
  /\ writer.h \in Hash <=> Busy
  /\ \A i \in 1 .. Len(writeQueue) :
       writeQueue[i] = None => shutdown /\ i = Len(writeQueue)
  /\ \A f \in ToSet(proc.unlinks) : f[1] \notin Indexed

\* A block is written to the file that the index names, or, if it was saved
\* again meanwhile, to the file it had before.
OfLevel(h, k) == k <= restarts /\ level[h] \in {0, k}

Levels ==
  /\ \A h \in Hash : level[h] <= restarts
  /\ \A h \in Hash, k \in Level : files[<<h, k>>] # "none" => k <= restarts + 1
  /\ \A h \in Hash : files[<<h, 0>>] # "partial" /\ files[<<h, level[h]>>] # "partial"
  /\ Busy => OfLevel(writer.h, writer.k)
  /\ \A i \in 1 .. Len(writeQueue) :
       writeQueue[i] # None => OfLevel(writeQueue[i][1], writeQueue[i][2])

\* What a size is without what the header may have grown by.
Basis == [h \in Hash |-> IF fileSize[h] <= Estimate(h) THEN fileSize[h] ELSE Estimate(h)]

Sizes ==
  /\ \A h \in Hash : fileSize[h] \in {0, Estimate(h), WrittenSize[h]}
  /\ \A h \in Indexed \cup ToSet(proc.flush) : fileSize[h] # 0
  /\ hot_enabled => \A h \in InHot : fileSize[h] # 0
  /\ proc.at = "read" => fileSize[proc.h] # 0
  /\ SizesExact
  /\ ~hot_enabled => hotTotal = 0
  /\ HotBounded
  /\ \/ total <= scanned /\ \A h \in Indexed : fileSize[h] = WrittenSize[h]
     \/ SumOf(Basis, Indexed) <= Ceiling + Largest
  /\ proc.at = "add" \/ (proc.at = "save" /\ ~hot_enabled) => SumOf(Basis, Indexed) <= Ceiling

InQueue(h) == \E i \in 1 .. Len(writeQueue) : writeQueue[i] # None /\ writeQueue[i][1] = h

\* In the queue, or about to be.
Put(h) == proc.at = "put" /\ Flushed = h
Pending(h) == InQueue(h) \/ Put(h)

\* An indexed block is written after what is written of it for another file,
LastQueued ==
  \A i \in 1 .. Len(writeQueue) :
    writeQueue[i] # None /\ level[writeQueue[i][1]] # writeQueue[i][2]
      /\ writeQueue[i][1] \in Indexed =>
        \/ Put(writeQueue[i][1])
        \/ \E j \in i + 1 .. Len(writeQueue) :
             writeQueue[j] # None /\ writeQueue[j][1] = writeQueue[i][1]

\* what the writer leaves or removes is not the last there is of it,
LastWritten ==
  /\ Busy /\ level[writer.h] # writer.k /\ writer.h \in Indexed => Pending(writer.h)
  /\ writer.at \in {"check", "finish"} /\ writer.h \in Indexed \ removed =>
       Complete(writer.h, level[writer.h]) \/ Pending(writer.h)
  /\ writer.at \in {"drop", "clean"} /\ writer.h \in Indexed => Pending(writer.h)

\* and at last it has its file.
OnItsWay ==
  \A h \in Indexed \ removed :
    Complete(h, level[h]) \/ Underway(h) \/ (h \in InHot /\ phase = "open")

Trail == LastQueued /\ LastWritten /\ OnItsWay

\* Without the hot cache the buffer holds what is queued or being written, each
\* block once and for the first of its files.
BufferExact ==
  ~hot_enabled =>
    /\ proc.flush = <<>>
    /\ \A h \in Hash : h \in InHot <=> InQueue(h) \/ writer.h = h
    /\ \A i, j \in 1 .. Len(writeQueue) :
         writeQueue[i] # None /\ writeQueue[j] # None /\ writeQueue[i][1] = writeQueue[j][1] => i = j
    /\ \A i \in 1 .. Len(writeQueue) : writeQueue[i] # None => writeQueue[i][2] = 0
    /\ Busy => ~InQueue(writer.h) /\ writer.k = 0

\* Then nothing else fills that file, and no block has two complete files.
FilesOnce ==
  ~hot_enabled =>
    /\ \A h \in Hash, k \in Level : k > 1 => files[<<h, k>>] = "none"
    /\ \A h \in Hash : InQueue(h) => files[<<h, 0>>] = "none"
    /\ writer.at \in {"write", "fill", "rename", "failed", "clean"} =>
         files[<<writer.h, 0>>] = "none"
    /\ \A h \in Hash : ~(Complete(h, 0) /\ Complete(h, 1))
    /\ \A h \in Indexed : level[h] # 0 => files[<<h, 0>>] = "none"

\* And every file is counted, also once the writer has finished with it.
Accounted ==
  ~hot_enabled =>
    /\ writer.at = "finish" /\ Complete(writer.h, 0) =>
         writer.h \in Indexed \/ <<writer.h, 0>> \in ToSet(proc.unlinks)
    /\ FilesCounted

\* What was saved stays in the index, and is in the buffer or has its file.
BufferKept ==
  ~hot_enabled =>
    /\ writer.at \in {"failed", "clean"} => writer.h \in failed
    /\ proc.at \in {"save", "missing", "read"} => proc.h \notin InHot
    /\ proc.at = "missing" => ~Complete(proc.h, level[proc.h])
    /\ \A h \in Hash \ (failed \cup removed) : promise[h] = "yes" => h \in Indexed /\ Loadable(h)

SSDInv ==
  /\ Shapes /\ Thread /\ Levels /\ Sizes /\ Trail
  /\ BufferExact /\ FilesOnce /\ Accounted /\ BufferKept

-----------------------------------------------------------------------------
(* The constants                                                           *)

LEMMA Constants ==
  /\ hot_enabled \in Modes => hot_enabled \in BOOLEAN
  /\ None \notin Hash /\ None \notin Hash \X Level
  /\ 0 \in Level /\ 1 \in Level /\ Level \subseteq Nat
  /\ QueueSize \in Nat \ {0} /\ HotMax \in Nat /\ MaxRestarts \in Nat
<1>1. MaxRestarts \in Nat /\ QueueSize \in Nat \ {0} /\ HotMax \in Nat
  BY SSDCacheAssumption
<1>2. 0 \in Level /\ 1 \in Level /\ Level \subseteq Nat
  BY <1>1 DEF Level
<1>3. None \notin Hash /\ None \notin Hash \X Level
  BY <1>2, SSDCacheAssumption
<1>. QED
  BY <1>1, <1>2, <1>3, SSDCacheAssumption

LEMMA SizeTypes ==
  /\ \A h \in Hash : Raw(h) \in Nat \ {0} /\ Estimate(h) \in Nat \ {0}
  /\ RawSize \in [Hash -> Nat \ {0}] /\ WrittenSize \in [Hash -> Nat \ {0}]
  /\ Growth \in Nat
  /\ \A h \in Hash : WrittenSize[h] <= Estimate(h) + Growth
<1>1. /\ \A h \in Hash : Raw(h) \in Nat \ {0}
      /\ Overhead \in Nat /\ Header \in Nat
  BY SSDCacheAssumption
<1>2. \A h \in Hash : Raw(h) + Overhead \in Nat \ {0} /\ Raw(h) + Header \in Nat \ {0}
  BY <1>1
<1>3. /\ RawSize \in [Hash -> Nat \ {0}] /\ WrittenSize \in [Hash -> Nat \ {0}]
      /\ \A h \in Hash : WrittenSize[h] = Raw(h) + Header
  BY <1>1, <1>2 DEF RawSize, WrittenSize
<1>4. Growth \in Nat /\ Header <= Overhead + Growth
  BY <1>1 DEF Growth
<1>5. \A h \in Hash : Raw(h) + Header <= Raw(h) + Overhead + Growth
  BY <1>1, <1>4
<1>. QED
  BY <1>1, <1>2, <1>3, <1>4, <1>5 DEF Estimate

LEMMA Bounds ==
  Ceiling \in Nat /\ Largest \in Nat
    /\ (\A limit \in Limits : TargetSize(limit) <= Ceiling)
    /\ \A h \in Hash : Estimate(h) <= Largest
<1>. DEFINE C == {TargetSize(limit) : limit \in Limits}
            L == {Estimate(h) : h \in Hash}
<1>0. IsFiniteSet(Limits) /\ IsFiniteSet(Hash) /\ Hash # {} /\ Limits # {}
  BY SSDCacheAssumption
<1>1. IsFiniteSet(C)
  <2>1. [limit \in Limits |-> TargetSize(limit)] \in Surjection(Limits, C)
    BY DEF Surjection
  <2>. QED
    BY <1>0, <2>1, FS_Surjection
<1>2. IsFiniteSet(L)
  <2>1. [h \in Hash |-> Estimate(h)] \in Surjection(Hash, L)
    BY DEF Surjection
  <2>. QED
    BY <1>0, <2>1, FS_Surjection
<1>3. ASSUME NEW limit \in Limits PROVE TargetSize(limit) \in Nat
  <2>1. limit \in Nat /\ NewBlock \in Nat
    BY SSDCacheAssumption
  <2>2. (limit * 9) \div 10 \in Nat
    BY <2>1
  <2>. QED
    BY <2>1, <2>2 DEF TargetSize
<1>4. C \subseteq Nat /\ C # {} /\ L \subseteq Nat /\ L # {}
  BY <1>0, <1>3, SizeTypes
<1>i. C \subseteq Int /\ L \subseteq Int
  BY <1>4
<1>5. (\A limit \in Limits : TargetSize(limit) \in C) /\ \A h \in Hash : Estimate(h) \in L
  OBVIOUS
<1>. HIDE DEF C, L
<1>6. Max(C) \in C /\ \A x \in C : x <= Max(C)
  BY <1>1, <1>4, <1>i, MaxFacts
<1>7. Max(L) \in L /\ \A x \in L : x <= Max(L)
  BY <1>2, <1>4, <1>i, MaxFacts
<1>8. Ceiling = Max(C) /\ Largest = Max(L)
  BY DEF Ceiling, Largest, C, L
<1>. QED
  BY <1>4, <1>5, <1>6, <1>7, <1>8

\* Sums of sizes.
LEMMA SumFacts ==
  ASSUME NEW g, \A h \in Hash : g[h] \in Nat
  PROVE  /\ SumOf(g, {}) = 0
         /\ \A S \in SUBSET Hash : SumOf(g, S) \in Nat
         /\ \A S \in SUBSET Hash : \A h \in S : SumOf(g, S) = g[h] + SumOf(g, S \ {h})
         /\ \A S \in SUBSET Hash : \A h \in Hash \ S : SumOf(g, S \cup {h}) = g[h] + SumOf(g, S)
<1>1. IsFiniteSet(Hash)
  BY SSDCacheAssumption
<1>2. \A S : SumOf(g, S) = SumOver(g, S)
  BY DEF SumOf, SumOver
<1>. QED
  BY <1>1, <1>2, SumOverFacts

LEMMA SumSplit ==
  ASSUME NEW g, \A h \in Hash : g[h] \in Nat,
         NEW S \in SUBSET Hash, NEW T \in SUBSET Hash, S \cap T = {}
  PROVE  SumOf(g, S \cup T) = SumOf(g, S) + SumOf(g, T)
<1>1. IsFiniteSet(Hash)
  BY SSDCacheAssumption
<1>2. \A U : SumOf(g, U) = SumOver(g, U)
  BY DEF SumOf, SumOver
<1>3. SumOver(g, S \cup T) = SumOver(g, S) + SumOver(g, T)
  BY <1>1, SumOverSplit
<1>. QED
  BY <1>2, <1>3

\* Less is summed up, of fewer blocks.
LEMMA SumFalls ==
  ASSUME NEW f, \A h \in Hash : f[h] \in Nat, NEW g, \A h \in Hash : g[h] \in Nat,
         NEW S \in SUBSET Hash, NEW T \in SUBSET S, \A h \in T : f[h] <= g[h]
  PROVE  SumOf(f, T) <= SumOf(g, S)
<1>1. IsFiniteSet(Hash) /\ IsFiniteSet(T) /\ T \in SUBSET Hash
  BY SSDCacheAssumption, FS_Subset
<1>2. (\A U : SumOf(g, U) = SumOver(g, U)) /\ \A U : SumOf(f, U) = SumOver(f, U)
  BY DEF SumOf, SumOver
<1>3. SumOver(f, T) <= SumOver(g, T)
  <2>1. \A h \in T : f[h] <= g[h] + 0
    OBVIOUS
  <2>2. SumOver(f, T) <= SumOver(g, T) + Cardinality(T) * 0
    BY <1>1, <2>1, SumOverBound
  <2>3. Cardinality(T) \in Nat /\ SumOf(g, T) \in Nat
    BY <1>1, FS_CardinalityType, SumFacts
  <2>. QED
    BY <1>2, <2>2, <2>3
<1>4. SumOf(g, S) = SumOf(g, T) + SumOf(g, S \ T)
  <2>1. S = T \cup (S \ T) /\ S \ T \in SUBSET Hash /\ T \cap (S \ T) = {}
    OBVIOUS
  <2>2. SumOf(g, T \cup (S \ T)) = SumOf(g, T) + SumOf(g, S \ T)
    BY <1>1, <2>1, SumSplit
  <2>. QED
    BY <2>1, <2>2
<1>5. SumOf(g, S \ T) \in Nat /\ SumOf(g, T) \in Nat /\ SumOf(f, T) \in Nat
  BY <1>1, SumFacts
<1>. QED
  BY <1>2, <1>3, <1>4, <1>5

\* What differs elsewhere does not matter.
LEMMA SumSame ==
  ASSUME NEW f, NEW g, NEW S \in SUBSET Hash, \A h \in S : f[h] = g[h] /\ f[h] \in Nat
  PROVE  SumOf(f, S) = SumOf(g, S)
<1>1. IsFiniteSet(S) /\ \A h \in S : f[h] = g[h] /\ f[h] \in Int
  BY SSDCacheAssumption, FS_Subset
<1>2. SumOver(f, S) = SumOver(g, S)
  BY <1>1, SumOverSame
<1>. QED
  BY <1>2 DEF SumOf, SumOver

-----------------------------------------------------------------------------
(* What is known of a state                                                *)

LEMMA Known ==
  ASSUME Shapes
  PROVE  /\ hot_enabled \in BOOLEAN
         /\ Indexed \in SUBSET Hash /\ InHot \in SUBSET Hash
         /\ IsFiniteSet(Indexed) /\ Cardinality(Indexed) = Len(index)
         /\ \A h \in Hash : fileSize[h] \in Nat /\ level[h] \in Level
         /\ \A h \in Hash, k \in Level : files[<<h, k>>] \in {"none", "partial", "complete"}
         /\ Basis \in [Hash -> Nat]
         /\ \A h \in Hash : Basis[h] <= Estimate(h) /\ Basis[h] <= fileSize[h]
<1>1. hot_enabled \in BOOLEAN
  BY Constants DEF Shapes
<1>2. Indexed \in SUBSET Hash /\ InHot \in SUBSET Hash
  BY DEF Shapes, Indexed, InHot, ToSet
<1>3. IsFiniteSet(Indexed) /\ Cardinality(Indexed) = Len(index)
  BY LenOfSet DEF Shapes, Indexed
<1>4. \A h \in Hash : fileSize[h] \in Nat /\ level[h] \in Level
  BY DEF Shapes
<1>5. \A h \in Hash, k \in Level : files[<<h, k>>] \in {"none", "partial", "complete"}
  BY DEF Shapes
<1>6. /\ Basis \in [Hash -> Nat]
      /\ \A h \in Hash : Basis[h] <= Estimate(h) /\ Basis[h] <= fileSize[h]
  BY <1>4, SizeTypes DEF Basis
<1>. QED
  BY <1>1, <1>2, <1>3, <1>4, <1>5, <1>6

\* What is flushed next.
LEMMA FlushFacts ==
  ASSUME Shapes, proc.flush # <<>>
  PROVE  /\ Flushed \in Hash /\ Tail(proc.flush) \in Seq(Hash)
         /\ ToSet(proc.flush) = {Flushed} \cup ToSet(Tail(proc.flush))
<1>1. proc.flush \in Seq(Hash)
  BY DEF Shapes, Procs
<1>2. Head(proc.flush) \in Hash /\ Tail(proc.flush) \in Seq(Hash)
  BY <1>1
<1>. QED
  BY <1>1, <1>2, FirstAndRest DEF Flushed

LEMMA Basics ==
  ASSUME SSDInv
  PROVE  /\ Indexed \in SUBSET Hash /\ InHot \in SUBSET Hash
         /\ \A h \in Hash : level[h] \in Level
         /\ 0 \in Level /\ 1 \in Level /\ None \notin Hash
         /\ writer.at \in Stages /\ writer.k \in Level
         /\ writer.at \notin {"idle", "gone"} => writer.h \in Hash
         /\ writer.at \in {"idle", "gone"} => writer.h \notin Hash
         /\ proc.at \in Places
<1>1. Shapes /\ Thread
  BY DEF SSDInv
<1>2. writer.at \in Stages /\ writer.k \in Level /\ proc.at \in Places
  BY <1>1 DEF Shapes, Writers, Procs
<1>3. writer.h \in Hash <=> writer.at \notin {"idle", "gone"}
  BY <1>1 DEF Thread, Busy
<1>. QED
  BY <1>1, <1>2, <1>3, Known, Constants

LEMMA IdleProc == Idle \in Procs /\ Waiting \in Writers
<1>1. <<>> \in Seq(Hash) /\ <<>> \in Seq(Hash \X Level)
  OBVIOUS
<1>. QED
  BY <1>1, Constants DEF Idle, Waiting, Procs, Writers, Places, Stages

\* What is queued, and what becomes of it when an item joins or leaves.
LEMMA ItemFacts ==
  ASSUME Shapes
  PROVE  /\ Len(writeQueue) \in Nat
         /\ \A i \in 1 .. Len(writeQueue) :
              writeQueue[i] # None => writeQueue[i] \in Hash \X Level
                                        /\ writeQueue[i][1] \in Hash /\ writeQueue[i][2] \in Level
         /\ \A h : InQueue(h) => h \in Hash
<1>1. writeQueue \in Seq(Item)
  BY DEF Shapes
<1>2. ASSUME NEW i \in 1 .. Len(writeQueue), writeQueue[i] # None
      PROVE  writeQueue[i] \in Hash \X Level
  BY <1>1, <1>2 DEF Item
<1>3. \A x \in Hash \X Level : x[1] \in Hash /\ x[2] \in Level
  OBVIOUS
<1>. QED
  BY <1>1, <1>2, <1>3 DEF InQueue

LEMMA Joins ==
  ASSUME Shapes, NEW x \in Item, writeQueue' = Append(writeQueue, x)
  PROVE  /\ writeQueue' \in Seq(Item) /\ Len(writeQueue) \in Nat
         /\ Len(writeQueue') = Len(writeQueue) + 1
         /\ \A i \in 1 .. Len(writeQueue) : writeQueue'[i] = writeQueue[i]
         /\ writeQueue'[Len(writeQueue) + 1] = x
         /\ \A h : InQueue(h)' <=> InQueue(h) \/ (x # None /\ x[1] = h)
<1>1. writeQueue \in Seq(Item)
  BY DEF Shapes
<1>2. /\ writeQueue' \in Seq(Item) /\ Len(writeQueue) \in Nat
      /\ Len(writeQueue') = Len(writeQueue) + 1
      /\ \A i \in 1 .. Len(writeQueue) : writeQueue'[i] = writeQueue[i]
      /\ writeQueue'[Len(writeQueue) + 1] = x
  BY <1>1
<1>3. ASSUME NEW h, InQueue(h)' PROVE InQueue(h) \/ (x # None /\ x[1] = h)
  <2>1. PICK i \in 1 .. Len(writeQueue') : writeQueue'[i] # None /\ writeQueue'[i][1] = h
    BY <1>3 DEF InQueue
  <2>2. i \in 1 .. Len(writeQueue) \/ i = Len(writeQueue) + 1
    BY <1>2
  <2>. QED
    BY <1>2, <2>1, <2>2 DEF InQueue
<1>4. ASSUME NEW h, InQueue(h) PROVE InQueue(h)'
  <2>1. PICK i \in 1 .. Len(writeQueue) : writeQueue[i] # None /\ writeQueue[i][1] = h
    BY <1>4 DEF InQueue
  <2>2. i \in 1 .. Len(writeQueue') /\ writeQueue'[i] = writeQueue[i]
    BY <1>2
  <2>. QED
    BY <2>1, <2>2 DEF InQueue
<1>5. ASSUME NEW h, x # None, x[1] = h PROVE InQueue(h)'
  <2>1. Len(writeQueue) + 1 \in 1 .. Len(writeQueue')
    BY <1>2
  <2>. QED
    BY <1>2, <1>5, <2>1 DEF InQueue
<1>. QED
  BY <1>2, <1>3, <1>4, <1>5

LEMMA Leaves ==
  ASSUME Shapes, writeQueue # <<>>, writeQueue' = Tail(writeQueue)
  PROVE  /\ writeQueue' \in Seq(Item) /\ Len(writeQueue) \in Nat \ {0}
         /\ Len(writeQueue') = Len(writeQueue) - 1
         /\ \A i \in 1 .. Len(writeQueue') : writeQueue'[i] = writeQueue[i + 1]
         /\ Head(writeQueue) = writeQueue[1] /\ Head(writeQueue) \in Item
         /\ \A h : InQueue(h) <=>
              InQueue(h)' \/ (Head(writeQueue) # None /\ Head(writeQueue)[1] = h)
<1>1. writeQueue \in Seq(Item)
  BY DEF Shapes
<1>2. /\ writeQueue' \in Seq(Item) /\ Len(writeQueue) \in Nat \ {0}
      /\ Len(writeQueue') = Len(writeQueue) - 1
      /\ \A i \in 1 .. Len(writeQueue') : writeQueue'[i] = writeQueue[i + 1]
      /\ Head(writeQueue) = writeQueue[1] /\ Head(writeQueue) \in Item
  BY <1>1
<1>3. ASSUME NEW h, InQueue(h) PROVE InQueue(h)' \/ (writeQueue[1] # None /\ writeQueue[1][1] = h)
  <2>1. PICK i \in 1 .. Len(writeQueue) : writeQueue[i] # None /\ writeQueue[i][1] = h
    BY <1>3 DEF InQueue
  <2>2. i = 1 \/ (i - 1 \in 1 .. Len(writeQueue') /\ writeQueue'[i - 1] = writeQueue[i])
    BY <1>2
  <2>. QED
    BY <2>1, <2>2 DEF InQueue
<1>4. ASSUME NEW h, InQueue(h)' PROVE InQueue(h)
  <2>1. PICK i \in 1 .. Len(writeQueue') : writeQueue'[i] # None /\ writeQueue'[i][1] = h
    BY <1>4 DEF InQueue
  <2>2. i + 1 \in 1 .. Len(writeQueue) /\ writeQueue[i + 1] = writeQueue'[i]
    BY <1>2
  <2>. QED
    BY <2>1, <2>2 DEF InQueue
<1>5. ASSUME NEW h, writeQueue[1] # None, writeQueue[1][1] = h PROVE InQueue(h)
  <2>1. 1 \in 1 .. Len(writeQueue)
    BY <1>2
  <2>. QED
    BY <1>5, <2>1 DEF InQueue
<1>. QED
  BY <1>2, <1>3, <1>4, <1>5

\* What _enforce_size_limit_for_new_block leaves: the blocks that are still in
\* the index, and the files of the others to unlink.
LEMMA EnforceFacts ==
  ASSUME Shapes, SizesExact, NEW at \in Places, Enforce(at)
  PROVE  /\ index' \in Seq(Hash) /\ IsInjective(index') /\ Indexed' \subseteq Indexed
         /\ proc' = [proc EXCEPT !.at = at, !.unlinks = proc'.unlinks]
         /\ proc'.unlinks \in Seq(Hash \X Level)
         /\ ToSet(proc'.unlinks) = {<<h, level[h]>> : h \in Indexed \ Indexed'}
         /\ promise' \in [Hash -> {"yes", "no", "buffer"}]
         /\ \A h \in Hash : promise'[h] = "yes" =>
              promise[h] = "yes" /\ (~hot_enabled => h \notin Indexed \ Indexed')
         /\ total' = SumOf(fileSize, Indexed') /\ total' <= total
         /\ SumOf(Basis, Indexed') <= Ceiling
<1>1. PICK limit \in Limits :
        LET n       == NumEvicted(TargetSize(limit))
            evicted == SubSeq(index, 1, n)
            lost(h) == h \in ToSet(evicted) /\ ~(hot_enabled /\ h \in InHot)
        IN  /\ index'   = SubSeq(index, n + 1, Len(index))
            /\ total'   = total - SumOf(fileSize, ToSet(evicted))
            /\ proc'    = [proc EXCEPT !.at = at,
                             !.unlinks = [i \in 1 .. n |-> <<evicted[i], level[evicted[i]]>>]]
            /\ promise' = [h \in Hash |-> IF lost(h) THEN "no" ELSE promise[h]]
  BY Zenon DEF Enforce
<1>. DEFINE target == TargetSize(limit)
            n == NumEvicted(target)
            a == SubSeq(index, 1, n)
            b == SubSeq(index, n + 1, Len(index))
            C == {m \in 0 .. Len(index) :
                    \/ total - SumOf(fileSize, ToSet(SubSeq(index, 1, m))) <= target
                    \/ m = Len(index)}
            unlinks == [i \in 1 .. n |-> <<a[i], level[a[i]]>>]
<1>2. index \in Seq(Hash) /\ IsInjective(index) /\ Len(index) \in Nat
  BY DEF Shapes
<1>3. n \in 0 .. Len(index) /\ (total - SumOf(fileSize, ToSet(a)) <= target \/ n = Len(index))
  <2>1. C \subseteq 0 .. Len(index) /\ Len(index) \in C
    BY <1>2
  <2>2. IsFiniteSet(C)
    <3>1. IsFiniteSet(0 .. Len(index))
      BY <1>2, FS_Interval
    <3>. HIDE DEF C
    <3>. QED
      BY <2>1, <3>1, FS_Subset
  <2>3. C \subseteq Int /\ C # {}
    BY <1>2, <2>1
  <2>4. n = Min(C)
    BY DEF NumEvicted
  <2>5. n \in C
    <3>. HIDE DEF C, n
    <3>. QED
      BY <2>2, <2>3, <2>4, MinFacts
  <2>. QED
    BY <2>5
<1>4. /\ index' = b /\ total' = total - SumOf(fileSize, ToSet(a))
      /\ proc' = [proc EXCEPT !.at = at, !.unlinks = unlinks]
      /\ promise' = [h \in Hash |-> IF h \in ToSet(a) /\ ~(hot_enabled /\ h \in InHot)
                                    THEN "no" ELSE promise[h]]
  BY <1>1
<1>5. n \in Nat
  BY <1>2, <1>3
<1>. HIDE DEF n, target
<1>6. /\ a \in Seq(Hash) /\ Len(a) = n /\ \A i \in 1 .. n : a[i] \in Hash
      /\ b \in Seq(Hash) /\ IsInjective(b) /\ Len(b) = Len(index) - n
      /\ ToSet(a) \cap ToSet(b) = {} /\ ToSet(a) \cup ToSet(b) = Indexed
      /\ ToSet(a) = {a[i] : i \in 1 .. n}
  <2>1. /\ a \in Seq(Hash) /\ Len(a) = n
        /\ b \in Seq(Hash) /\ IsInjective(b) /\ Len(b) = Len(index) - n
        /\ ToSet(a) \cap ToSet(b) = {} /\ ToSet(a) \cup ToSet(b) = ToSet(index)
    BY <1>2, <1>3, Split
  <2>. HIDE DEF a, b
  <2>2. \A i \in 1 .. n : a[i] \in Hash
    BY <2>1
  <2>3. ToSet(a) = {a[i] : i \in 1 .. n}
    BY <1>5, <2>1 DEF ToSet
  <2>. QED
    BY <2>1, <2>2, <2>3 DEF Indexed
<1>. HIDE DEF a, b
<1>7. /\ Indexed \in SUBSET Hash /\ \A h \in Hash : fileSize[h] \in Nat /\ level[h] \in Level
      /\ Basis \in [Hash -> Nat] /\ \A h \in Hash : Basis[h] <= fileSize[h]
  BY Known
<1>8. Indexed' = ToSet(b) /\ Indexed' \subseteq Indexed /\ Indexed \ Indexed' = ToSet(a)
  BY <1>4, <1>6 DEF Indexed
<1>9. unlinks \in Seq(Hash \X Level) /\ ToSet(unlinks) = {<<h, level[h]>> : h \in ToSet(a)}
  <2>1. \A i \in 1 .. n : <<a[i], level[a[i]]>> \in Hash \X Level
    BY <1>6, <1>7
  <2>2. unlinks \in Seq(Hash \X Level)
    <3>1. unlinks \in [1 .. n -> Hash \X Level]
      BY <2>1, Zenon
    <3>. HIDE DEF unlinks
    <3>. QED
      BY <1>5, <3>1, IsSequence, Zenon
  <2>3. ToSet(unlinks) = {<<a[i], level[a[i]]>> : i \in 1 .. n}
    BY DEF ToSet
  <2>4. {<<a[i], level[a[i]]>> : i \in 1 .. n} = {<<h, level[h]>> : h \in {a[i] : i \in 1 .. n}}
    BY Zenon
  <2>5. {<<h, level[h]>> : h \in {a[i] : i \in 1 .. n}} = {<<h, level[h]>> : h \in ToSet(a)}
    BY <1>6
  <2>. HIDE DEF unlinks
  <2>. QED
    BY <2>2, <2>3, <2>4, <2>5, Zenon
<1>10. total' = SumOf(fileSize, Indexed') /\ total' <= total
  <2>1. SumOf(fileSize, ToSet(a) \cup ToSet(b)) = SumOf(fileSize, ToSet(a)) + SumOf(fileSize, ToSet(b))
    BY <1>6, <1>7, SumSplit
  <2>2. SumOf(fileSize, ToSet(a)) \in Nat /\ SumOf(fileSize, ToSet(b)) \in Nat
    BY <1>6, <1>7, SumFacts
  <2>3. total = SumOf(fileSize, ToSet(a) \cup ToSet(b))
    BY <1>6 DEF SizesExact
  <2>. QED
    BY <1>4, <1>8, <2>1, <2>2, <2>3
<1>11. SumOf(Basis, Indexed') <= Ceiling
  <2>1. SumOf(Basis, Indexed') <= SumOf(fileSize, Indexed')
    <3>1. Indexed' \in SUBSET Hash /\ Indexed' \in SUBSET Indexed'
      BY <1>7, <1>8
    <3>2. (\A h \in Hash : Basis[h] \in Nat) /\ \A h \in Indexed' : Basis[h] <= fileSize[h]
      BY <1>7, <3>1
    <3>. QED
      BY <1>7, <3>1, <3>2, SumFalls
  <2>2. target <= Ceiling /\ Ceiling \in Nat /\ target \in Int
    <3>1. limit \in Nat /\ NewBlock \in Nat
      BY SSDCacheAssumption
    <3>2. (limit * 9) \div 10 \in Nat
      BY <3>1
    <3>. QED
      BY <3>1, <3>2, Bounds DEF target, TargetSize
  <2>3. CASE n # Len(index)
    <3>1. total' <= target
      BY <1>3, <1>4, <2>3
    <3>2. SumOf(Basis, Indexed') \in Nat /\ SumOf(fileSize, Indexed') \in Nat
      BY <1>7, <1>8, SumFacts
    <3>. QED
      BY <1>10, <2>1, <2>2, <3>1, <3>2
  <2>4. CASE n = Len(index)
    <3>1. Len(b) = 0
      BY <1>2, <1>6, <2>4
    <3>2. ToSet(b) = {}
      BY <1>6, <3>1 DEF ToSet
    <3>3. SumOf(Basis, {}) = 0
      BY <1>7, SumFacts
    <3>. QED
      BY <1>8, <2>2, <3>2, <3>3
  <2>. QED
    BY <2>3, <2>4
<1>12. promise' \in [Hash -> {"yes", "no", "buffer"}]
  BY <1>4 DEF Shapes
<1>13. \A h \in Hash : promise'[h] = "yes" =>
         promise[h] = "yes" /\ (~hot_enabled => h \notin Indexed \ Indexed')
  BY <1>4, <1>8
<1>14. proc'.unlinks = unlinks
  BY <1>4 DEF Shapes, Procs
<1>. QED
  BY <1>4, <1>6, <1>8, <1>9, <1>10, <1>11, <1>12, <1>13, <1>14

\* What _hot_cache_put leaves: the block, as many of the others as there is
\* room for, and the others to flush.
LEMMA HotPutFacts ==
  ASSUME Shapes, SizesExact, hot_enabled, NEW h \in Hash, HotPut(h)
  PROVE  /\ hot' \in Seq(Hash) /\ IsInjective(hot')
         /\ h \in InHot' /\ InHot' \subseteq InHot \cup {h}
         /\ proc' = [Idle EXCEPT !.at = "flush", !.flush = proc'.flush]
         /\ proc'.flush \in Seq(Hash)
         /\ ToSet(proc'.flush) = InHot \ InHot'
         /\ hotTotal' = SumOf(RawSize, InHot')
         /\ hotTotal' <= HotMax \/ Len(hot') = 1
<1>. DEFINE base == RemoveFirst(hot, h)
            n == NumCooled(base, Raw(h))
            a == SubSeq(base, 1, n)
            b == SubSeq(base, n + 1, Len(base))
            C == {m \in 0 .. Len(base) :
                    \/ SumOf(RawSize, ToSet(SubSeq(base, m + 1, Len(base)))) + Raw(h) <= HotMax
                    \/ m = Len(base)}
<1>1. /\ hot' = Append(b, h)
      /\ hotTotal' = hotTotal - (IF h \in InHot THEN Raw(h) ELSE 0) - SumOf(RawSize, ToSet(a)) + Raw(h)
      /\ proc' = [Idle EXCEPT !.at = "flush", !.flush = a]
  BY DEF HotPut
<1>2. hot \in Seq(Hash) /\ IsInjective(hot)
  BY DEF Shapes
<1>3. base \in Seq(Hash) /\ IsInjective(base) /\ ToSet(base) = InHot \ {h}
  BY <1>2, RemoveOne DEF InHot
<1>. HIDE DEF base
<1>4. Len(base) \in Nat
  BY <1>3
<1>5. n \in 0 .. Len(base) /\ (SumOf(RawSize, ToSet(b)) + Raw(h) <= HotMax \/ n = Len(base))
  <2>1. C \subseteq 0 .. Len(base) /\ Len(base) \in C
    BY <1>4
  <2>2. IsFiniteSet(C)
    <3>1. IsFiniteSet(0 .. Len(base))
      BY <1>4, FS_Interval
    <3>. HIDE DEF C
    <3>. QED
      BY <2>1, <3>1, FS_Subset
  <2>3. C \subseteq Int /\ C # {}
    BY <1>4, <2>1
  <2>4. n = Min(C)
    BY DEF NumCooled
  <2>5. n \in C
    <3>. HIDE DEF C, n
    <3>. QED
      BY <2>2, <2>3, <2>4, MinFacts
  <2>. QED
    BY <2>5
<1>6. n \in Nat
  BY <1>4, <1>5
<1>. HIDE DEF n
<1>7. /\ a \in Seq(Hash)
      /\ b \in Seq(Hash) /\ IsInjective(b) /\ Len(b) = Len(base) - n
      /\ ToSet(a) \cap ToSet(b) = {} /\ ToSet(a) \cup ToSet(b) = InHot \ {h}
  BY <1>3, <1>5, Split
<1>. HIDE DEF a, b
<1>8. /\ hot' \in Seq(Hash) /\ IsInjective(hot') /\ ToSet(hot') = ToSet(b) \cup {h}
  <2>1. h \notin ToSet(b)
    BY <1>7
  <2>. QED
    BY <1>1, <1>7, <2>1, AppendNew
<1>9. InHot' = ToSet(b) \cup {h}
  BY <1>8 DEF InHot
<1>10. proc'.flush = a
  BY <1>1 DEF Idle
<1>11. h \in InHot' /\ InHot' \subseteq InHot \cup {h} /\ ToSet(a) = InHot \ InHot'
  BY <1>7, <1>9
<1>12. \A x \in Hash : RawSize[x] \in Nat /\ RawSize[x] = Raw(x)
  BY SizeTypes DEF RawSize
<1>13. ToSet(a) \in SUBSET Hash /\ ToSet(b) \in SUBSET Hash /\ InHot \in SUBSET Hash /\ h \notin ToSet(b)
  BY <1>7, Known
<1>14. hotTotal' = SumOf(RawSize, ToSet(b)) + Raw(h)
  <2>1. SumOf(RawSize, InHot \ {h}) = SumOf(RawSize, ToSet(a)) + SumOf(RawSize, ToSet(b))
    <3>1. SumOf(RawSize, ToSet(a) \cup ToSet(b)) = SumOf(RawSize, ToSet(a)) + SumOf(RawSize, ToSet(b))
      BY <1>7, <1>12, <1>13, SumSplit
    <3>. QED
      BY <1>7, <3>1
  <2>2. h \in InHot => SumOf(RawSize, InHot) = Raw(h) + SumOf(RawSize, InHot \ {h})
    BY <1>12, <1>13, SumFacts
  <2>3. h \notin InHot => InHot \ {h} = InHot
    OBVIOUS
  <2>4. hotTotal = SumOf(RawSize, InHot)
    BY DEF SizesExact
  <2>5. SumOf(RawSize, ToSet(a)) \in Nat /\ SumOf(RawSize, ToSet(b)) \in Nat /\ Raw(h) \in Nat
    BY <1>12, <1>13, SumFacts
  <2>6. hotTotal - (IF h \in InHot THEN Raw(h) ELSE 0) = SumOf(RawSize, InHot \ {h})
    <3>1. CASE h \in InHot
      BY <2>1, <2>2, <2>4, <2>5, <3>1
    <3>2. CASE h \notin InHot
      BY <2>1, <2>3, <2>4, <2>5, <3>2
    <3>. QED
      BY <3>1, <3>2
  <2>. QED
    BY <1>1, <2>1, <2>5, <2>6
<1>15. hotTotal' = SumOf(RawSize, InHot')
  <2>1. SumOf(RawSize, ToSet(b) \cup {h}) = RawSize[h] + SumOf(RawSize, ToSet(b))
    BY <1>12, <1>13, SumFacts
  <2>2. SumOf(RawSize, ToSet(b)) \in Nat /\ Raw(h) \in Nat
    BY <1>12, <1>13, SumFacts
  <2>. QED
    BY <1>9, <1>12, <1>14, <2>1, <2>2
<1>16. hotTotal' <= HotMax \/ Len(hot') = 1
  <2>1. n = Len(base) => Len(b) = 0
    BY <1>4, <1>7
  <2>2. Len(hot') = Len(b) + 1
    BY <1>1, <1>7
  <2>. QED
    BY <1>5, <1>14, <2>1, <2>2
<1>. QED
  BY <1>1, <1>7, <1>8, <1>10, <1>11, <1>15, <1>16

-----------------------------------------------------------------------------
(* What the invariant implies                                              *)

LEMMA SSDInvImplies == SSDInv => SizesRight /\ FilesIndexed /\ KeptInBuffer
<1>. SUFFICES ASSUME SSDInv PROVE SizesRight /\ FilesIndexed /\ KeptInBuffer
  OBVIOUS
<1>1. /\ Shapes /\ Thread /\ Levels /\ Sizes /\ Trail /\ BufferExact /\ FilesOnce
      /\ Accounted /\ BufferKept
  BY DEF SSDInv
<1>2. /\ Indexed \in SUBSET Hash /\ InHot \in SUBSET Hash /\ hot_enabled \in BOOLEAN
      /\ Cardinality(Indexed) = Len(index)
      /\ \A h \in Hash : fileSize[h] \in Nat /\ Basis[h] \in Nat
  BY <1>1, Known
<1>3. SizesExact
  BY <1>1 DEF Sizes
<1>4. total \in Nat /\ hotTotal \in Nat
  <2>1. total \in Nat
    BY <1>2, <1>3, SumFacts DEF SizesExact
  <2>2. CASE hot_enabled
    <3>1. \A h \in Hash : RawSize[h] \in Nat
      BY SizeTypes
    <3>. QED
      BY <1>2, <1>3, <2>2, <3>1, SumFacts DEF SizesExact
  <2>3. CASE ~hot_enabled
    BY <1>1, <2>1, <2>3 DEF Sizes
  <2>. QED
    BY <1>2, <2>1, <2>2, <2>3
<1>5. SSDTypeOK
  BY <1>1, <1>2, <1>4 DEF Shapes, SSDTypeOK
<1>6. OvershootBounded
  <2>. DEFINE B == Ceiling + Largest + Len(index) * Growth
  <2>1. B \in Nat /\ scanned \in Nat
    <3>1. Len(index) \in Nat /\ scanned \in Nat
      BY <1>1 DEF Shapes
    <3>2. Ceiling \in Nat /\ Largest \in Nat /\ Growth \in Nat
      BY Bounds, SizeTypes
    <3>3. Len(index) * Growth \in Nat
      BY <3>1, <3>2
    <3>. QED
      BY <3>1, <3>2, <3>3
  <2>2. total <= scanned \/ total <= B
    <3>1. CASE SumOf(Basis, Indexed) <= Ceiling + Largest
      <4>1. \A h \in Indexed : fileSize[h] <= Basis[h] + Growth
        <5>1. ASSUME NEW h \in Indexed PROVE fileSize[h] <= Basis[h] + Growth
          <6>1. fileSize[h] \in {0, Estimate(h), WrittenSize[h]} /\ h \in Hash
            BY <1>1, <1>2 DEF Sizes
          <6>2. WrittenSize[h] \in Nat /\ Estimate(h) \in Nat /\ Growth \in Nat
                /\ WrittenSize[h] <= Estimate(h) + Growth
            BY <6>1, SizeTypes
          <6>3. Basis[h] = IF fileSize[h] <= Estimate(h) THEN fileSize[h] ELSE Estimate(h)
            BY <6>1 DEF Basis
          <6>. QED
            BY <6>1, <6>2, <6>3
        <5>. QED
          BY <5>1
      <4>2. SumOf(fileSize, Indexed) <= SumOf(Basis, Indexed) + Cardinality(Indexed) * Growth
        <5>1. IsFiniteSet(Hash) /\ Growth \in Nat
          BY SSDCacheAssumption, SizeTypes
        <5>2. (\A h \in Hash : fileSize[h] \in Nat) /\ \A h \in Hash : Basis[h] \in Nat
          BY <1>2
        <5>3. SumOver(fileSize, Indexed) <= SumOver(Basis, Indexed) + Cardinality(Indexed) * Growth
          BY <1>2, <4>1, <5>1, <5>2, SumOverBound
        <5>. QED
          BY <5>3 DEF SumOf, SumOver
      <4>3. SumOf(Basis, Indexed) \in Nat /\ total = SumOf(fileSize, Indexed)
        BY <1>2, <1>3, SumFacts DEF SizesExact
      <4>4. Len(index) * Growth \in Nat /\ Ceiling \in Nat /\ Largest \in Nat
        <5>1. Len(index) \in Nat /\ Growth \in Nat
          BY <1>1, SizeTypes DEF Shapes
        <5>. QED
          BY <5>1, Bounds
      <4>. QED
        BY <1>2, <1>4, <3>1, <4>2, <4>3, <4>4
    <3>. QED
      BY <1>1, <3>1 DEF Sizes
  <2>3. IsFiniteSet({scanned, B}) /\ {scanned, B} \subseteq Int /\ {scanned, B} # {}
    <3>1. IsFiniteSet({}) /\ IsFiniteSet({} \cup {scanned}) /\ IsFiniteSet(({} \cup {scanned}) \cup {B})
      BY FS_EmptySet, FS_AddElement
    <3>2. {scanned, B} = ({} \cup {scanned}) \cup {B}
      OBVIOUS
    <3>3. IsFiniteSet({scanned, B})
      BY <3>1, <3>2, Zenon
    <3>. HIDE DEF B
    <3>. QED
      BY <2>1, <3>3
  <2>4. Max({scanned, B}) \in {scanned, B} /\ scanned <= Max({scanned, B}) /\ B <= Max({scanned, B})
    <3>. HIDE DEF B
    <3>. QED
      BY <2>3, MaxFacts
  <2>5. total <= Max({scanned, B})
    <3>. HIDE DEF B
    <3>. QED
      BY <1>4, <2>1, <2>2, <2>4
  <2>. QED
    BY <2>5 DEF OvershootBounded
<1>7. SizesRight
  BY <1>1, <1>3, <1>5, <1>6 DEF SizesRight, Sizes
<1>8. IndexBacked
  BY <1>1 DEF Trail, OnItsWay, IndexBacked, Loadable
<1>9. FilesCounted
  BY <1>1 DEF Accounted, FilesCounted
<1>10. KeptInBuffer
  BY <1>1 DEF BufferKept, KeptInBuffer
<1>. QED
  BY <1>7, <1>8, <1>9, <1>10 DEF FilesIndexed

LEMMA SSDInvInit == Init => SSDInv
<1>. SUFFICES ASSUME Init PROVE SSDInv
  OBVIOUS
<1>1. /\ hot_enabled \in Modes
      /\ index = <<>> /\ total = 0 /\ hot = <<>> /\ hotTotal = 0
      /\ fileSize = [h \in Hash |-> 0] /\ level = [h \in Hash |-> 0]
      /\ files = [f \in Hash \X Level |-> "none"]
      /\ writeQueue = <<>> /\ shutdown = FALSE /\ phase = "open"
      /\ promise = [h \in Hash |-> "no"]
      /\ scanned = 0 /\ restarts = 0 /\ failed = {} /\ removed = {}
  BY DEF Init
<1>2. /\ writer = Waiting /\ writer.at = "idle" /\ writer.h = None /\ writer.k = 0
  BY DEF Init, Waiting
<1>3. proc = Idle /\ proc.at = "idle" /\ proc.h = None /\ proc.unlinks = <<>> /\ proc.flush = <<>>
  BY DEF Init, Idle
<1>4. Indexed = {} /\ InHot = {} /\ ToSet(proc.unlinks) = {} /\ ToSet(proc.flush) = {} /\ ~Busy
  BY <1>1, <1>2, <1>3 DEF Indexed, InHot, ToSet, Busy
<1>5. Shapes
  <2>1. \A S : <<>> \in Seq(S)
    OBVIOUS
  <2>2. IsInjective(<<>>) /\ Len(<<>>) = 0
    BY DEF IsInjective
  <2>3. 0 \in Level /\ QueueSize \in Nat /\ MaxRestarts \in Nat
    BY Constants
  <2>4. writer \in Writers
    BY <1>2, <2>3 DEF Writers, Waiting, Stages
  <2>5. proc \in Procs
    BY <1>3, <2>1 DEF Procs, Idle, Places
  <2>6. /\ index \in Seq(Hash) /\ hot \in Seq(Hash) /\ writeQueue \in Seq(Item)
        /\ IsInjective(index) /\ IsInjective(hot) /\ Len(writeQueue) <= QueueSize
    BY <1>1, <2>1, <2>2, <2>3
  <2>7. /\ fileSize \in [Hash -> Nat] /\ level \in [Hash -> Level]
        /\ files \in [Hash \X Level -> {"none", "partial", "complete"}]
        /\ promise \in [Hash -> {"yes", "no", "buffer"}]
    BY <1>1, <2>3
  <2>9. hot_enabled \in Modes
    BY <1>1
  <2>10. shutdown \in BOOLEAN
    BY <1>1
  <2>8. /\ phase \in {"open", "closing", "closed"}
        /\ scanned \in Nat /\ restarts \in 0 .. MaxRestarts
        /\ failed \subseteq Hash /\ removed \subseteq Hash
    BY <1>1, <2>3
  <2>. QED
    BY <2>4, <2>5, <2>6, <2>7, <2>8, <2>9, <2>10 DEF Shapes
<1>6. Thread
  BY <1>1, <1>2, <1>3, <1>4, Constants DEF Thread
<1>7. Levels
  BY <1>1, <1>2, <1>4, Constants DEF Levels, Complete
<1>8. Sizes
  <2>1. \A g : (\A h \in Hash : g[h] \in Nat) => SumOf(g, {}) = 0
    BY SumFacts
  <2>2. (\A h \in Hash : fileSize[h] \in Nat) /\ \A h \in Hash : RawSize[h] \in Nat
    BY <1>1, SizeTypes
  <2>3. SizesExact
    BY <1>1, <1>4, <2>1, <2>2 DEF SizesExact
  <2>4. HotBounded
    BY <1>1, Constants DEF HotBounded
  <2>. QED
    BY <1>1, <1>3, <1>4, <2>3, <2>4 DEF Sizes
<1>9. Trail
  BY <1>1, <1>2, <1>4 DEF Trail, LastQueued, LastWritten, OnItsWay
<1>10. ~ \E h : InQueue(h)
  BY <1>1 DEF InQueue
<1>11. BufferExact
  BY <1>1, <1>2, <1>3, <1>4, <1>10, Constants DEF BufferExact
<1>12. FilesOnce
  BY <1>1, <1>2, <1>3, <1>4, <1>10, Constants DEF FilesOnce, Complete
<1>14. Accounted
  BY <1>1, <1>2, Constants DEF Accounted, FilesCounted, Complete
<1>13. BufferKept
  BY <1>1, <1>2, <1>3 DEF BufferKept
<1>. QED
  BY <1>5, <1>6, <1>7, <1>8, <1>9, <1>11, <1>12, <1>13, <1>14 DEF SSDInv

-----------------------------------------------------------------------------
(* The methods of the index                                                *)

LEMMA TouchedFacts ==
  ASSUME Shapes, NEW h \in Hash, index' = Touched(h)
  PROVE  index' \in Seq(Hash) /\ IsInjective(index') /\ Indexed' = Indexed
<1>1. index \in Seq(Hash) /\ IsInjective(index)
  BY DEF Shapes
<1>2. CASE h \in Indexed
  <2>1. /\ index' \in Seq(Hash) /\ IsInjective(index') /\ ToSet(index') = ToSet(index) \cup {h}
    BY <1>1, <1>2, MoveLast DEF Touched
  <2>. QED
    BY <1>2, <2>1 DEF Indexed
<1>3. CASE h \notin Indexed
  <2>1. index' = index
    BY <1>3 DEF Touched
  <2>. QED
    BY <1>1, <2>1 DEF Indexed
<1>. QED
  BY <1>2, <1>3

LEMMA RemoveFacts ==
  ASSUME Shapes, SizesExact, NEW h \in Hash, IndexRemove(h)
  PROVE  /\ index' \in Seq(Hash) /\ IsInjective(index') /\ Indexed' = Indexed \ {h}
         /\ total' = SumOf(fileSize, Indexed') /\ total' <= total
         /\ SumOf(Basis, Indexed') <= SumOf(Basis, Indexed)
         /\ {SumOf(Basis, Indexed), SumOf(Basis, Indexed'), total, total'} \subseteq Nat
<1>1. index \in Seq(Hash) /\ IsInjective(index) /\ index' = RemoveFirst(index, h)
  BY DEF Shapes, IndexRemove
<1>2. index' \in Seq(Hash) /\ IsInjective(index') /\ ToSet(index') = ToSet(index) \ {h}
  BY <1>1, RemoveOne
<1>3. Indexed' = Indexed \ {h}
  BY <1>2 DEF Indexed
<1>4. /\ Indexed \in SUBSET Hash /\ Indexed \ {h} \in SUBSET Hash
      /\ (\A x \in Hash : fileSize[x] \in Nat) /\ \A x \in Hash : Basis[x] \in Nat
  BY Known
<1>5. /\ total = SumOf(fileSize, Indexed)
      /\ total' = total - (IF h \in Indexed THEN fileSize[h] ELSE 0)
  BY DEF SizesExact, IndexRemove
<1>6. /\ SumOf(fileSize, Indexed) \in Nat /\ SumOf(fileSize, Indexed \ {h}) \in Nat
      /\ SumOf(Basis, Indexed) \in Nat /\ SumOf(Basis, Indexed \ {h}) \in Nat
  <2>1. /\ \A S \in SUBSET Hash : SumOf(fileSize, S) \in Nat
    BY <1>4, SumFacts
  <2>2. /\ \A S \in SUBSET Hash : SumOf(Basis, S) \in Nat
    BY <1>4, SumFacts
  <2>. QED
    BY <1>4, <2>1, <2>2
<1>7. total' = SumOf(fileSize, Indexed \ {h}) /\ total' <= total
  <2>1. CASE h \in Indexed
    <3>1. SumOf(fileSize, Indexed) = fileSize[h] + SumOf(fileSize, Indexed \ {h})
      BY <1>4, <2>1, SumFacts
    <3>2. fileSize[h] \in Nat /\ total' = total - fileSize[h]
      BY <1>4, <1>5, <2>1
    <3>. HIDE DEF SumOf
    <3>. QED
      BY <1>5, <1>6, <3>1, <3>2
  <2>2. CASE h \notin Indexed
    <3>1. Indexed \ {h} = Indexed
      BY <2>2
    <3>2. total' = total - 0
      BY <1>5, <2>2
    <3>3. SumOf(fileSize, Indexed \ {h}) = SumOf(fileSize, Indexed)
      BY <3>1
    <3>. QED
      BY <1>5, <1>6, <3>2, <3>3
  <2>. QED
    BY <2>1, <2>2
<1>8. SumOf(Basis, Indexed \ {h}) <= SumOf(Basis, Indexed)
  <2>1. \A x \in Indexed \ {h} : Basis[x] <= Basis[x]
    BY <1>4
  <2>2. Indexed \ {h} \in SUBSET Indexed
    OBVIOUS
  <2>. QED
    BY <1>4, <2>1, <2>2, SumFalls
<1>. QED
  BY <1>2, <1>3, <1>5, <1>6, <1>7, <1>8

LEMMA AddFacts ==
  ASSUME Shapes, SizesExact, NEW h \in Hash, h \notin Indexed, NEW size \in Nat, IndexAdd(h, size)
  PROVE  /\ index' \in Seq(Hash) /\ IsInjective(index') /\ Indexed' = Indexed \cup {h}
         /\ fileSize' \in [Hash -> Nat] /\ fileSize'[h] = size
         /\ \A x \in Hash \ {h} : fileSize'[x] = fileSize[x]
         /\ total' = SumOf(fileSize', Indexed') /\ total' = total + size /\ total \in Nat
         /\ SumOf(Basis', Indexed') <= SumOf(Basis, Indexed) + Largest
         /\ SumOf(Basis, Indexed) \in Nat /\ SumOf(Basis', Indexed') \in Nat
<1>1. /\ index \in Seq(Hash) /\ IsInjective(index) /\ fileSize \in [Hash -> Nat]
      /\ index' = Append(RemoveFirst(index, h), h) /\ fileSize' = [fileSize EXCEPT ![h] = size]
      /\ total' = total + size - 0
  BY DEF Shapes, IndexAdd
<1>2. /\ index' \in Seq(Hash) /\ IsInjective(index') /\ ToSet(index') = ToSet(index) \cup {h}
  BY <1>1, MoveLast
<1>3. Indexed' = Indexed \cup {h}
  BY <1>2 DEF Indexed
<1>4. /\ fileSize' \in [Hash -> Nat] /\ fileSize'[h] = size
      /\ \A x \in Hash \ {h} : fileSize'[x] = fileSize[x]
  BY <1>1
<1>5. /\ Indexed \in SUBSET Hash /\ Indexed \cup {h} \in SUBSET Hash /\ h \in Hash \ Indexed
      /\ \A x \in Hash : Basis[x] \in Nat /\ Estimate(x) \in Nat
  BY Known, SizeTypes
<1>6. /\ \A x \in Hash : Basis'[x] \in Nat
      /\ Basis'[h] <= Largest /\ Basis'[h] \in Nat
      /\ \A x \in Indexed : Basis'[x] = Basis[x]
  <2>1. ASSUME NEW x \in Hash
        PROVE  /\ Basis'[x] = IF fileSize'[x] <= Estimate(x) THEN fileSize'[x] ELSE Estimate(x)
               /\ Basis[x] = IF fileSize[x] <= Estimate(x) THEN fileSize[x] ELSE Estimate(x)
    BY DEF Basis
  <2>2. Estimate(h) <= Largest /\ Largest \in Nat
    BY Bounds
  <2>. QED
    BY <1>4, <1>5, <2>1, <2>2
<1>7. SumOf(fileSize', Indexed) = SumOf(fileSize, Indexed) /\ SumOf(Basis', Indexed) = SumOf(Basis, Indexed)
  <2>1. \A x \in Indexed : fileSize'[x] = fileSize[x] /\ fileSize'[x] \in Nat
    BY <1>4, <1>5
  <2>2. \A x \in Indexed : Basis'[x] = Basis[x] /\ Basis'[x] \in Nat
    BY <1>5, <1>6
  <2>3. SumOf(fileSize', Indexed) = SumOf(fileSize, Indexed)
    BY <1>5, <2>1, SumSame
  <2>4. SumOf(Basis', Indexed) = SumOf(Basis, Indexed)
    BY <1>5, <2>2, SumSame
  <2>. QED
    BY <2>3, <2>4
<1>8. /\ SumOf(fileSize', Indexed \cup {h}) = size + SumOf(fileSize', Indexed)
      /\ SumOf(fileSize', Indexed) \in Nat
  <2>1. \A x \in Hash : fileSize'[x] \in Nat
    BY <1>4
  <2>. QED
    BY <1>4, <1>5, <2>1, SumFacts
<1>9. /\ SumOf(Basis', Indexed \cup {h}) = Basis'[h] + SumOf(Basis', Indexed)
      /\ SumOf(Basis', Indexed) \in Nat
  BY <1>5, <1>6, SumFacts
<1>10. total = SumOf(fileSize, Indexed) /\ Largest \in Nat
  BY Bounds DEF SizesExact
<1>11. SumOf(Basis', Indexed') <= SumOf(Basis, Indexed) + Largest
  BY <1>3, <1>6, <1>7, <1>9, <1>10
<1>12. total' = SumOf(fileSize', Indexed') /\ total' = total + size /\ total \in Nat
  BY <1>1, <1>3, <1>7, <1>8, <1>10
<1>. QED
  BY <1>2, <1>3, <1>4, <1>6, <1>7, <1>9, <1>11, <1>12


-----------------------------------------------------------------------------
(* The steps of the thread that uses the manager                           *)

LEMMA UnlinkStep == SSDInv /\ Unlink => SSDInv'
<1>. SUFFICES ASSUME SSDInv, Unlink PROVE SSDInv'
  OBVIOUS
<1>1. /\ Shapes /\ Thread /\ Levels /\ Sizes /\ Trail /\ BufferExact /\ FilesOnce
      /\ Accounted /\ BufferKept
  BY DEF SSDInv
<1>2. /\ index' = index /\ fileSize' = fileSize /\ level' = level /\ total' = total
      /\ hot' = hot /\ hotTotal' = hotTotal /\ writeQueue' = writeQueue
      /\ shutdown' = shutdown /\ writer' = writer /\ promise' = promise
      /\ hot_enabled' = hot_enabled /\ phase' = phase /\ scanned' = scanned
      /\ restarts' = restarts /\ failed' = failed /\ removed' = removed
  BY DEF Unlink, indexVars, hotVars, envVars
<1>3. /\ proc.unlinks # <<>> /\ files' = [files EXCEPT ![Head(proc.unlinks)] = "none"]
      /\ proc' = [proc EXCEPT !.unlinks = Tail(@)]
  BY DEF Unlink, At, Ready, Returns, WriterAt
<1>4. /\ Indexed' = Indexed /\ InHot' = InHot /\ Basis' = Basis /\ Busy' = Busy
      /\ \A h : InQueue(h)' = InQueue(h)
  BY <1>2 DEF Indexed, InHot, Basis, Busy, InQueue
<1>. DEFINE f == Head(proc.unlinks)
<1>5. proc \in Procs /\ proc.unlinks \in Seq(Hash \X Level)
  BY <1>1 DEF Shapes, Procs
<1>6. /\ proc'.at = proc.at /\ proc'.h = proc.h /\ proc'.flush = proc.flush
      /\ proc'.unlinks = Tail(proc.unlinks) /\ Flushed' = Flushed
  BY <1>3, <1>5 DEF Procs, Flushed
<1>7. /\ ToSet(proc.unlinks) = {f} \cup ToSet(proc'.unlinks) /\ f \in Hash \X Level
      /\ proc'.unlinks \in Seq(Hash \X Level) /\ proc' \in Procs
  <2>1. Tail(proc.unlinks) \in Seq(Hash \X Level) /\ f \in Hash \X Level
    BY <1>3, <1>5
  <2>. QED
    BY <1>3, <1>5, <1>6, <2>1, FirstAndRest DEF Procs
<1>8. f[1] \in Hash /\ f[1] \notin Indexed /\ proc.at \in {"save", "add"}
  BY <1>1, <1>3, <1>7 DEF Thread
<1>9. /\ files' \in [Hash \X Level -> {"none", "partial", "complete"}]
      /\ \A h \in Hash, k \in Level :
           files'[<<h, k>>] = IF <<h, k>> = f THEN "none" ELSE files[<<h, k>>]
  BY <1>1, <1>3 DEF Shapes
<1>. HIDE DEF f
<1>10. /\ \A h \in Hash, k \in Level : files'[<<h, k>>] \in {"none", files[<<h, k>>]}
       /\ \A h \in Indexed, k \in Level : files'[<<h, k>>] = files[<<h, k>>]
  BY <1>8, <1>9, Basics
<1>21. Shapes'
  BY <1>1, <1>2, <1>4, <1>7, <1>9 DEF Shapes
<1>22. Thread'
  BY <1>1, <1>2, <1>4, <1>6, <1>7, <1>8 DEF Thread
<1>23. Levels'
  BY <1>1, <1>2, <1>4, <1>10, Basics DEF Levels, OfLevel
<1>24. Sizes'
  BY <1>1, <1>2, <1>4, <1>6 DEF Sizes, SizesExact, HotBounded
<1>25. Trail'
  BY <1>1, <1>2, <1>4, <1>6, <1>10, Basics DEF Trail, LastQueued, LastWritten,
     OnItsWay, Pending, Put, Underway, Complete
<1>26. BufferExact'
  BY <1>1, <1>2, <1>4, <1>6 DEF BufferExact
<1>27. FilesOnce'
  BY <1>1, <1>2, <1>4, <1>10, Basics DEF FilesOnce, Complete
<1>28. Accounted'
  BY <1>1, <1>2, <1>4, <1>6, <1>7, <1>9, <1>10, Basics DEF Accounted, FilesCounted,
     Complete
<1>29. BufferKept'
  BY <1>1, <1>2, <1>4, <1>6, <1>8, <1>10, Basics DEF BufferKept, Loadable, Complete
<1>. QED
  BY <1>21, <1>22, <1>23, <1>24, <1>25, <1>26, <1>27, <1>28, <1>29 DEF SSDInv

LEMMA FlushSkipsStep == SSDInv /\ FlushSkips => SSDInv'
<1>. SUFFICES ASSUME SSDInv, FlushSkips PROVE SSDInv'
  OBVIOUS
<1>1. /\ Shapes /\ Thread /\ Levels /\ Sizes /\ Trail /\ BufferExact /\ FilesOnce
      /\ Accounted /\ BufferKept
  BY DEF SSDInv
<1>2. /\ index' = index /\ fileSize' = fileSize /\ level' = level /\ total' = total
      /\ hot' = hot /\ hotTotal' = hotTotal /\ files' = files /\ writeQueue' = writeQueue
      /\ shutdown' = shutdown /\ writer' = writer /\ promise' = promise
      /\ hot_enabled' = hot_enabled /\ phase' = phase /\ scanned' = scanned
      /\ restarts' = restarts /\ failed' = failed /\ removed' = removed
  BY DEF FlushSkips, indexVars, hotVars, envVars
<1>3. /\ phase = "closing" /\ proc.at = "flush" /\ proc.unlinks = <<>> /\ proc.flush # <<>>
      /\ files[<<Flushed, level[Flushed]>>] # "none"
      /\ proc' = [proc EXCEPT !.flush = Tail(@)]
  BY DEF FlushSkips, At, Ready, Returns, WriterAt
<1>4. /\ Indexed' = Indexed /\ InHot' = InHot /\ Basis' = Basis /\ Busy' = Busy
      /\ \A h : InQueue(h)' = InQueue(h)
  BY <1>2 DEF Indexed, InHot, Basis, Busy, InQueue
<1>5. /\ Flushed \in Hash /\ Tail(proc.flush) \in Seq(Hash)
      /\ ToSet(proc.flush) = {Flushed} \cup ToSet(Tail(proc.flush))
  BY <1>1, <1>3, FlushFacts
<1>6. /\ proc' \in Procs /\ proc'.at = "flush" /\ proc'.h = proc.h
      /\ proc'.unlinks = <<>> /\ proc'.flush = Tail(proc.flush)
  BY <1>1, <1>3, <1>5 DEF Shapes, Procs
<1>7. Complete(Flushed, level[Flushed])
  BY <1>1, <1>3, <1>5, Known DEF Levels, Complete
<1>21. Shapes'
  BY <1>1, <1>2, <1>4, <1>6 DEF Shapes
<1>22. Thread'
  BY <1>1, <1>2, <1>4, <1>3, <1>6 DEF Thread
<1>23. Levels'
  BY <1>1, <1>2, <1>4 DEF Levels, OfLevel
<1>24. Sizes'
  BY <1>1, <1>2, <1>4, <1>3, <1>5, <1>6 DEF Sizes, SizesExact, HotBounded
<1>25. Trail'
  <2>1. \A h : Put(h)' = Put(h) /\ Pending(h)' = Pending(h)
    BY <1>3, <1>4, <1>6 DEF Put, Pending
  <2>2. \A h : Underway(h) => Underway(h)' \/ h = Flushed
    BY <1>2, <1>5, <1>6 DEF Underway
  <2>. QED
    BY <1>1, <1>2, <1>4, <1>7, <2>1, <2>2 DEF Trail, LastQueued, LastWritten, OnItsWay,
         Complete
<1>26. BufferExact'
  BY <1>1, <1>2, <1>4, <1>3 DEF BufferExact
<1>27. FilesOnce'
  BY <1>1, <1>2, <1>4 DEF FilesOnce, Complete
<1>28. Accounted'
  BY <1>1, <1>2, <1>4, <1>3, <1>6 DEF Accounted, FilesCounted, Complete
<1>29. BufferKept'
  BY <1>1, <1>2, <1>4, <1>3, <1>6 DEF BufferKept, Loadable, Complete
<1>. QED
  BY <1>21, <1>22, <1>23, <1>24, <1>25, <1>26, <1>27, <1>28, <1>29 DEF SSDInv

LEMMA FlushEndsStep == SSDInv /\ FlushEnds => SSDInv'
<1>. SUFFICES ASSUME SSDInv, FlushEnds PROVE SSDInv'
  OBVIOUS
<1>1. /\ Shapes /\ Thread /\ Levels /\ Sizes /\ Trail /\ BufferExact /\ FilesOnce
      /\ Accounted /\ BufferKept
  BY DEF SSDInv
<1>2. /\ index' = index /\ fileSize' = fileSize /\ level' = level /\ total' = total
      /\ hot' = hot /\ hotTotal' = hotTotal /\ files' = files /\ writeQueue' = writeQueue
      /\ shutdown' = shutdown /\ writer' = writer /\ promise' = promise
      /\ hot_enabled' = hot_enabled /\ phase' = phase /\ scanned' = scanned
      /\ restarts' = restarts /\ failed' = failed /\ removed' = removed
  BY DEF FlushEnds, indexVars, hotVars, envVars
<1>3. /\ proc.at = "flush" /\ proc.unlinks = <<>> /\ proc.flush = <<>>
      /\ proc' = [proc EXCEPT !.at = IF phase = "closing" THEN "signal" ELSE "idle"]
  BY DEF FlushEnds, At, Ready, Returns, WriterAt
<1>4. /\ Indexed' = Indexed /\ InHot' = InHot /\ Basis' = Basis /\ Busy' = Busy
      /\ \A h : InQueue(h)' = InQueue(h)
  BY <1>2 DEF Indexed, InHot, Basis, Busy, InQueue
<1>5. /\ proc'.at = (IF phase = "closing" THEN "signal" ELSE "idle") /\ proc'.h = proc.h
      /\ proc'.unlinks = proc.unlinks /\ proc'.flush = proc.flush
  BY <1>1, <1>3 DEF Shapes, Procs
<1>6. proc' \in Procs
  BY <1>1, <1>3 DEF Shapes, Procs, Places
<1>21. Shapes'
  BY <1>1, <1>2, <1>4, <1>6 DEF Shapes
<1>22. Thread'
  BY <1>1, <1>2, <1>4, <1>3, <1>5 DEF Thread
<1>23. Levels'
  BY <1>1, <1>2, <1>4 DEF Levels, OfLevel
<1>24. Sizes'
  BY <1>1, <1>2, <1>4, <1>3, <1>5 DEF Sizes, SizesExact, HotBounded
<1>25. Trail'
  BY <1>1, <1>2, <1>4, <1>3, <1>5 DEF Trail, LastQueued, LastWritten, OnItsWay,
     Pending, Put, Underway, Complete
<1>26. BufferExact'
  BY <1>1, <1>2, <1>4, <1>5 DEF BufferExact
<1>27. FilesOnce'
  BY <1>1, <1>2, <1>4 DEF FilesOnce, Complete
<1>28. Accounted'
  BY <1>1, <1>2, <1>4, <1>3, <1>5 DEF Accounted, FilesCounted, Complete
<1>29. BufferKept'
  BY <1>1, <1>2, <1>4, <1>3, <1>5 DEF BufferKept, Loadable, Complete
<1>. QED
  BY <1>21, <1>22, <1>23, <1>24, <1>25, <1>26, <1>27, <1>28, <1>29 DEF SSDInv

LEMMA SaveGivesUpStep == SSDInv /\ (SaveRefused \/ SaveFails) => SSDInv'
<1>. SUFFICES ASSUME SSDInv, SaveRefused \/ SaveFails PROVE SSDInv'
  OBVIOUS
<1>1. /\ Shapes /\ Thread /\ Levels /\ Sizes /\ Trail /\ BufferExact /\ FilesOnce
      /\ Accounted /\ BufferKept
  BY DEF SSDInv
<1>2. /\ index' = index /\ fileSize' = fileSize /\ level' = level /\ total' = total
      /\ hot' = hot /\ hotTotal' = hotTotal /\ files' = files /\ writeQueue' = writeQueue
      /\ shutdown' = shutdown /\ writer' = writer /\ promise' = promise
      /\ hot_enabled' = hot_enabled /\ phase' = phase /\ scanned' = scanned
      /\ restarts' = restarts /\ failed' = failed /\ removed' = removed
  BY DEF SaveRefused, SaveFails, indexVars, hotVars, envVars
<1>3. /\ proc.at \in {"lookup", "save"} /\ proc.unlinks = <<>> /\ proc' = Idle
  BY DEF SaveRefused, SaveFails, At, Ready, Returns, WriterAt
<1>4. /\ Indexed' = Indexed /\ InHot' = InHot /\ Basis' = Basis /\ Busy' = Busy
      /\ \A h : InQueue(h)' = InQueue(h)
  BY <1>2 DEF Indexed, InHot, Basis, Busy, InQueue
<1>5. proc.flush = <<>> /\ phase = "open"
  BY <1>1, <1>3 DEF Thread
<1>6. /\ proc'.at = "idle" /\ proc'.h = None /\ proc'.unlinks = <<>> /\ proc'.flush = <<>>
  BY <1>3 DEF Idle
<1>7. proc' \in Procs
  BY <1>3, IdleProc
<1>21. Shapes'
  BY <1>1, <1>2, <1>4, <1>7 DEF Shapes
<1>22. Thread'
  BY <1>1, <1>2, <1>4, <1>3, <1>5, <1>6 DEF Thread
<1>23. Levels'
  BY <1>1, <1>2, <1>4 DEF Levels, OfLevel
<1>24. Sizes'
  BY <1>1, <1>2, <1>4, <1>3, <1>5, <1>6 DEF Sizes, SizesExact, HotBounded
<1>25. Trail'
  BY <1>1, <1>2, <1>4, <1>3, <1>5, <1>6 DEF Trail, LastQueued, LastWritten, OnItsWay,
     Pending, Put, Underway, Complete
<1>26. BufferExact'
  BY <1>1, <1>2, <1>4, <1>5, <1>6 DEF BufferExact
<1>27. FilesOnce'
  BY <1>1, <1>2, <1>4 DEF FilesOnce, Complete
<1>28. Accounted'
  BY <1>1, <1>2, <1>4, <1>3, <1>6 DEF Accounted, FilesCounted, Complete
<1>29. BufferKept'
  BY <1>1, <1>2, <1>4, <1>3, <1>6 DEF BufferKept, Loadable, Complete
<1>. QED
  BY <1>21, <1>22, <1>23, <1>24, <1>25, <1>26, <1>27, <1>28, <1>29 DEF SSDInv

LEMMA SaveFoundStep == SSDInv /\ SaveFound => SSDInv'
<1>. SUFFICES ASSUME SSDInv, SaveFound PROVE SSDInv'
  OBVIOUS
<1>1. /\ Shapes /\ Thread /\ Levels /\ Sizes /\ Trail /\ BufferExact /\ FilesOnce
      /\ Accounted /\ BufferKept
  BY DEF SSDInv
<1>2. /\ index' = index /\ fileSize' = fileSize /\ level' = level /\ total' = total
      /\ hot' = hot /\ hotTotal' = hotTotal /\ files' = files /\ writeQueue' = writeQueue
      /\ shutdown' = shutdown /\ writer' = writer /\ hot_enabled' = hot_enabled
      /\ phase' = phase /\ scanned' = scanned /\ restarts' = restarts /\ failed' = failed
      /\ removed' = removed
  BY DEF SaveFound, indexVars, hotVars, envVars
<1>3. /\ proc.at = "lookup" /\ proc.unlinks = <<>> /\ proc' = Idle
      /\ promise' = [promise EXCEPT ![proc.h] = IF hot_enabled THEN "yes" ELSE "buffer"]
  BY DEF SaveFound, At, Ready, Returns, WriterAt
<1>4. /\ Indexed' = Indexed /\ InHot' = InHot /\ Basis' = Basis /\ Busy' = Busy
      /\ \A h : InQueue(h)' = InQueue(h)
  BY <1>2 DEF Indexed, InHot, Basis, Busy, InQueue
<1>5. proc.flush = <<>> /\ phase = "open" /\ proc.h \in Hash
  BY <1>1, <1>3 DEF Thread
<1>6. /\ proc'.at = "idle" /\ proc'.h = None /\ proc'.unlinks = <<>> /\ proc'.flush = <<>>
  BY <1>3 DEF Idle
<1>7. proc' \in Procs
  BY <1>3, IdleProc
<1>8. /\ promise' \in [Hash -> {"yes", "no", "buffer"}]
      /\ ~hot_enabled => \A h \in Hash : promise'[h] = "yes" => promise[h] = "yes"
  BY <1>1, <1>3, <1>5 DEF Shapes
<1>21. Shapes'
  BY <1>1, <1>2, <1>4, <1>7, <1>8 DEF Shapes
<1>22. Thread'
  BY <1>1, <1>2, <1>4, <1>3, <1>5, <1>6 DEF Thread
<1>23. Levels'
  BY <1>1, <1>2, <1>4 DEF Levels, OfLevel
<1>24. Sizes'
  BY <1>1, <1>2, <1>4, <1>3, <1>5, <1>6 DEF Sizes, SizesExact, HotBounded
<1>25. Trail'
  BY <1>1, <1>2, <1>4, <1>3, <1>5, <1>6 DEF Trail, LastQueued, LastWritten, OnItsWay,
     Pending, Put, Underway, Complete
<1>26. BufferExact'
  BY <1>1, <1>2, <1>4, <1>5, <1>6 DEF BufferExact
<1>27. FilesOnce'
  BY <1>1, <1>2, <1>4 DEF FilesOnce, Complete
<1>28. Accounted'
  BY <1>1, <1>2, <1>4, <1>3, <1>6 DEF Accounted, FilesCounted, Complete
<1>29. BufferKept'
  BY <1>1, <1>2, <1>4, <1>3, <1>6, <1>8 DEF BufferKept, Loadable, Complete
<1>. QED
  BY <1>21, <1>22, <1>23, <1>24, <1>25, <1>26, <1>27, <1>28, <1>29 DEF SSDInv

LEMMA LoadIndexedStep ==
  ASSUME SSDInv, NEW h \in Hash, LoadIndexed(h)
  PROVE  SSDInv'
<1>1. /\ Shapes /\ Thread /\ Levels /\ Sizes /\ Trail /\ BufferExact /\ FilesOnce
      /\ Accounted /\ BufferKept
  BY DEF SSDInv
<1>2. /\ index' = index /\ fileSize' = fileSize /\ level' = level /\ total' = total
      /\ hot' = hot /\ hotTotal' = hotTotal /\ files' = files /\ writeQueue' = writeQueue
      /\ shutdown' = shutdown /\ writer' = writer /\ promise' = promise
      /\ hot_enabled' = hot_enabled /\ phase' = phase /\ scanned' = scanned
      /\ restarts' = restarts /\ failed' = failed /\ removed' = removed
  BY DEF LoadIndexed, indexVars, hotVars, envVars
<1>3. /\ phase = "open" /\ proc.at = "idle" /\ proc.unlinks = <<>> /\ h \notin InHot /\ h \in Indexed
      /\ proc' = [proc EXCEPT !.h = h,
                        !.at = IF files[<<h, level[h]>>] = "none" THEN "missing" ELSE "read"]
  BY DEF LoadIndexed, At, Ready, Returns, WriterAt
<1>4. /\ Indexed' = Indexed /\ InHot' = InHot /\ Basis' = Basis /\ Busy' = Busy
      /\ \A g : InQueue(g)' = InQueue(g)
  BY <1>2 DEF Indexed, InHot, Basis, Busy, InQueue
<1>5. /\ proc'.at = (IF files[<<h, level[h]>>] = "none" THEN "missing" ELSE "read") /\ proc'.h = h
      /\ proc'.unlinks = proc.unlinks /\ proc'.flush = proc.flush
  BY <1>1, <1>3 DEF Shapes, Procs
<1>6. proc' \in Procs
  BY <1>1, <1>3 DEF Shapes, Procs, Places
<1>7. proc.flush = <<>>
  BY <1>1, <1>3 DEF Thread
<1>21. Shapes'
  BY <1>1, <1>2, <1>4, <1>6 DEF Shapes
<1>22. Thread'
  BY <1>1, <1>2, <1>4, <1>3, <1>5, <1>7 DEF Thread
<1>23. Levels'
  BY <1>1, <1>2, <1>4 DEF Levels, OfLevel
<1>24. Sizes'
  BY <1>1, <1>2, <1>4, <1>3, <1>5 DEF Sizes, SizesExact, HotBounded
<1>25. Trail'
  BY <1>1, <1>2, <1>4, <1>3, <1>5 DEF Trail, LastQueued, LastWritten, OnItsWay,
     Pending, Put, Underway, Complete
<1>26. BufferExact'
  BY <1>1, <1>2, <1>4, <1>5 DEF BufferExact
<1>27. FilesOnce'
  BY <1>1, <1>2, <1>4 DEF FilesOnce, Complete
<1>28. Accounted'
  BY <1>1, <1>2, <1>4, <1>3, <1>5 DEF Accounted, FilesCounted, Complete
<1>29. BufferKept'
  BY <1>1, <1>2, <1>4, <1>3, <1>5 DEF BufferKept, Loadable, Complete
<1>. QED
  BY <1>21, <1>22, <1>23, <1>24, <1>25, <1>26, <1>27, <1>28, <1>29 DEF SSDInv

LEMMA SaveBeginsStep ==
  ASSUME SSDInv, NEW h \in Hash, SaveBegins(h)
  PROVE  SSDInv'
<1>1. /\ Shapes /\ Thread /\ Levels /\ Sizes /\ Trail /\ BufferExact /\ FilesOnce
      /\ Accounted /\ BufferKept
  BY DEF SSDInv
<1>2. /\ fileSize' = fileSize /\ level' = level /\ total' = total /\ hot' = hot
      /\ hotTotal' = hotTotal /\ files' = files /\ writeQueue' = writeQueue
      /\ shutdown' = shutdown /\ writer' = writer /\ hot_enabled' = hot_enabled
      /\ phase' = phase /\ scanned' = scanned /\ restarts' = restarts /\ failed' = failed
      /\ removed' = removed
  BY DEF SaveBegins, indexVars, hotVars, envVars
<1>3. /\ phase = "open" /\ proc.at = "idle" /\ proc.unlinks = <<>> /\ index' = Touched(h)
      /\ h \in Indexed => promise' = [promise EXCEPT ![h] = "yes"] /\ proc' = proc
      /\ h \notin Indexed => promise' = promise /\ proc' = [proc EXCEPT !.at = "lookup", !.h = h]
  BY DEF SaveBegins, At, Ready, Returns, WriterAt
<1>4. InHot' = InHot /\ Basis' = Basis /\ Busy' = Busy /\ \A g : InQueue(g)' = InQueue(g)
  BY <1>2 DEF InHot, Basis, Busy, InQueue
<1>5. index' \in Seq(Hash) /\ IsInjective(index') /\ Indexed' = Indexed
  BY <1>1, <1>3, TouchedFacts
<1>6. proc.flush = <<>> /\ proc \in Procs
  BY <1>1, <1>3 DEF Thread, Shapes
<1>7. /\ proc' \in Procs /\ proc'.unlinks = <<>> /\ proc'.flush = <<>>
      /\ \/ proc'.at = "idle" /\ h \in Indexed
         \/ proc'.at = "lookup" /\ proc'.h = h /\ h \notin Indexed
  BY <1>3, <1>6 DEF Procs, Places
<1>8. promise' \in [Hash -> {"yes", "no", "buffer"}]
  BY <1>1, <1>3 DEF Shapes
<1>9. ~hot_enabled /\ h \in Indexed \ removed => Loadable(h)
  BY <1>1, <1>3, <1>6 DEF Trail, OnItsWay, BufferExact, Underway, InQueue, Loadable, ToSet
<1>10. \A x \in Hash : promise'[x] = "yes" => promise[x] = "yes" \/ (x = h /\ h \in Indexed)
  BY <1>1, <1>3 DEF Shapes
<1>21. Shapes'
  BY <1>1, <1>2, <1>4, <1>5, <1>7, <1>8 DEF Shapes
<1>22. Thread'
  BY <1>1, <1>2, <1>4, <1>3, <1>5, <1>6, <1>7 DEF Thread
<1>23. Levels'
  BY <1>1, <1>2, <1>4 DEF Levels, OfLevel
<1>24. Sizes'
  BY <1>1, <1>2, <1>4, <1>3, <1>5, <1>6, <1>7 DEF Sizes, SizesExact, HotBounded
<1>25. Trail'
  BY <1>1, <1>2, <1>4, <1>3, <1>5, <1>6, <1>7 DEF Trail, LastQueued, LastWritten,
     OnItsWay, Pending, Put, Underway, Complete
<1>26. BufferExact'
  BY <1>1, <1>2, <1>4, <1>7 DEF BufferExact
<1>27. FilesOnce'
  BY <1>1, <1>2, <1>4, <1>5 DEF FilesOnce, Complete
<1>28. Accounted'
  BY <1>1, <1>2, <1>4, <1>3, <1>5, <1>7 DEF Accounted, FilesCounted, Complete
<1>29. BufferKept'
  BY <1>1, <1>2, <1>4, <1>5, <1>7, <1>9, <1>10 DEF BufferKept, Loadable, Complete
<1>. QED
  BY <1>21, <1>22, <1>23, <1>24, <1>25, <1>26, <1>27, <1>28, <1>29 DEF SSDInv

LEMMA LoadHotStep ==
  ASSUME SSDInv, NEW h \in Hash, LoadHot(h)
  PROVE  SSDInv'
<1>1. /\ Shapes /\ Thread /\ Levels /\ Sizes /\ Trail /\ BufferExact /\ FilesOnce
      /\ Accounted /\ BufferKept
  BY DEF SSDInv
<1>2. /\ fileSize' = fileSize /\ level' = level /\ total' = total /\ hotTotal' = hotTotal
      /\ files' = files /\ writeQueue' = writeQueue /\ shutdown' = shutdown
      /\ writer' = writer /\ proc' = proc /\ promise' = promise /\ hot_enabled' = hot_enabled
      /\ phase' = phase /\ scanned' = scanned /\ restarts' = restarts /\ failed' = failed
      /\ removed' = removed
  BY DEF LoadHot, indexVars, hotVars, envVars
<1>3. /\ phase = "open" /\ proc.at = "idle" /\ proc.unlinks = <<>> /\ h \in InHot
      /\ index' = Touched(h) /\ hot' = Append(RemoveFirst(hot, h), h)
  BY DEF LoadHot, At, Ready, Returns, WriterAt
<1>4. /\ Basis' = Basis /\ Busy' = Busy /\ \A g : InQueue(g)' = InQueue(g)
      /\ \A g : Put(g)' = Put(g) /\ Pending(g)' = Pending(g) /\ Underway(g)' = Underway(g)
  BY <1>2 DEF Basis, Busy, InQueue, Put, Pending, Underway, Flushed
<1>5. index' \in Seq(Hash) /\ IsInjective(index') /\ Indexed' = Indexed
  BY <1>1, <1>3, TouchedFacts
<1>6. hot' \in Seq(Hash) /\ IsInjective(hot') /\ InHot' = InHot /\ Len(hot') = Len(hot)
  <2>1. hot \in Seq(Hash) /\ IsInjective(hot)
    BY <1>1 DEF Shapes
  <2>2. hot' \in Seq(Hash) /\ IsInjective(hot') /\ ToSet(hot') = ToSet(hot) \cup {h}
    BY <1>3, <2>1, MoveLast
  <2>3. ToSet(hot') = ToSet(hot)
    BY <1>3, <2>2 DEF InHot
  <2>4. Len(hot') = Cardinality(ToSet(hot')) /\ Len(hot) = Cardinality(ToSet(hot))
    BY <2>1, <2>2, LenOfSet
  <2>. QED
    BY <2>2, <2>3, <2>4 DEF InHot
<1>21. Shapes'
  BY <1>1, <1>2, <1>4, <1>5, <1>6 DEF Shapes
<1>22. Thread'
  BY <1>1, <1>2, <1>4, <1>3, <1>5 DEF Thread
<1>23. Levels'
  BY <1>1, <1>2, <1>4 DEF Levels, OfLevel
<1>24. Sizes'
  BY <1>1, <1>2, <1>4, <1>5, <1>6 DEF Sizes, SizesExact, HotBounded
<1>25. Trail'
  BY <1>1, <1>2, <1>4, <1>5, <1>6 DEF Trail, LastQueued, LastWritten, OnItsWay,
     Complete
<1>26. BufferExact'
  BY <1>1, <1>2, <1>4, <1>6 DEF BufferExact
<1>27. FilesOnce'
  BY <1>1, <1>2, <1>4, <1>5 DEF FilesOnce, Complete
<1>28. Accounted'
  BY <1>1, <1>2, <1>4, <1>5 DEF Accounted, FilesCounted, Complete
<1>29. BufferKept'
  BY <1>1, <1>2, <1>4, <1>5, <1>6 DEF BufferKept, Loadable, Complete
<1>. QED
  BY <1>21, <1>22, <1>23, <1>24, <1>25, <1>26, <1>27, <1>28, <1>29 DEF SSDInv

LEMMA LoadForgetsStep == SSDInv /\ LoadForgets => SSDInv'
<1>. SUFFICES ASSUME SSDInv, LoadForgets PROVE SSDInv'
  OBVIOUS
<1>1. /\ Shapes /\ Thread /\ Levels /\ Sizes /\ Trail /\ BufferExact /\ FilesOnce
      /\ Accounted /\ BufferKept
  BY DEF SSDInv
<1>2. /\ fileSize' = fileSize /\ level' = level /\ hot' = hot /\ hotTotal' = hotTotal
      /\ files' = files /\ writeQueue' = writeQueue /\ shutdown' = shutdown
      /\ writer' = writer /\ promise' = promise /\ hot_enabled' = hot_enabled
      /\ phase' = phase /\ scanned' = scanned /\ restarts' = restarts /\ failed' = failed
      /\ removed' = removed
  BY DEF LoadForgets, indexVars, hotVars, envVars
<1>3. /\ proc.at = "missing" /\ proc.unlinks = <<>> /\ IndexRemove(proc.h) /\ proc' = Idle
  BY DEF LoadForgets, At, Ready, Returns, WriterAt
<1>4. InHot' = InHot /\ Basis' = Basis /\ Busy' = Busy /\ \A h : InQueue(h)' = InQueue(h)
  BY <1>2 DEF InHot, Basis, Busy, InQueue
<1>5. proc.flush = <<>> /\ phase = "open" /\ proc.h \in Hash
  BY <1>1, <1>3 DEF Thread
<1>6. /\ proc'.at = "idle" /\ proc'.h = None /\ proc'.unlinks = <<>> /\ proc'.flush = <<>>
      /\ proc' \in Procs
  BY <1>3, IdleProc DEF Idle

<1>7. /\ index' \in Seq(Hash) /\ IsInjective(index') /\ Indexed' = Indexed \ {proc.h}
      /\ total' = SumOf(fileSize, Indexed') /\ total' <= total
      /\ SumOf(Basis, Indexed') <= SumOf(Basis, Indexed)
      /\ {SumOf(Basis, Indexed), SumOf(Basis, Indexed'), total, total'} \subseteq Nat
  BY <1>1, <1>3, <1>5, RemoveFacts DEF Sizes

<1>8. ~hot_enabled => proc.h \notin InHot /\ ~Complete(proc.h, level[proc.h])
  BY <1>1, <1>3 DEF BufferKept
<1>21. Shapes'
  BY <1>1, <1>2, <1>4, <1>6, <1>7 DEF Shapes
<1>22. Thread'
  BY <1>1, <1>2, <1>4, <1>3, <1>5, <1>6, <1>7 DEF Thread
<1>23. Levels'
  BY <1>1, <1>2, <1>4 DEF Levels, OfLevel
<1>24. Sizes'
  <2>1. \/ total' <= scanned /\ \A h \in Indexed' : fileSize[h] = WrittenSize[h]
        \/ SumOf(Basis, Indexed') <= Ceiling + Largest
    BY <1>1, <1>7, Bounds, Known DEF Sizes, Shapes
  <2>. QED
    BY <1>1, <1>2, <1>4, <1>5, <1>6, <1>7, <2>1 DEF Sizes, SizesExact, HotBounded
<1>25. Trail'
  BY <1>1, <1>2, <1>4, <1>3, <1>5, <1>6, <1>7 DEF Trail, LastQueued, LastWritten,
     OnItsWay, Pending, Put, Underway, Complete
<1>26. BufferExact'
  BY <1>1, <1>2, <1>4, <1>5, <1>6 DEF BufferExact
<1>27. FilesOnce'
  BY <1>1, <1>2, <1>4, <1>7 DEF FilesOnce, Complete
<1>28. Accounted'
  BY <1>1, <1>2, <1>4, <1>3, <1>5, <1>6, <1>7, <1>8, Basics DEF Accounted,
     FilesCounted, Complete, FilesOnce
<1>29. BufferKept'
  BY <1>1, <1>2, <1>4, <1>6, <1>7, <1>8 DEF BufferKept, Loadable, Complete
<1>. QED
  BY <1>21, <1>22, <1>23, <1>24, <1>25, <1>26, <1>27, <1>28, <1>29 DEF SSDInv

LEMMA LoadFailsStep == SSDInv /\ LoadFails => SSDInv'
<1>. SUFFICES ASSUME SSDInv, LoadFails PROVE SSDInv'
  OBVIOUS
<1>1. /\ Shapes /\ Thread /\ Levels /\ Sizes /\ Trail /\ BufferExact /\ FilesOnce
      /\ Accounted /\ BufferKept
  BY DEF SSDInv
<1>2. /\ fileSize' = fileSize /\ level' = level /\ hot' = hot /\ hotTotal' = hotTotal
      /\ writeQueue' = writeQueue /\ shutdown' = shutdown /\ writer' = writer
      /\ promise' = promise /\ hot_enabled' = hot_enabled /\ phase' = phase
      /\ scanned' = scanned /\ restarts' = restarts /\ failed' = failed /\ removed' = removed
  BY DEF LoadFails, indexVars, hotVars, envVars
<1>3. /\ proc.at = "read" /\ proc.unlinks = <<>> /\ IndexRemove(proc.h) /\ proc' = Idle
      /\ ~Complete(proc.h, level[proc.h])
      /\ files' = [files EXCEPT ![<<proc.h, level[proc.h]>>] = "none"]
  BY DEF LoadFails, At, Ready, Returns, WriterAt
<1>4. InHot' = InHot /\ Basis' = Basis /\ Busy' = Busy /\ \A h : InQueue(h)' = InQueue(h)
  BY <1>2 DEF InHot, Basis, Busy, InQueue
<1>5. proc.flush = <<>> /\ phase = "open" /\ proc.h \in Hash
  BY <1>1, <1>3 DEF Thread
<1>6. /\ proc'.at = "idle" /\ proc'.h = None /\ proc'.unlinks = <<>> /\ proc'.flush = <<>>
      /\ proc' \in Procs
  BY <1>3, IdleProc DEF Idle

<1>7. /\ index' \in Seq(Hash) /\ IsInjective(index') /\ Indexed' = Indexed \ {proc.h}
      /\ total' = SumOf(fileSize, Indexed') /\ total' <= total
      /\ SumOf(Basis, Indexed') <= SumOf(Basis, Indexed)
      /\ {SumOf(Basis, Indexed), SumOf(Basis, Indexed'), total, total'} \subseteq Nat
  BY <1>1, <1>3, <1>5, RemoveFacts DEF Sizes

<1>8. /\ files' \in [Hash \X Level -> {"none", "partial", "complete"}]
      /\ \A h \in Hash, k \in Level : files'[<<h, k>>] =
           IF h = proc.h /\ k = level[proc.h] THEN "none" ELSE files[<<h, k>>]
  <2>1. level[proc.h] \in Level
    BY <1>5, Basics
  <2>. QED
    BY <1>1, <1>3, <1>5, <2>1 DEF Shapes
<1>9. ~hot_enabled => proc.h \notin InHot
  BY <1>1, <1>3 DEF BufferKept
<1>10. /\ \A h \in Hash, k \in Level : files'[<<h, k>>] \in {"none", files[<<h, k>>]}
       /\ \A h \in Indexed', k \in Level : files'[<<h, k>>] = files[<<h, k>>]
       /\ ~Complete(proc.h, level[proc.h])
  BY <1>3, <1>7, <1>8, Basics
<1>21. Shapes'
  BY <1>1, <1>2, <1>4, <1>6, <1>7, <1>8 DEF Shapes
<1>22. Thread'
  BY <1>1, <1>2, <1>4, <1>3, <1>5, <1>6, <1>7 DEF Thread
<1>23. Levels'
  BY <1>1, <1>2, <1>4, <1>10, Basics DEF Levels, OfLevel
<1>24. Sizes'
  <2>1. \/ total' <= scanned /\ \A h \in Indexed' : fileSize[h] = WrittenSize[h]
        \/ SumOf(Basis, Indexed') <= Ceiling + Largest
    BY <1>1, <1>7, Bounds, Known DEF Sizes, Shapes
  <2>. QED
    BY <1>1, <1>2, <1>4, <1>5, <1>6, <1>7, <2>1 DEF Sizes, SizesExact, HotBounded
<1>25. Trail'
  <2>1. \A h : ~Put(h) /\ ~Put(h)'
    BY <1>3, <1>6 DEF Put
  <2>2. \A h : Pending(h)' = Pending(h) /\ Underway(h)' = Underway(h)
    BY <1>2, <1>4, <1>5, <1>6, <2>1 DEF Pending, Underway
  <2>3. \A h \in Indexed' : h \in Indexed /\ files'[<<h, level[h]>>] = files[<<h, level[h]>>]
    BY <1>7, <1>10, Basics
  <2>4. LastQueued'
    BY <1>1, <1>2, <1>7, <2>1 DEF Trail, LastQueued
  <2>5. LastWritten'
    BY <1>1, <1>2, <1>4, <2>2, <2>3 DEF Trail, LastWritten, Complete
  <2>6. OnItsWay'
    BY <1>1, <1>2, <1>4, <2>2, <2>3 DEF Trail, OnItsWay, Complete
  <2>. QED
    BY <2>4, <2>5, <2>6 DEF Trail
<1>26. BufferExact'
  BY <1>1, <1>2, <1>4, <1>5, <1>6 DEF BufferExact
<1>27. FilesOnce'
  BY <1>1, <1>2, <1>4, <1>7, <1>10, Basics DEF FilesOnce, Complete
<1>28. Accounted'
  BY <1>1, <1>2, <1>4, <1>3, <1>5, <1>6, <1>7, <1>8, <1>9, Basics DEF Accounted,
     FilesCounted, Complete, FilesOnce
<1>29. BufferKept'
  BY <1>1, <1>2, <1>4, <1>6, <1>7, <1>9, <1>10, Basics DEF BufferKept, Loadable,
     Complete
<1>. QED
  BY <1>21, <1>22, <1>23, <1>24, <1>25, <1>26, <1>27, <1>28, <1>29 DEF SSDInv

LEMMA SaveGoesOnStep ==
  ASSUME SSDInv, SaveMakesRoom, hot_enabled
  PROVE  SSDInv'
<1>1. /\ Shapes /\ Thread /\ Levels /\ Sizes /\ Trail /\ BufferExact /\ FilesOnce
      /\ Accounted /\ BufferKept
  BY DEF SSDInv
<1>2. /\ index' = index /\ fileSize' = fileSize /\ level' = level /\ total' = total
      /\ hot' = hot /\ hotTotal' = hotTotal /\ files' = files /\ writeQueue' = writeQueue
      /\ shutdown' = shutdown /\ writer' = writer /\ promise' = promise
      /\ hot_enabled' = hot_enabled /\ phase' = phase /\ scanned' = scanned
      /\ restarts' = restarts /\ failed' = failed /\ removed' = removed
  BY DEF SaveMakesRoom, indexVars, hotVars, envVars
<1>3. /\ proc.at = "lookup" /\ proc.unlinks = <<>> /\ proc.h \notin InHot
      /\ proc' = [proc EXCEPT !.at = "save"]
  BY DEF SaveMakesRoom, At, Ready, Returns, WriterAt
<1>4. /\ Indexed' = Indexed /\ InHot' = InHot /\ Basis' = Basis /\ Busy' = Busy
      /\ \A h : InQueue(h)' = InQueue(h)
  BY <1>2 DEF Indexed, InHot, Basis, Busy, InQueue
<1>5. proc.flush = <<>> /\ hot_enabled \in BOOLEAN /\ proc \in Procs
  BY <1>1, <1>3, Known DEF Thread, Shapes
<1>6. /\ proc'.at = "save" /\ proc'.h = proc.h /\ proc'.unlinks = <<>> /\ proc'.flush = <<>>
      /\ proc' \in Procs
  BY <1>3, <1>5 DEF Procs, Places
<1>21. Shapes'
  BY <1>1, <1>2, <1>4, <1>6 DEF Shapes
<1>22. Thread'
  BY <1>1, <1>2, <1>4, <1>3, <1>5, <1>6 DEF Thread
<1>23. Levels'
  BY <1>1, <1>2, <1>4 DEF Levels, OfLevel
<1>24. Sizes'
  BY <1>1, <1>2, <1>4, <1>3, <1>5, <1>6 DEF Sizes, SizesExact, HotBounded
<1>25. Trail'
  BY <1>1, <1>2, <1>4, <1>3, <1>5, <1>6 DEF Trail, LastQueued, LastWritten, OnItsWay,
     Pending, Put, Underway, Complete
<1>26. BufferExact'
  BY <1>1, <1>2, <1>4, <1>5, <1>6 DEF BufferExact
<1>27. FilesOnce'
  BY <1>1, <1>2, <1>4 DEF FilesOnce, Complete
<1>28. Accounted'
  BY <1>1, <1>2, <1>4, <1>3, <1>6 DEF Accounted, FilesCounted, Complete
<1>29. BufferKept'
  BY <1>1, <1>2, <1>4, <1>3, <1>6 DEF BufferKept, Loadable, Complete
<1>. QED
  BY <1>21, <1>22, <1>23, <1>24, <1>25, <1>26, <1>27, <1>28, <1>29 DEF SSDInv

LEMMA SaveEvictsStep ==
  ASSUME SSDInv, SaveMakesRoom, ~hot_enabled
  PROVE  SSDInv'
<1>1. /\ Shapes /\ Thread /\ Levels /\ Sizes /\ Trail /\ BufferExact /\ FilesOnce
      /\ Accounted /\ BufferKept
  BY DEF SSDInv
<1>2. /\ fileSize' = fileSize /\ level' = level /\ hot' = hot /\ hotTotal' = hotTotal
      /\ files' = files /\ writeQueue' = writeQueue /\ shutdown' = shutdown
      /\ writer' = writer /\ hot_enabled' = hot_enabled /\ phase' = phase
      /\ scanned' = scanned /\ restarts' = restarts /\ failed' = failed /\ removed' = removed
  BY DEF SaveMakesRoom, indexVars, hotVars, envVars
<1>3. /\ proc.at = "lookup" /\ proc.unlinks = <<>> /\ proc.h \notin InHot
      /\ Enforce("save")
  BY DEF SaveMakesRoom, At, Ready, Returns, WriterAt
<1>4. InHot' = InHot /\ Basis' = Basis /\ Busy' = Busy /\ \A h : InQueue(h)' = InQueue(h)
  BY <1>2 DEF InHot, Basis, Busy, InQueue
<1>5. proc.flush = <<>> /\ phase = "open" /\ proc.h \in Hash
  BY <1>1, <1>3 DEF Thread

<1>7. /\ index' \in Seq(Hash) /\ IsInjective(index') /\ Indexed' \subseteq Indexed
      /\ proc' = [proc EXCEPT !.at = "save", !.unlinks = proc'.unlinks]
      /\ proc'.unlinks \in Seq(Hash \X Level)
      /\ ToSet(proc'.unlinks) = {<<h, level[h]>> : h \in Indexed \ Indexed'}
      /\ promise' \in [Hash -> {"yes", "no", "buffer"}]
      /\ \A h \in Hash : promise'[h] = "yes" =>
           promise[h] = "yes" /\ (~hot_enabled => h \notin Indexed \ Indexed')
      /\ total' = SumOf(fileSize, Indexed') /\ total' <= total
      /\ SumOf(Basis, Indexed') <= Ceiling
  BY <1>1, <1>3, EnforceFacts DEF Sizes, Places
<1>8. /\ proc'.at = "save" /\ proc'.h = proc.h /\ proc'.flush = proc.flush /\ proc' \in Procs
  BY <1>1, <1>7 DEF Shapes, Procs, Places
<1>9. /\ \A f \in ToSet(proc'.unlinks) : f[1] \in Indexed \ Indexed'
      /\ \A h \in Indexed \ Indexed' : <<h, level[h]>> \in ToSet(proc'.unlinks)
  <2>. DEFINE gone == Indexed \ Indexed'
  <2>1. ToSet(proc'.unlinks) = {<<h, level[h]>> : h \in gone}
    BY <1>7
  <2>. HIDE DEF gone
  <2>2. /\ \A f \in ToSet(proc'.unlinks) : f[1] \in gone
        /\ \A h \in gone : <<h, level[h]>> \in ToSet(proc'.unlinks)
    BY <2>1
  <2>. QED
    BY <2>2 DEF gone
<1>10. Flushed' = Flushed
  BY <1>8 DEF Flushed
<1>11. /\ total \in Nat /\ total' \in Nat /\ scanned \in Nat /\ Ceiling \in Nat /\ Largest \in Nat
       /\ SumOf(Basis, Indexed') \in Nat
  <2>1. /\ Indexed' \in SUBSET Hash /\ Indexed \in SUBSET Hash
        /\ (\A h \in Hash : fileSize[h] \in Nat) /\ \A h \in Hash : Basis[h] \in Nat
    BY <1>1, <1>7, Known
  <2>2. SumOf(fileSize, Indexed) \in Nat /\ SumOf(fileSize, Indexed') \in Nat
    BY <2>1, SumFacts
  <2>3. SumOf(Basis, Indexed') \in Nat
    BY <2>1, SumFacts
  <2>. QED
    BY <1>1, <1>7, <2>2, <2>3, Bounds DEF Sizes, SizesExact, Shapes
<1>21. Shapes'
  BY <1>1, <1>2, <1>4, <1>7, <1>8 DEF Shapes
<1>22. Thread'
  BY <1>1, <1>2, <1>4, <1>3, <1>5, <1>7, <1>8, <1>9 DEF Thread
<1>23. Levels'
  BY <1>1, <1>2, <1>4 DEF Levels, OfLevel
<1>24. Sizes'
  <2>1. SumOf(Basis, Indexed') <= Ceiling + Largest
    BY <1>7, <1>11
  <2>. QED
    BY <1>1, <1>2, <1>4, <1>3, <1>5, <1>7, <1>8, <2>1 DEF Sizes, SizesExact, HotBounded
<1>25. Trail'
  <2>1. \A h : ~Put(h) /\ ~Put(h)'
    BY <1>3, <1>8 DEF Put
  <2>2. \A h : Pending(h)' = Pending(h) /\ Underway(h)' = Underway(h)
    BY <1>2, <1>4, <1>8, <2>1 DEF Pending, Underway
  <2>3. LastQueued'
    BY <1>1, <1>2, <1>7, <2>1 DEF Trail, LastQueued
  <2>4. LastWritten'
    BY <1>1, <1>2, <1>4, <1>7, <2>2 DEF Trail, LastWritten, Complete
  <2>5. OnItsWay'
    BY <1>1, <1>2, <1>4, <1>7, <2>2 DEF Trail, OnItsWay, Complete
  <2>. QED
    BY <2>3, <2>4, <2>5 DEF Trail
<1>26. BufferExact'
  BY <1>1, <1>2, <1>4, <1>5, <1>8 DEF BufferExact
<1>27. FilesOnce'
  BY <1>1, <1>2, <1>4, <1>7 DEF FilesOnce, Complete
<1>28. Accounted'
  <2>1. ASSUME ~hot_enabled, NEW h \in Hash, Complete(h, 0), h \in Indexed \ Indexed'
        PROVE  <<h, 0>> \in ToSet(proc'.unlinks)
    BY <1>1, <1>9, <2>1, Basics DEF FilesOnce, Complete
  <2>2. ToSet(proc.unlinks) = {}
    BY <1>3 DEF ToSet
  <2>3. writer.at = "finish" => writer.h \in Hash
    BY Basics
  <2>. QED
    BY <1>1, <1>2, <1>7, <2>1, <2>2, <2>3 DEF Accounted, FilesCounted, Complete
<1>29. BufferKept'
  BY <1>1, <1>2, <1>4, <1>3, <1>7, <1>8 DEF BufferKept, Loadable, Complete
<1>. QED
  BY <1>21, <1>22, <1>23, <1>24, <1>25, <1>26, <1>27, <1>28, <1>29 DEF SSDInv

LEMMA FlushFindsStep ==
  ASSUME SSDInv, FlushBegins, Flushed \in Indexed
  PROVE  SSDInv'
<1>1. /\ Shapes /\ Thread /\ Levels /\ Sizes /\ Trail /\ BufferExact /\ FilesOnce
      /\ Accounted /\ BufferKept
  BY DEF SSDInv
<1>2. /\ index' = index /\ fileSize' = fileSize /\ level' = level /\ total' = total
      /\ hot' = hot /\ hotTotal' = hotTotal /\ files' = files /\ writeQueue' = writeQueue
      /\ shutdown' = shutdown /\ writer' = writer /\ promise' = promise
      /\ hot_enabled' = hot_enabled /\ phase' = phase /\ scanned' = scanned
      /\ restarts' = restarts /\ failed' = failed /\ removed' = removed
  BY DEF FlushBegins, indexVars, hotVars, envVars
<1>3. /\ proc.at = "flush" /\ proc.unlinks = <<>> /\ proc.flush # <<>>
      /\ proc' = [proc EXCEPT !.at = "put"]
  BY DEF FlushBegins, At, Ready, Returns, WriterAt
<1>4. /\ Indexed' = Indexed /\ InHot' = InHot /\ Basis' = Basis /\ Busy' = Busy
      /\ \A h : InQueue(h)' = InQueue(h)
  BY <1>2 DEF Indexed, InHot, Basis, Busy, InQueue
<1>5. proc \in Procs
  BY <1>1 DEF Shapes
<1>6. /\ proc'.at = "put" /\ proc'.h = proc.h /\ proc'.unlinks = <<>> /\ proc'.flush = proc.flush
      /\ proc' \in Procs
  BY <1>3, <1>5 DEF Procs, Places
<1>7. \A h : ~Put(h) /\ Underway(h)' = Underway(h)
  BY <1>2, <1>3, <1>6 DEF Put, Underway
<1>21. Shapes'
  BY <1>1, <1>2, <1>4, <1>6 DEF Shapes
<1>22. Thread'
  BY <1>1, <1>2, <1>4, <1>3, <1>6 DEF Thread
<1>23. Levels'
  BY <1>1, <1>2, <1>4 DEF Levels, OfLevel
<1>24. Sizes'
  BY <1>1, <1>2, <1>4, <1>3, <1>6 DEF Sizes, SizesExact, HotBounded
<1>25. Trail'
  <2>1. \A h : Pending(h) => Pending(h)'
    BY <1>4, <1>7 DEF Pending
  <2>. QED
    BY <1>1, <1>2, <1>4, <1>7, <2>1 DEF Trail, LastQueued, LastWritten, OnItsWay, Complete
<1>26. BufferExact'
  BY <1>1, <1>2, <1>4, <1>6 DEF BufferExact
<1>27. FilesOnce'
  BY <1>1, <1>2, <1>4 DEF FilesOnce, Complete
<1>28. Accounted'
  BY <1>1, <1>2, <1>4, <1>3, <1>6 DEF Accounted, FilesCounted, Complete
<1>29. BufferKept'
  BY <1>1, <1>2, <1>4, <1>3, <1>6 DEF BufferKept, Loadable, Complete
<1>. QED
  BY <1>21, <1>22, <1>23, <1>24, <1>25, <1>26, <1>27, <1>28, <1>29 DEF SSDInv

LEMMA FlushEvictsStep ==
  ASSUME SSDInv, FlushBegins, Flushed \notin Indexed
  PROVE  SSDInv'
<1>1. /\ Shapes /\ Thread /\ Levels /\ Sizes /\ Trail /\ BufferExact /\ FilesOnce
      /\ Accounted /\ BufferKept
  BY DEF SSDInv
<1>2. /\ fileSize' = fileSize /\ level' = level /\ hot' = hot /\ hotTotal' = hotTotal
      /\ files' = files /\ writeQueue' = writeQueue /\ shutdown' = shutdown
      /\ writer' = writer /\ hot_enabled' = hot_enabled /\ phase' = phase
      /\ scanned' = scanned /\ restarts' = restarts /\ failed' = failed /\ removed' = removed
  BY DEF FlushBegins, indexVars, hotVars, envVars
<1>3. /\ proc.at = "flush" /\ proc.unlinks = <<>> /\ proc.flush # <<>>
      /\ Enforce("add")
  BY DEF FlushBegins, At, Ready, Returns, WriterAt
<1>4. InHot' = InHot /\ Basis' = Basis /\ Busy' = Busy /\ \A h : InQueue(h)' = InQueue(h)
  BY <1>2 DEF InHot, Basis, Busy, InQueue
<1>5. Flushed \in Hash
  BY <1>1, <1>3, FlushFacts

<1>7. /\ index' \in Seq(Hash) /\ IsInjective(index') /\ Indexed' \subseteq Indexed
      /\ proc' = [proc EXCEPT !.at = "add", !.unlinks = proc'.unlinks]
      /\ proc'.unlinks \in Seq(Hash \X Level)
      /\ ToSet(proc'.unlinks) = {<<h, level[h]>> : h \in Indexed \ Indexed'}
      /\ promise' \in [Hash -> {"yes", "no", "buffer"}]
      /\ \A h \in Hash : promise'[h] = "yes" =>
           promise[h] = "yes" /\ (~hot_enabled => h \notin Indexed \ Indexed')
      /\ total' = SumOf(fileSize, Indexed') /\ total' <= total
      /\ SumOf(Basis, Indexed') <= Ceiling
  BY <1>1, <1>3, EnforceFacts DEF Sizes, Places
<1>8. /\ proc'.at = "add" /\ proc'.h = proc.h /\ proc'.flush = proc.flush /\ proc' \in Procs
  BY <1>1, <1>7 DEF Shapes, Procs, Places
<1>9. /\ \A f \in ToSet(proc'.unlinks) : f[1] \in Indexed \ Indexed'
      /\ \A h \in Indexed \ Indexed' : <<h, level[h]>> \in ToSet(proc'.unlinks)
  <2>. DEFINE gone == Indexed \ Indexed'
  <2>1. ToSet(proc'.unlinks) = {<<h, level[h]>> : h \in gone}
    BY <1>7
  <2>. HIDE DEF gone
  <2>2. /\ \A f \in ToSet(proc'.unlinks) : f[1] \in gone
        /\ \A h \in gone : <<h, level[h]>> \in ToSet(proc'.unlinks)
    BY <2>1
  <2>. QED
    BY <2>2 DEF gone
<1>10. Flushed' = Flushed
  BY <1>8 DEF Flushed
<1>11. /\ total \in Nat /\ total' \in Nat /\ scanned \in Nat /\ Ceiling \in Nat /\ Largest \in Nat
       /\ SumOf(Basis, Indexed') \in Nat
  <2>1. /\ Indexed' \in SUBSET Hash /\ Indexed \in SUBSET Hash
        /\ (\A h \in Hash : fileSize[h] \in Nat) /\ \A h \in Hash : Basis[h] \in Nat
    BY <1>1, <1>7, Known
  <2>2. SumOf(fileSize, Indexed) \in Nat /\ SumOf(fileSize, Indexed') \in Nat
    BY <2>1, SumFacts
  <2>3. SumOf(Basis, Indexed') \in Nat
    BY <2>1, SumFacts
  <2>. QED
    BY <1>1, <1>7, <2>2, <2>3, Bounds DEF Sizes, SizesExact, Shapes
<1>21. Shapes'
  BY <1>1, <1>2, <1>4, <1>7, <1>8 DEF Shapes
<1>22. Thread'
  BY <1>1, <1>2, <1>4, <1>3, <1>5, <1>7, <1>8, <1>9, <1>10 DEF Thread
<1>23. Levels'
  BY <1>1, <1>2, <1>4 DEF Levels, OfLevel
<1>24. Sizes'
  <2>1. SumOf(Basis, Indexed') <= Ceiling + Largest
    BY <1>7, <1>11
  <2>. QED
    BY <1>1, <1>2, <1>4, <1>3, <1>5, <1>7, <1>8, <2>1 DEF Sizes, SizesExact, HotBounded
<1>25. Trail'
  <2>1. \A h : ~Put(h) /\ ~Put(h)'
    BY <1>3, <1>8 DEF Put
  <2>2. \A h : Pending(h)' = Pending(h) /\ Underway(h)' = Underway(h)
    BY <1>2, <1>4, <1>8, <2>1 DEF Pending, Underway
  <2>3. LastQueued'
    BY <1>1, <1>2, <1>7, <2>1 DEF Trail, LastQueued
  <2>4. LastWritten'
    BY <1>1, <1>2, <1>4, <1>7, <2>2 DEF Trail, LastWritten, Complete
  <2>5. OnItsWay'
    BY <1>1, <1>2, <1>4, <1>7, <2>2 DEF Trail, OnItsWay, Complete
  <2>. QED
    BY <2>3, <2>4, <2>5 DEF Trail
<1>26. BufferExact'
  BY <1>1, <1>2, <1>4, <1>8 DEF BufferExact
<1>27. FilesOnce'
  BY <1>1, <1>2, <1>4, <1>7 DEF FilesOnce, Complete
<1>28. Accounted'
  <2>1. ASSUME ~hot_enabled, NEW h \in Hash, Complete(h, 0), h \in Indexed \ Indexed'
        PROVE  <<h, 0>> \in ToSet(proc'.unlinks)
    BY <1>1, <1>9, <2>1, Basics DEF FilesOnce, Complete
  <2>2. ToSet(proc.unlinks) = {}
    BY <1>3 DEF ToSet
  <2>3. writer.at = "finish" => writer.h \in Hash
    BY Basics
  <2>. QED
    BY <1>1, <1>2, <1>7, <2>1, <2>2, <2>3 DEF Accounted, FilesCounted, Complete
<1>29. BufferKept'
  BY <1>1, <1>2, <1>4, <1>3, <1>7, <1>8 DEF BufferKept, Loadable, Complete
<1>. QED
  BY <1>21, <1>22, <1>23, <1>24, <1>25, <1>26, <1>27, <1>28, <1>29 DEF SSDInv

LEMMA FlushAddsStep == SSDInv /\ FlushAdds => SSDInv'
<1>. SUFFICES ASSUME SSDInv, FlushAdds PROVE SSDInv'
  OBVIOUS
<1>1. /\ Shapes /\ Thread /\ Levels /\ Sizes /\ Trail /\ BufferExact /\ FilesOnce
      /\ Accounted /\ BufferKept
  BY DEF SSDInv
<1>2. /\ level' = level /\ hot' = hot /\ hotTotal' = hotTotal /\ files' = files
      /\ writeQueue' = writeQueue /\ shutdown' = shutdown /\ writer' = writer
      /\ promise' = promise /\ hot_enabled' = hot_enabled /\ phase' = phase
      /\ scanned' = scanned /\ restarts' = restarts /\ failed' = failed /\ removed' = removed
  BY DEF FlushAdds, indexVars, hotVars, envVars
<1>3. /\ proc.at = "add" /\ proc.unlinks = <<>> /\ proc' = [proc EXCEPT !.at = "put"]
      /\ IndexAdd(Flushed, fileSize[Flushed])
  BY DEF FlushAdds, At, Ready, Returns, WriterAt
<1>4. InHot' = InHot /\ Busy' = Busy /\ \A h : InQueue(h)' = InQueue(h)
  BY <1>2 DEF InHot, Busy, InQueue
<1>5. proc.flush # <<>> /\ Flushed \notin Indexed /\ Flushed \in Hash /\ Flushed \in ToSet(proc.flush)
  BY <1>1, <1>3, FlushFacts DEF Thread
<1>6. fileSize[Flushed] \in Nat /\ fileSize[Flushed] # 0 /\ hot_enabled
  BY <1>1, <1>5, Known DEF Sizes, BufferExact

<1>7. /\ index' \in Seq(Hash) /\ IsInjective(index') /\ Indexed' = Indexed \cup {Flushed}
      /\ fileSize' \in [Hash -> Nat] /\ fileSize'[Flushed] = fileSize[Flushed]
      /\ \A x \in Hash \ {Flushed} : fileSize'[x] = fileSize[x]
      /\ total' = SumOf(fileSize', Indexed') /\ total' = total + fileSize[Flushed] /\ total \in Nat
      /\ SumOf(Basis', Indexed') <= SumOf(Basis, Indexed) + Largest
      /\ SumOf(Basis, Indexed) \in Nat /\ SumOf(Basis', Indexed') \in Nat
  BY <1>1, <1>3, <1>5, <1>6, AddFacts DEF Sizes

<1>8. /\ proc'.at = "put" /\ proc'.h = proc.h /\ proc'.unlinks = <<>> /\ proc'.flush = proc.flush
      /\ proc' \in Procs
  BY <1>1, <1>3 DEF Shapes, Procs, Places
<1>9. \A h : ~Put(h) /\ (Put(h)' <=> h = Flushed) /\ Underway(h)' = Underway(h)
  BY <1>2, <1>3, <1>8 DEF Put, Underway, Flushed
<1>10. \A h \in Hash : fileSize'[h] = fileSize[h]
  BY <1>7
<1>21. Shapes'
  BY <1>1, <1>2, <1>4, <1>7, <1>8 DEF Shapes
<1>22. Thread'
  <2>1. ToSet(proc'.unlinks) = {}
    BY <1>8 DEF ToSet
  <2>. QED
    BY <1>1, <1>2, <1>3, <1>4, <1>5, <1>7, <1>8, <2>1 DEF Thread
<1>23. Levels'
  BY <1>1, <1>2, <1>4 DEF Levels, OfLevel
<1>24. Sizes'
  <2>1. SumOf(Basis', Indexed') <= Ceiling + Largest
    BY <1>1, <1>3, <1>7, Bounds DEF Sizes
  <2>2. /\ SizesExact' /\ HotBounded'
    BY <1>1, <1>2, <1>4, <1>7 DEF Sizes, SizesExact, HotBounded
  <2>3. \A h \in Indexed' \cup ToSet(proc'.flush) : fileSize'[h] # 0
    <3>1. Indexed' \cup ToSet(proc'.flush) = Indexed \cup ToSet(proc.flush)
      BY <1>5, <1>7, <1>8
    <3>2. ToSet(proc.flush) \subseteq Hash /\ Indexed \subseteq Hash
      BY <1>1, Basics DEF Shapes, Procs, ToSet
    <3>. QED
      BY <1>1, <1>10, <3>1, <3>2 DEF Sizes
  <2>. QED
    BY <1>1, <1>2, <1>4, <1>8, <1>10, <2>1, <2>2, <2>3, Basics DEF Sizes
<1>25. Trail'
  <2>1. \A h : Pending(h) => Pending(h)'
    BY <1>4, <1>9 DEF Pending
  <2>2. \A h : h = Flushed => Pending(h)' /\ Underway(h)
    BY <1>5, <1>9 DEF Pending, Underway
  <2>3. LastQueued'
    BY <1>1, <1>2, <1>7, <1>9 DEF Trail, LastQueued
  <2>4. LastWritten'
    BY <1>1, <1>2, <1>4, <1>7, <2>1, <2>2 DEF Trail, LastWritten, Complete
  <2>5. OnItsWay'
    BY <1>1, <1>2, <1>4, <1>7, <1>9, <2>2 DEF Trail, OnItsWay, Complete
  <2>. QED
    BY <2>3, <2>4, <2>5 DEF Trail
<1>26. BufferExact'
  BY <1>1, <1>2, <1>4, <1>6 DEF BufferExact
<1>27. FilesOnce'
  BY <1>1, <1>2, <1>4, <1>6 DEF FilesOnce, Complete
<1>28. Accounted'
  BY <1>1, <1>2, <1>4, <1>6 DEF Accounted, FilesCounted, Complete
<1>29. BufferKept'
  BY <1>1, <1>2, <1>4, <1>6 DEF BufferKept, Loadable, Complete
<1>. QED
  BY <1>21, <1>22, <1>23, <1>24, <1>25, <1>26, <1>27, <1>28, <1>29 DEF SSDInv

LEMMA FlushDropsStep ==
  ASSUME SSDInv, FlushPuts, Full
  PROVE  SSDInv'
<1>1. /\ Shapes /\ Thread /\ Levels /\ Sizes /\ Trail /\ BufferExact /\ FilesOnce
      /\ Accounted /\ BufferKept
  BY DEF SSDInv
<1>2. /\ fileSize' = fileSize /\ level' = level /\ hot' = hot /\ hotTotal' = hotTotal
      /\ files' = files /\ writeQueue' = writeQueue /\ shutdown' = shutdown
      /\ writer' = writer /\ hot_enabled' = hot_enabled /\ phase' = phase
      /\ scanned' = scanned /\ restarts' = restarts /\ failed' = failed /\ removed' = removed
  BY DEF FlushPuts, indexVars, hotVars, envVars
<1>3. /\ proc.at = "put" /\ proc.unlinks = <<>> /\ proc' = [proc EXCEPT !.at = "flush", !.flush = Tail(@)]
      /\ IndexRemove(Flushed) /\ promise' = [promise EXCEPT ![Flushed] = "no"]
  BY DEF FlushPuts, At, Ready, Returns, WriterAt
<1>4. InHot' = InHot /\ Basis' = Basis /\ Busy' = Busy /\ \A h : InQueue(h)' = InQueue(h)
  BY <1>2 DEF InHot, Basis, Busy, InQueue
<1>5. /\ proc.flush # <<>> /\ Flushed \in Hash /\ Tail(proc.flush) \in Seq(Hash)
      /\ ToSet(proc.flush) = {Flushed} \cup ToSet(Tail(proc.flush))
  BY <1>1, <1>3, FlushFacts DEF Thread
<1>6. hot_enabled /\ phase # "closed"
  BY <1>1, <1>3, <1>5 DEF BufferExact, Thread
<1>8. /\ proc'.at = "flush" /\ proc'.h = proc.h /\ proc'.unlinks = <<>>
      /\ proc'.flush = Tail(proc.flush) /\ proc' \in Procs
  BY <1>1, <1>3, <1>5 DEF Shapes, Procs, Places
<1>9. /\ \A h : ~Put(h)' /\ (Put(h) <=> h = Flushed)
      /\ ToSet(proc'.flush) \subseteq ToSet(proc.flush)
  BY <1>3, <1>5, <1>8 DEF Put

<1>7. /\ index' \in Seq(Hash) /\ IsInjective(index') /\ Indexed' = Indexed \ {Flushed}
      /\ total' = SumOf(fileSize, Indexed') /\ total' <= total
      /\ SumOf(Basis, Indexed') <= SumOf(Basis, Indexed)
      /\ {SumOf(Basis, Indexed), SumOf(Basis, Indexed'), total, total'} \subseteq Nat
  BY <1>1, <1>3, <1>5, RemoveFacts DEF Sizes
<1>10. promise' \in [Hash -> {"yes", "no", "buffer"}]
  BY <1>1, <1>3 DEF Shapes
<1>21. Shapes'
  BY <1>1, <1>2, <1>4, <1>7, <1>8, <1>10 DEF Shapes
<1>22. Thread'
  BY <1>1, <1>2, <1>4, <1>3, <1>6, <1>7, <1>8 DEF Thread
<1>23. Levels'
  BY <1>1, <1>2, <1>4 DEF Levels, OfLevel
<1>24. Sizes'
  <2>1. \/ total' <= scanned /\ \A h \in Indexed' : fileSize[h] = WrittenSize[h]
        \/ SumOf(Basis, Indexed') <= Ceiling + Largest
    BY <1>1, <1>7, Bounds DEF Sizes, Shapes
  <2>. QED
    BY <1>1, <1>2, <1>4, <1>7, <1>8, <1>9, <2>1 DEF Sizes, SizesExact, HotBounded
<1>25. Trail'
  <2>1. \A h \in Indexed' : (Pending(h) => Pending(h)') /\ (Underway(h) => Underway(h)')
    BY <1>2, <1>4, <1>5, <1>7, <1>8, <1>9 DEF Pending, Underway
  <2>2. LastQueued'
    BY <1>1, <1>2, <1>7, <1>9 DEF Trail, LastQueued
  <2>3. LastWritten'
    BY <1>1, <1>2, <1>4, <1>7, <2>1 DEF Trail, LastWritten, Complete
  <2>4. OnItsWay'
    BY <1>1, <1>2, <1>4, <1>7, <2>1 DEF Trail, OnItsWay, Complete
  <2>. QED
    BY <2>2, <2>3, <2>4 DEF Trail
<1>26. BufferExact'
  BY <1>1, <1>2, <1>4, <1>6 DEF BufferExact
<1>27. FilesOnce'
  BY <1>1, <1>2, <1>4, <1>6 DEF FilesOnce, Complete
<1>28. Accounted'
  BY <1>1, <1>2, <1>4, <1>6 DEF Accounted, FilesCounted, Complete
<1>29. BufferKept'
  BY <1>1, <1>2, <1>4, <1>6 DEF BufferKept, Loadable, Complete
<1>. QED
  BY <1>21, <1>22, <1>23, <1>24, <1>25, <1>26, <1>27, <1>28, <1>29 DEF SSDInv

LEMMA FlushQueuesStep ==
  ASSUME SSDInv, FlushPuts, ~Full
  PROVE  SSDInv'
<1>1. /\ Shapes /\ Thread /\ Levels /\ Sizes /\ Trail /\ BufferExact /\ FilesOnce
      /\ Accounted /\ BufferKept
  BY DEF SSDInv
<1>2. /\ index' = index /\ fileSize' = fileSize /\ level' = level /\ total' = total
      /\ hot' = hot /\ hotTotal' = hotTotal /\ files' = files /\ shutdown' = shutdown
      /\ writer' = writer /\ promise' = promise /\ hot_enabled' = hot_enabled
      /\ phase' = phase /\ scanned' = scanned /\ restarts' = restarts /\ failed' = failed
      /\ removed' = removed
  BY DEF FlushPuts, indexVars, hotVars, envVars
<1>3. /\ proc.at = "put" /\ proc.unlinks = <<>> /\ proc' = [proc EXCEPT !.at = "flush", !.flush = Tail(@)]
      /\ writeQueue' = Append(writeQueue, <<Flushed, level[Flushed]>>)
  BY DEF FlushPuts, At, Ready, Returns, WriterAt
<1>4. Indexed' = Indexed /\ InHot' = InHot /\ Basis' = Basis /\ Busy' = Busy
  BY <1>2 DEF Indexed, InHot, Basis, Busy
<1>5. /\ proc.flush # <<>> /\ Flushed \in Hash /\ Tail(proc.flush) \in Seq(Hash)
      /\ ToSet(proc.flush) = {Flushed} \cup ToSet(Tail(proc.flush))
  BY <1>1, <1>3, FlushFacts DEF Thread
<1>6. hot_enabled /\ phase # "closed"
  BY <1>1, <1>3, <1>5 DEF BufferExact, Thread
<1>8. /\ proc'.at = "flush" /\ proc'.h = proc.h /\ proc'.unlinks = <<>>
      /\ proc'.flush = Tail(proc.flush) /\ proc' \in Procs
  BY <1>1, <1>3, <1>5 DEF Shapes, Procs, Places
<1>9. /\ \A h : ~Put(h)' /\ (Put(h) <=> h = Flushed)
      /\ ToSet(proc'.flush) \subseteq ToSet(proc.flush)
  BY <1>3, <1>5, <1>8 DEF Put

<1>7. /\ level[Flushed] \in Level /\ Len(writeQueue) < QueueSize
      /\ <<Flushed, level[Flushed]>> \in Item /\ <<Flushed, level[Flushed]>> # None
  <2>1. level[Flushed] \in Level /\ None \notin Hash \X Level /\ QueueSize \in Nat /\ Len(writeQueue) \in Nat
    BY <1>1, <1>5, Known, Constants, ItemFacts
  <2>. QED
    BY <1>5, <2>1 DEF Item, Full
<1>10. /\ writeQueue' \in Seq(Item) /\ Len(writeQueue) \in Nat
       /\ Len(writeQueue') = Len(writeQueue) + 1
       /\ \A i \in 1 .. Len(writeQueue) : writeQueue'[i] = writeQueue[i]
       /\ writeQueue'[Len(writeQueue) + 1] = <<Flushed, level[Flushed]>>
       /\ \A h : InQueue(h)' <=> InQueue(h) \/ Flushed = h
  <2>. DEFINE item == <<Flushed, level[Flushed]>>
  <2>1. item \in Item /\ item # None /\ item[1] = Flushed /\ writeQueue' = Append(writeQueue, item)
    BY <1>3, <1>7
  <2>. HIDE DEF item
  <2>2. /\ writeQueue' \in Seq(Item) /\ Len(writeQueue) \in Nat
        /\ Len(writeQueue') = Len(writeQueue) + 1
        /\ \A i \in 1 .. Len(writeQueue) : writeQueue'[i] = writeQueue[i]
        /\ writeQueue'[Len(writeQueue) + 1] = item
        /\ \A h : InQueue(h)' <=> InQueue(h) \/ (item # None /\ item[1] = h)
    BY <1>1, <2>1, Joins
  <2>. QED
    BY <2>1, <2>2 DEF item
<1>11. 1 .. Len(writeQueue') = 1 .. Len(writeQueue) \cup {Len(writeQueue) + 1}
  BY <1>10
<1>12. ~shutdown /\ \A i \in 1 .. Len(writeQueue) : writeQueue[i] # None
  BY <1>1, <1>3, <1>6 DEF Thread
<1>13. \A i \in 1 .. Len(writeQueue') : writeQueue'[i] # None
  BY <1>7, <1>10, <1>11, <1>12
<1>21. Shapes'
  BY <1>1, <1>2, <1>4, <1>7, <1>8, <1>10, Constants DEF Shapes
<1>22. Thread'
  BY <1>1, <1>2, <1>4, <1>3, <1>5, <1>6, <1>8, <1>12, <1>13 DEF Thread
<1>23. Levels'
  <2>1. ASSUME NEW i \in 1 .. Len(writeQueue') PROVE OfLevel(writeQueue'[i][1], writeQueue'[i][2])
    <3>1. CASE i \in 1 .. Len(writeQueue)
      BY <1>1, <1>10, <1>12, <3>1 DEF Levels
    <3>2. CASE i = Len(writeQueue) + 1
      <4>1. level[Flushed] <= restarts
        BY <1>1, <1>5 DEF Levels
      <4>. QED
        BY <1>10, <3>2, <4>1 DEF OfLevel
    <3>. QED
      BY <1>11, <3>1, <3>2
  <2>. QED
    BY <1>1, <1>2, <1>4, <2>1 DEF Levels, OfLevel
<1>24. Sizes'
  BY <1>1, <1>2, <1>4, <1>8, <1>9 DEF Sizes, SizesExact, HotBounded
<1>25. Trail'
  <2>1. \A h : (Pending(h) => Pending(h)') /\ (Underway(h) => Underway(h)')
    <3>1. \A h : InQueue(h) \/ h = Flushed => Underway(h)'
      BY <1>10 DEF Underway, InQueue
    <3>2. \A h : Underway(h) => InQueue(h) \/ writer.h = h \/ h = Flushed \/ h \in ToSet(proc'.flush)
      BY <1>5, <1>8 DEF Underway, InQueue
    <3>3. \A h : writer.h = h \/ h \in ToSet(proc'.flush) => Underway(h)'
      BY <1>2 DEF Underway
    <3>4. \A h : Pending(h) => Pending(h)'
      BY <1>9, <1>10 DEF Pending
    <3>. QED
      BY <3>1, <3>2, <3>3, <3>4
  <2>2. LastQueued'
    <3>1. SUFFICES ASSUME NEW i \in 1 .. Len(writeQueue'), level[writeQueue'[i][1]] # writeQueue'[i][2],
                          writeQueue'[i][1] \in Indexed
                   PROVE  \E j \in i + 1 .. Len(writeQueue') :
                            writeQueue'[j] # None /\ writeQueue'[j][1] = writeQueue'[i][1]
      BY <1>2, <1>4 DEF LastQueued
    <3>2. i \in 1 .. Len(writeQueue) /\ writeQueue'[i] = writeQueue[i]
      BY <1>10, <1>11, <3>1
    <3>3. \/ writeQueue[i][1] = Flushed
          \/ \E j \in i + 1 .. Len(writeQueue) :
               writeQueue[j] # None /\ writeQueue[j][1] = writeQueue[i][1]
      BY <1>1, <1>9, <1>12, <3>1, <3>2 DEF Trail, LastQueued
    <3>4. CASE writeQueue[i][1] = Flushed
      <4>1. Len(writeQueue) + 1 \in i + 1 .. Len(writeQueue')
        BY <1>10, <3>2
      <4>. QED
        BY <1>7, <1>10, <3>2, <3>4, <4>1
    <3>5. CASE \E j \in i + 1 .. Len(writeQueue) :
                 writeQueue[j] # None /\ writeQueue[j][1] = writeQueue[i][1]
      <4>1. PICK j \in i + 1 .. Len(writeQueue) : writeQueue[j][1] = writeQueue[i][1]
        BY <3>5
      <4>2. j \in i + 1 .. Len(writeQueue') /\ writeQueue'[j] = writeQueue[j] /\ writeQueue'[j] # None
        BY <1>10, <1>12, <3>2, <4>1
      <4>. QED
        BY <3>2, <4>1, <4>2
    <3>. QED
      BY <3>3, <3>4, <3>5
  <2>3. LastWritten'
    BY <1>1, <1>2, <1>4, <2>1 DEF Trail, LastWritten, Complete
  <2>4. OnItsWay'
    BY <1>1, <1>2, <1>4, <2>1 DEF Trail, OnItsWay, Complete
  <2>. QED
    BY <2>2, <2>3, <2>4 DEF Trail
<1>26. BufferExact'
  BY <1>1, <1>2, <1>4, <1>6 DEF BufferExact
<1>27. FilesOnce'
  BY <1>1, <1>2, <1>4, <1>6 DEF FilesOnce, Complete
<1>28. Accounted'
  BY <1>1, <1>2, <1>4, <1>6 DEF Accounted, FilesCounted, Complete
<1>29. BufferKept'
  BY <1>1, <1>2, <1>4, <1>6 DEF BufferKept, Loadable, Complete
<1>. QED
  BY <1>21, <1>22, <1>23, <1>24, <1>25, <1>26, <1>27, <1>28, <1>29 DEF SSDInv

LEMMA SaveQueuesStep == SSDInv /\ SaveQueues => SSDInv'
<1>. SUFFICES ASSUME SSDInv, SaveQueues PROVE SSDInv'
  OBVIOUS
<1>1. /\ Shapes /\ Thread /\ Levels /\ Sizes /\ Trail /\ BufferExact /\ FilesOnce
      /\ Accounted /\ BufferKept
  BY DEF SSDInv
<1>2. /\ hotTotal' = hotTotal /\ files' = files /\ shutdown' = shutdown /\ writer' = writer
      /\ hot_enabled' = hot_enabled /\ phase' = phase /\ scanned' = scanned
      /\ restarts' = restarts /\ failed' = failed /\ removed' = removed
  BY DEF SaveQueues, indexVars, hotVars, envVars
<1>3. /\ proc.at = "save" /\ proc.unlinks = <<>> /\ ~hot_enabled /\ ~Full /\ proc' = Idle
      /\ IndexAdd(proc.h, Estimate(proc.h)) /\ level' = [level EXCEPT ![proc.h] = 0]
      /\ hot' = Append(RemoveFirst(hot, proc.h), proc.h)
      /\ writeQueue' = Append(writeQueue, <<proc.h, 0>>)
      /\ promise' = [promise EXCEPT ![proc.h] = "yes"]
  BY DEF SaveQueues, At, Ready, Returns, WriterAt
<1>4. Busy' = Busy
  BY <1>2 DEF Busy
<1>5. /\ proc.flush = <<>> /\ phase = "open" /\ proc.h \in Hash /\ proc.h \notin Indexed
      /\ proc.h \notin InHot
  BY <1>1, <1>3 DEF Thread, BufferKept
<1>6. Estimate(proc.h) \in Nat \ {0}
  BY <1>5, SizeTypes

<1>7. /\ index' \in Seq(Hash) /\ IsInjective(index') /\ Indexed' = Indexed \cup {proc.h}
      /\ fileSize' \in [Hash -> Nat] /\ fileSize'[proc.h] = Estimate(proc.h)
      /\ \A x \in Hash \ {proc.h} : fileSize'[x] = fileSize[x]
      /\ total' = SumOf(fileSize', Indexed') /\ total' = total + Estimate(proc.h) /\ total \in Nat
      /\ SumOf(Basis', Indexed') <= SumOf(Basis, Indexed) + Largest
      /\ SumOf(Basis, Indexed) \in Nat /\ SumOf(Basis', Indexed') \in Nat
  BY <1>1, <1>3, <1>5, <1>6, AddFacts DEF Sizes

<1>8. /\ proc'.at = "idle" /\ proc'.h = None /\ proc'.unlinks = <<>> /\ proc'.flush = <<>>
      /\ proc' \in Procs /\ ToSet(proc'.unlinks) = {} /\ ToSet(proc'.flush) = {}
  BY <1>3, IdleProc DEF Idle, ToSet
<1>9. /\ level' \in [Hash -> Level] /\ level'[proc.h] = 0
      /\ \A h \in Hash \ {proc.h} : level'[h] = level[h]
  BY <1>1, <1>3, <1>5, Basics DEF Shapes
<1>10. hot' \in Seq(Hash) /\ IsInjective(hot') /\ InHot' = InHot \cup {proc.h}
  <2>1. hot \in Seq(Hash) /\ IsInjective(hot)
    BY <1>1 DEF Shapes
  <2>2. hot' \in Seq(Hash) /\ IsInjective(hot') /\ ToSet(hot') = ToSet(hot) \cup {proc.h}
    BY <1>3, <1>5, <2>1, MoveLast
  <2>. QED
    BY <2>2 DEF InHot
<1>11. /\ writeQueue' \in Seq(Item) /\ Len(writeQueue) \in Nat /\ Len(writeQueue) < QueueSize
       /\ Len(writeQueue') = Len(writeQueue) + 1
       /\ \A i \in 1 .. Len(writeQueue) : writeQueue'[i] = writeQueue[i]
       /\ writeQueue'[Len(writeQueue) + 1] = <<proc.h, 0>>
       /\ \A h : InQueue(h)' <=> InQueue(h) \/ proc.h = h
       /\ <<proc.h, 0>> # None
  <2>. DEFINE item == <<proc.h, 0>>
  <2>1. item \in Item /\ item # None /\ item[1] = proc.h /\ writeQueue' = Append(writeQueue, item)
    BY <1>3, <1>5, Constants DEF Item
  <2>2. Len(writeQueue) < QueueSize
    BY <1>1, <1>3, ItemFacts, Constants DEF Full
  <2>. HIDE DEF item
  <2>3. /\ writeQueue' \in Seq(Item) /\ Len(writeQueue) \in Nat
        /\ Len(writeQueue') = Len(writeQueue) + 1
        /\ \A i \in 1 .. Len(writeQueue) : writeQueue'[i] = writeQueue[i]
        /\ writeQueue'[Len(writeQueue) + 1] = item
        /\ \A h : InQueue(h)' <=> InQueue(h) \/ (item # None /\ item[1] = h)
    BY <1>1, <2>1, Joins
  <2>. QED
    BY <2>1, <2>2, <2>3 DEF item
<1>12. 1 .. Len(writeQueue') = 1 .. Len(writeQueue) \cup {Len(writeQueue) + 1}
  BY <1>11
<1>13. ~shutdown /\ \A i \in 1 .. Len(writeQueue) : writeQueue[i] # None
  BY <1>1, <1>3, <1>5 DEF Thread
<1>14. \A i \in 1 .. Len(writeQueue') : writeQueue'[i] # None
  BY <1>11, <1>12, <1>13
<1>15. promise' \in [Hash -> {"yes", "no", "buffer"}] /\ \A h \in Hash \ {proc.h} : promise'[h] = promise[h]
  BY <1>1, <1>3 DEF Shapes
<1>16. ~InQueue(proc.h) /\ writer.h # proc.h
  BY <1>1, <1>3, <1>5 DEF BufferExact
<1>17. files[<<proc.h, 0>>] = "none"
  <2>1. ToSet(proc.unlinks) = {}
    BY <1>3 DEF ToSet
  <2>2. ~Complete(proc.h, 0)
    BY <1>1, <1>3, <1>5, <1>16, <2>1 DEF Accounted, FilesCounted
  <2>3. files[<<proc.h, 0>>] \in {"none", "partial", "complete"} /\ files[<<proc.h, 0>>] # "partial"
    BY <1>1, <1>5, Known, Constants DEF Levels
  <2>. QED
    BY <2>2, <2>3 DEF Complete
<1>18. /\ \A h : ~Put(h) /\ ~Put(h)'
       /\ \A h : Underway(h) \/ h = proc.h => Underway(h)'
  <2>1. \A h : ~Put(h) /\ ~Put(h)'
    BY <1>3, <1>8 DEF Put
  <2>2. \A h : InQueue(h)' => Underway(h)'
    BY DEF InQueue, Underway
  <2>3. \A h : Underway(h) => InQueue(h) \/ writer.h = h
    BY <1>5 DEF InQueue, Underway, ToSet
  <2>4. \A h : writer.h = h => Underway(h)'
    BY <1>2 DEF Underway
  <2>. QED
    BY <1>11, <2>1, <2>2, <2>3, <2>4
<1>21. Shapes'
  BY <1>1, <1>2, <1>4, <1>7, <1>8, <1>9, <1>10, <1>11, <1>15, Constants, SMTT(40) DEF Shapes
<1>22. Thread'
  BY <1>1, <1>2, <1>4, <1>3, <1>5, <1>7, <1>8, <1>10, <1>13, <1>14 DEF Thread
<1>23. Levels'
  <2>1. restarts \in Nat /\ \A h \in Hash : level[h] \in Nat /\ level[h] <= restarts
    <3>1. restarts \in Nat
      BY <1>1, Constants DEF Shapes
    <3>. QED
      BY <1>1, <3>1, Basics, Constants DEF Levels
  <2>2. ASSUME NEW i \in 1 .. Len(writeQueue')
        PROVE  /\ writeQueue'[i][2] <= restarts
               /\ level'[writeQueue'[i][1]] \in {0, writeQueue'[i][2]}
    <3>1. CASE i \in 1 .. Len(writeQueue)
      <4>1. /\ writeQueue[i][1] \in Hash /\ writeQueue[i][2] <= restarts
            /\ level[writeQueue[i][1]] \in {0, writeQueue[i][2]}
        BY <1>1, <1>13, <3>1, ItemFacts DEF Levels, OfLevel
      <4>2. writeQueue'[i] = writeQueue[i]
        BY <1>11, <3>1
      <4>. QED
        BY <1>9, <4>1, <4>2
    <3>2. CASE i = Len(writeQueue) + 1
      <4>1. writeQueue'[i] = <<proc.h, 0>>
        BY <1>11, <3>2
      <4>. QED
        BY <1>9, <2>1, <4>1
    <3>. QED
      BY <1>12, <3>1, <3>2
  <2>3. Busy => writer.k <= restarts /\ level'[writer.h] \in {0, writer.k}
    BY <1>1, <1>9, Basics DEF Levels, OfLevel, Busy
  <2>4. \A h \in Hash : level'[h] <= restarts
    BY <1>9, <2>1
  <2>5. \A h \in Hash : files[<<h, 0>>] # "partial" /\ files[<<h, level'[h]>>] # "partial"
    BY <1>1, <1>9 DEF Levels
  <2>. QED
    BY <1>1, <1>2, <1>4, <2>2, <2>3, <2>4, <2>5 DEF Levels, OfLevel
<1>24. Sizes'
  <2>1. SumOf(Basis', Indexed') <= Ceiling + Largest
    BY <1>1, <1>3, <1>7, Bounds DEF Sizes
  <2>2. /\ SizesExact' /\ HotBounded'
    BY <1>1, <1>2, <1>3, <1>7 DEF SizesExact, HotBounded
  <2>3. \A h \in Hash : fileSize'[h] \in {0, Estimate(h), WrittenSize[h]}
    BY <1>1, <1>7 DEF Sizes
  <2>4. \A h \in Indexed' \cup ToSet(proc'.flush) : fileSize'[h] # 0
    BY <1>1, <1>6, <1>7, <1>8, Basics DEF Sizes
  <2>. QED
    BY <1>1, <1>2, <1>3, <1>8, <2>1, <2>2, <2>3, <2>4 DEF Sizes
<1>25. Trail'
  <2>1. LastQueued'
    <3>1. SUFFICES ASSUME NEW i \in 1 .. Len(writeQueue'), level'[writeQueue'[i][1]] # writeQueue'[i][2],
                          writeQueue'[i][1] \in Indexed'
                   PROVE  \E j \in i + 1 .. Len(writeQueue') :
                            writeQueue'[j] # None /\ writeQueue'[j][1] = writeQueue'[i][1]
      BY DEF LastQueued
    <3>2. i \in 1 .. Len(writeQueue) /\ writeQueue'[i] = writeQueue[i]
      BY <1>9, <1>11, <1>12, <3>1
    <3>3. CASE writeQueue[i][1] = proc.h
      <4>1. InQueue(proc.h)
        BY <1>13, <3>2, <3>3 DEF InQueue
      <4>. QED
        BY <1>16, <4>1
    <3>4. CASE writeQueue[i][1] # proc.h
      <4>1. writeQueue[i][1] \in Hash /\ writeQueue[i][1] \in Indexed
        BY <1>1, <1>7, <1>13, <3>1, <3>2, <3>4, ItemFacts
      <4>2. PICK j \in i + 1 .. Len(writeQueue) : writeQueue[j][1] = writeQueue[i][1]
        BY <1>1, <1>9, <1>13, <1>18, <3>1, <3>2, <3>4, <4>1 DEF Trail, LastQueued
      <4>3. j \in i + 1 .. Len(writeQueue') /\ writeQueue'[j] = writeQueue[j] /\ writeQueue'[j] # None
        BY <1>11, <1>13, <3>2, <4>2
      <4>. QED
        BY <3>2, <4>2, <4>3
    <3>. QED
      BY <3>3, <3>4
  <2>2. LastWritten'
    <3>1. \A h : Pending(h) => Pending(h)'
      BY <1>11, <1>18 DEF Pending
    <3>2. writer.h \in Indexed' => writer.h \in Indexed /\ level'[writer.h] = level[writer.h]
      BY <1>7, <1>9, <1>16, Basics
    <3>. QED
      BY <1>1, <1>2, <1>4, <3>1, <3>2 DEF Trail, LastWritten, Complete
  <2>3. OnItsWay'
    <3>1. \A h \in Indexed' : (h \in Indexed /\ (h \in InHot' \/ h # proc.h)) \/ h = proc.h
      BY <1>7
    <3>. QED
      BY <1>1, <1>2, <1>5, <1>7, <1>9, <1>10, <1>18, Basics DEF Trail, OnItsWay, Complete
  <2>. QED
    BY <2>1, <2>2, <2>3 DEF Trail
<1>26. BufferExact'
  <2>1. \A i, j \in 1 .. Len(writeQueue') : writeQueue'[i][1] = writeQueue'[j][1] => i = j
    <3>1. \A i \in 1 .. Len(writeQueue) : writeQueue'[i][1] # proc.h
      BY <1>11, <1>13, <1>16 DEF InQueue
    <3>2. \A i, j \in 1 .. Len(writeQueue) : writeQueue'[i][1] = writeQueue'[j][1] => i = j
      BY <1>1, <1>3, <1>11, <1>13 DEF BufferExact
    <3>. QED
      BY <1>11, <1>12, <3>1, <3>2
  <2>2. \A i \in 1 .. Len(writeQueue') : writeQueue'[i][2] = 0
    BY <1>1, <1>3, <1>11, <1>12, <1>13 DEF BufferExact
  <2>3. \A h \in Hash : h \in InHot' <=> InQueue(h)' \/ writer.h = h
    BY <1>1, <1>3, <1>10, <1>11 DEF BufferExact
  <2>4. ASSUME Busy, NEW i \in 1 .. Len(writeQueue')
        PROVE  writeQueue'[i][1] # writer.h /\ writer.k = 0
    <3>1. \A h : h = writer.h => ~InQueue(h)'
      BY <1>1, <1>3, <1>11, <1>16, <2>4 DEF BufferExact
    <3>. QED
      BY <1>1, <1>3, <1>14, <2>4, <3>1 DEF BufferExact, InQueue
  <2>5. Busy' => ~InQueue(writer.h)' /\ writer'.k = 0
    <3>1. Busy' => writer.k = 0
      BY <1>1, <1>3, <1>4 DEF BufferExact
    <3>. QED
      BY <1>2, <1>4, <2>4, <3>1 DEF InQueue
  <2>. QED
    BY <1>2, <1>4, <1>8, <1>14, <2>1, <2>2, <2>3, <2>5 DEF BufferExact
<1>27. FilesOnce'
  BY <1>1, <1>2, <1>4, <1>3, <1>7, <1>9, <1>11, <1>17, Basics DEF FilesOnce, Complete
<1>28. Accounted'
  <2>1. ToSet(proc.unlinks) = {}
    BY <1>3 DEF ToSet
  <2>. QED
    BY <1>1, <1>2, <1>3, <1>7, <2>1 DEF Accounted, FilesCounted, Complete
<1>29. BufferKept'
  BY <1>1, <1>2, <1>4, <1>3, <1>7, <1>8, <1>9, <1>10, <1>15, Basics DEF BufferKept,
     Loadable, Complete
<1>. QED
  BY <1>21, <1>22, <1>23, <1>24, <1>25, <1>26, <1>27, <1>28, <1>29 DEF SSDInv

LEMMA SaveHotStep == SSDInv /\ SaveHot => SSDInv'
<1>. SUFFICES ASSUME SSDInv, SaveHot PROVE SSDInv'
  OBVIOUS
<1>1. /\ Shapes /\ Thread /\ Levels /\ Sizes /\ Trail /\ BufferExact /\ FilesOnce
      /\ Accounted /\ BufferKept
  BY DEF SSDInv
<1>2. /\ index' = index /\ total' = total /\ files' = files /\ writeQueue' = writeQueue
      /\ shutdown' = shutdown /\ writer' = writer /\ hot_enabled' = hot_enabled
      /\ phase' = phase /\ scanned' = scanned /\ restarts' = restarts /\ failed' = failed
      /\ removed' = removed
  BY DEF SaveHot, indexVars, hotVars, envVars
<1>3. /\ proc.at = "save" /\ proc.unlinks = <<>> /\ hot_enabled /\ HotPut(proc.h)
      /\ fileSize' = [fileSize EXCEPT ![proc.h] = Estimate(proc.h)]
      /\ level' = [level EXCEPT ![proc.h] = 0]
      /\ promise' = [promise EXCEPT ![proc.h] = "yes"]
  BY DEF SaveHot, At, Ready, Returns, WriterAt
<1>4. Indexed' = Indexed /\ Busy' = Busy /\ \A h : InQueue(h)' = InQueue(h)
  BY <1>2 DEF Indexed, Busy, InQueue
<1>5. proc.flush = <<>> /\ phase = "open" /\ proc.h \in Hash /\ proc.h \notin Indexed
  BY <1>1, <1>3 DEF Thread

<1>7. /\ hot' \in Seq(Hash) /\ IsInjective(hot')
      /\ proc.h \in InHot' /\ InHot' \subseteq InHot \cup {proc.h}
      /\ proc' = [Idle EXCEPT !.at = "flush", !.flush = proc'.flush]
      /\ proc'.flush \in Seq(Hash) /\ ToSet(proc'.flush) = InHot \ InHot'
      /\ hotTotal' = SumOf(RawSize, InHot') /\ (hotTotal' <= HotMax \/ Len(hot') = 1)
  BY <1>1, <1>3, <1>5, HotPutFacts DEF Sizes
<1>8. /\ proc'.at = "flush" /\ proc'.h = None /\ proc'.unlinks = <<>> /\ proc' \in Procs
      /\ ToSet(proc'.unlinks) = {}
  <2>1. proc'.at = "flush" /\ proc'.h = None /\ proc'.unlinks = <<>>
    BY <1>7 DEF Idle
  <2>2. proc' \in Procs
    BY <1>7, IdleProc DEF Procs, Places
  <2>3. ToSet(proc'.unlinks) = {}
    BY <2>1 DEF ToSet
  <2>. QED
    BY <2>1, <2>2, <2>3
<1>9. \A h : ~Put(h) /\ ~Put(h)' /\ Pending(h)' = Pending(h)
  BY <1>3, <1>4, <1>8 DEF Put, Pending
<1>10. \A h : Underway(h) \/ h \in InHot => Underway(h)' \/ h \in InHot'
  BY <1>2, <1>5, <1>7 DEF Underway, ToSet

<1>11. /\ fileSize' \in [Hash -> Nat] /\ fileSize'[proc.h] = Estimate(proc.h) /\ fileSize'[proc.h] # 0
       /\ \A h \in Hash \ {proc.h} : fileSize'[h] = fileSize[h]
  <2>1. Estimate(proc.h) \in Nat \ {0}
    BY <1>5, SizeTypes
  <2>. QED
    BY <1>1, <1>3, <1>5, <2>1 DEF Shapes
<1>12. /\ level' \in [Hash -> Level] /\ level'[proc.h] = 0
       /\ \A h \in Hash \ {proc.h} : level'[h] = level[h]
  BY <1>1, <1>3, <1>5, Constants DEF Shapes
<1>13. promise' \in [Hash -> {"yes", "no", "buffer"}]
  BY <1>1, <1>3 DEF Shapes
<1>14. \A h \in Indexed : h \in Hash /\ fileSize'[h] = fileSize[h] /\ level'[h] = level[h]
  BY <1>5, <1>11, <1>12, Basics
<1>21. Shapes'
  BY <1>1, <1>2, <1>4, <1>7, <1>8, <1>11, <1>12, <1>13 DEF Shapes
<1>22. Thread'
  BY <1>1, <1>2, <1>4, <1>3, <1>5, <1>7, <1>8 DEF Thread
<1>23. Levels'
  <2>1. restarts \in Nat
    BY <1>1, Constants DEF Shapes
  <2>2. Busy => writer.k <= restarts /\ level'[writer.h] \in {0, writer.k}
    BY <1>1, <1>12, Basics DEF Levels, OfLevel, Busy
  <2>3. ASSUME NEW i \in 1 .. Len(writeQueue), writeQueue[i] # None
        PROVE  /\ writeQueue[i][2] <= restarts
               /\ level'[writeQueue[i][1]] \in {0, writeQueue[i][2]}
    BY <1>1, <1>12, <2>3, ItemFacts DEF Levels, OfLevel
  <2>4. \A h \in Hash : level'[h] <= restarts
    BY <1>1, <1>12, <2>1 DEF Levels
  <2>5. \A h \in Hash : files[<<h, 0>>] # "partial" /\ files[<<h, level'[h]>>] # "partial"
    BY <1>1, <1>12 DEF Levels
  <2>. QED
    BY <1>1, <1>2, <1>4, <2>2, <2>3, <2>4, <2>5 DEF Levels, OfLevel
<1>24. Sizes'
  <2>1. /\ Indexed \in SUBSET Hash /\ (\A h \in Hash : fileSize[h] \in Nat)
        /\ \A h \in Hash : Basis[h] \in Nat
    BY <1>1, Known
  <2>2. SumOf(fileSize, Indexed) = SumOf(fileSize', Indexed)
    BY <1>14, <2>1, SumSame
  <2>3. \A h \in Indexed : Basis[h] = Basis'[h]
    BY <1>14 DEF Basis
  <2>4. SumOf(Basis, Indexed) = SumOf(Basis', Indexed)
    BY <2>1, <2>3, SumSame
  <2>5. SizesExact' /\ HotBounded'
    BY <1>1, <1>2, <1>4, <1>7, <2>2 DEF Sizes, SizesExact, HotBounded
  <2>6. \A h \in Hash : fileSize'[h] \in {0, Estimate(h), WrittenSize[h]}
    BY <1>1, <1>11 DEF Sizes
  <2>7. \A h \in Indexed \cup ToSet(proc'.flush) : fileSize'[h] # 0
    BY <1>1, <1>3, <1>7, <1>11, <1>14, Basics DEF Sizes
  <2>8. \A h \in InHot' : fileSize'[h] # 0
    BY <1>1, <1>3, <1>7, <1>11, Basics DEF Sizes
  <2>9. \/ total <= scanned /\ \A h \in Indexed : fileSize'[h] = WrittenSize[h]
        \/ SumOf(Basis', Indexed) <= Ceiling + Largest
    BY <1>1, <1>14, <2>4 DEF Sizes
  <2>. QED
    BY <1>1, <1>2, <1>3, <1>4, <1>8, <2>5, <2>6, <2>7, <2>8, <2>9 DEF Sizes
<1>25. Trail'
  <2>1. LastQueued'
    BY <1>1, <1>2, <1>4, <1>9, <1>14 DEF Trail, LastQueued
  <2>2. LastWritten'
    BY <1>1, <1>2, <1>4, <1>9, <1>14 DEF Trail, LastWritten, Complete
  <2>3. OnItsWay'
    BY <1>1, <1>2, <1>4, <1>5, <1>10, <1>14 DEF Trail, OnItsWay, Complete
  <2>. QED
    BY <2>1, <2>2, <2>3 DEF Trail
<1>26. BufferExact'
  BY <1>1, <1>2, <1>4, <1>3 DEF BufferExact
<1>27. FilesOnce'
  BY <1>1, <1>2, <1>4, <1>3 DEF FilesOnce, Complete
<1>28. Accounted'
  BY <1>1, <1>2, <1>4, <1>3 DEF Accounted, FilesCounted, Complete
<1>29. BufferKept'
  BY <1>1, <1>2, <1>4, <1>3 DEF BufferKept, Loadable, Complete
<1>. QED
  BY <1>21, <1>22, <1>23, <1>24, <1>25, <1>26, <1>27, <1>28, <1>29 DEF SSDInv

LEMMA LoadPromotesStep ==
  ASSUME SSDInv, LoadReads, hot_enabled
  PROVE  SSDInv'
<1>1. /\ Shapes /\ Thread /\ Levels /\ Sizes /\ Trail /\ BufferExact /\ FilesOnce
      /\ Accounted /\ BufferKept
  BY DEF SSDInv
<1>2. /\ fileSize' = fileSize /\ level' = level /\ total' = total /\ files' = files
      /\ writeQueue' = writeQueue /\ shutdown' = shutdown /\ writer' = writer
      /\ promise' = promise /\ hot_enabled' = hot_enabled /\ phase' = phase
      /\ scanned' = scanned /\ restarts' = restarts /\ failed' = failed /\ removed' = removed
  BY DEF LoadReads, indexVars, hotVars, envVars
<1>3. /\ proc.at = "read" /\ proc.unlinks = <<>> /\ index' = Touched(proc.h) /\ HotPut(proc.h)
  BY DEF LoadReads, At, Ready, Returns, WriterAt
<1>4. Basis' = Basis /\ Busy' = Busy /\ \A h : InQueue(h)' = InQueue(h)
  BY <1>2 DEF Basis, Busy, InQueue
<1>5. proc.flush = <<>> /\ phase = "open" /\ proc.h \in Hash /\ hot_enabled
  BY <1>1, <1>3 DEF Thread
<1>6. index' \in Seq(Hash) /\ IsInjective(index') /\ Indexed' = Indexed
  BY <1>1, <1>3, <1>5, TouchedFacts

<1>7. /\ hot' \in Seq(Hash) /\ IsInjective(hot')
      /\ proc.h \in InHot' /\ InHot' \subseteq InHot \cup {proc.h}
      /\ proc' = [Idle EXCEPT !.at = "flush", !.flush = proc'.flush]
      /\ proc'.flush \in Seq(Hash) /\ ToSet(proc'.flush) = InHot \ InHot'
      /\ hotTotal' = SumOf(RawSize, InHot') /\ (hotTotal' <= HotMax \/ Len(hot') = 1)
  BY <1>1, <1>3, <1>5, HotPutFacts DEF Sizes
<1>8. /\ proc'.at = "flush" /\ proc'.h = None /\ proc'.unlinks = <<>> /\ proc' \in Procs
      /\ ToSet(proc'.unlinks) = {}
  <2>1. proc'.at = "flush" /\ proc'.h = None /\ proc'.unlinks = <<>>
    BY <1>7 DEF Idle
  <2>2. proc' \in Procs
    BY <1>7, IdleProc DEF Procs, Places
  <2>3. ToSet(proc'.unlinks) = {}
    BY <2>1 DEF ToSet
  <2>. QED
    BY <2>1, <2>2, <2>3
<1>9. \A h : ~Put(h) /\ ~Put(h)' /\ Pending(h)' = Pending(h)
  BY <1>3, <1>4, <1>8 DEF Put, Pending
<1>10. \A h : Underway(h) \/ h \in InHot => Underway(h)' \/ h \in InHot'
  BY <1>2, <1>5, <1>7 DEF Underway, ToSet
<1>21. Shapes'
  BY <1>1, <1>2, <1>4, <1>6, <1>7, <1>8 DEF Shapes
<1>22. Thread'
  BY <1>1, <1>2, <1>4, <1>3, <1>5, <1>6, <1>7, <1>8 DEF Thread
<1>23. Levels'
  BY <1>1, <1>2, <1>4 DEF Levels, OfLevel
<1>24. Sizes'
  <2>1. SizesExact' /\ HotBounded'
    BY <1>1, <1>2, <1>6, <1>7 DEF Sizes, SizesExact, HotBounded
  <2>2. \A h \in Indexed \cup ToSet(proc'.flush) : fileSize[h] # 0
    BY <1>1, <1>5, <1>7 DEF Sizes
  <2>3. \A h \in InHot' : fileSize[h] # 0
    BY <1>1, <1>3, <1>5, <1>7 DEF Sizes
  <2>. QED
    BY <1>1, <1>2, <1>3, <1>4, <1>5, <1>6, <1>8, <2>1, <2>2, <2>3 DEF Sizes
<1>25. Trail'
  <2>1. LastQueued'
    BY <1>1, <1>2, <1>6, <1>9 DEF Trail, LastQueued
  <2>2. LastWritten'
    BY <1>1, <1>2, <1>4, <1>6, <1>9 DEF Trail, LastWritten, Complete
  <2>3. OnItsWay'
    BY <1>1, <1>2, <1>5, <1>6, <1>10 DEF Trail, OnItsWay, Complete
  <2>. QED
    BY <2>1, <2>2, <2>3 DEF Trail
<1>26. BufferExact'
  BY <1>1, <1>2, <1>4, <1>5 DEF BufferExact
<1>27. FilesOnce'
  BY <1>1, <1>2, <1>4, <1>5 DEF FilesOnce, Complete
<1>28. Accounted'
  BY <1>1, <1>2, <1>4, <1>5 DEF Accounted, FilesCounted, Complete
<1>29. BufferKept'
  BY <1>1, <1>2, <1>4, <1>5 DEF BufferKept, Loadable, Complete
<1>. QED
  BY <1>21, <1>22, <1>23, <1>24, <1>25, <1>26, <1>27, <1>28, <1>29 DEF SSDInv

LEMMA LoadReadsStep ==
  ASSUME SSDInv, LoadReads, ~hot_enabled
  PROVE  SSDInv'
<1>1. /\ Shapes /\ Thread /\ Levels /\ Sizes /\ Trail /\ BufferExact /\ FilesOnce
      /\ Accounted /\ BufferKept
  BY DEF SSDInv
<1>2. /\ fileSize' = fileSize /\ level' = level /\ total' = total /\ hot' = hot
      /\ hotTotal' = hotTotal /\ files' = files /\ writeQueue' = writeQueue
      /\ shutdown' = shutdown /\ writer' = writer /\ promise' = promise
      /\ hot_enabled' = hot_enabled /\ phase' = phase /\ scanned' = scanned
      /\ restarts' = restarts /\ failed' = failed /\ removed' = removed
  BY DEF LoadReads, indexVars, hotVars, envVars
<1>3. /\ proc.at = "read" /\ proc.unlinks = <<>> /\ index' = Touched(proc.h) /\ proc' = Idle
  BY DEF LoadReads, At, Ready, Returns, WriterAt
<1>4. InHot' = InHot /\ Basis' = Basis /\ Busy' = Busy /\ \A h : InQueue(h)' = InQueue(h)
  BY <1>2 DEF InHot, Basis, Busy, InQueue
<1>5. proc.flush = <<>> /\ phase = "open" /\ proc.h \in Hash
  BY <1>1, <1>3 DEF Thread
<1>6. index' \in Seq(Hash) /\ IsInjective(index') /\ Indexed' = Indexed
  BY <1>1, <1>3, <1>5, TouchedFacts
<1>7. /\ proc'.at = "idle" /\ proc'.h = None /\ proc'.unlinks = <<>> /\ proc'.flush = <<>>
      /\ proc' \in Procs
  BY <1>3, IdleProc DEF Idle
<1>21. Shapes'
  BY <1>1, <1>2, <1>4, <1>6, <1>7 DEF Shapes
<1>22. Thread'
  BY <1>1, <1>2, <1>4, <1>3, <1>5, <1>6, <1>7 DEF Thread
<1>23. Levels'
  BY <1>1, <1>2, <1>4 DEF Levels, OfLevel
<1>24. Sizes'
  BY <1>1, <1>2, <1>4, <1>3, <1>5, <1>6, <1>7 DEF Sizes, SizesExact, HotBounded
<1>25. Trail'
  BY <1>1, <1>2, <1>4, <1>3, <1>5, <1>6, <1>7 DEF Trail, LastQueued, LastWritten,
     OnItsWay, Pending, Put, Underway, Complete
<1>26. BufferExact'
  BY <1>1, <1>2, <1>4, <1>5, <1>7 DEF BufferExact
<1>27. FilesOnce'
  BY <1>1, <1>2, <1>4, <1>6 DEF FilesOnce, Complete
<1>28. Accounted'
  BY <1>1, <1>2, <1>4, <1>3, <1>6, <1>7 DEF Accounted, FilesCounted, Complete
<1>29. BufferKept'
  BY <1>1, <1>2, <1>4, <1>3, <1>6, <1>7 DEF BufferKept, Loadable, Complete
<1>. QED
  BY <1>21, <1>22, <1>23, <1>24, <1>25, <1>26, <1>27, <1>28, <1>29 DEF SSDInv

LEMMA CloseBeginsStep == SSDInv /\ CloseBegins => SSDInv'
<1>. SUFFICES ASSUME SSDInv, CloseBegins PROVE SSDInv'
  OBVIOUS
<1>1. /\ Shapes /\ Thread /\ Levels /\ Sizes /\ Trail /\ BufferExact /\ FilesOnce
      /\ Accounted /\ BufferKept
  BY DEF SSDInv
<1>2. /\ index' = index /\ fileSize' = fileSize /\ level' = level /\ total' = total
      /\ hot' = hot /\ hotTotal' = hotTotal /\ files' = files /\ writeQueue' = writeQueue
      /\ shutdown' = shutdown /\ writer' = writer /\ promise' = promise
      /\ hot_enabled' = hot_enabled /\ scanned' = scanned /\ restarts' = restarts
      /\ failed' = failed /\ removed' = removed
  BY DEF CloseBegins, indexVars, hotVars, envVars
<1>3. /\ proc.at = "idle" /\ proc.unlinks = <<>> /\ phase = "open" /\ phase' = "closing"
      /\ proc' = [Idle EXCEPT !.at = "flush", !.flush = IF hot_enabled THEN hot ELSE <<>>]
  BY DEF CloseBegins, At, Ready, Returns, WriterAt
<1>4. /\ Indexed' = Indexed /\ InHot' = InHot /\ Basis' = Basis /\ Busy' = Busy
      /\ \A h : InQueue(h)' = InQueue(h)
  BY <1>2 DEF Indexed, InHot, Basis, Busy, InQueue
<1>5. proc.flush = <<>> /\ hot_enabled \in BOOLEAN /\ hot \in Seq(Hash)
  BY <1>1, <1>3, Known DEF Thread, Shapes
<1>6. /\ proc'.at = "flush" /\ proc'.h = None /\ proc'.unlinks = <<>>
      /\ proc'.flush = IF hot_enabled THEN hot ELSE <<>>
  BY <1>3 DEF Idle
<1>7. proc' \in Procs
  <2>1. proc'.flush \in Seq(Hash)
    BY <1>5, <1>6
  <2>2. proc' = [Idle EXCEPT !.at = "flush", !.flush = proc'.flush]
    BY <1>3, <1>6
  <2>. QED
    BY <2>1, <2>2, IdleProc DEF Procs, Places
<1>8. ToSet(proc'.flush) = IF hot_enabled THEN InHot ELSE {}
  <2>1. ToSet(<<>>) = {}
    BY DEF ToSet
  <2>. QED
    BY <1>6, <2>1 DEF InHot
<1>9. \A h : ~Put(h) /\ ~Put(h)' /\ Pending(h)' = Pending(h)
  BY <1>3, <1>4, <1>6 DEF Put, Pending
<1>10. \A h \in Hash : Underway(h) \/ h \in InHot => Underway(h)'
  <2>1. \A h : writer.h = h \/ InQueue(h) \/ h \in ToSet(proc'.flush) => Underway(h)'
    BY <1>2 DEF Underway, InQueue
  <2>2. \A h : Underway(h) => writer.h = h \/ InQueue(h)
    BY <1>5 DEF Underway, InQueue, ToSet
  <2>3. ASSUME NEW h \in Hash, h \in InHot PROVE writer.h = h \/ InQueue(h) \/ h \in ToSet(proc'.flush)
    BY <1>1, <1>5, <1>8, <2>3 DEF BufferExact
  <2>. QED
    BY <2>1, <2>2, <2>3
<1>21. Shapes'
  BY <1>1, <1>2, <1>4, <1>3, <1>7 DEF Shapes
<1>22. Thread'
  BY <1>1, <1>2, <1>4, <1>3, <1>5, <1>6 DEF Thread
<1>23. Levels'
  BY <1>1, <1>2, <1>4 DEF Levels, OfLevel
<1>24. Sizes'
  BY <1>1, <1>2, <1>4, <1>3, <1>6, <1>8 DEF Sizes, SizesExact, HotBounded
<1>25. Trail'
  <2>1. LastQueued'
    BY <1>1, <1>2, <1>4, <1>9 DEF Trail, LastQueued
  <2>2. LastWritten'
    BY <1>1, <1>2, <1>4, <1>9 DEF Trail, LastWritten, Complete
  <2>3. OnItsWay'
    BY <1>1, <1>2, <1>4, <1>10, Basics DEF Trail, OnItsWay, Complete
  <2>. QED
    BY <2>1, <2>2, <2>3 DEF Trail
<1>26. BufferExact'
  BY <1>1, <1>2, <1>4, <1>5, <1>6 DEF BufferExact
<1>27. FilesOnce'
  BY <1>1, <1>2, <1>4 DEF FilesOnce, Complete
<1>28. Accounted'
  BY <1>1, <1>2, <1>4, <1>3, <1>6 DEF Accounted, FilesCounted, Complete
<1>29. BufferKept'
  BY <1>1, <1>2, <1>4, <1>3, <1>6 DEF BufferKept, Loadable, Complete
<1>. QED
  BY <1>21, <1>22, <1>23, <1>24, <1>25, <1>26, <1>27, <1>28, <1>29 DEF SSDInv

LEMMA CloseSignalsStep == SSDInv /\ CloseSignals => SSDInv'
<1>. SUFFICES ASSUME SSDInv, CloseSignals PROVE SSDInv'
  OBVIOUS
<1>1. /\ Shapes /\ Thread /\ Levels /\ Sizes /\ Trail /\ BufferExact /\ FilesOnce
      /\ Accounted /\ BufferKept
  BY DEF SSDInv
<1>2. /\ index' = index /\ fileSize' = fileSize /\ level' = level /\ total' = total
      /\ hot' = hot /\ hotTotal' = hotTotal /\ files' = files /\ writer' = writer
      /\ promise' = promise /\ hot_enabled' = hot_enabled /\ phase' = phase
      /\ scanned' = scanned /\ restarts' = restarts /\ failed' = failed /\ removed' = removed
  BY DEF CloseSignals, indexVars, hotVars, envVars
<1>3. /\ proc.at = "signal" /\ proc.unlinks = <<>> /\ shutdown' = TRUE
      /\ writeQueue' = IF Full THEN writeQueue ELSE Append(writeQueue, None)
      /\ proc' = [proc EXCEPT !.at = "join"]
  BY DEF CloseSignals, At, Ready, Returns, WriterAt
<1>4. Indexed' = Indexed /\ InHot' = InHot /\ Basis' = Basis /\ Busy' = Busy
  BY <1>2 DEF Indexed, InHot, Basis, Busy
<1>5. /\ proc.flush = <<>> /\ phase = "closing" /\ proc \in Procs
      /\ ~shutdown /\ writer.at # "gone"
  BY <1>1, <1>3 DEF Thread, Shapes
<1>6. /\ proc'.at = "join" /\ proc'.h = proc.h /\ proc'.unlinks = <<>> /\ proc'.flush = <<>>
      /\ proc' \in Procs
  BY <1>3, <1>5 DEF Procs, Places
<1>7. \A h : ~Put(h) /\ ~Put(h)'
  BY <1>3, <1>6 DEF Put
<1>8. /\ writeQueue' \in Seq(Item) /\ Len(writeQueue') <= QueueSize
      /\ Len(writeQueue) \in Nat /\ Len(writeQueue') \in Len(writeQueue) .. Len(writeQueue) + 1
      /\ \A i \in 1 .. Len(writeQueue) : writeQueue'[i] = writeQueue[i]
      /\ Len(writeQueue') # Len(writeQueue) => writeQueue'[Len(writeQueue) + 1] = None
  <2>1. writeQueue \in Seq(Item) /\ Len(writeQueue) <= QueueSize /\ None \in Item /\ QueueSize \in Nat
    BY <1>1, Constants DEF Shapes, Item
  <2>2. CASE Full
    BY <1>3, <2>1, <2>2
  <2>3. CASE ~Full
    <3>1. writeQueue' = Append(writeQueue, None) /\ Len(writeQueue) < QueueSize
      BY <1>3, <2>1, <2>3 DEF Full
    <3>. QED
      BY <2>1, <3>1
  <2>. QED
    BY <2>2, <2>3
<1>9. 1 .. Len(writeQueue) \subseteq 1 .. Len(writeQueue')
  BY <1>8
<1>10. /\ \A i \in 1 .. Len(writeQueue') : writeQueue'[i] # None =>
            i \in 1 .. Len(writeQueue) /\ writeQueue'[i] = writeQueue[i]
       /\ \A i \in 1 .. Len(writeQueue') : i \notin 1 .. Len(writeQueue) => i = Len(writeQueue')
       /\ \A i \in 1 .. Len(writeQueue) : writeQueue[i] # None
  BY <1>1, <1>5, <1>8 DEF Thread
<1>11. \A h : InQueue(h)' <=> InQueue(h)
  BY <1>8, <1>9, <1>10 DEF InQueue
<1>12. \A h : (Pending(h)' <=> Pending(h)) /\ (Underway(h)' <=> Underway(h))
  <2>1. \A h : Underway(h)' <=> InQueue(h)' \/ writer.h = h
    BY <1>2, <1>6 DEF Underway, InQueue, ToSet
  <2>2. \A h : Underway(h) <=> InQueue(h) \/ writer.h = h
    BY <1>5 DEF Underway, InQueue, ToSet
  <2>. QED
    BY <1>7, <1>11, <2>1, <2>2 DEF Pending
<1>21. Shapes'
  BY <1>1, <1>2, <1>4, <1>3, <1>6, <1>8 DEF Shapes
<1>22. Thread'
  <2>1. \A i \in 1 .. Len(writeQueue') : writeQueue'[i] = None => i = Len(writeQueue')
    BY <1>8, <1>10
  <2>2. ToSet(proc'.unlinks) = {}
    BY <1>6 DEF ToSet
  <2>. QED
    BY <1>1, <1>2, <1>3, <1>4, <1>5, <1>6, <2>1, <2>2 DEF Thread
<1>23. Levels'
  BY <1>1, <1>2, <1>4, <1>8, <1>10 DEF Levels, OfLevel
<1>24. Sizes'
  BY <1>1, <1>2, <1>4, <1>3, <1>5, <1>6 DEF Sizes, SizesExact, HotBounded
<1>25. Trail'
  <2>1. LastQueued'
    <3>1. SUFFICES ASSUME NEW i \in 1 .. Len(writeQueue'), writeQueue'[i] # None,
                          level[writeQueue'[i][1]] # writeQueue'[i][2],
                          writeQueue'[i][1] \in Indexed
                   PROVE  \E j \in i + 1 .. Len(writeQueue') :
                            writeQueue'[j] # None /\ writeQueue'[j][1] = writeQueue'[i][1]
      BY <1>2, <1>4 DEF LastQueued
    <3>2. i \in 1 .. Len(writeQueue) /\ writeQueue'[i] = writeQueue[i] /\ writeQueue[i] # None
      BY <1>10, <3>1
    <3>3. PICK j \in i + 1 .. Len(writeQueue) :
            writeQueue[j] # None /\ writeQueue[j][1] = writeQueue[i][1]
      BY <1>1, <1>7, <3>1, <3>2 DEF Trail, LastQueued
    <3>4. j \in 1 .. Len(writeQueue) /\ j \in i + 1 .. Len(writeQueue')
      BY <1>8, <3>2, <3>3
    <3>. QED
      BY <1>8, <3>2, <3>3, <3>4
  <2>2. LastWritten'
    BY <1>1, <1>2, <1>4, <1>12 DEF Trail, LastWritten, Complete
  <2>3. OnItsWay'
    BY <1>1, <1>2, <1>4, <1>12 DEF Trail, OnItsWay, Complete
  <2>. QED
    BY <2>1, <2>2, <2>3 DEF Trail
<1>26. BufferExact'
  <2>1. ASSUME NEW i \in 1 .. Len(writeQueue'), NEW j \in 1 .. Len(writeQueue'), ~hot_enabled,
               writeQueue'[i] # None, writeQueue'[j] # None, writeQueue'[i][1] = writeQueue'[j][1]
        PROVE  i = j
    BY <1>1, <1>10, <2>1 DEF BufferExact
  <2>2. ~hot_enabled => \A i \in 1 .. Len(writeQueue') : writeQueue'[i] # None => writeQueue'[i][2] = 0
    BY <1>1, <1>10 DEF BufferExact
  <2>3. ~hot_enabled => \A h \in Hash : h \in InHot <=> InQueue(h)' \/ writer.h = h
    BY <1>1, <1>11 DEF BufferExact
  <2>4. ASSUME ~hot_enabled, Busy' PROVE ~InQueue(writer.h)' /\ writer'.k = 0
    <3>1. \A h : h = writer.h => ~InQueue(h)'
      BY <1>1, <1>4, <1>11, <2>4 DEF BufferExact
    <3>. QED
      BY <1>1, <1>2, <1>4, <2>4, <3>1 DEF BufferExact, InQueue
  <2>. QED
    BY <1>2, <1>4, <1>6, <2>1, <2>2, <2>3, <2>4 DEF BufferExact
<1>27. FilesOnce'
  BY <1>1, <1>2, <1>4, <1>11 DEF FilesOnce, Complete
<1>28. Accounted'
  BY <1>1, <1>2, <1>4, <1>3, <1>6 DEF Accounted, FilesCounted, Complete
<1>29. BufferKept'
  BY <1>1, <1>2, <1>4, <1>3, <1>6 DEF BufferKept, Loadable, Complete
<1>. QED
  BY <1>21, <1>22, <1>23, <1>24, <1>25, <1>26, <1>27, <1>28, <1>29 DEF SSDInv

LEMMA CloseEndsStep == SSDInv /\ CloseEnds => SSDInv'
<1>. SUFFICES ASSUME SSDInv, CloseEnds PROVE SSDInv'
  OBVIOUS
<1>1. /\ Shapes /\ Thread /\ Levels /\ Sizes /\ Trail /\ BufferExact /\ FilesOnce
      /\ Accounted /\ BufferKept
  BY DEF SSDInv
<1>2. /\ index' = index /\ fileSize' = fileSize /\ level' = level /\ total' = total
      /\ files' = files /\ writeQueue' = writeQueue /\ shutdown' = shutdown
      /\ writer' = writer /\ promise' = promise /\ hot_enabled' = hot_enabled
      /\ scanned' = scanned /\ restarts' = restarts /\ failed' = failed /\ removed' = removed
  BY DEF CloseEnds, indexVars, hotVars, envVars
<1>3. /\ proc.at = "join" /\ proc.unlinks = <<>> /\ writer.at = "gone"
      /\ phase' = "closed" /\ hot' = <<>> /\ hotTotal' = 0 /\ proc' = Idle
  BY DEF CloseEnds, At, Ready, Returns, WriterAt
<1>4. /\ Indexed' = Indexed /\ Basis' = Basis /\ Busy' = Busy
      /\ \A h : InQueue(h)' = InQueue(h)
  BY <1>2 DEF Indexed, Basis, Busy, InQueue
<1>5. proc.flush = <<>> /\ phase = "closing" /\ writeQueue = <<>> /\ writer.h \notin Hash /\ ~Busy
  BY <1>1, <1>3 DEF Thread, Busy
<1>6. /\ proc'.at = "idle" /\ proc'.h = None /\ proc'.unlinks = <<>> /\ proc'.flush = <<>>
      /\ proc' \in Procs
  BY <1>3, IdleProc DEF Idle
<1>7. hot' \in Seq(Hash) /\ IsInjective(hot') /\ InHot' = {}
  BY <1>3 DEF IsInjective, InHot, ToSet
<1>8. \A h : ~InQueue(h)
  BY <1>5 DEF InQueue
<1>9. \A h : ~Put(h) /\ ~Put(h)' /\ ~Pending(h) /\ ~Pending(h)'
  BY <1>3, <1>4, <1>6, <1>8 DEF Put, Pending
<1>10. \A h \in Hash : ~Underway(h)
  BY <1>5, <1>8 DEF Underway, InQueue, ToSet
<1>11. ~hot_enabled => InHot = {}
  BY <1>1, <1>5, <1>8, Basics DEF BufferExact
<1>21. Shapes'
  BY <1>1, <1>2, <1>4, <1>3, <1>6, <1>7 DEF Shapes
<1>22. Thread'
  BY <1>1, <1>2, <1>4, <1>3, <1>5, <1>6 DEF Thread
<1>23. Levels'
  BY <1>1, <1>2, <1>4 DEF Levels, OfLevel
<1>24. Sizes'
  <2>1. \A h \in Hash : RawSize[h] \in Nat
    BY SizeTypes
  <2>2. SumOf(RawSize, {}) = 0
    BY <2>1, SumFacts
  <2>3. SizesExact' /\ HotBounded'
    BY <1>1, <1>2, <1>3, <1>4, <1>7, <2>2, Constants DEF Sizes, SizesExact, HotBounded
  <2>. QED
    BY <1>1, <1>2, <1>3, <1>4, <1>5, <1>6, <1>7, <2>3 DEF Sizes
<1>25. Trail'
  <2>1. LastQueued'
    BY <1>2, <1>5 DEF LastQueued
  <2>2. LastWritten'
    BY <1>2, <1>3, <1>4, <1>5 DEF LastWritten
  <2>3. OnItsWay'
    BY <1>1, <1>2, <1>4, <1>5, <1>10, Basics DEF Trail, OnItsWay, Complete
  <2>. QED
    BY <2>1, <2>2, <2>3 DEF Trail
<1>26. BufferExact'
  BY <1>1, <1>2, <1>4, <1>5, <1>6, <1>7, <1>8, <1>11, Basics DEF BufferExact
<1>27. FilesOnce'
  BY <1>1, <1>2, <1>4 DEF FilesOnce, Complete
<1>28. Accounted'
  BY <1>1, <1>2, <1>4, <1>3, <1>6 DEF Accounted, FilesCounted, Complete
<1>29. BufferKept'
  BY <1>1, <1>2, <1>4, <1>3, <1>6, <1>7, <1>11 DEF BufferKept, Loadable, Complete
<1>. QED
  BY <1>21, <1>22, <1>23, <1>24, <1>25, <1>26, <1>27, <1>28, <1>29 DEF SSDInv


-----------------------------------------------------------------------------
(* The steps of the writer thread                                          *)

LEMMA WriterExitsStep == SSDInv /\ WriterExits => SSDInv'
<1>. SUFFICES ASSUME SSDInv, WriterExits PROVE SSDInv'
  OBVIOUS
<1>1. /\ Shapes /\ Thread /\ Levels /\ Sizes /\ Trail /\ BufferExact /\ FilesOnce
      /\ Accounted /\ BufferKept
  BY DEF SSDInv
<1>2. /\ index' = index /\ fileSize' = fileSize /\ level' = level /\ total' = total
      /\ hot' = hot /\ hotTotal' = hotTotal /\ files' = files /\ writeQueue' = writeQueue
      /\ shutdown' = shutdown /\ proc' = proc /\ promise' = promise
      /\ hot_enabled' = hot_enabled /\ phase' = phase /\ scanned' = scanned
      /\ restarts' = restarts /\ failed' = failed /\ removed' = removed
  BY DEF WriterExits, indexVars, hotVars, envVars
<1>3. /\ writer.at = "idle" /\ writeQueue = <<>> /\ shutdown
      /\ writer' = [Waiting EXCEPT !.at = "gone"]
  BY DEF WriterExits, At, Ready, Returns, WriterAt
<1>4. /\ Indexed' = Indexed /\ InHot' = InHot /\ Basis' = Basis
      /\ \A h : InQueue(h)' = InQueue(h)
  BY <1>2 DEF Indexed, InHot, Basis, InQueue
<1>6. writer' = [Waiting EXCEPT !.at = "gone"] /\ writer'.at = "gone" /\ writer'.h = None /\ writer'.k = 0
  BY <1>3 DEF Waiting
<1>7. writer' \in Writers /\ ~Busy /\ ~Busy' /\ writer.h \notin Hash /\ writer'.h \notin Hash
  BY <1>1, <1>3, <1>6, IdleProc, Constants DEF Writers, Stages, Busy, Thread

<1>8. writeQueue = <<>> /\ writeQueue' = <<>> /\ ~ \E h : InQueue(h) \/ InQueue(h)'
  BY <1>2, <1>3 DEF InQueue

<1>9. \A h \in Hash : Underway(h)' <=> Underway(h)
  <2>1. \A h \in Hash : Underway(h)' <=> InQueue(h)' \/ h \in ToSet(proc.flush)
    BY <1>2, <1>7 DEF Underway, InQueue
  <2>2. \A h \in Hash : Underway(h) <=> InQueue(h) \/ h \in ToSet(proc.flush)
    BY <1>7 DEF Underway, InQueue
  <2>. QED
    BY <1>8, <2>1, <2>2
<1>21. Shapes'
  BY <1>1, <1>2, <1>4, <1>7 DEF Shapes
<1>22. Thread'
  BY <1>1, <1>2, <1>4, <1>3, <1>6, <1>7 DEF Thread
<1>23. Levels'
  BY <1>1, <1>2, <1>4, <1>7 DEF Levels, OfLevel
<1>24. Sizes'
  BY <1>1, <1>2, <1>4 DEF Sizes, SizesExact, HotBounded
<1>25. Trail'
  <2>1. LastQueued'
    BY <1>2, <1>8 DEF LastQueued
  <2>2. LastWritten'
    BY <1>6, <1>7 DEF LastWritten
  <2>3. OnItsWay'
    BY <1>1, <1>2, <1>4, <1>9, Basics DEF Trail, OnItsWay, Complete
  <2>. QED
    BY <2>1, <2>2, <2>3 DEF Trail
<1>26. BufferExact'
  BY <1>1, <1>2, <1>4, <1>7, <1>8 DEF BufferExact
<1>27. FilesOnce'
  BY <1>1, <1>2, <1>4, <1>6, <1>7, <1>8 DEF FilesOnce, Complete
<1>28. Accounted'
  BY <1>1, <1>2, <1>4, <1>6, <1>7 DEF Accounted, FilesCounted, Complete
<1>29. BufferKept'
  BY <1>1, <1>2, <1>4, <1>6, <1>7 DEF BufferKept, Loadable, Complete
<1>. QED
  BY <1>21, <1>22, <1>23, <1>24, <1>25, <1>26, <1>27, <1>28, <1>29 DEF SSDInv

LEMMA WriterIsToldStep ==
  ASSUME SSDInv, WriterTakes, Head(writeQueue) = None
  PROVE  SSDInv'
<1>1. /\ Shapes /\ Thread /\ Levels /\ Sizes /\ Trail /\ BufferExact /\ FilesOnce
      /\ Accounted /\ BufferKept
  BY DEF SSDInv
<1>2. /\ index' = index /\ fileSize' = fileSize /\ level' = level /\ total' = total
      /\ hot' = hot /\ hotTotal' = hotTotal /\ files' = files /\ shutdown' = shutdown
      /\ proc' = proc /\ promise' = promise /\ hot_enabled' = hot_enabled /\ phase' = phase
      /\ scanned' = scanned /\ restarts' = restarts /\ failed' = failed /\ removed' = removed
  BY DEF WriterTakes, indexVars, hotVars, envVars
<1>3. /\ writer.at = "idle" /\ writeQueue # <<>> /\ Head(writeQueue) = None
      /\ writer' = [Waiting EXCEPT !.at = "gone"]
      /\ writeQueue' = Tail(writeQueue)
  BY DEF WriterTakes, At, Ready, Returns, WriterAt
<1>4. Indexed' = Indexed /\ InHot' = InHot /\ Basis' = Basis
  BY <1>2 DEF Indexed, InHot, Basis
<1>6. writer' = [Waiting EXCEPT !.at = "gone"] /\ writer'.at = "gone" /\ writer'.h = None /\ writer'.k = 0
  BY <1>3 DEF Waiting
<1>7. writer' \in Writers /\ ~Busy /\ ~Busy' /\ writer.h \notin Hash /\ writer'.h \notin Hash
  BY <1>1, <1>3, <1>6, IdleProc, Constants DEF Writers, Stages, Busy, Thread

<1>8. writeQueue' = <<>> /\ shutdown /\ ~ \E h : InQueue(h) \/ InQueue(h)'
  <2>1. /\ writeQueue' \in Seq(Item) /\ Len(writeQueue) \in Nat \ {0}
        /\ Len(writeQueue') = Len(writeQueue) - 1 /\ writeQueue[1] = None
        /\ \A h : InQueue(h) <=> InQueue(h)'
    BY <1>1, <1>3, Leaves
  <2>2. shutdown /\ Len(writeQueue) = 1
    BY <1>1, <2>1 DEF Thread
  <2>3. writeQueue' = <<>>
    BY <2>1, <2>2
  <2>. QED
    BY <2>1, <2>2, <2>3 DEF InQueue

<1>9. \A h \in Hash : Underway(h)' <=> Underway(h)
  <2>1. \A h \in Hash : Underway(h)' <=> InQueue(h)' \/ h \in ToSet(proc.flush)
    BY <1>2, <1>7 DEF Underway, InQueue
  <2>2. \A h \in Hash : Underway(h) <=> InQueue(h) \/ h \in ToSet(proc.flush)
    BY <1>7 DEF Underway, InQueue
  <2>. QED
    BY <1>8, <2>1, <2>2
<1>21. Shapes'
  BY <1>1, <1>2, <1>4, <1>7, <1>8, Constants DEF Shapes
<1>22. Thread'
  BY <1>1, <1>2, <1>4, <1>3, <1>6, <1>7, <1>8 DEF Thread
<1>23. Levels'
  BY <1>1, <1>2, <1>4, <1>7, <1>8 DEF Levels, OfLevel
<1>24. Sizes'
  BY <1>1, <1>2, <1>4 DEF Sizes, SizesExact, HotBounded
<1>25. Trail'
  <2>1. LastQueued'
    BY <1>2, <1>8 DEF LastQueued
  <2>2. LastWritten'
    BY <1>6, <1>7 DEF LastWritten
  <2>3. OnItsWay'
    BY <1>1, <1>2, <1>4, <1>9, Basics DEF Trail, OnItsWay, Complete
  <2>. QED
    BY <2>1, <2>2, <2>3 DEF Trail
<1>26. BufferExact'
  BY <1>1, <1>2, <1>4, <1>7, <1>8 DEF BufferExact
<1>27. FilesOnce'
  BY <1>1, <1>2, <1>4, <1>6, <1>7, <1>8 DEF FilesOnce, Complete
<1>28. Accounted'
  BY <1>1, <1>2, <1>4, <1>6, <1>7 DEF Accounted, FilesCounted, Complete
<1>29. BufferKept'
  BY <1>1, <1>2, <1>4, <1>6, <1>7 DEF BufferKept, Loadable, Complete
<1>. QED
  BY <1>21, <1>22, <1>23, <1>24, <1>25, <1>26, <1>27, <1>28, <1>29 DEF SSDInv

LEMMA WriterTakesStep ==
  ASSUME SSDInv, WriterTakes, Head(writeQueue) # None
  PROVE  SSDInv'
<1>1. /\ Shapes /\ Thread /\ Levels /\ Sizes /\ Trail /\ BufferExact /\ FilesOnce
      /\ Accounted /\ BufferKept
  BY DEF SSDInv
<1>2. /\ index' = index /\ fileSize' = fileSize /\ level' = level /\ total' = total
      /\ hot' = hot /\ hotTotal' = hotTotal /\ files' = files /\ shutdown' = shutdown
      /\ proc' = proc /\ promise' = promise /\ hot_enabled' = hot_enabled /\ phase' = phase
      /\ scanned' = scanned /\ restarts' = restarts /\ failed' = failed /\ removed' = removed
  BY DEF WriterTakes, indexVars, hotVars, envVars
<1>3. /\ writer.at = "idle" /\ writeQueue # <<>> /\ Head(writeQueue) # None
      /\ writer' = [at |-> "write", h |-> Head(writeQueue)[1], k |-> Head(writeQueue)[2]]
      /\ writeQueue' = Tail(writeQueue)
  BY DEF WriterTakes, At, Ready, Returns, WriterAt
<1>4. Indexed' = Indexed /\ InHot' = InHot /\ Basis' = Basis
  BY <1>2 DEF Indexed, InHot, Basis
<1>. DEFINE b == Head(writeQueue)[1]
            k == Head(writeQueue)[2]
<1>5. /\ writeQueue' \in Seq(Item) /\ Len(writeQueue) \in Nat \ {0}
      /\ Len(writeQueue') = Len(writeQueue) - 1
      /\ \A i \in 1 .. Len(writeQueue') : writeQueue'[i] = writeQueue[i + 1]
      /\ Head(writeQueue) = writeQueue[1] /\ Head(writeQueue) \in Item
      /\ \A h : InQueue(h) <=> InQueue(h)' \/ b = h
  BY <1>1, <1>3, Leaves
<1>6. b \in Hash /\ k \in Level /\ writeQueue[1] # None /\ writeQueue[1][1] = b /\ writeQueue[1][2] = k
  BY <1>3, <1>5 DEF Item
<1>7. /\ writer'.at = "write" /\ writer'.h = b /\ writer'.k = k /\ writer' \in Writers
      /\ ~Busy /\ Busy' /\ writer.h \notin Hash
  BY <1>1, <1>3, <1>6 DEF Writers, Stages, Busy, Thread
<1>. HIDE DEF b, k
<1>8. \A i \in 1 .. Len(writeQueue') : i + 1 \in 1 .. Len(writeQueue) /\ writeQueue'[i] = writeQueue[i + 1]
  BY <1>5
<1>9. 1 \in 1 .. Len(writeQueue) /\ InQueue(b)
  BY <1>5
<1>10. \A h : Put(h)' = Put(h)
  BY <1>2 DEF Put, Flushed
<1>11. \A h \in Hash : Underway(h) => Underway(h)'
  <2>1. \A h \in Hash : InQueue(h)' \/ h = b \/ h \in ToSet(proc.flush) => Underway(h)'
    BY <1>2, <1>7 DEF Underway, InQueue
  <2>2. \A h \in Hash : Underway(h) => InQueue(h) \/ h \in ToSet(proc.flush)
    BY <1>7 DEF Underway, InQueue
  <2>. QED
    BY <1>5, <2>1, <2>2
<1>21. Shapes'
  BY <1>1, <1>2, <1>4, <1>5, <1>7, Constants DEF Shapes
<1>22. Thread'
  <2>1. \A i \in 1 .. Len(writeQueue') : writeQueue'[i] = None => shutdown /\ i = Len(writeQueue')
    <3>1. SUFFICES ASSUME NEW i \in 1 .. Len(writeQueue'), writeQueue'[i] = None
                   PROVE  shutdown /\ i = Len(writeQueue')
      OBVIOUS
    <3>2. i + 1 \in 1 .. Len(writeQueue) /\ writeQueue[i + 1] = None
      BY <1>8, <3>1
    <3>3. shutdown /\ i + 1 = Len(writeQueue)
      BY <1>1, <3>2 DEF Thread
    <3>. QED
      BY <1>5, <3>3
  <2>2. /\ proc'.at = "add" => Flushed' \notin Indexed'
        /\ writer'.h \in Hash <=> Busy'
    BY <1>1, <1>2, <1>4, <1>6, <1>7 DEF Thread, Flushed
  <2>3. phase # "closed"
    BY <1>1, <1>3 DEF Thread
  <2>. QED
    BY <1>1, <1>2, <1>4, <1>7, <2>1, <2>2, <2>3 DEF Thread
<1>23. Levels'
  <2>1. k <= restarts /\ level[b] \in {0, k}
    BY <1>1, <1>6, <1>9 DEF Levels, OfLevel
  <2>2. ASSUME NEW i \in 1 .. Len(writeQueue'), writeQueue'[i] # None
        PROVE  writeQueue'[i][2] <= restarts /\ level[writeQueue'[i][1]] \in {0, writeQueue'[i][2]}
    <3>1. i + 1 \in 1 .. Len(writeQueue) /\ writeQueue'[i] = writeQueue[i + 1]
      BY <1>8
    <3>. QED
      BY <1>1, <2>2, <3>1 DEF Levels, OfLevel
  <2>. QED
    BY <1>1, <1>2, <1>7, <2>1, <2>2 DEF Levels, OfLevel
<1>24. Sizes'
  BY <1>1, <1>2, <1>4 DEF Sizes, SizesExact, HotBounded
<1>25. Trail'
  <2>1. LastQueued'
    <3>1. SUFFICES ASSUME NEW i \in 1 .. Len(writeQueue'), writeQueue'[i] # None,
                          level[writeQueue'[i][1]] # writeQueue'[i][2],
                          writeQueue'[i][1] \in Indexed, ~Put(writeQueue'[i][1])
                   PROVE  \E j \in i + 1 .. Len(writeQueue') :
                            writeQueue'[j] # None /\ writeQueue'[j][1] = writeQueue'[i][1]
      BY <1>2, <1>4, <1>10 DEF LastQueued
    <3>2. i + 1 \in 1 .. Len(writeQueue) /\ writeQueue'[i] = writeQueue[i + 1]
      BY <1>8
    <3>3. PICK j \in (i + 1) + 1 .. Len(writeQueue) :
            writeQueue[j] # None /\ writeQueue[j][1] = writeQueue[i + 1][1]
      BY <1>1, <3>1, <3>2 DEF Trail, LastQueued
    <3>4. j - 1 \in 1 .. Len(writeQueue') /\ j - 1 \in i + 1 .. Len(writeQueue') /\ (j - 1) + 1 = j
      BY <1>5, <3>3
    <3>5. writeQueue'[j - 1] = writeQueue[j]
      BY <1>5, <3>4
    <3>. QED
      BY <3>2, <3>3, <3>4, <3>5
  <2>2. ASSUME NEW h, h = b, level[h] # k, h \in Indexed, ~Put(h) PROVE InQueue(h)'
    <3>1. PICK j \in 1 + 1 .. Len(writeQueue) : writeQueue[j] # None /\ writeQueue[j][1] = h
      BY <1>1, <1>6, <1>9, <2>2 DEF Trail, LastQueued
    <3>2. j - 1 \in 1 .. Len(writeQueue') /\ (j - 1) + 1 = j
      BY <1>5, <3>1
    <3>3. writeQueue'[j - 1] = writeQueue[j]
      BY <1>5, <3>2
    <3>. QED
      BY <3>1, <3>2, <3>3 DEF InQueue
  <2>3. LastWritten'
    <3>1. ASSUME Busy', level'[writer'.h] # writer'.k, writer'.h \in Indexed' PROVE Pending(writer.h)'
      <4>1. \A h : h = b => InQueue(h)' \/ Put(h)'
        BY <1>2, <1>4, <1>7, <1>10, <2>2, <3>1
      <4>2. \A h : h = writer'.h => InQueue(h)' \/ Put(h)'
        BY <1>7, <4>1
      <4>. QED
        BY <4>2 DEF Pending, InQueue, Put, Flushed
    <3>. QED
      BY <1>7, <3>1 DEF LastWritten
  <2>4. OnItsWay'
    BY <1>1, <1>2, <1>4, <1>11, Basics DEF Trail, OnItsWay, Complete
  <2>. QED
    BY <2>1, <2>3, <2>4 DEF Trail
<1>26. BufferExact'
  <2>1. ASSUME NEW i \in 1 .. Len(writeQueue'), NEW j \in 1 .. Len(writeQueue'), ~hot_enabled,
               writeQueue'[i] # None, writeQueue'[j] # None, writeQueue'[i][1] = writeQueue'[j][1]
        PROVE  i = j
    <3>1. i + 1 = j + 1
      BY <1>1, <1>8, <2>1, SMTT(40) DEF BufferExact
    <3>. QED
      BY <1>5, <3>1
  <2>2. ~hot_enabled => \A i \in 1 .. Len(writeQueue') : writeQueue'[i] # None => writeQueue'[i][2] = 0
    BY <1>1, <1>8 DEF BufferExact
  <2>3. ~hot_enabled => \A h \in Hash : h \in InHot <=> InQueue(h)' \/ b = h
    BY <1>1, <1>5, <1>7 DEF BufferExact
  <2>4. ASSUME ~hot_enabled PROVE k = 0 /\ ~ \E i \in 1 .. Len(writeQueue') : writeQueue'[i] # None /\ writeQueue'[i][1] = b
    <3>1. ASSUME NEW i \in 1 .. Len(writeQueue'), writeQueue'[i] # None, writeQueue'[i][1] = b PROVE FALSE
      <4>1. i + 1 = 1
        BY <1>1, <1>6, <1>8, <1>9, <2>4, <3>1, SMTT(40) DEF BufferExact
      <4>. QED
        BY <1>5, <4>1
    <3>2. k = 0
      BY <1>1, <1>6, <1>9, <2>4 DEF BufferExact
    <3>. QED
      BY <3>1, <3>2
  <2>5. ~hot_enabled => ~InQueue(writer.h)' /\ writer'.k = 0
    BY <1>7, <2>4 DEF InQueue
  <2>. QED
    BY <1>1, <1>2, <1>4, <1>7, <2>1, <2>2, <2>3, <2>5 DEF BufferExact
<1>27. FilesOnce'
  BY <1>1, <1>2, <1>4, <1>5, <1>7, <1>9, <1>6 DEF FilesOnce, Complete
<1>28. Accounted'
  BY <1>1, <1>2, <1>4, <1>3, <1>7 DEF Accounted, FilesCounted, Complete
<1>29. BufferKept'
  BY <1>1, <1>2, <1>4, <1>7 DEF BufferKept, Loadable, Complete
<1>. QED
  BY <1>21, <1>22, <1>23, <1>24, <1>25, <1>26, <1>27, <1>28, <1>29 DEF SSDInv

LEMMA WriteStartsStep ==
  ASSUME SSDInv, writer.at = "write", WriteTemp
  PROVE  SSDInv'
<1>1. /\ Shapes /\ Thread /\ Levels /\ Sizes /\ Trail /\ BufferExact /\ FilesOnce
      /\ Accounted /\ BufferKept
  BY DEF SSDInv
<1>2. /\ index' = index /\ fileSize' = fileSize /\ level' = level /\ total' = total
      /\ hot' = hot /\ hotTotal' = hotTotal /\ writeQueue' = writeQueue
      /\ shutdown' = shutdown /\ proc' = proc /\ promise' = promise
      /\ hot_enabled' = hot_enabled /\ phase' = phase /\ scanned' = scanned
      /\ restarts' = restarts /\ failed' = failed /\ removed' = removed
  BY DEF WriteTemp, indexVars, hotVars, envVars
<1>3. /\ writer.at = "write"
      /\ writer' = [writer EXCEPT !.at = "fill"]
      /\ files' = [files EXCEPT ![Temp] = "partial"]
  BY DEF WriteTemp, At, Ready, Returns, WriterAt
<1>4. /\ Indexed' = Indexed /\ InHot' = InHot /\ Basis' = Basis
      /\ \A h : InQueue(h)' = InQueue(h)
  BY <1>2 DEF Indexed, InHot, Basis, InQueue
<1>5. writer \in Writers /\ writer.at \in {"write"} /\ writer.h \in Hash
  BY <1>1, <1>3, Basics DEF Shapes
<1>6. /\ writer'.at = "fill" /\ writer'.h = writer.h /\ writer'.k = writer.k /\ writer' \in Writers
      /\ Busy /\ Busy'
  BY <1>3, <1>5 DEF Writers, Stages, Busy
<1>7. \A h : Put(h)' = Put(h) /\ Pending(h)' = Pending(h) /\ Underway(h)' = Underway(h)
  BY <1>2, <1>4, <1>6 DEF Put, Pending, Underway, Flushed
<1>8. /\ writer.k \in Nat /\ restarts \in Nat /\ writer.k <= restarts /\ level[writer.h] \in {0, writer.k}
      /\ writer.k \in Level /\ writer.k + 1 \in Level /\ writer.k + 1 # 0
      /\ writer.k + 1 # level[writer.h] /\ writer.k # writer.k + 1
  <2>1. writer.k \in Level /\ level[writer.h] \in Level
    BY <1>1, <1>5, Basics
  <2>2. restarts \in 0 .. MaxRestarts /\ MaxRestarts \in Nat /\ writer.k <= restarts
          /\ level[writer.h] \in {0, writer.k}
    BY <1>1, <1>6, Constants DEF Shapes, Levels, OfLevel
  <2>. QED
    BY <2>1, <2>2 DEF Level

<1>9. /\ files' \in [Hash \X Level -> {"none", "partial", "complete"}]
      /\ \A h \in Hash, k \in Level : files'[<<h, k>>] =
           IF h = writer.h /\ k = writer.k + 1 THEN "partial" ELSE files[<<h, k>>]
  <2>1. <<writer.h, writer.k + 1>> \in Hash \X Level
    BY <1>5, <1>8
  <2>. QED
    BY <1>1, <1>3, <2>1 DEF Shapes, Temp
<1>10. /\ \A h \in Hash : files'[<<h, 0>>] = files[<<h, 0>>]
       /\ \A h \in Hash : files'[<<h, level[h]>>] = files[<<h, level[h]>>]
  BY <1>1, <1>8, <1>9, Basics
<1>21. Shapes'
  BY <1>1, <1>2, <1>4, <1>6, <1>9 DEF Shapes
<1>22. Thread'
  <2>1. proc'.at = "add" => Flushed' \notin Indexed'
    BY <1>1, <1>2, <1>4 DEF Thread, Flushed
  <2>. QED
    BY <1>1, <1>2, <1>4, <1>5, <1>6, <2>1 DEF Thread
<1>23. Levels'
  BY <1>1, <1>2, <1>4, <1>6, <1>8, <1>9, <1>10 DEF Levels, OfLevel
<1>24. Sizes'
  BY <1>1, <1>2, <1>4 DEF Sizes, SizesExact, HotBounded
<1>25. Trail'
  <2>1. LastQueued'
    BY <1>1, <1>2, <1>4, <1>7 DEF Trail, LastQueued
  <2>2. LastWritten'
    <3>1. (level[writer.h] # writer.k /\ writer.h \in Indexed => Pending(writer.h))
      BY <1>1, <1>6 DEF Trail, LastWritten
    <3>. QED
      BY <1>2, <1>4, <1>6, <1>7, <3>1 DEF LastWritten, Pending, InQueue, Put, Flushed
  <2>3. OnItsWay'
    BY <1>1, <1>2, <1>4, <1>7, <1>10, Basics DEF Trail, OnItsWay, Complete
  <2>. QED
    BY <2>1, <2>2, <2>3 DEF Trail
<1>26. BufferExact'
  <2>1. ~hot_enabled => ~InQueue(writer.h)' /\ writer'.k = 0
    <3>1. ~hot_enabled => ~InQueue(writer.h) /\ writer.k = 0
      BY <1>1, <1>6 DEF BufferExact
    <3>. QED
      BY <1>2, <1>6, <3>1 DEF InQueue
  <2>. QED
    BY <1>1, <1>2, <1>4, <1>6, <2>1 DEF BufferExact
<1>27. FilesOnce'
  <2>1. SUFFICES ASSUME ~hot_enabled PROVE FilesOnce'
    BY <1>2 DEF FilesOnce
  <2>2. writer.k = 0 /\ files[<<writer.h, 0>>] = "none"
    BY <1>1, <1>3, <1>5, <1>6, <2>1 DEF BufferExact, FilesOnce
  <2>3. \A h \in Hash, k \in Level : k > 1 => files'[<<h, k>>] = "none"
    BY <1>1, <1>9, <2>1, <2>2 DEF FilesOnce
  <2>4. \A h \in Hash : ~(Complete(h, 0)' /\ Complete(h, 1)')
    <3>1. \A h \in Hash : ~(files'[<<h, 0>>] = "complete" /\ files'[<<h, 1>>] = "complete")
      <4>1. \A h \in Hash \ {writer.h} : files'[<<h, 1>>] = files[<<h, 1>>]
        BY <1>9, Constants
      <4>2. \A h \in Hash : ~(files[<<h, 0>>] = "complete" /\ files[<<h, 1>>] = "complete")
        BY <1>1, <2>1 DEF FilesOnce, Complete
      <4>3. files'[<<writer.h, 0>>] = "none"
        BY <1>5, <1>10, <2>2
      <4>. QED
        BY <1>10, <4>1, <4>2, <4>3
    <3>. QED
      BY <3>1 DEF Complete
  <2>. QED
    BY <1>1, <1>2, <1>4, <1>5, <1>6, <1>10, <2>1, <2>2, <2>3, <2>4, Basics DEF FilesOnce
<1>28. Accounted'
  BY <1>1, <1>2, <1>4, <1>6, <1>10 DEF Accounted, FilesCounted, Complete
<1>29. BufferKept'
  <2>1. /\ \A h \in Hash : Complete(h, level[h])' <=> Complete(h, level[h])
        /\ \A h \in Hash : Loadable(h)' <=> Loadable(h)
    BY <1>2, <1>4, <1>10 DEF Complete, Loadable
  <2>2. proc'.at = "missing" /\ ~hot_enabled => ~Complete(proc.h, level[proc.h])'
    <3>1. proc.at = "missing" /\ ~hot_enabled => proc.h \in Hash /\ ~Complete(proc.h, level[proc.h])
      BY <1>1 DEF BufferKept, Thread
    <3>. QED
      BY <1>2, <1>10, <3>1 DEF Complete
  <2>. QED
    BY <1>1, <1>2, <1>4, <1>6, <2>1, <2>2 DEF BufferKept
<1>. QED
  BY <1>21, <1>22, <1>23, <1>24, <1>25, <1>26, <1>27, <1>28, <1>29 DEF SSDInv

LEMMA WriteFillsStep ==
  ASSUME SSDInv, writer.at = "fill", WriteTemp
  PROVE  SSDInv'
<1>1. /\ Shapes /\ Thread /\ Levels /\ Sizes /\ Trail /\ BufferExact /\ FilesOnce
      /\ Accounted /\ BufferKept
  BY DEF SSDInv
<1>2. /\ index' = index /\ fileSize' = fileSize /\ level' = level /\ total' = total
      /\ hot' = hot /\ hotTotal' = hotTotal /\ writeQueue' = writeQueue
      /\ shutdown' = shutdown /\ proc' = proc /\ promise' = promise
      /\ hot_enabled' = hot_enabled /\ phase' = phase /\ scanned' = scanned
      /\ restarts' = restarts /\ failed' = failed /\ removed' = removed
  BY DEF WriteTemp, indexVars, hotVars, envVars
<1>3. /\ writer.at = "fill"
      /\ writer' = [writer EXCEPT !.at = "rename"]
      /\ files' = [files EXCEPT ![Temp] = "complete"]
  BY DEF WriteTemp, At, Ready, Returns, WriterAt
<1>4. /\ Indexed' = Indexed /\ InHot' = InHot /\ Basis' = Basis
      /\ \A h : InQueue(h)' = InQueue(h)
  BY <1>2 DEF Indexed, InHot, Basis, InQueue
<1>5. writer \in Writers /\ writer.at \in {"fill"} /\ writer.h \in Hash
  BY <1>1, <1>3, Basics DEF Shapes
<1>6. /\ writer'.at = "rename" /\ writer'.h = writer.h /\ writer'.k = writer.k /\ writer' \in Writers
      /\ Busy /\ Busy'
  BY <1>3, <1>5 DEF Writers, Stages, Busy
<1>7. \A h : Put(h)' = Put(h) /\ Pending(h)' = Pending(h) /\ Underway(h)' = Underway(h)
  BY <1>2, <1>4, <1>6 DEF Put, Pending, Underway, Flushed
<1>8. /\ writer.k \in Nat /\ restarts \in Nat /\ writer.k <= restarts /\ level[writer.h] \in {0, writer.k}
      /\ writer.k \in Level /\ writer.k + 1 \in Level /\ writer.k + 1 # 0
      /\ writer.k + 1 # level[writer.h] /\ writer.k # writer.k + 1
  <2>1. writer.k \in Level /\ level[writer.h] \in Level
    BY <1>1, <1>5, Basics
  <2>2. restarts \in 0 .. MaxRestarts /\ MaxRestarts \in Nat /\ writer.k <= restarts
          /\ level[writer.h] \in {0, writer.k}
    BY <1>1, <1>6, Constants DEF Shapes, Levels, OfLevel
  <2>. QED
    BY <2>1, <2>2 DEF Level

<1>9. /\ files' \in [Hash \X Level -> {"none", "partial", "complete"}]
      /\ \A h \in Hash, k \in Level : files'[<<h, k>>] =
           IF h = writer.h /\ k = writer.k + 1 THEN "complete" ELSE files[<<h, k>>]
  <2>1. <<writer.h, writer.k + 1>> \in Hash \X Level
    BY <1>5, <1>8
  <2>. QED
    BY <1>1, <1>3, <2>1 DEF Shapes, Temp
<1>10. /\ \A h \in Hash : files'[<<h, 0>>] = files[<<h, 0>>]
       /\ \A h \in Hash : files'[<<h, level[h]>>] = files[<<h, level[h]>>]
  BY <1>1, <1>8, <1>9, Basics
<1>21. Shapes'
  BY <1>1, <1>2, <1>4, <1>6, <1>9 DEF Shapes
<1>22. Thread'
  <2>1. proc'.at = "add" => Flushed' \notin Indexed'
    BY <1>1, <1>2, <1>4 DEF Thread, Flushed
  <2>. QED
    BY <1>1, <1>2, <1>4, <1>5, <1>6, <2>1 DEF Thread
<1>23. Levels'
  BY <1>1, <1>2, <1>4, <1>6, <1>8, <1>9, <1>10 DEF Levels, OfLevel
<1>24. Sizes'
  BY <1>1, <1>2, <1>4 DEF Sizes, SizesExact, HotBounded
<1>25. Trail'
  <2>1. LastQueued'
    BY <1>1, <1>2, <1>4, <1>7 DEF Trail, LastQueued
  <2>2. LastWritten'
    <3>1. (level[writer.h] # writer.k /\ writer.h \in Indexed => Pending(writer.h))
      BY <1>1, <1>6 DEF Trail, LastWritten
    <3>. QED
      BY <1>2, <1>4, <1>6, <1>7, <3>1 DEF LastWritten, Pending, InQueue, Put, Flushed
  <2>3. OnItsWay'
    BY <1>1, <1>2, <1>4, <1>7, <1>10, Basics DEF Trail, OnItsWay, Complete
  <2>. QED
    BY <2>1, <2>2, <2>3 DEF Trail
<1>26. BufferExact'
  <2>1. ~hot_enabled => ~InQueue(writer.h)' /\ writer'.k = 0
    <3>1. ~hot_enabled => ~InQueue(writer.h) /\ writer.k = 0
      BY <1>1, <1>6 DEF BufferExact
    <3>. QED
      BY <1>2, <1>6, <3>1 DEF InQueue
  <2>. QED
    BY <1>1, <1>2, <1>4, <1>6, <2>1 DEF BufferExact
<1>27. FilesOnce'
  <2>1. SUFFICES ASSUME ~hot_enabled PROVE FilesOnce'
    BY <1>2 DEF FilesOnce
  <2>2. writer.k = 0 /\ files[<<writer.h, 0>>] = "none"
    BY <1>1, <1>3, <1>5, <1>6, <2>1 DEF BufferExact, FilesOnce
  <2>3. \A h \in Hash, k \in Level : k > 1 => files'[<<h, k>>] = "none"
    BY <1>1, <1>9, <2>1, <2>2 DEF FilesOnce
  <2>4. \A h \in Hash : ~(Complete(h, 0)' /\ Complete(h, 1)')
    <3>1. \A h \in Hash : ~(files'[<<h, 0>>] = "complete" /\ files'[<<h, 1>>] = "complete")
      <4>1. \A h \in Hash \ {writer.h} : files'[<<h, 1>>] = files[<<h, 1>>]
        BY <1>9, Constants
      <4>2. \A h \in Hash : ~(files[<<h, 0>>] = "complete" /\ files[<<h, 1>>] = "complete")
        BY <1>1, <2>1 DEF FilesOnce, Complete
      <4>3. files'[<<writer.h, 0>>] = "none"
        BY <1>5, <1>10, <2>2
      <4>. QED
        BY <1>10, <4>1, <4>2, <4>3
    <3>. QED
      BY <3>1 DEF Complete
  <2>. QED
    BY <1>1, <1>2, <1>4, <1>5, <1>6, <1>10, <2>1, <2>2, <2>3, <2>4, Basics DEF FilesOnce
<1>28. Accounted'
  BY <1>1, <1>2, <1>4, <1>6, <1>10 DEF Accounted, FilesCounted, Complete
<1>29. BufferKept'
  <2>1. /\ \A h \in Hash : Complete(h, level[h])' <=> Complete(h, level[h])
        /\ \A h \in Hash : Loadable(h)' <=> Loadable(h)
    BY <1>2, <1>4, <1>10 DEF Complete, Loadable
  <2>2. proc'.at = "missing" /\ ~hot_enabled => ~Complete(proc.h, level[proc.h])'
    <3>1. proc.at = "missing" /\ ~hot_enabled => proc.h \in Hash /\ ~Complete(proc.h, level[proc.h])
      BY <1>1 DEF BufferKept, Thread
    <3>. QED
      BY <1>2, <1>10, <3>1 DEF Complete
  <2>. QED
    BY <1>1, <1>2, <1>4, <1>6, <2>1, <2>2 DEF BufferKept
<1>. QED
  BY <1>21, <1>22, <1>23, <1>24, <1>25, <1>26, <1>27, <1>28, <1>29 DEF SSDInv

LEMMA WriteRaisesStep == SSDInv /\ WriteRaises => SSDInv'
<1>. SUFFICES ASSUME SSDInv, WriteRaises PROVE SSDInv'
  OBVIOUS
<1>1. /\ Shapes /\ Thread /\ Levels /\ Sizes /\ Trail /\ BufferExact /\ FilesOnce
      /\ Accounted /\ BufferKept
  BY DEF SSDInv
<1>2. /\ index' = index /\ fileSize' = fileSize /\ level' = level /\ total' = total
      /\ hot' = hot /\ hotTotal' = hotTotal /\ files' = files /\ writeQueue' = writeQueue
      /\ shutdown' = shutdown /\ proc' = proc /\ promise' = promise
      /\ hot_enabled' = hot_enabled /\ phase' = phase /\ scanned' = scanned
      /\ restarts' = restarts /\ removed' = removed
  BY DEF WriteRaises, indexVars, hotVars, envVars
<1>3. /\ writer.at \in {"write", "fill"}
      /\ writer' = [writer EXCEPT !.at = "failed"]
      /\ failed' = failed \cup {writer.h}
  BY DEF WriteRaises, At, Ready, Returns, WriterAt
<1>4. /\ Indexed' = Indexed /\ InHot' = InHot /\ Basis' = Basis
      /\ \A h : InQueue(h)' = InQueue(h)
  BY <1>2 DEF Indexed, InHot, Basis, InQueue
<1>5. writer \in Writers /\ writer.at \in {"write", "fill"} /\ writer.h \in Hash
  BY <1>1, <1>3, Basics DEF Shapes
<1>6. /\ writer'.at = "failed" /\ writer'.h = writer.h /\ writer'.k = writer.k /\ writer' \in Writers
      /\ Busy /\ Busy'
  BY <1>3, <1>5 DEF Writers, Stages, Busy
<1>7. \A h : Put(h)' = Put(h) /\ Pending(h)' = Pending(h) /\ Underway(h)' = Underway(h)
  BY <1>2, <1>4, <1>6 DEF Put, Pending, Underway, Flushed
<1>8. /\ writer.k \in Nat /\ restarts \in Nat /\ writer.k <= restarts /\ level[writer.h] \in {0, writer.k}
      /\ writer.k \in Level /\ writer.k + 1 \in Level /\ writer.k + 1 # 0
      /\ writer.k + 1 # level[writer.h] /\ writer.k # writer.k + 1
  <2>1. writer.k \in Level /\ level[writer.h] \in Level
    BY <1>1, <1>5, Basics
  <2>2. restarts \in 0 .. MaxRestarts /\ MaxRestarts \in Nat /\ writer.k <= restarts
          /\ level[writer.h] \in {0, writer.k}
    BY <1>1, <1>6, Constants DEF Shapes, Levels, OfLevel
  <2>. QED
    BY <2>1, <2>2 DEF Level
<1>21. Shapes'
  BY <1>1, <1>2, <1>4, <1>3, <1>5, <1>6 DEF Shapes
<1>22. Thread'
  <2>1. proc'.at = "add" => Flushed' \notin Indexed'
    BY <1>1, <1>2, <1>4 DEF Thread, Flushed
  <2>. QED
    BY <1>1, <1>2, <1>4, <1>5, <1>6, <2>1 DEF Thread
<1>23. Levels'
  BY <1>1, <1>2, <1>4, <1>6, <1>8 DEF Levels, OfLevel
<1>24. Sizes'
  BY <1>1, <1>2, <1>4 DEF Sizes, SizesExact, HotBounded
<1>25. Trail'
  <2>1. LastQueued'
    BY <1>1, <1>2, <1>4, <1>7 DEF Trail, LastQueued
  <2>2. LastWritten'
    <3>1. (level[writer.h] # writer.k /\ writer.h \in Indexed => Pending(writer.h))
      BY <1>1, <1>6 DEF Trail, LastWritten
    <3>. QED
      BY <1>2, <1>4, <1>6, <1>7, <3>1 DEF LastWritten, Pending, InQueue, Put, Flushed
  <2>3. OnItsWay'
    BY <1>1, <1>2, <1>4, <1>7, Basics DEF Trail, OnItsWay, Complete
  <2>. QED
    BY <2>1, <2>2, <2>3 DEF Trail
<1>26. BufferExact'
  <2>1. ~hot_enabled => ~InQueue(writer.h)' /\ writer'.k = 0
    <3>1. ~hot_enabled => ~InQueue(writer.h) /\ writer.k = 0
      BY <1>1, <1>6 DEF BufferExact
    <3>. QED
      BY <1>2, <1>6, <3>1 DEF InQueue
  <2>. QED
    BY <1>1, <1>2, <1>4, <1>6, <2>1 DEF BufferExact
<1>27. FilesOnce'
  BY <1>1, <1>2, <1>4, <1>3, <1>6 DEF FilesOnce, Complete
<1>28. Accounted'
  BY <1>1, <1>2, <1>4, <1>6 DEF Accounted, FilesCounted, Complete
<1>29. BufferKept'
  BY <1>1, <1>2, <1>4, <1>3, <1>6 DEF BufferKept, Loadable, Complete
<1>. QED
  BY <1>21, <1>22, <1>23, <1>24, <1>25, <1>26, <1>27, <1>28, <1>29 DEF SSDInv

LEMMA RenameWorksStep ==
  ASSUME SSDInv, Replaces \/ files[Final] = "none", Rename
  PROVE  SSDInv'
<1>1. /\ Shapes /\ Thread /\ Levels /\ Sizes /\ Trail /\ BufferExact /\ FilesOnce
      /\ Accounted /\ BufferKept
  BY DEF SSDInv
<1>2. /\ index' = index /\ fileSize' = fileSize /\ level' = level /\ total' = total
      /\ hot' = hot /\ hotTotal' = hotTotal /\ writeQueue' = writeQueue
      /\ shutdown' = shutdown /\ proc' = proc /\ promise' = promise
      /\ hot_enabled' = hot_enabled /\ phase' = phase /\ scanned' = scanned
      /\ restarts' = restarts /\ failed' = failed /\ removed' = removed
  BY DEF Rename, indexVars, hotVars, envVars
<1>3. /\ writer.at = "rename"
      /\ writer' = [writer EXCEPT !.at = "check"]
      /\ files' = [files EXCEPT ![Final] = "complete", ![Temp] = "none"]
  BY DEF Rename, At, Ready, Returns, WriterAt
<1>4. /\ Indexed' = Indexed /\ InHot' = InHot /\ Basis' = Basis
      /\ \A h : InQueue(h)' = InQueue(h)
  BY <1>2 DEF Indexed, InHot, Basis, InQueue
<1>5. writer \in Writers /\ writer.at \in {"rename"} /\ writer.h \in Hash
  BY <1>1, <1>3, Basics DEF Shapes
<1>6. /\ writer'.at = "check" /\ writer'.h = writer.h /\ writer'.k = writer.k /\ writer' \in Writers
      /\ Busy /\ Busy'
  BY <1>3, <1>5 DEF Writers, Stages, Busy
<1>7. \A h : Put(h)' = Put(h) /\ Pending(h)' = Pending(h) /\ Underway(h)' = Underway(h)
  BY <1>2, <1>4, <1>6 DEF Put, Pending, Underway, Flushed
<1>8. /\ writer.k \in Nat /\ restarts \in Nat /\ writer.k <= restarts /\ level[writer.h] \in {0, writer.k}
      /\ writer.k \in Level /\ writer.k + 1 \in Level /\ writer.k + 1 # 0
      /\ writer.k + 1 # level[writer.h] /\ writer.k # writer.k + 1
  <2>1. writer.k \in Level /\ level[writer.h] \in Level
    BY <1>1, <1>5, Basics
  <2>2. restarts \in 0 .. MaxRestarts /\ MaxRestarts \in Nat /\ writer.k <= restarts
          /\ level[writer.h] \in {0, writer.k}
    BY <1>1, <1>6, Constants DEF Shapes, Levels, OfLevel
  <2>. QED
    BY <2>1, <2>2 DEF Level

<1>9. /\ files' \in [Hash \X Level -> {"none", "partial", "complete"}]
      /\ \A h \in Hash, k \in Level : files'[<<h, k>>] =
           IF h = writer.h /\ k = writer.k + 1 THEN "none"
           ELSE IF h = writer.h /\ k = writer.k THEN "complete" ELSE files[<<h, k>>]
  <2>1. <<writer.h, writer.k + 1>> \in Hash \X Level /\ <<writer.h, writer.k>> \in Hash \X Level
    BY <1>5, <1>8
  <2>. QED
    BY <1>1, <1>3, <2>1 DEF Shapes, Temp, Final
<1>10. /\ \A h \in Hash : h # writer.h => files'[<<h, level[h]>>] = files[<<h, level[h]>>]
       /\ files'[<<writer.h, level[writer.h]>>] \in {"complete", files[<<writer.h, level[writer.h]>>]}
       /\ level[writer.h] = writer.k => files'[<<writer.h, level[writer.h]>>] = "complete"
       /\ \A h \in Hash : files'[<<h, 0>>] \in {"complete", files[<<h, 0>>]}
       /\ \A h \in Hash : h # writer.h => files'[<<h, 0>>] = files[<<h, 0>>]
       /\ files'[<<writer.h, writer.k>>] = "complete" /\ files'[<<writer.h, writer.k + 1>>] = "none"
  BY <1>5, <1>8, <1>9, Basics
<1>21. Shapes'
  BY <1>1, <1>2, <1>4, <1>6, <1>9 DEF Shapes
<1>22. Thread'
  <2>1. proc'.at = "add" => Flushed' \notin Indexed'
    BY <1>1, <1>2, <1>4 DEF Thread, Flushed
  <2>. QED
    BY <1>1, <1>2, <1>4, <1>5, <1>6, <2>1 DEF Thread
<1>23. Levels'
  <2>1. \A h \in Hash, k \in Level : files'[<<h, k>>] # "none" => k <= restarts + 1
    BY <1>1, <1>8, <1>9 DEF Levels
  <2>2. \A h \in Hash : files'[<<h, 0>>] # "partial" /\ files'[<<h, level[h]>>] # "partial"
    BY <1>1, <1>10 DEF Levels
  <2>. QED
    BY <1>1, <1>2, <1>4, <1>6, <1>8, <2>1, <2>2 DEF Levels, OfLevel
<1>24. Sizes'
  BY <1>1, <1>2, <1>4 DEF Sizes, SizesExact, HotBounded
<1>25. Trail'
  <2>1. LastQueued'
    BY <1>1, <1>2, <1>4, <1>7 DEF Trail, LastQueued

  <2>2. LastWritten'
    <3>1. (level[writer.h] # writer.k /\ writer.h \in Indexed => Pending(writer.h))
      BY <1>1, <1>6 DEF Trail, LastWritten
    <3>2. Complete(writer.h, level[writer.h])' \/ level[writer.h] # writer.k
      BY <1>2, <1>6, <1>10 DEF Complete
    <3>3. Pending(writer.h) => Pending(writer.h)'
      BY <1>2, <1>6 DEF Pending, InQueue, Put, Flushed
    <3>. QED
      BY <1>2, <1>4, <1>6, <3>1, <3>2, <3>3 DEF LastWritten
  <2>3. OnItsWay'
    <3>1. \A h \in Hash : Complete(h, level[h]) => Complete(h, level[h])'
      BY <1>2, <1>10 DEF Complete
    <3>. QED
      BY <1>1, <1>2, <1>4, <1>7, <3>1, Basics DEF Trail, OnItsWay
  <2>. QED
    BY <2>1, <2>2, <2>3 DEF Trail
<1>26. BufferExact'
  <2>1. ~hot_enabled => ~InQueue(writer.h)' /\ writer'.k = 0
    <3>1. ~hot_enabled => ~InQueue(writer.h) /\ writer.k = 0
      BY <1>1, <1>6 DEF BufferExact
    <3>. QED
      BY <1>2, <1>6, <3>1 DEF InQueue
  <2>. QED
    BY <1>1, <1>2, <1>4, <1>6, <2>1 DEF BufferExact
<1>27. FilesOnce'
  <2>1. SUFFICES ASSUME ~hot_enabled PROVE FilesOnce'
    BY <1>2 DEF FilesOnce
  <2>2. writer.k = 0 /\ level[writer.h] = 0 /\ ~InQueue(writer.h)
    BY <1>1, <1>6, <1>8, <2>1 DEF BufferExact
  <2>3. \A h \in Hash, k \in Level : k > 1 => files'[<<h, k>>] = "none"
    BY <1>1, <1>9, <2>1, <2>2 DEF FilesOnce
  <2>4. \A h \in Hash : ~(files'[<<h, 0>>] = "complete" /\ files'[<<h, 1>>] = "complete")
    <3>1. \A h \in Hash \ {writer.h} : files'[<<h, 1>>] = files[<<h, 1>>]
      BY <1>9, Constants
    <3>2. \A h \in Hash : ~(files[<<h, 0>>] = "complete" /\ files[<<h, 1>>] = "complete")
      BY <1>1, <2>1 DEF FilesOnce, Complete
    <3>3. files'[<<writer.h, 1>>] = "none"
      BY <1>10, <2>2
    <3>. QED
      BY <1>10, <3>1, <3>2, <3>3
  <2>5. \A h \in Hash : InQueue(h)' => files'[<<h, 0>>] = "none"
    BY <1>1, <1>4, <1>10, <2>1, <2>2 DEF FilesOnce
  <2>6. \A h \in Indexed : level[h] # 0 => files'[<<h, 0>>] = "none"
    BY <1>1, <1>10, <2>1, <2>2, Basics DEF FilesOnce
  <2>. QED
    BY <1>1, <1>2, <1>4, <1>6, <2>3, <2>4, <2>5, <2>6 DEF FilesOnce, Complete
<1>28. Accounted'
  <2>1. ASSUME ~hot_enabled, NEW h \in Hash, files'[<<h, 0>>] = "complete"
        PROVE  h \in Indexed \/ writer.h = h \/ <<h, 0>> \in ToSet(proc.unlinks)
    BY <1>1, <1>10, <2>1 DEF Accounted, FilesCounted, Complete
  <2>. QED
    BY <1>2, <1>4, <1>6, <2>1 DEF Accounted, FilesCounted, Complete
<1>29. BufferKept'
  <2>1. \A h \in Hash : Loadable(h) => Loadable(h)'
    BY <1>2, <1>4, <1>10 DEF Complete, Loadable
  <2>2. proc'.at = "missing" /\ ~hot_enabled => ~Complete(proc.h, level[proc.h])'
    <3>1. ASSUME proc.at = "missing", ~hot_enabled
          PROVE  proc.h \in Hash /\ proc.h # writer.h /\ ~Complete(proc.h, level[proc.h])
      BY <1>1, <1>5, <3>1 DEF BufferKept, BufferExact, Thread
    <3>. QED
      BY <1>2, <1>10, <3>1 DEF Complete
  <2>. QED
    BY <1>1, <1>2, <1>4, <1>6, <2>1, <2>2 DEF BufferKept
<1>. QED
  BY <1>21, <1>22, <1>23, <1>24, <1>25, <1>26, <1>27, <1>28, <1>29 DEF SSDInv

LEMMA RenameFailsStep ==
  ASSUME SSDInv, ~(Replaces \/ files[Final] = "none"), Rename
  PROVE  SSDInv'
<1>1. /\ Shapes /\ Thread /\ Levels /\ Sizes /\ Trail /\ BufferExact /\ FilesOnce
      /\ Accounted /\ BufferKept
  BY DEF SSDInv
<1>2. /\ index' = index /\ fileSize' = fileSize /\ level' = level /\ total' = total
      /\ hot' = hot /\ hotTotal' = hotTotal /\ files' = files /\ writeQueue' = writeQueue
      /\ shutdown' = shutdown /\ proc' = proc /\ promise' = promise
      /\ hot_enabled' = hot_enabled /\ phase' = phase /\ scanned' = scanned
      /\ restarts' = restarts /\ failed' = failed /\ removed' = removed
  BY DEF Rename, indexVars, hotVars, envVars
<1>3. /\ writer.at = "rename"
      /\ writer' = [writer EXCEPT !.at = "failed"]
  BY DEF Rename, At, Ready, Returns, WriterAt
<1>4. /\ Indexed' = Indexed /\ InHot' = InHot /\ Basis' = Basis
      /\ \A h : InQueue(h)' = InQueue(h)
  BY <1>2 DEF Indexed, InHot, Basis, InQueue
<1>5. writer \in Writers /\ writer.at \in {"rename"} /\ writer.h \in Hash
  BY <1>1, <1>3, Basics DEF Shapes
<1>6. /\ writer'.at = "failed" /\ writer'.h = writer.h /\ writer'.k = writer.k /\ writer' \in Writers
      /\ Busy /\ Busy'
  BY <1>3, <1>5 DEF Writers, Stages, Busy
<1>7. \A h : Put(h)' = Put(h) /\ Pending(h)' = Pending(h) /\ Underway(h)' = Underway(h)
  BY <1>2, <1>4, <1>6 DEF Put, Pending, Underway, Flushed
<1>8. /\ writer.k \in Nat /\ restarts \in Nat /\ writer.k <= restarts /\ level[writer.h] \in {0, writer.k}
      /\ writer.k \in Level /\ writer.k + 1 \in Level /\ writer.k + 1 # 0
      /\ writer.k + 1 # level[writer.h] /\ writer.k # writer.k + 1
  <2>1. writer.k \in Level /\ level[writer.h] \in Level
    BY <1>1, <1>5, Basics
  <2>2. restarts \in 0 .. MaxRestarts /\ MaxRestarts \in Nat /\ writer.k <= restarts
          /\ level[writer.h] \in {0, writer.k}
    BY <1>1, <1>6, Constants DEF Shapes, Levels, OfLevel
  <2>. QED
    BY <2>1, <2>2 DEF Level

<1>9. hot_enabled
  BY <1>1, <1>3, <1>6 DEF BufferExact, FilesOnce, Final
<1>21. Shapes'
  BY <1>1, <1>2, <1>4, <1>6 DEF Shapes
<1>22. Thread'
  <2>1. proc'.at = "add" => Flushed' \notin Indexed'
    BY <1>1, <1>2, <1>4 DEF Thread, Flushed
  <2>. QED
    BY <1>1, <1>2, <1>4, <1>5, <1>6, <2>1 DEF Thread
<1>23. Levels'
  BY <1>1, <1>2, <1>4, <1>6, <1>8 DEF Levels, OfLevel
<1>24. Sizes'
  BY <1>1, <1>2, <1>4 DEF Sizes, SizesExact, HotBounded
<1>25. Trail'
  <2>1. LastQueued'
    BY <1>1, <1>2, <1>4, <1>7 DEF Trail, LastQueued

  <2>2. LastWritten'
    <3>1. (level[writer.h] # writer.k /\ writer.h \in Indexed => Pending(writer.h))
      BY <1>1, <1>6 DEF Trail, LastWritten
    <3>. QED
      BY <1>2, <1>4, <1>6, <1>7, <3>1 DEF LastWritten, Pending, InQueue, Put, Flushed
  <2>3. OnItsWay'
    BY <1>1, <1>2, <1>4, <1>7, Basics DEF Trail, OnItsWay, Complete
  <2>. QED
    BY <2>1, <2>2, <2>3 DEF Trail
<1>26. BufferExact'
  BY <1>1, <1>2, <1>4, <1>9 DEF BufferExact
<1>27. FilesOnce'
  BY <1>1, <1>2, <1>4, <1>9 DEF FilesOnce, Complete
<1>28. Accounted'
  BY <1>1, <1>2, <1>4, <1>9 DEF Accounted, FilesCounted, Complete
<1>29. BufferKept'
  BY <1>1, <1>2, <1>4, <1>9 DEF BufferKept, Loadable, Complete
<1>. QED
  BY <1>21, <1>22, <1>23, <1>24, <1>25, <1>26, <1>27, <1>28, <1>29 DEF SSDInv

LEMMA WriterUpdatesStep ==
  ASSUME SSDInv, writer.h \in Indexed, WriterChecks
  PROVE  SSDInv'
<1>1. /\ Shapes /\ Thread /\ Levels /\ Sizes /\ Trail /\ BufferExact /\ FilesOnce
      /\ Accounted /\ BufferKept
  BY DEF SSDInv
<1>2. /\ index' = index /\ level' = level /\ hot' = hot /\ hotTotal' = hotTotal
      /\ files' = files /\ writeQueue' = writeQueue /\ shutdown' = shutdown /\ proc' = proc
      /\ promise' = promise /\ hot_enabled' = hot_enabled /\ phase' = phase
      /\ scanned' = scanned /\ restarts' = restarts /\ failed' = failed /\ removed' = removed
  BY DEF WriterChecks, IndexUpdate, indexVars, hotVars, envVars
<1>3. /\ writer.at = "check"
      /\ writer' = [writer EXCEPT !.at = "finish"]
      /\ fileSize' = [fileSize EXCEPT ![writer.h] = Raw(writer.h) + Header]
      /\ total' = total + Raw(writer.h) + Header - fileSize[writer.h]
      /\ writer.h \in Indexed
  BY DEF WriterChecks, IndexUpdate, At, Ready, Returns, WriterAt
<1>4. Indexed' = Indexed /\ InHot' = InHot /\ \A h : InQueue(h)' = InQueue(h)
  BY <1>2 DEF Indexed, InHot, InQueue
<1>5. writer \in Writers /\ writer.at \in {"check"} /\ writer.h \in Hash
  BY <1>1, <1>3, Basics DEF Shapes
<1>6. /\ writer'.at = "finish" /\ writer'.h = writer.h /\ writer'.k = writer.k /\ writer' \in Writers
      /\ Busy /\ Busy'
  BY <1>3, <1>5 DEF Writers, Stages, Busy
<1>7. \A h : Put(h)' = Put(h) /\ Pending(h)' = Pending(h) /\ Underway(h)' = Underway(h)
  BY <1>2, <1>4, <1>6 DEF Put, Pending, Underway, Flushed
<1>8. /\ writer.k \in Nat /\ restarts \in Nat /\ writer.k <= restarts /\ level[writer.h] \in {0, writer.k}
      /\ writer.k \in Level /\ writer.k + 1 \in Level /\ writer.k + 1 # 0
      /\ writer.k + 1 # level[writer.h] /\ writer.k # writer.k + 1
  <2>1. writer.k \in Level /\ level[writer.h] \in Level
    BY <1>1, <1>5, Basics
  <2>2. restarts \in 0 .. MaxRestarts /\ MaxRestarts \in Nat /\ writer.k <= restarts
          /\ level[writer.h] \in {0, writer.k}
    BY <1>1, <1>6, Constants DEF Shapes, Levels, OfLevel
  <2>. QED
    BY <2>1, <2>2 DEF Level

<1>9. /\ Raw(writer.h) \in Nat /\ Header \in Nat /\ WrittenSize[writer.h] = Raw(writer.h) + Header
      /\ WrittenSize[writer.h] \in Nat \ {0}
  BY <1>5, SizeTypes, SSDCacheAssumption DEF WrittenSize
<1>10. /\ fileSize' \in [Hash -> Nat] /\ fileSize'[writer.h] = WrittenSize[writer.h]
       /\ \A h \in Hash \ {writer.h} : fileSize'[h] = fileSize[h]
  BY <1>1, <1>3, <1>5, <1>9 DEF Shapes
<1>21. Shapes'
  BY <1>1, <1>2, <1>4, <1>6, <1>10 DEF Shapes
<1>22. Thread'
  <2>1. proc'.at = "add" => Flushed' \notin Indexed'
    BY <1>1, <1>2, <1>4 DEF Thread, Flushed
  <2>. QED
    BY <1>1, <1>2, <1>4, <1>5, <1>6, <2>1 DEF Thread
<1>23. Levels'
  BY <1>1, <1>2, <1>4, <1>6, <1>8 DEF Levels, OfLevel
<1>24. Sizes'
  <2>. DEFINE others == Indexed \ {writer.h}
  <2>1. /\ Indexed \in SUBSET Hash /\ others \in SUBSET Hash /\ writer.h \in Indexed
        /\ (\A h \in Hash : fileSize[h] \in Nat) /\ \A h \in Hash : Basis[h] \in Nat
    BY <1>1, <1>3, Known
  <2>2. (\A h \in Hash : fileSize'[h] \in Nat) /\ \A h \in Hash : Basis'[h] \in Nat
    <3>1. \A h \in Hash : fileSize'[h] \in Nat
      BY <1>10
    <3>. QED
      BY <3>1, SizeTypes DEF Basis
  <2>3. SumOf(fileSize, Indexed) = fileSize[writer.h] + SumOf(fileSize, others)
    BY <2>1, SumFacts
  <2>4. SumOf(fileSize', Indexed) = fileSize'[writer.h] + SumOf(fileSize', others)
    BY <2>1, <2>2, SumFacts
  <2>5. SumOf(fileSize', others) = SumOf(fileSize, others) /\ SumOf(fileSize, others) \in Nat
    <3>1. \A h \in others : fileSize'[h] = fileSize[h] /\ fileSize'[h] \in Nat
      BY <1>10, <2>1
    <3>2. SumOf(fileSize', others) = SumOf(fileSize, others)
      BY <2>1, <3>1, SumSame
    <3>3. SumOf(fileSize, others) \in Nat
      BY <2>1, SumFacts
    <3>. QED
      BY <3>2, <3>3
  <2>6. total' = SumOf(fileSize', Indexed)
    <3>1. total = SumOf(fileSize, Indexed) /\ fileSize[writer.h] \in Nat
      BY <1>1, <2>1 DEF Sizes, SizesExact
    <3>2. total' = total + Raw(writer.h) + Header - fileSize[writer.h]
      BY <1>3
    <3>. HIDE DEF others
    <3>. QED
      BY <1>9, <1>10, <2>3, <2>4, <2>5, <3>1, <3>2
  <2>. HIDE DEF others
  <2>7. fileSize[writer.h] = Estimate(writer.h) \/ fileSize[writer.h] = WrittenSize[writer.h]
    BY <1>1, <1>3, <1>5 DEF Sizes
  <2>8. SumOf(Basis', Indexed) <= SumOf(Basis, Indexed)
    <3>1. ASSUME NEW h \in Hash
          PROVE  /\ Basis'[h] = IF fileSize'[h] <= Estimate(h) THEN fileSize'[h] ELSE Estimate(h)
                 /\ Basis[h] = IF fileSize[h] <= Estimate(h) THEN fileSize[h] ELSE Estimate(h)
                 /\ Estimate(h) \in Nat
      BY SizeTypes DEF Basis
    <3>2. \A h \in Indexed : Basis'[h] <= Basis[h]
      BY <1>5, <1>9, <1>10, <2>1, <2>7, <3>1
    <3>3. Indexed \in SUBSET Indexed
      OBVIOUS
    <3>. QED
      BY <2>1, <2>2, <3>2, <3>3, SumFalls
  <2>9. SumOf(Basis', Indexed) \in Nat /\ SumOf(Basis, Indexed) \in Nat /\ Ceiling \in Nat /\ Largest \in Nat
    <3>1. SumOf(Basis', Indexed) \in Nat
      BY <2>1, <2>2, SumFacts
    <3>2. SumOf(Basis, Indexed) \in Nat
      BY <2>1, SumFacts
    <3>. QED
      BY <3>1, <3>2, Bounds
  <2>10. \/ total' <= scanned /\ \A h \in Indexed : fileSize'[h] = WrittenSize[h]
         \/ SumOf(Basis', Indexed) <= Ceiling + Largest
    <3>1. CASE total <= scanned /\ \A h \in Indexed : fileSize[h] = WrittenSize[h]
      <4>1. fileSize[writer.h] = WrittenSize[writer.h]
        BY <1>3, <3>1
      <4>2. total' = total
        <5>1. total \in Nat
          BY <1>1, <2>1, SumFacts DEF Sizes, SizesExact
        <5>. QED
          BY <1>3, <1>9, <4>1, <5>1
      <4>. QED
        BY <1>10, <2>1, <3>1, <4>2
    <3>2. CASE SumOf(Basis, Indexed) <= Ceiling + Largest
      BY <2>8, <2>9, <3>2
    <3>. QED
      BY <1>1, <3>1, <3>2 DEF Sizes
  <2>11. SizesExact' /\ HotBounded'
    BY <1>1, <1>2, <1>4, <2>6 DEF Sizes, SizesExact, HotBounded
  <2>12. \A h \in Hash : fileSize'[h] \in {0, Estimate(h), WrittenSize[h]}
    BY <1>1, <1>10 DEF Sizes
  <2>13. \A h \in Hash : fileSize[h] # 0 => fileSize'[h] # 0
    BY <1>9, <1>10
  <2>14. ToSet(proc.flush) \in SUBSET Hash /\ InHot \in SUBSET Hash /\ (proc.at = "read" => proc.h \in Hash)
    <3>1. proc.flush \in Seq(Hash)
      BY <1>1 DEF Shapes, Procs
    <3>2. ToSet(proc.flush) \in SUBSET Hash
      BY <3>1 DEF ToSet
    <3>. QED
      BY <1>1, <3>2, Known DEF Thread
  <2>15. proc.at = "add" \/ (proc.at = "save" /\ ~hot_enabled) => SumOf(Basis', Indexed) <= Ceiling
    BY <1>1, <2>8, <2>9 DEF Sizes
  <2>16. /\ \A h \in Indexed \cup ToSet(proc.flush) : fileSize'[h] # 0
         /\ hot_enabled => \A h \in InHot : fileSize'[h] # 0
         /\ proc.at = "read" => fileSize'[proc.h] # 0
    BY <1>1, <2>1, <2>13, <2>14 DEF Sizes
  <2>. QED
    BY <1>1, <1>2, <1>4, <2>10, <2>11, <2>12, <2>15, <2>16 DEF Sizes
<1>25. Trail'
  <2>1. LastQueued'
    BY <1>1, <1>2, <1>4, <1>7 DEF Trail, LastQueued

  <2>2. LastWritten'
    <3>1. /\ level[writer.h] # writer.k /\ writer.h \in Indexed => Pending(writer.h)
          /\ writer.h \in Indexed \ removed => Complete(writer.h, level[writer.h]) \/ Pending(writer.h)
      BY <1>1, <1>3, <1>6 DEF Trail, LastWritten
    <3>2. Pending(writer.h) => Pending(writer.h)'
      BY <1>2, <1>6 DEF Pending, InQueue, Put, Flushed
    <3>3. Complete(writer.h, level[writer.h]) => Complete(writer.h, level[writer.h])'
      BY <1>2, <1>6 DEF Complete
    <3>. QED
      BY <1>2, <1>4, <1>6, <3>1, <3>2, <3>3 DEF LastWritten
  <2>3. OnItsWay'
    BY <1>1, <1>2, <1>4, <1>7, Basics DEF Trail, OnItsWay, Complete
  <2>. QED
    BY <2>1, <2>2, <2>3 DEF Trail
<1>26. BufferExact'
  <2>1. ~hot_enabled => ~InQueue(writer.h)' /\ writer'.k = 0
    <3>1. ~hot_enabled => ~InQueue(writer.h) /\ writer.k = 0
      BY <1>1, <1>6 DEF BufferExact
    <3>. QED
      BY <1>2, <1>6, <3>1 DEF InQueue
  <2>. QED
    BY <1>1, <1>2, <1>4, <1>6, <2>1 DEF BufferExact
<1>27. FilesOnce'
  BY <1>1, <1>2, <1>4, <1>3, <1>6 DEF FilesOnce, Complete
<1>28. Accounted'
  BY <1>1, <1>2, <1>4, <1>3, <1>6 DEF Accounted, FilesCounted, Complete
<1>29. BufferKept'
  BY <1>1, <1>2, <1>4, <1>6 DEF BufferKept, Loadable, Complete
<1>. QED
  BY <1>21, <1>22, <1>23, <1>24, <1>25, <1>26, <1>27, <1>28, <1>29 DEF SSDInv

LEMMA WriterMissesStep ==
  ASSUME SSDInv, writer.h \notin Indexed, WriterChecks
  PROVE  SSDInv'
<1>1. /\ Shapes /\ Thread /\ Levels /\ Sizes /\ Trail /\ BufferExact /\ FilesOnce
      /\ Accounted /\ BufferKept
  BY DEF SSDInv
<1>2. /\ index' = index /\ fileSize' = fileSize /\ level' = level /\ total' = total
      /\ hot' = hot /\ hotTotal' = hotTotal /\ files' = files /\ writeQueue' = writeQueue
      /\ shutdown' = shutdown /\ proc' = proc /\ promise' = promise
      /\ hot_enabled' = hot_enabled /\ phase' = phase /\ scanned' = scanned
      /\ restarts' = restarts /\ failed' = failed /\ removed' = removed
  BY DEF WriterChecks, IndexUpdate, indexVars, hotVars, envVars
<1>3. /\ writer.at = "check"
      /\ writer' = [writer EXCEPT !.at = "drop"]
      /\ writer.h \notin Indexed
  BY DEF WriterChecks, IndexUpdate, At, Ready, Returns, WriterAt
<1>4. /\ Indexed' = Indexed /\ InHot' = InHot /\ Basis' = Basis
      /\ \A h : InQueue(h)' = InQueue(h)
  BY <1>2 DEF Indexed, InHot, Basis, InQueue
<1>5. writer \in Writers /\ writer.at \in {"check"} /\ writer.h \in Hash
  BY <1>1, <1>3, Basics DEF Shapes
<1>6. /\ writer'.at = "drop" /\ writer'.h = writer.h /\ writer'.k = writer.k /\ writer' \in Writers
      /\ Busy /\ Busy'
  BY <1>3, <1>5 DEF Writers, Stages, Busy
<1>7. \A h : Put(h)' = Put(h) /\ Pending(h)' = Pending(h) /\ Underway(h)' = Underway(h)
  BY <1>2, <1>4, <1>6 DEF Put, Pending, Underway, Flushed
<1>8. /\ writer.k \in Nat /\ restarts \in Nat /\ writer.k <= restarts /\ level[writer.h] \in {0, writer.k}
      /\ writer.k \in Level /\ writer.k + 1 \in Level /\ writer.k + 1 # 0
      /\ writer.k + 1 # level[writer.h] /\ writer.k # writer.k + 1
  <2>1. writer.k \in Level /\ level[writer.h] \in Level
    BY <1>1, <1>5, Basics
  <2>2. restarts \in 0 .. MaxRestarts /\ MaxRestarts \in Nat /\ writer.k <= restarts
          /\ level[writer.h] \in {0, writer.k}
    BY <1>1, <1>6, Constants DEF Shapes, Levels, OfLevel
  <2>. QED
    BY <2>1, <2>2 DEF Level
<1>21. Shapes'
  BY <1>1, <1>2, <1>4, <1>6 DEF Shapes
<1>22. Thread'
  <2>1. proc'.at = "add" => Flushed' \notin Indexed'
    BY <1>1, <1>2, <1>4 DEF Thread, Flushed
  <2>. QED
    BY <1>1, <1>2, <1>4, <1>5, <1>6, <2>1 DEF Thread
<1>23. Levels'
  BY <1>1, <1>2, <1>4, <1>6, <1>8 DEF Levels, OfLevel
<1>24. Sizes'
  BY <1>1, <1>2, <1>4 DEF Sizes, SizesExact, HotBounded
<1>25. Trail'
  <2>1. LastQueued'
    BY <1>1, <1>2, <1>4, <1>7 DEF Trail, LastQueued

  <2>2. LastWritten'
    BY <1>2, <1>3, <1>4, <1>6 DEF LastWritten
  <2>3. OnItsWay'
    BY <1>1, <1>2, <1>4, <1>7, Basics DEF Trail, OnItsWay, Complete
  <2>. QED
    BY <2>1, <2>2, <2>3 DEF Trail
<1>26. BufferExact'
  <2>1. ~hot_enabled => ~InQueue(writer.h)' /\ writer'.k = 0
    <3>1. ~hot_enabled => ~InQueue(writer.h) /\ writer.k = 0
      BY <1>1, <1>6 DEF BufferExact
    <3>. QED
      BY <1>2, <1>6, <3>1 DEF InQueue
  <2>. QED
    BY <1>1, <1>2, <1>4, <1>6, <2>1 DEF BufferExact
<1>27. FilesOnce'
  BY <1>1, <1>2, <1>4, <1>3, <1>6 DEF FilesOnce, Complete
<1>28. Accounted'
  BY <1>1, <1>2, <1>4, <1>3, <1>6 DEF Accounted, FilesCounted, Complete
<1>29. BufferKept'
  BY <1>1, <1>2, <1>4, <1>6 DEF BufferKept, Loadable, Complete
<1>. QED
  BY <1>21, <1>22, <1>23, <1>24, <1>25, <1>26, <1>27, <1>28, <1>29 DEF SSDInv

LEMMA WriterDropsStep == SSDInv /\ WriterDrops => SSDInv'
<1>. SUFFICES ASSUME SSDInv, WriterDrops PROVE SSDInv'
  OBVIOUS
<1>1. /\ Shapes /\ Thread /\ Levels /\ Sizes /\ Trail /\ BufferExact /\ FilesOnce
      /\ Accounted /\ BufferKept
  BY DEF SSDInv
<1>2. /\ index' = index /\ fileSize' = fileSize /\ level' = level /\ total' = total
      /\ hot' = hot /\ hotTotal' = hotTotal /\ writeQueue' = writeQueue
      /\ shutdown' = shutdown /\ proc' = proc /\ promise' = promise
      /\ hot_enabled' = hot_enabled /\ phase' = phase /\ scanned' = scanned
      /\ restarts' = restarts /\ failed' = failed /\ removed' = removed
  BY DEF WriterDrops, indexVars, hotVars, envVars
<1>3. /\ writer.at = "drop"
      /\ writer' = [writer EXCEPT !.at = "finish"]
      /\ files' = [files EXCEPT ![Final] = "none"]
  BY DEF WriterDrops, At, Ready, Returns, WriterAt
<1>4. /\ Indexed' = Indexed /\ InHot' = InHot /\ Basis' = Basis
      /\ \A h : InQueue(h)' = InQueue(h)
  BY <1>2 DEF Indexed, InHot, Basis, InQueue
<1>5. writer \in Writers /\ writer.at \in {"drop"} /\ writer.h \in Hash
  BY <1>1, <1>3, Basics DEF Shapes
<1>6. /\ writer'.at = "finish" /\ writer'.h = writer.h /\ writer'.k = writer.k /\ writer' \in Writers
      /\ Busy /\ Busy'
  BY <1>3, <1>5 DEF Writers, Stages, Busy
<1>7. \A h : Put(h)' = Put(h) /\ Pending(h)' = Pending(h) /\ Underway(h)' = Underway(h)
  BY <1>2, <1>4, <1>6 DEF Put, Pending, Underway, Flushed
<1>8. /\ writer.k \in Nat /\ restarts \in Nat /\ writer.k <= restarts /\ level[writer.h] \in {0, writer.k}
      /\ writer.k \in Level /\ writer.k + 1 \in Level /\ writer.k + 1 # 0
      /\ writer.k + 1 # level[writer.h] /\ writer.k # writer.k + 1
  <2>1. writer.k \in Level /\ level[writer.h] \in Level
    BY <1>1, <1>5, Basics
  <2>2. restarts \in 0 .. MaxRestarts /\ MaxRestarts \in Nat /\ writer.k <= restarts
          /\ level[writer.h] \in {0, writer.k}
    BY <1>1, <1>6, Constants DEF Shapes, Levels, OfLevel
  <2>. QED
    BY <2>1, <2>2 DEF Level

<1>9. /\ files' \in [Hash \X Level -> {"none", "partial", "complete"}]
      /\ \A h \in Hash, k \in Level : files'[<<h, k>>] =
           IF h = writer.h /\ k = writer.k THEN "none" ELSE files[<<h, k>>]
  <2>1. <<writer.h, writer.k>> \in Hash \X Level
    BY <1>5, <1>8
  <2>. QED
    BY <1>1, <1>3, <2>1 DEF Shapes, Final

<1>10. /\ \A h \in Hash, k \in Level : files'[<<h, k>>] \in {"none", files[<<h, k>>]}
       /\ \A h \in Hash, k \in Level : h # writer.h => files'[<<h, k>>] = files[<<h, k>>]
       /\ files'[<<writer.h, writer.k>>] = "none"
  BY <1>5, <1>8, <1>9
<1>21. Shapes'
  BY <1>1, <1>2, <1>4, <1>6, <1>9 DEF Shapes
<1>22. Thread'
  <2>1. proc'.at = "add" => Flushed' \notin Indexed'
    BY <1>1, <1>2, <1>4 DEF Thread, Flushed
  <2>. QED
    BY <1>1, <1>2, <1>4, <1>5, <1>6, <2>1 DEF Thread
<1>23. Levels'
  <2>1. \A h \in Hash, k \in Level : files'[<<h, k>>] # "none" => files[<<h, k>>] # "none"
    BY <1>10
  <2>2. \A h \in Hash : files'[<<h, 0>>] # "partial" /\ files'[<<h, level[h]>>] # "partial"
    BY <1>1, <1>10, Basics DEF Levels
  <2>3. \A h \in Hash, k \in Level : files'[<<h, k>>] # "none" => k <= restarts + 1
    BY <1>1, <2>1 DEF Levels
  <2>. QED
    BY <1>1, <1>2, <1>4, <1>6, <1>8, <2>2, <2>3 DEF Levels, OfLevel
<1>24. Sizes'
  BY <1>1, <1>2, <1>4 DEF Sizes, SizesExact, HotBounded
<1>25. Trail'
  <2>1. LastQueued'
    BY <1>1, <1>2, <1>4, <1>7 DEF Trail, LastQueued

  <2>2. LastWritten'
    <3>1. /\ level[writer.h] # writer.k /\ writer.h \in Indexed => Pending(writer.h)
          /\ writer.h \in Indexed => Pending(writer.h)
      BY <1>1, <1>3, <1>6 DEF Trail, LastWritten
    <3>2. Pending(writer.h) => Pending(writer.h)'
      BY <1>2, <1>6 DEF Pending, InQueue, Put, Flushed
    <3>. QED
      BY <1>2, <1>4, <1>6, <3>1, <3>2 DEF LastWritten
  <2>3. OnItsWay'
    <3>1. \A h \in Hash : h = writer.h => Underway(h)'
      BY <1>6 DEF Underway
    <3>2. \A h \in Hash : h # writer.h /\ Complete(h, level[h]) => Complete(h, level[h])'
      BY <1>2, <1>10, Basics DEF Complete
    <3>. QED
      BY <1>1, <1>2, <1>4, <1>7, <3>1, <3>2, Basics DEF Trail, OnItsWay
  <2>. QED
    BY <2>1, <2>2, <2>3 DEF Trail
<1>26. BufferExact'
  <2>1. ~hot_enabled => ~InQueue(writer.h)' /\ writer'.k = 0
    <3>1. ~hot_enabled => ~InQueue(writer.h) /\ writer.k = 0
      BY <1>1, <1>6 DEF BufferExact
    <3>. QED
      BY <1>2, <1>6, <3>1 DEF InQueue
  <2>. QED
    BY <1>1, <1>2, <1>4, <1>6, <2>1 DEF BufferExact
<1>27. FilesOnce'
  <2>1. SUFFICES ASSUME ~hot_enabled PROVE FilesOnce'
    BY <1>2 DEF FilesOnce
  <2>2. \A h \in Hash, k \in Level : k > 1 => files'[<<h, k>>] = "none"
    BY <1>1, <1>10, <2>1 DEF FilesOnce
  <2>3. \A h \in Hash : ~(files'[<<h, 0>>] = "complete" /\ files'[<<h, 1>>] = "complete")
    BY <1>1, <1>10, <2>1, Constants DEF FilesOnce, Complete
  <2>4. \A h \in Hash : InQueue(h)' => files'[<<h, 0>>] = "none"
    BY <1>1, <1>4, <1>10, <2>1, Constants DEF FilesOnce
  <2>5. \A h \in Indexed : level[h] # 0 => files'[<<h, 0>>] = "none"
    BY <1>1, <1>10, <2>1, Basics DEF FilesOnce
  <2>. QED
    BY <1>1, <1>2, <1>4, <1>6, <2>2, <2>3, <2>4, <2>5 DEF FilesOnce, Complete
<1>28. Accounted'
  <2>1. ~hot_enabled => files'[<<writer.h, 0>>] = "none"
    BY <1>1, <1>6, <1>10 DEF BufferExact
  <2>2. ASSUME ~hot_enabled, NEW h \in Hash, files'[<<h, 0>>] = "complete"
        PROVE  h \in Indexed \/ writer.h = h \/ <<h, 0>> \in ToSet(proc.unlinks)
    BY <1>1, <1>10, <2>2, Constants DEF Accounted, FilesCounted, Complete
  <2>. QED
    BY <1>2, <1>4, <1>6, <2>1, <2>2 DEF Accounted, FilesCounted, Complete
<1>29. BufferKept'
  <2>1. ASSUME ~hot_enabled, NEW h \in Hash \ (failed \cup removed), Loadable(h) PROVE Loadable(h)'
    <3>1. h # writer.h \/ h \in InHot
      BY <1>1, <1>3, <1>5, <2>1 DEF BufferExact
    <3>2. level[h] \in Level
      BY Basics
    <3>. QED
      BY <1>2, <1>4, <1>10, <2>1, <3>1, <3>2 DEF Complete, Loadable
  <2>2. proc'.at = "missing" /\ ~hot_enabled => ~Complete(proc.h, level[proc.h])'
    <3>1. ASSUME proc.at = "missing", ~hot_enabled
          PROVE  proc.h \in Hash /\ ~Complete(proc.h, level[proc.h]) /\ level[proc.h] \in Level
      BY <1>1, <3>1, Basics DEF BufferKept, Thread
    <3>. QED
      BY <1>2, <1>10, <3>1 DEF Complete
  <2>. QED
    BY <1>1, <1>2, <1>4, <1>6, <2>1, <2>2 DEF BufferKept
<1>. QED
  BY <1>21, <1>22, <1>23, <1>24, <1>25, <1>26, <1>27, <1>28, <1>29 DEF SSDInv

LEMMA WriterForgetsStep == SSDInv /\ WriterForgets => SSDInv'
<1>. SUFFICES ASSUME SSDInv, WriterForgets PROVE SSDInv'
  OBVIOUS
<1>1. /\ Shapes /\ Thread /\ Levels /\ Sizes /\ Trail /\ BufferExact /\ FilesOnce
      /\ Accounted /\ BufferKept
  BY DEF SSDInv
<1>2. /\ fileSize' = fileSize /\ level' = level /\ hot' = hot /\ hotTotal' = hotTotal
      /\ files' = files /\ writeQueue' = writeQueue /\ shutdown' = shutdown /\ proc' = proc
      /\ promise' = promise /\ hot_enabled' = hot_enabled /\ phase' = phase
      /\ scanned' = scanned /\ restarts' = restarts /\ failed' = failed /\ removed' = removed
  BY DEF WriterForgets, indexVars, hotVars, envVars
<1>3. /\ writer.at = "failed"
      /\ writer' = [writer EXCEPT !.at = "clean"]
      /\ IndexRemove(writer.h)
  BY DEF WriterForgets, At, Ready, Returns, WriterAt
<1>4. InHot' = InHot /\ Basis' = Basis /\ \A h : InQueue(h)' = InQueue(h)
  BY <1>2 DEF InHot, Basis, InQueue
<1>5. writer \in Writers /\ writer.at \in {"failed"} /\ writer.h \in Hash
  BY <1>1, <1>3, Basics DEF Shapes
<1>6. /\ writer'.at = "clean" /\ writer'.h = writer.h /\ writer'.k = writer.k /\ writer' \in Writers
      /\ Busy /\ Busy'
  BY <1>3, <1>5 DEF Writers, Stages, Busy
<1>7. \A h : Put(h)' = Put(h) /\ Pending(h)' = Pending(h) /\ Underway(h)' = Underway(h)
  BY <1>2, <1>4, <1>6 DEF Put, Pending, Underway, Flushed
<1>8. /\ writer.k \in Nat /\ restarts \in Nat /\ writer.k <= restarts /\ level[writer.h] \in {0, writer.k}
      /\ writer.k \in Level /\ writer.k + 1 \in Level /\ writer.k + 1 # 0
      /\ writer.k + 1 # level[writer.h] /\ writer.k # writer.k + 1
  <2>1. writer.k \in Level /\ level[writer.h] \in Level
    BY <1>1, <1>5, Basics
  <2>2. restarts \in 0 .. MaxRestarts /\ MaxRestarts \in Nat /\ writer.k <= restarts
          /\ level[writer.h] \in {0, writer.k}
    BY <1>1, <1>6, Constants DEF Shapes, Levels, OfLevel
  <2>. QED
    BY <2>1, <2>2 DEF Level

<1>9. /\ index' \in Seq(Hash) /\ IsInjective(index') /\ Indexed' = Indexed \ {writer.h}
      /\ total' = SumOf(fileSize, Indexed') /\ total' <= total
      /\ SumOf(Basis, Indexed') <= SumOf(Basis, Indexed)
      /\ {SumOf(Basis, Indexed), SumOf(Basis, Indexed'), total, total'} \subseteq Nat
  BY <1>1, <1>3, <1>5, RemoveFacts DEF Sizes
<1>21. Shapes'
  BY <1>1, <1>2, <1>4, <1>6, <1>9 DEF Shapes
<1>22. Thread'
  <2>1. proc'.at = "add" => Flushed' \notin Indexed'
    BY <1>1, <1>2, <1>9 DEF Thread, Flushed
  <2>. QED
    BY <1>1, <1>2, <1>5, <1>6, <1>9, <2>1 DEF Thread
<1>23. Levels'
  BY <1>1, <1>2, <1>4, <1>6, <1>8 DEF Levels, OfLevel
<1>24. Sizes'
  <2>1. \/ total' <= scanned /\ \A h \in Indexed' : fileSize[h] = WrittenSize[h]
        \/ SumOf(Basis, Indexed') <= Ceiling + Largest
    BY <1>1, <1>9, Bounds DEF Sizes, Shapes
  <2>2. proc.at = "add" \/ (proc.at = "save" /\ ~hot_enabled) => SumOf(Basis, Indexed') <= Ceiling
    BY <1>1, <1>9, Bounds DEF Sizes
  <2>3. SizesExact' /\ HotBounded'
    BY <1>1, <1>2, <1>4, <1>9 DEF Sizes, SizesExact, HotBounded
  <2>. QED
    BY <1>1, <1>2, <1>4, <1>9, <2>1, <2>2, <2>3 DEF Sizes
<1>25. Trail'
  <2>1. LastQueued'
    BY <1>1, <1>2, <1>7, <1>9 DEF Trail, LastQueued
  <2>2. LastWritten'
    BY <1>2, <1>6, <1>9 DEF LastWritten
  <2>3. OnItsWay'
    BY <1>1, <1>2, <1>4, <1>7, <1>9, Basics DEF Trail, OnItsWay, Complete
  <2>. QED
    BY <2>1, <2>2, <2>3 DEF Trail
<1>26. BufferExact'
  <2>1. ~hot_enabled => ~InQueue(writer.h)' /\ writer'.k = 0
    <3>1. ~hot_enabled => ~InQueue(writer.h) /\ writer.k = 0
      BY <1>1, <1>6 DEF BufferExact
    <3>. QED
      BY <1>2, <1>6, <3>1 DEF InQueue
  <2>. QED
    BY <1>1, <1>2, <1>4, <1>6, <2>1 DEF BufferExact
<1>27. FilesOnce'
  BY <1>1, <1>2, <1>4, <1>3, <1>6, <1>9 DEF FilesOnce, Complete
<1>28. Accounted'
  BY <1>1, <1>2, <1>4, <1>3, <1>6, <1>9 DEF Accounted, FilesCounted, Complete
<1>29. BufferKept'
  BY <1>1, <1>2, <1>4, <1>3, <1>6, <1>9 DEF BufferKept, Loadable, Complete
<1>. QED
  BY <1>21, <1>22, <1>23, <1>24, <1>25, <1>26, <1>27, <1>28, <1>29 DEF SSDInv

LEMMA WriterCleansStep == SSDInv /\ WriterCleans => SSDInv'
<1>. SUFFICES ASSUME SSDInv, WriterCleans PROVE SSDInv'
  OBVIOUS
<1>1. /\ Shapes /\ Thread /\ Levels /\ Sizes /\ Trail /\ BufferExact /\ FilesOnce
      /\ Accounted /\ BufferKept
  BY DEF SSDInv
<1>2. /\ index' = index /\ fileSize' = fileSize /\ level' = level /\ total' = total
      /\ hot' = hot /\ hotTotal' = hotTotal /\ writeQueue' = writeQueue
      /\ shutdown' = shutdown /\ proc' = proc /\ promise' = promise
      /\ hot_enabled' = hot_enabled /\ phase' = phase /\ scanned' = scanned
      /\ restarts' = restarts /\ failed' = failed /\ removed' = removed
  BY DEF WriterCleans, indexVars, hotVars, envVars
<1>3. /\ writer.at = "clean"
      /\ writer' = [writer EXCEPT !.at = "finish"]
      /\ files' = [files EXCEPT ![Temp] = "none", ![Final] = "none"]
  BY DEF WriterCleans, At, Ready, Returns, WriterAt
<1>4. /\ Indexed' = Indexed /\ InHot' = InHot /\ Basis' = Basis
      /\ \A h : InQueue(h)' = InQueue(h)
  BY <1>2 DEF Indexed, InHot, Basis, InQueue
<1>5. writer \in Writers /\ writer.at \in {"clean"} /\ writer.h \in Hash
  BY <1>1, <1>3, Basics DEF Shapes
<1>6. /\ writer'.at = "finish" /\ writer'.h = writer.h /\ writer'.k = writer.k /\ writer' \in Writers
      /\ Busy /\ Busy'
  BY <1>3, <1>5 DEF Writers, Stages, Busy
<1>7. \A h : Put(h)' = Put(h) /\ Pending(h)' = Pending(h) /\ Underway(h)' = Underway(h)
  BY <1>2, <1>4, <1>6 DEF Put, Pending, Underway, Flushed
<1>8. /\ writer.k \in Nat /\ restarts \in Nat /\ writer.k <= restarts /\ level[writer.h] \in {0, writer.k}
      /\ writer.k \in Level /\ writer.k + 1 \in Level /\ writer.k + 1 # 0
      /\ writer.k + 1 # level[writer.h] /\ writer.k # writer.k + 1
  <2>1. writer.k \in Level /\ level[writer.h] \in Level
    BY <1>1, <1>5, Basics
  <2>2. restarts \in 0 .. MaxRestarts /\ MaxRestarts \in Nat /\ writer.k <= restarts
          /\ level[writer.h] \in {0, writer.k}
    BY <1>1, <1>6, Constants DEF Shapes, Levels, OfLevel
  <2>. QED
    BY <2>1, <2>2 DEF Level

<1>9. /\ files' \in [Hash \X Level -> {"none", "partial", "complete"}]
      /\ \A h \in Hash, k \in Level : files'[<<h, k>>] =
           IF h = writer.h /\ k \in {writer.k, writer.k + 1} THEN "none" ELSE files[<<h, k>>]
  <2>1. <<writer.h, writer.k>> \in Hash \X Level /\ <<writer.h, writer.k + 1>> \in Hash \X Level
    BY <1>5, <1>8
  <2>. QED
    BY <1>1, <1>3, <2>1 DEF Shapes, Final, Temp

<1>10. /\ \A h \in Hash, k \in Level : files'[<<h, k>>] \in {"none", files[<<h, k>>]}
       /\ \A h \in Hash, k \in Level : h # writer.h => files'[<<h, k>>] = files[<<h, k>>]
       /\ files'[<<writer.h, writer.k>>] = "none"
  BY <1>5, <1>8, <1>9
<1>21. Shapes'
  BY <1>1, <1>2, <1>4, <1>6, <1>9 DEF Shapes
<1>22. Thread'
  <2>1. proc'.at = "add" => Flushed' \notin Indexed'
    BY <1>1, <1>2, <1>4 DEF Thread, Flushed
  <2>. QED
    BY <1>1, <1>2, <1>4, <1>5, <1>6, <2>1 DEF Thread
<1>23. Levels'
  <2>1. \A h \in Hash, k \in Level : files'[<<h, k>>] # "none" => files[<<h, k>>] # "none"
    BY <1>10
  <2>2. \A h \in Hash : files'[<<h, 0>>] # "partial" /\ files'[<<h, level[h]>>] # "partial"
    BY <1>1, <1>10, Basics DEF Levels
  <2>3. \A h \in Hash, k \in Level : files'[<<h, k>>] # "none" => k <= restarts + 1
    BY <1>1, <2>1 DEF Levels
  <2>. QED
    BY <1>1, <1>2, <1>4, <1>6, <1>8, <2>2, <2>3 DEF Levels, OfLevel
<1>24. Sizes'
  BY <1>1, <1>2, <1>4 DEF Sizes, SizesExact, HotBounded
<1>25. Trail'
  <2>1. LastQueued'
    BY <1>1, <1>2, <1>4, <1>7 DEF Trail, LastQueued

  <2>2. LastWritten'
    <3>1. /\ level[writer.h] # writer.k /\ writer.h \in Indexed => Pending(writer.h)
          /\ writer.h \in Indexed => Pending(writer.h)
      BY <1>1, <1>3, <1>6 DEF Trail, LastWritten
    <3>2. Pending(writer.h) => Pending(writer.h)'
      BY <1>2, <1>6 DEF Pending, InQueue, Put, Flushed
    <3>. QED
      BY <1>2, <1>4, <1>6, <3>1, <3>2 DEF LastWritten
  <2>3. OnItsWay'
    <3>1. \A h \in Hash : h = writer.h => Underway(h)'
      BY <1>6 DEF Underway
    <3>2. \A h \in Hash : h # writer.h /\ Complete(h, level[h]) => Complete(h, level[h])'
      BY <1>2, <1>10, Basics DEF Complete
    <3>. QED
      BY <1>1, <1>2, <1>4, <1>7, <3>1, <3>2, Basics DEF Trail, OnItsWay
  <2>. QED
    BY <2>1, <2>2, <2>3 DEF Trail
<1>26. BufferExact'
  <2>1. ~hot_enabled => ~InQueue(writer.h)' /\ writer'.k = 0
    <3>1. ~hot_enabled => ~InQueue(writer.h) /\ writer.k = 0
      BY <1>1, <1>6 DEF BufferExact
    <3>. QED
      BY <1>2, <1>6, <3>1 DEF InQueue
  <2>. QED
    BY <1>1, <1>2, <1>4, <1>6, <2>1 DEF BufferExact
<1>27. FilesOnce'
  <2>1. SUFFICES ASSUME ~hot_enabled PROVE FilesOnce'
    BY <1>2 DEF FilesOnce
  <2>2. \A h \in Hash, k \in Level : k > 1 => files'[<<h, k>>] = "none"
    BY <1>1, <1>10, <2>1 DEF FilesOnce
  <2>3. \A h \in Hash : ~(files'[<<h, 0>>] = "complete" /\ files'[<<h, 1>>] = "complete")
    BY <1>1, <1>10, <2>1, Constants DEF FilesOnce, Complete
  <2>4. \A h \in Hash : InQueue(h)' => files'[<<h, 0>>] = "none"
    BY <1>1, <1>4, <1>10, <2>1, Constants DEF FilesOnce
  <2>5. \A h \in Indexed : level[h] # 0 => files'[<<h, 0>>] = "none"
    BY <1>1, <1>10, <2>1, Basics DEF FilesOnce
  <2>. QED
    BY <1>1, <1>2, <1>4, <1>6, <2>2, <2>3, <2>4, <2>5 DEF FilesOnce, Complete
<1>28. Accounted'
  <2>1. ~hot_enabled => files'[<<writer.h, 0>>] = "none"
    BY <1>1, <1>6, <1>10 DEF BufferExact
  <2>2. ASSUME ~hot_enabled, NEW h \in Hash, files'[<<h, 0>>] = "complete"
        PROVE  h \in Indexed \/ writer.h = h \/ <<h, 0>> \in ToSet(proc.unlinks)
    BY <1>1, <1>10, <2>2, Constants DEF Accounted, FilesCounted, Complete
  <2>. QED
    BY <1>2, <1>4, <1>6, <2>1, <2>2 DEF Accounted, FilesCounted, Complete
<1>29. BufferKept'
  <2>1. ASSUME ~hot_enabled, NEW h \in Hash \ (failed \cup removed), Loadable(h) PROVE Loadable(h)'
    <3>1. h # writer.h \/ h \in InHot
      BY <1>1, <1>3, <1>5, <2>1 DEF BufferExact
    <3>2. level[h] \in Level
      BY Basics
    <3>. QED
      BY <1>2, <1>4, <1>10, <2>1, <3>1, <3>2 DEF Complete, Loadable
  <2>2. proc'.at = "missing" /\ ~hot_enabled => ~Complete(proc.h, level[proc.h])'
    <3>1. ASSUME proc.at = "missing", ~hot_enabled
          PROVE  proc.h \in Hash /\ ~Complete(proc.h, level[proc.h]) /\ level[proc.h] \in Level
      BY <1>1, <3>1, Basics DEF BufferKept, Thread
    <3>. QED
      BY <1>2, <1>10, <3>1 DEF Complete
  <2>. QED
    BY <1>1, <1>2, <1>4, <1>6, <2>1, <2>2 DEF BufferKept
<1>. QED
  BY <1>21, <1>22, <1>23, <1>24, <1>25, <1>26, <1>27, <1>28, <1>29 DEF SSDInv

LEMMA WriterFinishesStep == SSDInv /\ WriterFinishes => SSDInv'
<1>. SUFFICES ASSUME SSDInv, WriterFinishes PROVE SSDInv'
  OBVIOUS
<1>1. /\ Shapes /\ Thread /\ Levels /\ Sizes /\ Trail /\ BufferExact /\ FilesOnce
      /\ Accounted /\ BufferKept
  BY DEF SSDInv
<1>2. /\ index' = index /\ fileSize' = fileSize /\ level' = level /\ total' = total
      /\ hotTotal' = hotTotal /\ files' = files /\ writeQueue' = writeQueue
      /\ shutdown' = shutdown /\ proc' = proc /\ promise' = promise
      /\ hot_enabled' = hot_enabled /\ phase' = phase /\ scanned' = scanned
      /\ restarts' = restarts /\ failed' = failed /\ removed' = removed
  BY DEF WriterFinishes, indexVars, hotVars, envVars
<1>3. /\ writer.at = "finish"
      /\ writer' = Waiting
      /\ hot' = IF hot_enabled THEN hot ELSE RemoveFirst(hot, writer.h)
  BY DEF WriterFinishes, At, Ready, Returns, WriterAt
<1>4. Indexed' = Indexed /\ Basis' = Basis /\ \A h : InQueue(h)' = InQueue(h)
  BY <1>2 DEF Indexed, Basis, InQueue
<1>5. writer \in Writers /\ writer.h \in Hash /\ Busy /\ hot_enabled \in BOOLEAN
  BY <1>1, <1>3, Basics, Known DEF Shapes, Busy
<1>6. /\ writer'.at = "idle" /\ writer'.h = None /\ writer'.k = 0 /\ writer' \in Writers
      /\ ~Busy' /\ None \notin Hash
  BY <1>3, IdleProc, Constants DEF Waiting, Busy
<1>7. /\ hot' \in Seq(Hash) /\ IsInjective(hot')
      /\ InHot' = IF hot_enabled THEN InHot ELSE InHot \ {writer.h}
  <2>1. hot \in Seq(Hash) /\ IsInjective(hot)
    BY <1>1 DEF Shapes
  <2>2. CASE hot_enabled
    BY <1>3, <2>1, <2>2 DEF InHot
  <2>3. CASE ~hot_enabled
    <3>1. hot' = RemoveFirst(hot, writer.h)
      BY <1>3, <2>3
    <3>2. hot' \in Seq(Hash) /\ IsInjective(hot') /\ ToSet(hot') = ToSet(hot) \ {writer.h}
      BY <2>1, <3>1, RemoveOne
    <3>. QED
      BY <2>3, <3>2 DEF InHot
  <2>. QED
    BY <1>5, <2>2, <2>3
<1>8. \A h : Put(h)' = Put(h) /\ Pending(h)' = Pending(h)
  BY <1>2, <1>4 DEF Put, Pending, Flushed
<1>9. \A h \in Hash : Pending(h) \/ (h # writer.h /\ Underway(h)) => Underway(h)'
  <2>1. \A h \in Hash : InQueue(h) \/ h \in ToSet(proc.flush) => Underway(h)'
    BY <1>2 DEF Underway, InQueue
  <2>2. \A h \in Hash : Put(h) => h \in ToSet(proc.flush)
    BY <1>1, FlushFacts DEF Put, Thread
  <2>3. \A h \in Hash : h # writer.h /\ Underway(h) => InQueue(h) \/ h \in ToSet(proc.flush)
    BY DEF Underway, InQueue
  <2>. QED
    BY <2>1, <2>2, <2>3 DEF Pending
<1>10. writer.h \in Indexed \ removed => Complete(writer.h, level[writer.h]) \/ Pending(writer.h)
  BY <1>1, <1>3 DEF Trail, LastWritten
<1>21. Shapes'
  BY <1>1, <1>2, <1>4, <1>6, <1>7 DEF Shapes
<1>22. Thread'
  <2>1. proc'.at = "add" => Flushed' \notin Indexed'
    BY <1>1, <1>2, <1>4 DEF Thread, Flushed
  <2>2. phase # "closed"
    BY <1>1, <1>3 DEF Thread
  <2>. QED
    BY <1>1, <1>2, <1>4, <1>5, <1>6, <2>1, <2>2 DEF Thread
<1>23. Levels'
  BY <1>1, <1>2, <1>4, <1>6 DEF Levels, OfLevel
<1>24. Sizes'
  BY <1>1, <1>2, <1>4, <1>3, <1>7 DEF Sizes, SizesExact, HotBounded
<1>25. Trail'
  <2>1. LastQueued'
    BY <1>1, <1>2, <1>4, <1>8 DEF Trail, LastQueued
  <2>2. LastWritten'
    BY <1>6 DEF LastWritten
  <2>3. OnItsWay'
    <3>1. ASSUME NEW h \in Indexed \ removed
          PROVE  Complete(h, level[h]) \/ Underway(h)' \/ (h \in InHot' /\ phase = "open")
      <4>1. h \in Hash
        BY Basics
      <4>2. CASE h = writer.h
        BY <1>9, <1>10, <3>1, <4>1, <4>2
      <4>3. CASE h # writer.h
        BY <1>1, <1>7, <1>9, <3>1, <4>1, <4>3 DEF Trail, OnItsWay
      <4>. QED
        BY <4>2, <4>3
    <3>. QED
      BY <1>2, <1>4, <3>1 DEF OnItsWay, Complete
  <2>. QED
    BY <2>1, <2>2, <2>3 DEF Trail
<1>26. BufferExact'
  <2>1. ~hot_enabled => ~InQueue(writer.h)
    BY <1>1, <1>5 DEF BufferExact
  <2>2. ~hot_enabled => \A h \in Hash : h \in InHot' <=> InQueue(h)' \/ writer'.h = h
    BY <1>1, <1>4, <1>6, <1>7, <2>1 DEF BufferExact
  <2>. QED
    BY <1>1, <1>2, <1>6, <2>2 DEF BufferExact
<1>27. FilesOnce'
  BY <1>1, <1>2, <1>4, <1>6 DEF FilesOnce, Complete
<1>28. Accounted'
  BY <1>1, <1>2, <1>4, <1>3, <1>5, <1>6 DEF Accounted, FilesCounted, Complete
<1>29. BufferKept'
  <2>1. ASSUME ~hot_enabled, NEW h \in Hash \ (failed \cup removed), promise[h] = "yes"
        PROVE  h \in Indexed /\ (h \in InHot' \/ Complete(h, level[h]))
    <3>1. h \in Indexed /\ Loadable(h)
      BY <1>1, <2>1 DEF BufferKept
    <3>2. CASE h = writer.h
      <4>1. ~InQueue(h) /\ proc.flush = <<>> /\ ~Put(h)
        BY <1>1, <1>5, <2>1, <3>2 DEF BufferExact, Thread, Put
      <4>. QED
        BY <1>10, <2>1, <3>1, <3>2, <4>1 DEF Pending
    <3>3. CASE h # writer.h
      BY <1>7, <2>1, <3>1, <3>3 DEF Loadable
    <3>. QED
      BY <3>2, <3>3
  <2>. QED
    BY <1>1, <1>2, <1>4, <1>6, <1>7, <2>1 DEF BufferKept, Loadable, Complete
<1>. QED
  BY <1>21, <1>22, <1>23, <1>24, <1>25, <1>26, <1>27, <1>28, <1>29 DEF SSDInv


-----------------------------------------------------------------------------
(* Removals by others, and restarts                                        *)

LEMMA OtherRemovesStep ==
  ASSUME SSDInv, NEW h \in Hash, OtherRemoves(h)
  PROVE  SSDInv'
<1>1. /\ Shapes /\ Thread /\ Levels /\ Sizes /\ Trail /\ BufferExact /\ FilesOnce
      /\ Accounted /\ BufferKept
  BY DEF SSDInv
<1>2. /\ index' = index /\ fileSize' = fileSize /\ level' = level /\ total' = total
      /\ hot' = hot /\ hotTotal' = hotTotal /\ writeQueue' = writeQueue
      /\ shutdown' = shutdown /\ writer' = writer /\ proc' = proc /\ promise' = promise
      /\ hot_enabled' = hot_enabled /\ phase' = phase /\ scanned' = scanned
      /\ restarts' = restarts /\ failed' = failed
  BY DEF OtherRemoves, indexVars, hotVars, envVars
<1>3. /\ Complete(h, 0)
      /\ removed' = removed \cup {h}
      /\ files' = [files EXCEPT ![<<h, 0>>] = "none"]
  BY DEF OtherRemoves, At, Ready, Returns, WriterAt
<1>4. /\ Indexed' = Indexed /\ InHot' = InHot /\ Basis' = Basis /\ Busy' = Busy
      /\ \A g : InQueue(g)' = InQueue(g)
      /\ \A g : Put(g)' = Put(g) /\ Pending(g)' = Pending(g) /\ Underway(g)' = Underway(g)
  BY <1>2 DEF Indexed, InHot, Basis, Busy, InQueue, Put, Pending, Underway, Flushed
<1>5. /\ files' \in [Hash \X Level -> {"none", "partial", "complete"}]
      /\ \A x \in Hash, k \in Level : files'[<<x, k>>] =
           IF x = h /\ k = 0 THEN "none" ELSE files[<<x, k>>]
  <2>1. <<h, 0>> \in Hash \X Level
    BY Constants
  <2>. QED
    BY <1>1, <1>3, <2>1 DEF Shapes
<1>6. /\ \A x \in Hash, k \in Level : files'[<<x, k>>] \in {"none", files[<<x, k>>]}
      /\ \A x \in Hash, k \in Level : x # h => files'[<<x, k>>] = files[<<x, k>>]
  BY <1>5
<1>21. Shapes'
  BY <1>1, <1>2, <1>4, <1>3, <1>5 DEF Shapes
<1>22. Thread'
  <2>1. proc'.at = "add" => Flushed' \notin Indexed'
    BY <1>1, <1>2, <1>4 DEF Thread, Flushed
  <2>. QED
    BY <1>1, <1>2, <1>4, <2>1 DEF Thread
<1>23. Levels'
  <2>1. \A x \in Hash, k \in Level : files'[<<x, k>>] # "none" => files[<<x, k>>] # "none"
    BY <1>6
  <2>2. \A x \in Hash : files'[<<x, 0>>] # "partial" /\ files'[<<x, level[x]>>] # "partial"
    BY <1>1, <1>6, Basics DEF Levels
  <2>3. \A x \in Hash, k \in Level : files'[<<x, k>>] # "none" => k <= restarts + 1
    BY <1>1, <2>1 DEF Levels
  <2>. QED
    BY <1>1, <1>2, <1>4, <2>2, <2>3 DEF Levels, OfLevel
<1>24. Sizes'
  BY <1>1, <1>2, <1>4 DEF Sizes, SizesExact, HotBounded
<1>25. Trail'
  <2>1. LastQueued'
    BY <1>1, <1>2, <1>4 DEF Trail, LastQueued
  <2>2. \A x \in Hash : x # h => (Complete(x, level[x])' <=> Complete(x, level[x]))
    BY <1>2, <1>6, Basics DEF Complete
  <2>3. LastWritten'
    <3>1. ASSUME writer.at \in {"check", "finish"}, writer.h \in Indexed \ removed'
          PROVE  Complete(writer.h, level[writer.h])' \/ Pending(writer.h)
      <4>1. /\ writer.h \in Hash /\ writer.h # h /\ writer'.h = writer.h
            /\ Complete(writer.h, level[writer.h]) \/ Pending(writer.h)
        BY <1>1, <1>2, <1>3, <3>1, Basics DEF Trail, LastWritten
      <4>. QED
        BY <1>2, <1>6, <4>1, Basics DEF Complete
    <3>2. Pending(writer.h)' <=> Pending(writer.h)
      BY <1>2 DEF Pending, InQueue, Put, Flushed
    <3>. QED
      BY <1>1, <1>2, <1>4, <3>1, <3>2 DEF Trail, LastWritten
  <2>4. OnItsWay'
    BY <1>1, <1>2, <1>3, <1>4, <2>2, Basics DEF Trail, OnItsWay
  <2>. QED
    BY <2>1, <2>3, <2>4 DEF Trail
<1>26. BufferExact'
  BY <1>1, <1>2, <1>4 DEF BufferExact
<1>27. FilesOnce'
  <2>1. SUFFICES ASSUME ~hot_enabled PROVE FilesOnce'
    BY <1>2 DEF FilesOnce
  <2>2. \A x \in Hash, k \in Level : k > 1 => files'[<<x, k>>] = "none"
    BY <1>1, <1>6, <2>1 DEF FilesOnce
  <2>3. \A x \in Hash : ~(files'[<<x, 0>>] = "complete" /\ files'[<<x, 1>>] = "complete")
    BY <1>1, <1>6, <2>1, Constants DEF FilesOnce, Complete
  <2>4. \A x \in Hash : InQueue(x)' => files'[<<x, 0>>] = "none"
    BY <1>1, <1>4, <1>6, <2>1, Constants DEF FilesOnce
  <2>5. \A x \in Indexed : level[x] # 0 => files'[<<x, 0>>] = "none"
    BY <1>1, <1>6, <2>1, Basics DEF FilesOnce
  <2>6. writer.at \in {"write", "fill", "rename", "failed", "clean"} => files'[<<writer.h, 0>>] = "none"
    BY <1>1, <1>6, <2>1, Basics DEF FilesOnce
  <2>. QED
    BY <1>1, <1>2, <1>4, <2>2, <2>3, <2>4, <2>5, <2>6 DEF FilesOnce, Complete
<1>28. Accounted'
  <2>1. \A x \in Hash : files'[<<x, 0>>] = "complete" => files[<<x, 0>>] = "complete"
    BY <1>6, Constants
  <2>2. writer.at = "finish" => writer.h \in Hash
    BY Basics
  <2>. QED
    BY <1>1, <1>2, <1>4, <2>1, <2>2 DEF Accounted, FilesCounted, Complete
<1>29. BufferKept'
  <2>1. \A x \in Hash : x # h /\ Loadable(x) => Loadable(x)'
    BY <1>2, <1>4, <1>6, Basics DEF Complete, Loadable
  <2>2. proc'.at = "missing" /\ ~hot_enabled => ~Complete(proc.h, level[proc.h])'
    <3>1. ASSUME proc.at = "missing", ~hot_enabled
          PROVE  proc.h \in Hash /\ ~Complete(proc.h, level[proc.h]) /\ level[proc.h] \in Level
      BY <1>1, <3>1, Basics DEF BufferKept, Thread
    <3>. QED
      BY <1>2, <1>6, <3>1 DEF Complete
  <2>. QED
    BY <1>1, <1>2, <1>3, <1>4, <2>1, <2>2 DEF BufferKept
<1>. QED
  BY <1>21, <1>22, <1>23, <1>24, <1>25, <1>26, <1>27, <1>28, <1>29 DEF SSDInv

LEMMA RestartStep ==
  ASSUME SSDInv, NEW order \in SetToSeqs(Found), NEW which \in [Found -> Level], Restart(order, which)
  PROVE  SSDInv'
<1>1. /\ Shapes /\ Thread /\ Levels /\ Sizes /\ Trail /\ BufferExact /\ FilesOnce
      /\ Accounted /\ BufferKept
  BY DEF SSDInv
<1>2. /\ files' = files /\ hot_enabled' = hot_enabled /\ failed' = failed
      /\ removed' = removed
  BY DEF Restart, indexVars, hotVars, envVars
<1>3. /\ restarts < MaxRestarts /\ restarts' = restarts + 1 /\ index' = order
      /\ \A h \in Found : Complete(h, which[h])
      /\ level' = [h \in Hash |-> IF h \in Found THEN which[h] ELSE 0]
      /\ fileSize' = [h \in Hash |-> IF h \in Found THEN WrittenSize[h] ELSE 0]
      /\ total' = SumOf(WrittenSize, ToSet(order)) /\ scanned' = total'
      /\ promise' = [h \in Hash |->
             IF promise[h] = "yes" /\ (h \in Found \/ phase = "closed") THEN "yes" ELSE "no"]
      /\ hot' = <<>> /\ hotTotal' = 0 /\ writeQueue' = <<>> /\ shutdown' = FALSE
      /\ writer' = Waiting /\ phase' = "open" /\ proc' = Idle
  BY DEF Restart, At, Ready, Returns, WriterAt
<1>5. IsFiniteSet(Found) /\ Found \in SUBSET Hash
  <2>1. Found \subseteq Hash /\ IsFiniteSet(Hash)
    BY SSDCacheAssumption DEF Found
  <2>. QED
    BY <2>1, FS_Subset
<1>6. index' \in Seq(Hash) /\ IsInjective(index') /\ Indexed' = Found
  <2>1. order \in Seq(Found) /\ IsInjective(order) /\ ToSet(order) = Found
    BY <1>5, AllInOrder
  <2>2. order \in Seq(Hash)
    BY <1>5, <2>1
  <2>. QED
    BY <1>3, <2>1, <2>2 DEF Indexed
<1>7. /\ proc'.at = "idle" /\ proc'.h = None /\ proc'.unlinks = <<>> /\ proc'.flush = <<>>
      /\ proc' \in Procs /\ ToSet(proc'.unlinks) = {} /\ ToSet(proc'.flush) = {}
  BY <1>3, IdleProc DEF Idle, ToSet
<1>8. /\ writer'.at = "idle" /\ writer'.h = None /\ writer'.k = 0 /\ writer' \in Writers
      /\ ~Busy' /\ None \notin Hash
  BY <1>3, IdleProc, Constants DEF Waiting, Busy
<1>9. hot' \in Seq(Hash) /\ IsInjective(hot') /\ InHot' = {}
  BY <1>3 DEF IsInjective, InHot, ToSet
<1>10. /\ writeQueue' \in Seq(Item) /\ Len(writeQueue') = 0 /\ 1 .. Len(writeQueue') = {}
       /\ \A h : ~InQueue(h)'
  BY <1>3 DEF InQueue
<1>11. /\ level' \in [Hash -> Level]
       /\ \A h \in Found : level'[h] = which[h] /\ files[<<h, level'[h]>>] = "complete"
       /\ \A h \in Hash \ Found : level'[h] = 0
  BY <1>3, <1>5, Constants DEF Complete
<1>12. /\ fileSize' \in [Hash -> Nat]
       /\ \A h \in Found : fileSize'[h] = WrittenSize[h] /\ fileSize'[h] # 0
       /\ \A h \in Hash \ Found : fileSize'[h] = 0
  BY <1>3, <1>5, SizeTypes
<1>13. total' = SumOf(WrittenSize, Indexed') /\ total' \in Nat /\ scanned' \in Nat
  <2>1. ToSet(order) = Indexed' /\ Indexed' \in SUBSET Hash
    BY <1>3, <1>5, <1>6 DEF Indexed
  <2>2. \A h \in Hash : WrittenSize[h] \in Nat
    BY SizeTypes
  <2>3. SumOf(WrittenSize, Indexed') \in Nat
    BY <2>1, <2>2, SumFacts
  <2>. QED
    BY <1>3, <2>1, <2>3
<1>14. promise' \in [Hash -> {"yes", "no", "buffer"}]
  BY <1>3
<1>15. restarts \in Nat /\ restarts' \in 0 .. MaxRestarts
  BY <1>1, <1>3, Constants DEF Shapes
<1>21. Shapes'
  <2>1. QueueSize \in Nat /\ phase' \in {"open", "closing", "closed"} /\ shutdown' \in BOOLEAN
    BY <1>3, Constants
  <2>. QED
    BY <1>1, <1>2, <1>6, <1>7, <1>8, <1>9, <1>10, <1>11, <1>12, <1>13, <1>14, <1>15, <2>1 DEF Shapes
<1>22. Thread'
  BY <1>1, <1>2, <1>3, <1>7, <1>8, <1>9, <1>10 DEF Thread
<1>23. Levels'
  <2>1. \A h \in Hash, k \in Level : files[<<h, k>>] # "none" => k <= restarts + 1
    BY <1>1 DEF Levels
  <2>2. \A h \in Hash : level'[h] <= restarts'
    <3>1. ASSUME NEW h \in Found PROVE level'[h] <= restarts + 1
      <4>1. h \in Hash /\ level'[h] \in Level /\ files[<<h, level'[h]>>] # "none"
        BY <1>5, <1>11
      <4>. QED
        BY <2>1, <4>1
    <3>2. restarts' = restarts + 1 /\ 0 <= restarts'
      BY <1>3, <1>15
    <3>3. ASSUME NEW h \in Hash PROVE level'[h] <= restarts'
      <4>1. CASE h \in Found
        BY <3>1, <3>2, <4>1
      <4>2. CASE h \notin Found
        BY <1>11, <3>2, <4>2
      <4>. QED
        BY <4>1, <4>2
    <3>. QED
      BY <3>3
  <2>3. \A h \in Hash : files[<<h, 0>>] # "partial" /\ files[<<h, level'[h]>>] # "partial"
    BY <1>1, <1>11 DEF Levels
  <2>4. \A h \in Hash, k \in Level : files[<<h, k>>] # "none" => k <= restarts' + 1
    BY <1>3, <1>15, <2>1, Constants
  <2>. QED
    BY <1>2, <1>8, <1>10, <2>2, <2>3, <2>4 DEF Levels
<1>24. Sizes'
  <2>1. total' = SumOf(fileSize', Indexed')
    <3>1. \A h \in Indexed' : WrittenSize[h] = fileSize'[h] /\ WrittenSize[h] \in Nat
      BY <1>5, <1>6, <1>12, SizeTypes
    <3>2. SumOf(WrittenSize, Indexed') = SumOf(fileSize', Indexed')
      BY <1>5, <1>6, <3>1, SumSame
    <3>. QED
      BY <1>13, <3>2
  <2>2. hotTotal' = SumOf(RawSize, InHot')
    <3>1. \A h \in Hash : RawSize[h] \in Nat
      BY SizeTypes
    <3>2. SumOf(RawSize, {}) = 0
      BY <3>1, SumFacts
    <3>. QED
      BY <1>3, <1>9, <3>2
  <2>3. SizesExact' /\ HotBounded'
    BY <1>2, <1>3, <2>1, <2>2, Constants DEF SizesExact, HotBounded
  <2>4. \A h \in Hash : fileSize'[h] \in {0, Estimate(h), WrittenSize[h]}
    BY <1>12
  <2>5. total' <= scanned' /\ \A h \in Indexed' : fileSize'[h] = WrittenSize[h]
    BY <1>3, <1>6, <1>12, <1>13
  <2>. QED
    BY <1>3, <1>6, <1>7, <1>9, <1>12, <2>3, <2>4, <2>5 DEF Sizes
<1>25. Trail'
  <2>1. LastQueued'
    BY <1>10 DEF LastQueued
  <2>2. LastWritten'
    BY <1>8 DEF LastWritten
  <2>3. OnItsWay'
    BY <1>2, <1>6, <1>11 DEF OnItsWay, Complete
  <2>. QED
    BY <2>1, <2>2, <2>3 DEF Trail
<1>26. BufferExact'
  BY <1>1, <1>2, <1>7, <1>8, <1>9, <1>10 DEF BufferExact
<1>27. FilesOnce'
  <2>1. SUFFICES ASSUME ~hot_enabled PROVE FilesOnce'
    BY <1>2 DEF FilesOnce
  <2>2. \A h \in Indexed' : level'[h] # 0 => files'[<<h, 0>>] = "none"
    <3>1. SUFFICES ASSUME NEW h \in Found, which[h] # 0 PROVE files[<<h, 0>>] = "none"
      BY <1>2, <1>6, <1>11
    <3>2. which[h] \in Nat /\ which[h] \in Level /\ h \in Hash
      BY <1>5, Constants
    <3>3. which[h] = 1
      <4>1. ~(which[h] > 1)
        BY <1>1, <1>11, <2>1, <3>2 DEF FilesOnce
      <4>. QED
        BY <3>1, <3>2, <4>1
    <3>4. files[<<h, 0>>] # "complete"
      <4>1. files[<<h, 1>>] = "complete"
        BY <1>11, <3>1, <3>3
      <4>. QED
        BY <1>1, <2>1, <3>2, <4>1 DEF FilesOnce, Complete
    <3>5. files[<<h, 0>>] \in {"none", "partial", "complete"} /\ files[<<h, 0>>] # "partial"
      BY <1>1, <3>2, Known, Constants DEF Levels
    <3>. QED
      BY <3>4, <3>5
  <2>. QED
    BY <1>1, <1>2, <1>8, <1>10, <2>1, <2>2 DEF FilesOnce, Complete
<1>28. Accounted'
  <2>1. \A h \in Hash : Complete(h, 0) => h \in Found
    BY Constants DEF Found
  <2>. QED
    BY <1>2, <1>6, <1>8, <2>1 DEF Accounted, FilesCounted, Complete
<1>29. BufferKept'
  <2>1. ASSUME ~hot_enabled, NEW h \in Hash \ (failed \cup removed), promise'[h] = "yes"
        PROVE  h \in Found
    <3>1. promise[h] = "yes" /\ (h \in Found \/ phase = "closed")
      BY <1>3, <2>1
    <3>2. CASE phase = "closed"
      <4>1. hot = <<>> /\ Loadable(h) /\ level[h] \in Level
        BY <1>1, <2>1, <3>1, <3>2, Basics DEF Thread, BufferKept
      <4>2. InHot = {}
        BY <4>1 DEF InHot, ToSet
      <4>. QED
        BY <4>1, <4>2 DEF Loadable, Found
    <3>. QED
      BY <3>1, <3>2
  <2>. QED
    BY <1>2, <1>6, <1>7, <1>8, <1>11, <2>1 DEF BufferKept, Loadable, Complete
<1>. QED
  BY <1>21, <1>22, <1>23, <1>24, <1>25, <1>26, <1>27, <1>28, <1>29 DEF SSDInv

-----------------------------------------------------------------------------
(* The theorems                                                            *)

LEMMA StutterStep == SSDInv /\ UNCHANGED vars => SSDInv'
<1>. SUFFICES ASSUME SSDInv, UNCHANGED vars PROVE SSDInv'
  OBVIOUS
<1>1. /\ Shapes /\ Thread /\ Levels /\ Sizes /\ Trail /\ BufferExact /\ FilesOnce
      /\ Accounted /\ BufferKept
  BY DEF SSDInv
<1>2. /\ index' = index /\ fileSize' = fileSize /\ level' = level /\ total' = total /\ hot' = hot
      /\ hotTotal' = hotTotal /\ files' = files /\ writeQueue' = writeQueue
      /\ shutdown' = shutdown /\ writer' = writer /\ proc' = proc /\ promise' = promise
      /\ hot_enabled' = hot_enabled /\ phase' = phase /\ scanned' = scanned
      /\ restarts' = restarts /\ failed' = failed /\ removed' = removed
  BY DEF vars, indexVars, hotVars, envVars
<1>3. /\ Indexed' = Indexed /\ InHot' = InHot /\ Basis' = Basis /\ Busy' = Busy
      /\ Flushed' = Flushed /\ \A h : InQueue(h)' = InQueue(h)
  BY <1>2 DEF Indexed, InHot, Basis, Busy, Flushed, InQueue
<1>4. \A h : Put(h)' = Put(h) /\ Pending(h)' = Pending(h) /\ Underway(h)' = Underway(h)
  BY <1>2 DEF Put, Pending, Underway, InQueue, Flushed
<1>5. Shapes' /\ Thread' /\ Levels'
  BY <1>1, <1>2, <1>3 DEF Shapes, Thread, Levels, OfLevel
<1>6. Sizes'
  BY <1>1, <1>2, <1>3 DEF Sizes, SizesExact, HotBounded
<1>7. Trail'
  BY <1>1, <1>2, <1>3, <1>4 DEF Trail, LastQueued, LastWritten, OnItsWay, Complete
<1>8. BufferExact' /\ FilesOnce'
  BY <1>1, <1>2, <1>3 DEF BufferExact, FilesOnce, Complete
<1>9. Accounted' /\ BufferKept'
  BY <1>1, <1>2, <1>3 DEF Accounted, FilesCounted, BufferKept, Loadable, Complete
<1>. QED
  BY <1>5, <1>6, <1>7, <1>8, <1>9 DEF SSDInv

LEMMA SSDInvStep == SSDInv /\ [Next]_vars => SSDInv'
<1>. SUFFICES ASSUME SSDInv, [Next]_vars PROVE SSDInv'
  OBVIOUS
<1>1. ASSUME NEW h \in Hash, SaveBegins(h) \/ LoadHot(h) \/ LoadIndexed(h) \/ OtherRemoves(h)
      PROVE  SSDInv'
  BY <1>1, SaveBeginsStep, LoadHotStep, LoadIndexedStep, OtherRemovesStep
<1>2. CASE Saving
  <2>1. CASE SaveMakesRoom
    BY <2>1, SaveGoesOnStep, SaveEvictsStep
  <2>. QED
    BY <1>2, <2>1, SaveFoundStep, SaveGivesUpStep, SaveQueuesStep, SaveHotStep DEF Saving
<1>3. CASE Loading
  <2>1. CASE LoadReads
    BY <2>1, LoadPromotesStep, LoadReadsStep
  <2>. QED
    BY <1>3, <2>1, LoadForgetsStep, LoadFailsStep DEF Loading
<1>4. CASE Flushing
  <2>1. CASE FlushBegins
    BY <2>1, FlushFindsStep, FlushEvictsStep
  <2>2. CASE FlushPuts
    BY <2>2, FlushDropsStep, FlushQueuesStep
  <2>. QED
    BY <1>4, <2>1, <2>2, UnlinkStep, FlushAddsStep, FlushEndsStep DEF Flushing
<1>5. CASE Writing
  <2>1. CASE WriterTakes
    BY <2>1, WriterIsToldStep, WriterTakesStep
  <2>2. CASE WriteTemp
    <3>1. writer.at = "write" \/ writer.at = "fill"
      BY <2>2 DEF WriteTemp
    <3>. QED
      BY <2>2, <3>1, WriteStartsStep, WriteFillsStep
  <2>3. CASE Rename
    BY <2>3, RenameWorksStep, RenameFailsStep
  <2>4. CASE WriterChecks
    BY <2>4, WriterUpdatesStep, WriterMissesStep
  <2>. QED
    BY <1>5, <2>1, <2>2, <2>3, <2>4, WriterExitsStep, WriterDropsStep, WriterForgetsStep,
       WriterCleansStep, WriterFinishesStep DEF Writing
<1>6. CASE FlushSkips \/ WriteRaises \/ CloseBegins \/ CloseSignals \/ CloseEnds
  BY <1>6, FlushSkipsStep, WriteRaisesStep, CloseBeginsStep, CloseSignalsStep, CloseEndsStep
<1>7. ASSUME NEW order \in SetToSeqs(Found), NEW which \in [Found -> Level], Restart(order, which)
      PROVE  SSDInv'
  BY <1>7, RestartStep
<1>8. CASE UNCHANGED vars
  BY <1>8, StutterStep
<1>. QED
  BY <1>1, <1>2, <1>3, <1>4, <1>5, <1>6, <1>7, <1>8 DEF Next

\* The parts of the invariant always hold together.
LEMMA SSDInvAlways == Spec => []SSDInv
BY SSDInvInit, SSDInvStep, PTL DEF Spec

\* The index's total is the sum of the sizes of its entries, the hot cache's
\* total that of its blocks, the hot cache keeps to its limit, and the index
\* exceeds its own by no more than a block and what headers grow by: whatever
\* order the two threads correct, evict and add in.
THEOREM SSDSizesRight == Spec => []SizesRight
BY SSDInvAlways, SSDInvImplies, PTL

\* An index entry has its block in memory, on disk or on the way there, also
\* after restarts that find temporary files; and without the hot cache every
\* complete file is counted against the limit.
THEOREM SSDFilesIndexed == Spec => []FilesIndexed
BY SSDInvAlways, SSDInvImplies, PTL

\* Without the hot cache a block whose save returned True can be loaded at
\* once and from then on, also after close() and a new start, until it is
\* evicted, its write fails or another manager removes it.
THEOREM SSDKeptInBuffer == Spec => []KeptInBuffer
BY SSDInvAlways, SSDInvImplies, PTL

=============================================================================
