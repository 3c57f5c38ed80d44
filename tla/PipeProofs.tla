----------------------------- MODULE PipeProofs -----------------------------
(***************************************************************************)
(* Proofs about Pipe, for any readers, writers, limit and sizes: bytes     *)
(* come out once and in order (the refinement of Stream), q->len is exact, *)
(* the overshoot of the limit is bounded, and the end of the file is told  *)
(* only after the last byte.                                               *)
(***************************************************************************)
EXTENDS Pipe, SequenceTheorems, FiniteSetTheorems, WellFoundedInduction, TLAPS

(* Where the two kinds of processes are, who has the locks, who is waiting *)
(* with its block queued, and who closes its end.                          *)
Closing == {"close_rr", "close_wr", "closed"}
Reading == {"qwait", "rsleep", "rasleep", "copy", "wakeup_wr", "runlock", "eof"}
Waiting == {"wakeup_rr", "full", "setflow", "wsleep", "wasleep"}
Writing == Waiting \cup {"put", "wunlock"}
ReaderLabels == Closing \cup Reading \cup {"out", "idle", "rlock"}
WriterLabels == Closing \cup Writing \cup {"out", "idle", "wlock"}
Away == Closing \cup {"out"}
ReadersIn == {r \in Readers : pc[r] \notin Away}
WritersIn == {w \in Writers : pc[w] \notin Away}

(* A block has at least as much room as it has bytes left. *)
BlockType == {b \in [first : Nat \ {0}, n : 1..Maxatomic, alloc : 1..Maxatomic] : b.n <= b.alloc}

TypesOK ==
  /\ blocks \in Seq(BlockType) /\ len \in Nat
  /\ starve \in BOOLEAN /\ flow \in BOOLEAN /\ closed \in BOOLEAN
  /\ rlock \in Readers \cup {None} /\ wlock \in Writers \cup {None}
  /\ rr \in Readers \cup {None} /\ wr \in Writers \cup {None}
  /\ pl \in Procs \cup {None} /\ rref \in Nat /\ wref \in Nat
  /\ pc \in [Procs -> Labels] /\ killed \in [Procs -> BOOLEAN] /\ want \in [Procs -> Nat]
  /\ taken \in [Readers -> Seq(BlockType)]
  /\ queued \in Nat /\ got \in Nat
  /\ todo \in Nat /\ opens \in Nat /\ interrupts \in 0..MaxInterrupts

(* Each process is in its own function, with something left to do there. *)
PlacesOK ==
  /\ \A r \in Readers :
       /\ pc[r] \in ReaderLabels
       /\ pc[r] \in {"rlock", "qwait", "rsleep", "rasleep", "copy"} => want[r] # 0
       /\ IF pc[r] = "copy" THEN Len(taken[r]) = 1 ELSE taken[r] = <<>>
  /\ \A w \in Writers :
       /\ pc[w] \in WriterLabels
       /\ pc[w] \in {"wlock", "put"} => want[w] # 0

(* The QLocks are held by who is inside, and a Rendez by who is asleep.    *)
LocksOK ==
  /\ \A r \in Readers : rlock = r <=> pc[r] \in Reading
  /\ \A w \in Writers : wlock = w <=> pc[w] \in Writing
  /\ \A p \in Procs : pl = p <=> pc[p] \in Closing
  /\ rr # None => pc[rr] = "rasleep"
  /\ wr # None => pc[wr] = "wasleep"

(* The references of the ends, and that a queue which is closed is opened  *)
(* again by the last to close an end.                                      *)
EndsOK ==
  /\ rref = Cardinality(ReadersIn) /\ wref = Cardinality(WritersIn)
  /\ closed /\ rref = 0 /\ wref = 0 => pl # None

(* The blocks in the pipe are a chain from the byte read last to the byte  *)
(* queued last.                                                            *)
Chain(s, a, z) ==
  IF s = <<>> THEN a = z
  ELSE /\ s[1].first = a + 1
       /\ \A i \in 1..(Len(s) - 1) : s[i + 1].first = s[i].first + s[i].n
       /\ s[Len(s)].first + s[Len(s)].n = z + 1
BlocksOK == LenExact /\ Chain(Copying \o blocks, got, queued)

EofOK == \A r \in Readers : pc[r] = "eof" => closed /\ got = queued

(* What the pipe holds, the block a reader has taken out included; and the *)
(* interrupts that have ended a call.                                      *)
Load == len + (IF Copying = <<>> THEN 0 ELSE Copying[1].alloc)
Marked == {p \in Procs : killed[p]}
Spent == (MaxInterrupts - interrupts) - Cardinality(Marked)
Room(k) == Limit + k * Maxatomic

(* The room that is used: another block only while a writer waits with it; *)
(* and a writer that finds its queue closed had its block thrown away.     *)
RoomOK ==
  /\ Spent \in Nat
  /\ Load < Room(2 + Spent)
  /\ (\A w \in Writers : pc[w] \notin Waiting) => Load < Room(1 + Spent)
  /\ closed /\ (\E w \in Writers : pc[w] \in Waiting) => Load = 0

IndInv ==
  TypesOK /\ PlacesOK /\ LocksOK /\ EndsOK /\ BlocksOK /\ EofOK /\ RoomOK
-----------------------------------------------------------------------------
(* Sums and bytes of a list of blocks, which Size and Bytes compute from   *)
(* the front.  A set of numbers that is not empty has a least one, and     *)
(* with it the facts below are proved along the list.                      *)
LEMMA Least ==
  ASSUME NEW S, S \subseteq Nat, S # {}
  PROVE  \E x \in S : \A y \in S : x <= y
<1>1. PICK x \in S : \A y \in S : ~ (<<y, x>> \in OpToRel(<, Nat))
  BY NatLessThanWellFounded, WFMin
<1>2. \A y \in S : ~ (y < x)
  BY <1>1 DEF OpToRel
<1>3. \A y \in S : x <= y
  BY <1>2
<1>4. QED
  BY <1>3

(* g has the room of the first blocks of s. *)
Sums(s, g) ==
  /\ g \in [0..Len(s) -> Nat] /\ g[0] = 0
  /\ \A n \in 1..Len(s) : g[n] = g[n - 1] + s[n].alloc

LEMMA BlockFacts ==
  ASSUME NEW b \in BlockType
  PROVE  /\ b.first \in Nat /\ b.first # 0 /\ b.n \in Nat /\ b.n # 0 /\ b.n <= Maxatomic
         /\ b.alloc \in Nat /\ b.alloc # 0 /\ b.alloc <= Maxatomic /\ b.n <= b.alloc
         /\ b = [first |-> b.first, n |-> b.n, alloc |-> b.alloc]
  BY PipeAssumption DEF BlockType

LEMMA SizeSums ==
  ASSUME NEW s \in Seq(BlockType)
  PROVE  \E g : Sums(s, g) /\ Size(s) = g[Len(s)]
<1> DEFINE Upto(k, g) == /\ g \in [0..k -> Nat] /\ g[0] = 0
                         /\ \A n \in 1..k : g[n] = g[n - 1] + s[n].alloc
           Bad == {k \in 0..Len(s) : ~ \E g : Upto(k, g)}
           F(h) == h = [n \in 0..Len(s) |-> IF n = 0 THEN 0 ELSE h[n - 1] + s[n].alloc]
           f == CHOOSE h : F(h)
<1> HIDE DEF Bad, f, F, Upto
<1>1. Len(s) \in Nat /\ \A n \in 1..Len(s) : s[n].alloc \in Nat
  BY BlockFacts
<1>2. Bad = {}
  <2>1. SUFFICES ASSUME Bad # {} PROVE FALSE
    OBVIOUS
  <2>a. Bad \subseteq Nat
    BY <1>1 DEF Bad
  <2>2. PICK k \in Bad : \A y \in Bad : k <= y
    BY <2>a, <2>1, Least
  <2>3. k # 0
    <3>1. Upto(0, [n \in 0..0 |-> 0])
      BY DEF Upto
    <3>2. QED
      BY <2>2, <3>1 DEF Bad
  <2>4. k - 1 \in 0..Len(s) /\ k \in 1..Len(s) /\ k - 1 \notin Bad
    <3>1. k \in 0..Len(s)
      BY <2>2 DEF Bad
    <3>2. k - 1 \in 0..Len(s) /\ k \in 1..Len(s) /\ ~ (k <= k - 1)
      BY <1>1, <2>3, <3>1
    <3>3. QED
      BY <2>2, <3>2
  <2>5. PICK g : Upto(k - 1, g)
    BY <2>4 DEF Bad
  <2> DEFINE h == [n \in 0..k |-> IF n = k THEN g[k - 1] + s[k].alloc ELSE g[n]]
  <2>6. /\ g \in [0..(k - 1) -> Nat] /\ g[0] = 0
        /\ \A n \in 1..(k - 1) : g[n] = g[n - 1] + s[n].alloc
    BY <2>5 DEF Upto
  <2>7. h \in [0..k -> Nat] /\ h[0] = 0
    BY <1>1, <2>4, <2>6
  <2>8. ASSUME NEW n \in 1..k PROVE h[n] = h[n - 1] + s[n].alloc
    <3>1. n \in 0..k /\ n - 1 \in 0..k /\ n - 1 # k /\ (n # k => n \in 1..(k - 1))
      BY <2>4
    <3>2. QED
      BY <2>6, <3>1
  <2>9. Upto(k, h)
    BY <2>7, <2>8 DEF Upto
  <2>10. QED
    BY <2>2, <2>9 DEF Bad
<1>3. PICK g : Upto(Len(s), g)
  BY <1>1, <1>2 DEF Bad
<1>4. F(g)
  <2>1. g \in [0..Len(s) -> Nat]
    BY <1>3 DEF Upto
  <2>2. ASSUME NEW n \in 0..Len(s)
        PROVE  g[n] = IF n = 0 THEN 0 ELSE g[n - 1] + s[n].alloc
    <3>1. n # 0 => n \in 1..Len(s)
      BY <1>1
    <3>2. QED
      BY <1>3, <3>1 DEF Upto
  <2>3. QED
    BY <2>1, <2>2 DEF F
<1>5. F(f)
  BY <1>4 DEF f
<1>6. Size(s) = f[Len(s)]
  BY DEF Size, f, F
<1>7. DOMAIN f = 0..Len(s) /\ f[0] = 0 /\ \A n \in 1..Len(s) : f[n] = f[n - 1] + s[n].alloc
  <2>1. \A n \in 0..Len(s) : f[n] = IF n = 0 THEN 0 ELSE f[n - 1] + s[n].alloc
    BY <1>5 DEF F
  <2>2. QED
    BY <1>1, <1>5, <2>1 DEF F
<1>8. \A n \in 0..Len(s) : f[n] \in Nat
  <2> DEFINE Odd == {n \in 0..Len(s) : f[n] \notin Nat}
  <2> HIDE DEF Odd
  <2>1. SUFFICES ASSUME Odd # {} PROVE FALSE
    BY DEF Odd
  <2>a. Odd \subseteq Nat
    BY <1>1 DEF Odd
  <2>2. PICK k \in Odd : \A y \in Odd : k <= y
    BY <2>a, <2>1, Least
  <2>3. k \in 1..Len(s) /\ k - 1 \in 0..Len(s)
    BY <1>1, <1>7, <2>2 DEF Odd
  <2>4. f[k - 1] \in Nat
    BY <2>2, <2>3 DEF Odd
  <2>5. f[k] \in Nat
    BY <1>1, <1>7, <2>3, <2>4
  <2>6. QED
    BY <2>2, <2>5 DEF Odd
<1>9. Sums(s, f)
  <2>1. f = [n \in 0..Len(s) |-> f[n]]
    BY <1>5 DEF F
  <2>2. QED
    BY <1>7, <1>8, <2>1 DEF Sums
<1>10. QED
  BY <1>6, <1>9

LEMMA SizeIs ==
  ASSUME NEW s \in Seq(BlockType), NEW g, Sums(s, g)
  PROVE  Size(s) = g[Len(s)]
<1>1. PICK h : Sums(s, h) /\ Size(s) = h[Len(s)]
  BY SizeSums
<1> DEFINE Odd == {n \in 0..Len(s) : g[n] # h[n]}
<1> HIDE DEF Odd
<1>2. SUFFICES ASSUME Odd # {} PROVE FALSE
  BY <1>1 DEF Odd
<1>a. Odd \subseteq Nat
  BY DEF Odd
<1>3. PICK k \in Odd : \A y \in Odd : k <= y
  BY <1>a, <1>2, Least
<1>4. k \in 1..Len(s) /\ k - 1 \in 0..Len(s)
  BY <1>1, <1>3 DEF Odd, Sums
<1>5. g[k - 1] = h[k - 1]
  BY <1>3, <1>4 DEF Odd
<1>6. g[k] = h[k]
  BY <1>1, <1>4, <1>5 DEF Sums
<1>7. QED
  BY <1>3, <1>6 DEF Odd

LEMMA SizeNat ==
  ASSUME NEW s \in Seq(BlockType)
  PROVE  Size(s) \in Nat /\ Size(<<>>) = 0
<1>1. PICK g : Sums(s, g) /\ Size(s) = g[Len(s)]
  BY SizeSums
<1>2. Size(s) \in Nat
  BY <1>1 DEF Sums
<1>3. <<>> \in Seq(BlockType) /\ Len(<<>>) = 0
  OBVIOUS
<1>4. PICK h : Sums(<<>>, h) /\ Size(<<>>) = h[Len(<<>>)]
  BY <1>3, SizeSums
<1>5. QED
  BY <1>2, <1>3, <1>4 DEF Sums

(* A block more at the end, or at the front. *)
LEMMA SizeAppend ==
  ASSUME NEW s \in Seq(BlockType), NEW b \in BlockType
  PROVE  Size(Append(s, b)) = Size(s) + b.alloc
<1> DEFINE t == Append(s, b)
<1>1. PICK g : Sums(s, g) /\ Size(s) = g[Len(s)]
  BY SizeSums
<1>2. /\ t \in Seq(BlockType) /\ Len(s) \in Nat /\ Len(t) = Len(s) + 1 /\ t[Len(t)] = b
      /\ \A n \in 1..Len(s) : t[n] = s[n]
  OBVIOUS
<1> HIDE DEF t
<1> DEFINE h == [n \in 0..Len(t) |-> IF n = Len(t) THEN g[Len(s)] + b.alloc ELSE g[n]]
<1>a. g \in [0..Len(s) -> Nat] /\ g[0] = 0 /\ b.alloc \in Nat
  BY <1>1, BlockFacts DEF Sums
<1>b. \A n \in 0..Len(t) : n # Len(t) => n \in 0..Len(s)
  BY <1>2
<1>c. Len(s) \in 0..Len(s) /\ 0 \in 0..Len(t) /\ 0 # Len(t)
  BY <1>2
<1>3. h \in [0..Len(t) -> Nat] /\ h[0] = 0
  BY <1>a, <1>b, <1>c
<1>4. ASSUME NEW n \in 1..Len(t) PROVE h[n] = h[n - 1] + t[n].alloc
  <2>1. n \in 0..Len(t) /\ n - 1 \in 0..Len(t) /\ n - 1 # Len(t) /\ (n # Len(t) => n \in 1..Len(s))
    BY <1>2
  <2>2. QED
    BY <1>1, <1>2, <2>1 DEF Sums
<1>5. Sums(t, h)
  BY <1>3, <1>4 DEF Sums
<1>6. Size(t) = h[Len(t)]
  BY <1>2, <1>5, SizeIs
<1>7. QED
  BY <1>1, <1>2, <1>6 DEF t

LEMMA SizeTail ==
  ASSUME NEW s \in Seq(BlockType), s # <<>>
  PROVE  Size(s) = s[1].alloc + Size(Tail(s))
<1> DEFINE t == Tail(s)
<1>a. t \in Seq(BlockType)
  OBVIOUS
<1>1. PICK g : Sums(t, g) /\ Size(t) = g[Len(t)]
  BY <1>a, SizeSums
<1>2. /\ t \in Seq(BlockType) /\ Len(t) \in Nat /\ Len(s) = Len(t) + 1
      /\ \A n \in 1..Len(t) : t[n] = s[n + 1]
      /\ 1 \in 1..Len(s) /\ s[1] \in BlockType
  OBVIOUS
<1> HIDE DEF t
<1> DEFINE h == [n \in 0..Len(s) |-> IF n = 0 THEN 0 ELSE s[1].alloc + g[n - 1]]
<1>3. h \in [0..Len(s) -> Nat] /\ h[0] = 0
  BY <1>1, <1>2, BlockFacts DEF Sums
<1>4. ASSUME NEW n \in 1..Len(s) PROVE h[n] = h[n - 1] + s[n].alloc
  <2>1. n \in 0..Len(s) /\ n - 1 \in 0..Len(s) /\ (n # 1 => n - 1 \in 1..Len(t) /\ (n - 1) + 1 = n)
    BY <1>2
  <2>2. CASE n = 1
    BY <1>1, <1>2, <2>1, <2>2, BlockFacts DEF Sums
  <2>3. CASE n # 1
    <3>1. g[n - 1] = g[(n - 1) - 1] + t[n - 1].alloc /\ t[n - 1] = s[n]
      BY <1>1, <1>2, <2>1, <2>3 DEF Sums
    <3>2. h[n] = s[1].alloc + g[n - 1] /\ h[n - 1] = s[1].alloc + g[(n - 1) - 1]
      BY <2>1, <2>3
    <3>a. s[n] \in BlockType /\ (n - 1) - 1 \in 0..Len(t)
      BY <1>2, <2>1, <2>3
    <3>3. s[1].alloc \in Nat /\ g[(n - 1) - 1] \in Nat /\ s[n].alloc \in Nat
      BY <1>1, <1>2, <3>a, BlockFacts DEF Sums
    <3>4. QED
      BY <3>1, <3>2, <3>3
  <2>4. QED
    BY <2>2, <2>3
<1>5. Sums(s, h)
  BY <1>3, <1>4 DEF Sums
<1>6. Size(s) = h[Len(s)]
  BY <1>5, SizeIs
<1>7. Len(s) \in 0..Len(s) /\ Len(s) # 0 /\ Len(s) - 1 = Len(t)
  BY <1>2
<1>8. QED
  BY <1>1, <1>6, <1>7 DEF t

LEMMA SizeFront ==
  ASSUME NEW s \in Seq(BlockType), NEW b \in BlockType
  PROVE  Size(<<b>> \o s) = b.alloc + Size(s)
<1>1. <<b>> \o s \in Seq(BlockType) /\ <<b>> \o s # <<>> /\ (<<b>> \o s)[1] = b
  OBVIOUS
<1>2. Tail(<<b>> \o s) = s
  BY SMTT(20)
<1>3. QED
  BY <1>1, <1>2, SizeTail

(* The bytes after a up to z. *)
Run(a, z) == [i \in 1..(z - a) |-> a + i]

LEMMA RunSeq ==
  ASSUME NEW a \in Nat, NEW z \in Nat, a <= z
  PROVE  /\ Run(a, z) \in Seq(Nat) /\ Len(Run(a, z)) = z - a
         /\ \A i \in 1..(z - a) : Run(a, z)[i] = a + i
<1>1. z - a \in Nat /\ \A i \in 1..(z - a) : a + i \in Nat
  OBVIOUS
<1>2. Run(a, z) \in [1..(z - a) -> Nat]
  BY <1>1 DEF Run
<1>3. QED
  BY <1>1, <1>2 DEF Run

LEMMA SameSeq ==
  ASSUME NEW S, NEW s \in Seq(S), NEW t \in Seq(S), Len(s) = Len(t),
         \A i \in 1..Len(s) : s[i] = t[i]
  PROVE  s = t
  OBVIOUS

LEMMA RunOn ==
  ASSUME NEW a \in Nat, NEW m \in Nat, NEW n \in Nat, a <= m
  PROVE  Run(a, m) \o [i \in 1..n |-> m + i] = Run(a, m + n)
<1> DEFINE t == [i \in 1..n |-> m + i]
           u == Run(a, m) \o t
<1>1. t \in Seq(Nat) /\ Len(t) = n /\ \A i \in 1..n : t[i] = m + i
  <2>1. t \in [1..n -> Nat]
    OBVIOUS
  <2>2. QED
    BY <2>1
<1>2. /\ Run(a, m) \in Seq(Nat) /\ Len(Run(a, m)) = m - a
      /\ \A i \in 1..(m - a) : Run(a, m)[i] = a + i
  BY RunSeq
<1>3. /\ Run(a, m + n) \in Seq(Nat) /\ Len(Run(a, m + n)) = (m + n) - a
      /\ \A i \in 1..((m + n) - a) : Run(a, m + n)[i] = a + i
  <2>1. m + n \in Nat /\ a <= m + n
    OBVIOUS
  <2>2. QED
    BY <2>1, RunSeq
<1> HIDE DEF t
<1>4. u \in Seq(Nat) /\ Len(u) = (m - a) + n
  <2>1. u \in Seq(Nat) /\ Len(u) = Len(Run(a, m)) + Len(t)
    BY <1>1, <1>2, ConcatProperties
  <2>2. QED
    BY <1>1, <1>2, <2>1
<1>5. ASSUME NEW i \in 1..Len(u) PROVE u[i] = Run(a, m + n)[i]
  <2>1. i \in 1..((m + n) - a)
    BY <1>4
  <2>2. CASE i <= m - a
    <3>1. u[i] = Run(a, m)[i]
      BY <1>1, <1>2, <1>4, <2>2
    <3>2. QED
      BY <1>2, <1>3, <2>1, <2>2, <3>1
  <2>3. CASE ~ (i <= m - a)
    <3>1. u[i] = t[i - (m - a)] /\ i - (m - a) \in 1..n
      BY <1>1, <1>2, <1>4, <2>3
    <3>2. QED
      BY <1>1, <1>3, <2>1, <3>1
  <2>4. QED
    BY <2>2, <2>3
<1>6. Len(u) = Len(Run(a, m + n))
  BY <1>3, <1>4
<1> HIDE DEF u
<1>7. u = Run(a, m + n)
  BY <1>3, <1>4, <1>5, <1>6, SameSeq
<1>8. QED
  BY <1>7 DEF u, t

(* The bytes of a chain of blocks. *)
LEMMA ChainBytes ==
  ASSUME NEW s \in Seq(BlockType), NEW a \in Nat, NEW z \in Nat, Chain(s, a, z)
  PROVE  a <= z /\ Bytes(s) = Run(a, z)
<1> DEFINE End(k) == IF k = 0 THEN a ELSE (s[k].first + s[k].n) - 1
           Short == {k \in 0..Len(s) : ~ (a <= End(k))}
           Part(k) == [i \in 1..s[k].n |-> s[k].first + i - 1]
           F(h) == h = [k \in 0..Len(s) |-> IF k = 0 THEN <<>> ELSE h[k - 1] \o Part(k)]
           f == CHOOSE h : F(h)
           g == [k \in 0..Len(s) |-> Run(a, End(k))]
           Odd == {k \in 0..Len(s) : f[k] # g[k]}
<1>1. Len(s) \in Nat /\ \A k \in 1..Len(s) : s[k].first \in Nat /\ s[k].n \in Nat /\ s[k].n # 0
  BY BlockFacts
<1>2. \A k \in 0..Len(s) : End(k) \in Nat
  <2>1. ASSUME NEW k \in 0..Len(s) PROVE End(k) \in Nat
    <3>1. k # 0 => k \in 1..Len(s)
      BY <1>1
    <3>2. QED
      BY <1>1, <3>1
  <2>2. QED
    BY <2>1
<1>3. \A k \in 1..Len(s) : s[k].first = End(k - 1) + 1
  <2>1. ASSUME NEW k \in 1..Len(s) PROVE s[k].first = End(k - 1) + 1
    <3>1. s # <<>>
      BY <1>1
    <3>2. CASE k = 1
      BY <3>1, <3>2 DEF Chain
    <3>3. CASE k # 1
      <4>1. k - 1 \in 1..(Len(s) - 1) /\ (k - 1) + 1 = k /\ k - 1 \in 1..Len(s)
        BY <1>1, <3>3
      <4>2. s[k].first = s[k - 1].first + s[k - 1].n
        BY <3>1, <4>1 DEF Chain
      <4>3. QED
        BY <1>1, <4>1, <4>2
    <3>4. QED
      BY <3>2, <3>3
  <2>2. QED
    BY <2>1
<1>4. End(Len(s)) = z
  <2>1. CASE s = <<>>
    BY <2>1 DEF Chain
  <2>2. CASE s # <<>>
    <3>1. Len(s) \in 1..Len(s) /\ Len(s) # 0
      BY <1>1, <2>2
    <3>2. QED
      BY <1>1, <2>2, <3>1 DEF Chain
  <2>3. QED
    BY <2>1, <2>2
<1>5. \A k \in 1..Len(s) : End(k) = End(k - 1) + s[k].n
  <2>1. ASSUME NEW k \in 1..Len(s) PROVE End(k) = End(k - 1) + s[k].n
    <3>1. k # 0 /\ k - 1 \in 0..Len(s)
      BY <1>1
    <3>2. s[k].first = End(k - 1) + 1 /\ End(k - 1) \in Nat /\ s[k].n \in Nat
      BY <1>1, <1>2, <1>3, <3>1
    <3>3. End(k) = (s[k].first + s[k].n) - 1
      BY <3>1
    <3>4. QED
      BY <3>2, <3>3
  <2>2. QED
    BY <2>1
<1> HIDE DEF End
<1>6. End(0) = a
  BY DEF End
<1>7. \A k \in 0..Len(s) : a <= End(k)
  <2> HIDE DEF Short
  <2>1. SUFFICES ASSUME Short # {} PROVE FALSE
    BY DEF Short
  <2>2. Short \subseteq Nat
    BY <1>1 DEF Short
  <2>3. PICK k \in Short : \A y \in Short : k <= y
    BY <2>1, <2>2, Least
  <2>4. k \in 1..Len(s) /\ k - 1 \in 0..Len(s) /\ ~ (k <= k - 1)
    BY <1>1, <1>6, <2>3 DEF Short
  <2>5. a <= End(k - 1)
    BY <2>3, <2>4 DEF Short
  <2>6. a <= End(k) /\ k \in 0..Len(s)
    BY SMTT(60), <1>1, <1>2, <1>5, <2>4, <2>5
  <2>7. QED
    BY <2>3, <2>6 DEF Short
<1>8. ASSUME NEW k \in 1..Len(s)
      PROVE  Run(a, End(k)) = Run(a, End(k - 1)) \o Part(k)
  <2>1. k - 1 \in 0..Len(s) /\ k \in 0..Len(s)
    BY <1>1
  <2>2. Part(k) = [i \in 1..s[k].n |-> End(k - 1) + i]
    BY SMTT(60), <1>1, <1>2, <1>3, <2>1
  <2>3. Run(a, End(k - 1)) \o [i \in 1..s[k].n |-> End(k - 1) + i] = Run(a, End(k - 1) + s[k].n)
    BY <1>1, <1>2, <1>7, <2>1, RunOn
  <2>4. QED
    BY <1>5, <2>2, <2>3
<1>9. Run(a, a) = <<>>
  <2>1. Run(a, a) \in Seq(Nat) /\ Len(Run(a, a)) = 0
    BY RunSeq
  <2>2. QED
    BY <2>1
<1> HIDE DEF Part
<1>10. F(g)
  <2>1. ASSUME NEW k \in 0..Len(s)
        PROVE  g[k] = IF k = 0 THEN <<>> ELSE g[k - 1] \o Part(k)
    <3>1. k # 0 => k \in 1..Len(s) /\ k - 1 \in 0..Len(s)
      BY <1>1
    <3>2. QED
      BY <1>6, <1>8, <1>9, <3>1
  <2>2. QED
    BY <2>1
<1> HIDE DEF F, g, f
<1>11. F(f)
  BY <1>10 DEF f
<1>12. Bytes(s) = f[Len(s)]
  BY DEF Bytes, f, F, Part
<1>13. f = g
  <2> HIDE DEF Odd
  <2>1. DOMAIN f = 0..Len(s) /\ DOMAIN g = 0..Len(s)
    BY <1>10, <1>11 DEF F
  <2>2. /\ \A k \in 0..Len(s) : f[k] = IF k = 0 THEN <<>> ELSE f[k - 1] \o Part(k)
        /\ \A k \in 0..Len(s) : g[k] = IF k = 0 THEN <<>> ELSE g[k - 1] \o Part(k)
    BY <1>10, <1>11 DEF F
  <2>3. Odd = {}
    <3>1. SUFFICES ASSUME Odd # {} PROVE FALSE
      OBVIOUS
    <3>2. Odd \subseteq Nat
      BY <1>1 DEF Odd
    <3>3. PICK k \in Odd : \A y \in Odd : k <= y
      BY <3>1, <3>2, Least
    <3>4. k \in 0..Len(s) /\ f[k] # g[k]
      BY <3>3 DEF Odd
    <3>5. k # 0 /\ k - 1 \in 0..Len(s) /\ ~ (k <= k - 1)
      BY <1>1, <2>2, <3>4
    <3>6. f[k - 1] = g[k - 1]
      BY <3>3, <3>5 DEF Odd
    <3>7. f[k] = g[k]
      BY <2>2, <3>4, <3>5, <3>6
    <3>8. QED
      BY <3>4, <3>7
  <2>4. \A k \in 0..Len(s) : f[k] = g[k]
    BY <2>3 DEF Odd
  <2>5. f = [k \in 0..Len(s) |-> f[k]] /\ g = [k \in 0..Len(s) |-> g[k]]
    BY <1>11 DEF F, g
  <2>6. QED
    BY <2>4, <2>5
<1>14. Len(s) \in 0..Len(s)
  BY <1>1
<1>15. QED
  BY <1>4, <1>7, <1>12, <1>13, <1>14 DEF g

(* What reading and writing do to a chain. *)
LEMMA ChainAppend ==
  ASSUME NEW s \in Seq(BlockType), NEW a \in Nat, NEW z \in Nat, Chain(s, a, z),
         NEW b \in BlockType, b.first = z + 1
  PROVE  Chain(Append(s, b), a, z + b.n)
<1> DEFINE t == Append(s, b)
<1>1. /\ Len(s) \in Nat /\ Len(t) = Len(s) + 1 /\ t[Len(s) + 1] = b /\ t # <<>>
      /\ \A i \in 1..Len(s) : t[i] = s[i]
  OBVIOUS
<1>2. b.first \in Nat /\ b.n \in Nat
  BY BlockFacts
<1> HIDE DEF t
<1>3. t[1].first = a + 1
  <2>1. CASE s = <<>>
    BY <1>1, <2>1 DEF Chain
  <2>2. CASE s # <<>>
    <3>1. 1 \in 1..Len(s)
      BY <1>1, <2>2
    <3>2. QED
      BY <1>1, <2>2, <3>1 DEF Chain
  <2>3. QED
    BY <2>1, <2>2
<1>4. ASSUME NEW i \in 1..(Len(t) - 1) PROVE t[i + 1].first = t[i].first + t[i].n
  <2>1. i \in 1..Len(s) /\ s # <<>> /\ t[i] = s[i]
    BY <1>1
  <2>2. CASE i = Len(s)
    <3>1. t[i + 1] = b /\ s[i].first + s[i].n = z + 1
      BY <1>1, <2>1, <2>2 DEF Chain
    <3>2. QED
      BY <2>1, <3>1
  <2>3. CASE i # Len(s)
    <3>1. i + 1 \in 1..Len(s) /\ i \in 1..(Len(s) - 1)
      BY <1>1, <2>1, <2>3
    <3>2. QED
      BY <1>1, <2>1, <3>1 DEF Chain
  <2>4. QED
    BY <2>2, <2>3
<1>5. t[Len(t)].first + t[Len(t)].n = (z + b.n) + 1
  BY SMTT(60), <1>1, <1>2
<1>6. QED
  BY <1>1, <1>3, <1>4, <1>5 DEF Chain, t

LEMMA ChainTail ==
  ASSUME NEW s \in Seq(BlockType), s # <<>>, NEW a \in Nat, NEW z \in Nat, Chain(s, a, z)
  PROVE  Chain(Tail(s), a + s[1].n, z)
<1> DEFINE t == Tail(s)
<1>1. /\ Len(s) \in Nat /\ Len(s) # 0 /\ Len(t) = Len(s) - 1
      /\ \A i \in 1..Len(t) : t[i] = s[i + 1]
      /\ t = <<>> <=> Len(t) = 0
      /\ s[1] \in BlockType
  <2>1. /\ Len(s) \in Nat /\ Len(s) # 0 /\ Len(t) = Len(s) - 1 /\ t \in Seq(BlockType)
        /\ \A i \in 1..Len(t) : t[i] = s[i + 1]
    OBVIOUS
  <2>2. s[1] \in BlockType
    BY <2>1
  <2> HIDE DEF t
  <2>3. t = <<>> <=> Len(t) = 0
    BY <2>1, EmptySeq
  <2>4. QED
    BY <2>1, <2>2, <2>3
<1>2. /\ s[1].first = a + 1 /\ s[1].first \in Nat /\ s[1].n \in Nat
      /\ \A i \in 1..(Len(s) - 1) : s[i + 1].first = s[i].first + s[i].n
      /\ s[Len(s)].first + s[Len(s)].n = z + 1
  BY <1>1, BlockFacts DEF Chain
<1> HIDE DEF t
<1>3. CASE t = <<>>
  <2>1. Len(s) = 1
    BY <1>1, <1>3
  <2>2. a + s[1].n = z
    BY <1>2, <2>1
  <2>3. QED
    BY <1>3, <2>2 DEF Chain, t
<1>4. CASE t # <<>>
  <2>1. 1 \in 1..Len(t) /\ 1 \in 1..(Len(s) - 1) /\ Len(t) \in 1..Len(t) /\ Len(t) + 1 = Len(s)
    BY <1>1, <1>4
  <2>2. t[1].first = (a + s[1].n) + 1
    <3>1. t[1] = s[1 + 1] /\ s[1 + 1].first = s[1].first + s[1].n
      BY <1>1, <1>2, <2>1
    <3>2. QED
      BY <1>2, <3>1
  <2>3. ASSUME NEW i \in 1..(Len(t) - 1) PROVE t[i + 1].first = t[i].first + t[i].n
    <3>1. i \in 1..Len(t) /\ i + 1 \in 1..Len(t) /\ i + 1 \in 1..(Len(s) - 1)
      BY <1>1
    <3>2. QED
      BY <1>1, <1>2, <3>1
  <2>4. t[Len(t)].first + t[Len(t)].n = z + 1
    BY <1>1, <1>2, <2>1
  <2>5. QED
    BY <1>4, <2>2, <2>3, <2>4 DEF Chain, t
<1>5. QED
  BY <1>3, <1>4

LEMMA ChainCut ==
  ASSUME NEW s \in Seq(BlockType), s # <<>>, NEW a \in Nat, NEW z \in Nat, Chain(s, a, z),
         NEW n \in Nat, n < s[1].n, NEW b \in BlockType,
         b.first = s[1].first + n, b.n = s[1].n - n
  PROVE  Chain(<<b>> \o Tail(s), a + n, z)
<1> DEFINE t == <<b>> \o Tail(s)
<1>1. /\ Len(s) \in Nat /\ Len(s) # 0 /\ Len(t) = Len(s) /\ t[1] = b /\ t # <<>>
      /\ \A i \in 2..Len(s) : t[i] = s[i]
      /\ s[1] \in BlockType
  BY SMTT(30)
<1>2. /\ s[1].first = a + 1 /\ s[1].first \in Nat /\ s[1].n \in Nat
      /\ \A i \in 1..(Len(s) - 1) : s[i + 1].first = s[i].first + s[i].n
      /\ s[Len(s)].first + s[Len(s)].n = z + 1
  BY <1>1, BlockFacts DEF Chain
<1> HIDE DEF t
<1>3. t[1].first = (a + n) + 1 /\ t[1].first + t[1].n = s[1].first + s[1].n
  <2>1. b.first = (a + 1) + n /\ b.n = s[1].n - n
    BY <1>2
  <2>2. b.first = (a + n) + 1
    BY <2>1
  <2>3. PICK x, m \in Nat : x = s[1].first /\ m = s[1].n
    BY <1>2
  <2>4. b.first + b.n = s[1].first + s[1].n
    <3>1. x = a + 1
      BY <1>2, <2>3
    <3>2. ((a + 1) + n) + (m - n) = (a + 1) + m
      OBVIOUS
    <3>3. QED
      BY <2>1, <2>3, <3>1, <3>2
  <2>5. QED
    BY <1>1, <2>2, <2>4
<1>4. ASSUME NEW i \in 1..(Len(t) - 1) PROVE t[i + 1].first = t[i].first + t[i].n
  <2>1. i + 1 \in 2..Len(s) /\ i \in 1..(Len(s) - 1) /\ (i # 1 => i \in 2..Len(s))
    BY <1>1
  <2>2. t[i + 1].first = s[i].first + s[i].n
    BY <1>1, <1>2, <2>1
  <2>3. QED
    BY <1>1, <1>3, <2>1, <2>2
<1>5. t[Len(t)].first + t[Len(t)].n = z + 1
  <2>1. Len(s) # 1 => Len(s) \in 2..Len(s)
    BY <1>1
  <2>2. QED
    BY <1>1, <1>2, <1>3, <2>1
<1>6. QED
  BY <1>1, <1>3, <1>4, <1>5 DEF Chain, t

-----------------------------------------------------------------------------
(* Counting: one comes, one goes. *)
LEMMA FiniteProcs ==
  IsFiniteSet(Readers) /\ IsFiniteSet(Writers) /\ IsFiniteSet(Procs)
  BY PipeAssumption, FS_Union DEF Procs

LEMMA OneMore ==
  ASSUME NEW S, NEW T, NEW x, IsFiniteSet(S), x \notin S, T = S \cup {x}
  PROVE  IsFiniteSet(T) /\ Cardinality(T) = Cardinality(S) + 1 /\ Cardinality(S) \in Nat
  BY FS_AddElement, FS_CardinalityType

LEMMA OneLess ==
  ASSUME NEW S, NEW T, NEW x, IsFiniteSet(S), x \in S, T = S \ {x}
  PROVE  /\ IsFiniteSet(T) /\ Cardinality(T) = Cardinality(S) - 1
         /\ Cardinality(S) \in Nat /\ Cardinality(S) # 0
<1>1. IsFiniteSet(T) /\ x \notin T /\ S = T \cup {x}
  BY FS_RemoveElement
<1>2. Cardinality(S) = Cardinality(T) + 1 /\ Cardinality(T) \in Nat
  BY <1>1, OneMore
<1>3. QED
  BY <1>1, <1>2

(* Somebody is counted. *)
LEMMA Counted ==
  ASSUME NEW S, IsFiniteSet(S)
  PROVE  Cardinality(S) \in Nat /\ (Cardinality(S) = 0 <=> S = {})
  BY FS_CardinalityType, FS_EmptySet

(* Another k in the bound is another block. *)
LEMMA RoomGrows ==
  ASSUME NEW k \in Nat
  PROVE  /\ Room(k) \in Nat /\ Room(k + 1) = Room(k) + Maxatomic /\ Limit + Maxatomic <= Room(k + 1)
         /\ \A j \in Nat : k <= j => Room(k) <= Room(j)
<1>1. Limit \in Nat /\ Maxatomic \in Nat
  BY PipeAssumption
<1>2. k * Maxatomic \in Nat /\ (k + 1) * Maxatomic = k * Maxatomic + Maxatomic
  BY <1>1
<1>3. ASSUME NEW j \in Nat, k <= j PROVE k * Maxatomic <= j * Maxatomic
  <2>1. PICK d \in Nat : j = k + d
    <3>1. j - k \in Nat /\ j = k + (j - k)
      BY <1>3
    <3>2. QED
      BY <3>1
  <2>2. j * Maxatomic = k * Maxatomic + d * Maxatomic /\ d * Maxatomic \in Nat
    BY <1>1, <2>1
  <2>3. QED
    BY <1>2, <2>2
<1>4. \A j \in Nat : j * Maxatomic \in Nat
  BY <1>1
<1>5. QED
  BY <1>1, <1>2, <1>3, <1>4 DEF Room

-----------------------------------------------------------------------------
(* The parts of the invariant that a step may leave alone. *)
LEMMA Roles ==
  /\ \A r \in Readers : r \in Procs /\ r \notin Writers /\ r # None
  /\ \A w \in Writers : w \in Procs /\ w \notin Readers /\ w # None
  BY PipeAssumption DEF Procs

LEMMA InsAreFinite ==
  IsFiniteSet(ReadersIn) /\ IsFiniteSet(WritersIn) /\ IsFiniteSet(Marked)
<1>1. ReadersIn \subseteq Readers /\ WritersIn \subseteq Writers /\ Marked \subseteq Procs
  BY DEF ReadersIn, WritersIn, Marked
<1>2. QED
  BY <1>1, FiniteProcs, FS_Subset

LEMMA CopyingIs ==
  ASSUME IndInv
  PROVE  /\ Copying \in Seq(BlockType) /\ Load \in Nat
         /\ \A r \in Readers : pc[r] \in Reading => rlock = r /\ Copying = taken[r]
         /\ (\A r \in Readers : pc[r] # "copy") => Copying = <<>>
         /\ \A r \in Readers : pc[r] \in Reading \ {"copy"} => Copying = <<>>
         /\ \A r \in Readers : pc[r] = "copy" =>
              Len(Copying) = 1 /\ Copying[1] \in BlockType /\ Copying = <<Copying[1]>> /\ Copying # <<>>
<1> USE Roles
<1>1. Copying \in Seq(BlockType)
  BY DEF IndInv, TypesOK, Copying
<1>2. \A r \in Readers : pc[r] \in Reading => rlock = r /\ Copying = taken[r]
  BY DEF IndInv, TypesOK, LocksOK, Copying
<1>3. (\A r \in Readers : pc[r] # "copy") => Copying = <<>>
  BY DEF IndInv, TypesOK, PlacesOK, Copying
<1>4. \A r \in Readers : pc[r] \in Reading \ {"copy"} => Copying = <<>>
  BY <1>2 DEF IndInv, PlacesOK
<1>5. ASSUME NEW r \in Readers, pc[r] = "copy"
      PROVE  Len(Copying) = 1 /\ Copying[1] \in BlockType /\ Copying = <<Copying[1]>> /\ Copying # <<>>
  <2>1. Len(Copying) = 1
    BY <1>2, <1>5 DEF IndInv, PlacesOK, Reading
  <2>2. QED
    BY <1>1, <2>1
<1>6. Load \in Nat
  <2>1. Copying # <<>> => Copying[1].alloc \in Nat
    BY <1>1, BlockFacts
  <2>2. QED
    BY <2>1 DEF Load, IndInv, TypesOK
<1>7. QED
  BY <1>1, <1>2, <1>3, <1>4, <1>5, <1>6

LEMMA EndsKept ==
  ASSUME IndInv, UNCHANGED <<closed, rref, wref>>, pl' = None => pl = None,
         \A p \in Procs : pc'[p] \in Away <=> pc[p] \in Away
  PROVE  EndsOK'
<1>1. ReadersIn' = ReadersIn /\ WritersIn' = WritersIn
  BY Roles DEF ReadersIn, WritersIn
<1>2. QED
  BY <1>1 DEF IndInv, EndsOK

LEMMA StockKept ==
  ASSUME IndInv, UNCHANGED <<blocks, len, queued, got>>, Copying' = Copying
  PROVE  BlocksOK' /\ Load' = Load
  BY DEF IndInv, BlocksOK, LenExact, Load

LEMMA RoomKept ==
  ASSUME IndInv, UNCHANGED <<closed, killed, interrupts>>, Load' \in Nat, Load' <= Load,
         \A w \in Writers : pc'[w] \in Waiting <=> pc[w] \in Waiting
  PROVE  RoomOK'
<1>1. Marked' = Marked
  BY DEF Marked
<1>2. Spent' = Spent
  BY <1>1 DEF Spent
<1>3. Room(2 + Spent)' = Room(2 + Spent) /\ Room(1 + Spent)' = Room(1 + Spent)
  BY <1>2 DEF Room
<1>4. Spent \in Nat /\ 2 + Spent \in Nat /\ 1 + Spent \in Nat
  BY DEF IndInv, RoomOK
<1>5. Room(2 + Spent) \in Nat /\ Room(1 + Spent) \in Nat
  BY <1>4, RoomGrows
<1>6. Load \in Nat
  BY CopyingIs
<1>7. /\ Load < Room(2 + Spent)
      /\ (\A w \in Writers : pc[w] \notin Waiting) => Load < Room(1 + Spent)
      /\ closed /\ (\E w \in Writers : pc[w] \in Waiting) => Load = 0
  BY DEF IndInv, RoomOK
<1> HIDE DEF Load, Spent
<1>8. Load' < Room(2 + Spent)'
  BY <1>3, <1>5, <1>6, <1>7
<1>9. (\A w \in Writers : pc'[w] \notin Waiting) => Load' < Room(1 + Spent)'
  BY <1>3, <1>5, <1>6, <1>7
<1>10. closed' /\ (\E w \in Writers : pc'[w] \in Waiting) => Load' = 0
  BY <1>6, <1>7
<1>11. QED
  BY <1>2, <1>4, <1>8, <1>9, <1>10 DEF RoomOK

(* A step that comes to no end, puts or takes no block and interrupts      *)
(* nobody: who is away, waiting or at the end of file is the same.         *)
LEMMA Aside ==
  ASSUME IndInv, TypesOK', PlacesOK', LocksOK',
         UNCHANGED <<blocks, len, closed, queued, got, rref, wref, killed, interrupts>>,
         pl' = None => pl = None,
         Copying' = Copying,
         \A p \in Procs : /\ pc'[p] \in Away <=> pc[p] \in Away
                          /\ pc'[p] \in Waiting <=> pc[p] \in Waiting
                          /\ pc'[p] = "eof" => pc[p] = "eof"
  PROVE  IndInv'
<1>1. EndsOK'
  BY EndsKept
<1>2. BlocksOK' /\ Load' = Load /\ Load \in Nat
  BY StockKept, CopyingIs
<1>3. EofOK'
  BY Roles DEF IndInv, EofOK
<1>4. RoomOK'
  BY <1>2, Roles, RoomKept
<1>5. QED
  BY <1>1, <1>2, <1>3, <1>4 DEF IndInv

LEMMA ReadKeeps ==
  ASSUME IndInv, NEW r \in Readers, NEW n \in ReadSizes, Read(r, n)
  PROVE  IndInv'
<1> USE Roles
<1>0. n \in Nat /\ n # 0
  BY PipeAssumption
<1>1. TypesOK'
  BY <1>0 DEF IndInv, TypesOK, PlacesOK, Read, queue, qlocks, rendez, ends, bytes, bounds, Goto, Labels
<1>2. PlacesOK'
  BY <1>1, <1>0 DEF IndInv, TypesOK, PlacesOK, Read, queue, qlocks, rendez, ends, bytes, bounds, Goto, ReaderLabels, WriterLabels, Closing, Reading, Writing, Waiting
<1>3. LocksOK'
  BY <1>1, PipeAssumption DEF IndInv, TypesOK, PlacesOK, LocksOK, Read, queue, qlocks, rendez, ends, bytes, bounds, Goto, ReaderLabels, WriterLabels, Closing, Reading, Writing, Waiting
<1>4. Copying' = Copying
  BY DEF IndInv, TypesOK, PlacesOK, LocksOK, Read, queue, qlocks, rendez, ends, bytes, bounds, Goto, Copying, Reading
<1>5. /\ UNCHANGED <<blocks, len, closed, queued, got, rref, wref, killed, interrupts>>
      /\ pl' = None => pl = None
  BY DEF Read, queue, qlocks, rendez, ends, bytes, bounds, Goto
<1>6. \A x \in Procs : /\ pc'[x] \in Away <=> pc[x] \in Away
                       /\ pc'[x] \in Waiting <=> pc[x] \in Waiting
                       /\ pc'[x] = "eof" => pc[x] = "eof"
  BY DEF IndInv, TypesOK, Read, queue, qlocks, rendez, ends, bytes, bounds, Goto, Away, Closing, Waiting
<1>7. QED
  BY <1>1, <1>2, <1>3, <1>4, <1>5, <1>6, Aside

LEMMA QlockReadKeeps ==
  ASSUME IndInv, NEW r \in Readers, QlockRead(r)
  PROVE  IndInv'
<1> USE Roles
<1>1. TypesOK'
  BY PipeAssumption DEF IndInv, TypesOK, PlacesOK, QlockRead, queue, qlocks, rendez, ends, bytes, bounds, Goto, Labels
<1>2. PlacesOK'
  BY <1>1, PipeAssumption DEF IndInv, TypesOK, PlacesOK, QlockRead, queue, qlocks, rendez, ends, bytes, bounds, Goto, ReaderLabels, WriterLabels, Closing, Reading, Writing, Waiting
<1>3. LocksOK'
  BY <1>1, PipeAssumption DEF IndInv, TypesOK, PlacesOK, LocksOK, QlockRead, queue, qlocks, rendez, ends, bytes, bounds, Goto, ReaderLabels, WriterLabels, Closing, Reading, Writing, Waiting
<1>4. Copying' = Copying
  BY DEF IndInv, TypesOK, PlacesOK, LocksOK, QlockRead, queue, qlocks, rendez, ends, bytes, bounds, Goto, Copying, Reading
<1>5. /\ UNCHANGED <<blocks, len, closed, queued, got, rref, wref, killed, interrupts>>
      /\ pl' = None => pl = None
  BY DEF QlockRead, queue, qlocks, rendez, ends, bytes, bounds, Goto
<1>6. \A x \in Procs : /\ pc'[x] \in Away <=> pc[x] \in Away
                       /\ pc'[x] \in Waiting <=> pc[x] \in Waiting
                       /\ pc'[x] = "eof" => pc[x] = "eof"
  BY DEF IndInv, TypesOK, QlockRead, queue, qlocks, rendez, ends, bytes, bounds, Goto, Away, Closing, Waiting
<1>7. QED
  BY <1>1, <1>2, <1>3, <1>4, <1>5, <1>6, Aside

LEMMA qwaitEmptyKeeps ==
  ASSUME IndInv, NEW r \in Readers, qwaitEmpty(r)
  PROVE  IndInv'
<1> USE Roles
<1>1. TypesOK'
  BY PipeAssumption DEF IndInv, TypesOK, PlacesOK, qwaitEmpty, queue, qlocks, rendez, ends, bytes, bounds, Goto, Labels
<1>2. PlacesOK'
  BY <1>1, PipeAssumption DEF IndInv, TypesOK, PlacesOK, qwaitEmpty, queue, qlocks, rendez, ends, bytes, bounds, Goto, ReaderLabels, WriterLabels, Closing, Reading, Writing, Waiting
<1>3. LocksOK'
  BY <1>1, PipeAssumption DEF IndInv, TypesOK, PlacesOK, LocksOK, qwaitEmpty, queue, qlocks, rendez, ends, bytes, bounds, Goto, ReaderLabels, WriterLabels, Closing, Reading, Writing, Waiting
<1>4. Copying' = Copying
  BY DEF IndInv, TypesOK, PlacesOK, LocksOK, qwaitEmpty, queue, qlocks, rendez, ends, bytes, bounds, Goto, Copying, Reading
<1>5. /\ UNCHANGED <<blocks, len, closed, queued, got, rref, wref, killed, interrupts>>
      /\ pl' = None => pl = None
  BY DEF qwaitEmpty, queue, qlocks, rendez, ends, bytes, bounds, Goto
<1>6. \A x \in Procs : /\ pc'[x] \in Away <=> pc[x] \in Away
                       /\ pc'[x] \in Waiting <=> pc[x] \in Waiting
                       /\ pc'[x] = "eof" => pc[x] = "eof"
  BY DEF IndInv, TypesOK, qwaitEmpty, queue, qlocks, rendez, ends, bytes, bounds, Goto, Away, Closing, Waiting
<1>7. QED
  BY <1>1, <1>2, <1>3, <1>4, <1>5, <1>6, Aside

LEMMA WakeWriterKeeps ==
  ASSUME IndInv, NEW r \in Readers, WakeWriter(r)
  PROVE  IndInv'
<1> USE Roles
<1>1. TypesOK'
  BY PipeAssumption DEF IndInv, TypesOK, PlacesOK, WakeWriter, queue, qlocks, rendez, ends, bytes, bounds, Goto, Labels
<1>2. PlacesOK'
  BY <1>1, PipeAssumption DEF IndInv, TypesOK, PlacesOK, WakeWriter, queue, qlocks, rendez, ends, bytes, bounds, Goto, ReaderLabels, WriterLabels, Closing, Reading, Writing, Waiting
<1>3. LocksOK'
  BY <1>1, PipeAssumption DEF IndInv, TypesOK, PlacesOK, LocksOK, WakeWriter, queue, qlocks, rendez, ends, bytes, bounds, Goto, ReaderLabels, WriterLabels, Closing, Reading, Writing, Waiting
<1>4. Copying' = Copying
  BY DEF IndInv, TypesOK, PlacesOK, LocksOK, WakeWriter, queue, qlocks, rendez, ends, bytes, bounds, Goto, Copying, Reading
<1>5. /\ UNCHANGED <<blocks, len, closed, queued, got, rref, wref, killed, interrupts>>
      /\ pl' = None => pl = None
  BY DEF WakeWriter, queue, qlocks, rendez, ends, bytes, bounds, Goto
<1>6. \A x \in Procs : /\ pc'[x] \in Away <=> pc[x] \in Away
                       /\ pc'[x] \in Waiting <=> pc[x] \in Waiting
                       /\ pc'[x] = "eof" => pc[x] = "eof"
  BY DEF IndInv, TypesOK, WakeWriter, queue, qlocks, rendez, ends, bytes, bounds, Goto, Away, Closing, Waiting
<1>7. QED
  BY <1>1, <1>2, <1>3, <1>4, <1>5, <1>6, Aside

LEMMA QunlockReadKeeps ==
  ASSUME IndInv, NEW r \in Readers, QunlockRead(r)
  PROVE  IndInv'
<1> USE Roles
<1>1. TypesOK'
  BY PipeAssumption DEF IndInv, TypesOK, PlacesOK, QunlockRead, queue, qlocks, rendez, ends, bytes, bounds, Goto, Labels
<1>2. PlacesOK'
  BY <1>1, PipeAssumption DEF IndInv, TypesOK, PlacesOK, QunlockRead, queue, qlocks, rendez, ends, bytes, bounds, Goto, ReaderLabels, WriterLabels, Closing, Reading, Writing, Waiting
<1>3. LocksOK'
  BY <1>1, PipeAssumption DEF IndInv, TypesOK, PlacesOK, LocksOK, QunlockRead, queue, qlocks, rendez, ends, bytes, bounds, Goto, ReaderLabels, WriterLabels, Closing, Reading, Writing, Waiting
<1>4. Copying' = Copying
  BY DEF IndInv, TypesOK, PlacesOK, LocksOK, QunlockRead, queue, qlocks, rendez, ends, bytes, bounds, Goto, Copying, Reading
<1>5. /\ UNCHANGED <<blocks, len, closed, queued, got, rref, wref, killed, interrupts>>
      /\ pl' = None => pl = None
  BY DEF QunlockRead, queue, qlocks, rendez, ends, bytes, bounds, Goto
<1>6. \A x \in Procs : /\ pc'[x] \in Away <=> pc[x] \in Away
                       /\ pc'[x] \in Waiting <=> pc[x] \in Waiting
                       /\ pc'[x] = "eof" => pc[x] = "eof"
  BY DEF IndInv, TypesOK, QunlockRead, queue, qlocks, rendez, ends, bytes, bounds, Goto, Away, Closing, Waiting
<1>7. QED
  BY <1>1, <1>2, <1>3, <1>4, <1>5, <1>6, Aside

LEMMA SleepReadKeeps ==
  ASSUME IndInv, NEW r \in Readers, SleepRead(r)
  PROVE  IndInv'
<1> USE Roles
<1>1. TypesOK'
  BY PipeAssumption DEF IndInv, TypesOK, PlacesOK, SleepRead, queue, qlocks, rendez, ends, bytes, bounds, Goto, Labels, notempty
<1>2. PlacesOK'
  BY <1>1, PipeAssumption DEF IndInv, TypesOK, PlacesOK, SleepRead, queue, qlocks, rendez, ends, bytes, bounds, Goto, ReaderLabels, WriterLabels, Closing, Reading, Writing, Waiting
<1>3. LocksOK'
  BY <1>1, PipeAssumption DEF IndInv, TypesOK, PlacesOK, LocksOK, SleepRead, queue, qlocks, rendez, ends, bytes, bounds, Goto, ReaderLabels, WriterLabels, Closing, Reading, Writing, Waiting
<1>4. Copying' = Copying
  BY DEF IndInv, TypesOK, PlacesOK, LocksOK, SleepRead, queue, qlocks, rendez, ends, bytes, bounds, Goto, Copying, Reading
<1>5. /\ UNCHANGED <<blocks, len, closed, queued, got, rref, wref, killed, interrupts>>
      /\ pl' = None => pl = None
  BY DEF SleepRead, queue, qlocks, rendez, ends, bytes, bounds, Goto
<1>6. \A x \in Procs : /\ pc'[x] \in Away <=> pc[x] \in Away
                       /\ pc'[x] \in Waiting <=> pc[x] \in Waiting
                       /\ pc'[x] = "eof" => pc[x] = "eof"
  BY DEF IndInv, TypesOK, SleepRead, queue, qlocks, rendez, ends, bytes, bounds, Goto, Away, Closing, Waiting
<1>7. QED
  BY <1>1, <1>2, <1>3, <1>4, <1>5, <1>6, Aside

LEMMA WriteKeeps ==
  ASSUME IndInv, NEW w \in Writers, NEW n \in WriteSizes, Write(w, n)
  PROVE  IndInv'
<1> USE Roles
<1>0. n \in Nat /\ n # 0
  BY PipeAssumption
<1>1. TypesOK'
  BY <1>0 DEF IndInv, TypesOK, PlacesOK, Write, queue, qlocks, rendez, ends, bytes, bounds, Goto, Labels
<1>2. PlacesOK'
  BY <1>1, <1>0 DEF IndInv, TypesOK, PlacesOK, Write, queue, qlocks, rendez, ends, bytes, bounds, Goto, ReaderLabels, WriterLabels, Closing, Reading, Writing, Waiting
<1>3. LocksOK'
  BY ZenonT(60), <1>1, PipeAssumption DEF IndInv, TypesOK, PlacesOK, LocksOK, Write, queue, qlocks, rendez, ends, bytes, bounds, Goto, ReaderLabels, WriterLabels, Closing, Reading, Writing, Waiting
<1>4. Copying' = Copying
  BY DEF IndInv, TypesOK, PlacesOK, LocksOK, Write, queue, qlocks, rendez, ends, bytes, bounds, Goto, Copying, Reading
<1>5. /\ UNCHANGED <<blocks, len, closed, queued, got, rref, wref, killed, interrupts>>
      /\ pl' = None => pl = None
  BY DEF Write, queue, qlocks, rendez, ends, bytes, bounds, Goto
<1>6. \A x \in Procs : /\ pc'[x] \in Away <=> pc[x] \in Away
                       /\ pc'[x] \in Waiting <=> pc[x] \in Waiting
                       /\ pc'[x] = "eof" => pc[x] = "eof"
  BY DEF IndInv, TypesOK, Write, queue, qlocks, rendez, ends, bytes, bounds, Goto, Away, Closing, Waiting
<1>7. QED
  BY <1>1, <1>2, <1>3, <1>4, <1>5, <1>6, Aside

LEMMA QlockWriteKeeps ==
  ASSUME IndInv, NEW w \in Writers, QlockWrite(w)
  PROVE  IndInv'
<1> USE Roles
<1>1. TypesOK'
  BY PipeAssumption DEF IndInv, TypesOK, PlacesOK, QlockWrite, queue, qlocks, rendez, ends, bytes, bounds, Goto, Labels
<1>2. PlacesOK'
  BY <1>1, PipeAssumption DEF IndInv, TypesOK, PlacesOK, QlockWrite, queue, qlocks, rendez, ends, bytes, bounds, Goto, ReaderLabels, WriterLabels, Closing, Reading, Writing, Waiting
<1>3. LocksOK'
  BY <1>1, PipeAssumption DEF IndInv, TypesOK, PlacesOK, LocksOK, QlockWrite, queue, qlocks, rendez, ends, bytes, bounds, Goto, ReaderLabels, WriterLabels, Closing, Reading, Writing, Waiting
<1>4. Copying' = Copying
  BY DEF IndInv, TypesOK, PlacesOK, LocksOK, QlockWrite, queue, qlocks, rendez, ends, bytes, bounds, Goto, Copying, Reading
<1>5. /\ UNCHANGED <<blocks, len, closed, queued, got, rref, wref, killed, interrupts>>
      /\ pl' = None => pl = None
  BY DEF QlockWrite, queue, qlocks, rendez, ends, bytes, bounds, Goto
<1>6. \A x \in Procs : /\ pc'[x] \in Away <=> pc[x] \in Away
                       /\ pc'[x] \in Waiting <=> pc[x] \in Waiting
                       /\ pc'[x] = "eof" => pc[x] = "eof"
  BY DEF IndInv, TypesOK, QlockWrite, queue, qlocks, rendez, ends, bytes, bounds, Goto, Away, Closing, Waiting
<1>7. QED
  BY <1>1, <1>2, <1>3, <1>4, <1>5, <1>6, Aside

LEMMA PutClosedKeeps ==
  ASSUME IndInv, NEW w \in Writers, PutClosed(w)
  PROVE  IndInv'
<1> USE Roles
<1>1. TypesOK'
  BY PipeAssumption DEF IndInv, TypesOK, PlacesOK, PutClosed, queue, qlocks, rendez, ends, bytes, bounds, Goto, Labels
<1>2. PlacesOK'
  BY <1>1, PipeAssumption DEF IndInv, TypesOK, PlacesOK, PutClosed, queue, qlocks, rendez, ends, bytes, bounds, Goto, ReaderLabels, WriterLabels, Closing, Reading, Writing, Waiting
<1>3. LocksOK'
  BY <1>1, PipeAssumption DEF IndInv, TypesOK, PlacesOK, LocksOK, PutClosed, queue, qlocks, rendez, ends, bytes, bounds, Goto, ReaderLabels, WriterLabels, Closing, Reading, Writing, Waiting
<1>4. Copying' = Copying
  BY DEF IndInv, TypesOK, PlacesOK, LocksOK, PutClosed, queue, qlocks, rendez, ends, bytes, bounds, Goto, Copying, Reading
<1>5. /\ UNCHANGED <<blocks, len, closed, queued, got, rref, wref, killed, interrupts>>
      /\ pl' = None => pl = None
  BY DEF PutClosed, queue, qlocks, rendez, ends, bytes, bounds, Goto
<1>6. \A x \in Procs : /\ pc'[x] \in Away <=> pc[x] \in Away
                       /\ pc'[x] \in Waiting <=> pc[x] \in Waiting
                       /\ pc'[x] = "eof" => pc[x] = "eof"
  BY DEF IndInv, TypesOK, PutClosed, queue, qlocks, rendez, ends, bytes, bounds, Goto, Away, Closing, Waiting
<1>7. QED
  BY <1>1, <1>2, <1>3, <1>4, <1>5, <1>6, Aside

LEMMA WakeReaderKeeps ==
  ASSUME IndInv, NEW w \in Writers, WakeReader(w)
  PROVE  IndInv'
<1> USE Roles
<1>1. TypesOK'
  BY PipeAssumption DEF IndInv, TypesOK, PlacesOK, WakeReader, queue, qlocks, rendez, ends, bytes, bounds, Goto, Labels
<1>2. PlacesOK'
  BY <1>1, PipeAssumption DEF IndInv, TypesOK, PlacesOK, WakeReader, queue, qlocks, rendez, ends, bytes, bounds, Goto, ReaderLabels, WriterLabels, Closing, Reading, Writing, Waiting
<1>3. LocksOK'
  BY <1>1, PipeAssumption DEF IndInv, TypesOK, PlacesOK, LocksOK, WakeReader, queue, qlocks, rendez, ends, bytes, bounds, Goto, ReaderLabels, WriterLabels, Closing, Reading, Writing, Waiting
<1>4. Copying' = Copying
  BY DEF IndInv, TypesOK, PlacesOK, LocksOK, WakeReader, queue, qlocks, rendez, ends, bytes, bounds, Goto, Copying, Reading
<1>5. /\ UNCHANGED <<blocks, len, closed, queued, got, rref, wref, killed, interrupts>>
      /\ pl' = None => pl = None
  BY DEF WakeReader, queue, qlocks, rendez, ends, bytes, bounds, Goto
<1>6. \A x \in Procs : /\ pc'[x] \in Away <=> pc[x] \in Away
                       /\ pc'[x] \in Waiting <=> pc[x] \in Waiting
                       /\ pc'[x] = "eof" => pc[x] = "eof"
  BY DEF IndInv, TypesOK, WakeReader, queue, qlocks, rendez, ends, bytes, bounds, Goto, Away, Closing, Waiting
<1>7. QED
  BY <1>1, <1>2, <1>3, <1>4, <1>5, <1>6, Aside

LEMMA SetFlowKeeps ==
  ASSUME IndInv, NEW w \in Writers, SetFlow(w)
  PROVE  IndInv'
<1> USE Roles
<1>1. TypesOK'
  BY PipeAssumption DEF IndInv, TypesOK, PlacesOK, SetFlow, queue, qlocks, rendez, ends, bytes, bounds, Goto, Labels
<1>2. PlacesOK'
  BY <1>1, PipeAssumption DEF IndInv, TypesOK, PlacesOK, SetFlow, queue, qlocks, rendez, ends, bytes, bounds, Goto, ReaderLabels, WriterLabels, Closing, Reading, Writing, Waiting
<1>3. LocksOK'
  BY <1>1, PipeAssumption DEF IndInv, TypesOK, PlacesOK, LocksOK, SetFlow, queue, qlocks, rendez, ends, bytes, bounds, Goto, ReaderLabels, WriterLabels, Closing, Reading, Writing, Waiting
<1>4. Copying' = Copying
  BY DEF IndInv, TypesOK, PlacesOK, LocksOK, SetFlow, queue, qlocks, rendez, ends, bytes, bounds, Goto, Copying, Reading
<1>5. /\ UNCHANGED <<blocks, len, closed, queued, got, rref, wref, killed, interrupts>>
      /\ pl' = None => pl = None
  BY DEF SetFlow, queue, qlocks, rendez, ends, bytes, bounds, Goto
<1>6. \A x \in Procs : /\ pc'[x] \in Away <=> pc[x] \in Away
                       /\ pc'[x] \in Waiting <=> pc[x] \in Waiting
                       /\ pc'[x] = "eof" => pc[x] = "eof"
  BY DEF IndInv, TypesOK, SetFlow, queue, qlocks, rendez, ends, bytes, bounds, Goto, Away, Closing, Waiting
<1>7. QED
  BY <1>1, <1>2, <1>3, <1>4, <1>5, <1>6, Aside

LEMMA QunlockWriteKeeps ==
  ASSUME IndInv, NEW w \in Writers, QunlockWrite(w)
  PROVE  IndInv'
<1> USE Roles
<1>0. want[w] \in Nat /\ (want[w] > 0 <=> want[w] # 0)
  BY DEF IndInv, TypesOK
<1>1. TypesOK'
  BY <1>0 DEF IndInv, TypesOK, PlacesOK, QunlockWrite, queue, qlocks, rendez, ends, bytes, bounds, Goto, Labels
<1>2. PlacesOK'
  BY <1>1, <1>0 DEF IndInv, TypesOK, PlacesOK, QunlockWrite, queue, qlocks, rendez, ends, bytes, bounds, Goto, ReaderLabels, WriterLabels, Closing, Reading, Writing, Waiting
<1>3. LocksOK'
  BY ZenonT(60), <1>1, PipeAssumption DEF IndInv, TypesOK, PlacesOK, LocksOK, QunlockWrite, queue, qlocks, rendez, ends, bytes, bounds, Goto, ReaderLabels, WriterLabels, Closing, Reading, Writing, Waiting
<1>4. Copying' = Copying
  BY DEF IndInv, TypesOK, PlacesOK, LocksOK, QunlockWrite, queue, qlocks, rendez, ends, bytes, bounds, Goto, Copying, Reading
<1>5. /\ UNCHANGED <<blocks, len, closed, queued, got, rref, wref, killed, interrupts>>
      /\ pl' = None => pl = None
  BY DEF QunlockWrite, queue, qlocks, rendez, ends, bytes, bounds, Goto
<1>6. \A x \in Procs : /\ pc'[x] \in Away <=> pc[x] \in Away
                       /\ pc'[x] \in Waiting <=> pc[x] \in Waiting
                       /\ pc'[x] = "eof" => pc[x] = "eof"
  BY DEF IndInv, TypesOK, QunlockWrite, queue, qlocks, rendez, ends, bytes, bounds, Goto, Away, Closing, Waiting
<1>7. QED
  BY <1>1, <1>2, <1>3, <1>4, <1>5, <1>6, Aside

LEMMA SleepWriteKeeps ==
  ASSUME IndInv, NEW w \in Writers, SleepWrite(w)
  PROVE  IndInv'
<1> USE Roles
<1>1. TypesOK'
  BY PipeAssumption DEF IndInv, TypesOK, PlacesOK, SleepWrite, queue, qlocks, rendez, ends, bytes, bounds, Goto, Labels, qnotfull
<1>2. PlacesOK'
  BY <1>1, PipeAssumption DEF IndInv, TypesOK, PlacesOK, SleepWrite, queue, qlocks, rendez, ends, bytes, bounds, Goto, ReaderLabels, WriterLabels, Closing, Reading, Writing, Waiting
<1>3. LocksOK'
  BY <1>1, PipeAssumption DEF IndInv, TypesOK, PlacesOK, LocksOK, SleepWrite, queue, qlocks, rendez, ends, bytes, bounds, Goto, ReaderLabels, WriterLabels, Closing, Reading, Writing, Waiting
<1>4. Copying' = Copying
  BY DEF IndInv, TypesOK, PlacesOK, LocksOK, SleepWrite, queue, qlocks, rendez, ends, bytes, bounds, Goto, Copying, Reading
<1>5. /\ UNCHANGED <<blocks, len, closed, queued, got, rref, wref, killed, interrupts>>
      /\ pl' = None => pl = None
  BY DEF SleepWrite, queue, qlocks, rendez, ends, bytes, bounds, Goto
<1>6. \A x \in Procs : /\ pc'[x] \in Away <=> pc[x] \in Away
                       /\ pc'[x] \in Waiting <=> pc[x] \in Waiting
                       /\ pc'[x] = "eof" => pc[x] = "eof"
  BY DEF IndInv, TypesOK, SleepWrite, queue, qlocks, rendez, ends, bytes, bounds, Goto, Away, Closing, Waiting
<1>7. QED
  BY <1>1, <1>2, <1>3, <1>4, <1>5, <1>6, Aside

LEMMA SleepReturnsKeeps ==
  ASSUME IndInv, NEW p \in Procs, SleepReturns(p)
  PROVE  IndInv'
<1> USE Roles
<1>1. TypesOK'
  BY ZenonT(60), PipeAssumption DEF IndInv, TypesOK, PlacesOK, SleepReturns, queue, qlocks, rendez, ends, bytes, bounds, Goto, Labels
<1>2. PlacesOK'
  BY ZenonT(60), <1>1, PipeAssumption DEF IndInv, TypesOK, PlacesOK, SleepReturns, queue, qlocks, rendez, ends, bytes, bounds, Goto, ReaderLabels, WriterLabels, Closing, Reading, Writing, Waiting
<1>3. LocksOK'
  <2>1. CASE pc[p] = "rasleep"
    BY ZenonT(60), <1>1, <2>1, PipeAssumption DEF IndInv, TypesOK, PlacesOK, LocksOK, SleepReturns, queue, qlocks, rendez, ends, bytes, bounds, Goto, ReaderLabels, WriterLabels, Closing, Reading, Writing, Waiting
  <2>2. CASE pc[p] = "wasleep"
    BY ZenonT(60), <1>1, <2>2, PipeAssumption DEF IndInv, TypesOK, PlacesOK, LocksOK, SleepReturns, queue, qlocks, rendez, ends, bytes, bounds, Goto, ReaderLabels, WriterLabels, Closing, Reading, Writing, Waiting
  <2>3. QED
    BY <2>1, <2>2 DEF SleepReturns, Goto
<1>4. Copying' = Copying
  BY DEF IndInv, TypesOK, PlacesOK, LocksOK, SleepReturns, queue, qlocks, rendez, ends, bytes, bounds, Goto, Copying, Reading
<1>5. /\ UNCHANGED <<blocks, len, closed, queued, got, rref, wref, killed, interrupts>>
      /\ pl' = None => pl = None
  BY DEF SleepReturns, queue, qlocks, rendez, ends, bytes, bounds, Goto
<1>6. \A x \in Procs : /\ pc'[x] \in Away <=> pc[x] \in Away
                       /\ pc'[x] \in Waiting <=> pc[x] \in Waiting
                       /\ pc'[x] = "eof" => pc[x] = "eof"
  BY DEF IndInv, TypesOK, SleepReturns, queue, qlocks, rendez, ends, bytes, bounds, Goto, Away, Closing, Waiting
<1>7. QED
  BY <1>1, <1>2, <1>3, <1>4, <1>5, <1>6, Aside

LEMMA CloseWakesKeeps ==
  ASSUME IndInv, NEW p \in Procs, CloseWakes(p)
  PROVE  IndInv'
<1> USE Roles
<1>1. TypesOK'
  BY ZenonT(60), PipeAssumption DEF IndInv, TypesOK, PlacesOK, CloseWakes, queue, qlocks, rendez, ends, bytes, bounds, Goto, Labels
<1>2. PlacesOK'
  BY ZenonT(60), <1>1, PipeAssumption DEF IndInv, TypesOK, PlacesOK, CloseWakes, queue, qlocks, rendez, ends, bytes, bounds, Goto, ReaderLabels, WriterLabels, Closing, Reading, Writing, Waiting
<1>3. LocksOK'
  <2>1. CASE pc[p] = "close_rr"
    BY SMTT(60), <1>1, <2>1, PipeAssumption DEF IndInv, TypesOK, PlacesOK, LocksOK, CloseWakes, queue, qlocks, rendez, ends, bytes, bounds, Goto, ReaderLabels, WriterLabels, Closing, Reading, Writing, Waiting
  <2>2. CASE pc[p] = "close_wr"
    <3>1. pc' = [pc EXCEPT ![p] = "closed"] /\ wr' = None /\ UNCHANGED <<rr, rlock, wlock, pl>>
      BY <2>2 DEF CloseWakes, Goto, qlocks, ends
    <3>2. \A r \in Readers : rlock' = r <=> pc'[r] \in Reading
      BY <2>2, <3>1 DEF IndInv, TypesOK, LocksOK, Reading
    <3>3. \A w \in Writers : wlock' = w <=> pc'[w] \in Writing
      BY <2>2, <3>1 DEF IndInv, TypesOK, LocksOK, Writing, Waiting
    <3>4. \A x \in Procs : pl' = x <=> pc'[x] \in Closing
      BY <2>2, <3>1 DEF IndInv, TypesOK, LocksOK, Closing
    <3>5. rr' # None => pc'[rr'] = "rasleep"
      BY <2>2, <3>1 DEF IndInv, TypesOK, LocksOK
    <3>6. QED
      BY <3>1, <3>2, <3>3, <3>4, <3>5 DEF LocksOK
  <2>3. QED
    BY <2>1, <2>2 DEF CloseWakes, Goto
<1>4. Copying' = Copying
  BY DEF IndInv, TypesOK, PlacesOK, LocksOK, CloseWakes, queue, qlocks, rendez, ends, bytes, bounds, Goto, Copying, Reading
<1>5. /\ UNCHANGED <<blocks, len, closed, queued, got, rref, wref, killed, interrupts>>
      /\ pl' = None => pl = None
  BY DEF CloseWakes, queue, qlocks, rendez, ends, bytes, bounds, Goto
<1>6. \A x \in Procs : /\ pc'[x] \in Away <=> pc[x] \in Away
                       /\ pc'[x] \in Waiting <=> pc[x] \in Waiting
                       /\ pc'[x] = "eof" => pc[x] = "eof"
  BY DEF IndInv, TypesOK, CloseWakes, queue, qlocks, rendez, ends, bytes, bounds, Goto, Away, Closing, Waiting
<1>7. QED
  BY <1>1, <1>2, <1>3, <1>4, <1>5, <1>6, Aside

-----------------------------------------------------------------------------
(* The end of the file: the queue is closed, the reader has the lock and   *)
(* no block is left.                                                       *)
LEMMA qwaitClosedKeeps ==
  ASSUME IndInv, NEW r \in Readers, qwaitClosed(r)
  PROVE  IndInv'
<1> USE Roles
<1>1. TypesOK' /\ PlacesOK'
  BY DEF IndInv, TypesOK, PlacesOK, qwaitClosed, queue, qlocks, rendez, ends, bytes, bounds, Goto, Labels,
         ReaderLabels, WriterLabels, Closing, Reading, Writing, Waiting
<1>2. LocksOK'
  BY DEF IndInv, TypesOK, PlacesOK, LocksOK, qwaitClosed, qlocks, rendez, ends, Goto,
         ReaderLabels, WriterLabels, Closing, Reading, Writing, Waiting
<1>3. Copying' = Copying /\ UNCHANGED <<blocks, len, closed, queued, got, rref, wref, pl, killed, interrupts>>
  BY DEF qwaitClosed, queue, qlocks, ends, bytes, bounds, Goto, Copying
<1>4. \A x \in Procs : /\ pc'[x] \in Away <=> pc[x] \in Away
                       /\ pc'[x] \in Waiting <=> pc[x] \in Waiting
                       /\ pc'[x] = "eof" => x = r \/ pc[x] = "eof"
  BY DEF IndInv, TypesOK, qwaitClosed, Goto, Away, Closing, Waiting
<1>5. EndsOK'
  BY <1>3, <1>4, EndsKept
<1>6. BlocksOK' /\ Load' = Load /\ Load \in Nat
  BY <1>3, StockKept, CopyingIs
<1>7. RoomOK'
  BY <1>3, <1>4, <1>6, RoomKept
<1>8. EofOK'
  <2>1. Copying = <<>> /\ blocks = <<>> /\ closed
    BY CopyingIs DEF qwaitClosed, Goto, Reading
  <2>2. Copying \o blocks = <<>>
    BY <2>1
  <2>3. got = queued
    BY <2>2 DEF IndInv, BlocksOK, Chain
  <2>4. QED
    BY <1>3, <1>4, <2>1, <2>3 DEF IndInv, EofOK
<1>9. QED
  BY <1>1, <1>2, <1>5, <1>6, <1>7, <1>8 DEF IndInv

(* A reader that leaves q->l after it took bytes. *)
LEMMA Restarts ==
  ASSUME IndInv, NEW r \in Readers, NEW from \in {"qwait", "copy"}, qwakeup_unlock(r, from)
  PROVE  /\ pc[r] = from /\ flow' \in BOOLEAN
         /\ \E to \in {"wakeup_wr", "runlock"} : pc' = [pc EXCEPT ![r] = to]
  BY DEF qwakeup_unlock, Goto, IndInv, TypesOK

(* What the steps of a reader that take, return or keep a block have in    *)
(* common.                                                                 *)
LEMMA ReadStep ==
  ASSUME IndInv, NEW r \in Readers, NEW to \in {"copy", "wakeup_wr", "runlock"},
         pc[r] \in {"qwait", "copy"}, pc' = [pc EXCEPT ![r] = to],
         blocks' \in Seq(BlockType), len' \in Nat, got' \in Nat, flow' \in BOOLEAN,
         taken' \in [Readers -> Seq(BlockType)],
         \A x \in Readers : x # r => taken'[x] = taken[x],
         IF to = "copy" THEN Len(taken'[r]) = 1 ELSE taken'[r] = <<>>,
         UNCHANGED <<starve, closed, qlocks, rendez, ends, killed, want, queued, bounds>>,
         to = "copy" => pc[r] = "qwait",
         BlocksOK', Load' \in Nat, Load' <= Load
  PROVE  IndInv'
<1> USE Roles
<1>1. TypesOK'
  BY ZenonT(60) DEF IndInv, TypesOK, qlocks, rendez, ends, bounds, Labels
<1>2. PlacesOK'
  BY DEF IndInv, TypesOK, PlacesOK, ReaderLabels, WriterLabels, Closing, Reading, Writing, Waiting
<1>3. LocksOK'
  <2>1. /\ \A x \in Readers : rlock' = x <=> pc'[x] \in Reading
        /\ \A w \in Writers : wlock' = w <=> pc'[w] \in Writing
        /\ \A p \in Procs : pl' = p <=> pc'[p] \in Closing
    BY ZenonT(60) DEF IndInv, TypesOK, LocksOK, qlocks, ends, Closing, Reading, Writing, Waiting
  <2>2. (rr' # None => pc'[rr'] = "rasleep") /\ (wr' # None => pc'[wr'] = "wasleep")
    BY DEF IndInv, TypesOK, LocksOK, rendez
  <2>3. QED
    BY <2>1, <2>2 DEF LocksOK
<1>4. \A x \in Procs : /\ pc'[x] \in Away <=> pc[x] \in Away
                       /\ pc'[x] \in Waiting <=> pc[x] \in Waiting
                       /\ pc'[x] = "eof" => pc[x] = "eof"
  BY DEF IndInv, TypesOK, Away, Closing, Waiting
<1>5. EndsOK'
  BY <1>4, EndsKept DEF ends
<1>6. RoomOK'
  BY <1>4, RoomKept DEF bounds
<1>7. EofOK'
  <2>1. ASSUME NEW x \in Readers, pc'[x] = "eof" PROVE FALSE
    <3>1. pc[x] = "eof" /\ x # r
      BY <1>4, <2>1 DEF IndInv, TypesOK
    <3>2. rlock = x /\ rlock = r
      BY <3>1, CopyingIs DEF Reading
    <3>3. QED
      BY <3>1, <3>2
  <2>2. QED
    BY <2>1 DEF EofOK
<1>8. QED
  BY <1>1, <1>2, <1>3, <1>5, <1>6, <1>7 DEF IndInv

(* The head of the queue when nobody has a block out. *)
LEMMA HeadOfQueue ==
  ASSUME IndInv, NEW r \in Readers, pc[r] = "qwait", blocks # <<>>
  PROVE  /\ Copying = <<>> /\ Copying \o blocks = blocks
         /\ Head(blocks) = blocks[1] /\ blocks[1] \in BlockType /\ Tail(blocks) \in Seq(BlockType)
         /\ Chain(blocks, got, queued) /\ blocks[1].first = got + 1
         /\ Size(Tail(blocks)) \in Nat /\ len = blocks[1].alloc + Size(Tail(blocks))
         /\ blocks \in Seq(BlockType) /\ got \in Nat /\ queued \in Nat /\ len \in Nat
         /\ want[r] \in Nat /\ want[r] # 0 /\ Load = len
<1>1. Copying = <<>>
  BY CopyingIs DEF Reading
<1>2. /\ blocks \in Seq(BlockType) /\ got \in Nat /\ queued \in Nat /\ len \in Nat
      /\ want[r] \in Nat /\ want[r] # 0
  BY Roles DEF IndInv, TypesOK, PlacesOK
<1>3. Copying \o blocks = blocks
  BY <1>1, <1>2
<1>4. Head(blocks) = blocks[1] /\ blocks[1] \in BlockType /\ Tail(blocks) \in Seq(BlockType)
  BY <1>2
<1>5. Chain(blocks, got, queued)
  BY <1>3 DEF IndInv, BlocksOK
<1>6. blocks[1].first = got + 1
  BY <1>5 DEF Chain
<1>7. Size(Tail(blocks)) \in Nat /\ len = blocks[1].alloc + Size(Tail(blocks))
  BY <1>2, <1>4, SizeNat, SizeTail DEF IndInv, BlocksOK, LenExact
<1>8. Load = len
  BY <1>1, <1>2 DEF Load
<1>9. QED
  BY <1>1, <1>2, <1>3, <1>4, <1>5, <1>6, <1>7, <1>8

LEMMA MinFacts ==
  ASSUME NEW a \in Nat, NEW b \in Nat, a # 0, b # 0
  PROVE  /\ Min2(a, b) \in Nat /\ Min2(a, b) # 0 /\ Min2(a, b) <= b /\ Min2(a, b) <= a
  BY DEF Min2

(* The rest of a block that was read in part. *)
LEMMA RestOfBlock ==
  ASSUME NEW b \in BlockType, NEW n \in Nat, n < b.n, NEW alloc \in Nat,
         b.n - n <= alloc, alloc <= Maxatomic
  PROVE  /\ Block(b.first + n, b.n - n, alloc) \in BlockType
         /\ Block(b.first + n, b.n - n, alloc).first = b.first + n
         /\ Block(b.first + n, b.n - n, alloc).n = b.n - n
         /\ Block(b.first + n, b.n - n, alloc).alloc = alloc
<1>1. b.first \in Nat /\ b.first # 0 /\ b.n \in Nat /\ b.n <= Maxatomic /\ Maxatomic \in Nat
  BY BlockFacts, PipeAssumption
<1>2. b.first + n \in Nat \ {0} /\ b.n - n \in 1..Maxatomic /\ alloc \in 1..Maxatomic
  BY <1>1
<1>3. QED
  BY <1>2 DEF Block, BlockType

LEMMA qreadKeeps ==
  ASSUME IndInv, NEW r \in Readers, qread(r)
  PROVE  IndInv'
<1> USE Roles
<1> DEFINE b == blocks[1]
<1>1. pc[r] = "qwait" /\ blocks # <<>> /\ pc' = [pc EXCEPT ![r] = "copy"]
  BY DEF qread, Goto
<1>2. /\ Copying = <<>> /\ Copying \o blocks = blocks
      /\ Head(blocks) = b /\ b \in BlockType /\ Tail(blocks) \in Seq(BlockType)
      /\ Chain(blocks, got, queued)
      /\ Size(Tail(blocks)) \in Nat /\ len = b.alloc + Size(Tail(blocks))
      /\ blocks \in Seq(BlockType) /\ got \in Nat /\ len \in Nat /\ Load = len
  BY <1>1, HeadOfQueue
<1>3. /\ taken' = [taken EXCEPT ![r] = <<b>>] /\ blocks' = Tail(blocks) /\ len' = len - b.alloc
      /\ UNCHANGED <<starve, flow, closed, qlocks, rendez, ends, killed, want, bytes, bounds>>
  BY <1>2 DEF qread
<1>4. b.alloc \in Nat
  BY <1>2, BlockFacts
<1>5. rlock = r
  BY <1>1, CopyingIs DEF Reading
<1> HIDE DEF b
<1>6. /\ <<b>> \in Seq(BlockType) /\ Len(<<b>>) = 1 /\ <<b>>[1] = b /\ <<b>> # <<>>
  BY <1>2
<1>7. taken' \in [Readers -> Seq(BlockType)] /\ taken'[r] = <<b>> /\ \A x \in Readers : x # r => taken'[x] = taken[x]
  BY <1>3, <1>6 DEF IndInv, TypesOK
<1>8. Copying' = <<b>>
  BY <1>3, <1>5, <1>7 DEF Copying, qlocks
<1>9. Copying' \o blocks' = blocks
  <2>1. <<b>> \o Tail(blocks) = blocks
    <3>1. <<Head(blocks)>> \o Tail(blocks) = blocks
      BY <1>1, <1>2, SMTT(30)
    <3>2. QED
      BY <1>2, <3>1
  <2>2. QED
    BY <1>3, <1>8, <2>1
<1>10. len' = Size(blocks') /\ len' \in Nat
  BY <1>2, <1>3, <1>4
<1>11. BlocksOK'
  BY <1>2, <1>3, <1>9, <1>10 DEF BlocksOK, LenExact, bytes
<1>12. Load' = Load /\ Load \in Nat
  <2>1. Load' = len' + b.alloc
    BY <1>6, <1>8 DEF Load
  <2>2. QED
    BY SMTT(60), <1>2, <1>3, <1>4, <2>1
<1>13. flow' \in BOOLEAN /\ got' \in Nat /\ blocks' \in Seq(BlockType) /\ queued' = queued
  BY <1>2, <1>3 DEF IndInv, TypesOK, bytes
<1>14. Load' \in Nat /\ Load' <= Load
  BY <1>12
<1>15. QED
  BY <1>1, <1>3, <1>6, <1>7, <1>10, <1>11, <1>13, <1>14, ReadStep

LEMMA qbreadKeeps ==
  ASSUME IndInv, NEW r \in Readers, qbread(r)
  PROVE  IndInv'
<1> USE Roles
<1> DEFINE b == blocks[1]
           n == Min2(want[r], b.n)
           rest == Block(b.first + n, b.n - n, b.n - n)
<1>1. pc[r] = "qwait" /\ blocks # <<>>
  BY DEF qbread
<1>2. /\ Copying = <<>> /\ Copying \o blocks = blocks
      /\ Head(blocks) = b /\ b \in BlockType /\ Tail(blocks) \in Seq(BlockType)
      /\ Chain(blocks, got, queued) /\ b.first = got + 1
      /\ Size(Tail(blocks)) \in Nat /\ len = b.alloc + Size(Tail(blocks))
      /\ blocks \in Seq(BlockType) /\ got \in Nat /\ queued \in Nat /\ len \in Nat /\ Load = len
      /\ want[r] \in Nat /\ want[r] # 0
  BY SMTT(60), <1>1, HeadOfQueue
<1>3. /\ blocks' = (IF n < b.n THEN <<rest>> ELSE <<>>) \o Tail(blocks)
      /\ len' = len - b.alloc + (IF n < b.n THEN rest.alloc ELSE 0)
      /\ got' = b.first + n - 1
      /\ UNCHANGED <<starve, closed, qlocks, rendez, ends, killed, want, taken, queued, bounds>>
      /\ qwakeup_unlock(r, "qwait")
  BY <1>2 DEF qbread
<1>4. PICK to \in {"wakeup_wr", "runlock"} : pc' = [pc EXCEPT ![r] = to]
  BY <1>3, Restarts
<1>5. flow' \in BOOLEAN
  BY <1>3, Restarts
<1>6. /\ b.first \in Nat /\ b.n \in Nat /\ b.n # 0 /\ b.n <= Maxatomic /\ b.alloc \in Nat /\ b.n <= b.alloc
      /\ Maxatomic \in Nat
  BY <1>2, BlockFacts, PipeAssumption
<1>7. n \in Nat /\ n # 0 /\ n <= b.n
  BY <1>2, <1>6, MinFacts
<1>8. rlock = r /\ taken[r] = <<>>
  BY <1>1, <1>2, CopyingIs DEF Reading
<1>9. Copying' = <<>>
  BY <1>3, <1>8 DEF Copying, qlocks
<1> HIDE DEF b, n, rest
<1>10. got' = got + n /\ got' \in Nat
  <2>1. got' = (got + 1) + n - 1
    BY <1>2, <1>3
  <2>2. QED
    BY <1>2, <1>7, <2>1
<1>11. /\ blocks' \in Seq(BlockType) /\ len' = Size(blocks') /\ len' \in Nat /\ len' <= len
       /\ Chain(blocks', got', queued)
  <2>1. CASE n < b.n
    <3>1. b.n - n \in Nat /\ b.n - n <= Maxatomic /\ b.n - n <= b.alloc
      BY <1>6, <1>7, <2>1
    <3>2. rest \in BlockType /\ rest.first = b.first + n /\ rest.n = b.n - n /\ rest.alloc = b.n - n
      <4>1. PICK m \in Nat : m = b.n - n
        BY <3>1
      <4>2. b.n - n <= m /\ m <= Maxatomic /\ rest = Block(b.first + n, b.n - n, m)
        BY <3>1, <4>1 DEF rest
      <4>3. b \in BlockType /\ n \in Nat /\ n < b.n /\ b.n - n <= m /\ m <= Maxatomic
        BY <1>2, <1>7, <2>1, <4>2
      <4>4. /\ Block(b.first + n, b.n - n, m) \in BlockType
            /\ Block(b.first + n, b.n - n, m).first = b.first + n
            /\ Block(b.first + n, b.n - n, m).n = b.n - n
            /\ Block(b.first + n, b.n - n, m).alloc = m
        BY <4>3, RestOfBlock
      <4>5. QED
        BY <4>1, <4>2, <4>4
    <3>3. blocks' = <<rest>> \o Tail(blocks) /\ len' = len - b.alloc + rest.alloc
      BY <1>3, <2>1
    <3>4. blocks' \in Seq(BlockType)
      BY <1>2, <3>2, <3>3
    <3>5. Size(blocks') = rest.alloc + Size(Tail(blocks))
      BY <1>2, <3>2, <3>3, SizeFront
    <3>6. len' = Size(blocks') /\ len' \in Nat /\ len' <= len
      <4>1. rest.alloc \in Nat /\ rest.alloc <= b.alloc
        BY <3>1, <3>2
      <4>2. len' = Size(Tail(blocks)) + rest.alloc
        BY <1>2, <1>6, <3>3, <4>1
      <4>3. Size(Tail(blocks)) \in Nat /\ len = b.alloc + Size(Tail(blocks)) /\ b.alloc \in Nat
        BY <1>2, <1>6
      <4>4. QED
        BY <3>5, <4>1, <4>2, <4>3
    <3>7. Chain(<<rest>> \o Tail(blocks), got + n, queued)
      BY <1>1, <1>2, <1>7, <2>1, <3>2, ChainCut DEF b
    <3>8. QED
      BY <1>10, <3>3, <3>4, <3>6, <3>7
  <2>2. CASE ~ (n < b.n)
    <3>1. n = b.n
      BY <1>6, <1>7, <2>2
    <3>2. blocks' = Tail(blocks) /\ len' = len - b.alloc
      BY <1>2, <1>3, <1>6, <2>2
    <3>3. len' = Size(blocks') /\ len' \in Nat /\ len' <= len
      BY <1>2, <1>6, <3>2
    <3>4. Chain(Tail(blocks), got + n, queued)
      BY <1>1, <1>2, <3>1, ChainTail DEF b
    <3>5. QED
      BY <1>2, <1>10, <3>2, <3>3, <3>4
  <2>3. QED
    BY <2>1, <2>2
<1>12. Copying' \o blocks' = blocks'
  BY <1>9, <1>11
<1>13. BlocksOK'
  BY <1>3, <1>11, <1>12 DEF BlocksOK, LenExact
<1>14. Load' \in Nat /\ Load' <= Load
  BY <1>2, <1>9, <1>11 DEF Load
<1>15. taken' \in [Readers -> Seq(BlockType)] /\ taken'[r] = <<>> /\ \A x \in Readers : taken'[x] = taken[x]
  BY <1>3, <1>8 DEF IndInv, TypesOK
<1>16. to \in {"copy", "wakeup_wr", "runlock"} /\ to # "copy"
  BY <1>4
<1>17. QED
  BY <1>1, <1>3, <1>4, <1>5, <1>10, <1>11, <1>13, <1>14, <1>15, <1>16, ReadStep

LEMMA CopyDoneKeeps ==
  ASSUME IndInv, NEW r \in Readers, CopyDone(r)
  PROVE  IndInv'
<1> USE Roles
<1> DEFINE b == taken[r][1]
           n == Min2(want[r], b.n)
           rest == Block(b.first + n, b.n - n, b.alloc)
           stock == <<b>> \o blocks
<1>1. pc[r] = "copy"
  BY DEF CopyDone
<1>2. /\ rlock = r /\ Copying = taken[r] /\ Len(Copying) = 1 /\ b \in BlockType
      /\ Copying = <<b>> /\ Copying # <<>> /\ Load \in Nat
  BY <1>1, CopyingIs DEF Reading
<1>3. /\ blocks' = (IF n < b.n THEN <<rest>> \o blocks ELSE blocks)
      /\ len' = (IF n < b.n THEN len + b.alloc ELSE len)
      /\ got' = b.first + n - 1
      /\ taken' = [taken EXCEPT ![r] = <<>>]
      /\ UNCHANGED <<starve, closed, qlocks, rendez, ends, killed, want, queued, bounds>>
      /\ qwakeup_unlock(r, "copy")
  BY DEF CopyDone, qputback
<1>4. PICK to \in {"wakeup_wr", "runlock"} : pc' = [pc EXCEPT ![r] = to]
  BY <1>3, Restarts
<1>5. flow' \in BOOLEAN
  BY <1>3, Restarts
<1>6. /\ b.first \in Nat /\ b.n \in Nat /\ b.n # 0 /\ b.n <= Maxatomic /\ b.alloc \in Nat /\ b.n <= b.alloc
      /\ b.alloc <= Maxatomic
  BY <1>2, BlockFacts
<1>7. /\ blocks \in Seq(BlockType) /\ len \in Nat /\ got \in Nat /\ queued \in Nat
      /\ want[r] \in Nat /\ want[r] # 0
  BY <1>1 DEF IndInv, TypesOK, PlacesOK
<1>8. n \in Nat /\ n # 0 /\ n <= b.n
  BY <1>6, <1>7, MinFacts
<1>9. len = Size(blocks)
  BY DEF IndInv, BlocksOK, LenExact
<1>10. Load = len + b.alloc
  BY <1>2 DEF Load
<1>11. Chain(stock, got, queued)
  BY <1>2 DEF IndInv, BlocksOK
<1> HIDE DEF b, n, rest
<1>12. /\ stock \in Seq(BlockType) /\ stock # <<>> /\ stock[1] = b /\ Tail(stock) = blocks
  BY <1>2, <1>7, SMTT(30)
<1> HIDE DEF stock
<1>13. b.first = got + 1
  BY <1>11, <1>12 DEF Chain
<1>14. got' = got + n /\ got' \in Nat
  BY <1>3, <1>6, <1>7, <1>8, <1>13
<1>15. taken' \in [Readers -> Seq(BlockType)] /\ taken'[r] = <<>> /\ \A x \in Readers : x # r => taken'[x] = taken[x]
  BY <1>3 DEF IndInv, TypesOK
<1>16. Copying' = <<>>
  BY <1>2, <1>3, <1>15 DEF Copying, qlocks
<1>17. /\ blocks' \in Seq(BlockType) /\ len' = Size(blocks') /\ len' \in Nat /\ len' <= Load
       /\ Chain(blocks', got', queued)
  <2>1. CASE n < b.n
    <3>1. rest \in BlockType /\ rest.first = b.first + n /\ rest.n = b.n - n /\ rest.alloc = b.alloc
      <4>1. b.n - n <= b.alloc
        BY <1>6, <1>8
      <4>2. QED
        BY <1>2, <1>6, <1>8, <2>1, <4>1, RestOfBlock DEF rest
    <3>2. blocks' = <<rest>> \o blocks /\ len' = len + b.alloc
      BY <1>3, <2>1
    <3>3. blocks' \in Seq(BlockType)
      BY <1>7, <3>1, <3>2
    <3>4. Size(blocks') = rest.alloc + Size(blocks)
      BY <1>7, <3>1, <3>2, SizeFront
    <3>5. len' = Size(blocks') /\ len' \in Nat /\ len' <= Load
      BY <1>6, <1>7, <1>9, <1>10, <3>1, <3>2, <3>4
    <3>6. Chain(<<rest>> \o Tail(stock), got + n, queued)
      BY <1>7, <1>8, <1>11, <1>12, <2>1, <3>1, ChainCut
    <3>7. QED
      BY <1>12, <1>14, <3>2, <3>3, <3>5, <3>6
  <2>2. CASE ~ (n < b.n)
    <3>1. n = b.n
      BY <1>6, <1>8, <2>2
    <3>2. blocks' = blocks /\ len' = len
      BY <1>3, <2>2
    <3>3. Chain(Tail(stock), got + n, queued)
      BY <1>7, <1>11, <1>12, <3>1, ChainTail
    <3>4. len <= Load
      BY <1>6, <1>7, <1>10
    <3>5. QED
      BY <1>7, <1>9, <1>12, <1>14, <3>2, <3>3, <3>4
  <2>3. QED
    BY <2>1, <2>2
<1>18. Copying' \o blocks' = blocks'
  BY <1>16, <1>17
<1>19. BlocksOK'
  BY <1>3, <1>17, <1>18 DEF BlocksOK, LenExact
<1>20. Load' \in Nat /\ Load' <= Load
  BY <1>16, <1>17 DEF Load
<1>21. to \in {"copy", "wakeup_wr", "runlock"} /\ to # "copy"
  BY <1>4
<1>22. QED
  BY <1>1, <1>3, <1>4, <1>5, <1>14, <1>15, <1>17, <1>19, <1>20, <1>21, ReadStep

(* Only the writer that has the QLock can be waiting. *)
LEMMA OneWriter ==
  ASSUME IndInv, NEW w \in Writers, pc[w] \in Writing
  PROVE  \A v \in Writers : v # w => pc[v] \notin Writing
  BY DEF IndInv, LocksOK

LEMMA PutBlockKeeps ==
  ASSUME IndInv, NEW w \in Writers, PutBlock(w)
  PROVE  IndInv'
<1> USE Roles
<1> DEFINE n == Min2(want[w], Maxatomic)
           b == Block(queued + 1, n, n)
<1>1. PICK to \in {"wakeup_rr", "full"} : pc' = [pc EXCEPT ![w] = to]
  BY DEF PutBlock, Goto
<1>2. /\ pc[w] = "put" /\ ~closed
      /\ blocks' = Append(blocks, b) /\ len' = len + n /\ queued' = queued + n
      /\ want' = [want EXCEPT ![w] = @ - n] /\ starve' = FALSE
      /\ UNCHANGED <<flow, closed, qlocks, rendez, ends, killed, taken, got, bounds>>
  BY DEF PutBlock, Goto
<1>3. /\ blocks \in Seq(BlockType) /\ len \in Nat /\ queued \in Nat /\ got \in Nat
      /\ want[w] \in Nat /\ want[w] # 0 /\ Maxatomic \in Nat /\ Maxatomic # 0
  BY <1>2, PipeAssumption DEF IndInv, TypesOK, PlacesOK
<1>4. n \in Nat /\ n # 0 /\ n <= Maxatomic /\ n <= want[w]
  BY <1>3, MinFacts
<1> HIDE DEF n
<1>5. b \in BlockType /\ b.first = queued + 1 /\ b.n = n /\ b.alloc = n
  BY <1>3, <1>4 DEF Block, BlockType
<1> HIDE DEF b
<1>6. blocks' \in Seq(BlockType) /\ len' \in Nat /\ queued' \in Nat /\ want[w] - n \in Nat
  BY SMTT(60), <1>2, <1>3, <1>4, <1>5
<1>7. TypesOK'
  BY <1>1, <1>2, <1>6 DEF IndInv, TypesOK, qlocks, rendez, ends, bounds, Labels
<1>8. PlacesOK'
  BY <1>1, <1>2, <1>7 DEF IndInv, TypesOK, PlacesOK, ReaderLabels, WriterLabels, Closing, Reading, Writing, Waiting
<1>9. LocksOK'
  <2>1. /\ \A x \in Readers : rlock' = x <=> pc'[x] \in Reading
        /\ \A v \in Writers : wlock' = v <=> pc'[v] \in Writing
        /\ \A p \in Procs : pl' = p <=> pc'[p] \in Closing
    BY <1>1, <1>2 DEF IndInv, TypesOK, LocksOK, qlocks, ends, Closing, Reading, Writing, Waiting
  <2>2. (rr' # None => pc'[rr'] = "rasleep") /\ (wr' # None => pc'[wr'] = "wasleep")
    BY <1>1, <1>2 DEF IndInv, TypesOK, LocksOK, rendez
  <2>3. QED
    BY <2>1, <2>2 DEF LocksOK
<1>10. EndsOK'
  <2>1. \A p \in Procs : pc'[p] \in Away <=> pc[p] \in Away
    BY <1>1, <1>2 DEF IndInv, TypesOK, Away, Closing
  <2>2. QED
    BY <1>2, <2>1, EndsKept DEF ends
<1>11. Copying' = Copying /\ Copying \in Seq(BlockType)
  BY <1>2, CopyingIs DEF Copying, qlocks
<1>12. BlocksOK'
  <2>1. Copying' \o blocks' = Append(Copying \o blocks, b)
    <3>1. Copying \o Append(blocks, b) = Append(Copying \o blocks, b)
      BY <1>3, <1>5, <1>11, SMTT(30)
    <3>2. QED
      BY <1>2, <1>11, <3>1
  <2>2. Copying \o blocks \in Seq(BlockType) /\ Chain(Copying \o blocks, got, queued)
    BY <1>3, <1>11 DEF IndInv, BlocksOK
  <2>3. Chain(Append(Copying \o blocks, b), got, queued + n)
    BY <1>3, <1>5, <2>2, ChainAppend
  <2>4. len' = Size(blocks')
    BY <1>2, <1>3, <1>5, SizeAppend DEF IndInv, BlocksOK, LenExact
  <2>5. QED
    BY <1>2, <2>1, <2>3, <2>4 DEF BlocksOK, LenExact
<1>13. EofOK'
  BY <1>1, <1>2 DEF IndInv, TypesOK, EofOK
<1>14. RoomOK'
  <2>1. Load' = Load + n /\ Load \in Nat
    <3>1. Load \in Nat /\ (Copying # <<>> => Copying[1].alloc \in Nat)
      BY <1>11, CopyingIs, BlockFacts
    <3>2. QED
      BY <1>2, <1>3, <1>4, <1>11, <3>1 DEF Load
  <2>2. \A v \in Writers : pc[v] \notin Waiting
    BY <1>2, OneWriter DEF Writing, Waiting
  <2>3. Spent \in Nat /\ Load < Room(1 + Spent)
    BY <2>2 DEF IndInv, RoomOK
  <2>4. Spent' = Spent
    BY <1>2 DEF Spent, Marked, bounds
  <2>5. 1 + Spent \in Nat /\ (1 + Spent) + 1 = 2 + Spent
    BY <2>3
  <2>6. Room(2 + Spent) = Room(1 + Spent) + Maxatomic /\ Room(1 + Spent) \in Nat
    BY <2>5, RoomGrows
  <2>7. Room(2 + Spent)' = Room(2 + Spent)
    BY <2>4 DEF Room
  <2>8. Load' < Room(2 + Spent)'
    BY <1>3, <1>4, <2>1, <2>3, <2>6, <2>7
  <2>9. pc'[w] \in Waiting
    BY <1>1 DEF IndInv, TypesOK, Waiting
  <2>10. QED
    BY <1>2, <2>3, <2>4, <2>8, <2>9 DEF RoomOK
<1>15. QED
  BY <1>7, <1>8, <1>9, <1>10, <1>12, <1>13, <1>14 DEF IndInv

(* The writer stops waiting when there is room, or the queue is closed. *)
LEMMA TestFullKeeps ==
  ASSUME IndInv, NEW w \in Writers, TestFull(w)
  PROVE  IndInv'
<1> USE Roles
<1>1. /\ pc[w] = "full" /\ pc' = [pc EXCEPT ![w] = IF qnotfull THEN "wunlock" ELSE "setflow"]
      /\ UNCHANGED <<queue, qlocks, rendez, ends, killed, want, taken, bytes, bounds>>
  BY DEF TestFull, Goto
<1>2. PICK to \in {"wunlock", "setflow"} : pc' = [pc EXCEPT ![w] = to] /\ (to = "wunlock" => qnotfull)
  <2>1. CASE qnotfull
    BY <1>1, <2>1
  <2>2. CASE ~ qnotfull
    BY <1>1, <2>2
  <2>3. QED
    BY <2>1, <2>2
<1>3. TypesOK'
  BY <1>1, <1>2 DEF IndInv, TypesOK, queue, qlocks, rendez, ends, bytes, bounds, Labels
<1>4. PlacesOK'
  BY ZenonT(60), <1>1, <1>2, <1>3 DEF IndInv, TypesOK, PlacesOK, ReaderLabels, WriterLabels, Closing, Reading, Writing, Waiting
<1>5. LocksOK'
  BY ZenonT(60), <1>1, <1>2, <1>3 DEF IndInv, TypesOK, LocksOK, qlocks, rendez, ends, Closing, Reading, Writing, Waiting
<1>6. Copying' = Copying /\ UNCHANGED <<blocks, len, closed, queued, got, rref, wref, pl, killed, interrupts>>
  BY <1>1 DEF Copying, queue, qlocks, ends, bytes, bounds
<1>7. \A x \in Procs : /\ pc'[x] \in Away <=> pc[x] \in Away
                       /\ pc'[x] = "eof" => pc[x] = "eof"
  BY <1>1, <1>2 DEF IndInv, TypesOK, Away, Closing
<1>8. EndsOK'
  BY <1>6, <1>7, EndsKept
<1>9. BlocksOK' /\ Load' = Load /\ Load \in Nat
  BY <1>6, StockKept, CopyingIs
<1>10. EofOK'
  BY <1>6, <1>7 DEF IndInv, EofOK
<1>11. RoomOK'
  <2>1. CASE to = "setflow"
    <3>1. \A v \in Writers : pc'[v] \in Waiting <=> pc[v] \in Waiting
      BY <1>1, <1>2, <2>1 DEF IndInv, TypesOK, Waiting
    <3>2. QED
      BY <1>6, <1>9, <3>1, RoomKept
  <2>2. CASE to = "wunlock"
    <3>1. Spent \in Nat /\ Load < Room(2 + Spent) /\ Limit \in Nat /\ Maxatomic \in Nat /\ Limit # 0
      BY PipeAssumption DEF IndInv, RoomOK
    <3>2. Limit + Maxatomic <= Room(1 + Spent) /\ Room(1 + Spent) \in Nat
      <4>1. Spent + 1 = 1 + Spent /\ 1 + Spent \in Nat
        BY <3>1
      <4>2. QED
        BY <3>1, <4>1, RoomGrows
    <3>3. Load < Room(1 + Spent)
      <4>1. CASE closed
        <5>1. Load = 0
          BY <1>1, <4>1 DEF IndInv, RoomOK, Waiting
        <5>2. QED
          BY <3>1, <3>2, <5>1
      <4>2. CASE ~closed
        <5>1. len < Limit /\ len \in Nat
          BY <1>2, <2>2, <4>2 DEF qnotfull, IndInv, TypesOK
        <5>2. Copying # <<>> => Copying[1].alloc \in Nat /\ Copying[1].alloc <= Maxatomic
          BY CopyingIs, BlockFacts
        <5>3. Load < Limit + Maxatomic
          BY <3>1, <5>1, <5>2, PipeAssumption DEF Load
        <5>4. QED
          BY <1>9, <3>1, <3>2, <5>3
      <4>3. QED
        BY <4>1, <4>2
    <3>4. Spent' = Spent
      BY <1>6 DEF Spent, Marked
    <3>5. Room(2 + Spent)' = Room(2 + Spent) /\ Room(1 + Spent)' = Room(1 + Spent)
      BY <3>4 DEF Room
    <3>6. \A v \in Writers : pc'[v] \notin Waiting
      BY <1>1, <1>2, <2>2, OneWriter DEF IndInv, TypesOK, Writing, Waiting
    <3>7. QED
      BY <1>9, <3>1, <3>3, <3>4, <3>5, <3>6 DEF RoomOK
  <2>3. QED
    BY <2>1, <2>2
<1>12. QED
  BY <1>3, <1>4, <1>5, <1>8, <1>9, <1>10, <1>11 DEF IndInv

-----------------------------------------------------------------------------
(* Interrupts: the mark is counted until it has ended a call, and then the *)
(* call is.                                                                *)
LEMMA InterruptKeeps ==
  ASSUME IndInv, NEW p \in Procs, Interrupt(p)
  PROVE  IndInv'
<1> USE Roles
<1>1. /\ ~killed[p] /\ interrupts > 0 /\ interrupts' = interrupts - 1
      /\ killed' = [killed EXCEPT ![p] = TRUE]
      /\ rr' = (IF rr = p THEN None ELSE rr) /\ wr' = (IF wr = p THEN None ELSE wr)
      /\ UNCHANGED <<queue, qlocks, ends, pc, want, taken, bytes, todo, opens>>
  BY DEF Interrupt
<1>2. TypesOK'
  BY SMTT(60), <1>1, PipeAssumption DEF IndInv, TypesOK, queue, qlocks, ends, bytes
<1>3. PlacesOK' /\ EofOK'
  BY <1>1 DEF IndInv, PlacesOK, EofOK, queue, bytes
<1>4. LocksOK'
  BY <1>1 DEF IndInv, TypesOK, LocksOK, qlocks, ends
<1>5. Copying' = Copying /\ UNCHANGED <<blocks, len, closed, queued, got, rref, wref, pl, pc>>
  BY <1>1 DEF Copying, queue, qlocks, ends, bytes
<1>6. EndsOK'
  BY <1>5, EndsKept
<1>7. BlocksOK' /\ Load' = Load
  BY <1>5, StockKept
<1>8. Spent' = Spent
  <2>1. p \notin Marked /\ Marked' = Marked \cup {p}
    BY <1>1 DEF Marked, IndInv, TypesOK
  <2>2. Cardinality(Marked') = Cardinality(Marked) + 1 /\ Cardinality(Marked) \in Nat
    BY <2>1, InsAreFinite, OneMore
  <2>3. interrupts \in Nat /\ MaxInterrupts \in Nat
    BY PipeAssumption DEF IndInv, TypesOK
  <2>4. QED
    BY <1>1, <2>2, <2>3 DEF Spent
<1>9. Room(2 + Spent)' = Room(2 + Spent) /\ Room(1 + Spent)' = Room(1 + Spent)
  BY <1>8 DEF Room
<1>10. RoomOK'
  BY <1>5, <1>7, <1>8, <1>9 DEF IndInv, RoomOK
<1>11. QED
  BY <1>2, <1>3, <1>4, <1>6, <1>7, <1>10 DEF IndInv

LEMMA SleepInterruptedKeeps ==
  ASSUME IndInv, NEW p \in Procs, SleepInterrupted(p)
  PROVE  IndInv'
<1> USE Roles
<1>1. PICK from \in {"rsleep", "rasleep", "wsleep", "wasleep"}, to \in {"runlock", "wunlock"} :
        /\ pc[p] = from /\ pc' = [pc EXCEPT ![p] = to]
        /\ from \in {"rsleep", "rasleep"} <=> to = "runlock"
        /\ from = "rasleep" => rr # p
        /\ from = "wasleep" => wr # p
  BY DEF SleepInterrupted, Goto
<1>2. /\ killed[p] /\ killed' = [killed EXCEPT ![p] = FALSE] /\ want' = [want EXCEPT ![p] = 0]
      /\ UNCHANGED <<queue, qlocks, rendez, ends, taken, bytes, bounds>>
  BY DEF SleepInterrupted
<1>3. TypesOK'
  BY <1>1, <1>2 DEF IndInv, TypesOK, queue, qlocks, rendez, ends, bytes, bounds, Labels
<1>4. PlacesOK'
  <2>1. p \in Readers <=> to = "runlock"
    BY <1>1 DEF IndInv, PlacesOK, ReaderLabels, WriterLabels, Closing, Reading, Writing, Waiting, Procs
  <2>2. \A r \in Readers :
       /\ pc'[r] \in ReaderLabels
       /\ pc'[r] \in {"rlock", "qwait", "rsleep", "rasleep", "copy"} => want'[r] # 0
       /\ IF pc'[r] = "copy" THEN Len(taken'[r]) = 1 ELSE taken'[r] = <<>>
    BY <1>1, <1>2, <2>1 DEF IndInv, TypesOK, PlacesOK, ReaderLabels, Closing, Reading
  <2>3. \A w \in Writers :
       /\ pc'[w] \in WriterLabels
       /\ pc'[w] \in {"wlock", "put"} => want'[w] # 0
    BY <1>1, <1>2, <2>1 DEF IndInv, TypesOK, PlacesOK, WriterLabels, Closing, Writing, Waiting
  <2>4. QED
    BY <2>2, <2>3 DEF PlacesOK
<1>5. LocksOK'
  <2>1. /\ \A x \in Readers : rlock' = x <=> pc'[x] \in Reading
        /\ \A w \in Writers : wlock' = w <=> pc'[w] \in Writing
        /\ \A x \in Procs : pl' = x <=> pc'[x] \in Closing
    BY <1>1, <1>2 DEF IndInv, TypesOK, PlacesOK, LocksOK, qlocks, ends, ReaderLabels, WriterLabels,
       Closing, Reading, Writing, Waiting
  <2>2. (rr' # None => pc'[rr'] = "rasleep") /\ (wr' # None => pc'[wr'] = "wasleep")
    BY <1>1, <1>2 DEF IndInv, TypesOK, LocksOK, rendez
  <2>3. QED
    BY <2>1, <2>2 DEF LocksOK
<1>6. Copying' = Copying /\ UNCHANGED <<blocks, len, closed, queued, got, rref, wref, pl>>
  BY <1>2 DEF Copying, queue, qlocks, ends, bytes
<1>7. \A x \in Procs : /\ pc'[x] \in Away <=> pc[x] \in Away
                       /\ pc'[x] = "eof" => pc[x] = "eof"
                       /\ pc'[x] \in Waiting => pc[x] \in Waiting
  BY <1>1 DEF IndInv, TypesOK, Away, Closing, Waiting
<1>8. EndsOK'
  BY <1>6, <1>7, EndsKept
<1>9. BlocksOK' /\ Load' = Load /\ Load \in Nat
  BY <1>6, StockKept, CopyingIs
<1>10. EofOK'
  BY <1>6, <1>7 DEF IndInv, EofOK
<1>11. Spent' = Spent + 1 /\ Spent \in Nat
  <2>1. p \in Marked /\ Marked' = Marked \ {p}
    BY <1>2 DEF Marked, IndInv, TypesOK
  <2>2. Cardinality(Marked') = Cardinality(Marked) - 1 /\ Cardinality(Marked) \in Nat
    BY <2>1, InsAreFinite, OneLess
  <2>3. interrupts \in Nat /\ MaxInterrupts \in Nat /\ interrupts' = interrupts /\ Spent \in Nat
    BY <1>2, PipeAssumption DEF IndInv, TypesOK, RoomOK, bounds
  <2>4. QED
    BY <2>2, <2>3 DEF Spent
<1>12. RoomOK'
  <2>1. Load < Room(2 + Spent) /\ (closed /\ (\E w \in Writers : pc[w] \in Waiting) => Load = 0)
    BY DEF IndInv, RoomOK
  <2>2. 1 + Spent' = 2 + Spent /\ 2 + Spent' = (2 + Spent) + 1 /\ 2 + Spent \in Nat /\ Spent' \in Nat
    BY <1>11
  <2>3. Room(1 + Spent)' = Room(2 + Spent) /\ Room(2 + Spent)' = Room((2 + Spent) + 1)
    BY <2>2 DEF Room
  <2>4. Room((2 + Spent) + 1) = Room(2 + Spent) + Maxatomic /\ Room(2 + Spent) \in Nat /\ Maxatomic \in Nat
    BY <2>2, RoomGrows, PipeAssumption
  <2>5. Load' < Room(1 + Spent)' /\ Load' < Room(2 + Spent)'
    BY <1>9, <2>1, <2>3, <2>4
  <2>6. closed' /\ (\E w \in Writers : pc'[w] \in Waiting) => Load' = 0
    BY <1>6, <1>7, <1>9, <2>1
  <2>7. QED
    BY <2>2, <2>5, <2>6 DEF RoomOK
<1>13. QED
  BY <1>3, <1>4, <1>5, <1>8, <1>9, <1>10, <1>12 DEF IndInv

-----------------------------------------------------------------------------
(* Opening and closing an end. *)
LEMMA OpenKeeps ==
  ASSUME IndInv, NEW p \in Procs, Open(p)
  PROVE  IndInv'
<1> USE Roles
<1>1. /\ pc[p] = "out" /\ pc' = [pc EXCEPT ![p] = "idle"] /\ opens > 0 /\ opens' = opens - 1 /\ pl = None
      /\ IF p \in Readers THEN rref' = rref + 1 /\ wref' = wref ELSE wref' = wref + 1 /\ rref' = rref
      /\ UNCHANGED <<queue, qlocks, rendez, pl, killed, want, taken, bytes, todo, interrupts>>
  BY DEF Open, Goto
<1>2. TypesOK'
  BY SMTT(60), <1>1 DEF IndInv, TypesOK, queue, qlocks, rendez, bytes, Labels
<1>3. PlacesOK'
  BY <1>1, <1>2 DEF IndInv, TypesOK, PlacesOK, ReaderLabels, WriterLabels, Closing, Reading, Writing, Waiting
<1>4. LocksOK'
  <2>1. /\ \A x \in Readers : rlock' = x <=> pc'[x] \in Reading
        /\ \A w \in Writers : wlock' = w <=> pc'[w] \in Writing
        /\ \A x \in Procs : pl' = x <=> pc'[x] \in Closing
    BY <1>1 DEF IndInv, TypesOK, LocksOK, qlocks, Closing, Reading, Writing, Waiting
  <2>2. (rr' # None => pc'[rr'] = "rasleep") /\ (wr' # None => pc'[wr'] = "wasleep")
    BY <1>1 DEF IndInv, TypesOK, LocksOK, rendez
  <2>3. QED
    BY <2>1, <2>2 DEF LocksOK
<1>5. Copying' = Copying /\ UNCHANGED <<blocks, len, closed, queued, got, killed, interrupts>>
  BY <1>1 DEF Copying, queue, qlocks, bytes
<1>6. BlocksOK' /\ Load' = Load /\ Load \in Nat
  BY <1>5, StockKept, CopyingIs
<1>7. \A x \in Procs : /\ pc'[x] = "eof" => pc[x] = "eof"
                       /\ pc'[x] \in Waiting <=> pc[x] \in Waiting
                       /\ x # p => pc'[x] = pc[x]
  BY <1>1 DEF IndInv, TypesOK, Waiting
<1>8. EofOK'
  BY <1>5, <1>7 DEF IndInv, EofOK
<1>9. RoomOK'
  BY <1>5, <1>6, <1>7, RoomKept
<1>10. EndsOK'
  <2>1. pc[p] \in Away /\ pc'[p] \notin Away
    BY <1>1 DEF IndInv, TypesOK, Away, Closing
  <2>2. rref = Cardinality(ReadersIn) /\ wref = Cardinality(WritersIn) /\ rref \in Nat /\ wref \in Nat
    BY DEF IndInv, EndsOK, TypesOK
  <2>3. CASE p \in Readers
    <3>1. p \notin ReadersIn /\ ReadersIn' = ReadersIn \cup {p} /\ WritersIn' = WritersIn
      BY <1>7, <2>1, <2>3 DEF ReadersIn, WritersIn
    <3>2. Cardinality(ReadersIn') = Cardinality(ReadersIn) + 1
      BY <3>1, InsAreFinite, OneMore
    <3>3. rref' = rref + 1 /\ wref' = wref
      BY <1>1, <2>3
    <3>4. QED
      BY <2>2, <3>1, <3>2, <3>3 DEF EndsOK
  <2>4. CASE p \notin Readers
    <3>1. p \in Writers
      BY <2>4 DEF Procs
    <3>2. p \notin WritersIn /\ WritersIn' = WritersIn \cup {p} /\ ReadersIn' = ReadersIn
      BY <1>7, <2>1, <3>1 DEF ReadersIn, WritersIn
    <3>3. Cardinality(WritersIn') = Cardinality(WritersIn) + 1
      BY <3>2, InsAreFinite, OneMore
    <3>4. wref' = wref + 1 /\ rref' = rref
      BY <1>1, <2>4
    <3>5. QED
      BY <2>2, <3>2, <3>3, <3>4 DEF EndsOK
  <2>5. QED
    BY <2>3, <2>4
<1>11. QED
  BY <1>2, <1>3, <1>4, <1>6, <1>8, <1>9, <1>10 DEF IndInv

(* Who is the last of its end. *)
LEMMA LastReader ==
  ASSUME IndInv, NEW r \in Readers, rref = 1, pc[r] = "idle"
  PROVE  \A x \in Readers : pc[x] \notin Reading
<1>1. SUFFICES ASSUME NEW x \in Readers, pc[x] \in Reading PROVE FALSE
  OBVIOUS
<1>2. r \in ReadersIn /\ x \in ReadersIn \ {r}
  BY <1>1 DEF ReadersIn, Away, Closing, Reading
<1>3. IsFiniteSet(ReadersIn) /\ Cardinality(ReadersIn) = 1
  BY InsAreFinite DEF IndInv, EndsOK
<1>4. IsFiniteSet(ReadersIn \ {r}) /\ Cardinality(ReadersIn \ {r}) = 0
  BY <1>2, <1>3, OneLess
<1>5. QED
  BY <1>2, <1>4, Counted

LEMMA LastWriter ==
  ASSUME IndInv, NEW w \in Writers, wref = 1, pc[w] = "idle"
  PROVE  \A x \in Writers : pc[x] \notin Writing
<1>1. SUFFICES ASSUME NEW x \in Writers, pc[x] \in Writing PROVE FALSE
  OBVIOUS
<1>2. w \in WritersIn /\ x \in WritersIn \ {w}
  BY <1>1 DEF WritersIn, Away, Closing, Writing, Waiting
<1>3. IsFiniteSet(WritersIn) /\ Cardinality(WritersIn) = 1
  BY InsAreFinite DEF IndInv, EndsOK
<1>4. IsFiniteSet(WritersIn \ {w}) /\ Cardinality(WritersIn \ {w}) = 0
  BY <1>2, <1>3, OneLess
<1>5. QED
  BY <1>2, <1>4, Counted

(* A process starts to close its end: it is idle and takes the QLock of    *)
(* the pipe.                                                               *)
LEMMA CloseStep ==
  ASSUME IndInv, NEW p \in Procs, NEW to \in {"close_rr", "closed"},
         pc[p] = "idle", pc' = [pc EXCEPT ![p] = to], pl = None, pl' = p,
         blocks' \in Seq(BlockType), len' \in Nat, got' \in Nat,
         starve' \in BOOLEAN, flow' \in BOOLEAN, closed' \in BOOLEAN,
         rref' \in Nat, wref' \in Nat,
         UNCHANGED <<qlocks, rendez, killed, want, taken, queued, bounds>>
  PROVE  /\ TypesOK' /\ PlacesOK' /\ LocksOK' /\ Copying' = Copying
         /\ \A x \in Procs : /\ pc'[x] = "eof" => pc[x] = "eof"
                             /\ pc'[x] \in Waiting <=> pc[x] \in Waiting
                             /\ x # p => pc'[x] = pc[x]
         /\ pc[p] \notin Away /\ pc'[p] \in Away
<1> USE Roles
<1>1. TypesOK'
  BY DEF IndInv, TypesOK, qlocks, rendez, bounds, Labels
<1>2. PlacesOK'
  BY <1>1 DEF IndInv, TypesOK, PlacesOK, ReaderLabels, WriterLabels, Closing, Reading, Writing, Waiting
<1>3. LocksOK'
  <2>1. /\ \A x \in Readers : rlock' = x <=> pc'[x] \in Reading
        /\ \A w \in Writers : wlock' = w <=> pc'[w] \in Writing
    BY DEF IndInv, TypesOK, LocksOK, qlocks, Closing, Reading, Writing, Waiting
  <2>2. \A x \in Procs : pl' = x <=> pc'[x] \in Closing
    <3>1. \A x \in Procs : pc[x] \notin Closing
      BY PipeAssumption DEF IndInv, LocksOK, Procs
    <3>2. \A x \in Procs : x # p => pc'[x] = pc[x]
      BY DEF IndInv, TypesOK
    <3>3. pc'[p] \in Closing
      BY DEF IndInv, TypesOK, Closing
    <3>4. QED
      BY <3>1, <3>2, <3>3
  <2>3. (rr' # None => pc'[rr'] = "rasleep") /\ (wr' # None => pc'[wr'] = "wasleep")
    BY DEF IndInv, TypesOK, LocksOK, rendez
  <2>4. QED
    BY <2>1, <2>2, <2>3 DEF LocksOK
<1>4. Copying' = Copying
  BY DEF Copying, qlocks
<1>5. /\ \A x \in Procs : /\ pc'[x] = "eof" => pc[x] = "eof"
                          /\ pc'[x] \in Waiting <=> pc[x] \in Waiting
                          /\ x # p => pc'[x] = pc[x]
      /\ pc[p] \notin Away /\ pc'[p] \in Away
  BY DEF IndInv, TypesOK, Away, Closing, Waiting
<1>6. QED
  BY <1>1, <1>2, <1>3, <1>4, <1>5

LEMMA CloseReaderKeeps ==
  ASSUME IndInv, NEW r \in Readers, CloseReader(r)
  PROVE  IndInv'
<1> USE Roles
<1>1. /\ pl = None /\ pl' = r /\ rref' = rref - 1 /\ pc[r] = "idle"
      /\ UNCHANGED <<qlocks, rendez, wref, killed, want, taken, queued, bounds>>
  BY DEF CloseReader, Goto
<1>2. /\ rref = 1 => /\ closed' = TRUE /\ flow' = FALSE /\ starve' = FALSE
                     /\ blocks' = <<>> /\ len' = 0 /\ got' = queued
      /\ rref # 1 => UNCHANGED <<queue, got>>
  BY DEF CloseReader, qclose
<1>3. PICK to \in {"close_rr", "closed"} : pc' = [pc EXCEPT ![r] = to]
  BY DEF CloseReader, Goto
<1>4. r \in ReadersIn /\ rref = Cardinality(ReadersIn) /\ wref = Cardinality(WritersIn)
  BY <1>1 DEF IndInv, EndsOK, ReadersIn, Away, Closing
<1>5. Cardinality(ReadersIn \ {r}) = rref - 1 /\ rref - 1 \in Nat
  <2>1. /\ IsFiniteSet(ReadersIn \ {r}) /\ Cardinality(ReadersIn \ {r}) = rref - 1
        /\ rref \in Nat /\ rref # 0
    BY <1>4, InsAreFinite, OneLess
  <2>2. QED
    BY <2>1
<1>6. /\ blocks' \in Seq(BlockType) /\ len' \in Nat /\ got' \in Nat
      /\ starve' \in BOOLEAN /\ flow' \in BOOLEAN /\ closed' \in BOOLEAN
      /\ rref' \in Nat /\ wref' \in Nat
  <2>1. wref' \in Nat /\ rref' \in Nat /\ queued \in Nat
    BY <1>1, <1>5 DEF IndInv, TypesOK
  <2>2. CASE rref = 1
    <3>1. <<>> \in Seq(BlockType)
      OBVIOUS
    <3>2. blocks' = <<>> /\ len' = 0 /\ got' = queued
      BY <1>2, <2>2
    <3>3. starve' = FALSE /\ flow' = FALSE /\ closed' = TRUE
      BY <1>2, <2>2
    <3>4. starve' \in BOOLEAN /\ flow' \in BOOLEAN /\ closed' \in BOOLEAN
      BY <3>3
    <3>5. QED
      BY <2>1, <3>1, <3>2, <3>4
  <2>3. CASE rref # 1
    BY <1>2, <2>1, <2>3 DEF IndInv, TypesOK, queue
  <2>4. QED
    BY <2>2, <2>3
<1>7. /\ TypesOK' /\ PlacesOK' /\ LocksOK' /\ Copying' = Copying
      /\ \A x \in Procs : /\ pc'[x] = "eof" => pc[x] = "eof"
                          /\ pc'[x] \in Waiting <=> pc[x] \in Waiting
                          /\ x # r => pc'[x] = pc[x]
      /\ pc[r] \notin Away /\ pc'[r] \in Away
  BY <1>1, <1>3, <1>6, CloseStep
<1>8. EndsOK'
  <2>1. ReadersIn' = ReadersIn \ {r} /\ WritersIn' = WritersIn
    BY <1>7 DEF ReadersIn, WritersIn
  <2>2. QED
    BY <1>1, <1>4, <1>5, <2>1 DEF EndsOK
<1>9. CASE rref = 1
  <2>1. \A x \in Readers : pc[x] \notin Reading
    BY <1>1, <1>9, LastReader
  <2>2. Copying = <<>>
    BY <2>1, CopyingIs DEF Reading
  <2>3. Copying' \o blocks' = <<>>
    BY <1>2, <1>7, <1>9, <2>2
  <2>4. Size(<<>>) = 0
    BY <1>6, SizeNat
  <2>5. BlocksOK'
    BY <1>1, <1>2, <1>9, <2>3, <2>4 DEF BlocksOK, LenExact, Chain
  <2>6. EofOK'
    BY <1>7, <2>1 DEF EofOK, Reading
  <2>7. Load' = 0
    BY <1>2, <1>7, <1>9, <2>2 DEF Load
  <2>8. RoomOK'
    <3>1. Spent' = Spent /\ Spent \in Nat
      BY <1>1 DEF Spent, Marked, bounds, IndInv, RoomOK
    <3>2. Limit \in Nat /\ Limit # 0 /\ Maxatomic \in Nat
      BY PipeAssumption
    <3>3. Spent + 1 = 1 + Spent /\ (1 + Spent) + 1 = 2 + Spent /\ 1 + Spent \in Nat
      BY <3>1
    <3>4. Limit + Maxatomic <= Room(1 + Spent) /\ Limit + Maxatomic <= Room(2 + Spent)
      BY <3>1, <3>3, RoomGrows
    <3>5. Room(1 + Spent) \in Nat /\ Room(2 + Spent) \in Nat
      BY <3>1, <3>3, RoomGrows
    <3>6. Room(2 + Spent)' = Room(2 + Spent) /\ Room(1 + Spent)' = Room(1 + Spent)
      BY <3>1 DEF Room
    <3>7. Load' < Room(2 + Spent)' /\ Load' < Room(1 + Spent)'
      BY <2>7, <3>2, <3>4, <3>5, <3>6
    <3>8. QED
      BY <2>7, <3>1, <3>7 DEF RoomOK
  <2>9. QED
    BY <1>7, <1>8, <2>5, <2>6, <2>8 DEF IndInv
<1>10. CASE rref # 1
  <2>1. UNCHANGED <<blocks, len, closed, queued, got, killed, interrupts>>
    BY <1>1, <1>2, <1>10 DEF queue, bounds
  <2>2. BlocksOK' /\ Load' = Load /\ Load \in Nat
    BY <1>7, <2>1, StockKept, CopyingIs
  <2>3. EofOK'
    BY <1>7, <2>1 DEF IndInv, EofOK
  <2>4. RoomOK'
    BY <1>7, <2>1, <2>2, RoomKept
  <2>5. QED
    BY <1>7, <1>8, <2>2, <2>3, <2>4 DEF IndInv
<1>11. QED
  BY <1>9, <1>10

LEMMA CloseWriterKeeps ==
  ASSUME IndInv, NEW w \in Writers, CloseWriter(w)
  PROVE  IndInv'
<1> USE Roles
<1>1. /\ pl = None /\ pl' = w /\ wref' = wref - 1 /\ pc[w] = "idle"
      /\ UNCHANGED <<qlocks, rendez, rref, killed, want, taken, queued, bounds>>
  BY DEF CloseWriter, Goto
<1>2. /\ UNCHANGED <<blocks, len, starve, flow, got>>
      /\ wref = 1 => closed' = TRUE
      /\ wref # 1 => closed' = closed
  BY DEF CloseWriter, qhangup, queue
<1>3. PICK to \in {"close_rr", "closed"} : pc' = [pc EXCEPT ![w] = to]
  BY DEF CloseWriter, Goto
<1>4. w \in WritersIn /\ rref = Cardinality(ReadersIn) /\ wref = Cardinality(WritersIn)
  BY <1>1 DEF IndInv, EndsOK, WritersIn, Away, Closing
<1>5. Cardinality(WritersIn \ {w}) = wref - 1 /\ wref - 1 \in Nat
  <2>1. /\ IsFiniteSet(WritersIn \ {w}) /\ Cardinality(WritersIn \ {w}) = wref - 1
        /\ wref \in Nat /\ wref # 0
    BY <1>4, InsAreFinite, OneLess
  <2>2. QED
    BY <2>1
<1>6. /\ blocks' \in Seq(BlockType) /\ len' \in Nat /\ got' \in Nat
      /\ starve' \in BOOLEAN /\ flow' \in BOOLEAN /\ closed' \in BOOLEAN
      /\ rref' \in Nat /\ wref' \in Nat
  BY <1>1, <1>2, <1>5 DEF IndInv, TypesOK
<1>7. /\ TypesOK' /\ PlacesOK' /\ LocksOK' /\ Copying' = Copying
      /\ \A x \in Procs : /\ pc'[x] = "eof" => pc[x] = "eof"
                          /\ pc'[x] \in Waiting <=> pc[x] \in Waiting
                          /\ x # w => pc'[x] = pc[x]
      /\ pc[w] \notin Away /\ pc'[w] \in Away
  BY <1>1, <1>3, <1>6, CloseStep
<1>8. EndsOK'
  <2>1. WritersIn' = WritersIn \ {w} /\ ReadersIn' = ReadersIn
    BY <1>7 DEF ReadersIn, WritersIn
  <2>2. QED
    BY <1>1, <1>4, <1>5, <2>1 DEF EndsOK
<1>9. BlocksOK' /\ Load' = Load /\ Load \in Nat
  BY <1>1, <1>2, <1>7, StockKept, CopyingIs
<1>10. EofOK'
  BY <1>1, <1>2, <1>7 DEF IndInv, EofOK
<1>11. RoomOK'
  <2>1. CASE wref = 1
    <3>1. \A x \in Writers : pc[x] \notin Waiting
      BY <1>1, <2>1, LastWriter DEF Writing
    <3>2. Spent' = Spent
      BY <1>1 DEF Spent, Marked, bounds
    <3>3. Room(2 + Spent)' = Room(2 + Spent) /\ Room(1 + Spent)' = Room(1 + Spent)
      BY <3>2 DEF Room
    <3>4. QED
      BY <1>7, <1>9, <3>1, <3>2, <3>3 DEF IndInv, RoomOK
  <2>2. CASE wref # 1
    <3>1. UNCHANGED <<closed, killed, interrupts>>
      BY <1>1, <1>2, <2>2 DEF bounds
    <3>2. QED
      BY <1>7, <1>9, <3>1, RoomKept
  <2>3. QED
    BY <2>1, <2>2
<1>12. QED
  BY <1>7, <1>8, <1>9, <1>10, <1>11 DEF IndInv

(* The last to close opens the queue again: nobody is in it. *)
LEMMA CloseEndsKeeps ==
  ASSUME IndInv, NEW p \in Procs, CloseEnds(p)
  PROVE  IndInv'
<1> USE Roles
<1>1. /\ pc[p] = "closed" /\ pc' = [pc EXCEPT ![p] = "out"] /\ pl' = None
      /\ rref = 0 /\ wref = 0 => closed' = FALSE /\ starve' = TRUE
      /\ ~ (rref = 0 /\ wref = 0) => closed' = closed /\ starve' = starve
      /\ UNCHANGED <<blocks, len, flow, qlocks, rendez, rref, wref, killed, want, taken, bytes, bounds>>
  BY DEF CloseEnds, Goto, qreopen
<1>2. TypesOK'
  BY <1>1 DEF IndInv, TypesOK, qlocks, rendez, bytes, bounds, Labels
<1>3. PlacesOK'
  BY <1>1, <1>2 DEF IndInv, TypesOK, PlacesOK, ReaderLabels, WriterLabels, Closing, Reading, Writing, Waiting
<1>4. LocksOK'
  <2>1. /\ \A x \in Readers : rlock' = x <=> pc'[x] \in Reading
        /\ \A w \in Writers : wlock' = w <=> pc'[w] \in Writing
    BY <1>1 DEF IndInv, TypesOK, LocksOK, qlocks, Closing, Reading, Writing, Waiting
  <2>2. \A x \in Procs : pl' = x <=> pc'[x] \in Closing
    <3>1. pl = p
      BY <1>1 DEF IndInv, LocksOK, Closing
    <3>2. \A x \in Procs : x # p => pc'[x] = pc[x] /\ pc[x] \notin Closing
      BY <1>1, <3>1 DEF IndInv, TypesOK, LocksOK
    <3>3. pc'[p] = "out"
      BY <1>1 DEF IndInv, TypesOK
    <3>4. \A x \in Procs : x # None
      BY PipeAssumption DEF Procs
    <3>5. QED
      BY <1>1, <3>2, <3>3, <3>4 DEF Closing
  <2>3. (rr' # None => pc'[rr'] = "rasleep") /\ (wr' # None => pc'[wr'] = "wasleep")
    BY <1>1 DEF IndInv, TypesOK, LocksOK, rendez
  <2>4. QED
    BY <2>1, <2>2, <2>3 DEF LocksOK
<1>5. Copying' = Copying /\ UNCHANGED <<blocks, len, queued, got, rref, wref, killed, interrupts>>
  BY <1>1 DEF Copying, qlocks, bytes, bounds
<1>6. BlocksOK' /\ Load' = Load /\ Load \in Nat
  BY <1>5, StockKept, CopyingIs
<1>7. \A x \in Procs : /\ pc'[x] \in Away <=> pc[x] \in Away
                       /\ pc'[x] \in Waiting <=> pc[x] \in Waiting
                       /\ pc'[x] = "eof" => pc[x] = "eof"
  BY <1>1 DEF IndInv, TypesOK, Away, Closing, Waiting
<1>8. EndsOK'
  <2>1. ReadersIn' = ReadersIn /\ WritersIn' = WritersIn
    BY <1>7 DEF ReadersIn, WritersIn
  <2>2. QED
    BY <1>1, <2>1 DEF IndInv, EndsOK
<1>9. EofOK'
  <2>1. SUFFICES ASSUME NEW r \in Readers, pc[r] = "eof" PROVE closed' /\ got' = queued'
    BY <1>7 DEF EofOK
  <2>2. r \in ReadersIn
    BY <2>1 DEF ReadersIn, Away, Closing
  <2>3. rref # 0
    BY <2>2, InsAreFinite, Counted DEF IndInv, EndsOK
  <2>4. QED
    BY <1>1, <1>5, <2>1, <2>3 DEF IndInv, EofOK
<1>10. RoomOK'
  <2>1. Spent' = Spent
    BY <1>5 DEF Spent, Marked
  <2>2. Room(2 + Spent)' = Room(2 + Spent) /\ Room(1 + Spent)' = Room(1 + Spent)
    BY <2>1 DEF Room
  <2>3. closed' => closed
    BY <1>1
  <2>4. QED
    BY <1>6, <1>7, <2>1, <2>2, <2>3 DEF IndInv, RoomOK
<1>11. QED
  BY <1>2, <1>3, <1>4, <1>6, <1>8, <1>9, <1>10 DEF IndInv
-----------------------------------------------------------------------------
LEMMA InitOK == Init => IndInv
<1> SUFFICES ASSUME Init PROVE IndInv
  OBVIOUS
<1> USE PipeAssumption
<1>1. Cardinality(Readers) \in Nat /\ Cardinality(Writers) \in Nat
  BY FiniteProcs, Counted
<1>2. TypesOK
  <2>1. starve \in BOOLEAN /\ flow \in BOOLEAN /\ closed \in BOOLEAN
    BY DEF Init
  <2>2. pc \in [Procs -> Labels] /\ want \in [Procs -> Nat]
    BY DEF Init, Labels
  <2>3. killed \in [Procs -> BOOLEAN]
    BY DEF Init
  <2>4. blocks \in Seq(BlockType) /\ taken \in [Readers -> Seq(BlockType)]
    BY DEF Init
  <2>5. QED
    BY <1>1, <2>1, <2>2, <2>3, <2>4 DEF Init, TypesOK
<1>3. \A p \in Procs : pc[p] = "idle" /\ killed[p] = FALSE
  BY DEF Init
<1>4. PlacesOK
  BY <1>3, Roles DEF Init, PlacesOK, ReaderLabels, WriterLabels
<1>5. LocksOK
  <2>1. \A p \in Procs : pc[p] \notin Reading /\ pc[p] \notin Writing /\ pc[p] \notin Closing
    BY <1>3 DEF Reading, Writing, Waiting, Closing
  <2>2. \A p \in Procs : p # None
    BY DEF Procs
  <2>3. QED
    BY <2>1, <2>2, Roles DEF Init, LocksOK
<1>6. EndsOK
  <2>1. \A p \in Procs : pc[p] \notin Away
    BY <1>3 DEF Away, Closing
  <2>2. ReadersIn = Readers /\ WritersIn = Writers
    BY <2>1, Roles DEF ReadersIn, WritersIn
  <2>3. QED
    BY <2>2 DEF Init, EndsOK
<1>7. blocks = <<>> /\ Copying = <<>> /\ <<>> \in Seq(BlockType) /\ <<>> \o <<>> = <<>>
  BY DEF Init, Copying
<1>8. BlocksOK
  BY <1>7, SizeNat DEF Init, BlocksOK, LenExact, Chain
<1>9. EofOK
  BY <1>3, Roles DEF EofOK
<1>10. RoomOK
  <2>1. Marked = {} /\ Cardinality(Marked) = 0
    BY <1>3, FS_EmptySet DEF Marked
  <2>2. Spent = 0
    BY <2>1 DEF Init, Spent
  <2>3. Load = 0
    BY <1>7 DEF Init, Load
  <2>4. 0 < Room(2) /\ 0 < Room(1)
    BY DEF Room
  <2>5. QED
    BY <2>2, <2>3, <2>4 DEF RoomOK
<1>11. QED
  BY <1>2, <1>4, <1>5, <1>6, <1>8, <1>9, <1>10 DEF IndInv

LEMMA ReaderKeeps ==
  ASSUME IndInv, NEW r \in Readers, ReaderStep(r)
  PROVE  IndInv'
<1>1. CASE QlockRead(r) \/ qwaitEmpty(r) \/ qwaitClosed(r) \/ SleepRead(r)
  BY <1>1, QlockReadKeeps, qwaitEmptyKeeps, qwaitClosedKeeps, SleepReadKeeps
<1>2. CASE qbread(r) \/ qread(r) \/ CopyDone(r) \/ WakeWriter(r) \/ QunlockRead(r)
  BY <1>2, qbreadKeeps, qreadKeeps, CopyDoneKeeps, WakeWriterKeeps, QunlockReadKeeps
<1>3. QED
  BY <1>1, <1>2 DEF ReaderStep

LEMMA WriterKeeps ==
  ASSUME IndInv, NEW w \in Writers, WriterStep(w)
  PROVE  IndInv'
<1>1. CASE QlockWrite(w) \/ PutClosed(w) \/ PutBlock(w) \/ WakeReader(w)
  BY <1>1, QlockWriteKeeps, PutClosedKeeps, PutBlockKeeps, WakeReaderKeeps
<1>2. CASE TestFull(w) \/ SetFlow(w) \/ QunlockWrite(w) \/ SleepWrite(w)
  BY <1>2, TestFullKeeps, SetFlowKeeps, QunlockWriteKeeps, SleepWriteKeeps
<1>3. QED
  BY <1>1, <1>2 DEF WriterStep

LEMMA StutterKeeps ==
  ASSUME IndInv, UNCHANGED vars
  PROVE  IndInv'
<1>1. TypesOK' /\ PlacesOK' /\ LocksOK'
  BY DEF IndInv, TypesOK, PlacesOK, LocksOK, vars, queue, qlocks, rendez, ends, bytes, bounds
<1>2. /\ UNCHANGED <<blocks, len, closed, queued, got, rref, wref, killed, interrupts, pl, pc>>
      /\ Copying' = Copying
  BY DEF vars, queue, qlocks, ends, bytes, bounds, Copying
<1>3. QED
  BY <1>1, <1>2, Aside

LEMMA NextKeeps == IndInv /\ [Next]_vars => IndInv'
<1> SUFFICES ASSUME IndInv, [Next]_vars PROVE IndInv'
  OBVIOUS
<1>1. CASE \E r \in Readers : CloseReader(r) \/ \E n \in ReadSizes : Read(r, n)
  BY <1>1, CloseReaderKeeps, ReadKeeps
<1>2. CASE \E w \in Writers : CloseWriter(w) \/ \E n \in WriteSizes : Write(w, n)
  BY <1>2, CloseWriterKeeps, WriteKeeps
<1>3. CASE \E p \in Procs : ProcStep(p)
  BY <1>3, ReaderKeeps, WriterKeeps, SleepReturnsKeeps, SleepInterruptedKeeps, CloseWakesKeeps,
     CloseEndsKeeps DEF ProcStep
<1>4. CASE \E p \in Procs : Open(p) \/ Interrupt(p)
  BY <1>4, OpenKeeps, InterruptKeeps
<1>5. CASE UNCHANGED vars
  BY <1>5, StutterKeeps
<1>6. QED
  BY <1>1, <1>2, <1>3, <1>4, <1>5 DEF Next

(* The inductive invariant holds in every state of the pipe. *)
THEOREM Invariance == Spec => []IndInv
  BY InitOK, NextKeeps, PTL DEF Spec
-----------------------------------------------------------------------------
LEMMA TypesGive == IndInv => TypeOK
<1> SUFFICES ASSUME IndInv PROVE TypeOK
  OBVIOUS
<1> DEFINE Blocks == [first : Nat \ {0}, n : 1..Maxatomic, alloc : 1..Maxatomic]
<1>1. BlockType \subseteq Blocks /\ blocks \in Seq(BlockType)
  BY DEF IndInv, TypesOK, BlockType
<1>2. blocks \in Seq(Blocks)
  <2> HIDE DEF Blocks
  <2>1. QED
    BY <1>1
<1>3. rref \in 0..Cardinality(Readers) /\ wref \in 0..Cardinality(Writers)
  <2>1. ReadersIn \subseteq Readers /\ WritersIn \subseteq Writers
    BY DEF ReadersIn, WritersIn
  <2>2. /\ Cardinality(ReadersIn) <= Cardinality(Readers)
        /\ Cardinality(WritersIn) <= Cardinality(Writers)
    BY <2>1, FiniteProcs, FS_Subset
  <2>3. Cardinality(Readers) \in Nat /\ Cardinality(Writers) \in Nat
    BY FiniteProcs, Counted
  <2>4. QED
    BY <2>2, <2>3 DEF IndInv, TypesOK, EndsOK
<1>4. {starve, flow, closed} \subseteq BOOLEAN
  BY DEF IndInv, TypesOK
<1>5. QED
  BY <1>2, <1>3, <1>4 DEF IndInv, TypesOK, TypeOK

(* The accounts of the queue are exact: q->len is the sum of the sizes of  *)
(* its blocks, although qread takes a block and puts its rest back in two  *)
(* sections under q->l; and pipeclose leaves the queue open and the locks  *)
(* and Rendez free when the last process has gone.                         *)
THEOREM QueueIsExact == Spec => []QueueExact
<1>1. IndInv => QueueExact
  <2> SUFFICES ASSUME IndInv PROVE QueueExact
    OBVIOUS
  <2>1. LenExact
    BY DEF IndInv, BlocksOK
  <2>2. ASSUME \A p \in Procs : pc[p] = "out"
        PROVE  rlock = None /\ wlock = None /\ rr = None /\ wr = None /\ ~closed
    <3>1. \A p \in Procs : pc[p] \notin Reading /\ pc[p] \notin Writing /\ pc[p] \notin Closing
      BY <2>2 DEF Reading, Writing, Waiting, Closing
    <3>2. rlock = None /\ wlock = None /\ pl = None
      BY <3>1, Roles DEF IndInv, TypesOK, LocksOK
    <3>3. rr = None /\ wr = None
      BY <2>2, Roles DEF IndInv, TypesOK, LocksOK
    <3>4. ReadersIn = {} /\ WritersIn = {}
      BY <2>2, Roles DEF ReadersIn, WritersIn, Away
    <3>5. rref = 0 /\ wref = 0
      BY <3>4, InsAreFinite, Counted DEF IndInv, EndsOK
    <3>6. QED
      BY <3>2, <3>3, <3>5 DEF IndInv, EndsOK
  <2>3. QED
    BY <2>1, <2>2, TypesGive DEF QueueExact, CleanWhenClosed
<1>2. QED
  BY <1>1, Invariance, PTL

(* The queue exceeds its limit by less than two blocks and one for each    *)
(* interrupted call, however many processes write: qbwrite queues a block  *)
(* before it waits, but under q->wlock.                                    *)
THEOREM FlowBounded == Spec => []FlowBound
<1>1. IndInv => FlowBound
  <2> SUFFICES ASSUME IndInv PROVE FlowBound
    OBVIOUS
  <2>1. len \in Nat /\ Spent \in Nat /\ Load < Room(2 + Spent) /\ interrupts \in 0..MaxInterrupts
    BY DEF IndInv, TypesOK, RoomOK
  <2>2. len <= Load /\ Load \in Nat
    <3>1. CASE Copying = <<>>
      BY <2>1, <3>1 DEF Load
    <3>2. CASE Copying # <<>>
      <4>1. Copying[1].alloc \in Nat
        BY <3>2, CopyingIs, BlockFacts
      <4>2. QED
        BY <2>1, <3>2, <4>1 DEF Load
    <3>3. QED
      BY <3>1, <3>2
  <2>3. Cardinality(Marked) \in Nat
    <3>1. Marked \subseteq Procs
      BY DEF Marked
    <3>2. QED
      BY <3>1, FiniteProcs, FS_Subset, Counted
  <2> DEFINE k == 2 + Spent
             j == 2 + MaxInterrupts - interrupts
  <2>4. k \in Nat /\ j \in Nat /\ k <= j
    BY <2>1, <2>3, PipeAssumption DEF Spent
  <2>5. Room(k) <= Room(j) /\ Room(k) \in Nat /\ Room(j) \in Nat
    BY <2>4, RoomGrows
  <2>6. len < Room(j)
    BY <2>1, <2>2, <2>5
  <2>7. QED
    BY <2>6 DEF FlowBound, Room
<1>2. QED
  BY <1>1, Invariance, PTL

(* A reader is told of the end of the file only when every byte that was   *)
(* queued has been read or thrown away with the reading end.               *)
THEOREM EofAfterAll == Spec => []EofMeansAll
<1>1. IndInv => EofMeansAll
  BY DEF IndInv, EofOK, EofMeansAll
<1>2. QED
  BY <1>1, Invariance, PTL
-----------------------------------------------------------------------------
(* The refinement of Stream.  What is inside is the run of bytes from the  *)
(* one read last to the one queued last, so the abstract step is found     *)
(* from how these two move.                                                *)
LEMMA InsideIs ==
  ASSUME NEW s \in Seq(BlockType), NEW c \in Seq(BlockType), NEW a \in Nat, NEW z \in Nat,
         Chain(c \o s, a, z)
  PROVE  a <= z /\ Bytes(c \o s) = Run(a, z)
<1>1. c \o s \in Seq(BlockType)
  OBVIOUS
<1>2. QED
  BY <1>1, ChainBytes

LEMMA ChainOfTypes ==
  ASSUME TypesOK
  PROVE  /\ Copying \in Seq(BlockType) /\ blocks \in Seq(BlockType)
         /\ got \in Nat /\ queued \in Nat
  BY DEF TypesOK, Copying

(* Bytes are queued, or read, or neither. *)
LEMMA BytesMove ==
  ASSUME IndInv, Next
  PROVE  \/ got' = got /\ queued' = queued
         \/ got' = got /\ \E n \in 1..Maxatomic : queued' = queued + n
         \/ queued' = queued /\ got < got'
         \/ queued' = queued /\ got' = queued
<1> USE Roles
<1>1. ASSUME NEW r \in Readers, CloseReader(r) PROVE queued' = queued /\ got' \in {got, queued}
  BY <1>1 DEF CloseReader, qclose
<1>2. ASSUME NEW w \in Writers, CloseWriter(w) PROVE queued' = queued /\ got' = got
  BY <1>2 DEF CloseWriter, qhangup
<1>3. ASSUME NEW r \in Readers, qbread(r) PROVE queued' = queued /\ got < got'
  <2>1. blocks # <<>> /\ pc[r] = "qwait" /\ queued' = queued
    BY <1>3 DEF qbread
  <2>2. /\ Head(blocks) = blocks[1] /\ blocks[1] \in BlockType /\ blocks[1].first = got + 1
        /\ got \in Nat /\ want[r] \in Nat /\ want[r] # 0
    BY <2>1, HeadOfQueue
  <2>3. Min2(want[r], blocks[1].n) \in Nat /\ Min2(want[r], blocks[1].n) # 0
    BY <2>2, BlockFacts, MinFacts
  <2>4. got' = blocks[1].first + Min2(want[r], blocks[1].n) - 1
    BY <1>3, <2>2 DEF qbread
  <2>5. QED
    BY <2>1, <2>2, <2>3, <2>4
<1>4. ASSUME NEW r \in Readers, CopyDone(r) PROVE queued' = queued /\ got < got'
  <2>1. pc[r] = "copy" /\ queued' = queued
    BY <1>4 DEF CopyDone
  <2>2. /\ Copying \in Seq(BlockType) /\ Copying = taken[r] /\ Len(Copying) = 1
        /\ Copying[1] \in BlockType
    BY <2>1, CopyingIs DEF Reading
  <2>3. /\ blocks \in Seq(BlockType) /\ got \in Nat /\ want[r] \in Nat /\ want[r] # 0
        /\ Chain(Copying \o blocks, got, queued)
    BY <2>1 DEF IndInv, TypesOK, PlacesOK, BlocksOK
  <2>4. (Copying \o blocks)[1] = Copying[1] /\ Copying \o blocks # <<>>
    BY <2>2, <2>3
  <2>5. Copying[1].first = got + 1
    BY <2>3, <2>4 DEF Chain
  <2>6. Min2(want[r], Copying[1].n) \in Nat /\ Min2(want[r], Copying[1].n) # 0
    BY <2>2, <2>3, BlockFacts, MinFacts
  <2>7. got' = Copying[1].first + Min2(want[r], Copying[1].n) - 1
    BY <1>4, <2>2 DEF CopyDone, qputback
  <2>8. QED
    BY <2>1, <2>3, <2>5, <2>6, <2>7
<1>5. ASSUME NEW w \in Writers, PutBlock(w)
      PROVE  got' = got /\ \E n \in 1..Maxatomic : queued' = queued + n
  <2>1. pc[w] = "put" /\ got' = got /\ queued' = queued + Min2(want[w], Maxatomic)
    BY <1>5 DEF PutBlock, Goto
  <2>2. want[w] \in Nat /\ want[w] # 0 /\ Maxatomic \in Nat /\ Maxatomic # 0
    BY <2>1, PipeAssumption DEF IndInv, TypesOK, PlacesOK
  <2>3. Min2(want[w], Maxatomic) \in 1..Maxatomic
    BY <2>2, MinFacts
  <2>4. QED
    BY <2>1, <2>3
<1>6. ASSUME NEW r \in Readers, ReaderStep(r)
      PROVE  queued' = queued /\ (got' = got \/ got < got')
  <2>1. CASE qbread(r) \/ CopyDone(r)
    BY <1>3, <1>4, <2>1
  <2>2. CASE QlockRead(r) \/ qwaitEmpty(r) \/ qwaitClosed(r) \/ SleepRead(r)
    BY <2>2 DEF QlockRead, qwaitEmpty, qwaitClosed, SleepRead, bytes
  <2>3. CASE qread(r) \/ WakeWriter(r) \/ QunlockRead(r)
    BY <2>3 DEF qread, WakeWriter, QunlockRead, bytes
  <2>4. QED
    BY <1>6, <2>1, <2>2, <2>3 DEF ReaderStep
<1>7. ASSUME NEW w \in Writers, WriterStep(w)
      PROVE  got' = got /\ (queued' = queued \/ \E n \in 1..Maxatomic : queued' = queued + n)
  <2>1. CASE PutBlock(w)
    BY <1>5, <2>1
  <2>2. CASE QlockWrite(w) \/ PutClosed(w) \/ WakeReader(w) \/ TestFull(w)
    BY <2>2 DEF QlockWrite, PutClosed, WakeReader, TestFull, bytes
  <2>3. CASE SetFlow(w) \/ QunlockWrite(w) \/ SleepWrite(w)
    BY <2>3 DEF SetFlow, QunlockWrite, SleepWrite, bytes
  <2>4. QED
    BY <1>7, <2>1, <2>2, <2>3 DEF WriterStep
<1>8. ASSUME NEW p \in Procs,
             SleepReturns(p) \/ SleepInterrupted(p) \/ CloseWakes(p) \/ CloseEnds(p)
               \/ Open(p) \/ Interrupt(p)
      PROVE  got' = got /\ queued' = queued
  BY <1>8 DEF SleepReturns, SleepInterrupted, CloseWakes, CloseEnds, Open, Interrupt, bytes
<1>9. ASSUME NEW r \in Readers, NEW n \in ReadSizes, Read(r, n) PROVE got' = got /\ queued' = queued
  BY <1>9 DEF Read, bytes
<1>10. ASSUME NEW w \in Writers, NEW n \in WriteSizes, Write(w, n)
       PROVE  got' = got /\ queued' = queued
  BY <1>10 DEF Write, bytes
<1>11. CASE \E r \in Readers : CloseReader(r) \/ \E n \in ReadSizes : Read(r, n)
  BY <1>1, <1>9, <1>11
<1>12. CASE \E w \in Writers : CloseWriter(w) \/ \E n \in WriteSizes : Write(w, n)
  BY <1>2, <1>10, <1>12
<1>13. CASE \E p \in Procs : ProcStep(p) \/ Open(p) \/ Interrupt(p)
  BY <1>6, <1>7, <1>8, <1>13 DEF ProcStep
<1>14. QED
  BY <1>11, <1>12, <1>13 DEF Next

(* The steps of Stream on a run of bytes. *)
LEMMA PutRun ==
  ASSUME NEW a \in Nat, NEW z \in Nat, a <= z, Inside = Run(a, z), got = a, NEW n \in 1..Maxatomic,
         Inside' = Run(a, z + n), got' = a
  PROVE  AbstractStream!Next
<1>1. /\ Run(a, z) \in Seq(Nat) /\ Len(Run(a, z)) = z - a
      /\ \A i \in 1..(z - a) : Run(a, z)[i] = a + i
  BY RunSeq
<1>2. AbstractStream!Newest = z
  <2>1. CASE a = z
    BY <1>1, <2>1 DEF AbstractStream!Newest
  <2>2. CASE a # z
    <3>1. z - a \in 1..(z - a) /\ a + (z - a) = z /\ Run(a, z) # <<>>
      BY <1>1, <2>2
    <3>2. QED
      BY <1>1, <3>1 DEF AbstractStream!Newest
  <2>3. QED
    BY <2>1, <2>2
<1>3. n \in Nat
  BY PipeAssumption
<1>4. AbstractStream!Put(n)
  <2>1. Run(a, z) \o [i \in 1..n |-> z + i] = Run(a, z + n)
    BY <1>3, RunOn
  <2>2. [i \in 1..n |-> AbstractStream!Newest + i] = [i \in 1..n |-> z + i]
    BY <1>2
  <2>3. Inside' = Inside \o [i \in 1..n |-> AbstractStream!Newest + i]
    BY <2>1, <2>2
  <2>4. QED
    BY <2>3 DEF AbstractStream!Put
<1>5. QED
  BY <1>4 DEF AbstractStream!Next

LEMMA TakeRun ==
  ASSUME NEW a \in Nat, NEW m \in Nat, NEW z \in Nat, a < m, m <= z, Inside = Run(a, z), got = a,
         Inside' = Run(m, z), got' = m
  PROVE  AbstractStream!Next
<1> DEFINE n == m - a
           s == Run(a, z)
           t == SubSeq(s, n + 1, Len(s))
<1>1. /\ s \in Seq(Nat) /\ Len(s) = z - a
      /\ \A i \in 1..(z - a) : s[i] = a + i
  <2>1. a <= z
    OBVIOUS
  <2>2. QED
    BY <2>1, RunSeq
<1>2. /\ Run(m, z) \in Seq(Nat) /\ Len(Run(m, z)) = z - m
      /\ \A i \in 1..(z - m) : Run(m, z)[i] = m + i
  BY RunSeq
<1> HIDE DEF s
<1>3. n \in 1..Len(s) /\ n \in DOMAIN s /\ s[n] = m
  BY <1>1
<1>4. t \in Seq(Nat) /\ Len(t) = z - m /\ \A i \in 1..(z - m) : t[i] = s[n + i]
  BY SMTT(60), <1>1, <1>3
<1>5. \A i \in 1..(z - m) : t[i] = Run(m, z)[i]
  <2>1. SUFFICES ASSUME NEW i \in 1..(z - m) PROVE t[i] = Run(m, z)[i]
    OBVIOUS
  <2>2. n + i \in 1..(z - a) /\ a + (n + i) = m + i
    OBVIOUS
  <2>3. QED
    BY <1>1, <1>2, <1>4, <2>2
<1>6. t = Run(m, z)
  <2> HIDE DEF t
  <2>1. QED
    BY <1>2, <1>4, <1>5, SameSeq
<1>7. AbstractStream!Take(n)
  BY <1>3, <1>6 DEF AbstractStream!Take, s
<1>8. n \in DOMAIN Inside
  BY <1>3 DEF s
<1>9. QED
  BY <1>7, <1>8 DEF AbstractStream!Next

(* The queue of a pipe is a stream: qbwrite puts bytes at its end, qbread  *)
(* and the second section of qread take them from its front, the last      *)
(* close of the reading end takes what is left, and every other section,   *)
(* the first of qread too, changes nothing of it.                          *)
THEOREM Refinement == Spec => RefinesStream
<1>1. Init => AbstractStream!Init
  <2> SUFFICES ASSUME Init PROVE AbstractStream!Init
    OBVIOUS
  <2>1. IndInv /\ got = 0 /\ queued = 0
    BY InitOK DEF Init
  <2>2. TypesOK /\ Chain(Copying \o blocks, 0, 0)
    BY <2>1 DEF IndInv, BlocksOK
  <2>3. Inside = Run(0, 0)
    BY <2>2, ChainOfTypes, InsideIs DEF Inside
  <2>4. Run(0, 0) = <<>>
    <3>1. Run(0, 0) \in Seq(Nat) /\ Len(Run(0, 0)) = 0 - 0
      BY RunSeq
    <3>2. QED
      BY <3>1
  <2>5. QED
    BY <2>1, <2>3, <2>4 DEF AbstractStream!Init
<1>2. IndInv /\ IndInv' /\ [Next]_vars => [AbstractStream!Next]_<<Inside, got>>
  <2> SUFFICES ASSUME IndInv, IndInv', [Next]_vars PROVE [AbstractStream!Next]_<<Inside, got>>
    OBVIOUS
  <2>1. got \in Nat /\ queued \in Nat /\ got <= queued /\ Inside = Run(got, queued)
    BY ChainOfTypes, InsideIs DEF IndInv, BlocksOK, Inside
  <2>2. /\ Copying' \in Seq(BlockType) /\ blocks' \in Seq(BlockType)
        /\ got' \in Nat /\ queued' \in Nat
    BY DEF IndInv, TypesOK, Copying
  <2>3. got' <= queued' /\ Inside' = Run(got', queued')
    <3>1. Chain(Copying' \o blocks', got', queued')
      BY DEF IndInv, BlocksOK
    <3>2. QED
      BY <2>2, <3>1, InsideIs DEF Inside
  <2>4. CASE got' = got /\ queued' = queued
    BY <2>1, <2>3, <2>4
  <2>5. CASE got' = got /\ \E n \in 1..Maxatomic : queued' = queued + n
    BY <2>1, <2>3, <2>5, PutRun
  <2>6. CASE queued' = queued /\ got < got'
    BY <2>1, <2>2, <2>3, <2>6, TakeRun
  <2>7. CASE queued' = queued /\ got' = queued /\ got # queued
    <3>1. got < got'
      BY <2>1, <2>7
    <3>2. QED
      BY <2>6, <2>7, <3>1
  <2>8. CASE UNCHANGED vars
    <3>1. got' = got /\ queued' = queued
      BY <2>8 DEF vars, bytes
    <3>2. QED
      BY <2>4, <3>1
  <2>9. QED
    BY <2>4, <2>5, <2>6, <2>7, <2>8, BytesMove
<1>3. QED
  BY <1>1, <1>2, Invariance, PTL DEF Spec, RefinesStream, AbstractStream!Spec
=============================================================================
