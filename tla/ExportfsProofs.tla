--------------------------- MODULE ExportfsProofs ---------------------------
(***************************************************************************)
(* Proofs about Exportfs: the references to the export are exact and a     *)
(* freed request is on no list, the answers are those the client is        *)
(* promised, and an interrupt only ever hits the request it was meant for; *)
(* for any set of requests, flushes and slaves.                            *)
(***************************************************************************)
EXTENDS Exportfs, SequenceTheorems, FiniteSetTheorems, TLAPS

(***************************************************************************)
(* Facts about linked lists as sequences: who is on a list after an append *)
(* at its tail or the removal of its head.                                 *)
(***************************************************************************)

(* x is on the list s; no entry is on the list twice. *)
OnList(s, x) == \E i \in 1..Len(s) : s[i] = x
OnListOnce(s) == \A i, j \in 1..Len(s) : s[i] = s[j] => i = j

(* A list with an entry appended. *)
LEMMA AppendToList ==
  ASSUME NEW S, NEW s \in Seq(S), NEW x \in S
  PROVE  /\ Append(s, x) \in Seq(S)
         /\ \A y : OnList(Append(s, x), y) <=> (OnList(s, y) \/ y = x)
         /\ OnListOnce(s) /\ ~OnList(s, x) => OnListOnce(Append(s, x))
<1> DEFINE t == Append(s, x)
<1>1. /\ t \in Seq(S) /\ Len(s) \in Nat /\ Len(t) = Len(s) + 1
      /\ \A i \in 1..Len(s) : t[i] = s[i]
      /\ t[Len(s) + 1] = x
  OBVIOUS
<1>2. ASSUME NEW y PROVE OnList(t, y) <=> (OnList(s, y) \/ y = x)
  BY <1>1 DEF OnList
<1>3. OnListOnce(s) /\ ~OnList(s, x) => OnListOnce(t)
  BY <1>1 DEF OnList, OnListOnce
<1>4. QED
  BY <1>1, <1>2, <1>3

(* A list without its head. *)
LEMMA TailOfList ==
  ASSUME NEW S, NEW s \in Seq(S), s # <<>>, OnListOnce(s)
  PROVE  /\ Tail(s) \in Seq(S) /\ Head(s) \in S /\ OnList(s, Head(s))
         /\ \A y : OnList(Tail(s), y) <=> (OnList(s, y) /\ y # Head(s))
         /\ OnListOnce(Tail(s))
<1> DEFINE t == Tail(s)
<1>1. /\ t \in Seq(S) /\ Len(s) \in Nat \ {0} /\ Len(t) = Len(s) - 1
      /\ \A i \in 1..Len(t) : t[i] = s[i + 1]
      /\ Head(s) = s[1] /\ Head(s) \in S
  OBVIOUS
<1>2. OnList(s, Head(s))
  BY <1>1 DEF OnList
<1>3. ASSUME NEW y PROVE OnList(t, y) <=> (OnList(s, y) /\ y # Head(s))
  <2>1. ASSUME OnList(t, y) PROVE OnList(s, y) /\ y # Head(s)
    <3>1. PICK i \in 1..Len(t) : t[i] = y
      BY <2>1 DEF OnList
    <3>2. i + 1 \in 1..Len(s) /\ s[i + 1] = y /\ i + 1 # 1 /\ 1 \in 1..Len(s)
      BY <1>1, <3>1
    <3>3. QED
      BY <1>1, <3>2 DEF OnList, OnListOnce
  <2>2. ASSUME OnList(s, y), y # Head(s) PROVE OnList(t, y)
    <3>1. PICK i \in 1..Len(s) : s[i] = y
      BY <2>2 DEF OnList
    <3>2. i - 1 \in 1..Len(t) /\ (i - 1) + 1 = i
      BY <1>1, <2>2, <3>1
    <3>3. t[i - 1] = y
      BY <1>1, <3>1, <3>2
    <3>4. QED
      BY <3>2, <3>3 DEF OnList
  <2>3. QED
    BY <2>1, <2>2
<1>4. OnListOnce(t)
  <2>1. SUFFICES ASSUME NEW i \in 1..Len(t), NEW j \in 1..Len(t), t[i] = t[j]
                 PROVE  i = j
    BY DEF OnListOnce
  <2>2. i + 1 \in 1..Len(s) /\ j + 1 \in 1..Len(s) /\ s[i + 1] = s[j + 1]
    BY <1>1, <2>1
  <2>3. QED
    BY <2>2, <1>1 DEF OnListOnce
<1>5. QED
  BY <1>1, <1>2, <1>3, <1>4
-----------------------------------------------------------------------------

(* Where exportproc and a slave can be, and what a slave has done there:    *)
(* taken a request; posted it on fs->work; started to answer its flushes.   *)
EStmts == {"read", "append", "wake", "flush_exq", "flush_work", "rflush",
           "shut_exq", "shut_work", "exfree", "done"}
Closing == {"flushes", "rflush", "unlink", "free"}
Posted == {"call", "end", "reply", "flushes", "rflush", "unlink"}
HasJob == {"post", "call", "end", "reply"} \cup Closing
SStmts == {"none", "qlock", "sleep", "take"} \cup HasJob
Flushing == {"flush_exq", "flush_work", "rflush"}

(* The members of the lists. *)
queued == InSeq(exq)
waiting == [q \in Reqs |-> InSeq(flush[q])]
answered == InSeq(sent)

(* No slave has taken q yet; nothing will answer q any more. *)
Unstarted(q) == q \notin asked \/ (epc = "append" /\ msg = q) \/ q \in queued
Closed(q) ==
  ~Unstarted(q) /\ \A s \in Slaves : job[s] = q => spc[s] \in Closing

PlacesOK == epc \in EStmts /\ spc \in [Slaves -> SStmts]

TypesOK ==
  /\ {exql, fsl} \subseteq Slaves \cup {Exporter, None}
  /\ tail \in Reqs \cup {None} /\ work \subseteq Reqs
  /\ slave \in [Reqs -> Slaves \cup {None}]
  /\ asked \subseteq Msgs /\ live \subseteq asked
  /\ oldtag \in [Flushes -> Reqs \cup {None}]
  /\ qwait \in Slaves \cup {None} /\ qwaitq \in Seq(Slaves)
  /\ job \in [Slaves -> Reqs \cup {None}]
  /\ fq \in [Slaves -> Flushes \cup {None}]

FlagsOK ==
  /\ {busy, finished, shut} \subseteq [Reqs -> BOOLEAN]
  /\ killed \in [Slaves -> BOOLEAN] /\ err \in [Slaves -> BOOLEAN]

Rising(q) == \A i, j \in DOMAIN q : i < j => q[i] < q[j]

ListsOK ==
  /\ exq \in Seq(Reqs) /\ OnListOnce(exq)
  /\ flush \in [Reqs -> Seq(Flushes)] /\ \A q \in Reqs : Rising(flush[q])
  /\ sent \in Seq(Msgs)

(* A request is in one place: on exq or with the slave it names. *)
QueueOK == queued \subseteq live
JobsOK ==
  \A s \in Slaves :
    IF spc[s] \in HasJob
    THEN job[s] \in live \cap Reqs /\ slave[job[s]] = s /\ job[s] \notin queued
    ELSE job[s] = None

(* Between taking a request and posting it, a slave holds exq.l. *)
LockOK == \A s \in Slaves : spc[s] = "post" => exql = s

(* exportproc's message is its own. *)
MsgOK ==
  /\ epc = "append" =>
       /\ msg \in live \cap Reqs /\ msg \notin queued
       /\ \A s \in Slaves : job[s] # msg
  /\ epc \in Flushing =>
       /\ msg \in live \cap Flushes
       /\ \A f \in asked \cap Flushes : f # msg => f < msg
       /\ \A q \in Reqs : msg \notin waiting[q]
       /\ \A s \in Slaves : fq[s] # msg

(* A Tflush names an earlier request; the Tflushes come in order. *)
OldtagOK ==
  \A f \in asked \cap Flushes :
    /\ oldtag[f] \in asked \cap Reqs
    /\ \A g \in Flushes : g < f => g \in asked

(* slave[q] is at work on q, at one of the places. *)
HeldAt(q, places) ==
  slave[q] \in Slaves /\ job[slave[q]] = q /\ spc[slave[q]] \in places

(* fs->work is the list of posted requests, until exshutdown takes it. *)
WorkOK ==
  /\ \A q \in work : HeldAt(q, Posted)
  /\ epc \notin {"exfree", "done"} =>
       \A s \in Slaves : spc[s] \in Posted => job[s] \in work

BusyOK == \A q \in Reqs : busy[q] => HeldAt(q, {"post", "call", "end"})

ShutOK == \A q \in Reqs : shut[q] => epc \in {"exfree", "done"}

(* A request is finished when its slave has emptied its flush queue. *)
FinishedOK ==
  \A s \in Slaves : spc[s] \in HasJob =>
    /\ finished[job[s]] <=> spc[s] \in {"unlink", "free"}
    /\ finished[job[s]] => waiting[job[s]] = {} \/ shut[job[s]]

(* The flush queue of a request: on it are Tflushes of that request, and    *)
(* only while a slave has it.                                               *)
FlushesOK ==
  \A q \in Reqs :
    /\ \A f \in waiting[q] : f \in live /\ oldtag[f] = q
    /\ waiting[q] # {} => HeldAt(q, Posted \cup {"free"})

(* The Tflush that a slave is answering was the first of the queue. *)
FqOK ==
  \A s \in Slaves :
    /\ fq[s] # None <=> spc[s] = "rflush"
    /\ fq[s] # None => /\ fq[s] \in live /\ oldtag[fq[s]] = job[s]
                       /\ \A g \in waiting[job[s]] : fq[s] < g

(* Every Tflush that exists is with exportproc, on a queue or with a slave. *)
PendingOK ==
  \A f \in live \cap Flushes :
    \/ epc \in Flushing /\ msg = f
    \/ f \in waiting[oldtag[f]]
    \/ \E s \in Slaves : fq[s] = f

(* A request that nobody has taken has no past. *)
FreshOK ==
  \A q \in Reqs : Unstarted(q) => ~finished[q] /\ waiting[q] = {}

KilledOK ==
  \A s \in Slaves : killed[s] =>
    /\ spc[s] \in HasJob
    /\ \/ shut[job[s]]
       \/ spc[s] \in {"call", "end"} /\ waiting[job[s]] # {}

(* What exflushed knows of the request when it returns the Tflush. *)
FoundOK ==
  /\ epc = "flush_work" =>
       /\ ~Unstarted(oldtag[msg])
       /\ \A s \in Slaves : spc[s] = "post" => job[s] # oldtag[msg]
  /\ epc = "rflush" =>
       /\ Closed(oldtag[msg]) /\ waiting[oldtag[msg]] = {}
       /\ \A s \in Slaves : job[s] = oldtag[msg] => fq[s] = None

(* Nothing is answered after its answer, or after its Rflush; and a Tflush  *)
(* not yet answered came after the answered ones of its request.            *)
AnsweredOK ==
  /\ \A q \in answered \cap Reqs : Closed(q)
  /\ \A f \in answered \cap Flushes : f \in asked \ live /\ Closed(oldtag[f])
OrderOK ==
  \A f \in answered \cap Flushes, g \in live \cap Flushes :
    oldtag[f] = oldtag[g] => f < g

RefOK == IsFiniteSet(live) /\ ref = Cardinality(live) + (IF epc = "done" THEN 0 ELSE 1)

IndInv ==
  /\ PlacesOK /\ TypesOK /\ FlagsOK /\ ListsOK /\ QueueOK /\ JobsOK /\ LockOK
  /\ MsgOK /\ OldtagOK /\ WorkOK /\ BusyOK /\ ShutOK /\ FinishedOK /\ FlushesOK
  /\ FqOK /\ PendingOK /\ FreshOK /\ KilledOK /\ FoundOK /\ AnsweredOK
  /\ OrderOK /\ RefOK /\ AnswersAsPromised
-----------------------------------------------------------------------------
(* The members of a list; a list is empty when it has none. *)
LEMMA MembersOf ==
  ASSUME NEW S, NEW q \in Seq(S)
  PROVE  /\ InSeq(q) \subseteq S
         /\ \A x : x \in InSeq(q) <=> OnList(q, x)
         /\ InSeq(q) = {} <=> q = <<>>
<1>1. Len(q) \in Nat /\ DOMAIN q = 1..Len(q) /\ \A i \in DOMAIN q : q[i] \in S
  OBVIOUS
<1>2. \A x : x \in InSeq(q) <=> OnList(q, x)
  BY <1>1 DEF InSeq, OnList
<1>3. InSeq(q) = {} => q = <<>>
  <2>1. q # <<>> => 1 \in 1..Len(q)
    OBVIOUS
  <2>2. QED
    BY <1>1, <2>1 DEF InSeq
<1>4. q = <<>> => InSeq(q) = {}
  BY <1>1 DEF InSeq
<1>5. InSeq(q) \subseteq S
  BY <1>1 DEF InSeq
<1>6. InSeq(q) = {} <=> q = <<>>
  BY <1>3, <1>4, Zenon
<1>7. QED
  BY <1>2, <1>5, <1>6, Zenon

(* The members of a list after an append at its tail. *)
LEMMA AppendMembers ==
  ASSUME NEW S, NEW q \in Seq(S), NEW x \in S
  PROVE  /\ Append(q, x) \in Seq(S)
         /\ InSeq(Append(q, x)) = InSeq(q) \cup {x}
         /\ OnListOnce(q) /\ x \notin InSeq(q) => OnListOnce(Append(q, x))
<1>1. Append(q, x) \in Seq(S)
  BY AppendToList
<1>2. \A y : y \in InSeq(Append(q, x)) <=> (y \in InSeq(q) \/ y = x)
  <2>1. \A y : y \in InSeq(q) <=> OnList(q, y)
    BY MembersOf
  <2>2. \A y : y \in InSeq(Append(q, x)) <=> OnList(Append(q, x), y)
    BY <1>1, MembersOf
  <2>3. \A y : OnList(Append(q, x), y) <=> (OnList(q, y) \/ y = x)
    BY AppendToList
  <2>4. QED
    BY <2>1, <2>2, <2>3
<1>3. OnListOnce(q) /\ x \notin InSeq(q) => OnListOnce(Append(q, x))
  BY MembersOf, AppendToList
<1>4. QED
  BY <1>1, <1>2, <1>3

(* The members of a list without its head. *)
LEMMA TailMembers ==
  ASSUME NEW S, NEW q \in Seq(S), q # <<>>, OnListOnce(q)
  PROVE  /\ Tail(q) \in Seq(S) /\ Head(q) \in S /\ Head(q) \in InSeq(q)
         /\ InSeq(Tail(q)) = InSeq(q) \ {Head(q)}
         /\ OnListOnce(Tail(q))
<1>1. Tail(q) \in Seq(S) /\ Head(q) \in S /\ OnListOnce(Tail(q)) /\ OnList(q, Head(q))
  BY TailOfList
<1>2. \A y : y \in InSeq(Tail(q)) <=> (y \in InSeq(q) /\ y # Head(q))
  <2>1. \A y : y \in InSeq(q) <=> OnList(q, y)
    BY MembersOf
  <2>2. \A y : y \in InSeq(Tail(q)) <=> OnList(Tail(q), y)
    BY <1>1, MembersOf
  <2>3. \A y : OnList(Tail(q), y) <=> (OnList(q, y) /\ y # Head(q))
    BY TailOfList
  <2>4. QED
    BY <2>1, <2>2, <2>3
<1>3. QED
  BY <1>1, <1>2, MembersOf

(* The members of a list from which one entry is unlinked. *)
LEMMA WithoutMembers ==
  ASSUME NEW S, NEW q \in Seq(S), OnListOnce(q), NEW m \in InSeq(q)
  PROVE  /\ Without(q, m) \in Seq(S)
         /\ InSeq(Without(q, m)) = InSeq(q) \ {m}
         /\ OnListOnce(Without(q, m))
<1> DEFINE k == CHOOSE j \in DOMAIN q : q[j] = m
           w == Without(q, m)
<1>1. k \in 1..Len(q) /\ q[k] = m /\ Len(q) \in Nat
  <2>1. \E j \in DOMAIN q : q[j] = m
    BY DEF InSeq
  <2>2. k \in DOMAIN q /\ q[k] = m
    BY <2>1
  <2>3. QED
    BY <2>2
<1> HIDE DEF k
<1>2. /\ SubSeq(q, 1, k - 1) \in Seq(S) /\ Len(SubSeq(q, 1, k - 1)) = k - 1
      /\ \A i \in 1..(k - 1) : SubSeq(q, 1, k - 1)[i] = q[i]
  BY <1>1, SubSeqProperties
<1>3. /\ SubSeq(q, k + 1, Len(q)) \in Seq(S) /\ Len(SubSeq(q, k + 1, Len(q))) = Len(q) - k
      /\ \A i \in 1..(Len(q) - k) : SubSeq(q, k + 1, Len(q))[i] = q[i + k]
  BY <1>1, SubSeqProperties
<1>4. w = SubSeq(q, 1, k - 1) \o SubSeq(q, k + 1, Len(q))
  BY DEF Without, k
<1> HIDE DEF w
<1>5. /\ w \in Seq(S) /\ Len(w) = Len(q) - 1
      /\ \A i \in 1..(k - 1) : w[i] = q[i]
      /\ \A i \in k..(Len(q) - 1) : w[i] = q[i + 1]
  <2> DEFINE a == SubSeq(q, 1, k - 1)
             b == SubSeq(q, k + 1, Len(q))
  <2>1. a \in Seq(S) /\ b \in Seq(S) /\ Len(a) = k - 1 /\ Len(b) = Len(q) - k /\ w = a \o b
    BY <1>2, <1>3, <1>4
  <2>2. /\ \A i \in 1..(k - 1) : a[i] = q[i]
        /\ \A i \in 1..(Len(q) - k) : b[i] = q[i + k]
    BY <1>2, <1>3
  <2> HIDE DEF a, b
  <2>3. /\ w \in Seq(S) /\ Len(w) = Len(a) + Len(b)
        /\ \A i \in 1..(Len(a) + Len(b)) : w[i] = IF i <= Len(a) THEN a[i] ELSE b[i - Len(a)]
    BY <2>1, ConcatProperties
  <2>4. ASSUME NEW i \in k..(Len(q) - 1) PROVE w[i] = q[i + 1]
    <3>1. i - (k - 1) \in 1..(Len(q) - k) /\ (i - (k - 1)) + k = i + 1 /\ ~(i <= k - 1)
          /\ i \in 1..(Len(a) + Len(b))
      BY <1>1, <2>1
    <3>2. w[i] = b[i - (k - 1)]
      BY <2>1, <2>3, <3>1
    <3>3. QED
      BY <2>2, <3>1, <3>2
  <2>5. QED
    BY <1>1, <2>1, <2>2, <2>3, <2>4
<1>6. ASSUME NEW y \in InSeq(w) PROVE y \in InSeq(q) \ {m}
  <2>1. PICK i \in 1..(Len(q) - 1) : w[i] = y
    BY <1>5 DEF InSeq
  <2>2. PICK j \in 1..Len(q) : q[j] = y /\ j # k
    BY <1>1, <1>5, <2>1
  <2>3. QED
    BY <1>1, <2>2 DEF InSeq, OnListOnce
<1>7. ASSUME NEW y \in InSeq(q) \ {m} PROVE y \in InSeq(w)
  <2>1. PICK j \in 1..Len(q) : q[j] = y /\ j # k
    BY <1>1 DEF InSeq
  <2>2. CASE j < k
    BY <1>1, <1>5, <2>1, <2>2 DEF InSeq
  <2>3. CASE j > k
    <3>1. j - 1 \in k..(Len(q) - 1) /\ (j - 1) + 1 = j /\ j - 1 \in 1..(Len(q) - 1)
      BY <1>1, <2>1, <2>3
    <3>2. w[j - 1] = y /\ j - 1 \in DOMAIN w
      BY <1>5, <2>1, <3>1
    <3>3. QED
      BY <3>2 DEF InSeq
  <2>4. QED
    BY <1>1, <2>1, <2>2, <2>3
<1>8. OnListOnce(w)
  <2>1. SUFFICES ASSUME NEW i \in 1..(Len(q) - 1), NEW j \in 1..(Len(q) - 1), w[i] = w[j]
                 PROVE  i = j
    BY <1>5 DEF OnListOnce
  <2> DEFINE at(n) == IF n < k THEN n ELSE n + 1
  <2>2. /\ at(i) \in 1..Len(q) /\ w[i] = q[at(i)]
        /\ at(j) \in 1..Len(q) /\ w[j] = q[at(j)]
    BY <1>1, <1>5
  <2>3. at(i) = at(j)
    BY <2>1, <2>2 DEF OnListOnce
  <2>4. QED
    BY <1>1, <2>3
<1>9. QED
  BY <1>5, <1>6, <1>7, <1>8 DEF w

(* A rising list after an append of something greater, and after the        *)
(* removal of its head.                                                     *)
LEMMA RisingAppend ==
  ASSUME NEW S \in SUBSET Nat, NEW q \in Seq(S), Rising(q), NEW x \in S,
         \A y \in InSeq(q) : y < x
  PROVE  Rising(Append(q, x))
<1> DEFINE t == Append(q, x)
<1>1. /\ Len(q) \in Nat /\ DOMAIN q = 1..Len(q) /\ DOMAIN t = 1..(Len(q) + 1)
      /\ \A i \in 1..Len(q) : t[i] = q[i]
      /\ t[Len(q) + 1] = x
  OBVIOUS
<1>2. \A i \in 1..Len(q) : q[i] < x
  BY <1>1 DEF InSeq
<1> HIDE DEF t
<1>3. Rising(t)
  BY <1>1, <1>2 DEF Rising
<1>4. QED
  BY <1>3 DEF t

LEMMA RisingTail ==
  ASSUME NEW S \in SUBSET Nat, NEW q \in Seq(S), Rising(q), q # <<>>
  PROVE  /\ Tail(q) \in Seq(S) /\ Rising(Tail(q)) /\ Head(q) \in S
         /\ Head(q) \in InSeq(q) /\ InSeq(Tail(q)) = InSeq(q) \ {Head(q)}
         /\ \A y \in InSeq(Tail(q)) : Head(q) < y
<1> DEFINE t == Tail(q)
<1>1. /\ t \in Seq(S) /\ Len(q) \in Nat \ {0} /\ Len(t) = Len(q) - 1
      /\ DOMAIN t = 1..Len(t) /\ DOMAIN q = 1..Len(q)
      /\ \A i \in 1..Len(t) : t[i] = q[i + 1]
      /\ Head(q) = q[1] /\ \A i \in 1..Len(q) : q[i] \in S
  OBVIOUS
<1>2. OnListOnce(q)
  <2>1. \A i \in 1..Len(q) : q[i] \in Nat
    BY <1>1
  <2>2. QED
    BY <1>1, <2>1 DEF Rising, OnListOnce
<1>3. Rising(t)
  <2>1. SUFFICES ASSUME NEW i \in 1..Len(t), NEW j \in 1..Len(t), i < j
                 PROVE  t[i] < t[j]
    BY <1>1 DEF Rising
  <2>2. i + 1 \in 1..Len(q) /\ j + 1 \in 1..Len(q) /\ i + 1 < j + 1
    BY <1>1, <2>1
  <2>3. QED
    BY <1>1, <2>2 DEF Rising
<1>4. ASSUME NEW y \in InSeq(t) PROVE Head(q) < y
  <2>1. PICK i \in 1..Len(t) : t[i] = y
    BY <1>1 DEF InSeq
  <2>2. i + 1 \in 1..Len(q) /\ 1 \in 1..Len(q) /\ 1 < i + 1
    BY <1>1
  <2>3. QED
    BY <1>1, <2>1, <2>2 DEF Rising
<1>5. QED
  BY <1>2, <1>3, <1>4, TailMembers

(* A flag set to a value. *)
LEMMA FlagSet ==
  ASSUME NEW S, NEW f \in [S -> BOOLEAN], NEW x, NEW b \in BOOLEAN
  PROVE  [f EXCEPT ![x] = b] \in [S -> BOOLEAN]
  BY Zenon

(* exfree: dropping messages that exist drops as many references. *)
LEMMA FreeOK ==
  ASSUME RefOK, NEW ms \in SUBSET live, Free(ms), (epc = "done") = (epc' = "done")
  PROVE  RefOK'
<1>1. IsFiniteSet(ms) /\ Cardinality(live \cap ms) = Cardinality(ms)
  <2>1. live \cap ms = ms
    OBVIOUS
  <2>2. QED
    BY <2>1, FS_Subset DEF RefOK
<1>2. IsFiniteSet(live \ ms) /\ Cardinality(live \ ms) = Cardinality(live) - Cardinality(live \cap ms)
  BY FS_Difference DEF RefOK
<1>3. Cardinality(live) \in Nat /\ Cardinality(ms) \in Nat
  BY <1>1, FS_CardinalityType DEF RefOK
<1>4. QED
  BY <1>1, <1>2, <1>3 DEF RefOK, Free

(* A new message takes a new reference. *)
LEMMA NewOK ==
  ASSUME RefOK, NEW m, m \notin live, live' = live \cup {m}, ref' = ref + 1,
         epc # "done", epc' # "done"
  PROVE  RefOK'
<1>1. IsFiniteSet(live') /\ Cardinality(live') = Cardinality(live) + 1
  BY FS_AddElement DEF RefOK
<1>2. Cardinality(live) \in Nat
  BY FS_CardinalityType DEF RefOK
<1>3. QED
  BY <1>1, <1>2 DEF RefOK

(* An answer that keeps the promises. *)
LEMMA AnswerOK ==
  ASSUME ListsOK, AnswersAsPromised, NEW m \in Msgs, m \notin answered,
         Reqs \cap Flushes = {}, sent' = Append(sent, m), oldtag' = oldtag,
         \A f \in (answered \cup {m}) \cap Flushes : oldtag[f] # m,
         m \in Flushes => \A f \in answered \cap Flushes : oldtag[f] = oldtag[m] => f < m
  PROVE  AnswersAsPromised'
<1> DEFINE t == Append(sent, m)
<1>1. /\ Len(sent) \in Nat /\ DOMAIN sent = 1..Len(sent) /\ DOMAIN t = 1..(Len(sent) + 1)
      /\ \A i \in 1..Len(sent) : t[i] = sent[i]
      /\ t[Len(sent) + 1] = m /\ sent' = t
  BY DEF ListsOK
<1>2. \A i \in 1..Len(sent) : sent[i] \in answered
  BY <1>1 DEF answered, InSeq
<1> HIDE DEF t
<1>3. RepliesOnce'
  BY <1>1, <1>2 DEF RepliesOnce, AnswersAsPromised
<1>4. NothingAfterRflush'
  <2>1. SUFFICES ASSUME NEW i \in 1..(Len(sent) + 1), NEW j \in 1..(Len(sent) + 1),
                        t[i] \in Flushes, t[j] = oldtag[t[i]]
                 PROVE  j < i
    BY <1>1 DEF NothingAfterRflush
  <2>2. QED
    BY <1>1, <1>2, <2>1 DEF NothingAfterRflush, AnswersAsPromised
<1>5. FlushesInOrder'
  <2>1. SUFFICES ASSUME NEW i \in 1..(Len(sent) + 1), NEW j \in 1..(Len(sent) + 1),
                        i < j, t[i] \in Flushes, t[j] \in Flushes, oldtag[t[i]] = oldtag[t[j]]
                 PROVE  t[i] < t[j]
    BY <1>1 DEF FlushesInOrder
  <2>2. QED
    BY <1>1, <1>2, <2>1 DEF FlushesInOrder, AnswersAsPromised
<1>6. QED
  BY <1>3, <1>4, <1>5 DEF AnswersAsPromised

(* The other entries of an array of flags when one is set. *)
LEMMA FlagsElsewhere ==
  ASSUME NEW S, NEW f \in [S -> BOOLEAN], NEW x \in S, NEW b \in BOOLEAN
  PROVE  /\ [f EXCEPT ![x] = b][x] <=> b
         /\ \A y \in S : y # x => ([f EXCEPT ![x] = b][y] <=> f[y])
  BY Zenon

(* What the lists hold. *)
LEMMA ListTypes ==
  ASSUME ListsOK
  PROVE  queued \subseteq Reqs /\ waiting \in [Reqs -> SUBSET Flushes] /\ answered \subseteq Msgs
  BY MembersOf DEF ListsOK, queued, waiting, answered

(* qunlock(&exq.qwait). *)
LEMMA qunlockOK ==
  ASSUME TypesOK, qunlock
  PROVE  qwait' \in Slaves \cup {None} /\ qwaitq' \in Seq(Slaves)
  BY DEF TypesOK, qunlock

(* A step that leaves the lists alone. *)
LEMMA ListsSame ==
  ASSUME ListsOK, UNCHANGED <<exq, flush, sent>>
  PROVE  ListsOK' /\ queued' = queued /\ waiting' = waiting /\ answered' = answered
  BY DEF ListsOK, queued, waiting, answered, Rising

(***************************************************************************)
(* The steps that take an entry off a list, in terms of the lists' members. *)
(***************************************************************************)
Takes(s, r) ==
  /\ spc[s] = "take" /\ exql = None /\ r \in queued /\ queued' = queued \ {r}
  /\ spc' = [spc EXCEPT ![s] = "post"] /\ exql' = s
  /\ job' = [job EXCEPT ![s] = r] /\ slave' = [slave EXCEPT ![r] = s]
  /\ busy' = [busy EXCEPT ![r] = TRUE] /\ killed' = [killed EXCEPT ![s] = FALSE]
  /\ ListsOK' /\ UNCHANGED <<waiting, answered>>
  /\ qwait' \in Slaves \cup {None} /\ qwaitq' \in Seq(Slaves)
  /\ UNCHANGED <<fsl, tail, work, finished, shut, live, ref, epc, msg, oldtag, asked, fq, err, sent>>

NextFlush(s, f) ==
  /\ spc[s] = "flushes" /\ ~shut[job[s]] /\ f \in waiting[job[s]]
  /\ spc' = [spc EXCEPT ![s] = "rflush"] /\ fq' = [fq EXCEPT ![s] = f]
  /\ waiting' = [waiting EXCEPT ![job[s]] = @ \ {f}]
  /\ \A g \in waiting'[job[s]] : f < g
  /\ ListsOK' /\ UNCHANGED <<queued, answered>>
  /\ UNCHANGED <<exql, fsl, tail, work, slave, busy, finished, shut, live, ref, killed, qwait,
                 qwaitq, epc, msg, oldtag, asked, job, err, sent>>

Frees(s) ==
  /\ spc[s] = "free" /\ spc' = [spc EXCEPT ![s] = "qlock"]
  /\ killed' = [killed EXCEPT ![s] = FALSE] /\ job' = [job EXCEPT ![s] = None]
  /\ waiting' = [waiting EXCEPT ![job[s]] = {}]
  /\ live' = live \ ({job[s]} \cup waiting[job[s]])
  /\ ListsOK' /\ RefOK' /\ UNCHANGED <<queued, answered>>
  /\ UNCHANGED <<exql, fsl, tail, work, slave, busy, finished, shut, qwait, qwaitq, epc, msg,
                 oldtag, asked, fq, err, sent>>
-----------------------------------------------------------------------------

(* exportproc reads a request. *)
LEMMA ReadRequestOK ==
  ASSUME IndInv, NEW r \in Reqs, ReadRequest(r)
  PROVE  IndInv'
<1>a. UNCHANGED <<exq, flush, sent>>
  BY DEF ReadRequest, Eto, Sto, queues,
    marks, export, slaves, qlocks, IsNext
<1>q. ListsOK' /\ queued' = queued /\ waiting' = waiting /\ answered' = answered
  BY <1>a, ListsSame DEF IndInv
<1>t. queued \subseteq Reqs /\ waiting \in [Reqs -> SUBSET Flushes] /\ answered \subseteq Msgs
  BY ListTypes DEF IndInv
<1> USE DEF IndInv, ReadRequest, Eto, Sto, queues, marks, export, slaves,
    qlocks, IsNext
<1>h. Reqs \cap Flushes = {} /\ None \notin Reqs \cup Flushes \cup Slaves /\ Reqs \cup Flushes \subseteq Nat
  BY ExportfsAssumption
<1>1. PlacesOK'
  BY <1>q DEF PlacesOK, EStmts, SStmts, HasJob, Closing
<1>2. TypesOK'
  BY <1>h, <1>q, <1>t, ExportfsAssumption DEF TypesOK, Msgs, PlacesOK, EStmts,
    SStmts, HasJob, Closing, MsgOK, Flushing, JobsOK, Posted
<1>3. FlagsOK'
  BY <1>q DEF FlagsOK
<1>4. QueueOK'
  BY <1>q DEF QueueOK
<1>5. JobsOK'
  BY <1>q DEF JobsOK, HasJob, Closing
<1>6. LockOK'
  BY <1>q DEF LockOK
<1>7. MsgOK'
  BY <1>h, <1>q DEF MsgOK, Flushing, PlacesOK, EStmts, SStmts, HasJob,
    Closing, TypesOK, Msgs, JobsOK, QueueOK, FlushesOK, HeldAt, Posted, FqOK
<1>8. OldtagOK'
  BY <1>h, <1>q DEF OldtagOK, PlacesOK, EStmts, SStmts, HasJob, Closing,
    TypesOK, Msgs
<1>9. WorkOK'
  BY <1>q DEF WorkOK, HeldAt, Posted
<1>10. BusyOK'
  BY <1>q DEF BusyOK, HeldAt
<1>11. ShutOK'
  BY <1>q DEF ShutOK
<1>12. FinishedOK'
  BY <1>q DEF FinishedOK, HasJob, Closing
<1>13. FlushesOK'
  BY <1>q DEF FlushesOK, HeldAt, Posted
<1>14. FqOK'
  BY <1>q DEF FqOK
<1>15. PendingOK'
  BY <1>h, <1>q DEF PendingOK, Flushing, PlacesOK, EStmts, SStmts, HasJob,
    Closing, TypesOK, Msgs
<1>16. FreshOK'
  BY <1>q DEF FreshOK, Unstarted
<1>17. KilledOK'
  BY <1>q DEF KilledOK, HasJob, Closing
<1>18. FoundOK'
  BY <1>q DEF FoundOK, Closed, Unstarted, Closing
<1>19. AnsweredOK'
  BY <1>q DEF AnsweredOK, Closed, Unstarted, Closing
<1>20. OrderOK'
  BY <1>h, <1>q DEF OrderOK, PlacesOK, EStmts, SStmts, HasJob, Closing,
    TypesOK, Msgs
<1>21. RefOK'
  <2>1. r \notin live
    BY DEF TypesOK
  <2>2. QED
    BY <2>1, NewOK
<1>22. AnswersAsPromised'
  BY <1>q DEF AnswersAsPromised, RepliesOnce, NothingAfterRflush,
    FlushesInOrder
<1>23. QED
  BY <1>h, <1>q, <1>1, <1>2, <1>3, <1>4, <1>5, <1>6, <1>7, <1>8,
    <1>9, <1>10, <1>11, <1>12, <1>13, <1>14, <1>15, <1>16, <1>17, <1>18,
    <1>19, <1>20, <1>21, <1>22

(* exportproc reads a Tflush of r. *)
LEMMA ReadFlushOK ==
  ASSUME IndInv, NEW r \in Reqs, NEW f \in Flushes, ReadFlush(f, r)
  PROVE  IndInv'
<1>a. UNCHANGED <<exq, flush, sent>>
  BY DEF ReadFlush, Eto, Sto, queues,
    marks, export, slaves, qlocks, IsNext
<1>q. ListsOK' /\ queued' = queued /\ waiting' = waiting /\ answered' = answered
  BY <1>a, ListsSame DEF IndInv
<1>t. queued \subseteq Reqs /\ waiting \in [Reqs -> SUBSET Flushes] /\ answered \subseteq Msgs
  BY ListTypes DEF IndInv
<1> USE DEF IndInv, ReadFlush, Eto, Sto, queues, marks, export, slaves,
    qlocks, IsNext
<1>h. Reqs \cap Flushes = {} /\ None \notin Reqs \cup Flushes \cup Slaves /\ Reqs \cup Flushes \subseteq Nat
  BY ExportfsAssumption
<1>1. PlacesOK'
  BY <1>q DEF PlacesOK, EStmts, SStmts, HasJob, Closing
<1>2. TypesOK'
  BY <1>h, <1>q, <1>t, ExportfsAssumption DEF TypesOK, Msgs, PlacesOK, EStmts,
    SStmts, HasJob, Closing, MsgOK, Flushing, JobsOK, Posted
<1>3. FlagsOK'
  BY <1>q DEF FlagsOK
<1>4. QueueOK'
  BY <1>q DEF QueueOK
<1>5. JobsOK'
  BY <1>q DEF JobsOK, HasJob, Closing
<1>6. LockOK'
  BY <1>q DEF LockOK
<1>7. MsgOK'
  <2>0. \A g \in asked \cap Flushes : g # f /\ g < f
    BY <1>h DEF OldtagOK
  <2>1. \A q \in Reqs : f \notin waiting[q]
    BY <2>0, <1>t DEF FlushesOK, TypesOK
  <2>2. \A s \in Slaves : fq[s] # f
    BY <1>h, <2>0, ExportfsAssumption DEF FqOK, TypesOK
  <2>3. QED
    BY <1>h, <1>q, <2>0, <2>1, <2>2 DEF MsgOK, Flushing
<1>8. OldtagOK'
  BY <1>h, <1>q DEF OldtagOK, PlacesOK, EStmts, SStmts, HasJob, Closing,
    TypesOK, Msgs
<1>9. WorkOK'
  BY <1>q DEF WorkOK, HeldAt, Posted
<1>10. BusyOK'
  BY <1>q DEF BusyOK, HeldAt
<1>11. ShutOK'
  BY <1>q DEF ShutOK
<1>12. FinishedOK'
  BY <1>q DEF FinishedOK, HasJob, Closing
<1>13. FlushesOK'
  BY <1>h, <1>q DEF FlushesOK, HeldAt, Posted, PlacesOK, EStmts, SStmts,
    HasJob, Closing, TypesOK, Msgs
<1>14. FqOK'
  BY <1>h, <1>q DEF FqOK, PlacesOK, EStmts, SStmts, HasJob, Closing, TypesOK,
    Msgs
<1>15. PendingOK'
  BY <1>q DEF PendingOK, Flushing
<1>16. FreshOK'
  BY <1>q DEF FreshOK, Unstarted
<1>17. KilledOK'
  BY <1>q DEF KilledOK, HasJob, Closing
<1>18. FoundOK'
  BY <1>q DEF FoundOK, Closed, Unstarted, Closing
<1>19. AnsweredOK'
  BY <1>q DEF AnsweredOK, Closed, Unstarted, Closing
<1>20. OrderOK'
  <2>0. \A g \in asked \cap Flushes : g # f /\ g < f
    BY <1>h DEF OldtagOK
  <2>1. \A g \in asked \cap Flushes : oldtag'[g] = oldtag[g]
    BY <2>0 DEF TypesOK
  <2>2. QED
    BY <1>h, <1>q, <2>0, <2>1 DEF OrderOK, AnsweredOK, TypesOK
<1>21. RefOK'
  <2>1. f \notin live
    BY DEF TypesOK
  <2>2. QED
    BY <2>1, NewOK
<1>22. AnswersAsPromised'
  <2>1. f \notin answered
    BY <1>h DEF AnsweredOK
  <2>2. \A i \in DOMAIN sent : sent[i] # f
    BY <2>1 DEF answered, InSeq
  <2>3. \A i \in DOMAIN sent : sent[i] \in Flushes => oldtag'[sent[i]] = oldtag[sent[i]]
    BY <2>2 DEF TypesOK
  <2>4. QED
    BY <2>3 DEF AnswersAsPromised, RepliesOnce, NothingAfterRflush, FlushesInOrder
<1>23. QED
  BY <1>h, <1>q, <1>1, <1>2, <1>3, <1>4, <1>5, <1>6, <1>7, <1>8,
    <1>9, <1>10, <1>11, <1>12, <1>13, <1>14, <1>15, <1>16, <1>17, <1>18,
    <1>19, <1>20, <1>21, <1>22

(* The request goes to the end of exq. *)
LEMMA AppendKeptOK ==
  ASSUME IndInv, AppendRequest, exq' = Append(exq, msg)
  PROVE  IndInv'
<1>a. epc = "append" /\ UNCHANGED <<flush, sent>>
  BY DEF AppendRequest, Eto,
    Sto, queues, marks, export, slaves, qlocks
<1>q. ListsOK' /\ queued' = queued \cup {msg} /\ waiting' = waiting /\ answered' = answered
  <2>1. msg \in Reqs /\ msg \notin queued
    BY <1>a DEF IndInv, MsgOK
  <2>2. exq' \in Seq(Reqs) /\ OnListOnce(exq') /\ queued' = queued \cup {msg}
    BY <2>1, AppendMembers DEF IndInv, ListsOK, queued
  <2>3. QED
    BY <1>a, <2>2 DEF IndInv, ListsOK, waiting, answered
<1>t. queued \subseteq Reqs /\ waiting \in [Reqs -> SUBSET Flushes] /\ answered \subseteq Msgs
  BY ListTypes DEF IndInv
<1> USE DEF IndInv, AppendRequest, Eto, Sto, queues, marks, export, slaves,
    qlocks
<1>h. Reqs \cap Flushes = {} /\ None \notin Reqs \cup Flushes \cup Slaves /\ Reqs \cup Flushes \subseteq Nat
  BY ExportfsAssumption
<1>1. PlacesOK'
  BY <1>q DEF PlacesOK, EStmts, SStmts, HasJob, Closing
<1>2. TypesOK'
  BY <1>h, <1>q DEF TypesOK, Msgs, PlacesOK, EStmts, SStmts, HasJob, Closing,
    MsgOK, Flushing, JobsOK
<1>3. FlagsOK'
  BY <1>q DEF FlagsOK
<1>4. QueueOK'
  BY <1>h, <1>q DEF QueueOK, PlacesOK, EStmts, SStmts, HasJob, Closing,
    TypesOK, Msgs, MsgOK, Flushing, JobsOK, FqOK, FlushesOK, HeldAt, Posted
<1>5. JobsOK'
  BY <1>h, <1>q DEF JobsOK, HasJob, Closing, PlacesOK, EStmts, SStmts,
    TypesOK, Msgs, QueueOK, MsgOK, Flushing, FlushesOK, HeldAt, Posted, FqOK
<1>6. LockOK'
  BY <1>q DEF LockOK
<1>7. MsgOK'
  BY <1>q DEF MsgOK, Flushing
<1>8. OldtagOK'
  BY <1>q DEF OldtagOK
<1>9. WorkOK'
  BY <1>q DEF WorkOK, HeldAt, Posted
<1>10. BusyOK'
  BY <1>q DEF BusyOK, HeldAt
<1>11. ShutOK'
  BY <1>q DEF ShutOK
<1>12. FinishedOK'
  BY <1>q DEF FinishedOK, HasJob, Closing
<1>13. FlushesOK'
  BY <1>q DEF FlushesOK, HeldAt, Posted
<1>14. FqOK'
  BY <1>q DEF FqOK
<1>15. PendingOK'
  BY <1>q DEF PendingOK, Flushing
<1>16. FreshOK'
  BY <1>q DEF FreshOK, Unstarted
<1>17. KilledOK'
  BY <1>q DEF KilledOK, HasJob, Closing
<1>18. FoundOK'
  BY <1>q DEF FoundOK, Closed, Unstarted, Closing
<1>19. AnsweredOK'
  BY <1>q DEF AnsweredOK, Closed, Unstarted, Closing
<1>20. OrderOK'
  BY <1>q DEF OrderOK
<1>21. RefOK'
  BY <1>q DEF RefOK
<1>22. AnswersAsPromised'
  BY <1>q DEF AnswersAsPromised, RepliesOnce, NothingAfterRflush,
    FlushesInOrder
<1>23. QED
  BY <1>h, <1>q, <1>1, <1>2, <1>3, <1>4, <1>5, <1>6, <1>7, <1>8,
    <1>9, <1>10, <1>11, <1>12, <1>13, <1>14, <1>15, <1>16, <1>17, <1>18,
    <1>19, <1>20, <1>21, <1>22

(* The request is hung on freed memory. *)
LEMMA AppendLostOK ==
  ASSUME IndInv, AppendRequest, exq' = exq
  PROVE  IndInv'
<1>a. UNCHANGED <<exq, flush, sent>>
  BY DEF AppendRequest, Eto, Sto, queues,
    marks, export, slaves, qlocks
<1>q. ListsOK' /\ queued' = queued /\ waiting' = waiting /\ answered' = answered
  BY <1>a, ListsSame DEF IndInv
<1>t. queued \subseteq Reqs /\ waiting \in [Reqs -> SUBSET Flushes] /\ answered \subseteq Msgs
  BY ListTypes DEF IndInv
<1> USE DEF IndInv, AppendRequest, Eto, Sto, queues, marks, export, slaves,
    qlocks
<1>h. Reqs \cap Flushes = {} /\ None \notin Reqs \cup Flushes \cup Slaves /\ Reqs \cup Flushes \subseteq Nat
  BY ExportfsAssumption
<1>1. PlacesOK'
  BY <1>q DEF PlacesOK, EStmts, SStmts, HasJob, Closing
<1>2. TypesOK'
  BY <1>h, <1>q DEF TypesOK, Msgs, PlacesOK, EStmts, SStmts, HasJob, Closing,
    MsgOK, Flushing, JobsOK
<1>3. FlagsOK'
  BY <1>q DEF FlagsOK
<1>4. QueueOK'
  BY <1>q DEF QueueOK
<1>5. JobsOK'
  BY <1>q DEF JobsOK, HasJob, Closing
<1>6. LockOK'
  BY <1>q DEF LockOK
<1>7. MsgOK'
  BY <1>q DEF MsgOK, Flushing
<1>8. OldtagOK'
  BY <1>q DEF OldtagOK
<1>9. WorkOK'
  BY <1>q DEF WorkOK, HeldAt, Posted
<1>10. BusyOK'
  BY <1>q DEF BusyOK, HeldAt
<1>11. ShutOK'
  BY <1>q DEF ShutOK
<1>12. FinishedOK'
  BY <1>q DEF FinishedOK, HasJob, Closing
<1>13. FlushesOK'
  BY <1>q DEF FlushesOK, HeldAt, Posted
<1>14. FqOK'
  BY <1>q DEF FqOK
<1>15. PendingOK'
  BY <1>q DEF PendingOK, Flushing
<1>16. FreshOK'
  BY <1>q DEF FreshOK, Unstarted
<1>17. KilledOK'
  BY <1>q DEF KilledOK, HasJob, Closing
<1>18. FoundOK'
  BY <1>q DEF FoundOK, Closed, Unstarted, Closing
<1>19. AnsweredOK'
  BY <1>q DEF AnsweredOK, Closed, Unstarted, Closing
<1>20. OrderOK'
  BY <1>q DEF OrderOK
<1>21. RefOK'
  BY <1>q DEF RefOK
<1>22. AnswersAsPromised'
  BY <1>q DEF AnswersAsPromised, RepliesOnce, NothingAfterRflush,
    FlushesInOrder
<1>23. QED
  BY <1>h, <1>q, <1>1, <1>2, <1>3, <1>4, <1>5, <1>6, <1>7, <1>8,
    <1>9, <1>10, <1>11, <1>12, <1>13, <1>14, <1>15, <1>16, <1>17, <1>18,
    <1>19, <1>20, <1>21, <1>22

(* A new slave is made. *)
LEMMA WakeNewOK ==
  ASSUME IndInv, WakeSlave, qwaitq = <<>>, Unmade # {}, NEW s \in Slaves,
    Sto(s, "none", "qlock")
  PROVE  IndInv'
<1>a. UNCHANGED <<exq, flush, sent>>
  BY DEF WakeSlave, Eto, Sto, queues,
    marks, export, slaves, qlocks
<1>q. ListsOK' /\ queued' = queued /\ waiting' = waiting /\ answered' = answered
  BY <1>a, ListsSame DEF IndInv
<1>t. queued \subseteq Reqs /\ waiting \in [Reqs -> SUBSET Flushes] /\ answered \subseteq Msgs
  BY ListTypes DEF IndInv
<1> USE DEF IndInv, WakeSlave, Eto, Sto, queues, marks, export, slaves, qlocks
<1>h. Reqs \cap Flushes = {} /\ None \notin Reqs \cup Flushes \cup Slaves /\ Reqs \cup Flushes \subseteq Nat
  BY ExportfsAssumption
<1>1. PlacesOK'
  BY <1>q DEF PlacesOK, EStmts, SStmts, HasJob, Closing
<1>2. TypesOK'
  BY <1>q DEF TypesOK, Msgs
<1>3. FlagsOK'
  BY <1>q DEF FlagsOK
<1>4. QueueOK'
  BY <1>q DEF QueueOK
<1>5. JobsOK'
  BY <1>q DEF JobsOK, HasJob, Closing
<1>6. LockOK'
  BY <1>q DEF LockOK
<1>7. MsgOK'
  BY <1>q DEF MsgOK, Flushing
<1>8. OldtagOK'
  BY <1>q DEF OldtagOK
<1>9. WorkOK'
  BY <1>q DEF WorkOK, HeldAt, Posted
<1>10. BusyOK'
  BY <1>q DEF BusyOK, HeldAt
<1>11. ShutOK'
  BY <1>q DEF ShutOK
<1>12. FinishedOK'
  BY <1>q DEF FinishedOK, HasJob, Closing
<1>13. FlushesOK'
  BY <1>q DEF FlushesOK, HeldAt, Posted
<1>14. FqOK'
  BY <1>q DEF FqOK
<1>15. PendingOK'
  BY <1>q DEF PendingOK, Flushing
<1>16. FreshOK'
  BY <1>q DEF FreshOK, Unstarted
<1>17. KilledOK'
  BY <1>q DEF KilledOK, HasJob, Closing
<1>18. FoundOK'
  BY <1>q DEF FoundOK, Closed, Unstarted, Closing
<1>19. AnsweredOK'
  BY <1>q DEF AnsweredOK, Closed, Unstarted, Closing
<1>20. OrderOK'
  BY <1>q DEF OrderOK
<1>21. RefOK'
  BY <1>q DEF RefOK
<1>22. AnswersAsPromised'
  BY <1>q DEF AnswersAsPromised, RepliesOnce, NothingAfterRflush,
    FlushesInOrder
<1>23. QED
  BY <1>h, <1>q, <1>1, <1>2, <1>3, <1>4, <1>5, <1>6, <1>7, <1>8,
    <1>9, <1>10, <1>11, <1>12, <1>13, <1>14, <1>15, <1>16, <1>17, <1>18,
    <1>19, <1>20, <1>21, <1>22

(* No slave is made. *)
LEMMA WakeOldOK ==
  ASSUME IndInv, WakeSlave, UNCHANGED spc
  PROVE  IndInv'
<1>a. UNCHANGED <<exq, flush, sent>>
  BY DEF WakeSlave, Eto, Sto, queues,
    marks, export, slaves, qlocks
<1>q. ListsOK' /\ queued' = queued /\ waiting' = waiting /\ answered' = answered
  BY <1>a, ListsSame DEF IndInv
<1>t. queued \subseteq Reqs /\ waiting \in [Reqs -> SUBSET Flushes] /\ answered \subseteq Msgs
  BY ListTypes DEF IndInv
<1> USE DEF IndInv, WakeSlave, Eto, Sto, queues, marks, export, slaves, qlocks
<1>h. Reqs \cap Flushes = {} /\ None \notin Reqs \cup Flushes \cup Slaves /\ Reqs \cup Flushes \subseteq Nat
  BY ExportfsAssumption
<1>1. PlacesOK'
  BY <1>q DEF PlacesOK, EStmts, SStmts, HasJob, Closing
<1>2. TypesOK'
  BY <1>q DEF TypesOK, Msgs
<1>3. FlagsOK'
  BY <1>q DEF FlagsOK
<1>4. QueueOK'
  BY <1>q DEF QueueOK
<1>5. JobsOK'
  BY <1>q DEF JobsOK, HasJob, Closing
<1>6. LockOK'
  BY <1>q DEF LockOK
<1>7. MsgOK'
  BY <1>q DEF MsgOK, Flushing
<1>8. OldtagOK'
  BY <1>q DEF OldtagOK
<1>9. WorkOK'
  BY <1>q DEF WorkOK, HeldAt, Posted
<1>10. BusyOK'
  BY <1>q DEF BusyOK, HeldAt
<1>11. ShutOK'
  BY <1>q DEF ShutOK
<1>12. FinishedOK'
  BY <1>q DEF FinishedOK, HasJob, Closing
<1>13. FlushesOK'
  BY <1>q DEF FlushesOK, HeldAt, Posted
<1>14. FqOK'
  BY <1>q DEF FqOK
<1>15. PendingOK'
  BY <1>q DEF PendingOK, Flushing
<1>16. FreshOK'
  BY <1>q DEF FreshOK, Unstarted
<1>17. KilledOK'
  BY <1>q DEF KilledOK, HasJob, Closing
<1>18. FoundOK'
  BY <1>q DEF FoundOK, Closed, Unstarted, Closing
<1>19. AnsweredOK'
  BY <1>q DEF AnsweredOK, Closed, Unstarted, Closing
<1>20. OrderOK'
  BY <1>q DEF OrderOK
<1>21. RefOK'
  BY <1>q DEF RefOK
<1>22. AnswersAsPromised'
  BY <1>q DEF AnswersAsPromised, RepliesOnce, NothingAfterRflush,
    FlushesInOrder
<1>23. QED
  BY <1>h, <1>q, <1>1, <1>2, <1>3, <1>4, <1>5, <1>6, <1>7, <1>8,
    <1>9, <1>10, <1>11, <1>12, <1>13, <1>14, <1>15, <1>16, <1>17, <1>18,
    <1>19, <1>20, <1>21, <1>22

(* exflushed finds the request on exq. *)
LEMMA FlushFoundOK ==
  ASSUME IndInv, FlushQueued, oldtag[msg] \in queued
  PROVE  IndInv'
<1>a. exq' = Without(exq, oldtag[msg]) /\ UNCHANGED <<flush, sent>>
  BY DEF
    FlushQueued, Eto, Sto, queues, marks, export, slaves, qlocks, Free, queued
<1>q. ListsOK' /\ queued' = queued \ {oldtag[msg]} /\ waiting' = waiting /\ answered' = answered
  <2>1. exq' \in Seq(Reqs) /\ OnListOnce(exq') /\ queued' = queued \ {oldtag[msg]}
    BY <1>a, WithoutMembers DEF IndInv, ListsOK, queued
  <2>2. QED
    BY <1>a, <2>1 DEF IndInv, ListsOK, waiting, answered
<1>t. queued \subseteq Reqs /\ waiting \in [Reqs -> SUBSET Flushes] /\ answered \subseteq Msgs
  BY ListTypes DEF IndInv
<1> USE DEF IndInv, FlushQueued, Eto, Sto, queues, marks, export, slaves,
    qlocks, Free
<1>h. oldtag[msg] \in InSeq(exq)
  BY DEF queued
<1>1. PlacesOK'
  BY <1>q DEF PlacesOK, EStmts, SStmts, HasJob, Closing
<1>2. TypesOK'
  BY <1>q DEF TypesOK, Msgs
<1>3. FlagsOK'
  BY <1>q DEF FlagsOK
<1>4. QueueOK'
  BY <1>q DEF QueueOK
<1>5. JobsOK'
  BY <1>q DEF JobsOK, HasJob, Closing
<1>6. LockOK'
  BY <1>q DEF LockOK
<1>7. MsgOK'
  BY <1>h, <1>q, <1>t, ExportfsAssumption DEF MsgOK, Flushing, PlacesOK,
    EStmts, SStmts, HasJob, Closing, TypesOK, Msgs, JobsOK, QueueOK,
    FlushesOK, HeldAt, Posted, FqOK
<1>8. OldtagOK'
  BY <1>q DEF OldtagOK
<1>9. WorkOK'
  BY <1>q DEF WorkOK, HeldAt, Posted
<1>10. BusyOK'
  BY <1>q DEF BusyOK, HeldAt
<1>11. ShutOK'
  BY <1>q DEF ShutOK
<1>12. FinishedOK'
  BY <1>q DEF FinishedOK, HasJob, Closing
<1>13. FlushesOK'
  BY <1>h, <1>q, <1>t, ExportfsAssumption DEF FlushesOK, HeldAt, Posted,
    PlacesOK, EStmts, SStmts, HasJob, Closing, TypesOK, Msgs, JobsOK, MsgOK,
    Flushing, WorkOK, FqOK
<1>14. FqOK'
  BY <1>h, <1>q, <1>t, ExportfsAssumption DEF FqOK, PlacesOK, EStmts, SStmts,
    HasJob, Closing, TypesOK, Msgs, JobsOK, FlushesOK, HeldAt, Posted, MsgOK,
    Flushing
<1>15. PendingOK'
  BY <1>q DEF PendingOK, Flushing
<1>16. FreshOK'
  BY <1>q DEF FreshOK, Unstarted
<1>17. KilledOK'
  BY <1>q DEF KilledOK, HasJob, Closing
<1>18. FoundOK'
  BY <1>h, <1>q, <1>t, ExportfsAssumption DEF FoundOK, Closed, Unstarted,
    Closing, PlacesOK, EStmts, SStmts, HasJob, TypesOK, Msgs, JobsOK, MsgOK,
    Flushing, OldtagOK, WorkOK, HeldAt, Posted, LockOK, FreshOK, FinishedOK,
    ShutOK, FqOK, FlushesOK
<1>19. AnsweredOK'
  BY <1>q DEF AnsweredOK, Closed, Unstarted, Closing
<1>20. OrderOK'
  BY <1>q DEF OrderOK
<1>21. RefOK'
  <2>1. {oldtag[msg]} \in SUBSET live /\ Free({oldtag[msg]})
    BY <1>h, <1>q DEF QueueOK
  <2>2. QED
    BY <2>1, FreeOK
<1>22. AnswersAsPromised'
  BY <1>q DEF AnswersAsPromised, RepliesOnce, NothingAfterRflush,
    FlushesInOrder
<1>23. QED
  BY <1>h, <1>q, <1>1, <1>2, <1>3, <1>4, <1>5, <1>6, <1>7, <1>8,
    <1>9, <1>10, <1>11, <1>12, <1>13, <1>14, <1>15, <1>16, <1>17, <1>18,
    <1>19, <1>20, <1>21, <1>22

(* exflushed does not find it there. *)
LEMMA FlushNotQueuedOK ==
  ASSUME IndInv, FlushQueued, oldtag[msg] \notin queued
  PROVE  IndInv'
<1>a. UNCHANGED <<exq, flush, sent>>
  BY DEF FlushQueued, Eto, Sto, queues,
    marks, export, slaves, qlocks, queued
<1>q. ListsOK' /\ queued' = queued /\ waiting' = waiting /\ answered' = answered
  BY <1>a, ListsSame DEF IndInv
<1>t. queued \subseteq Reqs /\ waiting \in [Reqs -> SUBSET Flushes] /\ answered \subseteq Msgs
  BY ListTypes DEF IndInv
<1> USE DEF IndInv, FlushQueued, Eto, Sto, queues, marks, export, slaves,
    qlocks
<1>h. oldtag[msg] \notin InSeq(exq)
  BY DEF queued
<1>1. PlacesOK'
  BY <1>q DEF PlacesOK, EStmts, SStmts, HasJob, Closing
<1>2. TypesOK'
  BY <1>h, <1>q DEF TypesOK, Msgs, PlacesOK, EStmts, SStmts, HasJob, Closing
<1>3. FlagsOK'
  BY <1>q DEF FlagsOK
<1>4. QueueOK'
  BY <1>h, <1>q DEF QueueOK, PlacesOK, EStmts, SStmts, HasJob, Closing,
    TypesOK, Msgs
<1>5. JobsOK'
  BY <1>h, <1>q DEF JobsOK, HasJob, Closing, PlacesOK, EStmts, SStmts,
    TypesOK, Msgs
<1>6. LockOK'
  BY <1>q DEF LockOK
<1>7. MsgOK'
  BY <1>h, <1>q DEF MsgOK, Flushing, PlacesOK, EStmts, SStmts, HasJob,
    Closing, TypesOK, Msgs
<1>8. OldtagOK'
  BY <1>q DEF OldtagOK
<1>9. WorkOK'
  BY <1>q DEF WorkOK, HeldAt, Posted
<1>10. BusyOK'
  BY <1>q DEF BusyOK, HeldAt
<1>11. ShutOK'
  BY <1>q DEF ShutOK
<1>12. FinishedOK'
  BY <1>q DEF FinishedOK, HasJob, Closing
<1>13. FlushesOK'
  BY <1>h, <1>q DEF FlushesOK, HeldAt, Posted, PlacesOK, EStmts, SStmts,
    HasJob, Closing, TypesOK, Msgs
<1>14. FqOK'
  BY <1>h, <1>q DEF FqOK, PlacesOK, EStmts, SStmts, HasJob, Closing, TypesOK,
    Msgs
<1>15. PendingOK'
  BY <1>h, <1>q DEF PendingOK, Flushing, PlacesOK, EStmts, SStmts, HasJob,
    Closing, TypesOK, Msgs
<1>16. FreshOK'
  BY <1>q DEF FreshOK, Unstarted
<1>17. KilledOK'
  BY <1>q DEF KilledOK, HasJob, Closing
<1>18. FoundOK'
  BY <1>h, <1>q, <1>t, ExportfsAssumption DEF FoundOK, Closed, Unstarted,
    Closing, PlacesOK, EStmts, SStmts, HasJob, TypesOK, Msgs, JobsOK, MsgOK,
    Flushing, OldtagOK, WorkOK, HeldAt, Posted, LockOK, FreshOK, FinishedOK,
    ShutOK, FqOK, FlushesOK
<1>19. AnsweredOK'
  BY <1>h, <1>q DEF AnsweredOK, Closed, Unstarted, Closing, PlacesOK, EStmts,
    SStmts, HasJob, TypesOK, Msgs
<1>20. OrderOK'
  BY <1>h, <1>q DEF OrderOK, PlacesOK, EStmts, SStmts, HasJob, Closing,
    TypesOK, Msgs
<1>21. RefOK'
  BY <1>h, <1>q DEF RefOK, PlacesOK, EStmts, SStmts, HasJob, Closing, TypesOK,
    Msgs
<1>22. AnswersAsPromised'
  BY <1>q DEF AnswersAsPromised, RepliesOnce, NothingAfterRflush,
    FlushesInOrder
<1>23. QED
  BY <1>h, <1>q, <1>1, <1>2, <1>3, <1>4, <1>5, <1>6, <1>7, <1>8,
    <1>9, <1>10, <1>11, <1>12, <1>13, <1>14, <1>15, <1>16, <1>17, <1>18,
    <1>19, <1>20, <1>21, <1>22

(* exflushed does not find the request on fs->work. *)
LEMMA FlushGoneOK ==
  ASSUME IndInv, FlushWorking, oldtag[msg] \notin work
  PROVE  IndInv'
<1>a. UNCHANGED <<exq, flush, sent>>
  BY DEF FlushWorking, Eto, Sto, queues,
    marks, export, slaves, qlocks
<1>q. ListsOK' /\ queued' = queued /\ waiting' = waiting /\ answered' = answered
  BY <1>a, ListsSame DEF IndInv
<1>t. queued \subseteq Reqs /\ waiting \in [Reqs -> SUBSET Flushes] /\ answered \subseteq Msgs
  BY ListTypes DEF IndInv
<1> USE DEF IndInv, FlushWorking, Eto, Sto, queues, marks, export, slaves,
    qlocks
<1>h. Reqs \cap Flushes = {} /\ None \notin Reqs \cup Flushes \cup Slaves /\ Reqs \cup Flushes \subseteq Nat
  BY ExportfsAssumption
<1>1. PlacesOK'
  BY <1>q DEF PlacesOK, EStmts, SStmts, HasJob, Closing
<1>2. TypesOK'
  BY <1>q DEF TypesOK, Msgs
<1>3. FlagsOK'
  BY <1>q DEF FlagsOK
<1>4. QueueOK'
  BY <1>q DEF QueueOK
<1>5. JobsOK'
  BY <1>q DEF JobsOK, HasJob, Closing
<1>6. LockOK'
  BY <1>q DEF LockOK
<1>7. MsgOK'
  BY <1>q DEF MsgOK, Flushing
<1>8. OldtagOK'
  BY <1>q DEF OldtagOK
<1>9. WorkOK'
  BY <1>q DEF WorkOK, HeldAt, Posted
<1>10. BusyOK'
  BY <1>q DEF BusyOK, HeldAt
<1>11. ShutOK'
  BY <1>q DEF ShutOK
<1>12. FinishedOK'
  BY <1>q DEF FinishedOK, HasJob, Closing
<1>13. FlushesOK'
  BY <1>q DEF FlushesOK, HeldAt, Posted
<1>14. FqOK'
  BY <1>q DEF FqOK
<1>15. PendingOK'
  BY <1>q DEF PendingOK, Flushing
<1>16. FreshOK'
  BY <1>q DEF FreshOK, Unstarted
<1>17. KilledOK'
  BY <1>q DEF KilledOK, HasJob, Closing
<1>18. FoundOK'
  <2>0. oldtag[msg] \in Reqs
    BY DEF MsgOK, Flushing, OldtagOK, TypesOK
  <2> PICK q \in Reqs : q = oldtag[msg]
    BY <2>0
  <2>1. /\ epc = "flush_work" /\ epc' = "rflush" /\ q \notin work
        /\ UNCHANGED <<msg, oldtag, spc, job, fq, asked>>
    OBVIOUS
  <2>2. ~Unstarted(q) /\ \A s \in Slaves : spc[s] = "post" => job[s] # q
    BY <2>1 DEF FoundOK
  <2>3. \A s \in Slaves : job[s] = q => spc[s] = "free"
    BY <1>h, <2>1, <2>2 DEF JobsOK, WorkOK, Posted, HasJob, Closing
  <2>4. waiting[q] = {}
    <3>1. SUFFICES ASSUME waiting[q] # {} PROVE FALSE
      OBVIOUS
    <3>2. slave[q] \in Slaves /\ job[slave[q]] = q /\ spc[slave[q]] = "free"
      BY <2>2, <2>3, <3>1 DEF FlushesOK, HeldAt
    <3>3. waiting[q] = {} \/ shut[q]
      BY <3>2 DEF FinishedOK, HasJob, Closing
    <3>4. QED
      BY <2>1, <2>2, <3>1, <3>3 DEF ShutOK
  <2>5. \A s \in Slaves : job[s] = q => fq[s] = None
    BY <2>3 DEF FqOK
  <2>6. ~Unstarted(q)'
    BY <1>q, <2>1, <2>2 DEF Unstarted
  <2>7. Closed(q)'
    BY <2>1, <2>3, <2>6 DEF Closed, Closing
  <2>8. oldtag'[msg'] = q /\ waiting'[q] = {} /\ \A s \in Slaves : job'[s] = q => fq'[s] = None
    BY <1>q, <2>1, <2>4, <2>5
  <2>9. QED
    BY <2>1, <2>7, <2>8 DEF FoundOK
<1>19. AnsweredOK'
  BY <1>q DEF AnsweredOK, Closed, Unstarted, Closing
<1>20. OrderOK'
  BY <1>q DEF OrderOK
<1>21. RefOK'
  BY <1>q DEF RefOK
<1>22. AnswersAsPromised'
  BY <1>q DEF AnswersAsPromised, RepliesOnce, NothingAfterRflush,
    FlushesInOrder
<1>23. QED
  BY <1>h, <1>q, <1>1, <1>2, <1>3, <1>4, <1>5, <1>6, <1>7, <1>8,
    <1>9, <1>10, <1>11, <1>12, <1>13, <1>14, <1>15, <1>16, <1>17, <1>18,
    <1>19, <1>20, <1>21, <1>22

(* The request is finished, and fs->l stays held. *)
LEMMA FlushFinishedOK ==
  ASSUME IndInv, FlushWorking, oldtag[msg] \in work, finished[oldtag[msg]]
  PROVE  IndInv'
<1>a. UNCHANGED <<exq, flush, sent>>
  BY DEF FlushWorking, Eto, Sto, queues,
    marks, export, slaves, qlocks
<1>q. ListsOK' /\ queued' = queued /\ waiting' = waiting /\ answered' = answered
  BY <1>a, ListsSame DEF IndInv
<1>t. queued \subseteq Reqs /\ waiting \in [Reqs -> SUBSET Flushes] /\ answered \subseteq Msgs
  BY ListTypes DEF IndInv
<1> USE DEF IndInv, FlushWorking, Eto, Sto, queues, marks, export, slaves,
    qlocks
<1>h. Reqs \cap Flushes = {} /\ None \notin Reqs \cup Flushes \cup Slaves /\ Reqs \cup Flushes \subseteq Nat
  BY ExportfsAssumption
<1>1. PlacesOK'
  BY <1>q DEF PlacesOK, EStmts, SStmts, HasJob, Closing
<1>2. TypesOK'
  BY <1>q DEF TypesOK, Msgs
<1>3. FlagsOK'
  BY <1>q DEF FlagsOK
<1>4. QueueOK'
  BY <1>q DEF QueueOK
<1>5. JobsOK'
  BY <1>q DEF JobsOK, HasJob, Closing
<1>6. LockOK'
  BY <1>q DEF LockOK
<1>7. MsgOK'
  BY <1>q DEF MsgOK, Flushing
<1>8. OldtagOK'
  BY <1>q DEF OldtagOK
<1>9. WorkOK'
  BY <1>q DEF WorkOK, HeldAt, Posted
<1>10. BusyOK'
  BY <1>q DEF BusyOK, HeldAt
<1>11. ShutOK'
  BY <1>q DEF ShutOK
<1>12. FinishedOK'
  BY <1>q DEF FinishedOK, HasJob, Closing
<1>13. FlushesOK'
  BY <1>q DEF FlushesOK, HeldAt, Posted
<1>14. FqOK'
  BY <1>q DEF FqOK
<1>15. PendingOK'
  BY <1>q DEF PendingOK, Flushing
<1>16. FreshOK'
  BY <1>q DEF FreshOK, Unstarted
<1>17. KilledOK'
  BY <1>q DEF KilledOK, HasJob, Closing
<1>18. FoundOK'
  BY <1>h, <1>q, <1>t, ExportfsAssumption DEF FoundOK, Closed, Unstarted,
    Closing, PlacesOK, EStmts, SStmts, HasJob, TypesOK, Msgs, JobsOK, MsgOK,
    Flushing, OldtagOK, WorkOK, HeldAt, Posted, LockOK, FreshOK, FinishedOK,
    ShutOK, FqOK, FlushesOK
<1>19. AnsweredOK'
  BY <1>q DEF AnsweredOK, Closed, Unstarted, Closing
<1>20. OrderOK'
  BY <1>q DEF OrderOK
<1>21. RefOK'
  BY <1>q DEF RefOK
<1>22. AnswersAsPromised'
  BY <1>q DEF AnswersAsPromised, RepliesOnce, NothingAfterRflush,
    FlushesInOrder
<1>23. QED
  BY <1>h, <1>q, <1>1, <1>2, <1>3, <1>4, <1>5, <1>6, <1>7, <1>8,
    <1>9, <1>10, <1>11, <1>12, <1>13, <1>14, <1>15, <1>16, <1>17, <1>18,
    <1>19, <1>20, <1>21, <1>22

(* The Tflush joins the flush queue of the request. *)
LEMMA FlushJoinsOK ==
  ASSUME IndInv, FlushWorking, oldtag[msg] \in work, ~finished[oldtag[msg]]
  PROVE  IndInv'
<1>a. /\ epc \in Flushing /\ flush' = [flush EXCEPT ![oldtag[msg]] = Append(@, msg)]
      /\ UNCHANGED <<exq, sent>>
  BY DEF
    FlushWorking, Eto, Sto, queues, marks, export, slaves, qlocks, Flushing
<1>q. /\ ListsOK' /\ queued' = queued /\ answered' = answered /\ msg \in Flushes
      /\ waiting' = [waiting EXCEPT ![oldtag[msg]] = @ \cup {msg}]
  <2> DEFINE q == oldtag[msg]
  <2>1. q \in Reqs /\ msg \in live \cap Flushes /\ flush[q] \in Seq(Flushes) /\ Rising(flush[q])
    BY <1>a DEF IndInv, MsgOK, WorkOK, TypesOK, ListsOK
  <2>2. \A y \in InSeq(flush[q]) : y < msg
    <3>1. waiting[q] = InSeq(flush[q]) /\ msg \notin waiting[q]
      BY <1>a, <2>1 DEF IndInv, waiting, MsgOK
    <3>2. \A y \in waiting[q] : y \in live
      BY <2>1 DEF IndInv, FlushesOK
    <3>3. waiting[q] \subseteq Flushes
      BY <2>1, <3>1, MembersOf
    <3>4. QED
      BY <1>a, <3>1, <3>2, <3>3 DEF IndInv, MsgOK, TypesOK
  <2> HIDE DEF q
  <2>3. /\ Append(flush[q], msg) \in Seq(Flushes)
        /\ InSeq(Append(flush[q], msg)) = InSeq(flush[q]) \cup {msg}
        /\ Rising(Append(flush[q], msg))
    <3>1. Flushes \in SUBSET Nat
      BY ExportfsAssumption
    <3>2. Rising(Append(flush[q], msg))
      BY <2>1, <2>2, <3>1, RisingAppend
    <3>3. QED
      BY <2>1, <3>2, AppendMembers
  <2>4. flush' = [flush EXCEPT ![q] = Append(@, msg)]
    BY <1>a DEF q
  <2>5. waiting' = [waiting EXCEPT ![q] = @ \cup {msg}]
    BY <2>1, <2>3, <2>4 DEF waiting, IndInv, ListsOK
  <2>6. ListsOK'
    BY <1>a, <2>1, <2>3, <2>4 DEF IndInv, ListsOK
  <2>7. QED
    BY <1>a, <2>1, <2>5, <2>6 DEF queued, answered, q
<1>t. queued \subseteq Reqs /\ waiting \in [Reqs -> SUBSET Flushes] /\ answered \subseteq Msgs
  BY ListTypes DEF IndInv
<1> USE DEF IndInv, FlushWorking, Eto, Sto, queues, marks, export, slaves,
    qlocks
<1>h. Reqs \cap Flushes = {} /\ None \notin Reqs \cup Flushes \cup Slaves /\ Reqs \cup Flushes \subseteq Nat
  BY ExportfsAssumption
<1>1. PlacesOK'
  BY <1>q DEF PlacesOK, EStmts, SStmts, HasJob, Closing
<1>2. TypesOK'
  BY <1>q DEF TypesOK, Msgs
<1>3. FlagsOK'
  BY <1>q DEF FlagsOK
<1>4. QueueOK'
  BY <1>q DEF QueueOK
<1>5. JobsOK'
  BY <1>q DEF JobsOK, HasJob, Closing
<1>6. LockOK'
  BY <1>q DEF LockOK
<1>7. MsgOK'
  BY <1>q DEF MsgOK, Flushing
<1>8. OldtagOK'
  BY <1>q DEF OldtagOK
<1>9. WorkOK'
  BY <1>q DEF WorkOK, HeldAt, Posted
<1>10. BusyOK'
  BY <1>q DEF BusyOK, HeldAt
<1>11. ShutOK'
  BY <1>q DEF ShutOK
<1>12. FinishedOK'
  BY SMTT(60), <1>q DEF FinishedOK, HasJob, Closing
<1>13. FlushesOK'
  BY <1>h, <1>q DEF FlushesOK, HeldAt, Posted, PlacesOK, EStmts, SStmts,
    HasJob, Closing, TypesOK, Msgs, JobsOK, MsgOK, Flushing, WorkOK, FqOK
<1>14. FqOK'
  BY <1>h, <1>q DEF FqOK, PlacesOK, EStmts, SStmts, HasJob, Closing, TypesOK,
    Msgs, JobsOK, FlushesOK, HeldAt, Posted, MsgOK, Flushing
<1>15. PendingOK'
  BY <1>h, <1>q, <1>t, ExportfsAssumption DEF PendingOK, Flushing, PlacesOK,
    EStmts, SStmts, HasJob, Closing, TypesOK, Msgs, FqOK, FlushesOK, HeldAt,
    Posted, JobsOK, MsgOK
<1>16. FreshOK'
  BY <1>h, <1>q DEF FreshOK, Unstarted, PlacesOK, EStmts, SStmts, HasJob,
    Closing, TypesOK, Msgs, JobsOK, MsgOK, Flushing, OldtagOK, WorkOK, HeldAt,
    Posted, QueueOK
<1>17. KilledOK'
  <2> DEFINE q == oldtag[msg]
  <2>1. q \in Reqs /\ HeldAt(q, Posted) /\ waiting'[q] # {}
    BY <1>q, <1>t DEF WorkOK, TypesOK
  <2>2. ASSUME NEW t \in Slaves, killed'[t] PROVE killed[t] \/ (busy[q] /\ t = slave[q])
    <3>1. CASE busy[q]
      BY <2>1, <2>2, <3>1, FlagsElsewhere DEF FlagsOK, HeldAt
    <3>2. CASE ~busy[q]
      BY <2>2, <3>2
    <3>3. QED
      BY <3>1, <3>2
  <2>3. busy[q] => spc[slave[q]] \in {"call", "end"} /\ job[slave[q]] = q
    BY <2>1 DEF BusyOK, HeldAt, Posted
  <2>4. \A p \in Reqs : waiting[p] # {} => waiting'[p] # {}
    BY <1>q, <1>t
  <2>5. UNCHANGED <<spc, job, shut>>
    OBVIOUS
  <2> HIDE DEF q
  <2>6. QED
    BY <2>1, <2>2, <2>3, <2>4, <2>5 DEF KilledOK, HasJob, JobsOK, HeldAt, Posted, Closing
<1>18. FoundOK'
  BY <1>q DEF FoundOK, Closed, Unstarted, Closing
<1>19. AnsweredOK'
  BY <1>q DEF AnsweredOK, Closed, Unstarted, Closing
<1>20. OrderOK'
  BY <1>q DEF OrderOK
<1>21. RefOK'
  BY <1>q DEF RefOK
<1>22. AnswersAsPromised'
  BY <1>q DEF AnswersAsPromised, RepliesOnce, NothingAfterRflush,
    FlushesInOrder
<1>23. QED
  BY <1>h, <1>q, <1>1, <1>2, <1>3, <1>4, <1>5, <1>6, <1>7, <1>8,
    <1>9, <1>10, <1>11, <1>12, <1>13, <1>14, <1>15, <1>16, <1>17, <1>18,
    <1>19, <1>20, <1>21, <1>22

(* exportproc answers a Tflush. *)
LEMMA ReplyFlushOK ==
  ASSUME IndInv, ReplyFlush
  PROVE  IndInv'
<1>a. epc \in Flushing /\ sent' = Append(sent, msg) /\ UNCHANGED <<exq, flush>>
  BY DEF
    ReplyFlush, Eto, Sto, queues, marks, export, slaves, qlocks, Free,
    Flushing
<1>q. ListsOK' /\ queued' = queued /\ waiting' = waiting /\ answered' = answered \cup {msg} /\ msg \in Msgs
  <2>1. msg \in Msgs
    BY <1>a DEF IndInv, MsgOK, Msgs
  <2>2. sent' \in Seq(Msgs) /\ answered' = answered \cup {msg}
    BY <1>a, <2>1, AppendMembers DEF IndInv, ListsOK, answered
  <2>3. QED
    BY <1>a, <2>1, <2>2 DEF IndInv, ListsOK, queued, waiting
<1>t. queued \subseteq Reqs /\ waiting \in [Reqs -> SUBSET Flushes] /\ answered \subseteq Msgs
  BY ListTypes DEF IndInv
<1> USE DEF IndInv, ReplyFlush, Eto, Sto, queues, marks, export, slaves,
    qlocks, Free
<1>h. Reqs \cap Flushes = {} /\ None \notin Reqs \cup Flushes \cup Slaves /\ Reqs \cup Flushes \subseteq Nat
  BY ExportfsAssumption
<1>1. PlacesOK'
  BY <1>q DEF PlacesOK, EStmts, SStmts, HasJob, Closing
<1>2. TypesOK'
  BY <1>q DEF TypesOK, Msgs
<1>3. FlagsOK'
  BY <1>q DEF FlagsOK
<1>4. QueueOK'
  BY <1>h, <1>q, <1>t, ExportfsAssumption DEF QueueOK, PlacesOK, EStmts,
    SStmts, HasJob, Closing, TypesOK, Msgs, MsgOK, Flushing, JobsOK, FqOK,
    FlushesOK, HeldAt, Posted
<1>5. JobsOK'
  BY <1>h, <1>q DEF JobsOK, HasJob, Closing, PlacesOK, EStmts, SStmts,
    TypesOK, Msgs, QueueOK, MsgOK, Flushing, FlushesOK, HeldAt, Posted, FqOK
<1>6. LockOK'
  BY <1>q DEF LockOK
<1>7. MsgOK'
  BY <1>q DEF MsgOK, Flushing
<1>8. OldtagOK'
  BY <1>q DEF OldtagOK
<1>9. WorkOK'
  BY <1>q DEF WorkOK, HeldAt, Posted
<1>10. BusyOK'
  BY <1>q DEF BusyOK, HeldAt
<1>11. ShutOK'
  BY <1>q DEF ShutOK
<1>12. FinishedOK'
  BY <1>q DEF FinishedOK, HasJob, Closing
<1>13. FlushesOK'
  BY <1>h, <1>q DEF FlushesOK, HeldAt, Posted, PlacesOK, EStmts, SStmts,
    HasJob, Closing, TypesOK, Msgs, JobsOK, MsgOK, Flushing, WorkOK, FqOK
<1>14. FqOK'
  BY <1>h, <1>q DEF FqOK, PlacesOK, EStmts, SStmts, HasJob, Closing, TypesOK,
    Msgs, JobsOK, FlushesOK, HeldAt, Posted, MsgOK, Flushing
<1>15. PendingOK'
  BY <1>q DEF PendingOK, Flushing
<1>16. FreshOK'
  BY <1>q DEF FreshOK, Unstarted
<1>17. KilledOK'
  BY <1>q DEF KilledOK, HasJob, Closing
<1>18. FoundOK'
  BY <1>q DEF FoundOK, Closed, Unstarted, Closing
<1>19. AnsweredOK'
  BY <1>h, <1>q DEF AnsweredOK, Closed, Unstarted, Closing, PlacesOK, EStmts,
    SStmts, HasJob, TypesOK, Msgs, JobsOK, MsgOK, Flushing, FoundOK, FqOK,
    OldtagOK, QueueOK, FlushesOK, HeldAt, Posted
<1>20. OrderOK'
  <2>1. ASSUME NEW g \in live', g \in Flushes, oldtag[g] = oldtag[msg] PROVE FALSE
    <3>1. g \in live /\ g # msg /\ g \notin waiting[oldtag[g]]
      BY <2>1 DEF FoundOK
    <3>2. PICK s \in Slaves : fq[s] = g
      BY <2>1, <3>1 DEF PendingOK
    <3>3. oldtag[fq[s]] = job[s] /\ fq[s] # None
      BY <1>h, <2>1, <3>2, ExportfsAssumption DEF FqOK
    <3>4. QED
      BY <2>1, <3>2, <3>3 DEF FoundOK
  <2>2. live' \subseteq live /\ UNCHANGED oldtag
    OBVIOUS
  <2>3. QED
    BY <1>q, <2>1, <2>2 DEF OrderOK
<1>21. RefOK'
  <2>1. {msg} \in SUBSET live /\ Free({msg})
    BY <1>h, <1>q DEF MsgOK, Flushing
  <2>2. QED
    BY <2>1, FreeOK
<1>22. AnswersAsPromised'
  <2>1. msg \in live \cap Flushes /\ oldtag[msg] \in Reqs
    BY DEF MsgOK, Flushing, OldtagOK, TypesOK
  <2>2. msg \notin answered /\ \A f \in (answered \cup {msg}) \cap Flushes : oldtag[f] # msg
    BY <1>h, <2>1 DEF AnsweredOK, OldtagOK
  <2>3. QED
    BY <1>h, <1>q, <2>1, <2>2, AnswerOK DEF OrderOK
<1>23. QED
  BY <1>h, <1>q, <1>1, <1>2, <1>3, <1>4, <1>5, <1>6, <1>7, <1>8,
    <1>9, <1>10, <1>11, <1>12, <1>13, <1>14, <1>15, <1>16, <1>17, <1>18,
    <1>19, <1>20, <1>21, <1>22

(* The connection ends. *)
LEMMA HangUpOK ==
  ASSUME IndInv, HangUp
  PROVE  IndInv'
<1>a. UNCHANGED <<exq, flush, sent>>
  BY DEF HangUp, Eto, Sto, queues, marks,
    export, slaves, qlocks
<1>q. ListsOK' /\ queued' = queued /\ waiting' = waiting /\ answered' = answered
  BY <1>a, ListsSame DEF IndInv
<1>t. queued \subseteq Reqs /\ waiting \in [Reqs -> SUBSET Flushes] /\ answered \subseteq Msgs
  BY ListTypes DEF IndInv
<1> USE DEF IndInv, HangUp, Eto, Sto, queues, marks, export, slaves, qlocks
<1>h. Reqs \cap Flushes = {} /\ None \notin Reqs \cup Flushes \cup Slaves /\ Reqs \cup Flushes \subseteq Nat
  BY ExportfsAssumption
<1>1. PlacesOK'
  BY <1>q DEF PlacesOK, EStmts, SStmts, HasJob, Closing
<1>2. TypesOK'
  BY <1>q DEF TypesOK, Msgs
<1>3. FlagsOK'
  BY <1>q DEF FlagsOK
<1>4. QueueOK'
  BY <1>q DEF QueueOK
<1>5. JobsOK'
  BY <1>q DEF JobsOK, HasJob, Closing
<1>6. LockOK'
  BY <1>q DEF LockOK
<1>7. MsgOK'
  BY <1>q DEF MsgOK, Flushing
<1>8. OldtagOK'
  BY <1>q DEF OldtagOK
<1>9. WorkOK'
  BY <1>q DEF WorkOK, HeldAt, Posted
<1>10. BusyOK'
  BY <1>q DEF BusyOK, HeldAt
<1>11. ShutOK'
  BY <1>q DEF ShutOK
<1>12. FinishedOK'
  BY <1>q DEF FinishedOK, HasJob, Closing
<1>13. FlushesOK'
  BY <1>q DEF FlushesOK, HeldAt, Posted
<1>14. FqOK'
  BY <1>q DEF FqOK
<1>15. PendingOK'
  BY <1>q DEF PendingOK, Flushing
<1>16. FreshOK'
  BY <1>q DEF FreshOK, Unstarted
<1>17. KilledOK'
  BY <1>q DEF KilledOK, HasJob, Closing
<1>18. FoundOK'
  BY <1>q DEF FoundOK, Closed, Unstarted, Closing
<1>19. AnsweredOK'
  BY <1>q DEF AnsweredOK, Closed, Unstarted, Closing
<1>20. OrderOK'
  BY <1>q DEF OrderOK
<1>21. RefOK'
  BY <1>q DEF RefOK
<1>22. AnswersAsPromised'
  BY <1>q DEF AnswersAsPromised, RepliesOnce, NothingAfterRflush,
    FlushesInOrder
<1>23. QED
  BY <1>h, <1>q, <1>1, <1>2, <1>3, <1>4, <1>5, <1>6, <1>7, <1>8,
    <1>9, <1>10, <1>11, <1>12, <1>13, <1>14, <1>15, <1>16, <1>17, <1>18,
    <1>19, <1>20, <1>21, <1>22

(* exshutdown frees what is queued. *)
LEMMA DropQueuedOK ==
  ASSUME IndInv, DropQueued
  PROVE  IndInv'
<1>a. exq' = <<>> /\ live' = live \ InSeq(exq) /\ UNCHANGED <<flush, sent>>
  BY DEF
    DropQueued, Eto, Sto, queues, marks, export, slaves, qlocks, Free
<1>q. ListsOK' /\ queued' = {} /\ waiting' = waiting /\ answered' = answered /\ live' = live \ queued
  BY <1>a DEF IndInv, ListsOK, queued, waiting, answered, InSeq, OnListOnce
<1>t. queued \subseteq Reqs /\ waiting \in [Reqs -> SUBSET Flushes] /\ answered \subseteq Msgs
  BY ListTypes DEF IndInv
<1> USE DEF IndInv, DropQueued, Eto, Sto, queues, marks, export, slaves,
    qlocks, Free
<1>h. Reqs \cap Flushes = {} /\ None \notin Reqs \cup Flushes \cup Slaves /\ Reqs \cup Flushes \subseteq Nat
  BY ExportfsAssumption
<1>1. PlacesOK'
  BY <1>q DEF PlacesOK, EStmts, SStmts, HasJob, Closing
<1>2. TypesOK'
  BY <1>q DEF TypesOK, Msgs
<1>3. FlagsOK'
  BY <1>q DEF FlagsOK
<1>4. QueueOK'
  BY <1>q DEF QueueOK
<1>5. JobsOK'
  BY <1>q DEF JobsOK, HasJob, Closing
<1>6. LockOK'
  BY <1>q DEF LockOK
<1>7. MsgOK'
  BY <1>q DEF MsgOK, Flushing
<1>8. OldtagOK'
  BY <1>q DEF OldtagOK
<1>9. WorkOK'
  BY <1>q DEF WorkOK, HeldAt, Posted
<1>10. BusyOK'
  BY <1>q DEF BusyOK, HeldAt
<1>11. ShutOK'
  BY <1>q DEF ShutOK
<1>12. FinishedOK'
  BY <1>q DEF FinishedOK, HasJob, Closing
<1>13. FlushesOK'
  BY <1>h, <1>q, <1>t, ExportfsAssumption DEF FlushesOK, HeldAt, Posted,
    PlacesOK, EStmts, SStmts, HasJob, Closing, TypesOK, Msgs, JobsOK, MsgOK,
    Flushing, WorkOK, FqOK
<1>14. FqOK'
  BY <1>h, <1>q, <1>t, ExportfsAssumption DEF FqOK, PlacesOK, EStmts, SStmts,
    HasJob, Closing, TypesOK, Msgs, JobsOK, FlushesOK, HeldAt, Posted, MsgOK,
    Flushing
<1>15. PendingOK'
  BY <1>q DEF PendingOK, Flushing
<1>16. FreshOK'
  BY <1>q DEF FreshOK, Unstarted
<1>17. KilledOK'
  BY <1>q DEF KilledOK, HasJob, Closing
<1>18. FoundOK'
  BY <1>q DEF FoundOK, Closed, Unstarted, Closing
<1>19. AnsweredOK'
  BY <1>q DEF AnsweredOK, Closed, Unstarted, Closing
<1>20. OrderOK'
  BY <1>q DEF OrderOK
<1>21. RefOK'
  <2>1. queued \in SUBSET live /\ Free(queued)
    BY <1>h, <1>q DEF QueueOK, queued
  <2>2. QED
    BY <2>1, FreeOK
<1>22. AnswersAsPromised'
  BY <1>q DEF AnswersAsPromised, RepliesOnce, NothingAfterRflush,
    FlushesInOrder
<1>23. QED
  BY <1>h, <1>q, <1>1, <1>2, <1>3, <1>4, <1>5, <1>6, <1>7, <1>8,
    <1>9, <1>10, <1>11, <1>12, <1>13, <1>14, <1>15, <1>16, <1>17, <1>18,
    <1>19, <1>20, <1>21, <1>22

(* exshutdown abandons the work in progress. *)
LEMMA AbandonWorkOK ==
  ASSUME IndInv, AbandonWork
  PROVE  IndInv'
<1>a. UNCHANGED <<exq, flush, sent>>
  BY DEF AbandonWork, Eto, Sto, queues,
    marks, export, slaves, qlocks
<1>q. ListsOK' /\ queued' = queued /\ waiting' = waiting /\ answered' = answered
  BY <1>a, ListsSame DEF IndInv
<1>t. queued \subseteq Reqs /\ waiting \in [Reqs -> SUBSET Flushes] /\ answered \subseteq Msgs
  BY ListTypes DEF IndInv
<1> USE DEF IndInv, AbandonWork, Eto, Sto, queues, marks, export, slaves,
    qlocks
<1>h. Reqs \cap Flushes = {} /\ None \notin Reqs \cup Flushes \cup Slaves /\ Reqs \cup Flushes \subseteq Nat
  BY ExportfsAssumption
<1>1. PlacesOK'
  BY <1>q DEF PlacesOK, EStmts, SStmts, HasJob, Closing
<1>2. TypesOK'
  BY <1>q DEF TypesOK, Msgs
<1>3. FlagsOK'
  BY <1>q DEF FlagsOK
<1>4. QueueOK'
  BY <1>q DEF QueueOK
<1>5. JobsOK'
  BY <1>q DEF JobsOK, HasJob, Closing
<1>6. LockOK'
  BY <1>q DEF LockOK
<1>7. MsgOK'
  BY <1>q DEF MsgOK, Flushing
<1>8. OldtagOK'
  BY <1>q DEF OldtagOK
<1>9. WorkOK'
  BY <1>q DEF WorkOK, HeldAt, Posted
<1>10. BusyOK'
  BY <1>q DEF BusyOK, HeldAt
<1>11. ShutOK'
  BY <1>q DEF ShutOK
<1>12. FinishedOK'
  BY <1>h, <1>q DEF FinishedOK, HasJob, Closing, PlacesOK, EStmts, SStmts,
    TypesOK, Msgs, JobsOK, FreshOK, Unstarted, WorkOK, HeldAt, Posted, ShutOK
<1>13. FlushesOK'
  BY <1>q DEF FlushesOK, HeldAt, Posted
<1>14. FqOK'
  BY <1>q DEF FqOK
<1>15. PendingOK'
  BY <1>q DEF PendingOK, Flushing
<1>16. FreshOK'
  BY <1>q DEF FreshOK, Unstarted
<1>17. KilledOK'
  <2>1. ASSUME NEW t \in Slaves, killed'[t] PROVE killed[t] \/ \E q \in work : slave[q] = t
    BY <2>1, Zenon
  <2>2. \A q \in Reqs : (shut[q] => shut'[q]) /\ (q \in work => shut'[q])
    BY Zenon
  <2>3. UNCHANGED <<spc, job, waiting>>
    BY <1>q
  <2>4. \A t \in Slaves : killed[t] /\ spc[t] \in HasJob => job[t] \in Reqs
    BY DEF JobsOK
  <2>5. QED
    BY <2>1, <2>2, <2>3, <2>4 DEF KilledOK, WorkOK, HeldAt, Posted, HasJob, Closing, TypesOK
<1>18. FoundOK'
  BY <1>q DEF FoundOK, Closed, Unstarted, Closing
<1>19. AnsweredOK'
  BY <1>q DEF AnsweredOK, Closed, Unstarted, Closing
<1>20. OrderOK'
  BY <1>q DEF OrderOK
<1>21. RefOK'
  BY <1>q DEF RefOK
<1>22. AnswersAsPromised'
  BY <1>q DEF AnswersAsPromised, RepliesOnce, NothingAfterRflush,
    FlushesInOrder
<1>23. QED
  BY <1>h, <1>q, <1>1, <1>2, <1>3, <1>4, <1>5, <1>6, <1>7, <1>8,
    <1>9, <1>10, <1>11, <1>12, <1>13, <1>14, <1>15, <1>16, <1>17, <1>18,
    <1>19, <1>20, <1>21, <1>22

(* exportproc drops its reference. *)
LEMMA ExporterLeavesOK ==
  ASSUME IndInv, ExporterLeaves
  PROVE  IndInv'
<1>a. UNCHANGED <<exq, flush, sent>>
  BY DEF ExporterLeaves, Eto, Sto,
    queues, marks, export, slaves, qlocks
<1>q. ListsOK' /\ queued' = queued /\ waiting' = waiting /\ answered' = answered
  BY <1>a, ListsSame DEF IndInv
<1>t. queued \subseteq Reqs /\ waiting \in [Reqs -> SUBSET Flushes] /\ answered \subseteq Msgs
  BY ListTypes DEF IndInv
<1> USE DEF IndInv, ExporterLeaves, Eto, Sto, queues, marks, export, slaves,
    qlocks
<1>h. Reqs \cap Flushes = {} /\ None \notin Reqs \cup Flushes \cup Slaves /\ Reqs \cup Flushes \subseteq Nat
  BY ExportfsAssumption
<1>1. PlacesOK'
  BY <1>q DEF PlacesOK, EStmts, SStmts, HasJob, Closing
<1>2. TypesOK'
  BY <1>q DEF TypesOK, Msgs
<1>3. FlagsOK'
  BY <1>q DEF FlagsOK
<1>4. QueueOK'
  BY <1>q DEF QueueOK
<1>5. JobsOK'
  BY <1>q DEF JobsOK, HasJob, Closing
<1>6. LockOK'
  BY <1>q DEF LockOK
<1>7. MsgOK'
  BY <1>q DEF MsgOK, Flushing
<1>8. OldtagOK'
  BY <1>q DEF OldtagOK
<1>9. WorkOK'
  BY <1>q DEF WorkOK, HeldAt, Posted
<1>10. BusyOK'
  BY <1>q DEF BusyOK, HeldAt
<1>11. ShutOK'
  BY <1>q DEF ShutOK
<1>12. FinishedOK'
  BY <1>q DEF FinishedOK, HasJob, Closing
<1>13. FlushesOK'
  BY <1>q DEF FlushesOK, HeldAt, Posted
<1>14. FqOK'
  BY <1>q DEF FqOK
<1>15. PendingOK'
  BY <1>q DEF PendingOK, Flushing
<1>16. FreshOK'
  BY <1>q DEF FreshOK, Unstarted
<1>17. KilledOK'
  BY <1>q DEF KilledOK, HasJob, Closing
<1>18. FoundOK'
  BY <1>q DEF FoundOK, Closed, Unstarted, Closing
<1>19. AnsweredOK'
  BY <1>q DEF AnsweredOK, Closed, Unstarted, Closing
<1>20. OrderOK'
  BY <1>q DEF OrderOK
<1>21. RefOK'
  <2>1. Cardinality(live) \in Nat
    BY FS_CardinalityType DEF RefOK
  <2>2. QED
    BY <2>1 DEF RefOK
<1>22. AnswersAsPromised'
  BY <1>q DEF AnswersAsPromised, RepliesOnce, NothingAfterRflush,
    FlushesInOrder
<1>23. QED
  BY <1>h, <1>q, <1>1, <1>2, <1>3, <1>4, <1>5, <1>6, <1>7, <1>8,
    <1>9, <1>10, <1>11, <1>12, <1>13, <1>14, <1>15, <1>16, <1>17, <1>18,
    <1>19, <1>20, <1>21, <1>22

(* A slave queues for exq.qwait. *)
LEMMA SlaveWaitOK ==
  ASSUME IndInv, NEW s \in Slaves, SlaveWait(s)
  PROVE  IndInv'
<1>a. UNCHANGED <<exq, flush, sent>>
  BY DEF SlaveWait, Eto, Sto, queues,
    marks, export, slaves, qlocks
<1>q. ListsOK' /\ queued' = queued /\ waiting' = waiting /\ answered' = answered
  BY <1>a, ListsSame DEF IndInv
<1>t. queued \subseteq Reqs /\ waiting \in [Reqs -> SUBSET Flushes] /\ answered \subseteq Msgs
  BY ListTypes DEF IndInv
<1> USE DEF IndInv, SlaveWait, Eto, Sto, queues, marks, export, slaves, qlocks
<1>h. Reqs \cap Flushes = {} /\ None \notin Reqs \cup Flushes \cup Slaves /\ Reqs \cup Flushes \subseteq Nat
  BY ExportfsAssumption
<1>1. PlacesOK'
  BY <1>q DEF PlacesOK, EStmts, SStmts, HasJob, Closing
<1>2. TypesOK'
  <2>1. qwait' \in Slaves \cup {None} /\ qwaitq' \in Seq(Slaves)
    BY SMTT(60) DEF TypesOK
  <2>2. UNCHANGED <<exql, fsl, tail, work, slave, asked, live, oldtag, job, fq>>
    OBVIOUS
  <2>3. QED
    BY <2>1, <2>2 DEF TypesOK
<1>3. FlagsOK'
  BY <1>q DEF FlagsOK
<1>4. QueueOK'
  BY <1>q DEF QueueOK
<1>5. JobsOK'
  BY <1>q DEF JobsOK, HasJob, Closing
<1>6. LockOK'
  BY <1>q DEF LockOK
<1>7. MsgOK'
  BY <1>q DEF MsgOK, Flushing
<1>8. OldtagOK'
  BY <1>q DEF OldtagOK
<1>9. WorkOK'
  BY <1>q DEF WorkOK, HeldAt, Posted
<1>10. BusyOK'
  BY <1>q DEF BusyOK, HeldAt
<1>11. ShutOK'
  BY <1>q DEF ShutOK
<1>12. FinishedOK'
  BY <1>q DEF FinishedOK, HasJob, Closing
<1>13. FlushesOK'
  BY <1>q DEF FlushesOK, HeldAt, Posted
<1>14. FqOK'
  BY <1>q DEF FqOK
<1>15. PendingOK'
  BY <1>q DEF PendingOK, Flushing
<1>16. FreshOK'
  BY <1>q DEF FreshOK, Unstarted
<1>17. KilledOK'
  BY <1>q DEF KilledOK, HasJob, Closing
<1>18. FoundOK'
  BY <1>q DEF FoundOK, Closed, Unstarted, Closing
<1>19. AnsweredOK'
  BY <1>q DEF AnsweredOK, Closed, Unstarted, Closing
<1>20. OrderOK'
  BY <1>q DEF OrderOK
<1>21. RefOK'
  BY <1>q DEF RefOK
<1>22. AnswersAsPromised'
  BY <1>q DEF AnswersAsPromised, RepliesOnce, NothingAfterRflush,
    FlushesInOrder
<1>23. QED
  BY <1>h, <1>q, <1>1, <1>2, <1>3, <1>4, <1>5, <1>6, <1>7, <1>8,
    <1>9, <1>10, <1>11, <1>12, <1>13, <1>14, <1>15, <1>16, <1>17, <1>18,
    <1>19, <1>20, <1>21, <1>22

(* It is woken, or interrupted. *)
LEMMA SlaveWakeOK ==
  ASSUME IndInv, NEW s \in Slaves, SlaveWake(s)
  PROVE  IndInv'
<1>a. UNCHANGED <<exq, flush, sent>>
  BY DEF SlaveWake, Eto, Sto, queues,
    marks, export, slaves, qlocks, qunlock
<1>q. ListsOK' /\ queued' = queued /\ waiting' = waiting /\ answered' = answered
  BY <1>a, ListsSame DEF IndInv
<1>t. queued \subseteq Reqs /\ waiting \in [Reqs -> SUBSET Flushes] /\ answered \subseteq Msgs
  BY ListTypes DEF IndInv
<1> USE DEF IndInv, SlaveWake, Eto, Sto, queues, marks, export, slaves,
    qlocks, qunlock
<1>h. Reqs \cap Flushes = {} /\ None \notin Reqs \cup Flushes \cup Slaves /\ Reqs \cup Flushes \subseteq Nat
  BY ExportfsAssumption
<1>1. PlacesOK'
  BY <1>q DEF PlacesOK, EStmts, SStmts, HasJob, Closing
<1>2. TypesOK'
  <2>1. qwait' \in Slaves \cup {None} /\ qwaitq' \in Seq(Slaves)
    BY qunlockOK DEF TypesOK
  <2>2. QED
    BY <2>1 DEF TypesOK
<1>3. FlagsOK'
  BY <1>q DEF FlagsOK
<1>4. QueueOK'
  BY <1>q DEF QueueOK
<1>5. JobsOK'
  BY <1>q DEF JobsOK, HasJob, Closing
<1>6. LockOK'
  BY <1>q DEF LockOK
<1>7. MsgOK'
  BY <1>q DEF MsgOK, Flushing
<1>8. OldtagOK'
  BY <1>q DEF OldtagOK
<1>9. WorkOK'
  BY <1>q DEF WorkOK, HeldAt, Posted
<1>10. BusyOK'
  BY <1>q DEF BusyOK, HeldAt
<1>11. ShutOK'
  BY <1>q DEF ShutOK
<1>12. FinishedOK'
  BY <1>q DEF FinishedOK, HasJob, Closing
<1>13. FlushesOK'
  BY <1>q DEF FlushesOK, HeldAt, Posted
<1>14. FqOK'
  BY <1>q DEF FqOK
<1>15. PendingOK'
  BY <1>q DEF PendingOK, Flushing
<1>16. FreshOK'
  BY <1>q DEF FreshOK, Unstarted
<1>17. KilledOK'
  BY <1>q DEF KilledOK, HasJob, Closing
<1>18. FoundOK'
  BY <1>q DEF FoundOK, Closed, Unstarted, Closing
<1>19. AnsweredOK'
  BY <1>q DEF AnsweredOK, Closed, Unstarted, Closing
<1>20. OrderOK'
  BY <1>q DEF OrderOK
<1>21. RefOK'
  BY <1>q DEF RefOK
<1>22. AnswersAsPromised'
  BY <1>q DEF AnswersAsPromised, RepliesOnce, NothingAfterRflush,
    FlushesInOrder
<1>23. QED
  BY <1>h, <1>q, <1>1, <1>2, <1>3, <1>4, <1>5, <1>6, <1>7, <1>8,
    <1>9, <1>10, <1>11, <1>12, <1>13, <1>14, <1>15, <1>16, <1>17, <1>18,
    <1>19, <1>20, <1>21, <1>22

(* It finds nothing to do. *)
LEMMA SlaveTakeNoneOK ==
  ASSUME IndInv, NEW s \in Slaves, SlaveTake(s), exq = <<>>
  PROVE  IndInv'
<1>a. UNCHANGED <<exq, flush, sent>>
  BY DEF SlaveTake, Eto, Sto, queues,
    marks, export, slaves, qlocks, qunlock
<1>q. ListsOK' /\ queued' = queued /\ waiting' = waiting /\ answered' = answered
  BY <1>a, ListsSame DEF IndInv
<1>t. queued \subseteq Reqs /\ waiting \in [Reqs -> SUBSET Flushes] /\ answered \subseteq Msgs
  BY ListTypes DEF IndInv
<1> USE DEF IndInv, SlaveTake, Eto, Sto, queues, marks, export, slaves,
    qlocks, qunlock
<1>h. Reqs \cap Flushes = {} /\ None \notin Reqs \cup Flushes \cup Slaves /\ Reqs \cup Flushes \subseteq Nat
  BY ExportfsAssumption
<1>1. PlacesOK'
  BY <1>q DEF PlacesOK, EStmts, SStmts, HasJob, Closing
<1>2. TypesOK'
  <2>1. qwait' \in Slaves \cup {None} /\ qwaitq' \in Seq(Slaves)
    BY qunlockOK DEF TypesOK
  <2>2. QED
    BY <2>1 DEF TypesOK
<1>3. FlagsOK'
  BY <1>q DEF FlagsOK
<1>4. QueueOK'
  BY <1>q DEF QueueOK
<1>5. JobsOK'
  BY SMTT(60), <1>h, <1>q DEF JobsOK, HasJob, Closing, PlacesOK, EStmts, SStmts,
    TypesOK, Msgs
<1>6. LockOK'
  BY <1>h, <1>q DEF LockOK, PlacesOK, EStmts, SStmts, HasJob, Closing,
    TypesOK, Msgs
<1>7. MsgOK'
  BY <1>q DEF MsgOK, Flushing
<1>8. OldtagOK'
  BY <1>q DEF OldtagOK
<1>9. WorkOK'
  BY SMTT(60), <1>h, <1>q DEF WorkOK, HeldAt, Posted, PlacesOK, EStmts, SStmts, HasJob,
    Closing, TypesOK, Msgs, JobsOK
<1>10. BusyOK'
  BY <1>h, <1>q DEF BusyOK, HeldAt, PlacesOK, EStmts, SStmts, HasJob, Closing,
    TypesOK, Msgs
<1>11. ShutOK'
  BY <1>q DEF ShutOK
<1>12. FinishedOK'
  BY <1>h, <1>q DEF FinishedOK, HasJob, Closing, PlacesOK, EStmts, SStmts,
    TypesOK, Msgs
<1>13. FlushesOK'
  BY <1>h, <1>q DEF FlushesOK, HeldAt, Posted, PlacesOK, EStmts, SStmts,
    HasJob, Closing, TypesOK, Msgs, JobsOK, MsgOK, Flushing, WorkOK, FqOK
<1>14. FqOK'
  BY <1>h, <1>q DEF FqOK, PlacesOK, EStmts, SStmts, HasJob, Closing, TypesOK,
    Msgs
<1>15. PendingOK'
  BY <1>q DEF PendingOK, Flushing
<1>16. FreshOK'
  BY <1>q DEF FreshOK, Unstarted
<1>17. KilledOK'
  BY <1>h, <1>q DEF KilledOK, HasJob, Closing, PlacesOK, EStmts, SStmts,
    TypesOK, Msgs
<1>18. FoundOK'
  BY <1>h, <1>q DEF FoundOK, Closed, Unstarted, Closing, PlacesOK, EStmts,
    SStmts, HasJob, TypesOK, Msgs
<1>19. AnsweredOK'
  BY ZenonT(60), <1>h, <1>q DEF AnsweredOK, Closed, Unstarted, Closing, PlacesOK, EStmts,
    SStmts, HasJob, TypesOK, Msgs
<1>20. OrderOK'
  BY <1>q DEF OrderOK
<1>21. RefOK'
  BY <1>q DEF RefOK
<1>22. AnswersAsPromised'
  BY <1>q DEF AnswersAsPromised, RepliesOnce, NothingAfterRflush,
    FlushesInOrder
<1>23. QED
  BY <1>h, <1>q, <1>1, <1>2, <1>3, <1>4, <1>5, <1>6, <1>7, <1>8,
    <1>9, <1>10, <1>11, <1>12, <1>13, <1>14, <1>15, <1>16, <1>17, <1>18,
    <1>19, <1>20, <1>21, <1>22

(* A slave takes a request. *)
LEMMA TakesOK ==
  ASSUME IndInv, NEW s \in Slaves, NEW r \in Reqs, Takes(s, r)
  PROVE  IndInv'
<1>h. Reqs \cap Flushes = {} /\ None \notin Reqs \cup Flushes \cup Slaves /\ Reqs \cup Flushes \subseteq Nat
  BY ExportfsAssumption
<1>t. queued \subseteq Reqs /\ waiting \in [Reqs -> SUBSET Flushes] /\ answered \subseteq Msgs
  BY ListTypes DEF IndInv
<1> USE DEF IndInv, Takes
<1>q. ListsOK'
  OBVIOUS
<1>1. PlacesOK'
  BY <1>q DEF PlacesOK, EStmts, SStmts, HasJob, Closing
<1>2. TypesOK'
  BY <1>q DEF TypesOK, Msgs
<1>3. FlagsOK'
  BY FlagSet DEF FlagsOK
<1>4. QueueOK'
  BY <1>q DEF QueueOK
<1>5. JobsOK'
  BY <1>h, <1>q DEF JobsOK, HasJob, Closing, PlacesOK, EStmts, SStmts,
    TypesOK, Msgs, QueueOK, MsgOK, Flushing, FlushesOK, HeldAt, Posted, FqOK
<1>6. LockOK'
  BY <1>h, <1>q DEF LockOK, PlacesOK, EStmts, SStmts, HasJob, Closing,
    TypesOK, Msgs
<1>7. MsgOK'
  BY <1>q DEF MsgOK, Flushing
<1>8. OldtagOK'
  BY <1>q DEF OldtagOK
<1>9. WorkOK'
  BY <1>h, <1>q DEF WorkOK, HeldAt, Posted, PlacesOK, EStmts, SStmts, HasJob,
    Closing, TypesOK, Msgs, JobsOK
<1>10. BusyOK'
  <2>1. \A q \in Reqs : busy'[q] => q = r \/ (busy[q] /\ q # r)
    BY FlagsElsewhere DEF FlagsOK
  <2>2. \A t \in Slaves : job[t] # r
    BY <1>h, <1>t DEF JobsOK
  <2>3. QED
    BY <1>h, <2>1, <2>2 DEF BusyOK, HeldAt, PlacesOK, TypesOK
<1>11. ShutOK'
  BY <1>q DEF ShutOK
<1>12. FinishedOK'
  BY <1>h, <1>q DEF FinishedOK, HasJob, Closing, PlacesOK, EStmts, SStmts,
    TypesOK, Msgs, JobsOK, FreshOK, Unstarted, WorkOK, HeldAt, Posted, ShutOK
<1>13. FlushesOK'
  BY <1>h, <1>q DEF FlushesOK, HeldAt, Posted, PlacesOK, EStmts, SStmts,
    HasJob, Closing, TypesOK, Msgs, JobsOK, MsgOK, Flushing, WorkOK, FqOK
<1>14. FqOK'
  BY <1>q DEF FqOK
<1>15. PendingOK'
  BY <1>q DEF PendingOK, Flushing
<1>16. FreshOK'
  BY <1>q DEF FreshOK, Unstarted
<1>17. KilledOK'
  <2>1. \A t \in Slaves : killed'[t] => killed[t] /\ t # s
    BY FlagsElsewhere DEF FlagsOK
  <2>2. QED
    BY ZenonT(60), <2>1 DEF TypesOK,  KilledOK, PlacesOK, HasJob, Closing
<1>18. FoundOK'
  BY <1>h, <1>q DEF FoundOK, Closed, Unstarted, Closing, PlacesOK, EStmts,
    SStmts, HasJob, TypesOK, Msgs
<1>19. AnsweredOK'
  BY <1>q DEF AnsweredOK, Closed, Unstarted, Closing
<1>20. OrderOK'
  BY <1>q DEF OrderOK
<1>21. RefOK'
  BY <1>q DEF RefOK
<1>22. AnswersAsPromised'
  BY <1>q DEF AnswersAsPromised, RepliesOnce, NothingAfterRflush,
    FlushesInOrder
<1>23. QED
  BY <1>h, <1>q, <1>1, <1>2, <1>3, <1>4, <1>5, <1>6, <1>7, <1>8,
    <1>9, <1>10, <1>11, <1>12, <1>13, <1>14, <1>15, <1>16, <1>17, <1>18,
    <1>19, <1>20, <1>21, <1>22

(* It posts the request on fs->work. *)
LEMMA SlavePostOK ==
  ASSUME IndInv, NEW s \in Slaves, SlavePost(s)
  PROVE  IndInv'
<1>a. UNCHANGED <<exq, flush, sent>>
  BY DEF SlavePost, Eto, Sto, queues,
    marks, export, slaves, qlocks
<1>q. ListsOK' /\ queued' = queued /\ waiting' = waiting /\ answered' = answered
  BY <1>a, ListsSame DEF IndInv
<1>t. queued \subseteq Reqs /\ waiting \in [Reqs -> SUBSET Flushes] /\ answered \subseteq Msgs
  BY ListTypes DEF IndInv
<1> USE DEF IndInv, SlavePost, Eto, Sto, queues, marks, export, slaves, qlocks
<1>h. Reqs \cap Flushes = {} /\ None \notin Reqs \cup Flushes \cup Slaves /\ Reqs \cup Flushes \subseteq Nat
  BY ExportfsAssumption
<1>1. PlacesOK'
  BY <1>q DEF PlacesOK, EStmts, SStmts, HasJob, Closing
<1>2. TypesOK'
  BY <1>h, <1>q DEF TypesOK, Msgs, PlacesOK, EStmts, SStmts, HasJob, Closing,
    MsgOK, Flushing, JobsOK
<1>3. FlagsOK'
  BY <1>q DEF FlagsOK
<1>4. QueueOK'
  BY <1>q DEF QueueOK
<1>5. JobsOK'
  BY <1>q DEF JobsOK, HasJob, Closing
<1>6. LockOK'
  BY <1>h, <1>q DEF LockOK, PlacesOK, EStmts, SStmts, HasJob, Closing,
    TypesOK, Msgs
<1>7. MsgOK'
  BY <1>q DEF MsgOK, Flushing
<1>8. OldtagOK'
  BY <1>q DEF OldtagOK
<1>9. WorkOK'
  BY <1>h, <1>q DEF WorkOK, HeldAt, Posted, PlacesOK, EStmts, SStmts, HasJob,
    Closing, TypesOK, Msgs, JobsOK
<1>10. BusyOK'
  BY <1>q DEF BusyOK, HeldAt
<1>11. ShutOK'
  BY <1>q DEF ShutOK
<1>12. FinishedOK'
  BY <1>q DEF FinishedOK, HasJob, Closing
<1>13. FlushesOK'
  BY <1>q DEF FlushesOK, HeldAt, Posted
<1>14. FqOK'
  BY <1>q DEF FqOK
<1>15. PendingOK'
  BY <1>q DEF PendingOK, Flushing
<1>16. FreshOK'
  BY <1>q DEF FreshOK, Unstarted
<1>17. KilledOK'
  BY <1>q DEF KilledOK, HasJob, Closing
<1>18. FoundOK'
  BY <1>q DEF FoundOK, Closed, Unstarted, Closing
<1>19. AnsweredOK'
  BY <1>q DEF AnsweredOK, Closed, Unstarted, Closing
<1>20. OrderOK'
  BY <1>q DEF OrderOK
<1>21. RefOK'
  BY <1>q DEF RefOK
<1>22. AnswersAsPromised'
  BY <1>q DEF AnswersAsPromised, RepliesOnce, NothingAfterRflush,
    FlushesInOrder
<1>23. QED
  BY <1>h, <1>q, <1>1, <1>2, <1>3, <1>4, <1>5, <1>6, <1>7, <1>8,
    <1>9, <1>10, <1>11, <1>12, <1>13, <1>14, <1>15, <1>16, <1>17, <1>18,
    <1>19, <1>20, <1>21, <1>22

(* Its file call returns. *)
LEMMA SlaveCallOK ==
  ASSUME IndInv, NEW s \in Slaves, NEW e \in BOOLEAN, SlaveCall(s, e)
  PROVE  IndInv'
<1>a. UNCHANGED <<exq, flush, sent>>
  BY DEF SlaveCall, Eto, Sto, queues,
    marks, export, slaves, qlocks
<1>q. ListsOK' /\ queued' = queued /\ waiting' = waiting /\ answered' = answered
  BY <1>a, ListsSame DEF IndInv
<1>t. queued \subseteq Reqs /\ waiting \in [Reqs -> SUBSET Flushes] /\ answered \subseteq Msgs
  BY ListTypes DEF IndInv
<1> USE DEF IndInv, SlaveCall, Eto, Sto, queues, marks, export, slaves, qlocks
<1>h. Reqs \cap Flushes = {} /\ None \notin Reqs \cup Flushes \cup Slaves /\ Reqs \cup Flushes \subseteq Nat
  BY ExportfsAssumption
<1>1. PlacesOK'
  BY <1>q DEF PlacesOK, EStmts, SStmts, HasJob, Closing
<1>2. TypesOK'
  BY <1>q DEF TypesOK, Msgs
<1>3. FlagsOK'
  BY <1>q DEF FlagsOK
<1>4. QueueOK'
  BY <1>q DEF QueueOK
<1>5. JobsOK'
  BY <1>q DEF JobsOK, HasJob, Closing
<1>6. LockOK'
  BY <1>q DEF LockOK
<1>7. MsgOK'
  BY <1>q DEF MsgOK, Flushing
<1>8. OldtagOK'
  BY <1>q DEF OldtagOK
<1>9. WorkOK'
  BY <1>q DEF WorkOK, HeldAt, Posted
<1>10. BusyOK'
  BY <1>q DEF BusyOK, HeldAt
<1>11. ShutOK'
  BY <1>q DEF ShutOK
<1>12. FinishedOK'
  BY <1>q DEF FinishedOK, HasJob, Closing
<1>13. FlushesOK'
  BY <1>q DEF FlushesOK, HeldAt, Posted
<1>14. FqOK'
  BY <1>q DEF FqOK
<1>15. PendingOK'
  BY <1>q DEF PendingOK, Flushing
<1>16. FreshOK'
  BY <1>q DEF FreshOK, Unstarted
<1>17. KilledOK'
  BY <1>q DEF KilledOK, HasJob, Closing
<1>18. FoundOK'
  BY <1>q DEF FoundOK, Closed, Unstarted, Closing
<1>19. AnsweredOK'
  BY <1>q DEF AnsweredOK, Closed, Unstarted, Closing
<1>20. OrderOK'
  BY <1>q DEF OrderOK
<1>21. RefOK'
  BY <1>q DEF RefOK
<1>22. AnswersAsPromised'
  BY <1>q DEF AnswersAsPromised, RepliesOnce, NothingAfterRflush,
    FlushesInOrder
<1>23. QED
  BY <1>h, <1>q, <1>1, <1>2, <1>3, <1>4, <1>5, <1>6, <1>7, <1>8,
    <1>9, <1>10, <1>11, <1>12, <1>13, <1>14, <1>15, <1>16, <1>17, <1>18,
    <1>19, <1>20, <1>21, <1>22

(* It is no longer interruptible. *)
LEMMA SlaveEndOK ==
  ASSUME IndInv, NEW s \in Slaves, SlaveEnd(s)
  PROVE  IndInv'
<1>a. UNCHANGED <<exq, flush, sent>>
  BY DEF SlaveEnd, Eto, Sto, queues,
    marks, export, slaves, qlocks
<1>q. ListsOK' /\ queued' = queued /\ waiting' = waiting /\ answered' = answered
  BY <1>a, ListsSame DEF IndInv
<1>t. queued \subseteq Reqs /\ waiting \in [Reqs -> SUBSET Flushes] /\ answered \subseteq Msgs
  BY ListTypes DEF IndInv
<1> USE DEF IndInv, SlaveEnd, Eto, Sto, queues, marks, export, slaves, qlocks
<1>h. Reqs \cap Flushes = {} /\ None \notin Reqs \cup Flushes \cup Slaves /\ Reqs \cup Flushes \subseteq Nat
  BY ExportfsAssumption
<1>1. PlacesOK'
  BY <1>q DEF PlacesOK, EStmts, SStmts, HasJob, Closing
<1>2. TypesOK'
  BY <1>q DEF TypesOK, Msgs
<1>3. FlagsOK'
  BY ZenonT(60), <1>q DEF FlagsOK
<1>4. QueueOK'
  BY <1>q DEF QueueOK
<1>5. JobsOK'
  BY <1>h, <1>q DEF JobsOK, HasJob, Closing, PlacesOK, EStmts, SStmts,
    TypesOK, Msgs
<1>6. LockOK'
  BY <1>h, <1>q DEF LockOK, PlacesOK, EStmts, SStmts, HasJob, Closing,
    TypesOK, Msgs
<1>7. MsgOK'
  BY <1>q DEF MsgOK, Flushing
<1>8. OldtagOK'
  BY <1>q DEF OldtagOK
<1>9. WorkOK'
  <2>1. /\ spc[s] \in Posted /\ spc'[s] \in Posted
        /\ \A t \in Slaves : t # s => spc'[t] = spc[t]
    BY DEF PlacesOK, Posted
  <2>2. UNCHANGED <<job, slave, work, epc>>
    OBVIOUS
  <2>3. QED
    BY <2>1, <2>2 DEF WorkOK, HeldAt
<1>10. BusyOK'
  <2>1. job[s] \in Reqs /\ slave[job[s]] = s
    BY DEF JobsOK, HasJob
  <2>2. \A q \in Reqs : busy'[q] => busy[q] /\ q # job[s]
    BY <2>1, FlagsElsewhere DEF FlagsOK
  <2>3. QED
    BY <1>h, <2>1, <2>2 DEF BusyOK, HeldAt, PlacesOK
<1>11. ShutOK'
  BY <1>q DEF ShutOK
<1>12. FinishedOK'
  BY <1>h, <1>q DEF FinishedOK, HasJob, Closing, PlacesOK, EStmts, SStmts,
    TypesOK, Msgs
<1>13. FlushesOK'
  BY <1>h, <1>q DEF FlushesOK, HeldAt, Posted, PlacesOK, EStmts, SStmts,
    HasJob, Closing, TypesOK, Msgs, JobsOK, MsgOK, Flushing, WorkOK, FqOK
<1>14. FqOK'
  BY <1>h, <1>q DEF FqOK, PlacesOK, EStmts, SStmts, HasJob, Closing, TypesOK,
    Msgs
<1>15. PendingOK'
  BY <1>q DEF PendingOK, Flushing
<1>16. FreshOK'
  BY <1>q DEF FreshOK, Unstarted
<1>17. KilledOK'
  <2>1. \A t \in Slaves : killed'[t] => killed[t] /\ t # s
    BY FlagsElsewhere DEF FlagsOK
  <2>2. QED
    BY <1>q, <2>1 DEF KilledOK, PlacesOK, HasJob, Closing
<1>18. FoundOK'
  BY ZenonT(60), <1>h, <1>q DEF FoundOK, Closed, Unstarted, Closing, PlacesOK, EStmts,
    SStmts, HasJob, TypesOK, Msgs
<1>19. AnsweredOK'
  BY ZenonT(60), <1>h, <1>q DEF AnsweredOK, Closed, Unstarted, Closing, PlacesOK, EStmts,
    SStmts, HasJob, TypesOK, Msgs
<1>20. OrderOK'
  BY <1>q DEF OrderOK
<1>21. RefOK'
  BY <1>q DEF RefOK
<1>22. AnswersAsPromised'
  BY <1>q DEF AnswersAsPromised, RepliesOnce, NothingAfterRflush,
    FlushesInOrder
<1>23. QED
  BY <1>h, <1>q, <1>1, <1>2, <1>3, <1>4, <1>5, <1>6, <1>7, <1>8,
    <1>9, <1>10, <1>11, <1>12, <1>13, <1>14, <1>15, <1>16, <1>17, <1>18,
    <1>19, <1>20, <1>21, <1>22

(* It answers the request. *)
LEMMA SlaveReplyOK ==
  ASSUME IndInv, NEW s \in Slaves, SlaveReply(s)
  PROVE  IndInv'
<1>a. spc[s] \in HasJob /\ sent' = Append(sent, job[s]) /\ UNCHANGED <<exq, flush>>
  BY DEF
    SlaveReply, Eto, Sto, queues, marks, export, slaves, qlocks, HasJob,
    Closing
<1>q. ListsOK' /\ queued' = queued /\ waiting' = waiting /\ answered' = answered \cup {job[s]} /\ job[s] \in Msgs
  <2>1. job[s] \in Msgs
    BY <1>a DEF IndInv, JobsOK, Msgs
  <2>2. sent' \in Seq(Msgs) /\ answered' = answered \cup {job[s]}
    BY <1>a, <2>1, AppendMembers DEF IndInv, ListsOK, answered
  <2>3. QED
    BY <1>a, <2>1, <2>2 DEF IndInv, ListsOK, queued, waiting
<1>t. queued \subseteq Reqs /\ waiting \in [Reqs -> SUBSET Flushes] /\ answered \subseteq Msgs
  BY ListTypes DEF IndInv
<1> USE DEF IndInv, SlaveReply, Eto, Sto, queues, marks, export, slaves,
    qlocks
<1>h. Reqs \cap Flushes = {} /\ None \notin Reqs \cup Flushes \cup Slaves /\ Reqs \cup Flushes \subseteq Nat
  BY ExportfsAssumption
<1>1. PlacesOK'
  BY <1>q DEF PlacesOK, EStmts, SStmts, HasJob, Closing
<1>2. TypesOK'
  BY <1>q DEF TypesOK, Msgs
<1>3. FlagsOK'
  BY <1>q DEF FlagsOK
<1>4. QueueOK'
  BY <1>q DEF QueueOK
<1>5. JobsOK'
  BY <1>q DEF JobsOK, HasJob, Closing
<1>6. LockOK'
  BY <1>q DEF LockOK
<1>7. MsgOK'
  BY <1>q DEF MsgOK, Flushing
<1>8. OldtagOK'
  BY <1>q DEF OldtagOK
<1>9. WorkOK'
  BY <1>q DEF WorkOK, HeldAt, Posted
<1>10. BusyOK'
  BY <1>q DEF BusyOK, HeldAt
<1>11. ShutOK'
  BY <1>q DEF ShutOK
<1>12. FinishedOK'
  BY <1>q DEF FinishedOK, HasJob, Closing
<1>13. FlushesOK'
  BY <1>q DEF FlushesOK, HeldAt, Posted
<1>14. FqOK'
  BY <1>q DEF FqOK
<1>15. PendingOK'
  BY <1>q DEF PendingOK, Flushing
<1>16. FreshOK'
  BY <1>q DEF FreshOK, Unstarted
<1>17. KilledOK'
  BY <1>q DEF KilledOK, HasJob, Closing
<1>18. FoundOK'
  BY <1>q DEF FoundOK, Closed, Unstarted, Closing
<1>19. AnsweredOK'
  BY <1>h, <1>q DEF AnsweredOK, Closed, Unstarted, Closing, PlacesOK, EStmts,
    SStmts, HasJob, TypesOK, Msgs, JobsOK, MsgOK, Flushing, FoundOK, FqOK,
    OldtagOK, QueueOK, FlushesOK, HeldAt, Posted
<1>20. OrderOK'
  BY <1>h, <1>q DEF OrderOK, PlacesOK, EStmts, SStmts, HasJob, Closing,
    TypesOK, Msgs
<1>21. RefOK'
  BY <1>q DEF RefOK
<1>22. AnswersAsPromised'
  <2>1. job[s] \in Reqs /\ ~Closed(job[s])
    BY DEF JobsOK, HasJob, Closed, Closing
  <2>2. job[s] \notin answered /\ \A f \in (answered \cup {job[s]}) \cap Flushes : oldtag[f] # job[s]
    BY <1>h, <2>1 DEF AnsweredOK
  <2>3. QED
    BY <1>h, <1>q, <2>1, <2>2, AnswerOK
<1>23. QED
  BY <1>h, <1>q, <1>1, <1>2, <1>3, <1>4, <1>5, <1>6, <1>7, <1>8,
    <1>9, <1>10, <1>11, <1>12, <1>13, <1>14, <1>15, <1>16, <1>17, <1>18,
    <1>19, <1>20, <1>21, <1>22

(* A slave takes the next Tflush. *)
LEMMA NextFlushOK ==
  ASSUME IndInv, NEW s \in Slaves, NEW f \in Flushes, NextFlush(s, f)
  PROVE  IndInv'
<1>h. Reqs \cap Flushes = {} /\ None \notin Reqs \cup Flushes \cup Slaves /\ Reqs \cup Flushes \subseteq Nat
  BY ExportfsAssumption
<1>t. queued \subseteq Reqs /\ waiting \in [Reqs -> SUBSET Flushes] /\ answered \subseteq Msgs
  BY ListTypes DEF IndInv
<1> USE DEF IndInv, NextFlush
<1>q. ListsOK'
  OBVIOUS
<1>1. PlacesOK'
  BY <1>q DEF PlacesOK, EStmts, SStmts, HasJob, Closing
<1>2. TypesOK'
  BY <1>q DEF TypesOK, Msgs
<1>3. FlagsOK'
  BY <1>q DEF FlagsOK
<1>4. QueueOK'
  BY <1>q DEF QueueOK
<1>5. JobsOK'
  BY <1>q DEF JobsOK, HasJob, Closing
<1>6. LockOK'
  BY <1>q DEF LockOK
<1>7. MsgOK'
  BY <1>h, <1>q DEF MsgOK, Flushing, PlacesOK, EStmts, SStmts, HasJob,
    Closing, TypesOK, Msgs, JobsOK, QueueOK, FlushesOK, HeldAt, Posted, FqOK
<1>8. OldtagOK'
  BY <1>q DEF OldtagOK
<1>9. WorkOK'
  BY <1>q DEF WorkOK, HeldAt, Posted
<1>10. BusyOK'
  BY <1>q DEF BusyOK, HeldAt
<1>11. ShutOK'
  BY <1>q DEF ShutOK
<1>12. FinishedOK'
  BY <1>q DEF FinishedOK, HasJob, Closing
<1>13. FlushesOK'
  BY <1>q DEF FlushesOK, HeldAt, Posted
<1>14. FqOK'
  BY <1>h, <1>q DEF FqOK, PlacesOK, EStmts, SStmts, HasJob, Closing, TypesOK,
    Msgs, JobsOK, FlushesOK, HeldAt, Posted, MsgOK, Flushing
<1>15. PendingOK'
  BY <1>h, <1>q DEF PendingOK, Flushing, PlacesOK, EStmts, SStmts, HasJob,
    Closing, TypesOK, Msgs, FqOK, FlushesOK, HeldAt, Posted, JobsOK, MsgOK
<1>16. FreshOK'
  BY <1>q DEF FreshOK, Unstarted
<1>17. KilledOK'
  BY <1>h, <1>q, <1>t, ExportfsAssumption DEF KilledOK, HasJob, Closing,
    PlacesOK, EStmts, SStmts, TypesOK, Msgs, JobsOK, WorkOK, HeldAt, Posted,
    BusyOK, FlushesOK, Flushing
<1>18. FoundOK'
  BY <1>q DEF FoundOK, Closed, Unstarted, Closing
<1>19. AnsweredOK'
  BY <1>q DEF AnsweredOK, Closed, Unstarted, Closing
<1>20. OrderOK'
  BY <1>q DEF OrderOK
<1>21. RefOK'
  BY <1>q DEF RefOK
<1>22. AnswersAsPromised'
  BY <1>q DEF AnswersAsPromised, RepliesOnce, NothingAfterRflush,
    FlushesInOrder
<1>23. QED
  BY <1>h, <1>q, <1>1, <1>2, <1>3, <1>4, <1>5, <1>6, <1>7, <1>8,
    <1>9, <1>10, <1>11, <1>12, <1>13, <1>14, <1>15, <1>16, <1>17, <1>18,
    <1>19, <1>20, <1>21, <1>22

(* It has answered all the flushes. *)
LEMMA SlaveFinishesOK ==
  ASSUME IndInv, NEW s \in Slaves, SlaveFlushes(s),
    flush[job[s]] = <<>> \/ shut[job[s]]
  PROVE  IndInv'
<1>a. spc[s] \in HasJob /\ UNCHANGED <<exq, flush, sent>>
  BY DEF
    SlaveFlushes, Eto, Sto, queues, marks, export, slaves, qlocks, HasJob,
    Closing
<1>q. /\ ListsOK' /\ queued' = queued /\ waiting' = waiting /\ answered' = answered
      /\ waiting[job[s]] = {} \/ shut[job[s]]
  <2>1. job[s] \in Reqs /\ UNCHANGED <<exq, flush, sent>>
    BY <1>a DEF IndInv, JobsOK
  <2>2. waiting[job[s]] = {} \/ shut[job[s]]
    BY <2>1, MembersOf DEF IndInv, waiting, ListsOK
  <2>3. QED
    BY <2>1, <2>2, ListsSame DEF IndInv
<1>t. queued \subseteq Reqs /\ waiting \in [Reqs -> SUBSET Flushes] /\ answered \subseteq Msgs
  BY ListTypes DEF IndInv
<1> USE DEF IndInv, SlaveFlushes, Eto, Sto, queues, marks, export, slaves,
    qlocks
<1>h. Reqs \cap Flushes = {} /\ None \notin Reqs \cup Flushes \cup Slaves /\ Reqs \cup Flushes \subseteq Nat
  BY ExportfsAssumption
<1>1. PlacesOK'
  BY <1>q DEF PlacesOK, EStmts, SStmts, HasJob, Closing
<1>2. TypesOK'
  BY <1>q DEF TypesOK, Msgs
<1>3. FlagsOK'
  <2>1. finished' = [finished EXCEPT ![job[s]] = TRUE] /\ UNCHANGED <<busy, shut, killed, err>>
    OBVIOUS
  <2>2. finished' \in [Reqs -> BOOLEAN]
    BY <2>1, FlagSet DEF FlagsOK
  <2>3. QED
    BY <2>1, <2>2 DEF FlagsOK
<1>4. QueueOK'
  BY <1>q DEF QueueOK
<1>5. JobsOK'
  BY ZenonT(60), <1>h, <1>q DEF JobsOK, HasJob, Closing, PlacesOK, EStmts, SStmts,
    TypesOK, Msgs
<1>6. LockOK'
  BY <1>h, <1>q DEF LockOK, PlacesOK, EStmts, SStmts, HasJob, Closing,
    TypesOK, Msgs
<1>7. MsgOK'
  BY <1>q DEF MsgOK, Flushing
<1>8. OldtagOK'
  BY <1>q DEF OldtagOK
<1>9. WorkOK'
  BY ZenonT(60), <1>h, <1>q DEF WorkOK, HeldAt, Posted, PlacesOK, EStmts, SStmts, HasJob,
    Closing, TypesOK, Msgs
<1>10. BusyOK'
  BY <1>h, <1>q DEF BusyOK, HeldAt, PlacesOK, EStmts, SStmts, HasJob, Closing,
    TypesOK, Msgs
<1>11. ShutOK'
  BY <1>q DEF ShutOK
<1>12. FinishedOK'
  <2>1. job[s] \in Reqs
    BY DEF JobsOK, HasJob, Closing
  <2>2. finished'[job[s]] /\ \A q \in Reqs : q # job[s] => (finished'[q] <=> finished[q])
    BY <2>1, FlagsElsewhere DEF FlagsOK
  <2>3. QED
    BY <1>h, <1>q, <2>1, <2>2 DEF FinishedOK, JobsOK, HasJob, Closing, PlacesOK
<1>13. FlushesOK'
  BY <1>h, <1>q DEF FlushesOK, HeldAt, Posted, PlacesOK, EStmts, SStmts,
    HasJob, Closing, TypesOK, Msgs, JobsOK, MsgOK, Flushing, WorkOK, FqOK
<1>14. FqOK'
  BY <1>h, <1>q DEF FqOK, PlacesOK, EStmts, SStmts, HasJob, Closing, TypesOK,
    Msgs
<1>15. PendingOK'
  BY <1>q DEF PendingOK, Flushing
<1>16. FreshOK'
  <2>1. job[s] \in Reqs
    BY DEF JobsOK, HasJob, Closing
  <2>2. finished'[job[s]] /\ \A q \in Reqs : q # job[s] => (finished'[q] <=> finished[q])
    BY <2>1, FlagsElsewhere DEF FlagsOK
  <2>3. QED
    BY <1>h, <1>q, <2>1, <2>2 DEF FreshOK, Unstarted, JobsOK, HasJob, Closing, MsgOK, TypesOK
<1>17. KilledOK'
  BY ZenonT(60), <1>h, <1>q DEF KilledOK, HasJob, Closing, PlacesOK, EStmts, SStmts,
    TypesOK, Msgs
<1>18. FoundOK'
  BY ZenonT(60), <1>h, <1>q DEF FoundOK, Closed, Unstarted, Closing, PlacesOK, EStmts,
    SStmts, HasJob, TypesOK, Msgs
<1>19. AnsweredOK'
  <2>1. /\ spc'[s] \in Closing /\ \A t \in Slaves : t # s => spc'[t] = spc[t]
        /\ UNCHANGED <<job, asked, epc, msg, live, oldtag>>
    BY DEF PlacesOK, Closing
  <2>2. QED
    BY <1>q, <2>1 DEF AnsweredOK, Closed, Unstarted
<1>20. OrderOK'
  BY <1>q DEF OrderOK
<1>21. RefOK'
  BY <1>q DEF RefOK
<1>22. AnswersAsPromised'
  BY <1>q DEF AnswersAsPromised, RepliesOnce, NothingAfterRflush,
    FlushesInOrder
<1>23. QED
  BY <1>h, <1>q, <1>1, <1>2, <1>3, <1>4, <1>5, <1>6, <1>7, <1>8,
    <1>9, <1>10, <1>11, <1>12, <1>13, <1>14, <1>15, <1>16, <1>17, <1>18,
    <1>19, <1>20, <1>21, <1>22

(* It answers a Tflush. *)
LEMMA SlaveRflushOK ==
  ASSUME IndInv, NEW s \in Slaves, SlaveRflush(s)
  PROVE  IndInv'
<1>a. spc[s] = "rflush" /\ sent' = Append(sent, fq[s]) /\ UNCHANGED <<exq, flush>>
  BY DEF
    SlaveRflush, Eto, Sto, queues, marks, export, slaves, qlocks, Free
<1>q. ListsOK' /\ queued' = queued /\ waiting' = waiting /\ answered' = answered \cup {fq[s]} /\ fq[s] \in Msgs
  <2>1. fq[s] \in Msgs
    BY <1>a DEF IndInv, FqOK, TypesOK, Msgs
  <2>2. sent' \in Seq(Msgs) /\ answered' = answered \cup {fq[s]}
    BY <1>a, <2>1, AppendMembers DEF IndInv, ListsOK, answered
  <2>3. QED
    BY <1>a, <2>1, <2>2 DEF IndInv, ListsOK, queued, waiting
<1>t. queued \subseteq Reqs /\ waiting \in [Reqs -> SUBSET Flushes] /\ answered \subseteq Msgs
  BY ListTypes DEF IndInv
<1> USE DEF IndInv, SlaveRflush, Eto, Sto, queues, marks, export, slaves,
    qlocks, Free
<1>h. Reqs \cap Flushes = {} /\ None \notin Reqs \cup Flushes \cup Slaves /\ Reqs \cup Flushes \subseteq Nat
  BY ExportfsAssumption
<1>1. PlacesOK'
  BY <1>q DEF PlacesOK, EStmts, SStmts, HasJob, Closing
<1>2. TypesOK'
  BY <1>q DEF TypesOK, Msgs
<1>3. FlagsOK'
  BY <1>q DEF FlagsOK
<1>4. QueueOK'
  BY <1>h, <1>q, <1>t, ExportfsAssumption DEF QueueOK, PlacesOK, EStmts,
    SStmts, HasJob, Closing, TypesOK, Msgs, MsgOK, Flushing, JobsOK, FqOK,
    FlushesOK, HeldAt, Posted
<1>5. JobsOK'
  BY <1>h, <1>q DEF JobsOK, HasJob, Closing, PlacesOK, EStmts, SStmts,
    TypesOK, Msgs
<1>6. LockOK'
  BY <1>q DEF LockOK
<1>7. MsgOK'
  BY <1>h, <1>q DEF MsgOK, Flushing, PlacesOK, EStmts, SStmts, HasJob,
    Closing, TypesOK, Msgs
<1>8. OldtagOK'
  BY <1>q DEF OldtagOK
<1>9. WorkOK'
  BY <1>q DEF WorkOK, HeldAt, Posted
<1>10. BusyOK'
  BY <1>q DEF BusyOK, HeldAt
<1>11. ShutOK'
  BY <1>q DEF ShutOK
<1>12. FinishedOK'
  BY <1>q DEF FinishedOK, HasJob, Closing
<1>13. FlushesOK'
  BY <1>h, <1>q DEF FlushesOK, HeldAt, Posted, PlacesOK, EStmts, SStmts,
    HasJob, Closing, TypesOK, Msgs, JobsOK, MsgOK, Flushing, WorkOK, FqOK
<1>14. FqOK'
  BY <1>h, <1>q DEF FqOK, PlacesOK, EStmts, SStmts, HasJob, Closing, TypesOK,
    Msgs, JobsOK, FlushesOK, HeldAt, Posted, MsgOK, Flushing
<1>15. PendingOK'
  BY <1>q DEF PendingOK, Flushing
<1>16. FreshOK'
  BY <1>q DEF FreshOK, Unstarted
<1>17. KilledOK'
  BY <1>q DEF KilledOK, HasJob, Closing
<1>18. FoundOK'
  BY <1>q DEF FoundOK, Closed, Unstarted, Closing
<1>19. AnsweredOK'
  BY <1>h, <1>q DEF AnsweredOK, Closed, Unstarted, Closing, PlacesOK, EStmts,
    SStmts, HasJob, TypesOK, Msgs, JobsOK, MsgOK, Flushing, FoundOK, FqOK,
    OldtagOK, QueueOK, FlushesOK, HeldAt, Posted
<1>20. OrderOK'
  <2>1. ASSUME NEW g \in live', g \in Flushes, oldtag[g] = oldtag[fq[s]] PROVE fq[s] < g
    <3>1. g \in live /\ g # fq[s] /\ fq[s] # None /\ fq[s] \in live
      BY <2>1, <1>h DEF FqOK
    <3>2. CASE epc \in Flushing /\ msg = g
      BY <1>h, <3>1, <3>2 DEF MsgOK, TypesOK
    <3>3. CASE g \in waiting[oldtag[g]]
      BY <2>1, <3>1, <3>3 DEF FqOK
    <3>4. CASE \E t \in Slaves : fq[t] = g
      <4>1. PICK t \in Slaves : fq[t] = g
        BY <3>4
      <4>2. fq[t] # None
        BY <2>1, <4>1, ExportfsAssumption
      <4>3. job[t] = job[s] /\ spc[t] = "rflush" /\ spc[s] = "rflush"
        BY <2>1, <3>1, <4>1, <4>2 DEF FqOK
      <4>4. t = s
        BY <4>3 DEF JobsOK, HasJob, Closing
      <4>5. QED
        BY <3>1, <4>1, <4>4
    <3>5. QED
      BY <2>1, <3>1, <3>2, <3>3, <3>4 DEF PendingOK
  <2>2. live' \subseteq live /\ UNCHANGED oldtag
    OBVIOUS
  <2>3. QED
    BY <1>q, <2>1, <2>2 DEF OrderOK
<1>21. RefOK'
  <2>1. {fq[s]} \in SUBSET live /\ Free({fq[s]})
    BY <1>h, <1>q DEF FqOK
  <2>2. QED
    BY <2>1, FreeOK
<1>22. AnswersAsPromised'
  <2>1. fq[s] \in live \cap Flushes /\ oldtag[fq[s]] \in Reqs
    BY <1>h DEF FqOK, JobsOK, HasJob, Closing, TypesOK
  <2>2. fq[s] \notin answered /\ \A f \in (answered \cup {fq[s]}) \cap Flushes : oldtag[f] # fq[s]
    BY <1>h, <2>1 DEF AnsweredOK, OldtagOK
  <2>3. QED
    BY <1>h, <1>q, <2>1, <2>2, AnswerOK DEF OrderOK
<1>23. QED
  BY <1>h, <1>q, <1>1, <1>2, <1>3, <1>4, <1>5, <1>6, <1>7, <1>8,
    <1>9, <1>10, <1>11, <1>12, <1>13, <1>14, <1>15, <1>16, <1>17, <1>18,
    <1>19, <1>20, <1>21, <1>22

(* It takes the request off fs->work. *)
LEMMA SlaveUnlinkOK ==
  ASSUME IndInv, NEW s \in Slaves, SlaveUnlink(s)
  PROVE  IndInv'
<1>a. UNCHANGED <<exq, flush, sent>>
  BY DEF SlaveUnlink, Eto, Sto, queues,
    marks, export, slaves, qlocks
<1>q. ListsOK' /\ queued' = queued /\ waiting' = waiting /\ answered' = answered
  BY <1>a, ListsSame DEF IndInv
<1>t. queued \subseteq Reqs /\ waiting \in [Reqs -> SUBSET Flushes] /\ answered \subseteq Msgs
  BY ListTypes DEF IndInv
<1> USE DEF IndInv, SlaveUnlink, Eto, Sto, queues, marks, export, slaves,
    qlocks
<1>h. Reqs \cap Flushes = {} /\ None \notin Reqs \cup Flushes \cup Slaves /\ Reqs \cup Flushes \subseteq Nat
  BY ExportfsAssumption
<1>1. PlacesOK'
  BY <1>q DEF PlacesOK, EStmts, SStmts, HasJob, Closing
<1>2. TypesOK'
  BY <1>q DEF TypesOK, Msgs
<1>3. FlagsOK'
  BY <1>q DEF FlagsOK
<1>4. QueueOK'
  BY <1>q DEF QueueOK
<1>5. JobsOK'
  BY <1>q DEF JobsOK, HasJob, Closing
<1>6. LockOK'
  BY <1>q DEF LockOK
<1>7. MsgOK'
  BY <1>q DEF MsgOK, Flushing
<1>8. OldtagOK'
  BY <1>q DEF OldtagOK
<1>9. WorkOK'
  BY <1>h, <1>q DEF WorkOK, HeldAt, Posted, PlacesOK, EStmts, SStmts, HasJob,
    Closing, TypesOK, Msgs, JobsOK
<1>10. BusyOK'
  BY <1>q DEF BusyOK, HeldAt
<1>11. ShutOK'
  BY <1>q DEF ShutOK
<1>12. FinishedOK'
  BY <1>q DEF FinishedOK, HasJob, Closing
<1>13. FlushesOK'
  BY <1>q DEF FlushesOK, HeldAt, Posted
<1>14. FqOK'
  BY <1>q DEF FqOK
<1>15. PendingOK'
  BY <1>q DEF PendingOK, Flushing
<1>16. FreshOK'
  BY <1>q DEF FreshOK, Unstarted
<1>17. KilledOK'
  BY <1>q DEF KilledOK, HasJob, Closing
<1>18. FoundOK'
  BY <1>q DEF FoundOK, Closed, Unstarted, Closing
<1>19. AnsweredOK'
  BY <1>q DEF AnsweredOK, Closed, Unstarted, Closing
<1>20. OrderOK'
  BY <1>q DEF OrderOK
<1>21. RefOK'
  BY <1>q DEF RefOK
<1>22. AnswersAsPromised'
  BY <1>q DEF AnswersAsPromised, RepliesOnce, NothingAfterRflush,
    FlushesInOrder
<1>23. QED
  BY <1>h, <1>q, <1>1, <1>2, <1>3, <1>4, <1>5, <1>6, <1>7, <1>8,
    <1>9, <1>10, <1>11, <1>12, <1>13, <1>14, <1>15, <1>16, <1>17, <1>18,
    <1>19, <1>20, <1>21, <1>22

(* A slave frees its request. *)
LEMMA FreesOK ==
  ASSUME IndInv, NEW s \in Slaves, Frees(s)
  PROVE  IndInv'
<1>h. Reqs \cap Flushes = {} /\ None \notin Reqs \cup Flushes \cup Slaves /\ Reqs \cup Flushes \subseteq Nat
  BY ExportfsAssumption
<1>t. queued \subseteq Reqs /\ waiting \in [Reqs -> SUBSET Flushes] /\ answered \subseteq Msgs
  BY ListTypes DEF IndInv
<1> USE DEF IndInv, Frees
<1>q. ListsOK'
  OBVIOUS
<1>1. PlacesOK'
  BY <1>q DEF PlacesOK, EStmts, SStmts, HasJob, Closing
<1>2. TypesOK'
  BY <1>q DEF TypesOK, Msgs
<1>3. FlagsOK'
  BY <1>q DEF FlagsOK
<1>4. QueueOK'
  BY <1>h, <1>q, <1>t, ExportfsAssumption DEF QueueOK, PlacesOK, EStmts,
    SStmts, HasJob, Closing, TypesOK, Msgs, MsgOK, Flushing, JobsOK, FqOK,
    FlushesOK, HeldAt, Posted
<1>5. JobsOK'
  BY <1>h, <1>q, <1>t, ExportfsAssumption DEF JobsOK, HasJob, Closing,
    PlacesOK, EStmts, SStmts, TypesOK, Msgs, QueueOK, MsgOK, Flushing,
    FlushesOK, HeldAt, Posted, FqOK
<1>6. LockOK'
  BY <1>q DEF LockOK
<1>7. MsgOK'
  BY <1>h, <1>q, <1>t, ExportfsAssumption DEF MsgOK, Flushing, PlacesOK,
    EStmts, SStmts, HasJob, Closing, TypesOK, Msgs, JobsOK, QueueOK,
    FlushesOK, HeldAt, Posted, FqOK
<1>8. OldtagOK'
  BY <1>q DEF OldtagOK
<1>9. WorkOK'
  BY <1>q DEF WorkOK, HeldAt, Posted
<1>10. BusyOK'
  BY <1>q DEF BusyOK, HeldAt
<1>11. ShutOK'
  BY <1>q DEF ShutOK
<1>12. FinishedOK'
  BY <1>h, <1>q DEF FinishedOK, HasJob, Closing, PlacesOK, EStmts, SStmts,
    TypesOK, Msgs
<1>13. FlushesOK'
  BY <1>h, <1>q, <1>t, ExportfsAssumption DEF FlushesOK, HeldAt, Posted,
    PlacesOK, EStmts, SStmts, HasJob, Closing, TypesOK, Msgs, JobsOK, MsgOK,
    Flushing, WorkOK, FqOK
<1>14. FqOK'
  BY <1>h, <1>q DEF FqOK, PlacesOK, EStmts, SStmts, HasJob, Closing, TypesOK,
    Msgs, JobsOK, FlushesOK, HeldAt, Posted, MsgOK, Flushing
<1>15. PendingOK'
  BY <1>q DEF PendingOK, Flushing
<1>16. FreshOK'
  BY <1>q DEF FreshOK, Unstarted
<1>17. KilledOK'
  <2>1. \A t \in Slaves : killed'[t] => killed[t] /\ t # s
    BY FlagsElsewhere DEF FlagsOK
  <2>2. QED
    BY <1>h, <1>t, <2>1 DEF JobsOK, FlushesOK, HeldAt, TypesOK,  KilledOK, PlacesOK, HasJob, Closing
<1>18. FoundOK'
  BY <1>h, <1>q DEF FoundOK, Closed, Unstarted, Closing, PlacesOK, EStmts,
    SStmts, HasJob, TypesOK, Msgs
<1>19. AnsweredOK'
  BY <1>h, <1>q DEF AnsweredOK, Closed, Unstarted, Closing, PlacesOK, EStmts,
    SStmts, HasJob, TypesOK, Msgs
<1>20. OrderOK'
  BY <1>q DEF OrderOK
<1>21. RefOK'
  OBVIOUS
<1>22. AnswersAsPromised'
  BY <1>q DEF AnswersAsPromised, RepliesOnce, NothingAfterRflush,
    FlushesInOrder
<1>23. QED
  BY <1>h, <1>q, <1>1, <1>2, <1>3, <1>4, <1>5, <1>6, <1>7, <1>8,
    <1>9, <1>10, <1>11, <1>12, <1>13, <1>14, <1>15, <1>16, <1>17, <1>18,
    <1>19, <1>20, <1>21, <1>22

(* A slave takes the first request of exq. *)
LEMMA SlaveTakeOK ==
  ASSUME IndInv, NEW s \in Slaves, SlaveTake(s), exq # <<>>
  PROVE  IndInv'
<1> DEFINE r == Head(exq)
<1>1. qunlock /\ exq' = Tail(exq) /\ UNCHANGED <<flush, sent>>
  BY DEF SlaveTake, queues, Sto
<1>2. /\ exq' \in Seq(Reqs) /\ OnListOnce(exq') /\ queued' = queued \ {r}
      /\ r \in queued /\ r \in Reqs
  BY <1>1, TailMembers DEF IndInv, ListsOK, queued
<1>3. ListsOK' /\ UNCHANGED <<waiting, answered>>
  BY <1>1, <1>2 DEF IndInv, ListsOK, waiting, answered
<1>4. qwait' \in Slaves \cup {None} /\ qwaitq' \in Seq(Slaves)
  BY <1>1, qunlockOK DEF IndInv
<1>5. /\ spc[s] = "take" /\ exql = None /\ spc' = [spc EXCEPT ![s] = "post"] /\ exql' = s
      /\ job' = [job EXCEPT ![s] = r] /\ slave' = [slave EXCEPT ![r] = s]
      /\ busy' = [busy EXCEPT ![r] = TRUE] /\ killed' = [killed EXCEPT ![s] = FALSE]
      /\ UNCHANGED <<fsl, tail, work, finished, shut, live, ref, epc, msg, oldtag, asked, fq, err, sent>>
  BY DEF SlaveTake, Sto, export
<1> HIDE DEF r
<1>6. Takes(s, r)
  BY <1>2, <1>3, <1>4, <1>5 DEF Takes
<1>7. QED
  BY <1>2, <1>6, TakesOK

(* A slave takes the first Tflush of the flush queue. *)
LEMMA SlaveNextFlushOK ==
  ASSUME IndInv, NEW s \in Slaves, SlaveFlushes(s), flush[job[s]] # <<>>, ~shut[job[s]]
  PROVE  IndInv'
<1> DEFINE q == job[s]
           f == Head(flush[q])
<1>1. /\ spc[s] = "flushes" /\ flush' = [flush EXCEPT ![q] = Tail(@)]
      /\ UNCHANGED <<exq, sent>>
  BY DEF SlaveFlushes, Sto
<1>2. /\ spc' = [spc EXCEPT ![s] = "rflush"] /\ fq' = [fq EXCEPT ![s] = f]
      /\ UNCHANGED <<exql, fsl, tail, work, slave, busy, finished, shut, live, ref, killed, qwait,
                     qwaitq, epc, msg, oldtag, asked, job, err, sent>>
  BY DEF SlaveFlushes, Sto, qlocks, export
<1>3. q \in Reqs /\ flush[q] \in Seq(Flushes) /\ Rising(flush[q]) /\ flush[q] # <<>> /\ ~shut[q]
  BY <1>1 DEF IndInv, JobsOK, HasJob, Closing, ListsOK
<1>4. Flushes \in SUBSET Nat
  BY ExportfsAssumption
<1> HIDE DEF q
<1>5. /\ Tail(flush[q]) \in Seq(Flushes) /\ Rising(Tail(flush[q])) /\ f \in Flushes
      /\ f \in InSeq(flush[q]) /\ InSeq(Tail(flush[q])) = InSeq(flush[q]) \ {f}
      /\ \A y \in InSeq(Tail(flush[q])) : f < y
  BY <1>3, <1>4, RisingTail
<1> HIDE DEF f
<1>6. /\ waiting' = [waiting EXCEPT ![q] = @ \ {f}]
      /\ waiting'[q] = InSeq(Tail(flush[q])) /\ waiting[q] = InSeq(flush[q])
  BY <1>1, <1>3, <1>5 DEF IndInv, ListsOK, waiting
<1>7. ListsOK' /\ UNCHANGED <<queued, answered>>
  BY <1>1, <1>3, <1>5 DEF IndInv, ListsOK, queued, answered
<1>8. NextFlush(s, f)
  BY <1>1, <1>2, <1>3, <1>5, <1>6, <1>7 DEF NextFlush, q
<1>9. QED
  BY <1>5, <1>8, NextFlushOK

(* A slave frees its request and what is left on the flush queue. *)
LEMMA SlaveFreeOK ==
  ASSUME IndInv, NEW s \in Slaves, SlaveFree(s)
  PROVE  IndInv'
<1> DEFINE q == job[s]
           ms == {q} \cup InSeq(flush[q])
<1>1. /\ spc[s] = "free" /\ flush' = [flush EXCEPT ![q] = <<>>] /\ Free(ms)
      /\ UNCHANGED <<exq, sent>>
  BY DEF SlaveFree, Sto
<1>2. /\ spc' = [spc EXCEPT ![s] = "qlock"] /\ killed' = [killed EXCEPT ![s] = FALSE]
      /\ job' = [job EXCEPT ![s] = None]
      /\ UNCHANGED <<exql, fsl, tail, work, slave, busy, finished, shut, qwait, qwaitq, epc, msg,
                     oldtag, asked, fq, err, sent>>
  BY DEF SlaveFree, Sto, marks, qlocks, export
<1>3. q \in Reqs /\ q \in live /\ waiting[q] = InSeq(flush[q])
  BY <1>1 DEF IndInv, JobsOK, HasJob, Closing, waiting
<1>4. ms \in SUBSET live /\ ms = {q} \cup waiting[q]
  BY <1>3 DEF IndInv, FlushesOK
<1> HIDE DEF q, ms
<1>5. RefOK'
  BY <1>1, <1>2, <1>4, FreeOK DEF IndInv
<1>6. Rising(<<>>) /\ InSeq(<<>>) = {}
  BY DEF Rising, InSeq
<1>7. ListsOK' /\ waiting' = [waiting EXCEPT ![q] = {}] /\ UNCHANGED <<queued, answered>>
  <2>1. waiting' = [waiting EXCEPT ![q] = {}]
    BY <1>1, <1>3, <1>6 DEF IndInv, ListsOK, waiting
  <2>2. ListsOK'
    BY <1>1, <1>3, <1>6 DEF IndInv, ListsOK
  <2>3. QED
    BY <1>1, <2>1, <2>2 DEF queued, answered
<1>8. live' = live \ ({q} \cup waiting[q])
  BY <1>1, <1>4 DEF Free
<1>9. Frees(s)
  BY <1>1, <1>2, <1>5, <1>7, <1>8 DEF Frees, q
<1>10. QED
  BY <1>9, FreesOK

LEMMA InitOK == Init => IndInv
<1> SUFFICES ASSUME Init PROVE IndInv
  OBVIOUS
<1> USE DEF Init
<1>1. queued = {} /\ waiting = [q \in Reqs |-> {}] /\ answered = {}
  BY DEF queued, waiting, answered, InSeq
<1>2. PlacesOK /\ TypesOK
  BY DEF PlacesOK, EStmts, SStmts, HasJob, Closing, TypesOK
<1>3. FlagsOK
  BY DEF FlagsOK
<1>4. ListsOK
  BY DEF ListsOK, OnListOnce, Rising
<1>5. QueueOK /\ JobsOK /\ LockOK /\ MsgOK /\ OldtagOK
  BY <1>1 DEF QueueOK, JobsOK, HasJob, Closing, LockOK, MsgOK, Flushing, OldtagOK
<1>6. WorkOK /\ BusyOK /\ ShutOK /\ FinishedOK
  BY DEF WorkOK, Posted, BusyOK, ShutOK, FinishedOK, HasJob, Closing
<1>7. FlushesOK /\ FqOK /\ PendingOK /\ FreshOK
  BY <1>1 DEF FlushesOK, FqOK, PendingOK, FreshOK
<1>8. KilledOK /\ FoundOK /\ AnsweredOK /\ OrderOK
  BY <1>1 DEF KilledOK, FoundOK, AnsweredOK, OrderOK
<1>9. RefOK
  BY FS_EmptySet DEF RefOK
<1>10. AnswersAsPromised
  BY DEF AnswersAsPromised, RepliesOnce, NothingAfterRflush, FlushesInOrder
<1>11. QED
  BY <1>2, <1>3, <1>4, <1>5, <1>6, <1>7, <1>8, <1>9, <1>10 DEF IndInv

(* What each step of exportproc and of a slave keeps, together. *)
LEMMA ExportprocOK ==
  ASSUME IndInv, exportproc
  PROVE  IndInv'
<1>1. CASE \E q \in Reqs : ReadRequest(q) \/ \E f \in Flushes : ReadFlush(f, q)
  BY <1>1, ReadRequestOK, ReadFlushOK
<1>2. CASE AppendRequest
  <2>1. exq' = Append(exq, msg) \/ exq' = exq
    BY <1>2 DEF AppendRequest
  <2>2. QED
    BY <1>2, <2>1, AppendKeptOK, AppendLostOK
<1>3. CASE WakeSlave
  <2>1. CASE UNCHANGED spc
    BY <1>3, <2>1, WakeOldOK
  <2>2. CASE qwaitq = <<>> /\ Unmade # {} /\ Sto(CHOOSE s \in Unmade : TRUE, "none", "qlock")
    <3>1. (CHOOSE s \in Unmade : TRUE) \in Slaves
      BY <2>2 DEF Unmade
    <3>2. PICK s \in Slaves : Sto(s, "none", "qlock")
      BY <2>2, <3>1
    <3>3. QED
      BY <1>3, <2>2, <3>2, WakeNewOK
  <2>3. QED
    BY <1>3, <2>1, <2>2 DEF WakeSlave
<1>4. CASE FlushQueued
  BY <1>4, FlushFoundOK, FlushNotQueuedOK
<1>5. CASE FlushWorking
  BY <1>5, FlushGoneOK, FlushFinishedOK, FlushJoinsOK
<1>6. CASE ReplyFlush \/ HangUp \/ DropQueued \/ AbandonWork \/ ExporterLeaves
  BY <1>6, ReplyFlushOK, HangUpOK, DropQueuedOK, AbandonWorkOK, ExporterLeavesOK
<1>7. QED
  BY <1>1, <1>2, <1>3, <1>4, <1>5, <1>6 DEF exportproc

LEMMA ExslaveOK ==
  ASSUME IndInv, NEW s \in Slaves, exslave(s)
  PROVE  IndInv'
<1>1. CASE SlaveWait(s) \/ SlaveWake(s) \/ SlavePost(s) \/ \E e \in BOOLEAN : SlaveCall(s, e)
  BY <1>1, SlaveWaitOK, SlaveWakeOK, SlavePostOK, SlaveCallOK
<1>2. CASE SlaveTake(s)
  BY <1>2, SlaveTakeOK, SlaveTakeNoneOK
<1>3. CASE SlaveEnd(s) \/ SlaveReply(s) \/ SlaveRflush(s) \/ SlaveUnlink(s) \/ SlaveFree(s)
  BY <1>3, SlaveEndOK, SlaveReplyOK, SlaveRflushOK, SlaveUnlinkOK, SlaveFreeOK
<1>4. CASE SlaveFlushes(s)
  <2>1. CASE flush[job[s]] # <<>> /\ ~shut[job[s]]
    BY <1>4, <2>1, SlaveNextFlushOK
  <2>2. CASE flush[job[s]] = <<>> \/ shut[job[s]]
    BY <1>4, <2>2, SlaveFinishesOK
  <2>3. QED
    BY <2>1, <2>2
<1>5. QED
  BY <1>1, <1>2, <1>3, <1>4 DEF exslave

LEMMA UnchangedOK ==
  ASSUME IndInv, UNCHANGED vars
  PROVE  IndInv'
<1> USE DEF vars, queues, marks, export, slaves, qlocks
<1>1. ListsOK' /\ UNCHANGED <<queued, waiting, answered>>
  BY ListsSame DEF IndInv
<1>2. (PlacesOK /\ TypesOK /\ FlagsOK)'
  BY DEF IndInv, PlacesOK, TypesOK, FlagsOK
<1>3. (QueueOK /\ JobsOK /\ LockOK /\ MsgOK /\ OldtagOK)'
  BY <1>1 DEF IndInv, QueueOK, JobsOK, LockOK, MsgOK, OldtagOK
<1>4. (WorkOK /\ BusyOK /\ ShutOK /\ FinishedOK)'
  BY <1>1 DEF IndInv, WorkOK, BusyOK, ShutOK, FinishedOK, HeldAt
<1>5. (FlushesOK /\ FqOK /\ PendingOK /\ FreshOK)'
  BY <1>1 DEF IndInv, FlushesOK, FqOK, PendingOK, FreshOK, HeldAt, Unstarted
<1>6. (KilledOK /\ FoundOK /\ AnsweredOK /\ OrderOK)'
  BY <1>1 DEF IndInv, KilledOK, FoundOK, AnsweredOK, OrderOK, Closed, Unstarted
<1>7. (RefOK /\ AnswersAsPromised)'
  BY DEF IndInv, RefOK, AnswersAsPromised, RepliesOnce, NothingAfterRflush, FlushesInOrder
<1>8. QED
  BY <1>1, <1>2, <1>3, <1>4, <1>5, <1>6, <1>7 DEF IndInv
-----------------------------------------------------------------------------
(***************************************************************************)
(* Where every request is.  A stray request is nowhere else, and nobody    *)
(* moves it; each of the others is with exportproc, on exq or with a slave. *)
(***************************************************************************)
StrayOK ==
  /\ stray \subseteq live \cap Reqs
  /\ stray \cap queued = {}
  /\ epc = "append" => msg \notin stray
  /\ \A s \in Slaves : job[s] \notin stray

HomeOK ==
  \A q \in live \cap Reqs :
    \/ q \in queued \cup stray
    \/ epc = "append" /\ msg = q
    \/ \E s \in Slaves : job[s] = q

(* exq.tail was once appended; the list it ends is the one of exq.head      *)
(* until a flush has discarded the last request of several.                 *)
TailOK == tail \in asked \cup {None} /\ FreedOnlyThroughTail

StrayInv == StrayOK /\ HomeOK /\ TailOK

(* Unlinking another entry leaves the last one where it is. *)
LEMMA WithoutLast ==
  ASSUME NEW S, NEW q \in Seq(S), OnListOnce(q), NEW m \in InSeq(q),
         m # q[Len(q)]
  PROVE  Without(q, m) # <<>> /\ Without(q, m)[Len(Without(q, m))] = q[Len(q)]
<1> DEFINE k == CHOOSE j \in DOMAIN q : q[j] = m
           w == Without(q, m)
           a == SubSeq(q, 1, k - 1)
           b == SubSeq(q, k + 1, Len(q))
<1>1. k \in 1..Len(q) /\ q[k] = m /\ Len(q) \in Nat
  <2>1. \E j \in DOMAIN q : q[j] = m
    BY DEF InSeq
  <2>2. k \in DOMAIN q /\ q[k] = m
    BY <2>1
  <2>3. QED
    BY <2>2
<1>2. w = a \o b
  BY DEF Without
<1> HIDE DEF k, w
<1>3. k < Len(q)
  BY <1>1
<1>4. a \in Seq(S) /\ Len(a) = k - 1
  BY <1>1, SubSeqProperties
<1>5. /\ b \in Seq(S) /\ Len(b) = Len(q) - k
      /\ \A i \in 1..(Len(q) - k) : b[i] = q[i + k]
  BY <1>1, SubSeqProperties
<1> HIDE DEF a, b
<1>6. /\ Len(w) = Len(a) + Len(b)
      /\ \A i \in 1..(Len(a) + Len(b)) : w[i] = IF i <= Len(a) THEN a[i] ELSE b[i - Len(a)]
  BY <1>2, <1>4, <1>5, ConcatProperties
<1>7. Len(w) = Len(q) - 1 /\ Len(w) \in 1..(Len(a) + Len(b)) /\ ~(Len(w) <= Len(a))
      /\ Len(w) - Len(a) = Len(q) - k /\ Len(q) - k \in 1..(Len(q) - k)
  BY <1>1, <1>3, <1>4, <1>5, <1>6
<1>8. w[Len(w)] = b[Len(q) - k] /\ b[Len(q) - k] = q[Len(q)]
  <2>1. w[Len(w)] = b[Len(q) - k]
    BY <1>6, <1>7
  <2>2. b[Len(q) - k] = q[(Len(q) - k) + k] /\ (Len(q) - k) + k = Len(q)
    BY <1>1, <1>5, <1>7
  <2>3. QED
    BY <2>1, <2>2
<1>9. w # <<>>
  BY <1>1, <1>3, <1>7
<1>10. QED
  BY <1>8, <1>9 DEF w

(* A step that leaves exq, its tail, the requests and their holders alone.  *)
LEMMA StrayKept ==
  ASSUME IndInv, StrayInv, UNCHANGED <<exq, tail, stray, job>>,
         live' \cap Reqs = live \cap Reqs, live \ live' \subseteq Flushes,
         asked \subseteq asked', \A f \in asked \cap Flushes : oldtag'[f] = oldtag[f],
         (epc # "append" /\ epc' # "append") \/ UNCHANGED <<epc, msg>>
  PROVE  StrayInv'
<1>h. Reqs \cap Flushes = {} /\ None \notin Reqs
  BY ExportfsAssumption
<1>1. queued' = queued
  BY DEF queued, InSeq
<1>2. StrayOK'
  BY <1>1 DEF StrayInv, StrayOK
<1>3. HomeOK'
  BY <1>1 DEF StrayInv, HomeOK
<1>4. tail' \in asked' \cup {None} /\ TailStale' = TailStale
  BY DEF StrayInv, TailOK, TailStale
<1>5. ASSUME TailStale
      PROVE  \/ tail \in stray
             \/ tail \notin live' /\ \E f \in asked' \cap Flushes : oldtag'[f] = tail
  <2>1. CASE tail \in stray
    BY <2>1
  <2>2. CASE tail \notin live /\ \E f \in asked \cap Flushes : oldtag[f] = tail
    <3>1. PICK f \in asked \cap Flushes : oldtag[f] = tail
      BY <2>2
    <3>2. tail \in Reqs
      BY <3>1 DEF IndInv, OldtagOK
    <3>3. tail \notin live'
      BY <2>2, <3>2
    <3>4. QED
      BY <3>1, <3>3
  <2>3. QED
    BY <1>5, <2>1, <2>2 DEF StrayInv, TailOK, FreedOnlyThroughTail
<1>6. ASSUME stray # {}
      PROVE  \E f \in asked' \cap Flushes : oldtag'[f] \notin live'
  <2>1. PICK f \in asked \cap Flushes : oldtag[f] \notin live
    BY <1>6 DEF StrayInv, TailOK, FreedOnlyThroughTail
  <2>2. oldtag[f] \in Reqs
    BY DEF IndInv, OldtagOK
  <2>3. oldtag[f] \notin live' /\ oldtag'[f] = oldtag[f]
    BY <2>1, <2>2
  <2>4. QED
    BY <2>3
<1>7. TailOK'
  BY <1>4, <1>5, <1>6 DEF TailOK, FreedOnlyThroughTail
<1>8. QED
  BY <1>2, <1>3, <1>7 DEF StrayInv

(* exportproc reads a request. *)
LEMMA StrayReadRequest ==
  ASSUME IndInv, StrayInv, NEW r \in Reqs, ReadRequest(r)
  PROVE  StrayInv'
<1> USE DEF ReadRequest, Eto, IsNext, queues
<1>h. r \notin asked /\ live \subseteq asked /\ r \notin live
  BY DEF IndInv, TypesOK
<1>1. queued' = queued
  BY DEF queued, InSeq
<1>2. StrayOK'
  <2>1. \A s \in Slaves : job'[s] \notin stray'
    BY DEF StrayInv, StrayOK, slaves
  <2>2. QED
    BY <1>h, <1>1, <2>1 DEF StrayInv, StrayOK
<1>3. HomeOK'
  BY <1>1 DEF StrayInv, HomeOK, slaves
<1>4. tail' \in asked' \cup {None} /\ TailStale' = TailStale
  BY DEF StrayInv, TailOK, TailStale
<1>5. \A f \in asked \cap Flushes : oldtag[f] \in asked /\ f \in asked'
  BY DEF IndInv, OldtagOK
<1>6. TailOK'
  BY <1>h, <1>4, <1>5 DEF StrayInv, TailOK, FreedOnlyThroughTail
<1>7. QED
  BY <1>2, <1>3, <1>6 DEF StrayInv

(* exportproc appends it, to exq or to the requests gone astray. *)
LEMMA StrayAppend ==
  ASSUME IndInv, StrayInv, AppendRequest
  PROVE  StrayInv'
<1> USE DEF AppendRequest, Eto
<1>h. msg \in live \cap Reqs /\ msg \notin queued /\ \A s \in Slaves : job[s] # msg
  BY DEF IndInv, MsgOK
<1>x. exq \in Seq(Reqs) /\ live \subseteq asked
  BY DEF IndInv, ListsOK, TypesOK
<1>1. CASE TailStale
  <2>1. queued' = queued /\ stray' = stray \cup {msg} /\ tail' = msg
    BY <1>1 DEF queued, InSeq
  <2>2. StrayOK'
    BY <1>h, <2>1 DEF StrayInv, StrayOK, slaves
  <2>3. HomeOK'
    BY <1>h, <2>1 DEF StrayInv, HomeOK, slaves
  <2>4. \E f \in asked \cap Flushes : oldtag[f] \notin live
    BY <1>1 DEF StrayInv, TailOK, FreedOnlyThroughTail
  <2>5. TailOK'
    BY <1>h, <1>x, <2>1, <2>4 DEF TailOK, FreedOnlyThroughTail
  <2>6. QED
    BY <2>2, <2>3, <2>5 DEF StrayInv
<1>2. CASE ~TailStale
  <2>1. queued' = queued \cup {msg} /\ stray' = stray /\ tail' = msg
    <3>1. exq' = Append(exq, msg)
      BY <1>2
    <3>2. QED
      BY <1>2, <1>h, <1>x, <3>1, AppendMembers DEF queued, IndInv, ListsOK
  <2>2. StrayOK'
    BY <1>h, <2>1 DEF StrayInv, StrayOK, slaves
  <2>3. HomeOK'
    BY <1>h, <2>1 DEF StrayInv, HomeOK, slaves
  <2>4. ~TailStale'
    <3>1. exq' = Append(exq, msg) /\ Len(exq') = Len(exq) + 1 /\ exq'[Len(exq) + 1] = msg
      BY <1>2, <1>h, <1>x
    <3>2. QED
      BY <2>1, <3>1 DEF TailStale
  <2>5. TailOK'
    BY <1>h, <1>x, <2>1, <2>4 DEF StrayInv, TailOK, FreedOnlyThroughTail
  <2>6. QED
    BY <2>2, <2>3, <2>5 DEF StrayInv
<1>3. QED
  BY <1>1, <1>2

(* exflushed discards a queued request. *)
LEMMA StrayFlush ==
  ASSUME IndInv, StrayInv, FlushQueued, oldtag[msg] \in queued
  PROVE  StrayInv'
<1> DEFINE r == oldtag[msg]
<1>1. exq' = Without(exq, r) /\ live' = live \ {r} /\ UNCHANGED <<tail, stray, job, asked, oldtag, msg>>
  BY DEF FlushQueued, Free, queued, slaves
<1>2. epc = "flush_exq" /\ epc' = "rflush"
  BY DEF FlushQueued, queued
<1>3. exq \in Seq(Reqs) /\ OnListOnce(exq) /\ r \in InSeq(exq)
  BY DEF IndInv, ListsOK, queued
<1>4. queued' = queued \ {r}
  BY <1>1, <1>3, WithoutMembers DEF queued
<1>5. msg \in asked \cap Flushes
  BY <1>2 DEF IndInv, MsgOK, Flushing, TypesOK
<1>6. r \notin stray /\ \A s \in Slaves : job[s] # r
  <2>1. r \notin stray
    BY DEF StrayInv, StrayOK
  <2>2. r # None
    BY <1>3, ListTypes, ExportfsAssumption DEF IndInv
  <2>3. QED
    BY <2>1, <2>2 DEF IndInv, JobsOK
<1> HIDE DEF r
<1>7. StrayOK'
  BY <1>1, <1>2, <1>4, <1>6 DEF StrayInv, StrayOK
<1>8. HomeOK'
  BY <1>1, <1>2, <1>4 DEF StrayInv, HomeOK
<1>9. TailStale' => TailStale \/ tail = r
  <2>1. ASSUME ~TailStale, tail # r PROVE ~TailStale'
    <3>1. exq # <<>> /\ exq[Len(exq)] = tail
      BY <1>3, <2>1 DEF TailStale, InSeq
    <3>2. exq'[Len(exq')] = exq[Len(exq)]
      BY <1>1, <1>3, <2>1, <3>1, WithoutLast
    <3>3. QED
      BY <1>1, <3>1, <3>2 DEF TailStale
  <2>2. QED
    BY <2>1
<1>10. FreedOnlyThroughTail'
  <2>1. ASSUME TailStale'
        PROVE  \/ tail \in stray
               \/ tail \notin live' /\ \E f \in asked \cap Flushes : oldtag[f] = tail
    <3>1. CASE TailStale
      BY <1>1, <3>1 DEF StrayInv, TailOK, FreedOnlyThroughTail
    <3>2. CASE tail = r
      BY <1>1, <1>5, <3>2 DEF r
    <3>3. QED
      BY <1>9, <2>1, <3>1, <3>2
  <2>2. stray # {} => \E f \in asked \cap Flushes : oldtag[f] \notin live'
    BY <1>1 DEF StrayInv, TailOK, FreedOnlyThroughTail
  <2>3. QED
    BY <1>1, <2>1, <2>2 DEF FreedOnlyThroughTail
<1>11. QED
  BY <1>1, <1>7, <1>8, <1>10 DEF StrayInv, TailOK

(* exshutdown discards all that is queued. *)
LEMMA StrayDrop ==
  ASSUME IndInv, StrayInv, DropQueued
  PROVE  StrayInv'
<1>1. exq' = <<>> /\ live' = live \ queued /\ UNCHANGED <<tail, stray, job, asked, oldtag>>
  BY DEF DropQueued, Free, queued, slaves
<1>2. epc = "shut_exq" /\ epc' = "shut_work" /\ queued' = {}
  BY <1>1 DEF DropQueued, Eto, queued, InSeq
<1>3. StrayOK'
  BY <1>1, <1>2 DEF StrayInv, StrayOK
<1>4. HomeOK'
  BY <1>1, <1>2 DEF StrayInv, HomeOK
<1>5. ~TailStale'
  BY <1>1 DEF TailStale
<1>6. TailOK'
  BY <1>1, <1>5 DEF StrayInv, TailOK, FreedOnlyThroughTail
<1>7. QED
  BY <1>3, <1>4, <1>6 DEF StrayInv

(* A slave takes the first request of exq. *)
LEMMA StrayTake ==
  ASSUME IndInv, StrayInv, NEW s \in Slaves, SlaveTake(s), exq # <<>>
  PROVE  StrayInv'
<1>1. /\ spc[s] = "take" /\ exq' = Tail(exq) /\ job' = [job EXCEPT ![s] = Head(exq)]
      /\ UNCHANGED <<tail, stray, live, asked, oldtag, epc, msg>>
  BY DEF SlaveTake, export
<1>2. exq \in Seq(Reqs) /\ OnListOnce(exq) /\ job \in [Slaves -> Reqs \cup {None}]
  BY DEF IndInv, ListsOK, TypesOK
<1>3. queued' = queued \ {Head(exq)} /\ Head(exq) \in queued
  BY <1>1, <1>2, TailMembers DEF queued
<1>4. job[s] = None
  BY <1>1 DEF IndInv, JobsOK, HasJob, Closing
<1>5. StrayOK'
  BY <1>1, <1>2, <1>3 DEF StrayInv, StrayOK
<1>6. HomeOK'
  <2>1. SUFFICES ASSUME NEW q \in live \cap Reqs
                 PROVE  \/ q \in queued' \cup stray
                        \/ epc = "append" /\ msg = q
                        \/ \E t \in Slaves : job'[t] = q
    BY <1>1 DEF HomeOK
  <2>2. CASE q = Head(exq)
    BY <1>1, <1>2, <2>2
  <2>3. CASE q # Head(exq) /\ \E t \in Slaves : job[t] = q
    BY <1>1, <1>2, <1>4, <2>3, ExportfsAssumption
  <2>4. QED
    BY <1>3, <2>2, <2>3 DEF StrayInv, HomeOK
<1>7. TailStale' => TailStale
  <2>1. ASSUME Tail(exq) # <<>> PROVE Tail(exq)[Len(Tail(exq))] = exq[Len(exq)]
    <3>1. Len(Tail(exq)) = Len(exq) - 1 /\ Len(exq) \in Nat \ {0} /\ Tail(exq) \in Seq(Reqs)
      BY <1>2
    <3>2. Len(exq) - 1 \in 1..Len(Tail(exq))
      BY <2>1, <3>1
    <3>3. \A i \in 1..Len(Tail(exq)) : Tail(exq)[i] = exq[i + 1]
      BY <1>2
    <3>4. Tail(exq)[Len(exq) - 1] = exq[(Len(exq) - 1) + 1] /\ (Len(exq) - 1) + 1 = Len(exq)
      BY <3>1, <3>2, <3>3
    <3>5. QED
      BY <3>1, <3>4
  <2>2. QED
    BY <1>1, <2>1 DEF TailStale
<1>8. TailOK'
  BY <1>1, <1>7 DEF StrayInv, TailOK, FreedOnlyThroughTail
<1>9. QED
  BY <1>5, <1>6, <1>8 DEF StrayInv

(* A slave frees its request and the flushes left with it. *)
LEMMA StrayFree ==
  ASSUME IndInv, StrayInv, NEW s \in Slaves, SlaveFree(s)
  PROVE  StrayInv'
<1>h. Reqs \cap Flushes = {} /\ None \notin Reqs
  BY ExportfsAssumption
<1>1. /\ live' = live \ ({job[s]} \cup InSeq(flush[job[s]])) /\ job' = [job EXCEPT ![s] = None]
      /\ spc[s] = "free" /\ UNCHANGED <<exq, tail, stray, asked, oldtag, epc, msg>>
  BY DEF SlaveFree, Free, Sto, export
<1>2. job[s] \in Reqs /\ job \in [Slaves -> Reqs \cup {None}]
  BY <1>1 DEF IndInv, JobsOK, HasJob, Closing, TypesOK
<1>3. InSeq(flush[job[s]]) \subseteq Flushes
  BY <1>2, MembersOf DEF IndInv, ListsOK
<1>4. queued' = queued
  BY <1>1 DEF queued, InSeq
<1>5. StrayOK'
  BY <1>h, <1>1, <1>2, <1>3, <1>4 DEF StrayInv, StrayOK
<1>6. HomeOK'
  <2>1. SUFFICES ASSUME NEW q \in live' \cap Reqs
                 PROVE  \/ q \in queued \cup stray
                        \/ epc = "append" /\ msg = q
                        \/ \E t \in Slaves : job'[t] = q
    BY <1>1, <1>4 DEF HomeOK
  <2>2. q \in live /\ q # job[s]
    BY <1>1
  <2>3. ASSUME NEW t \in Slaves, job[t] = q PROVE job'[t] = q
    BY <1>1, <1>2, <2>2, <2>3
  <2>4. QED
    BY <2>2, <2>3 DEF StrayInv, HomeOK
<1>7. TailStale' = TailStale
  BY <1>1 DEF TailStale
<1>8. TailOK'
  BY <1>1, <1>7 DEF StrayInv, TailOK, FreedOnlyThroughTail
<1>9. QED
  BY <1>5, <1>6, <1>8 DEF StrayInv

(* The other steps of exportproc and of a slave. *)
LEMMA StrayExportproc ==
  ASSUME IndInv, StrayInv, exportproc
  PROVE  StrayInv'
<1>h. Reqs \cap Flushes = {}
  BY ExportfsAssumption
<1>1. CASE \E q \in Reqs : ReadRequest(q)
  BY <1>1, StrayReadRequest
<1>2. CASE \E q \in Reqs, f \in Flushes : ReadFlush(f, q)
  <2>1. PICK q \in Reqs, f \in Flushes : ReadFlush(f, q)
    BY <1>2
  <2>2. /\ UNCHANGED <<exq, tail, stray, job>> /\ live' = live \cup {f} /\ asked' = asked \cup {f}
        /\ f \notin asked /\ oldtag' = [oldtag EXCEPT ![f] = q] /\ epc = "read" /\ epc' = "flush_exq"
    BY <2>1 DEF ReadFlush, Eto, IsNext, queues, slaves
  <2>3. \A g \in asked \cap Flushes : oldtag'[g] = oldtag[g]
    BY <2>2 DEF IndInv, TypesOK
  <2>4. QED
    BY <1>h, <2>2, <2>3, StrayKept
<1>3. CASE AppendRequest
  BY <1>3, StrayAppend
<1>4. CASE FlushQueued
  <2>1. CASE oldtag[msg] \in queued
    BY <1>4, <2>1, StrayFlush
  <2>2. CASE oldtag[msg] \notin queued
    <3>1. UNCHANGED <<exq, tail, stray, job, live, asked, oldtag>> /\ epc = "flush_exq" /\ epc' = "flush_work"
      BY <1>4, <2>2 DEF FlushQueued, queued, slaves
    <3>2. QED
      BY <3>1, StrayKept
  <2>3. QED
    BY <2>1, <2>2
<1>5. CASE DropQueued
  BY <1>5, StrayDrop
<1>6. CASE ReplyFlush
  <2>1. UNCHANGED <<exq, tail, stray, job, asked, oldtag>> /\ live' = live \ {msg} /\ epc = "rflush" /\ epc' = "read"
    BY <1>6 DEF ReplyFlush, Eto, Free, queues, slaves
  <2>2. msg \in Flushes
    BY <2>1 DEF IndInv, MsgOK, Flushing
  <2>3. QED
    BY <1>h, <2>1, <2>2, StrayKept
<1>7. CASE WakeSlave \/ HangUp \/ AbandonWork \/ ExporterLeaves \/ FlushWorking
  <2>1. UNCHANGED <<exq, tail, stray, job, live, asked, oldtag>> /\ epc # "append" /\ epc' # "append"
    <3>1. CASE WakeSlave \/ HangUp
      BY <3>1 DEF WakeSlave, HangUp, Eto, queues, slaves
    <3>2. CASE AbandonWork \/ ExporterLeaves
      BY <3>2 DEF AbandonWork, ExporterLeaves, Eto, queues, slaves
    <3>3. CASE FlushWorking
      BY <3>3 DEF FlushWorking, slaves
    <3>4. QED
      BY <1>7, <3>1, <3>2, <3>3
  <2>2. QED
    BY <2>1, StrayKept
<1>8. QED
  BY <1>1, <1>2, <1>3, <1>4, <1>5, <1>6, <1>7 DEF exportproc

LEMMA StrayExslave ==
  ASSUME IndInv, StrayInv, NEW s \in Slaves, exslave(s)
  PROVE  StrayInv'
<1>1. CASE SlaveTake(s) /\ exq # <<>>
  BY <1>1, StrayTake
<1>2. CASE SlaveFree(s)
  BY <1>2, StrayFree
<1>3. CASE SlaveRflush(s)
  <2>1. live' = live \ {fq[s]} /\ spc[s] = "rflush"
        /\ UNCHANGED <<exq, tail, stray, job, asked, oldtag, epc, msg>>
    BY <1>3 DEF SlaveRflush, Sto, Free, queues, export
  <2>2. fq[s] \in Flushes
    BY <2>1 DEF IndInv, FqOK, TypesOK
  <2>3. Reqs \cap Flushes = {}
    BY ExportfsAssumption
  <2>4. QED
    BY <2>1, <2>2, <2>3, StrayKept
<1>4. CASE \/ SlaveWait(s) \/ SlaveWake(s) \/ SlavePost(s) \/ (\E e \in BOOLEAN : SlaveCall(s, e))
           \/ SlaveTake(s) /\ exq = <<>>
  <2>1. UNCHANGED <<exq, tail, stray, job, live, asked, oldtag, epc, msg>>
    BY <1>4 DEF SlaveWait, SlaveWake, SlavePost, SlaveCall, SlaveTake, queues, export
  <2>2. QED
    BY <2>1, StrayKept
<1>5. CASE SlaveEnd(s) \/ SlaveReply(s) \/ SlaveFlushes(s) \/ SlaveUnlink(s)
  <2>1. UNCHANGED <<exq, tail, stray, job, live, asked, oldtag, epc, msg>>
    BY <1>5 DEF SlaveEnd, SlaveReply, SlaveFlushes, SlaveUnlink, queues, export
  <2>2. QED
    BY <2>1, StrayKept
<1>6. QED
  BY <1>1, <1>2, <1>3, <1>4, <1>5 DEF exslave
-----------------------------------------------------------------------------
(***************************************************************************)
(* The invariant of the export holds in every reachable state: a request   *)
(* is queued, with one slave or gone, and a Tflush is with exportproc, on  *)
(* the flush queue of the request it names or with that request's slave.   *)
(***************************************************************************)
THEOREM Invariance == Spec => []IndInv
<1>1. Init => IndInv
  BY InitOK
<1>2. IndInv /\ [Next]_vars => IndInv'
  BY ExportprocOK, ExslaveOK, UnchangedOK DEF Next
<1>3. QED
  BY <1>1, <1>2, PTL DEF Spec

(***************************************************************************)
(* Every request that exists is with exportproc, on exq, with a slave or   *)
(* astray, and exq.tail is the end of exq unless a flush discarded it.     *)
(***************************************************************************)
THEOREM RequestsPlaced == Spec => []StrayInv
<1>1. Init => StrayInv
  BY DEF Init, StrayInv, StrayOK, HomeOK, TailOK, FreedOnlyThroughTail, TailStale, queued, InSeq
<1>2. IndInv /\ StrayInv /\ [Next]_vars => StrayInv'
  <2> SUFFICES ASSUME IndInv, StrayInv, [Next]_vars PROVE StrayInv'
    OBVIOUS
  <2>1. CASE UNCHANGED vars
    <3>1. UNCHANGED <<exq, tail, stray, job, live, asked, oldtag, epc, msg>>
      BY <2>1 DEF vars, queues, export, slaves
    <3>2. QED
      BY <3>1, StrayKept
  <2>2. QED
    BY <2>1, StrayExportproc, StrayExslave DEF Next
<1>3. QED
  BY <1>1, <1>2, Invariance, PTL DEF Spec

(***************************************************************************)
(* fs->r counts exactly the messages that exist and exportproc; each of    *)
(* them is with exportproc, on exq, with a slave, on a flush queue or      *)
(* astray, so that nothing that exportfs.c reaches from these was freed.   *)
(* exq.tail alone may be freed, after exflushed has discarded the last of  *)
(* several queued requests, and only then does a request go astray.        *)
(***************************************************************************)
THEOREM ReferencesAreExact == Spec => []ReferencesExact
<1>1. IndInv /\ StrayInv => ReferencesExact
  <2> SUFFICES ASSUME IndInv, StrayInv PROVE ReferencesExact
    OBVIOUS
  <2>h. Reqs \cap Flushes = {} /\ None \notin Reqs \cup Flushes
    BY ExportfsAssumption
  <2>1. Cardinality(live) \in Nat
    BY FS_CardinalityType DEF IndInv, RefOK
  <2>2. ref \in Nat /\ ref = Cardinality(live) + (IF epc = "done" THEN 0 ELSE 1)
    BY <2>1 DEF IndInv, RefOK
  <2>3. live \subseteq Msgs /\ killed \in [Slaves -> BOOLEAN] /\ {busy, finished, shut} \subseteq [Reqs -> BOOLEAN]
    BY DEF IndInv, TypesOK, FlagsOK
  <2>4. TypeOK
    BY <2>2, <2>3 DEF IndInv, TypesOK, ListsOK, TypeOK, StrayInv, StrayOK
  <2>5. AtExporter \subseteq live
    BY DEF AtExporter, IndInv, MsgOK, Flushing
  <2>6. AtSlaves \subseteq live
    <3>1. \A s \in Slaves : job[s] # None => job[s] \in live
      BY DEF IndInv, JobsOK
    <3>2. \A s \in Slaves : fq[s] # None => fq[s] \in live
      BY DEF IndInv, FqOK
    <3>3. QED
      BY <3>1, <3>2 DEF AtSlaves
  <2>7. Pending \subseteq live
    <3>1. \A q \in Reqs : waiting[q] = InSeq(flush[q]) /\ waiting[q] \subseteq live
      BY DEF IndInv, FlushesOK, waiting
    <3>2. QED
      BY <3>1 DEF Pending
  <2>8. InSeq(exq) \cup stray \subseteq live
    BY DEF IndInv, QueueOK, queued, StrayInv, StrayOK
  <2>9. ASSUME NEW q \in live \cap Reqs
        PROVE  q \in AtExporter \cup InSeq(exq) \cup AtSlaves \cup stray
    <3>1. CASE \E s \in Slaves : job[s] = q
      BY <2>h, <3>1 DEF AtSlaves
    <3>2. CASE epc = "append" /\ msg = q
      BY <3>2 DEF AtExporter
    <3>3. QED
      BY <3>1, <3>2 DEF StrayInv, HomeOK, queued
  <2>10. ASSUME NEW f \in live \cap Flushes
         PROVE  f \in AtExporter \cup AtSlaves \cup Pending
    <3>1. CASE epc \in Flushing /\ msg = f
      BY <3>1 DEF AtExporter, Flushing
    <3>2. CASE f \in waiting[oldtag[f]]
      <4>1. oldtag[f] \in Reqs
        BY DEF IndInv, TypesOK, OldtagOK
      <4>2. QED
        BY <3>2, <4>1 DEF Pending, waiting
    <3>3. CASE \E s \in Slaves : fq[s] = f
      BY <2>h, <3>3 DEF AtSlaves
    <3>4. QED
      BY <3>1, <3>2, <3>3 DEF IndInv, PendingOK
  <2>11. live = AtExporter \cup InSeq(exq) \cup AtSlaves \cup Pending \cup stray
    BY <2>3, <2>5, <2>6, <2>7, <2>8, <2>9, <2>10 DEF Msgs
  <2>12. work \subseteq {job[s] : s \in Slaves}
    BY DEF IndInv, WorkOK, HeldAt
  <2>13. stray \cap (AtExporter \cup InSeq(exq) \cup AtSlaves) = {}
    <3>1. stray \cap AtExporter = {}
      BY <2>h DEF AtExporter, StrayInv, StrayOK, IndInv, MsgOK, Flushing
    <3>2. stray \cap AtSlaves = {}
      BY <2>h DEF AtSlaves, StrayInv, StrayOK, IndInv, TypesOK
    <3>3. QED
      BY <3>1, <3>2 DEF StrayInv, StrayOK, queued
  <2>14. EveryMessagePlaced
    BY <2>2, <2>11, <2>12, <2>13 DEF EveryMessagePlaced
  <2>15. QED
    BY <2>4, <2>14 DEF ReferencesExact, StrayInv, TailOK
<1>2. QED
  BY <1>1, Invariance, RequestsPlaced, PTL

(***************************************************************************)
(* However many slaves work and however the client's flushes race with     *)
(* them: no message is answered twice, no request after an Rflush of it,   *)
(* and the Rflushes of one request come in the order of its Tflushes.      *)
(***************************************************************************)
THEOREM AnswersKept == Spec => []AnswersAsPromised
<1>1. IndInv => AnswersAsPromised
  BY DEF IndInv
<1>2. QED
  BY <1>1, Invariance, PTL

(***************************************************************************)
(* The interrupt of exflushed or of exshutdown reaches the slave of the    *)
(* request that is flushed or abandoned, and the slave does not take it to *)
(* its next request.                                                       *)
(***************************************************************************)
THEOREM InterruptsHit == Spec => []InterruptHitsItsRequest
<1>1. IndInv => InterruptHitsItsRequest
  <2> SUFFICES ASSUME IndInv, NEW s \in Slaves, killed[s]
               PROVE  job[s] # None /\ (flush[job[s]] # <<>> \/ shut[job[s]])
    BY DEF InterruptHitsItsRequest
  <2>1. job[s] \in Reqs
    BY DEF IndInv, KilledOK, JobsOK
  <2>2. shut[job[s]] \/ waiting[job[s]] # {}
    BY DEF IndInv, KilledOK
  <2>3. waiting[job[s]] # {} => flush[job[s]] # <<>>
    <3>1. flush[job[s]] \in Seq(Flushes) /\ waiting[job[s]] = InSeq(flush[job[s]])
      BY <2>1 DEF IndInv, ListsOK, waiting
    <3>2. QED
      BY <3>1, MembersOf
  <2>4. QED
    BY <2>1, <2>2, <2>3, ExportfsAssumption
<1>2. QED
  BY <1>1, Invariance, PTL
=============================================================================
