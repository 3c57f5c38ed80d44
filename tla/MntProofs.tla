----------------------------- MODULE MntProofs -----------------------------
(***************************************************************************)
(* Proofs about Mnt, for any processes, tags, calls and interrupts: the    *)
(* headers of rpcs are where they should be, a call returns the answer to  *)
(* its own request, a tag is not used again while a reply to it may come,  *)
(* and an answer that has come is kept.                                    *)
(***************************************************************************)
EXTENDS Mnt, SequenceTheorems, WellFoundedInduction, TLAPS

(* The members of a list, and that none is in it twice. *)
Members(s) == {s[i] : i \in 1..Len(s)}
Distinct(s) == \A i, j \in 1..Len(s) : s[i] = s[j] => i = j

(* The headers that are allocated belong to a call: own says to whose, and  *)
(* dep how far a header is from the original request along the chain of     *)
(* flushes that mountio and mntflushalloc build.                            *)
done == {t \in Tags : rpc[t].done}
waiting == Members(queue)
spare == Members(rpcfree)
Busy(p) == pc[p] # "idle"

(* A call that fails with the connection: all it can still do is return. *)
Doomed(p) ==
  err[p] = "fail" \/ (hungup /\ pc[p] \in {"write", "handler", "flush"})

Replies == [tag : Tags, of : Calls \cup {Rflush}]
Requests == [tag : Tags, call : Calls \cup {None}, oldtag : Tags \cup {None}]
TypesOK ==
  /\ queue \in Seq(Tags) /\ rpcfree \in Seq(Tags) /\ tagmask \subseteq Tags
  /\ rip \in Procs \cup {None}
  /\ rpc \in [Tags -> Header]
  /\ pc \in [Procs -> Labels] /\ killed \in [Procs -> BOOLEAN]
  /\ orig \in [Procs -> Tags \cup {None}] /\ cur \in [Procs -> Tags \cup {None}]
  /\ late \in [Procs -> Tags \cup {None}] /\ err \in [Procs -> {None, "Eintr", "fail"}]
  /\ todo \in [Procs -> Seq(Calls)] /\ interrupts \in 0..MaxInterrupts /\ hungup \in BOOLEAN
  /\ replies \in Seq(Replies)
  /\ owed \in Seq(Requests)

(* Where a process is, and what it knows there. *)
PlaceOK(p) ==
  /\ pc[p] = "idle" <=> cur[p] = None
  /\ pc[p] = "idle" <=> orig[p] = None
  /\ Reading(p) => rip = p
  /\ rip = p => Reading(p) \/ pc[p] = "handler"
  /\ pc[p] \in {"read", "mux", "muxwake"} => cur[p] \notin done
  /\ pc[p] \in {"gated", "free", "return"} => cur[p] \in done
  /\ pc[p] = "return" => cur[p] = orig[p]
  /\ pc[p] = "free" => cur[p] # orig[p]
  /\ pc[p] = "muxwake" => late[p] # None
  /\ err[p] = "fail" => hungup /\ pc[p] \in {"handler", "chain", "qrm", "free", "return"}
  /\ err[p] = "Eintr" => pc[p] \in {"handler", "flush"}
  /\ pc[p] = "handler" => err[p] # None
PlacesOK == \A p \in Procs : PlaceOK(p)

(* Each header is free or in one chain, and the chains are as deep as the   *)
(* calls were interrupted.                                                  *)
TagsOK(own) ==
  /\ Distinct(rpcfree)
  /\ spare \subseteq tagmask
  /\ \A t \in Tags : own[t] # None <=> t \in tagmask /\ t \notin spare
  /\ \A p \in Procs : Busy(p) => own[cur[p]] = p /\ own[orig[p]] = p
  /\ \A t \in Tags : own[t] # None => Busy(own[t])

ChainsOK(own, dep) ==
  /\ \A t \in Tags : own[t] # None =>
       /\ dep[t] <= dep[cur[own[t]]]
       /\ dep[t] = 0 <=> t = orig[own[t]]
       /\ t = orig[own[t]] => rpc[t].flushed = None /\ rpc[t].oldtag = None /\ rpc[t].call \in Calls
       /\ t # orig[own[t]] =>
            /\ rpc[t].flushed \in Tags /\ own[rpc[t].flushed] = own[t]
            /\ dep[t] = dep[rpc[t].flushed] + 1
            /\ rpc[t].oldtag = orig[own[t]]
  /\ \A t, u \in Tags : own[t] # None /\ own[t] = own[u] /\ dep[t] = dep[u] => t = u

(* The queue is what is allocated and has no answer. *)
QueueOK(own) ==
  /\ Distinct(queue)
  /\ \A t \in Tags : t \in waiting <=> own[t] # None /\ t \notin done

(* What is under way for the calls that are not doomed: the messages that   *)
(* the server owes an answer to, its replies, and the reply that the reader *)
(* has in its hands.                                                        *)
Live(own, t) == own[t] # None /\ ~Doomed(own[t])
held == {rpc[cur[p]].reply : p \in {q \in Procs : pc[q] = "mux"}}
flight == {owed[n].tag : n \in 1..Len(owed)} \cup {replies[n].tag : n \in 1..Len(replies)}
          \cup {r.tag : r \in held}

Genuine(own, r) ==
  /\ ~hungup => own[r.tag] # None
  /\ Live(own, r.tag) => r.of \in {rpc[r.tag].call, Rflush}

FlightOK(own) ==
  /\ hungup => owed = <<>>
  /\ \A n \in 1..Len(owed) : own[owed[n].tag] # None /\ owed[n] = Message(owed[n].tag)
  /\ \A n \in 1..Len(replies) : Genuine(own, replies[n])
  /\ \A r \in held : r \in Replies /\ Genuine(own, r)

(* Those of one call are in the order of its chain. *)
Rises(own, dep, t, u) == Live(own, t) /\ own[t] = own[u] => dep[t] < dep[u]
OrderOK(own, dep) ==
  /\ \A n, k \in 1..Len(owed) : n < k => Rises(own, dep, owed[n].tag, owed[k].tag)
  /\ \A n, k \in 1..Len(replies) : n < k => Rises(own, dep, replies[n].tag, replies[k].tag)
  /\ \A n \in 1..Len(replies), k \in 1..Len(owed) : Rises(own, dep, replies[n].tag, owed[k].tag)
  /\ \A r \in held, n \in 1..Len(replies) : Rises(own, dep, r.tag, replies[n].tag)
  /\ \A r \in held, k \in 1..Len(owed) : Rises(own, dep, r.tag, owed[k].tag)

(* Nothing is under way for a request that has not been sent, for one with  *)
(* an answer and all before it, and for a call that has been answered.      *)
Settled == {"chain", "qrm", "free", "return"}
SettledOK(own, dep) ==
  /\ \A p \in Procs : pc[p] = "write" /\ ~Doomed(p) => cur[p] \notin flight \cup done
  /\ \A t \in done, u \in Tags :
       Live(own, t) /\ own[u] = own[t] /\ dep[u] <= dep[t] => u \notin flight
  /\ \A u \in Tags : Live(own, u) /\ pc[own[u]] \in Settled => u \notin flight

AnswersOK ==
  \A p \in Procs : Busy(p) /\ ~Doomed(p) /\ orig[p] \in done =>
    rpc[orig[p]].reply.of \in {rpc[orig[p]].call, Rflush}

Owners == [Tags -> Procs \cup {None}]
Depths == [Tags -> Nat]
CallInv(own, dep) ==
  /\ TypesOK /\ PlacesOK /\ TagsOK(own) /\ ChainsOK(own, dep) /\ QueueOK(own)
  /\ FlightOK(own) /\ OrderOK(own, dep) /\ SettledOK(own, dep) /\ AnswersOK
IndInv == \E own \in Owners, dep \in Depths : CallInv(own, dep)
----------------------------------------------------------------------------
(* Lists: a member is put at the front or the end, or is taken out. *)
(* Every set of numbers that is not empty has a least one. *)
LEMMA Least ==
  ASSUME NEW S, S \subseteq Nat, S # {}
  PROVE  Min(S) \in S /\ \A y \in S : Min(S) <= y
<1>1. PICK x \in S : \A y \in S : ~ (<<y, x>> \in OpToRel(<, Nat))
  BY NatLessThanWellFounded, WFMin
<1>2. \A y \in S : ~ (y < x)
  BY <1>1 DEF OpToRel
<1>3. \A y \in S : x <= y
  BY <1>2
<1>4. QED
  BY <1>3 DEF Min

LEMMA PutFirst ==
  ASSUME NEW S, NEW s \in Seq(S), NEW x \in S
  PROVE  /\ <<x>> \o s \in Seq(S)
         /\ Members(<<x>> \o s) = Members(s) \cup {x}
         /\ Distinct(s) /\ x \notin Members(s) => Distinct(<<x>> \o s)
<1> DEFINE w == <<x>> \o s
<1>1. /\ w \in Seq(S) /\ Len(w) = Len(s) + 1 /\ Len(s) \in Nat /\ w[1] = x
      /\ \A i \in 1..Len(s) : w[i + 1] = s[i]
      /\ \A i \in 2..Len(w) : w[i] = s[i - 1]
  <2>1. <<x>> \in Seq(S) /\ Len(<<x>>) = 1 /\ <<x>>[1] = x /\ Len(s) \in Nat
    OBVIOUS
  <2>2. /\ w \in Seq(S) /\ Len(w) = 1 + Len(s)
        /\ \A i \in 1..(1 + Len(s)) : w[i] = IF i <= 1 THEN <<x>>[i] ELSE s[i - 1]
    BY <2>1, ConcatProperties
  <2> HIDE DEF w
  <2>3. QED
    BY <2>1, <2>2
<1> HIDE DEF w
<1>2. Members(w) = Members(s) \cup {x}
  <2>1. ASSUME NEW y \in Members(w) PROVE y \in Members(s) \cup {x}
    <3>1. PICK i \in 1..Len(w) : y = w[i]
      BY DEF Members
    <3>2. CASE i = 1
      BY <1>1, <3>1, <3>2
    <3>3. CASE i # 1
      <4>1. i - 1 \in 1..Len(s) /\ y = s[i - 1]
        BY <1>1, <3>1, <3>3
      <4>2. QED
        BY <4>1 DEF Members
    <3>4. QED
      BY <3>2, <3>3
  <2>2. ASSUME NEW y \in Members(s) \cup {x} PROVE y \in Members(w)
    <3>1. CASE y = x
      BY <1>1, <3>1 DEF Members
    <3>2. CASE y \in Members(s)
      <4>1. PICK i \in 1..Len(s) : y = s[i]
        BY <3>2 DEF Members
      <4>2. i + 1 \in 1..Len(w) /\ w[i + 1] = y
        BY <1>1, <4>1
      <4>3. QED
        BY <4>2 DEF Members
    <3>3. QED
      BY <3>1, <3>2
  <2>3. QED
    BY <2>1, <2>2
<1>3. ASSUME Distinct(s), x \notin Members(s) PROVE Distinct(w)
  <2>1. SUFFICES ASSUME NEW i \in 1..Len(w), NEW j \in 1..Len(w), w[i] = w[j] PROVE i = j
    BY DEF Distinct
  <2>2. \A k \in 2..Len(w) : w[k] \in Members(s) /\ k - 1 \in 1..Len(s) /\ w[k] = s[k - 1]
    BY <1>1 DEF Members
  <2>3. CASE i = 1 \/ j = 1
    BY <1>1, <1>3, <2>1, <2>2, <2>3
  <2>4. CASE i # 1 /\ j # 1
    <3>1. i \in 2..Len(w) /\ j \in 2..Len(w)
      BY <1>1, <2>4
    <3>2. i - 1 = j - 1
      BY <1>3, <2>1, <2>2, <3>1 DEF Distinct
    <3>3. QED
      BY <3>1, <3>2
  <2>5. QED
    BY <2>3, <2>4
<1>4. QED
  BY <1>1, <1>2, <1>3 DEF w

LEMMA TakeFirst ==
  ASSUME NEW S, NEW s \in Seq(S), s # <<>>
  PROVE  /\ Tail(s) \in Seq(S) /\ Head(s) \in S /\ Len(Tail(s)) = Len(s) - 1
         /\ Len(s) \in Nat \ {0} /\ Head(s) = s[1]
         /\ \A i \in 1..(Len(s) - 1) : i + 1 \in 1..Len(s) /\ Tail(s)[i] = s[i + 1]
         /\ Distinct(s) => Distinct(Tail(s)) /\ Members(Tail(s)) = Members(s) \ {Head(s)}
<1> DEFINE w == Tail(s)
<1>1. /\ w \in Seq(S) /\ Head(s) \in S /\ Len(w) = Len(s) - 1 /\ Len(s) \in Nat \ {0} /\ Head(s) = s[1]
      /\ \A i \in 1..(Len(s) - 1) : i + 1 \in 1..Len(s) /\ w[i] = s[i + 1]
  <2>1. /\ Len(s) \in Nat \ {0} /\ Head(s) = s[1] /\ Head(s) \in S /\ w \in Seq(S)
        /\ Len(w) = Len(s) - 1
    BY HeadTailProperties, EmptySeq, LenProperties
  <2>2. \A i \in 1..Len(w) : w[i] = s[i + 1]
    BY HeadTailProperties
  <2> HIDE DEF w
  <2>3. QED
    BY <2>1, <2>2
<1> HIDE DEF w
<1>2. ASSUME Distinct(s) PROVE Distinct(w) /\ Members(w) = Members(s) \ {Head(s)}
  <2>1. Distinct(w)
    BY <1>1, <1>2 DEF Distinct
  <2>2. ASSUME NEW y \in Members(w) PROVE y \in Members(s) \ {Head(s)}
    <3>1. PICK i \in 1..Len(w) : y = w[i]
      BY DEF Members
    <3>2. i + 1 \in 1..Len(s) /\ y = s[i + 1] /\ i + 1 # 1 /\ 1 \in 1..Len(s)
      BY <1>1, <3>1
    <3>3. QED
      BY <1>1, <1>2, <3>2 DEF Distinct, Members
  <2>3. ASSUME NEW y \in Members(s) \ {Head(s)} PROVE y \in Members(w)
    <3>1. PICK i \in 1..Len(s) : y = s[i]
      BY DEF Members
    <3>2. i - 1 \in 1..Len(w) /\ y = w[i - 1]
      <4>1. i # 1
        BY <1>1, <2>3, <3>1
      <4>2. i - 1 \in 1..(Len(s) - 1) /\ (i - 1) + 1 = i
        BY <1>1, <4>1
      <4>3. QED
        BY <1>1, <3>1, <4>2
    <3>3. QED
      BY <3>2 DEF Members
  <2>4. QED
    BY <2>1, <2>2, <2>3
<1>3. QED
  BY <1>1, <1>2 DEF w

LEMMA PutLast ==
  ASSUME NEW S, NEW s \in Seq(S), NEW x \in S
  PROVE  /\ Append(s, x) \in Seq(S) /\ Len(Append(s, x)) = Len(s) + 1 /\ Len(s) \in Nat
         /\ \A i \in 1..Len(s) : Append(s, x)[i] = s[i]
         /\ Append(s, x)[Len(s) + 1] = x
  BY AppendProperties, LenProperties

(* Where the members of a shorter list were before. *)
Was(i, k) == IF k < i THEN k ELSE k + 1

LEMMA TakenOut ==
  ASSUME NEW S, NEW s \in Seq(S), NEW k \in 1..Len(s)
  PROVE  /\ RemoveAt(s, k) \in Seq(S) /\ Len(RemoveAt(s, k)) = Len(s) - 1 /\ Len(s) \in Nat
         /\ \A i \in 1..(Len(s) - 1) :
              RemoveAt(s, k)[i] = s[Was(k, i)] /\ Was(k, i) \in 1..Len(s) /\ Was(k, i) # k
<1> DEFINE w == RemoveAt(s, k)
           a == SubSeq(s, 1, k - 1)
           b == SubSeq(s, k + 1, Len(s))
<1>1. Len(s) \in Nat /\ k \in Nat /\ 1 <= k /\ k <= Len(s)
  BY LenProperties
<1>2. /\ a \in Seq(S) /\ Len(a) = k - 1
      /\ \A i \in 1..(k - 1) : a[i] = s[i]
  BY <1>1, SubSeqProperties
<1>3. /\ b \in Seq(S) /\ Len(b) = Len(s) - k
      /\ \A i \in 1..(Len(s) - k) : b[i] = s[i + k]
  BY <1>1, SubSeqProperties
<1>4. w = a \o b
  BY DEF RemoveAt
<1> HIDE DEF a, b, w
<1>5. /\ w \in Seq(S) /\ Len(w) = Len(a) + Len(b)
      /\ \A i \in 1..(Len(a) + Len(b)) : w[i] = IF i <= Len(a) THEN a[i] ELSE b[i - Len(a)]
  BY <1>2, <1>3, <1>4, ConcatProperties
<1>6. ASSUME NEW i \in k..(Len(s) - 1) PROVE w[i] = s[i + 1]
  <2>1. i - (k - 1) \in 1..(Len(s) - k) /\ (i - (k - 1)) + k = i + 1 /\ ~(i <= k - 1)
        /\ i \in 1..(Len(a) + Len(b))
    BY <1>1, <1>2, <1>3
  <2>2. w[i] = b[i - (k - 1)]
    BY <1>2, <1>5, <2>1
  <2>3. QED
    BY <1>3, <2>1, <2>2
<1>7. ASSUME NEW i \in 1..(k - 1) PROVE w[i] = s[i]
  <2>1. i \in 1..(Len(a) + Len(b)) /\ i <= Len(a)
    BY <1>1, <1>2, <1>3
  <2>2. QED
    BY <1>2, <1>5, <2>1
<1>8. ASSUME NEW i \in 1..(Len(s) - 1)
      PROVE  w[i] = s[Was(k, i)] /\ Was(k, i) \in 1..Len(s) /\ Was(k, i) # k
  BY <1>1, <1>6, <1>7 DEF Was
<1>9. QED
  BY <1>1, <1>2, <1>3, <1>5, <1>8 DEF w

(* mntqrm and mountmux take one member out. *)
LEMMA Unlinked ==
  ASSUME NEW S, NEW s \in Seq(S), NEW x \in S, Distinct(s)
  PROVE  /\ RemoveFirst(s, x) \in Seq(S) /\ Distinct(RemoveFirst(s, x))
         /\ Members(RemoveFirst(s, x)) = Members(s) \ {x}
<1>1. CASE x \notin Members(s)
  <2>1. RemoveFirst(s, x) = s
    BY <1>1 DEF RemoveFirst, Members
  <2>2. QED
    BY <1>1, <2>1
<1>2. CASE x \in Members(s)
  <2> DEFINE I == {i \in 1..Len(s) : s[i] = x}
             k == Min(I)
             w == RemoveFirst(s, x)
  <2>1. I # {} /\ I \subseteq Nat
    BY <1>2 DEF Members
  <2>2. k \in 1..Len(s) /\ s[k] = x
    <3>1. k \in I
      BY <2>1, Least
    <3>2. QED
      BY <3>1
  <2>3. w = RemoveAt(s, k)
    BY <1>2, <2>1 DEF RemoveFirst, SelectInSeq, Members
  <2> HIDE DEF I, k, w
  <2>4. /\ w \in Seq(S) /\ Len(w) = Len(s) - 1 /\ Len(s) \in Nat
        /\ \A i \in 1..(Len(s) - 1) : w[i] = s[Was(k, i)] /\ Was(k, i) \in 1..Len(s) /\ Was(k, i) # k
    BY <2>2, <2>3, TakenOut
  <2>5. Distinct(w)
    <3>1. SUFFICES ASSUME NEW i \in 1..Len(w), NEW j \in 1..Len(w), w[i] = w[j] PROVE i = j
      BY DEF Distinct
    <3>2. Was(k, i) = Was(k, j)
      BY <2>4, <3>1 DEF Distinct
    <3>3. QED
      BY <2>2, <2>4, <3>2 DEF Was
  <2>6. ASSUME NEW y \in Members(w) PROVE y \in Members(s) \ {x}
    <3>1. PICK i \in 1..Len(w) : y = w[i]
      BY DEF Members
    <3>2. Was(k, i) \in 1..Len(s) /\ y = s[Was(k, i)] /\ Was(k, i) # k
      BY <2>4, <3>1
    <3>3. QED
      BY <2>2, <3>2 DEF Members, Distinct
  <2>7. ASSUME NEW y \in Members(s) \ {x} PROVE y \in Members(w)
    <3>1. PICK j \in 1..Len(s) : y = s[j]
      BY DEF Members
    <3>2. j # k
      BY <2>2, <2>7, <3>1
    <3>3. PICK i \in 1..(Len(s) - 1) : Was(k, i) = j
      <4>1. CASE j < k
        BY <2>2, <2>4, <4>1 DEF Was
      <4>2. CASE j > k
        <5>1. j - 1 \in 1..(Len(s) - 1) /\ Was(k, j - 1) = j
          BY <2>2, <2>4, <4>2 DEF Was
        <5>2. QED
          BY <5>1
      <4>3. QED
        BY <2>2, <3>2, <4>1, <4>2
    <3>4. QED
      BY <2>4, <3>1, <3>3 DEF Members
  <2>8. QED
    BY <2>4, <2>5, <2>6, <2>7 DEF w
<1>3. QED
  BY <1>1, <1>2

----------------------------------------------------------------------------
(* Tags and calls are numbers, and no call is Rflush. *)
LEMMA Numbers ==
  /\ None \notin Tags /\ None \notin Procs /\ None \notin Calls /\ Rflush \notin Calls
  /\ Rflush # None /\ None # "fail" /\ None # "Eintr"
<1>1. Calls \subseteq Nat \ {0}
  <2>1. ASSUME NEW p \in Procs PROVE ToSet(Work[p]) \subseteq Nat \ {0}
    BY MntAssumption DEF ToSet
  <2>2. QED
    BY <2>1 DEF Calls
<1>2. /\ Tags \subseteq Nat /\ None \notin Procs /\ None \notin Nat
      /\ None # "fail" /\ None # "Eintr"
  BY MntAssumption
<1>3. QED
  <2>1. \A x \in Nat : x # None
    BY <1>2
  <2>2. 0 \notin Calls /\ None \notin Tags /\ None \notin Calls /\ 0 # None
    BY <1>1, <1>2, <2>1
  <2>3. QED
    BY <1>2, <2>2 DEF Rflush

LEMMA MessagesTyped ==
  ASSUME NEW o \in Seq(Requests), NEW r \in Seq(Replies)
  PROVE  /\ \A n \in 1..Len(o) : o[n] \in Requests /\ o[n].tag \in Tags
         /\ \A n \in 1..Len(r) : r[n] \in Replies /\ r[n].tag \in Tags
         /\ Len(o) \in Nat /\ Len(r) \in Nat
<1>1. /\ \A n \in 1..Len(o) : o[n] \in Requests
      /\ \A n \in 1..Len(r) : r[n] \in Replies
      /\ Len(o) \in Nat /\ Len(r) \in Nat
  BY ElementOfSeq, LenProperties
<1>2. \A x \in Requests \cup Replies : x.tag \in Tags
  BY DEF Requests, Replies
<1>3. QED
  BY <1>1, <1>2

LEMMA TagsTyped ==
  ASSUME TypesOK
  PROVE  /\ \A n \in 1..Len(owed) : owed[n] \in Requests /\ owed[n].tag \in Tags
         /\ \A n \in 1..Len(replies) : replies[n] \in Replies /\ replies[n].tag \in Tags
         /\ Len(owed) \in Nat /\ Len(replies) \in Nat
  BY MessagesTyped DEF TypesOK

LEMMA TagsTypedLater ==
  ASSUME TypesOK'
  PROVE  /\ \A n \in 1..Len(owed') : owed'[n].tag \in Tags
         /\ \A n \in 1..Len(replies') : replies'[n].tag \in Tags
  BY MessagesTyped DEF TypesOK

(* The headers of a process that is in a call are its own. *)
LEMMA OwnCur ==
  ASSUME NEW own, TypesOK, PlacesOK, TagsOK(own), NEW p \in Procs, Busy(p)
  PROVE  cur[p] \in Tags /\ orig[p] \in Tags /\ own[cur[p]] = p /\ own[orig[p]] = p
<1>1. cur[p] \in Tags \cup {None} /\ orig[p] \in Tags \cup {None}
  BY DEF TypesOK
<1>2. cur[p] # None /\ orig[p] # None
  BY DEF PlacesOK, PlaceOK, Busy
<1>3. QED
  BY <1>1, <1>2 DEF TagsOK

(* A step of p that changes no list, no message and no chain: it may empty  *)
(* the reply of p's own rpc while that has no answer, and goes on only if   *)
(* nothing is under way that should not be.                                 *)
Quiet(p) ==
  /\ queue' = queue /\ rpcfree' = rpcfree /\ tagmask' = tagmask
  /\ orig' = orig /\ cur' = cur /\ owed' = owed /\ replies' = replies /\ hungup' = hungup
  /\ \A t \in Tags :
       /\ rpc'[t].done = rpc[t].done /\ rpc'[t].flushed = rpc[t].flushed
       /\ rpc'[t].call = rpc[t].call /\ rpc'[t].oldtag = rpc[t].oldtag
       /\ t # cur[p] \/ t \in done => rpc'[t].reply = rpc[t].reply
  /\ \A q \in Procs : q # p => pc'[q] = pc[q] /\ err'[q] = err[q]
  /\ pc[p] # "idle" /\ pc'[p] # "idle"
  /\ pc'[p] = "mux" => pc[p] = "mux" /\ rpc'[cur[p]].reply = rpc[cur[p]].reply
  /\ pc'[p] = "write" => pc[p] = "write"
  /\ Doomed(p) => Doomed(p)'
  /\ pc'[p] \in Settled => Doomed(p)' \/ pc[p] \in Settled \/ cur[p] \in done

LEMMA QuietOK ==
  ASSUME NEW own \in Owners, NEW dep \in Depths, CallInv(own, dep), NEW p \in Procs, Quiet(p)
  PROVE  /\ TagsOK(own)' /\ ChainsOK(own, dep)' /\ QueueOK(own)'
         /\ FlightOK(own)' /\ OrderOK(own, dep)' /\ SettledOK(own, dep)' /\ AnswersOK'
<1>h. /\ TypesOK /\ PlacesOK /\ TagsOK(own) /\ ChainsOK(own, dep) /\ QueueOK(own)
      /\ FlightOK(own) /\ OrderOK(own, dep) /\ SettledOK(own, dep) /\ AnswersOK
  BY DEF CallInv
<1>1. done' = done /\ waiting' = waiting /\ spare' = spare
  BY DEF done, waiting, spare, Quiet
<1>2. \A q \in Procs : (Busy(q) <=> Busy(q)') /\ (Doomed(q) => Doomed(q)')
  BY DEF Busy, Doomed, Quiet
<1>3. \A t \in Tags : Live(own, t)' => Live(own, t)
  BY <1>2 DEF Live, Owners
<1>4. \A q \in Procs : q # p /\ Busy(q) => cur[q] # cur[p] /\ cur[q] \in Tags
  <2>1. Busy(p)
    BY DEF Quiet, Busy
  <2>2. QED
    BY <1>h, <2>1, OwnCur
<1>5. held' \subseteq held
  <2>1. SUFFICES ASSUME NEW q \in Procs, pc'[q] = "mux"
                 PROVE  rpc'[cur'[q]].reply = rpc[cur[q]].reply /\ pc[q] = "mux"
    BY DEF held
  <2>2. CASE q = p
    BY <2>1, <2>2 DEF Quiet
  <2>3. CASE q # p
    <3>1. pc[q] = "mux" /\ cur' = cur
      BY <2>1, <2>3 DEF Quiet
    <3>2. cur[q] # cur[p] /\ cur[q] \in Tags
      BY <1>4, <2>3, <3>1 DEF Busy
    <3>3. QED
      BY <3>1, <3>2 DEF Quiet
  <2>4. QED
    BY <2>2, <2>3
<1>6. flight' \subseteq flight
  BY <1>5 DEF flight, Quiet
<1>7. TagsOK(own)'
  BY <1>h, <1>1, <1>2 DEF TagsOK, Quiet, Owners
<1>8. ChainsOK(own, dep)'
  BY <1>h DEF ChainsOK, Quiet
<1>9. QueueOK(own)'
  BY <1>h, <1>1 DEF QueueOK, Quiet
<1>10. FlightOK(own)'
  <2>1. ASSUME NEW r, r.tag \in Tags, Genuine(own, r) PROVE Genuine(own, r)'
    BY <1>3, <2>1 DEF Genuine, Quiet
  <2>2. \A n \in 1..Len(owed) : owed[n].tag \in Tags /\ Message(owed[n].tag)' = Message(owed[n].tag)
    BY <1>h, TagsTyped DEF Message, Quiet
  <2>3. /\ \A n \in 1..Len(replies) : replies[n].tag \in Tags
        /\ \A r \in held : r.tag \in Tags
    BY <1>h, TagsTyped DEF FlightOK, Replies
  <2>4. QED
    BY <1>h, <1>5, <2>1, <2>2, <2>3 DEF FlightOK, Quiet
<1>11. OrderOK(own, dep)'
  <2>1. ASSUME NEW t \in Tags, NEW u, Rises(own, dep, t, u) PROVE Rises(own, dep, t, u)'
    BY <1>3, <2>1 DEF Rises
  <2>2. /\ \A n \in 1..Len(owed) : owed[n].tag \in Tags
        /\ \A n \in 1..Len(replies) : replies[n].tag \in Tags
        /\ \A r \in held : r.tag \in Tags
    BY <1>h, TagsTyped DEF FlightOK, Replies
  <2>3. QED
    BY <1>h, <1>5, <2>1, <2>2 DEF OrderOK, Quiet
<1>12. SettledOK(own, dep)'
  <2>1. ASSUME NEW q \in Procs, pc'[q] = "write", ~Doomed(q)' PROVE cur'[q] \notin flight' \cup done'
    BY <1>h, <1>1, <1>2, <1>6, <2>1 DEF SettledOK, Quiet
  <2>2. ASSUME NEW t \in done', NEW u \in Tags, Live(own, t)', own[u] = own[t], dep[u] <= dep[t]
        PROVE  u \notin flight'
    <3>1. t \in Tags
      BY <2>2 DEF done
    <3>2. QED
      BY <1>h, <1>1, <1>3, <1>6, <2>2, <3>1 DEF SettledOK
  <2>3. ASSUME NEW u \in Tags, Live(own, u)', pc'[own[u]] \in Settled PROVE u \notin flight'
    <3>1. own[u] \in Procs /\ Live(own, u) /\ ~Doomed(own[u])'
      BY <1>3, <2>3 DEF Live, Owners
    <3>2. CASE own[u] # p \/ pc[p] \in Settled
      BY <1>h, <1>6, <2>3, <3>1, <3>2 DEF SettledOK, Quiet
    <3>3. CASE own[u] = p /\ pc[p] \notin Settled
      <4>1. cur[p] \in done /\ cur[p] \in Tags
        BY <2>3, <3>1, <3>3 DEF Quiet, done
      <4>2. own[cur[p]] = p /\ dep[u] <= dep[cur[p]]
        BY <1>h, <3>1, <3>3, OwnCur DEF ChainsOK, Busy, Quiet, Live
      <4>3. QED
        BY <1>h, <1>6, <3>1, <3>3, <4>1, <4>2 DEF SettledOK, Live
    <3>4. QED
      BY <3>2, <3>3
  <2>4. QED
    BY <2>1, <2>2, <2>3 DEF SettledOK
<1>13. AnswersOK'
  <2>1. SUFFICES ASSUME NEW q \in Procs, Busy(q)', ~Doomed(q)', orig'[q] \in done'
                 PROVE  rpc'[orig'[q]].reply.of \in {rpc'[orig'[q]].call, Rflush}
    BY DEF AnswersOK
  <2>2. orig'[q] = orig[q] /\ orig[q] \in done /\ orig[q] \in Tags
    BY <1>1, <2>1 DEF Quiet, done
  <2>3. QED
    BY <1>h, <1>2, <2>1, <2>2 DEF AnswersOK, Quiet
<1>14. QED
  BY <1>7, <1>8, <1>9, <1>10, <1>11, <1>12, <1>13

(* What most steps leave alone. *)
Aside ==
  /\ queue' = queue /\ rpcfree' = rpcfree /\ tagmask' = tagmask /\ orig' = orig /\ cur' = cur
  /\ late' = late /\ todo' = todo /\ interrupts' = interrupts
  /\ owed' = owed /\ replies' = replies /\ hungup' = hungup

(* Of the headers only who is on the Rendez changes. *)
SleepersOnly ==
  /\ rpc' \in [Tags -> Header]
  /\ \A t \in Tags : /\ rpc'[t].done = rpc[t].done /\ rpc'[t].flushed = rpc[t].flushed
                     /\ rpc'[t].call = rpc[t].call /\ rpc'[t].oldtag = rpc[t].oldtag
                     /\ rpc'[t].reply = rpc[t].reply

LEMMA SleeperSet ==
  ASSUME TypesOK, NEW t \in Tags, NEW x \in Procs \cup {None},
         rpc' = [rpc EXCEPT ![t].sleeper = x]
  PROVE  SleepersOnly
<1>1. rpc \in [Tags -> Header]
  BY DEF TypesOK
<1>2. \A u \in Tags : rpc'[u] = IF u = t THEN [rpc[t] EXCEPT !.sleeper = x] ELSE rpc[u]
  BY <1>1
<1>3. \A h \in Header :
        /\ [h EXCEPT !.sleeper = x] \in Header
        /\ [h EXCEPT !.sleeper = x].done = h.done /\ [h EXCEPT !.sleeper = x].flushed = h.flushed
        /\ [h EXCEPT !.sleeper = x].call = h.call /\ [h EXCEPT !.sleeper = x].oldtag = h.oldtag
        /\ [h EXCEPT !.sleeper = x].reply = h.reply
  BY DEF Header
<1>4. rpc' \in [Tags -> Header]
  BY <1>1, <1>3
<1>5. QED
  BY <1>1, <1>2, <1>3, <1>4 DEF SleepersOnly

LEMMA SameHeaders ==
  ASSUME TypesOK, rpc' = rpc
  PROVE  SleepersOnly
  BY DEF TypesOK, SleepersOnly

(* mntgate takes one process off its Rendez and changes nothing else of a header. *)
LEMMA MntgateHeaders ==
  ASSUME TypesOK, mntgate
  PROVE  SleepersOnly
<1> DEFINE A == {i \in DOMAIN queue : ~rpc[queue[i]].done /\ rpc[queue[i]].sleeper # None}
<1>1. queue \in Seq(Tags) /\ Len(queue) \in Nat /\ DOMAIN queue = 1..Len(queue)
  BY LenProperties DEF TypesOK
<1>2. CASE A = {}
  BY <1>2, SameHeaders DEF mntgate
<1>3. CASE A # {}
  <2>1. rpc' = [rpc EXCEPT ![queue[Min(A)]].sleeper = None]
    BY <1>3 DEF mntgate
  <2>2. A \subseteq Nat /\ A \subseteq 1..Len(queue)
    BY <1>1
  <2>3. Min(A) \in A
    BY <1>3, <2>2, Least
  <2> HIDE DEF A
  <2>4. Min(A) \in 1..Len(queue)
    BY <2>2, <2>3
  <2>5. queue[Min(A)] \in Tags
    BY <1>1, <2>4, ElementOfSeq
  <2>6. QED
    BY <2>1, <2>5, SleeperSet
<1>4. QED
  BY <1>2, <1>3

(* The connection is gone: the call fails. *)
LEMMA WriteFailsOK ==
  ASSUME NEW own \in Owners, NEW dep \in Depths, CallInv(own, dep), NEW p \in Procs, WriteFails(p)
  PROVE  CallInv(own, dep)'
<1>h. /\ TypesOK /\ PlacesOK /\ TagsOK(own) /\ ChainsOK(own, dep) /\ QueueOK(own)
      /\ FlightOK(own) /\ OrderOK(own, dep) /\ SettledOK(own, dep) /\ AnswersOK
  BY DEF CallInv
<1>p. /\ pc[p] = "write" /\ pc'[p] = "handler" /\ pc' \in [Procs -> Labels] /\ Busy(p)
      /\ \A q \in Procs : q # p => pc'[q] = pc[q]
  BY <1>h DEF TypesOK, Labels, Busy, Off, Awake, WriteFails, Goto, Raise, mount, headers, procs, counts, server
<1>b. cur[p] \in Tags /\ orig[p] \in Tags /\ own[cur[p]] = p /\ own[orig[p]] = p
  BY <1>h, <1>p, OwnCur
<1>r. SleepersOnly
  BY <1>h, SameHeaders DEF WriteFails, headers
<1>a. Aside /\ rip' = rip /\ err' = [err EXCEPT ![p] = "fail"] /\ hungup /\ killed' = killed
  BY DEF Aside, WriteFails, Goto, Raise, mount, headers, procs, counts, server
<1>1. TypesOK'
  BY <1>h, <1>p, <1>b, <1>r, <1>a DEF TypesOK, SleepersOnly, Aside
<1>d. done' = done
  BY <1>r DEF done, SleepersOnly
<1>e. /\ Doomed(p) => Doomed(p)'
      /\ pc'[p] \in Settled => Doomed(p)' \/ pc[p] \in Settled \/ cur[p] \in done
  BY <1>h, <1>p, <1>a, Numbers DEF TypesOK, PlacesOK, PlaceOK, Doomed, Settled, Aside
<1>2. Quiet(p)
  BY <1>h, <1>p, <1>b, <1>r, <1>a, <1>e DEF TypesOK, Quiet, SleepersOnly, Aside
<1>3. ASSUME NEW q \in Procs PROVE PlaceOK(q)'
  <2>1. PlaceOK(q) /\ PlaceOK(p)
    BY <1>h DEF PlacesOK
  <2>2. CASE q = p
    BY <1>h, <1>p, <1>b, <1>d, <1>a, <2>1, <2>2, Numbers DEF TypesOK, PlaceOK, Reading, Aside
  <2>3. CASE q # p
    BY <1>h, <1>p, <1>b, <1>d, <1>a, <2>1, <2>3, Numbers DEF TypesOK, PlaceOK, Reading, Aside
  <2>4. QED
    BY <2>2, <2>3
<1>4. QED
  BY <1>1, <1>2, <1>3, QuietOK DEF CallInv, PlacesOK

(* The gate: the reader's place is taken or it is not. *)
LEMMA TakeGateOK ==
  ASSUME NEW own \in Owners, NEW dep \in Depths, CallInv(own, dep), NEW p \in Procs, TakeGate(p)
  PROVE  CallInv(own, dep)'
<1>h. /\ TypesOK /\ PlacesOK /\ TagsOK(own) /\ ChainsOK(own, dep) /\ QueueOK(own)
      /\ FlightOK(own) /\ OrderOK(own, dep) /\ SettledOK(own, dep) /\ AnswersOK
  BY DEF CallInv
<1>p. /\ pc[p] = "gate" /\ pc'[p] \in {"sleep", "gated", "read"} /\ pc' \in [Procs -> Labels] /\ Busy(p)
      /\ \A q \in Procs : q # p => pc'[q] = pc[q]
  BY <1>h DEF TypesOK, Labels, Busy, Off, Awake, TakeGate, Goto, Raise, mount, headers, procs, counts, server
<1>b. cur[p] \in Tags /\ orig[p] \in Tags /\ own[cur[p]] = p /\ own[orig[p]] = p
  BY <1>h, <1>p, OwnCur
<1>r. SleepersOnly
  BY <1>h, SameHeaders DEF TakeGate, headers
<1>a. Aside /\ rip' = (IF rip = None THEN p ELSE rip) /\ err' = err /\ killed' = killed
  BY DEF Aside, TakeGate, Goto, Raise, mount, headers, procs, counts, server
<1>k. (pc'[p] \in {"gated", "read"} => rip = None) /\ (pc'[p] = "sleep" => rip # None) /\ (pc'[p] = "gated" <=> rip = None /\ cur[p] \in done)
  BY <1>h, <1>b DEF TypesOK, done, TakeGate, Goto, Raise, mount, headers, procs, counts, server
<1>1. TypesOK'
  BY <1>h, <1>p, <1>b, <1>r, <1>a DEF TypesOK, SleepersOnly, Aside
<1>d. done' = done
  BY <1>r DEF done, SleepersOnly
<1>e. /\ Doomed(p) => Doomed(p)'
      /\ pc'[p] \in Settled => Doomed(p)' \/ pc[p] \in Settled \/ cur[p] \in done
  BY <1>h, <1>p, <1>a, <1>k, Numbers DEF TypesOK, PlacesOK, PlaceOK, Doomed, Settled, Aside
<1>2. Quiet(p)
  BY <1>h, <1>p, <1>b, <1>r, <1>a, <1>e DEF TypesOK, Quiet, SleepersOnly, Aside
<1>3. ASSUME NEW q \in Procs PROVE PlaceOK(q)'
  <2>1. PlaceOK(q) /\ PlaceOK(p)
    BY <1>h DEF PlacesOK
  <2>2. CASE q = p
    BY <1>h, <1>p, <1>b, <1>d, <1>a, <1>k, <2>1, <2>2, Numbers DEF TypesOK, PlaceOK, Reading, Aside
  <2>3. CASE q # p
    BY <1>h, <1>p, <1>b, <1>d, <1>a, <2>1, <2>3, Numbers DEF TypesOK, PlaceOK, Reading, Aside
  <2>4. QED
    BY <2>2, <2>3
<1>4. QED
  BY <1>1, <1>2, <1>3, QuietOK DEF CallInv, PlacesOK

(* Sleep registers p on the Rendez of its rpc. *)
LEMMA SleepOK ==
  ASSUME NEW own \in Owners, NEW dep \in Depths, CallInv(own, dep), NEW p \in Procs, Sleep(p)
  PROVE  CallInv(own, dep)'
<1>h. /\ TypesOK /\ PlacesOK /\ TagsOK(own) /\ ChainsOK(own, dep) /\ QueueOK(own)
      /\ FlightOK(own) /\ OrderOK(own, dep) /\ SettledOK(own, dep) /\ AnswersOK
  BY DEF CallInv
<1>p. /\ pc[p] = "sleep" /\ pc'[p] \in {"chain", "gate", "asleep"} /\ pc' \in [Procs -> Labels] /\ Busy(p)
      /\ \A q \in Procs : q # p => pc'[q] = pc[q]
  BY <1>h DEF TypesOK, Labels, Busy, Off, Awake, Sleep, Goto, Raise, mount, headers, procs, counts, server, rpcattn, Awake
<1>b. cur[p] \in Tags /\ orig[p] \in Tags /\ own[cur[p]] = p /\ own[orig[p]] = p
  BY <1>h, <1>p, OwnCur
<1>r. SleepersOnly
  BY <1>h, <1>b, SameHeaders, SleeperSet DEF Sleep
<1>a. Aside /\ rip' = rip /\ err' = err /\ killed' = killed
  BY DEF Aside, Sleep, Goto, Raise, mount, headers, procs, counts, server, rpcattn, Awake
<1>k. pc'[p] = "chain" => cur[p] \in done
  BY <1>h, <1>b DEF TypesOK, done, Sleep, Goto, Raise, mount, headers, procs, counts, server, rpcattn, Awake
<1>1. TypesOK'
  BY <1>h, <1>p, <1>b, <1>r, <1>a DEF TypesOK, SleepersOnly, Aside
<1>d. done' = done
  BY <1>r DEF done, SleepersOnly
<1>e. /\ Doomed(p) => Doomed(p)'
      /\ pc'[p] \in Settled => Doomed(p)' \/ pc[p] \in Settled \/ cur[p] \in done
  BY <1>h, <1>p, <1>a, <1>k, Numbers DEF TypesOK, PlacesOK, PlaceOK, Doomed, Settled, Aside
<1>2. Quiet(p)
  BY <1>h, <1>p, <1>b, <1>r, <1>a, <1>e DEF TypesOK, Quiet, SleepersOnly, Aside
<1>3. ASSUME NEW q \in Procs PROVE PlaceOK(q)'
  <2>1. PlaceOK(q) /\ PlaceOK(p)
    BY <1>h DEF PlacesOK
  <2>2. CASE q = p
    BY <1>h, <1>p, <1>b, <1>d, <1>a, <1>k, <2>1, <2>2, Numbers DEF TypesOK, PlaceOK, Reading, Aside
  <2>3. CASE q # p
    BY <1>h, <1>p, <1>b, <1>d, <1>a, <2>1, <2>3, Numbers DEF TypesOK, PlaceOK, Reading, Aside
  <2>4. QED
    BY <2>2, <2>3
<1>4. QED
  BY <1>1, <1>2, <1>3, QuietOK DEF CallInv, PlacesOK

(* Sleep returns. *)
LEMMA SleepReturnsOK ==
  ASSUME NEW own \in Owners, NEW dep \in Depths, CallInv(own, dep), NEW p \in Procs, SleepReturns(p)
  PROVE  CallInv(own, dep)'
<1>h. /\ TypesOK /\ PlacesOK /\ TagsOK(own) /\ ChainsOK(own, dep) /\ QueueOK(own)
      /\ FlightOK(own) /\ OrderOK(own, dep) /\ SettledOK(own, dep) /\ AnswersOK
  BY DEF CallInv
<1>p. /\ pc[p] = "asleep" /\ pc'[p] \in {"chain", "gate"} /\ pc' \in [Procs -> Labels] /\ Busy(p)
      /\ \A q \in Procs : q # p => pc'[q] = pc[q]
  BY <1>h DEF TypesOK, Labels, Busy, Off, Awake, SleepReturns, Goto, Raise, mount, headers, procs, counts, server, Awake
<1>b. cur[p] \in Tags /\ orig[p] \in Tags /\ own[cur[p]] = p /\ own[orig[p]] = p
  BY <1>h, <1>p, OwnCur
<1>r. SleepersOnly
  BY <1>h, SameHeaders DEF SleepReturns, headers
<1>a. Aside /\ rip' = rip /\ err' = err /\ killed' = killed
  BY DEF Aside, SleepReturns, Goto, Raise, mount, headers, procs, counts, server, Awake
<1>k. pc'[p] = "chain" => cur[p] \in done
  BY <1>h, <1>b DEF TypesOK, done, SleepReturns, Goto, Raise, mount, headers, procs, counts, server, Awake
<1>1. TypesOK'
  BY <1>h, <1>p, <1>b, <1>r, <1>a DEF TypesOK, SleepersOnly, Aside
<1>d. done' = done
  BY <1>r DEF done, SleepersOnly
<1>e. /\ Doomed(p) => Doomed(p)'
      /\ pc'[p] \in Settled => Doomed(p)' \/ pc[p] \in Settled \/ cur[p] \in done
  BY <1>h, <1>p, <1>a, <1>k, Numbers DEF TypesOK, PlacesOK, PlaceOK, Doomed, Settled, Aside
<1>2. Quiet(p)
  BY <1>h, <1>p, <1>b, <1>r, <1>a, <1>e DEF TypesOK, Quiet, SleepersOnly, Aside
<1>3. ASSUME NEW q \in Procs PROVE PlaceOK(q)'
  <2>1. PlaceOK(q) /\ PlaceOK(p)
    BY <1>h DEF PlacesOK
  <2>2. CASE q = p
    BY <1>h, <1>p, <1>b, <1>d, <1>a, <1>k, <2>1, <2>2, Numbers DEF TypesOK, PlaceOK, Reading, Aside
  <2>3. CASE q # p
    BY <1>h, <1>p, <1>b, <1>d, <1>a, <2>1, <2>3, Numbers DEF TypesOK, PlaceOK, Reading, Aside
  <2>4. QED
    BY <2>2, <2>3
<1>4. QED
  BY <1>1, <1>2, <1>3, QuietOK DEF CallInv, PlacesOK

(* Sleep is interrupted. *)
LEMMA SleepInterruptedOK ==
  ASSUME NEW own \in Owners, NEW dep \in Depths, CallInv(own, dep), NEW p \in Procs, SleepInterrupted(p)
  PROVE  CallInv(own, dep)'
<1>h. /\ TypesOK /\ PlacesOK /\ TagsOK(own) /\ ChainsOK(own, dep) /\ QueueOK(own)
      /\ FlightOK(own) /\ OrderOK(own, dep) /\ SettledOK(own, dep) /\ AnswersOK
  BY DEF CallInv
<1>p. /\ pc[p] \in {"sleep", "asleep"} /\ pc'[p] = "handler" /\ pc' \in [Procs -> Labels] /\ Busy(p)
      /\ \A q \in Procs : q # p => pc'[q] = pc[q]
  BY <1>h DEF TypesOK, Labels, Busy, Off, Awake, SleepInterrupted, Goto, Raise, mount, headers, procs, counts, server
<1>b. cur[p] \in Tags /\ orig[p] \in Tags /\ own[cur[p]] = p /\ own[orig[p]] = p
  BY <1>h, <1>p, OwnCur
<1>r. SleepersOnly
  BY <1>h, SameHeaders DEF SleepInterrupted, headers
<1>a. Aside /\ rip' = rip /\ err' = [err EXCEPT ![p] = "Eintr"] /\ killed' = [killed EXCEPT ![p] = FALSE]
  BY DEF Aside, SleepInterrupted, Goto, Raise, mount, headers, procs, counts, server
<1>1. TypesOK'
  BY <1>h, <1>p, <1>b, <1>r, <1>a DEF TypesOK, SleepersOnly, Aside
<1>d. done' = done
  BY <1>r DEF done, SleepersOnly
<1>e. /\ Doomed(p) => Doomed(p)'
      /\ pc'[p] \in Settled => Doomed(p)' \/ pc[p] \in Settled \/ cur[p] \in done
  BY <1>h, <1>p, <1>a, Numbers DEF TypesOK, PlacesOK, PlaceOK, Doomed, Settled, Aside
<1>2. Quiet(p)
  BY <1>h, <1>p, <1>b, <1>r, <1>a, <1>e DEF TypesOK, Quiet, SleepersOnly, Aside
<1>3. ASSUME NEW q \in Procs PROVE PlaceOK(q)'
  <2>1. PlaceOK(q) /\ PlaceOK(p)
    BY <1>h DEF PlacesOK
  <2>2. CASE q = p
    BY <1>h, <1>p, <1>b, <1>d, <1>a, <2>1, <2>2, Numbers DEF TypesOK, PlaceOK, Reading, Aside
  <2>3. CASE q # p
    BY <1>h, <1>p, <1>b, <1>d, <1>a, <2>1, <2>3, Numbers DEF TypesOK, PlaceOK, Reading, Aside
  <2>4. QED
    BY <2>2, <2>3
<1>4. QED
  BY <1>1, <1>2, <1>3, QuietOK DEF CallInv, PlacesOK

(* The read is interrupted. *)
LEMMA ReadInterruptedOK ==
  ASSUME NEW own \in Owners, NEW dep \in Depths, CallInv(own, dep), NEW p \in Procs, ReadInterrupted(p)
  PROVE  CallInv(own, dep)'
<1>h. /\ TypesOK /\ PlacesOK /\ TagsOK(own) /\ ChainsOK(own, dep) /\ QueueOK(own)
      /\ FlightOK(own) /\ OrderOK(own, dep) /\ SettledOK(own, dep) /\ AnswersOK
  BY DEF CallInv
<1>p. /\ pc[p] = "read" /\ pc'[p] = "handler" /\ pc' \in [Procs -> Labels] /\ Busy(p)
      /\ \A q \in Procs : q # p => pc'[q] = pc[q]
  BY <1>h DEF TypesOK, Labels, Busy, Off, Awake, ReadInterrupted, Goto, Raise, mount, headers, procs, counts, server
<1>b. cur[p] \in Tags /\ orig[p] \in Tags /\ own[cur[p]] = p /\ own[orig[p]] = p
  BY <1>h, <1>p, OwnCur
<1>r. SleepersOnly
  BY <1>h, SameHeaders DEF ReadInterrupted, headers
<1>a. Aside /\ rip' = rip /\ err' = [err EXCEPT ![p] = "Eintr"] /\ killed' = [killed EXCEPT ![p] = FALSE]
  BY DEF Aside, ReadInterrupted, Goto, Raise, mount, headers, procs, counts, server
<1>1. TypesOK'
  BY <1>h, <1>p, <1>b, <1>r, <1>a DEF TypesOK, SleepersOnly, Aside
<1>d. done' = done
  BY <1>r DEF done, SleepersOnly
<1>e. /\ Doomed(p) => Doomed(p)'
      /\ pc'[p] \in Settled => Doomed(p)' \/ pc[p] \in Settled \/ cur[p] \in done
  BY <1>h, <1>p, <1>a, Numbers DEF TypesOK, PlacesOK, PlaceOK, Doomed, Settled, Aside
<1>2. Quiet(p)
  BY <1>h, <1>p, <1>b, <1>r, <1>a, <1>e DEF TypesOK, Quiet, SleepersOnly, Aside
<1>3. ASSUME NEW q \in Procs PROVE PlaceOK(q)'
  <2>1. PlaceOK(q) /\ PlaceOK(p)
    BY <1>h DEF PlacesOK
  <2>2. CASE q = p
    BY <1>h, <1>p, <1>b, <1>d, <1>a, <2>1, <2>2, Numbers DEF TypesOK, PlaceOK, Reading, Aside
  <2>3. CASE q # p
    BY <1>h, <1>p, <1>b, <1>d, <1>a, <2>1, <2>3, Numbers DEF TypesOK, PlaceOK, Reading, Aside
  <2>4. QED
    BY <2>2, <2>3
<1>4. QED
  BY <1>1, <1>2, <1>3, QuietOK DEF CallInv, PlacesOK

(* The read fails. *)
LEMMA ReadFailsOK ==
  ASSUME NEW own \in Owners, NEW dep \in Depths, CallInv(own, dep), NEW p \in Procs, ReadFails(p)
  PROVE  CallInv(own, dep)'
<1>h. /\ TypesOK /\ PlacesOK /\ TagsOK(own) /\ ChainsOK(own, dep) /\ QueueOK(own)
      /\ FlightOK(own) /\ OrderOK(own, dep) /\ SettledOK(own, dep) /\ AnswersOK
  BY DEF CallInv
<1>p. /\ pc[p] = "read" /\ pc'[p] = "handler" /\ pc' \in [Procs -> Labels] /\ Busy(p)
      /\ \A q \in Procs : q # p => pc'[q] = pc[q]
  BY <1>h DEF TypesOK, Labels, Busy, Off, Awake, ReadFails, Goto, Raise, mount, headers, procs, counts, server
<1>b. cur[p] \in Tags /\ orig[p] \in Tags /\ own[cur[p]] = p /\ own[orig[p]] = p
  BY <1>h, <1>p, OwnCur
<1>r. SleepersOnly
  BY <1>h, SameHeaders DEF ReadFails, headers
<1>a. Aside /\ rip' = rip /\ err' = [err EXCEPT ![p] = "fail"] /\ hungup /\ killed' = killed
  BY DEF Aside, ReadFails, Goto, Raise, mount, headers, procs, counts, server
<1>1. TypesOK'
  BY <1>h, <1>p, <1>b, <1>r, <1>a DEF TypesOK, SleepersOnly, Aside
<1>d. done' = done
  BY <1>r DEF done, SleepersOnly
<1>e. /\ Doomed(p) => Doomed(p)'
      /\ pc'[p] \in Settled => Doomed(p)' \/ pc[p] \in Settled \/ cur[p] \in done
  BY <1>h, <1>p, <1>a, Numbers DEF TypesOK, PlacesOK, PlaceOK, Doomed, Settled, Aside
<1>2. Quiet(p)
  BY <1>h, <1>p, <1>b, <1>r, <1>a, <1>e DEF TypesOK, Quiet, SleepersOnly, Aside
<1>3. ASSUME NEW q \in Procs PROVE PlaceOK(q)'
  <2>1. PlaceOK(q) /\ PlaceOK(p)
    BY <1>h DEF PlacesOK
  <2>2. CASE q = p
    BY <1>h, <1>p, <1>b, <1>d, <1>a, <2>1, <2>2, Numbers DEF TypesOK, PlaceOK, Reading, Aside
  <2>3. CASE q # p
    BY <1>h, <1>p, <1>b, <1>d, <1>a, <2>1, <2>3, Numbers DEF TypesOK, PlaceOK, Reading, Aside
  <2>4. QED
    BY <2>2, <2>3
<1>4. QED
  BY <1>1, <1>2, <1>3, QuietOK DEF CallInv, PlacesOK

(* The reader has its answer and leaves the gate. *)
LEMMA LeaveGateOK ==
  ASSUME NEW own \in Owners, NEW dep \in Depths, CallInv(own, dep), NEW p \in Procs, LeaveGate(p)
  PROVE  CallInv(own, dep)'
<1>h. /\ TypesOK /\ PlacesOK /\ TagsOK(own) /\ ChainsOK(own, dep) /\ QueueOK(own)
      /\ FlightOK(own) /\ OrderOK(own, dep) /\ SettledOK(own, dep) /\ AnswersOK
  BY DEF CallInv
<1>p. /\ pc[p] = "gated" /\ pc'[p] = "chain" /\ pc' \in [Procs -> Labels] /\ Busy(p)
      /\ \A q \in Procs : q # p => pc'[q] = pc[q]
  BY <1>h DEF TypesOK, Labels, Busy, Off, Awake, LeaveGate, Goto, Raise, mount, headers, procs, counts, server, mntgate
<1>b. cur[p] \in Tags /\ orig[p] \in Tags /\ own[cur[p]] = p /\ own[orig[p]] = p
  BY <1>h, <1>p, OwnCur
<1>r. SleepersOnly
  BY <1>h, MntgateHeaders, SameHeaders DEF LeaveGate
<1>a. Aside /\ rip' = None /\ err' = err /\ killed' = killed
  BY DEF Aside, LeaveGate, Goto, Raise, mount, headers, procs, counts, server, mntgate
<1>1. TypesOK'
  BY <1>h, <1>p, <1>b, <1>r, <1>a DEF TypesOK, SleepersOnly, Aside
<1>d. done' = done
  BY <1>r DEF done, SleepersOnly
<1>e. /\ Doomed(p) => Doomed(p)'
      /\ pc'[p] \in Settled => Doomed(p)' \/ pc[p] \in Settled \/ cur[p] \in done
  BY <1>h, <1>p, <1>a, Numbers DEF TypesOK, PlacesOK, PlaceOK, Doomed, Settled, Aside
<1>2. Quiet(p)
  BY <1>h, <1>p, <1>b, <1>r, <1>a, <1>e DEF TypesOK, Quiet, SleepersOnly, Aside
<1>3. ASSUME NEW q \in Procs PROVE PlaceOK(q)'
  <2>1. PlaceOK(q) /\ PlaceOK(p)
    BY <1>h DEF PlacesOK
  <2>2. CASE q = p
    BY <1>h, <1>p, <1>b, <1>d, <1>a, <2>1, <2>2, Numbers DEF TypesOK, PlaceOK, Reading, Aside
  <2>3. CASE q # p
    BY <1>h, <1>p, <1>b, <1>d, <1>a, <2>1, <2>3, Numbers DEF TypesOK, PlaceOK, Reading, Aside
  <2>4. QED
    BY <2>2, <2>3
<1>4. QED
  BY <1>1, <1>2, <1>3, QuietOK DEF CallInv, PlacesOK

(* The handler: a reader gives up its place. *)
LEMMA HandlerOK ==
  ASSUME NEW own \in Owners, NEW dep \in Depths, CallInv(own, dep), NEW p \in Procs, Handler(p)
  PROVE  CallInv(own, dep)'
<1>h. /\ TypesOK /\ PlacesOK /\ TagsOK(own) /\ ChainsOK(own, dep) /\ QueueOK(own)
      /\ FlightOK(own) /\ OrderOK(own, dep) /\ SettledOK(own, dep) /\ AnswersOK
  BY DEF CallInv
<1>p. /\ pc[p] = "handler" /\ pc'[p] \in {"flush", "chain"} /\ pc' \in [Procs -> Labels] /\ Busy(p)
      /\ \A q \in Procs : q # p => pc'[q] = pc[q]
  BY <1>h DEF TypesOK, Labels, Busy, Off, Awake, Handler, Goto, Raise, mount, headers, procs, counts, server, mntgate
<1>b. cur[p] \in Tags /\ orig[p] \in Tags /\ own[cur[p]] = p /\ own[orig[p]] = p
  BY <1>h, <1>p, OwnCur
<1>r. SleepersOnly
  BY <1>h, MntgateHeaders, SameHeaders DEF Handler
<1>a. Aside /\ rip' = (IF rip = p THEN None ELSE rip) /\ err' = err /\ killed' = killed
  BY DEF Aside, Handler, Goto, Raise, mount, headers, procs, counts, server, mntgate
<1>k. pc'[p] = IF err[p] = "Eintr" THEN "flush" ELSE "chain"
  BY <1>h, <1>b DEF TypesOK, done, Handler, Goto, Raise, mount, headers, procs, counts, server, mntgate
<1>1. TypesOK'
  BY <1>h, <1>p, <1>b, <1>r, <1>a DEF TypesOK, SleepersOnly, Aside
<1>d. done' = done
  BY <1>r DEF done, SleepersOnly
<1>e. /\ Doomed(p) => Doomed(p)'
      /\ pc'[p] \in Settled => Doomed(p)' \/ pc[p] \in Settled \/ cur[p] \in done
  BY <1>h, <1>p, <1>a, <1>k, Numbers DEF TypesOK, PlacesOK, PlaceOK, Doomed, Settled, Aside
<1>2. Quiet(p)
  BY <1>h, <1>p, <1>b, <1>r, <1>a, <1>e DEF TypesOK, Quiet, SleepersOnly, Aside
<1>3. ASSUME NEW q \in Procs PROVE PlaceOK(q)'
  <2>1. PlaceOK(q) /\ PlaceOK(p)
    BY <1>h DEF PlacesOK
  <2>2. CASE q = p
    BY <1>h, <1>p, <1>b, <1>d, <1>a, <1>k, <2>1, <2>2, Numbers DEF TypesOK, PlaceOK, Reading, Aside
  <2>3. CASE q # p
    BY <1>h, <1>p, <1>b, <1>d, <1>a, <2>1, <2>3, Numbers DEF TypesOK, PlaceOK, Reading, Aside
  <2>4. QED
    BY <2>2, <2>3
<1>4. QED
  BY <1>1, <1>2, <1>3, QuietOK DEF CallInv, PlacesOK

(* Along the chain. *)
LEMMA FlushTestOK ==
  ASSUME NEW own \in Owners, NEW dep \in Depths, CallInv(own, dep), NEW p \in Procs, FlushTest(p)
  PROVE  CallInv(own, dep)'
<1>h. /\ TypesOK /\ PlacesOK /\ TagsOK(own) /\ ChainsOK(own, dep) /\ QueueOK(own)
      /\ FlightOK(own) /\ OrderOK(own, dep) /\ SettledOK(own, dep) /\ AnswersOK
  BY DEF CallInv
<1>p. /\ pc[p] = "chain" /\ pc'[p] \in {"return", "free", "qrm"} /\ pc' \in [Procs -> Labels] /\ Busy(p)
      /\ \A q \in Procs : q # p => pc'[q] = pc[q]
  BY <1>h DEF TypesOK, Labels, Busy, Off, Awake, FlushTest, Goto, Raise, mount, headers, procs, counts, server, Off
<1>b. cur[p] \in Tags /\ orig[p] \in Tags /\ own[cur[p]] = p /\ own[orig[p]] = p
  BY <1>h, <1>p, OwnCur
<1>r. SleepersOnly
  BY <1>h, SameHeaders DEF FlushTest, headers
<1>f. rpc[cur[p]].flushed = None <=> cur[p] = orig[p]
  BY <1>h, <1>b, Numbers DEF ChainsOK
<1>a. Aside /\ rip' = rip /\ err' = err /\ killed' = killed
  BY DEF Aside, FlushTest, Goto, Raise, mount, headers, procs, counts, server, Off
<1>k. /\ pc'[p] = "qrm" \/ cur[p] \in done
      /\ pc'[p] = "return" => cur[p] = orig[p]
      /\ pc'[p] = "free" => cur[p] # orig[p]
  BY <1>h, <1>b, <1>f DEF TypesOK, done, FlushTest, Goto, Raise, mount, headers, procs, counts, server, Off
<1>1. TypesOK'
  BY <1>h, <1>p, <1>b, <1>r, <1>a DEF TypesOK, SleepersOnly, Aside
<1>d. done' = done
  BY <1>r DEF done, SleepersOnly
<1>e. /\ Doomed(p) => Doomed(p)'
      /\ pc'[p] \in Settled => Doomed(p)' \/ pc[p] \in Settled \/ cur[p] \in done
  BY <1>h, <1>p, <1>a, <1>k, Numbers DEF TypesOK, PlacesOK, PlaceOK, Doomed, Settled, Aside
<1>2. Quiet(p)
  BY <1>h, <1>p, <1>b, <1>r, <1>a, <1>e DEF TypesOK, Quiet, SleepersOnly, Aside
<1>3. ASSUME NEW q \in Procs PROVE PlaceOK(q)'
  <2>1. PlaceOK(q) /\ PlaceOK(p)
    BY <1>h DEF PlacesOK
  <2>2. CASE q = p
    BY <1>h, <1>p, <1>b, <1>d, <1>a, <1>k, <2>1, <2>2, Numbers DEF TypesOK, PlaceOK, Reading, Aside
  <2>3. CASE q # p
    BY <1>h, <1>p, <1>b, <1>d, <1>a, <2>1, <2>3, Numbers DEF TypesOK, PlaceOK, Reading, Aside
  <2>4. QED
    BY <2>2, <2>3
<1>4. QED
  BY <1>1, <1>2, <1>3, QuietOK DEF CallInv, PlacesOK

(* swiproc changes nothing that matters to the headers. *)
LEMMA InterruptOK ==
  ASSUME NEW own \in Owners, NEW dep \in Depths, CallInv(own, dep), NEW p \in Procs, Interrupt(p)
  PROVE  CallInv(own, dep)'
<1>h. /\ TypesOK /\ PlacesOK /\ TagsOK(own) /\ ChainsOK(own, dep) /\ QueueOK(own)
      /\ FlightOK(own) /\ OrderOK(own, dep) /\ SettledOK(own, dep) /\ AnswersOK
  BY DEF CallInv
<1>1. rpc \in [Tags -> Header] /\ pc' = pc /\ err' = err /\ rip' = rip /\ pc[p] # "idle"
  BY <1>h DEF TypesOK, Interrupt, mount
<1>r. SleepersOnly
  <2>1. \A t \in Tags :
          rpc'[t] = [rpc[t] EXCEPT !.sleeper = IF rpc[t].sleeper = p THEN None ELSE rpc[t].sleeper]
    BY <1>1 DEF Interrupt
  <2>2. ASSUME NEW g \in Header
        PROVE  LET k == [g EXCEPT !.sleeper = IF g.sleeper = p THEN None ELSE g.sleeper] IN
               k \in Header /\ k.done = g.done /\ k.flushed = g.flushed /\ k.call = g.call
               /\ k.oldtag = g.oldtag /\ k.reply = g.reply
    BY DEF Header
  <2>3. rpc' = [t \in Tags |-> rpc'[t]]
    BY DEF Interrupt
  <2>4. \A t \in Tags : rpc'[t] \in Header
    BY ZenonT(60), <1>1, <2>1, <2>2
  <2>5. QED
    BY ZenonT(60), <1>1, <2>1, <2>2, <2>3, <2>4 DEF SleepersOnly
<1>d. done' = done
  BY <1>r DEF done, SleepersOnly
<1>2. TypesOK'
  <2>1. interrupts' \in 0..MaxInterrupts /\ killed' \in [Procs -> BOOLEAN]
    BY <1>h, MntAssumption DEF TypesOK, Interrupt
  <2>2. QED
    BY <1>h, <1>1, <1>r, <2>1 DEF TypesOK, SleepersOnly, Interrupt, mount, server
<1>b. cur[p] \in Tags
  BY <1>h, <1>1, OwnCur DEF Busy
<1>3. Quiet(p)
  BY <1>1, <1>b, <1>r DEF SleepersOnly, Quiet, Doomed, Interrupt, mount, server
<1>4. PlacesOK'
  BY <1>h, <1>1, <1>d DEF PlacesOK, PlaceOK, Reading, Interrupt, mount, server
<1>5. QED
  BY <1>2, <1>3, <1>4, QuietOK DEF CallInv

(* A change of a reply and of who is on the Rendez leaves a header. *)
LEMMA ReplySet ==
  ASSUME NEW g \in Header, NEW y \in [tag : Tags \cup {None}, of : Calls \cup {Rflush, None}]
  PROVE  LET k == [g EXCEPT !.reply = y] IN
         k \in Header /\ k.done = g.done /\ k.flushed = g.flushed /\ k.call = g.call
         /\ k.oldtag = g.oldtag /\ k.reply = y
  BY DEF Header

(* The reader wakes the process whose answer it has read, perhaps late. *)
LEMMA MuxWakeupOK ==
  ASSUME NEW own \in Owners, NEW dep \in Depths, CallInv(own, dep), NEW p \in Procs, MuxWakeup(p)
  PROVE  CallInv(own, dep)'
<1>h. /\ TypesOK /\ PlacesOK /\ TagsOK(own) /\ ChainsOK(own, dep) /\ QueueOK(own)
      /\ FlightOK(own) /\ OrderOK(own, dep) /\ SettledOK(own, dep) /\ AnswersOK
  BY DEF CallInv
<1>p. /\ pc[p] = "muxwake" /\ pc'[p] = "read" /\ pc' \in [Procs -> Labels] /\ Busy(p)
      /\ \A q \in Procs : q # p => pc'[q] = pc[q]
  BY <1>h DEF TypesOK, Labels, Busy, MuxWakeup, Goto
<1>b. cur[p] \in Tags /\ orig[p] \in Tags /\ own[cur[p]] = p /\ own[orig[p]] = p
  BY <1>h, <1>p, OwnCur
<1>k. cur[p] \notin done /\ late[p] \in Tags
  BY <1>h, <1>p DEF PlacesOK, PlaceOK, TypesOK
<1>a. /\ queue' = queue /\ rpcfree' = rpcfree /\ tagmask' = tagmask /\ orig' = orig /\ cur' = cur
      /\ late' = [late EXCEPT ![p] = None] /\ todo' = todo /\ interrupts' = interrupts
      /\ owed' = owed /\ replies' = replies /\ hungup' = hungup /\ rip' = rip /\ err' = err
      /\ killed' = killed
  BY DEF MuxWakeup, mount, counts, server
<1>r. /\ rpc' \in [Tags -> Header]
      /\ \A t \in Tags : /\ rpc'[t].done = rpc[t].done /\ rpc'[t].flushed = rpc[t].flushed
                         /\ rpc'[t].call = rpc[t].call /\ rpc'[t].oldtag = rpc[t].oldtag
                         /\ t # cur[p] => rpc'[t].reply = rpc[t].reply
  <2> DEFINE one == [rpc EXCEPT ![late[p]].sleeper = None]
  <2>1. NoReply \in [tag : Tags \cup {None}, of : Calls \cup {Rflush, None}]
    BY DEF NoReply
  <2>2. rpc \in [Tags -> Header]
    BY <1>h DEF TypesOK
  <2>3. \A g \in Header :
          LET k == [g EXCEPT !.sleeper = None] IN
          k \in Header /\ k.done = g.done /\ k.flushed = g.flushed /\ k.call = g.call
          /\ k.oldtag = g.oldtag /\ k.reply = g.reply
    BY DEF Header
  <2>4. /\ one \in [Tags -> Header]
        /\ \A t \in Tags : one[t] = IF t = late[p] THEN [rpc[t] EXCEPT !.sleeper = None] ELSE rpc[t]
    BY <1>k, <2>2, <2>3
  <2>5. rpc' = [one EXCEPT ![cur[p]] = [one[cur[p]] EXCEPT !.reply = NoReply]]
    BY DEF MuxWakeup
  <2> HIDE DEF one
  <2>6. \A t \in Tags : /\ one[t].done = rpc[t].done /\ one[t].flushed = rpc[t].flushed
                        /\ one[t].call = rpc[t].call /\ one[t].oldtag = rpc[t].oldtag
                        /\ one[t].reply = rpc[t].reply
    BY ZenonT(60), <2>2, <2>3, <2>4
  <2>7. /\ rpc' \in [Tags -> Header]
        /\ \A t \in Tags : rpc'[t] = IF t = cur[p] THEN [one[t] EXCEPT !.reply = NoReply] ELSE one[t]
    BY <1>b, <2>1, <2>4, <2>5, ReplySet
  <2>8. \A g \in Header :
          /\ [g EXCEPT !.reply = NoReply].done = g.done
          /\ [g EXCEPT !.reply = NoReply].flushed = g.flushed
          /\ [g EXCEPT !.reply = NoReply].call = g.call
          /\ [g EXCEPT !.reply = NoReply].oldtag = g.oldtag
    BY DEF Header
  <2>9. ASSUME NEW t \in Tags
        PROVE  /\ rpc'[t].done = rpc[t].done /\ rpc'[t].flushed = rpc[t].flushed
               /\ rpc'[t].call = rpc[t].call /\ rpc'[t].oldtag = rpc[t].oldtag
               /\ t # cur[p] => rpc'[t].reply = rpc[t].reply
    <3>1. one[t] \in Header
      BY <2>4
    <3>2. CASE t = cur[p]
      BY ZenonT(60), <2>6, <2>7, <2>8, <3>1, <3>2
    <3>3. CASE t # cur[p]
      BY <2>6, <2>7, <3>3
    <3>4. QED
      BY <3>2, <3>3
  <2>10. QED
    BY <2>7, <2>9
<1>d. done' = done
  BY <1>r DEF done
<1>1. TypesOK'
  BY <1>h, <1>p, <1>r, <1>a DEF TypesOK
<1>2. Quiet(p)
  BY <1>h, <1>p, <1>b, <1>k, <1>r, <1>a DEF Quiet, Doomed, Settled
<1>3. ASSUME NEW q \in Procs PROVE PlaceOK(q)'
  <2>1. PlaceOK(q) /\ PlaceOK(p)
    BY <1>h DEF PlacesOK
  <2>2. CASE q = p
    BY <1>p, <1>a, <1>d, <2>1, <2>2 DEF PlaceOK, Reading
  <2>3. CASE q # p
    BY <1>h, <1>p, <1>a, <1>d, <2>1, <2>3 DEF PlaceOK, Reading, TypesOK
  <2>4. QED
    BY <2>2, <2>3
<1>4. QED
  BY <1>1, <1>2, <1>3, QuietOK DEF CallInv, PlacesOK
----------------------------------------------------------------------------
(* A message is sent: it is behind all that is under way for the same call. *)
SendsOwed(p) ==
  /\ ~hungup /\ pc[p] = "write" /\ owed' = Append(owed, Message(cur[p]))

(* Rises for calls that are not doomed. *)
Rise(own, dep, t, u) == own[t] # None /\ own[t] = own[u] => dep[t] < dep[u]

LEMMA MessageTyped ==
  ASSUME TypesOK, NEW t \in Tags
  PROVE  Message(t) \in Requests
<1>1. rpc[t] \in Header
  BY DEF TypesOK
<1>2. rpc[t].call \in Calls \cup {None} /\ rpc[t].oldtag \in Tags \cup {None}
  BY <1>1 DEF Header
<1>3. QED
  BY <1>2 DEF Message, Requests

LEMMA SendOK ==
  ASSUME NEW own \in Owners, NEW dep \in Depths, CallInv(own, dep), NEW p \in Procs,
         queue' = queue, rpcfree' = rpcfree, tagmask' = tagmask, orig' = orig, cur' = cur,
         rpc' = rpc, replies' = replies, hungup' = hungup, SendsOwed(p),
         \A q \in Procs : q # p => pc'[q] = pc[q] /\ err'[q] = err[q],
         pc'[p] \in {"gate", "handler"}, err'[p] # "fail", TypesOK', PlacesOK'
  PROVE  CallInv(own, dep)'
<1>h. /\ TypesOK /\ PlacesOK /\ TagsOK(own) /\ ChainsOK(own, dep) /\ QueueOK(own)
      /\ FlightOK(own) /\ OrderOK(own, dep) /\ SettledOK(own, dep) /\ AnswersOK
  BY DEF CallInv
<1>b. cur[p] \in Tags /\ orig[p] \in Tags /\ own[cur[p]] = p /\ own[orig[p]] = p
  BY <1>h, OwnCur DEF Busy, SendsOwed
<1> DEFINE c == cur[p]
           k == Len(owed) + 1
<1>1. /\ Len(owed) \in Nat /\ Len(owed') = Len(owed) + 1
      /\ \A n \in 1..Len(owed) : owed'[n] = owed[n]
      /\ owed'[Len(owed) + 1] = Message(c)
  <2>1. Message(c) \in Requests
    BY <1>h, <1>b, MessageTyped
  <2>2. owed \in Seq(Requests)
    BY <1>h DEF TypesOK
  <2>3. QED
    BY <2>1, <2>2, PutLast DEF SendsOwed
<1>2. Message(c).tag = c /\ Message(c)' = Message(c)
  BY DEF Message
<1>3. /\ done' = done /\ waiting' = waiting /\ spare' = spare
      /\ \A q \in Procs : (Busy(q) <=> Busy(q)') /\ ~Doomed(q) /\ ~Doomed(q)'
  BY <1>h DEF done, waiting, spare, Busy, Doomed, SendsOwed, PlacesOK, PlaceOK
<1>4. \A t \in Tags : (Live(own, t) <=> own[t] # None) /\ (Live(own, t)' <=> own[t] # None)
  BY <1>3 DEF Live, Owners
<1>5. held' = held
  BY DEF held, SendsOwed
<1>6. flight' = flight \cup {c}
  <2>1. \A x : x \in flight' =>  x \in flight \cup {c}
    <3>1. SUFFICES ASSUME NEW n \in 1..Len(owed') PROVE owed'[n].tag \in flight \cup {c}
      BY <1>5 DEF flight
    <3>2. n \in 1..Len(owed) \/ n = Len(owed) + 1
      BY <1>1
    <3>3. QED
      BY <1>1, <1>2, <3>2 DEF flight
  <2>2. c \in flight'
    <3>1. Len(owed) + 1 \in 1..Len(owed') /\ owed'[Len(owed) + 1].tag = c
      BY <1>1, <1>2
    <3>2. QED
      BY <3>1 DEF flight
  <2>3. flight \subseteq flight'
    <3>1. \A n \in 1..Len(owed) : n \in 1..Len(owed') /\ owed'[n].tag = owed[n].tag
      BY <1>1
    <3>2. QED
      BY <1>5, <3>1 DEF flight
  <2>4. QED
    BY <2>1, <2>2, <2>3
<1>7. c \notin flight \cup done /\ ~Doomed(p)
  BY <1>h, <1>3 DEF SettledOK, SendsOwed
<1>8. \A t \in flight : t \in Tags /\ own[t] = p => dep[t] < dep[c]
  <2>1. SUFFICES ASSUME NEW t \in flight, t \in Tags, own[t] = p PROVE dep[t] < dep[c]
    OBVIOUS
  <2>2. dep[t] <= dep[c] /\ t # c /\ dep[t] \in Nat /\ dep[c] \in Nat /\ p # None
    BY <1>h, <1>b, <1>7, <2>1, Numbers DEF ChainsOK, Depths
  <2>3. dep[t] # dep[c]
    BY <1>h, <1>b, <2>1, <2>2 DEF ChainsOK
  <2>4. QED
    BY <2>2, <2>3
<1>9. TagsOK(own)'
  BY <1>h, <1>3 DEF TagsOK, Owners
<1>10. ChainsOK(own, dep)'
  BY <1>h DEF ChainsOK
<1>11. QueueOK(own)'
  BY <1>h, <1>3 DEF QueueOK
<1>12. FlightOK(own)'
  <2>1. ASSUME NEW r, r.tag \in Tags, Genuine(own, r) PROVE Genuine(own, r)'
    BY <1>4, <2>1 DEF Genuine
  <2>2. ASSUME NEW n \in 1..Len(owed')
        PROVE  own[owed'[n].tag] # None /\ owed'[n] = Message(owed'[n].tag)
    <3>1. CASE n \in 1..Len(owed)
      BY <1>h, <1>1, <3>1 DEF FlightOK
    <3>2. CASE n = Len(owed) + 1
      BY <1>1, <1>2, <1>b, <3>2, Numbers
    <3>3. QED
      BY <1>1, <3>1, <3>2
  <2>3. /\ \A n \in 1..Len(replies) : replies[n].tag \in Tags
        /\ \A r \in held : r.tag \in Tags
    BY <1>h, TagsTyped DEF FlightOK, Replies
  <2>4. QED
    BY <1>h, <1>5, <2>1, <2>2, <2>3 DEF FlightOK, Message, SendsOwed
<1>13. OrderOK(own, dep)'
  <2>1. \A t \in Tags : \A u : Rises(own, dep, t, u) => Rise(own, dep, t, u)
    BY <1>4 DEF Rises, Rise
  <2>2. ASSUME NEW t \in flight, t \in Tags PROVE Rise(own, dep, t, c)
    BY <1>8, <1>b, <2>2 DEF Rise
  <2>3. /\ \A n \in 1..Len(owed) : owed[n].tag \in Tags /\ owed[n].tag \in flight
        /\ \A n \in 1..Len(replies) : replies[n].tag \in Tags /\ replies[n].tag \in flight
        /\ \A r \in held : r.tag \in Tags /\ r.tag \in flight
    BY <1>h, TagsTyped DEF FlightOK, Replies, flight
  <2>4. \A n \in 1..Len(owed') : \/ n \in 1..Len(owed) /\ owed'[n] = owed[n]
                                 \/ n = Len(owed) + 1 /\ owed'[n].tag = c
    BY <1>1, <1>2
  <2>5. ASSUME NEW n \in 1..Len(owed'), NEW j \in 1..Len(owed'), n < j
        PROVE  Rise(own, dep, owed'[n].tag, owed'[j].tag)
    <3>1. n \in 1..Len(owed) /\ owed'[n] = owed[n]
      BY <1>1, <2>4, <2>5
    <3>2. CASE j \in 1..Len(owed) /\ owed'[j] = owed[j]
      BY <1>h, <2>1, <2>3, <2>5, <3>1, <3>2 DEF OrderOK
    <3>3. CASE owed'[j].tag = c
      BY <2>2, <2>3, <3>1, <3>3
    <3>4. QED
      BY <2>4, <3>2, <3>3
  <2>6. ASSUME NEW t \in Tags, t \in flight, NEW j \in 1..Len(owed'),
               \A i \in 1..Len(owed) : Rises(own, dep, t, owed[i].tag)
        PROVE  Rise(own, dep, t, owed'[j].tag)
    <3>1. CASE j \in 1..Len(owed) /\ owed'[j] = owed[j]
      BY <2>1, <2>6, <3>1
    <3>2. CASE owed'[j].tag = c
      BY <2>2, <2>6, <3>2
    <3>3. QED
      BY <2>4, <3>1, <3>2
  <2>7. /\ \A n \in 1..Len(replies), j \in 1..Len(owed') : Rise(own, dep, replies[n].tag, owed'[j].tag)
        /\ \A r \in held, j \in 1..Len(owed') : Rise(own, dep, r.tag, owed'[j].tag)
    BY <1>h, <2>3, <2>6 DEF OrderOK
  <2>8. /\ \A n, j \in 1..Len(replies) : n < j => Rise(own, dep, replies[n].tag, replies[j].tag)
        /\ \A r \in held, n \in 1..Len(replies) : Rise(own, dep, r.tag, replies[n].tag)
    BY <1>h, <2>1, <2>3 DEF OrderOK
  <2>9. QED
    BY <1>5, <2>5, <2>7, <2>8 DEF OrderOK, Rises, Rise, Live
<1>14. SettledOK(own, dep)'
  <2>1. ASSUME NEW q \in Procs, pc'[q] = "write" PROVE cur'[q] \notin flight' \cup done'
    <3>1. q # p /\ pc[q] = "write"
      BY <2>1
    <3>2. cur[q] \notin flight \cup done /\ cur[q] # c
      BY <1>h, <1>3, <1>b, <3>1, OwnCur DEF SettledOK, Busy
    <3>3. QED
      BY <1>3, <1>6, <3>2
  <2>2. ASSUME NEW t \in done', NEW u \in Tags, Live(own, t)', own[u] = own[t], dep[u] <= dep[t]
        PROVE  u \notin flight'
    <3>1. t \in Tags /\ t \in done /\ own[t] # None
      BY <1>3, <1>4, <2>2 DEF done
    <3>2. u \notin flight
      BY <1>h, <1>4, <2>2, <3>1 DEF SettledOK
    <3>3. u # c
      <4>1. SUFFICES ASSUME u = c PROVE FALSE
        OBVIOUS
      <4>2. own[t] = p /\ dep[t] <= dep[c] /\ dep[t] \in Nat /\ dep[c] \in Nat
        BY <1>h, <1>b, <2>2, <3>1, <4>1 DEF ChainsOK, Depths
      <4>3. dep[t] = dep[c] /\ own[t] = own[c]
        BY <1>b, <2>2, <4>1, <4>2
      <4>4. t = c
        BY <1>h, <1>b, <3>1, <4>3 DEF ChainsOK
      <4>5. QED
        BY <1>7, <3>1, <4>4
    <3>4. QED
      BY <1>6, <3>2, <3>3
  <2>3. ASSUME NEW u \in Tags, Live(own, u)', pc'[own[u]] \in Settled PROVE u \notin flight'
    <3>1. own[u] \in Procs /\ Live(own, u) /\ own[u] # p
      BY <1>4, <2>3, Numbers DEF Owners, Settled
    <3>2. u \notin flight /\ u # c
      BY <1>h, <1>b, <2>3, <3>1 DEF SettledOK
    <3>3. QED
      BY <1>6, <3>2
  <2>4. QED
    BY <2>1, <2>2, <2>3 DEF SettledOK
<1>15. AnswersOK'
  BY <1>h, <1>3 DEF AnswersOK
<1>16. QED
  BY <1>9, <1>10, <1>11, <1>12, <1>13, <1>14, <1>15 DEF CallInv

(* Write and a write that is interrupted. *)
LEMMA WriteOK ==
  ASSUME NEW own \in Owners, NEW dep \in Depths, CallInv(own, dep), NEW p \in Procs, Write(p)
  PROVE  CallInv(own, dep)'
<1>h. /\ TypesOK /\ PlacesOK /\ TagsOK(own) /\ ChainsOK(own, dep) /\ QueueOK(own)
      /\ FlightOK(own) /\ OrderOK(own, dep) /\ SettledOK(own, dep) /\ AnswersOK
  BY DEF CallInv
<1>p. /\ pc[p] = "write" /\ pc'[p] = "gate" /\ pc' \in [Procs -> Labels] /\ Busy(p)
      /\ \A q \in Procs : q # p => pc'[q] = pc[q]
  BY <1>h DEF TypesOK, Labels, Busy, Write, Goto
<1>b. cur[p] \in Tags
  BY <1>h, <1>p, OwnCur
<1>a. /\ queue' = queue /\ rpcfree' = rpcfree /\ tagmask' = tagmask /\ orig' = orig /\ cur' = cur
      /\ late' = late /\ todo' = todo /\ interrupts' = interrupts /\ rpc' = rpc
      /\ replies' = replies /\ hungup' = hungup /\ rip' = rip /\ err' = err
      /\ killed' = killed /\ SendsOwed(p)
  BY DEF Write, Goto, SendsOwed, mount, headers, counts
<1>1. owed' \in Seq(Requests)
  <2>1. owed \in Seq(Requests) /\ Message(cur[p]) \in Requests
    BY <1>h, <1>b, MessageTyped DEF TypesOK
  <2>2. QED
    BY <1>a, <2>1, PutLast DEF SendsOwed
<1>2. TypesOK'
  BY <1>h, <1>p, <1>a, <1>1 DEF TypesOK
<1>d. done' = done
  BY <1>a DEF done
<1>3. ASSUME NEW q \in Procs PROVE PlaceOK(q)'
  <2>1. PlaceOK(q) /\ PlaceOK(p)
    BY <1>h DEF PlacesOK
  <2>2. CASE q = p
    BY <1>p, <1>a, <1>d, <2>1, <2>2 DEF PlaceOK, Reading
  <2>3. CASE q # p
    BY <1>h, <1>p, <1>a, <1>d, <2>1, <2>3 DEF PlaceOK, Reading, TypesOK
  <2>4. QED
    BY <2>2, <2>3
<1>4. err'[p] # "fail"
  BY <1>h, <1>p, <1>a DEF PlacesOK, PlaceOK
<1>5. QED
  BY <1>p, <1>a, <1>2, <1>3, <1>4, SendOK DEF PlacesOK

LEMMA WriteInterruptedOK ==
  ASSUME NEW own \in Owners, NEW dep \in Depths, CallInv(own, dep), NEW p \in Procs, WriteInterrupted(p)
  PROVE  CallInv(own, dep)'
<1>h. /\ TypesOK /\ PlacesOK /\ TagsOK(own) /\ ChainsOK(own, dep) /\ QueueOK(own)
      /\ FlightOK(own) /\ OrderOK(own, dep) /\ SettledOK(own, dep) /\ AnswersOK
  BY DEF CallInv
<1>p. /\ pc[p] = "write" /\ pc'[p] = "handler" /\ pc' \in [Procs -> Labels] /\ Busy(p)
      /\ \A q \in Procs : q # p => pc'[q] = pc[q]
  BY <1>h DEF TypesOK, Labels, Busy, WriteInterrupted, Goto
<1>b. cur[p] \in Tags
  BY <1>h, <1>p, OwnCur
<1>a. /\ queue' = queue /\ rpcfree' = rpcfree /\ tagmask' = tagmask /\ orig' = orig /\ cur' = cur
      /\ late' = late /\ todo' = todo /\ interrupts' = interrupts /\ rpc' = rpc
      /\ replies' = replies /\ hungup' = hungup /\ rip' = rip /\ err' = [err EXCEPT ![p] = "Eintr"]
      /\ killed' = [killed EXCEPT ![p] = FALSE]
      /\ owed' = owed \/ SendsOwed(p)
  BY DEF WriteInterrupted, Goto, Raise, SendsOwed, mount, headers, counts
<1>1. owed' \in Seq(Requests)
  <2>1. owed \in Seq(Requests) /\ Message(cur[p]) \in Requests
    BY <1>h, <1>b, MessageTyped DEF TypesOK
  <2>2. QED
    BY <1>a, <2>1, PutLast DEF SendsOwed
<1>2. TypesOK'
  BY <1>h, <1>p, <1>a, <1>1 DEF TypesOK
<1>d. done' = done
  BY <1>a DEF done
<1>e. err'[p] = "Eintr" /\ \A q \in Procs : q # p => err'[q] = err[q]
  BY <1>h, <1>a DEF TypesOK
<1>3. ASSUME NEW q \in Procs PROVE PlaceOK(q)'
  <2>1. PlaceOK(q) /\ PlaceOK(p)
    BY <1>h DEF PlacesOK
  <2>2. CASE q = p
    BY <1>p, <1>a, <1>d, <1>e, <2>1, <2>2, Numbers DEF PlaceOK, Reading
  <2>3. CASE q # p
    BY <1>h, <1>p, <1>a, <1>d, <1>e, <2>1, <2>3 DEF PlaceOK, Reading, TypesOK
  <2>4. QED
    BY <2>2, <2>3
<1>4. CASE SendsOwed(p)
  BY <1>p, <1>a, <1>e, <1>2, <1>3, <1>4, SendOK DEF PlacesOK
<1>5. CASE owed' = owed
  <2>1. err[p] # "fail"
    BY <1>h, <1>p DEF PlacesOK, PlaceOK
  <2>2. Quiet(p)
    BY <1>p, <1>a, <1>e, <1>5, <2>1 DEF Quiet, Doomed, Settled
  <2>3. QED
    BY <1>2, <1>3, <2>2, QuietOK DEF CallInv, PlacesOK
<1>6. QED
  BY <1>a, <1>4, <1>5

----------------------------------------------------------------------------
(* Order and genuineness after a step, from what they were before. *)
LEMMA OrderLater ==
  ASSUME NEW own, NEW dep, \A t \in Tags : Live(own, t)' => Live(own, t), TypesOK',
         \A r \in held' : r.tag \in Tags,
         \A n, k \in 1..Len(owed') : n < k => Rises(own, dep, owed'[n].tag, owed'[k].tag),
         \A n, k \in 1..Len(replies') : n < k => Rises(own, dep, replies'[n].tag, replies'[k].tag),
         \A n \in 1..Len(replies'), k \in 1..Len(owed') : Rises(own, dep, replies'[n].tag, owed'[k].tag),
         \A r \in held', n \in 1..Len(replies') : Rises(own, dep, r.tag, replies'[n].tag),
         \A r \in held', k \in 1..Len(owed') : Rises(own, dep, r.tag, owed'[k].tag)
  PROVE  OrderOK(own, dep)'
<1>1. /\ \A n \in 1..Len(owed') : owed'[n].tag \in Tags
      /\ \A n \in 1..Len(replies') : replies'[n].tag \in Tags
  BY TagsTypedLater
<1>2. \A t \in Tags : own[t] # None /\ ~Doomed(own[t])' => own[t] # None /\ ~Doomed(own[t])
  BY DEF Live
<1>3. QED
  BY <1>1, <1>2 DEF OrderOK, Rises, Live, Doomed

LEMMA FlightLater ==
  ASSUME NEW own, \A t \in Tags : Live(own, t)' => Live(own, t), TypesOK',
         \A t \in Tags : rpc'[t].call = rpc[t].call /\ rpc'[t].oldtag = rpc[t].oldtag,
         hungup' = hungup, hungup => owed' = <<>>,
         \A n \in 1..Len(owed') : own[owed'[n].tag] # None /\ owed'[n] = Message(owed'[n].tag),
         \A n \in 1..Len(replies') : Genuine(own, replies'[n]),
         \A r \in held' : r \in Replies /\ r.tag \in Tags /\ Genuine(own, r)
  PROVE  FlightOK(own)'
<1>1. /\ \A n \in 1..Len(owed') : owed'[n].tag \in Tags
      /\ \A n \in 1..Len(replies') : replies'[n].tag \in Tags
  BY TagsTypedLater
<1>2. \A t \in Tags : own[t] # None /\ ~Doomed(own[t])' => own[t] # None /\ ~Doomed(own[t])
  BY DEF Live
<1>3. \A n \in 1..Len(owed') : own[owed'[n].tag] # None /\ owed'[n] = Message(owed[n].tag)'
  BY <1>1 DEF Message
<1>4. \A n \in 1..Len(replies') : Genuine(own, replies[n])'
  BY <1>1, <1>2 DEF Genuine, Live, Doomed
<1>5. \A r \in held' : Genuine(own, r)'
  BY <1>2 DEF Genuine, Live, Doomed
<1>6. QED
  BY <1>3, <1>4, <1>5 DEF FlightOK

LEMMA ReplyPut ==
  ASSUME rpc \in [Tags -> Header], NEW t \in Tags,
         NEW y \in [tag : Tags \cup {None}, of : Calls \cup {Rflush, None}],
         rpc' = [rpc EXCEPT ![t].reply = y]
  PROVE  /\ rpc' \in [Tags -> Header] /\ rpc'[t].reply = y
         /\ \A u \in Tags : /\ rpc'[u].done = rpc[u].done /\ rpc'[u].flushed = rpc[u].flushed
                            /\ rpc'[u].call = rpc[u].call /\ rpc'[u].oldtag = rpc[u].oldtag
                            /\ u # t => rpc'[u].reply = rpc[u].reply
<1>1. \A g \in Header :
        /\ [g EXCEPT !.reply = y] \in Header /\ [g EXCEPT !.reply = y].reply = y
        /\ [g EXCEPT !.reply = y].done = g.done
        /\ [g EXCEPT !.reply = y].flushed = g.flushed
        /\ [g EXCEPT !.reply = y].call = g.call
        /\ [g EXCEPT !.reply = y].oldtag = g.oldtag
  BY DEF Header
<1>2. /\ rpc[t] \in Header /\ rpc'[t] = [rpc[t] EXCEPT !.reply = y]
      /\ \A u \in Tags : u # t => rpc'[u] = rpc[u]
  OBVIOUS
<1>3. rpc' \in [Tags -> Header]
  BY <1>1
<1>4. QED
  BY <1>1, <1>2, <1>3

(* The reader takes the next reply into its hands. *)
LEMMA MntrpcreadOK ==
  ASSUME NEW own \in Owners, NEW dep \in Depths, CallInv(own, dep), NEW p \in Procs, mntrpcread(p)
  PROVE  CallInv(own, dep)'
<1>h. /\ TypesOK /\ PlacesOK /\ TagsOK(own) /\ ChainsOK(own, dep) /\ QueueOK(own)
      /\ FlightOK(own) /\ OrderOK(own, dep) /\ SettledOK(own, dep) /\ AnswersOK
  BY DEF CallInv
<1>p. /\ pc[p] = "read" /\ pc'[p] = "mux" /\ pc' \in [Procs -> Labels] /\ Busy(p)
      /\ \A q \in Procs : q # p => pc'[q] = pc[q]
  BY <1>h DEF TypesOK, Labels, Busy, mntrpcread, Goto
<1>b. cur[p] \in Tags /\ orig[p] \in Tags /\ own[cur[p]] = p /\ own[orig[p]] = p
  BY <1>h, <1>p, OwnCur
<1>a. /\ queue' = queue /\ rpcfree' = rpcfree /\ tagmask' = tagmask /\ orig' = orig /\ cur' = cur
      /\ late' = late /\ todo' = todo /\ interrupts' = interrupts
      /\ owed' = owed /\ hungup' = hungup /\ rip' = rip /\ err' = err /\ killed' = killed
      /\ replies # <<>> /\ replies' = Tail(replies)
      /\ rpc' = [rpc EXCEPT ![cur[p]].reply = Head(replies)]
  BY DEF mntrpcread, mount, counts
<1>k. cur[p] \notin done /\ rip = p
  BY <1>h, <1>p DEF PlacesOK, PlaceOK, Reading
<1>o. \A q \in Procs : q # p => pc[q] \notin {"read", "mux", "muxwake", "gated"}
  BY <1>h, <1>k DEF PlacesOK, PlaceOK, Reading
<1> DEFINE y == Head(replies)
<1>s. /\ replies' \in Seq(Replies) /\ y \in Replies /\ Len(replies') = Len(replies) - 1
      /\ Len(replies) \in Nat \ {0} /\ y = replies[1]
      /\ \A i \in 1..Len(replies') : i + 1 \in 1..Len(replies) /\ replies'[i] = replies[i + 1]
  <2>1. replies \in Seq(Replies)
    BY <1>h DEF TypesOK
  <2>2. QED
    BY <1>a, <2>1, TakeFirst
<1>t. y.tag \in Tags /\ y \in [tag : Tags \cup {None}, of : Calls \cup {Rflush, None}]
  BY <1>s DEF Replies
<1> HIDE DEF y
<1>r. /\ rpc' \in [Tags -> Header] /\ rpc'[cur[p]].reply = y
      /\ \A t \in Tags : /\ rpc'[t].done = rpc[t].done /\ rpc'[t].flushed = rpc[t].flushed
                         /\ rpc'[t].call = rpc[t].call /\ rpc'[t].oldtag = rpc[t].oldtag
                         /\ t # cur[p] => rpc'[t].reply = rpc[t].reply
  BY <1>h, <1>a, <1>b, <1>t, ReplyPut DEF TypesOK, y
<1>d. done' = done
  BY <1>r DEF done
<1>1. TypesOK'
  BY <1>h, <1>p, <1>a, <1>s, <1>r DEF TypesOK
<1>3. ASSUME NEW q \in Procs PROVE PlaceOK(q)'
  <2>1. PlaceOK(q) /\ PlaceOK(p)
    BY <1>h DEF PlacesOK
  <2>2. CASE q = p
    BY <1>p, <1>a, <1>b, <1>d, <1>k, <2>1, <2>2, Numbers DEF PlaceOK, Reading
  <2>3. CASE q # p
    BY <1>h, <1>p, <1>a, <1>d, <1>o, <2>1, <2>3, Numbers DEF PlaceOK, Reading, TypesOK
  <2>4. QED
    BY <2>2, <2>3
<1>4. /\ waiting' = waiting /\ spare' = spare
      /\ \A q \in Procs : (Busy(q)' <=> Busy(q)) /\ (Doomed(q)' <=> Doomed(q))
  BY <1>p, <1>a DEF waiting, spare, Busy, Doomed
<1>5. \A t \in Tags : Live(own, t)' <=> Live(own, t)
  BY <1>4 DEF Live, Owners
<1>6. held' = {y}
  <2>1. {q \in Procs : pc'[q] = "mux"} = {p}
    BY <1>p, <1>o
  <2>2. QED
    BY <1>a, <1>r, <2>1 DEF held
<1>7. flight' \subseteq flight
  <2>1. y.tag \in flight /\ \A i \in 1..Len(replies') : replies'[i].tag \in flight
    <3>1. \A i \in 1..Len(replies) : replies[i].tag \in flight
      BY DEF flight
    <3>2. 1 \in 1..Len(replies) /\ y = replies[1]
      BY <1>s
    <3>3. QED
      BY <1>s, <3>1, <3>2
  <2>2. QED
    BY <1>6, <1>a, <2>1 DEF flight
<1>8. TagsOK(own)'
  BY <1>h, <1>a, <1>4 DEF TagsOK, Owners
<1>9. ChainsOK(own, dep)'
  BY <1>h, <1>a, <1>r DEF ChainsOK
<1>10. QueueOK(own)'
  BY <1>h, <1>a, <1>d, <1>4 DEF QueueOK
<1>11. FlightOK(own)'
  <2>1. Genuine(own, y) /\ \A i \in 1..Len(replies') : Genuine(own, replies'[i])
    BY <1>h, <1>s DEF FlightOK
  <2>2. /\ hungup => owed' = <<>>
        /\ \A n \in 1..Len(owed') : own[owed'[n].tag] # None /\ owed'[n] = Message(owed'[n].tag)
    BY <1>h, <1>a DEF FlightOK
  <2>3. \A r \in held' : r \in Replies /\ r.tag \in Tags /\ Genuine(own, r)
    BY <1>6, <1>s, <1>t, <2>1
  <2>4. QED
    BY <1>1, <1>5, <1>r, <1>a, <2>1, <2>2, <2>3, FlightLater
<1>12. OrderOK(own, dep)'
  <2>1. \A n, k \in 1..Len(owed') : n < k => Rises(own, dep, owed'[n].tag, owed'[k].tag)
    BY <1>h, <1>a DEF OrderOK
  <2>2. ASSUME NEW n \in 1..Len(replies'), NEW k \in 1..Len(replies'), n < k
        PROVE  Rises(own, dep, replies'[n].tag, replies'[k].tag)
    <3>1. /\ n + 1 \in 1..Len(replies) /\ k + 1 \in 1..Len(replies) /\ n + 1 < k + 1
          /\ replies'[n] = replies[n + 1] /\ replies'[k] = replies[k + 1]
      BY <1>s, <2>2
    <3>2. QED
      BY <1>h, <3>1 DEF OrderOK
  <2>3. \A n \in 1..Len(replies'), k \in 1..Len(owed') : Rises(own, dep, replies'[n].tag, owed'[k].tag)
    BY <1>h, <1>a, <1>s DEF OrderOK
  <2>4. ASSUME NEW n \in 1..Len(replies') PROVE Rises(own, dep, y.tag, replies'[n].tag)
    <3>1. 1 \in 1..Len(replies) /\ n + 1 \in 1..Len(replies) /\ 1 < n + 1 /\ replies'[n] = replies[n + 1]
      BY <1>s
    <3>2. Rises(own, dep, replies[1].tag, replies[n + 1].tag)
      BY <1>h, <3>1 DEF OrderOK
    <3>3. QED
      BY <1>s, <3>1, <3>2
  <2>5. \A k \in 1..Len(owed') : Rises(own, dep, y.tag, owed'[k].tag)
    BY SMTT(60), <1>h, <1>a, <1>s DEF OrderOK
  <2>6. QED
    BY <1>1, <1>5, <1>6, <1>t, <2>1, <2>2, <2>3, <2>4, <2>5, OrderLater
<1>13. SettledOK(own, dep)'
  <2>1. ASSUME NEW q \in Procs, pc'[q] = "write", ~Doomed(q)' PROVE cur'[q] \notin flight' \cup done'
    BY <1>h, <1>p, <1>a, <1>d, <1>4, <1>7, <2>1 DEF SettledOK
  <2>2. ASSUME NEW u \in done', NEW v \in Tags, Live(own, u)', own[v] = own[u], dep[v] <= dep[u]
        PROVE  v \notin flight'
    <3>1. u \in Tags
      BY <2>2 DEF done
    <3>2. QED
      BY <1>h, <1>d, <1>5, <1>7, <2>2, <3>1 DEF SettledOK
  <2>3. ASSUME NEW u \in Tags, Live(own, u)', pc'[own[u]] \in Settled PROVE u \notin flight'
    <3>1. own[u] \in Procs /\ Live(own, u) /\ pc[own[u]] \in Settled
      BY <1>p, <1>5, <2>3 DEF Live, Owners, Settled
    <3>2. QED
      BY <1>h, <1>7, <3>1 DEF SettledOK
  <2>4. QED
    BY <2>1, <2>2, <2>3 DEF SettledOK
<1>14. AnswersOK'
  <2>1. SUFFICES ASSUME NEW q \in Procs, Busy(q)', ~Doomed(q)', orig'[q] \in done'
                 PROVE  rpc'[orig'[q]].reply.of \in {rpc'[orig'[q]].call, Rflush}
    BY DEF AnswersOK
  <2>2. orig'[q] = orig[q] /\ orig[q] \in done /\ orig[q] \in Tags /\ orig[q] # cur[p]
    BY <1>a, <1>d, <1>k, <2>1 DEF done
  <2>3. QED
    BY <1>h, <1>4, <1>r, <2>1, <2>2 DEF AnswersOK
<1>15. QED
  BY <1>1, <1>3, <1>8, <1>9, <1>10, <1>11, <1>12, <1>13, <1>14 DEF CallInv, PlacesOK

LEMMA AnswerPut ==
  ASSUME rpc \in [Tags -> Header], NEW t \in Tags,
         NEW y \in [tag : Tags \cup {None}, of : Calls \cup {Rflush, None}],
         rpc' = [rpc EXCEPT ![t].reply = y, ![t].done = TRUE]
  PROVE  /\ rpc' \in [Tags -> Header] /\ rpc'[t].reply = y /\ rpc'[t].done
         /\ \A u \in Tags : /\ u # t => rpc'[u] = rpc[u]
                            /\ rpc'[u].flushed = rpc[u].flushed
                            /\ rpc'[u].call = rpc[u].call /\ rpc'[u].oldtag = rpc[u].oldtag
<1> DEFINE new(g) == [[g EXCEPT !.reply = y] EXCEPT !.done = TRUE]
<1>1. \A g \in Header :
        /\ new(g) \in Header /\ new(g).reply = y /\ new(g).done
        /\ new(g).flushed = g.flushed /\ new(g).call = g.call /\ new(g).oldtag = g.oldtag
  BY DEF Header
<1>2. /\ rpc[t] \in Header /\ rpc'[t] = new(rpc[t])
      /\ \A u \in Tags : u # t => rpc'[u] = rpc[u]
  OBVIOUS
<1>3. rpc' = [u \in Tags |-> rpc'[u]]
  OBVIOUS
<1> HIDE DEF new
<1>4. \A u \in Tags : rpc'[u] \in Header
  BY <1>1, <1>2
<1>5. rpc' \in [Tags -> Header]
  BY <1>3, <1>4
<1>6. QED
  BY <1>1, <1>2, <1>5

(* mountmux finds the rpc that the reply in p's hands answers. *)
LEMMA MountmuxFinds ==
  ASSUME NEW own \in Owners, NEW dep \in Depths, CallInv(own, dep), NEW p \in Procs, mountmux(p),
         Contains(queue, rpc[cur[p]].reply.tag)
  PROVE  CallInv(own, dep)'
<1>h. /\ TypesOK /\ PlacesOK /\ TagsOK(own) /\ ChainsOK(own, dep) /\ QueueOK(own)
      /\ FlightOK(own) /\ OrderOK(own, dep) /\ SettledOK(own, dep) /\ AnswersOK
  BY DEF CallInv
<1> DEFINE y == rpc[cur[p]].reply
           w == y.tag
<1>p. /\ pc[p] = "mux" /\ pc'[p] = (IF w = cur[p] THEN "gated" ELSE "muxwake")
      /\ pc' \in [Procs -> Labels] /\ Busy(p)
      /\ \A q \in Procs : q # p => pc'[q] = pc[q]
  BY <1>h DEF TypesOK, Labels, Busy, mountmux, Goto
<1>b. cur[p] \in Tags /\ orig[p] \in Tags /\ own[cur[p]] = p /\ own[orig[p]] = p
  BY <1>h, <1>p, OwnCur
<1>a. /\ rpcfree' = rpcfree /\ tagmask' = tagmask /\ orig' = orig /\ cur' = cur
      /\ todo' = todo /\ interrupts' = interrupts
      /\ owed' = owed /\ hungup' = hungup /\ rip' = rip /\ err' = err /\ killed' = killed
      /\ replies' = replies /\ queue' = RemoveFirst(queue, w)
      /\ late' = [late EXCEPT ![p] = IF w = cur[p] THEN None ELSE w]
      /\ rpc' = [rpc EXCEPT ![w].reply = y, ![w].done = TRUE]
  BY DEF mountmux, counts, server
<1>y. y \in held /\ y \in Replies /\ w \in Tags /\ Genuine(own, y)
  <2>1. y \in held
    BY <1>p DEF held
  <2>2. y \in Replies /\ Genuine(own, y)
    BY <1>h, <2>1 DEF FlightOK
  <2>3. QED
    BY <2>1, <2>2 DEF Replies
<1>w. w \in waiting /\ own[w] # None /\ w \notin done /\ w \in flight
  <2>1. w \in waiting
    BY DEF Contains, waiting, Members
  <2>2. QED
    BY <1>h, <1>y, <2>1 DEF QueueOK, flight
<1>k. cur[p] \notin done /\ rip = p
  BY <1>h, <1>p DEF PlacesOK, PlaceOK, Reading
<1>o. \A q \in Procs : q # p => pc[q] \notin {"read", "mux", "muxwake", "gated"}
  BY <1>h, <1>k DEF PlacesOK, PlaceOK, Reading
<1>c. \A r \in held : r = y
  BY <1>o DEF held
<1>t. y \in [tag : Tags \cup {None}, of : Calls \cup {Rflush, None}]
  BY <1>y DEF Replies
<1>v. rpc \in [Tags -> Header] /\ queue \in Seq(Tags)
  BY <1>h DEF TypesOK
<1>n. y.of \in {rpc[w].call, Rflush} \/ ~Live(own, w)
  BY <1>y DEF Genuine
<1>u. \A n \in 1..Len(replies) : Rises(own, dep, w, replies[n].tag)
  BY <1>h, <1>y DEF OrderOK
<1>x. \A n \in 1..Len(owed) : Rises(own, dep, w, owed[n].tag)
  BY <1>h, <1>y DEF OrderOK
<1> HIDE DEF y, w
<1>r. /\ rpc' \in [Tags -> Header] /\ rpc'[w].reply = y /\ rpc'[w].done
      /\ \A u \in Tags : /\ u # w => rpc'[u] = rpc[u]
                         /\ rpc'[u].flushed = rpc[u].flushed
                         /\ rpc'[u].call = rpc[u].call /\ rpc'[u].oldtag = rpc[u].oldtag
  BY <1>a, <1>y, <1>t, <1>v, AnswerPut
<1>d. done' = done \cup {w}
  BY <1>r, <1>y DEF done
<1>q. queue' \in Seq(Tags) /\ Distinct(queue') /\ waiting' = waiting \ {w}
  <2>1. Distinct(queue)
    BY <1>h DEF QueueOK
  <2>2. QED
    BY ZenonT(60), <1>a, <1>v, <1>y, <2>1, Unlinked DEF waiting
<1>1. TypesOK'
  BY <1>h, <1>p, <1>a, <1>q, <1>r, <1>y DEF TypesOK
<1>3. ASSUME NEW q \in Procs PROVE PlaceOK(q)'
  <2>1. PlaceOK(q) /\ PlaceOK(p)
    BY <1>h DEF PlacesOK
  <2>2. CASE q = p
    <3>1. late'[p] = IF w = cur[p] THEN None ELSE w
      BY <1>h, <1>a DEF TypesOK
    <3>2. QED
      BY <1>p, <1>a, <1>b, <1>d, <1>k, <1>y, <2>1, <2>2, <3>1, Numbers DEF PlaceOK, Reading
  <2>3. CASE q # p
    BY <1>h, <1>p, <1>a, <1>d, <1>o, <2>1, <2>3, Numbers DEF PlaceOK, Reading, TypesOK
  <2>4. QED
    BY <2>2, <2>3
<1>4. /\ spare' = spare
      /\ \A q \in Procs : (Busy(q)' <=> Busy(q)) /\ (Doomed(q)' <=> Doomed(q))
  BY <1>p, <1>a DEF spare, Busy, Doomed
<1>5. \A t \in Tags : Live(own, t)' <=> Live(own, t)
  BY <1>4 DEF Live, Owners
<1>6. held' = {}
  BY <1>p, <1>o DEF held
<1>7. flight' \subseteq flight
  BY <1>6, <1>a DEF flight
<1>8. TagsOK(own)'
  BY <1>h, <1>a, <1>4 DEF TagsOK, Owners
<1>9. ChainsOK(own, dep)'
  BY <1>h, <1>a, <1>r DEF ChainsOK
<1>10. QueueOK(own)'
  BY <1>h, <1>d, <1>q DEF QueueOK
<1>11. FlightOK(own)'
  <2>1. \A i \in 1..Len(replies') : Genuine(own, replies'[i])
    BY <1>h, <1>a DEF FlightOK
  <2>2. /\ hungup => owed' = <<>>
        /\ \A n \in 1..Len(owed') : own[owed'[n].tag] # None /\ owed'[n] = Message(owed'[n].tag)
    BY <1>h, <1>a DEF FlightOK
  <2>3. QED
    BY <1>1, <1>5, <1>6, <1>r, <1>a, <2>1, <2>2, FlightLater
<1>12. OrderOK(own, dep)'
  <2>1. /\ \A n, k \in 1..Len(owed') : n < k => Rises(own, dep, owed'[n].tag, owed'[k].tag)
        /\ \A n, k \in 1..Len(replies') : n < k => Rises(own, dep, replies'[n].tag, replies'[k].tag)
        /\ \A n \in 1..Len(replies'), k \in 1..Len(owed') : Rises(own, dep, replies'[n].tag, owed'[k].tag)
    BY <1>h, <1>a DEF OrderOK
  <2>2. QED
    BY <1>1, <1>5, <1>6, <2>1, OrderLater
<1>13. SettledOK(own, dep)'
  <2>1. ASSUME NEW q \in Procs, pc'[q] = "write", ~Doomed(q)' PROVE cur'[q] \notin flight' \cup done'
    <3>1. pc[q] = "write" /\ ~Doomed(q)
      BY <1>p, <1>4, <2>1
    <3>2. QED
      BY <1>h, <1>a, <1>d, <1>w, <1>7, <3>1 DEF SettledOK
  <2>2. ASSUME NEW u \in done', NEW v \in Tags, Live(own, u)', own[v] = own[u], dep[v] <= dep[u]
        PROVE  v \notin flight'
    <3>1. u \in Tags /\ Live(own, u)
      BY <1>5, <2>2 DEF done
    <3>2. CASE u \in done
      BY <1>h, <1>7, <2>2, <3>1, <3>2 DEF SettledOK
    <3>3. CASE u = w
      <4>1. SUFFICES ASSUME v \in flight' PROVE FALSE
        OBVIOUS
      <4>2. \/ \E n \in 1..Len(owed) : v = owed[n].tag
            \/ \E n \in 1..Len(replies) : v = replies[n].tag
        BY <1>6, <1>a, <4>1 DEF flight
      <4>3. Rises(own, dep, w, v)
        BY <1>u, <1>x, <4>2
      <4>4. dep[w] < dep[v] /\ dep[w] \in Nat /\ dep[v] \in Nat
        BY <1>y, <2>2, <3>1, <3>3, <4>3 DEF Rises, Depths
      <4>5. QED
        BY <2>2, <3>3, <4>4
    <3>4. QED
      BY <1>d, <2>2, <3>2, <3>3
  <2>3. ASSUME NEW u \in Tags, Live(own, u)', pc'[own[u]] \in Settled PROVE u \notin flight'
    <3>1. own[u] \in Procs /\ Live(own, u) /\ pc[own[u]] \in Settled
      BY <1>p, <1>5, <2>3 DEF Live, Owners, Settled
    <3>2. QED
      BY <1>h, <1>7, <3>1 DEF SettledOK
  <2>4. QED
    BY <2>1, <2>2, <2>3 DEF SettledOK
<1>14. AnswersOK'
  <2>1. SUFFICES ASSUME NEW q \in Procs, Busy(q)', ~Doomed(q)', orig'[q] \in done'
                 PROVE  rpc'[orig'[q]].reply.of \in {rpc'[orig'[q]].call, Rflush}
    BY DEF AnswersOK
  <2>2. orig'[q] = orig[q] /\ orig[q] \in Tags /\ own[orig[q]] = q /\ Busy(q) /\ ~Doomed(q)
    BY <1>h, <1>a, <1>4, <2>1, OwnCur
  <2>3. CASE orig[q] = w
    BY <1>n, <1>r, <1>w, <2>2, <2>3 DEF Live
  <2>4. CASE orig[q] # w
    BY <1>h, <1>r, <1>d, <2>1, <2>2, <2>4 DEF AnswersOK
  <2>5. QED
    BY <2>3, <2>4
<1>15. QED
  BY <1>1, <1>3, <1>8, <1>9, <1>10, <1>11, <1>12, <1>13, <1>14 DEF CallInv, PlacesOK

(* It finds none: the reply is dropped. *)
LEMMA MountmuxDrops ==
  ASSUME NEW own \in Owners, NEW dep \in Depths, CallInv(own, dep), NEW p \in Procs, mountmux(p),
         ~Contains(queue, rpc[cur[p]].reply.tag)
  PROVE  CallInv(own, dep)'
<1>h. /\ TypesOK /\ PlacesOK /\ TagsOK(own) /\ ChainsOK(own, dep) /\ QueueOK(own)
      /\ FlightOK(own) /\ OrderOK(own, dep) /\ SettledOK(own, dep) /\ AnswersOK
  BY DEF CallInv
<1>p. /\ pc[p] = "mux" /\ pc'[p] = "read" /\ pc' \in [Procs -> Labels] /\ Busy(p)
      /\ \A q \in Procs : q # p => pc'[q] = pc[q]
  BY <1>h DEF TypesOK, Labels, Busy, mountmux, Goto
<1>b. cur[p] \in Tags /\ orig[p] \in Tags /\ own[cur[p]] = p /\ own[orig[p]] = p
  BY <1>h, <1>p, OwnCur
<1>a. /\ queue' = queue /\ rpcfree' = rpcfree /\ tagmask' = tagmask /\ orig' = orig /\ cur' = cur
      /\ todo' = todo /\ interrupts' = interrupts /\ late' = late
      /\ owed' = owed /\ hungup' = hungup /\ rip' = rip /\ err' = err /\ killed' = killed
      /\ replies' = replies /\ rpc' = [rpc EXCEPT ![cur[p]].reply = NoReply]
  BY DEF mountmux, counts, server
<1>k. cur[p] \notin done
  BY <1>h, <1>p DEF PlacesOK, PlaceOK
<1>r. /\ rpc' \in [Tags -> Header]
      /\ \A t \in Tags : /\ rpc'[t].done = rpc[t].done /\ rpc'[t].flushed = rpc[t].flushed
                         /\ rpc'[t].call = rpc[t].call /\ rpc'[t].oldtag = rpc[t].oldtag
                         /\ t # cur[p] => rpc'[t].reply = rpc[t].reply
  <2>1. NoReply \in [tag : Tags \cup {None}, of : Calls \cup {Rflush, None}]
    BY DEF NoReply
  <2>2. rpc \in [Tags -> Header]
    BY <1>h DEF TypesOK
  <2>3. QED
    BY <1>a, <1>b, <2>1, <2>2, ReplyPut
<1>d. done' = done
  BY <1>r DEF done
<1>1. TypesOK'
  BY <1>h, <1>p, <1>a, <1>r DEF TypesOK
<1>2. Quiet(p)
  BY <1>p, <1>b, <1>k, <1>r, <1>a DEF Quiet, Doomed, Settled
<1>3. ASSUME NEW q \in Procs PROVE PlaceOK(q)'
  <2>1. PlaceOK(q) /\ PlaceOK(p)
    BY <1>h DEF PlacesOK
  <2>2. CASE q = p
    BY <1>p, <1>a, <1>b, <1>d, <1>k, <2>1, <2>2, Numbers DEF PlaceOK, Reading
  <2>3. CASE q # p
    BY <1>h, <1>p, <1>a, <1>d, <2>1, <2>3, Numbers DEF PlaceOK, Reading, TypesOK
  <2>4. QED
    BY <2>2, <2>3
<1>4. QED
  BY <1>1, <1>2, <1>3, QuietOK DEF CallInv, PlacesOK

(* mntqrm: the rpc is taken as flushed, and off the queue. *)
LEMMA MntqrmOK ==
  ASSUME NEW own \in Owners, NEW dep \in Depths, CallInv(own, dep), NEW p \in Procs, mntqrm(p)
  PROVE  CallInv(own, dep)'
<1>h. /\ TypesOK /\ PlacesOK /\ TagsOK(own) /\ ChainsOK(own, dep) /\ QueueOK(own)
      /\ FlightOK(own) /\ OrderOK(own, dep) /\ SettledOK(own, dep) /\ AnswersOK
  BY DEF CallInv
<1> DEFINE w == cur[p]
           y == [rpc[w].reply EXCEPT !.of = Rflush]
<1>p. /\ pc[p] = "qrm" /\ pc'[p] = (IF rpc[w].flushed = None THEN "return" ELSE "free")
      /\ pc' \in [Procs -> Labels] /\ Busy(p)
      /\ \A q \in Procs : q # p => pc'[q] = pc[q]
  BY <1>h DEF TypesOK, Labels, Busy, mntqrm, Goto, Off
<1>b. w \in Tags /\ orig[p] \in Tags /\ own[w] = p /\ own[orig[p]] = p
  BY <1>h, <1>p, OwnCur
<1>f. rpc[w].flushed = None <=> w = orig[p]
  BY <1>h, <1>b, Numbers DEF ChainsOK
<1>v. rpc \in [Tags -> Header] /\ queue \in Seq(Tags)
  BY <1>h DEF TypesOK
<1>a. /\ rpcfree' = rpcfree /\ tagmask' = tagmask /\ orig' = orig /\ cur' = cur
      /\ todo' = todo /\ interrupts' = interrupts /\ late' = late
      /\ owed' = owed /\ hungup' = hungup /\ rip' = rip /\ err' = err /\ killed' = killed
      /\ replies' = replies /\ queue' = RemoveFirst(queue, w)
      /\ rpc' = [rpc EXCEPT ![w].reply = y, ![w].done = TRUE]
  <2>1. rpc' = [rpc EXCEPT ![w].reply.of = Rflush, ![w].done = TRUE]
    BY DEF mntqrm
  <2>2. rpc' = [rpc EXCEPT ![w].reply = y, ![w].done = TRUE]
    BY <1>b, <1>v, <2>1
  <2>3. QED
    BY <2>2 DEF mntqrm, counts, server
<1>t. y \in [tag : Tags \cup {None}, of : Calls \cup {Rflush, None}] /\ y.of = Rflush
  <2>1. rpc[w].reply \in [tag : Tags \cup {None}, of : Calls \cup {Rflush, None}]
    BY <1>b, <1>v DEF Header
  <2>2. QED
    BY <2>1
<1>s. Live(own, w) => \A u \in Tags : own[u] = p => u \notin flight
  BY <1>h, <1>b, <1>p DEF SettledOK, Live, Settled
<1>k. w = cur[p]
  OBVIOUS
<1> HIDE DEF y, w
<1>r. /\ rpc' \in [Tags -> Header] /\ rpc'[w].reply = y /\ rpc'[w].done
      /\ \A u \in Tags : /\ u # w => rpc'[u] = rpc[u]
                         /\ rpc'[u].flushed = rpc[u].flushed
                         /\ rpc'[u].call = rpc[u].call /\ rpc'[u].oldtag = rpc[u].oldtag
  BY <1>a, <1>b, <1>t, <1>v, AnswerPut
<1>d. done' = done \cup {w}
  BY <1>r, <1>b DEF done
<1>q. queue' \in Seq(Tags) /\ Distinct(queue') /\ waiting' = waiting \ {w}
  <2>1. Distinct(queue)
    BY <1>h DEF QueueOK
  <2>2. QED
    BY ZenonT(60), <1>a, <1>v, <1>b, <2>1, Unlinked DEF waiting
<1>o. \A q \in Procs : q # p /\ Busy(q) => cur[q] # w /\ cur[q] \in Tags
  BY <1>h, <1>b, OwnCur
<1>1. TypesOK'
  BY <1>h, <1>p, <1>a, <1>q, <1>r DEF TypesOK
<1>3. ASSUME NEW q \in Procs PROVE PlaceOK(q)'
  <2>1. PlaceOK(q) /\ PlaceOK(p)
    BY <1>h DEF PlacesOK
  <2>2. CASE q = p
    BY <1>p, <1>a, <1>b, <1>d, <1>f, <1>k, <2>1, <2>2, Numbers DEF PlaceOK, Reading
  <2>3. CASE q # p
    BY <1>h, <1>p, <1>a, <1>d, <1>o, <2>1, <2>3, Numbers DEF PlaceOK, Reading, TypesOK, Busy
  <2>4. QED
    BY <2>2, <2>3
<1>4. /\ spare' = spare
      /\ \A q \in Procs : (Busy(q)' <=> Busy(q)) /\ (Doomed(q)' <=> Doomed(q))
  BY <1>p, <1>a DEF spare, Busy, Doomed
<1>5. \A t \in Tags : Live(own, t)' <=> Live(own, t)
  BY <1>4 DEF Live, Owners
<1>6. held' \subseteq held
  <2>1. \A q \in Procs : pc'[q] = "mux" => /\ pc[q] = "mux"
                                           /\ rpc'[cur'[q]].reply = rpc[cur[q]].reply
    BY <1>p, <1>a, <1>o, <1>r DEF Busy
  <2>2. QED
    BY <2>1 DEF held
<1>7. flight' \subseteq flight
  BY <1>6, <1>a DEF flight
<1>8. TagsOK(own)'
  BY <1>h, <1>a, <1>4 DEF TagsOK, Owners
<1>9. ChainsOK(own, dep)'
  BY <1>h, <1>a, <1>r DEF ChainsOK
<1>10. QueueOK(own)'
  BY <1>h, <1>d, <1>q DEF QueueOK
<1>11. FlightOK(own)'
  <2>1. \A i \in 1..Len(replies') : Genuine(own, replies'[i])
    BY <1>h, <1>a DEF FlightOK
  <2>2. /\ hungup => owed' = <<>>
        /\ \A n \in 1..Len(owed') : own[owed'[n].tag] # None /\ owed'[n] = Message(owed'[n].tag)
    BY <1>h, <1>a DEF FlightOK
  <2>3. \A r \in held' : r \in Replies /\ r.tag \in Tags /\ Genuine(own, r)
    BY <1>h, <1>6 DEF FlightOK, Replies
  <2>4. QED
    BY <1>1, <1>5, <1>r, <1>a, <2>1, <2>2, <2>3, FlightLater
<1>12. OrderOK(own, dep)'
  <2>1. /\ \A n, k \in 1..Len(owed') : n < k => Rises(own, dep, owed'[n].tag, owed'[k].tag)
        /\ \A n, k \in 1..Len(replies') : n < k => Rises(own, dep, replies'[n].tag, replies'[k].tag)
        /\ \A n \in 1..Len(replies'), k \in 1..Len(owed') : Rises(own, dep, replies'[n].tag, owed'[k].tag)
        /\ \A r \in held', n \in 1..Len(replies') : Rises(own, dep, r.tag, replies'[n].tag)
        /\ \A r \in held', k \in 1..Len(owed') : Rises(own, dep, r.tag, owed'[k].tag)
    BY <1>h, <1>a, <1>6 DEF OrderOK
  <2>2. \A r \in held' : r.tag \in Tags
    BY <1>h, <1>6 DEF FlightOK, Replies
  <2>3. QED
    BY <1>1, <1>5, <2>1, <2>2, OrderLater
<1>13. SettledOK(own, dep)'
  <2>1. ASSUME NEW q \in Procs, pc'[q] = "write", ~Doomed(q)' PROVE cur'[q] \notin flight' \cup done'
    <3>1. pc[q] = "write" /\ ~Doomed(q) /\ q # p /\ Busy(q)
      BY <1>p, <1>4, <2>1 DEF Busy
    <3>2. QED
      BY <1>h, <1>a, <1>d, <1>o, <1>7, <3>1 DEF SettledOK
  <2>2. ASSUME NEW u \in done', NEW v \in Tags, Live(own, u)', own[v] = own[u], dep[v] <= dep[u]
        PROVE  v \notin flight'
    <3>1. u \in Tags /\ Live(own, u)
      BY <1>5, <2>2 DEF done
    <3>2. CASE u \in done
      BY <1>h, <1>7, <2>2, <3>1, <3>2 DEF SettledOK
    <3>3. CASE u = w
      BY <1>b, <1>s, <1>7, <2>2, <3>1, <3>3
    <3>4. QED
      BY <1>d, <2>2, <3>2, <3>3
  <2>3. ASSUME NEW u \in Tags, Live(own, u)', pc'[own[u]] \in Settled PROVE u \notin flight'
    <3>1. own[u] \in Procs /\ Live(own, u) /\ pc[own[u]] \in Settled
      BY <1>p, <1>5, <2>3 DEF Live, Owners, Settled
    <3>2. QED
      BY <1>h, <1>7, <3>1 DEF SettledOK
  <2>4. QED
    BY <2>1, <2>2, <2>3 DEF SettledOK
<1>14. AnswersOK'
  <2>1. SUFFICES ASSUME NEW q \in Procs, Busy(q)', ~Doomed(q)', orig'[q] \in done'
                 PROVE  rpc'[orig'[q]].reply.of \in {rpc'[orig'[q]].call, Rflush}
    BY DEF AnswersOK
  <2>2. orig'[q] = orig[q] /\ orig[q] \in Tags /\ own[orig[q]] = q /\ Busy(q) /\ ~Doomed(q)
    BY <1>h, <1>a, <1>4, <2>1, OwnCur
  <2>3. CASE orig[q] = w
    BY <1>r, <1>t, <2>2, <2>3
  <2>4. CASE orig[q] # w
    BY <1>h, <1>r, <1>d, <2>1, <2>2, <2>4 DEF AnswersOK
  <2>5. QED
    BY <2>3, <2>4
<1>15. QED
  BY <1>1, <1>3, <1>8, <1>9, <1>10, <1>11, <1>12, <1>13, <1>14 DEF CallInv, PlacesOK

----------------------------------------------------------------------------
(* mntralloc: the header is nobody's, and is p's now. *)
LEMMA MntrallocTags ==
  ASSUME NEW own \in Owners, TypesOK, TagsOK(own), NEW p \in Procs, NEW t, t = NewTag, Spare,
         rpcfree' = (IF rpcfree # <<>> THEN Tail(rpcfree) ELSE rpcfree),
         tagmask' = tagmask \cup {t}
  PROVE  /\ t \in Tags /\ own[t] = None
         /\ rpcfree' \in Seq(Tags) /\ Distinct(rpcfree') /\ tagmask' \subseteq Tags
         /\ spare' = spare \ {t} /\ spare' \subseteq tagmask'
         /\ \A u \in Tags : u # t => (u \in tagmask' /\ u \notin spare' <=> u \in tagmask /\ u \notin spare)
<1>1. rpcfree \in Seq(Tags) /\ tagmask \subseteq Tags /\ Distinct(rpcfree) /\ spare \subseteq tagmask
  BY DEF TypesOK, TagsOK
<1>2. CASE rpcfree # <<>>
  <2>1. t = Head(rpcfree) /\ rpcfree' = Tail(rpcfree)
    BY <1>2 DEF NewTag
  <2>2. /\ rpcfree' \in Seq(Tags) /\ t \in Tags /\ Distinct(rpcfree') /\ spare' = spare \ {t}
        /\ Len(rpcfree) \in Nat \ {0} /\ t = rpcfree[1]
    BY <1>1, <1>2, <2>1, TakeFirst DEF spare
  <2>3. t \in spare
    BY <2>2 DEF spare, Members
  <2>4. own[t] = None
    BY <2>2, <2>3 DEF TagsOK
  <2>5. QED
    BY <1>1, <2>2, <2>3, <2>4
<1>3. CASE rpcfree = <<>>
  <2>1. t = Min(Tags \ tagmask) /\ rpcfree' = rpcfree /\ Tags \ tagmask # {}
    BY <1>3 DEF NewTag, Spare
  <2>2. Tags \ tagmask \subseteq Nat
    BY MntAssumption
  <2>3. t \in Tags \ tagmask
    BY <2>1, <2>2, Least
  <2>4. spare' = spare /\ spare = {}
    BY <1>3, <2>1 DEF spare, Members
  <2>5. own[t] = None
    BY <2>3 DEF TagsOK
  <2>6. QED
    BY <1>1, <2>1, <2>3, <2>4, <2>5
<1>4. QED
  BY <1>2, <1>3

(* Its new contents. *)
LEMMA FreshOK ==
  ASSUME NEW t, rpc[t].sleeper \in Procs \cup {None}
  PROVE  /\ Fresh(t) \in Header /\ ~Fresh(t).done /\ Fresh(t).call = None
         /\ Fresh(t).flushed = None /\ Fresh(t).oldtag = None
<1> DEFINE s == rpc[t].sleeper
<1>1. NoReply \in [tag : Tags \cup {None}, of : Calls \cup {Rflush, None}]
  BY DEF NoReply
<1>2. PICK u : u = Unused
  OBVIOUS
<1>3. /\ u \in Header /\ ~u.done /\ u.call = None
      /\ u.flushed = None /\ u.oldtag = None
  BY <1>1, <1>2 DEF Unused, Header
<1>4. s \in Procs \cup {None} /\ Fresh(t) = [u EXCEPT !.sleeper = s]
  BY <1>2 DEF Fresh
<1> HIDE DEF s
<1>5. QED
  BY <1>3, <1>4 DEF Header

NewHeader(t, call, oldtag, flushed) ==
  [Fresh(t) EXCEPT !.call = call, !.oldtag = oldtag, !.flushed = flushed]

LEMMA MntrallocHeader ==
  ASSUME TypesOK, NEW call \in Calls \cup {None}, NEW oldtag \in Tags \cup {None},
         NEW flushed \in Tags \cup {None}, NEW t \in Tags,
         rpc' = [rpc EXCEPT ![t] = NewHeader(t, call, oldtag, flushed)]
  PROVE  /\ rpc' \in [Tags -> Header] /\ ~rpc'[t].done /\ rpc'[t].call = call
         /\ rpc'[t].oldtag = oldtag /\ rpc'[t].flushed = flushed
         /\ \A u \in Tags : u # t => rpc'[u] = rpc[u]
<1> DEFINE h == NewHeader(t, call, oldtag, flushed)
<1>1. rpc \in [Tags -> Header] /\ rpc' = [rpc EXCEPT ![t] = h]
  BY DEF TypesOK
<1>2. rpc[t].sleeper \in Procs \cup {None}
  <2>1. rpc[t] \in Header
    BY <1>1
  <2>2. QED
    BY <2>1 DEF Header
<1>3. /\ Fresh(t) \in Header /\ ~Fresh(t).done /\ Fresh(t).call = None
      /\ Fresh(t).flushed = None /\ Fresh(t).oldtag = None
  BY <1>2, FreshOK
<1>4. /\ h \in Header /\ ~h.done /\ h.call = call /\ h.oldtag = oldtag /\ h.flushed = flushed
  <2> DEFINE f == Fresh(t)
  <2>1. f \in Header /\ ~f.done /\ h = [f EXCEPT !.call = call, !.oldtag = oldtag, !.flushed = flushed]
    BY <1>3 DEF NewHeader
  <2> HIDE DEF f, h
  <2>2. QED
    BY <2>1 DEF Header
<1> HIDE DEF h
<1>5. QED
  BY <1>1, <1>4

(* What the step does to the calls: o and d are the new owners and depths. *)
Allots(p, t, o, d, own, dep) ==
  /\ own[t] = None
  /\ o = [own EXCEPT ![t] = p]
  /\ d[t] \in Nat /\ \A u \in Tags : u # t => d[u] = dep[u]
  /\ \A u \in Tags : own[u] = p => dep[u] < d[t]
  /\ Distinct(rpcfree') /\ spare' \subseteq tagmask' /\ t \in tagmask' /\ t \notin spare'
  /\ \A u \in Tags : u # t => (u \in tagmask' /\ u \notin spare' <=> u \in tagmask /\ u \notin spare)
  /\ ~rpc'[t].done /\ \A u \in Tags : u # t => rpc'[u] = rpc[u]
  /\ queue' = <<t>> \o queue /\ owed' = owed /\ replies' = replies /\ hungup' = hungup
  /\ cur' = [cur EXCEPT ![p] = t]
  /\ pc'[p] = "write" /\ \A q \in Procs : q # p => pc'[q] = pc[q] /\ err'[q] = err[q] /\ orig'[q] = orig[q]
  /\ err'[p] = None /\ rip' = rip /\ rip # p /\ late' = late
  /\ o[orig'[p]] = p /\ orig'[p] # None
  /\ hungup \/ \A u \in Tags : own[u] = p => ~Doomed(p)
  /\ orig'[p] # t => orig'[p] = orig[p] /\ Busy(p)

LEMMA AllotOK ==
  ASSUME NEW own \in Owners, NEW dep \in Depths, CallInv(own, dep), NEW p \in Procs, NEW t \in Tags,
         NEW o \in Owners, NEW d \in Depths, Allots(p, t, o, d, own, dep), TypesOK',
         ChainsOK(o, d)'
  PROVE  CallInv(o, d)'
<1>h. /\ TypesOK /\ PlacesOK /\ TagsOK(own) /\ ChainsOK(own, dep) /\ QueueOK(own)
      /\ FlightOK(own) /\ OrderOK(own, dep) /\ SettledOK(own, dep) /\ AnswersOK
  BY DEF CallInv
<1>a. Allots(p, t, o, d, own, dep)
  OBVIOUS
<1>b. o[t] = p /\ \A u \in Tags : u # t => o[u] = own[u]
  BY <1>a DEF Allots, Owners
<1>c. cur'[p] = t /\ \A q \in Procs : q # p => cur'[q] = cur[q]
  BY <1>h, <1>a DEF Allots, TypesOK
<1>d. done' = done \ {t}
  BY <1>a DEF Allots, done
<1>q. waiting' = waiting \cup {t} /\ Distinct(queue') /\ t \notin waiting
  <2>1. queue \in Seq(Tags) /\ Distinct(queue) /\ t \notin Members(queue) /\ queue' = <<t>> \o queue
    BY <1>h, <1>a DEF TypesOK, QueueOK, waiting, Allots
  <2>2. QED
    BY <2>1, PutFirst DEF waiting
<1>e. /\ \A q \in Procs : q # p => (Busy(q)' <=> Busy(q)) /\ (Doomed(q)' <=> Doomed(q))
      /\ Busy(p)' /\ (Doomed(p)' <=> hungup)
  BY <1>a, Numbers DEF Allots, Busy, Doomed
<1>f. \A q \in Procs : q # p /\ Busy(q) => cur[q] # t /\ cur[q] \in Tags /\ orig[q] # t /\ own[cur[q]] = q /\ own[orig[q]] = q
  <2>1. own[t] = None
    BY <1>a DEF Allots
  <2>2. QED
    BY <1>h, <2>1, OwnCur, Numbers
<1>5. \A u \in Tags : Live(o, u)' => (u = t /\ ~hungup) \/ (u # t /\ Live(own, u))
  <2>1. SUFFICES ASSUME NEW u \in Tags, Live(o, u)' PROVE (u = t /\ ~hungup) \/ (u # t /\ Live(own, u))
    OBVIOUS
  <2>2. CASE o[u] = p
    <3>1. o[u] # None /\ ~Doomed(p)'
      BY <2>1, <2>2 DEF Live
    <3>2. ~hungup
      BY <1>e, <3>1
    <3>3. u # t => own[u] = p /\ own[u] # None /\ ~Doomed(own[u])
      BY <1>a, <1>b, <2>2, <3>1, <3>2 DEF Allots
    <3>4. QED
      BY <3>2, <3>3 DEF Live
  <2>3. CASE o[u] # p
    BY <1>b, <1>e, <2>1, <2>3 DEF Live, Owners
  <2>4. QED
    BY <2>2, <2>3
<1>6. held' = held
  <2>1. \A q \in Procs : (pc'[q] = "mux") <=> (pc[q] = "mux" /\ q # p)
    BY <1>a DEF Allots
  <2>2. pc[p] # "mux"
    BY <1>h, <1>a DEF Allots, PlacesOK, PlaceOK, Reading
  <2>3. \A q \in Procs : pc[q] = "mux" /\ q # p => rpc'[cur'[q]] = rpc[cur[q]]
    BY <1>a, <1>c, <1>f DEF Allots, Busy
  <2>4. QED
    BY <2>1, <2>2, <2>3 DEF held
<1>7. flight' = flight
  BY <1>6, <1>a DEF flight, Allots
<1>t. /\ \A n \in 1..Len(owed) : owed[n].tag \in Tags /\ owed[n].tag # t
      /\ \A n \in 1..Len(replies) : replies[n].tag \in Tags
      /\ \A r \in held : r.tag \in Tags
  BY <1>h, <1>a, TagsTyped DEF FlightOK, Replies, Allots
<1>g. hungup \/ t \notin flight
  BY <1>h, <1>a DEF FlightOK, Genuine, Allots, flight
<1>n. own[t] = None
  BY <1>a DEF Allots
<1>3. ASSUME NEW q \in Procs PROVE PlaceOK(q)'
  <2>1. PlaceOK(q)
    BY <1>h DEF PlacesOK
  <2>2. CASE q = p
    BY <1>a, <1>c, <2>2, Numbers DEF PlaceOK, Reading, Allots
  <2>3. CASE q # p
    BY <1>a, <1>c, <1>d, <1>f, <2>1, <2>3 DEF PlaceOK, Reading, Allots, Busy
  <2>4. QED
    BY <2>2, <2>3
<1>8. TagsOK(o)'
  <2>1. Distinct(rpcfree') /\ spare' \subseteq tagmask'
    BY <1>a DEF Allots
  <2>2. \A u \in Tags : o[u] # None <=> u \in tagmask' /\ u \notin spare'
    BY <1>h, <1>a, <1>b, Numbers DEF TagsOK, Allots
  <2>3. ASSUME NEW q \in Procs, Busy(q)' PROVE o[cur'[q]] = q /\ o[orig'[q]] = q
    <3>1. CASE q = p
      BY <1>a, <1>b, <1>c, <3>1 DEF Allots
    <3>2. CASE q # p
      <4>1. Busy(q)
        BY <1>e, <2>3, <3>2
      <4>2. /\ cur[q] \in Tags /\ orig[q] \in Tags /\ cur[q] # t /\ orig[q] # t
            /\ own[cur[q]] = q /\ own[orig[q]] = q
        BY <1>h, <1>f, <3>2, <4>1, OwnCur
      <4>3. QED
        BY <1>a, <1>b, <1>c, <3>2, <4>2 DEF Allots
    <3>3. QED
      BY <3>1, <3>2
  <2>4. ASSUME NEW u \in Tags, o[u] # None PROVE pc'[o[u]] # "idle"
    BY <1>h, <1>a, <1>b, <1>e, <2>4 DEF TagsOK, Allots, Owners, Busy
  <2>5. QED
    BY <2>1, <2>2, <2>3, <2>4 DEF TagsOK, Busy
<1>10. QueueOK(o)'
  BY <1>h, <1>b, <1>d, <1>q, Numbers DEF QueueOK
<1>11. FlightOK(o)'
  <2>1. ASSUME NEW r, r.tag \in Tags, Genuine(own, r) PROVE Genuine(o, r)'
    <3>1. ~hungup' => o[r.tag] # None
      BY <1>a, <1>b, <1>n, <2>1 DEF Genuine, Allots
    <3>2. ASSUME Live(o, r.tag)' PROVE r.of \in {rpc'[r.tag].call, Rflush}
      <4>1. r.tag # t /\ Live(own, r.tag)
        BY <1>5, <1>n, <2>1, <3>2 DEF Genuine
      <4>2. QED
        BY <1>a, <2>1, <4>1 DEF Genuine, Allots
    <3>3. QED
      BY <3>1, <3>2 DEF Genuine
  <2>2. \A n \in 1..Len(owed) : o[owed[n].tag] # None /\ owed[n] = Message(owed[n].tag)'
    BY <1>h, <1>a, <1>b, <1>t DEF FlightOK, Message, Allots
  <2>3. \A n \in 1..Len(replies) : Genuine(o, replies[n])'
    <3>1. ASSUME NEW n \in 1..Len(replies) PROVE Genuine(o, replies[n])'
      <4>1. PICK r : r = replies[n]
        OBVIOUS
      <4>2. r.tag \in Tags /\ Genuine(own, r) /\ replies'[n] = r
        BY <1>h, <1>a, <1>t, <4>1 DEF FlightOK, Allots
      <4>3. Genuine(o, r)'
        BY <2>1, <4>2
      <4>4. QED
        BY <4>2, <4>3 DEF Genuine, Live, Doomed
    <3>2. QED
      BY <3>1
  <2>4. QED
    <3>1. owed' = owed /\ replies' = replies /\ hungup' = hungup
      BY <1>a DEF Allots
    <3>2. \A r \in held' : r \in Replies /\ Genuine(o, r)'
      BY <1>h, <1>6, <1>t, <2>1 DEF FlightOK
    <3>3. hungup' => owed' = <<>>
      BY <1>h, <3>1 DEF FlightOK
    <3>4. QED
      BY <2>2, <2>3, <3>1, <3>2, <3>3 DEF FlightOK
<1>12. OrderOK(o, d)'
  <2>1. ASSUME NEW u \in Tags, NEW v \in Tags, Rises(own, dep, u, v), hungup \/ (u # t /\ v # t)
        PROVE  Rises(o, d, u, v)'
    <3>1. SUFFICES ASSUME Live(o, u)', o[u] = o[v] PROVE d[u] < d[v]
      BY DEF Rises
    <3>2. u # t /\ Live(own, u)
      BY <1>5, <2>1, <3>1
    <3>3. CASE v = t
      BY <1>a, <1>b, <3>1, <3>2, <3>3 DEF Allots
    <3>4. CASE v # t
      BY <1>a, <1>b, <2>1, <3>1, <3>2, <3>4 DEF Allots, Rises
    <3>5. QED
      BY <3>3, <3>4
  <2>2. /\ \A n \in 1..Len(owed) : owed[n].tag \in flight
        /\ \A n \in 1..Len(replies) : replies[n].tag \in flight
        /\ \A r \in held : r.tag \in flight
    BY DEF flight
  <2>3. owed' = owed /\ replies' = replies
    BY <1>a DEF Allots
  <2>4. QED
    BY <1>h, <1>6, <1>g, <1>t, <2>1, <2>2, <2>3 DEF OrderOK
<1>13. SettledOK(o, d)'
  <2>1. ASSUME NEW q \in Procs, pc'[q] = "write", ~Doomed(q)' PROVE cur'[q] \notin flight' \cup done'
    <3>1. CASE q = p
      BY <1>c, <1>d, <1>e, <1>g, <1>7, <2>1, <3>1
    <3>2. CASE q # p
      <4>1. pc[q] = "write" /\ ~Doomed(q)
        BY <1>a, <1>e, <2>1, <3>2 DEF Allots
      <4>2. QED
        BY <1>h, <1>c, <1>d, <1>7, <3>2, <4>1 DEF SettledOK
    <3>3. QED
      BY <3>1, <3>2
  <2>2. ASSUME NEW u \in done', NEW v \in Tags, Live(o, u)', o[v] = o[u], d[v] <= d[u]
        PROVE  v \notin flight'
    <3>1. u \in Tags /\ u # t /\ u \in done /\ Live(own, u)
      BY <1>5, <1>d, <2>2 DEF done
    <3>2. v # t
      <4>1. SUFFICES ASSUME v = t PROVE FALSE
        OBVIOUS
      <4>2. own[u] = p /\ d[u] = dep[u] /\ dep[u] < d[t]
        BY <1>a, <1>b, <2>2, <3>1, <4>1 DEF Allots
      <4>3. QED
        BY <2>2, <3>1, <4>1, <4>2 DEF Depths
    <3>3. own[v] = own[u] /\ dep[v] <= dep[u]
      BY <1>a, <1>b, <2>2, <3>1, <3>2 DEF Allots
    <3>4. QED
      BY <1>h, <1>7, <3>1, <3>3 DEF SettledOK
  <2>3. ASSUME NEW u \in Tags, Live(o, u)', pc'[o[u]] \in Settled PROVE u \notin flight'
    <3>1. o[u] # p
      BY <1>a, <2>3 DEF Settled, Allots
    <3>2. u # t /\ own[u] = o[u] /\ Live(own, u) /\ pc[own[u]] \in Settled
      BY <1>a, <1>b, <1>5, <2>3, <3>1 DEF Allots, Live, Owners
    <3>3. QED
      BY <1>h, <1>7, <3>2 DEF SettledOK
  <2>4. QED
    BY <2>1, <2>2, <2>3 DEF SettledOK
<1>14. AnswersOK'
  <2>1. SUFFICES ASSUME NEW q \in Procs, Busy(q)', ~Doomed(q)', orig'[q] \in done'
                 PROVE  rpc'[orig'[q]].reply.of \in {rpc'[orig'[q]].call, Rflush}
    BY DEF AnswersOK
  <2>2. orig'[q] # t /\ orig'[q] \in Tags /\ orig'[q] \in done
    BY <1>d, <2>1 DEF done
  <2>3. orig'[q] = orig[q] /\ Busy(q)
    BY <1>a, <1>e, <2>1, <2>2 DEF Allots
  <2>4. ~Doomed(q)
    <3>1. CASE q # p
      BY <1>e, <2>1, <3>1
    <3>2. CASE q = p
      BY <1>a, <1>b, <1>e, <2>1, <2>2, <2>3, <3>2 DEF Allots
    <3>3. QED
      BY <3>1, <3>2
  <2>5. QED
    BY <1>h, <1>a, <2>2, <2>3, <2>4 DEF AnswersOK, Allots
<1>15. QED
  BY <1>3, <1>8, <1>10, <1>11, <1>12, <1>13, <1>14 DEF CallInv, PlacesOK

(* The chain of p: a new one, or the old one with a flush at its end. *)
Chained(p, t, d, own, dep) ==
  \/ /\ t = orig'[p] /\ d[t] = 0 /\ \A u \in Tags : own[u] # p
     /\ rpc'[t].flushed = None /\ rpc'[t].oldtag = None /\ rpc'[t].call \in Calls
  \/ /\ t # orig[p] /\ orig'[p] = orig[p] /\ Busy(p) /\ d[t] = dep[cur[p]] + 1
     /\ rpc'[t].flushed = cur[p] /\ rpc'[t].oldtag = orig[p]

LEMMA AllotChains ==
  ASSUME NEW own \in Owners, NEW dep \in Depths, CallInv(own, dep), NEW p \in Procs, NEW t \in Tags,
         NEW o \in Owners, NEW d \in Depths, Allots(p, t, o, d, own, dep),
         Chained(p, t, d, own, dep)
  PROVE  ChainsOK(o, d)'
<1>h. /\ TypesOK /\ PlacesOK /\ TagsOK(own) /\ ChainsOK(own, dep) /\ QueueOK(own)
      /\ FlightOK(own) /\ OrderOK(own, dep) /\ SettledOK(own, dep) /\ AnswersOK
  BY DEF CallInv
<1>a. Allots(p, t, o, d, own, dep) /\ Chained(p, t, d, own, dep)
  OBVIOUS
<1>b. o[t] = p /\ own[t] = None /\ \A u \in Tags : u # t => o[u] = own[u]
  BY <1>a DEF Allots, Owners
<1>c. cur'[p] = t /\ \A q \in Procs : q # p => cur'[q] = cur[q] /\ orig'[q] = orig[q]
  BY <1>h, <1>a DEF Allots, TypesOK
<1>e. /\ d[t] \in Nat /\ \A u \in Tags : u # t => d[u] = dep[u] /\ rpc'[u] = rpc[u]
      /\ \A u \in Tags : own[u] = p => dep[u] < d[t]
  BY <1>a DEF Allots
<1>n. \A u \in Tags : dep[u] \in Nat /\ d[u] \in Nat
  BY DEF Depths
<1>1. ASSUME NEW u \in Tags, o[u] # None, u # t, o[u] # p
      PROVE  /\ d[u] <= d[cur'[o[u]]]
             /\ d[u] = 0 <=> u = orig'[o[u]]
             /\ u = orig'[o[u]] => rpc'[u].flushed = None /\ rpc'[u].oldtag = None /\ rpc'[u].call \in Calls
             /\ u # orig'[o[u]] =>
                  /\ rpc'[u].flushed \in Tags /\ o[rpc'[u].flushed] = o[u]
                  /\ d[u] = d[rpc'[u].flushed] + 1
                  /\ rpc'[u].oldtag = orig'[o[u]]
  <2>1. PICK q \in Procs : q = own[u] /\ q = o[u] /\ q # p /\ q # None
    BY <1>1, <1>b DEF Owners
  <2>2. Busy(q) /\ cur'[q] = cur[q] /\ orig'[q] = orig[q] /\ rpc'[u] = rpc[u] /\ d[u] = dep[u]
    BY <1>h, <1>1, <1>c, <1>e, <2>1 DEF TagsOK
  <2>3. cur[q] \in Tags /\ cur[q] # t
    BY <1>h, <1>b, <2>1, <2>2, OwnCur
  <2>4. /\ dep[u] <= dep[cur[q]]
        /\ dep[u] = 0 <=> u = orig[q]
        /\ u = orig[q] => rpc[u].flushed = None /\ rpc[u].oldtag = None /\ rpc[u].call \in Calls
        /\ u # orig[q] =>
             /\ rpc[u].flushed \in Tags /\ own[rpc[u].flushed] = q
             /\ dep[u] = dep[rpc[u].flushed] + 1
             /\ rpc[u].oldtag = orig[q]
    <3>1. own[u] # None
      BY <2>1
    <3>2. /\ dep[u] <= dep[cur[own[u]]]
          /\ dep[u] = 0 <=> u = orig[own[u]]
          /\ u = orig[own[u]] => rpc[u].flushed = None /\ rpc[u].oldtag = None /\ rpc[u].call \in Calls
          /\ u # orig[own[u]] =>
               /\ rpc[u].flushed \in Tags /\ own[rpc[u].flushed] = own[u]
               /\ dep[u] = dep[rpc[u].flushed] + 1
               /\ rpc[u].oldtag = orig[own[u]]
      BY <1>h, <3>1 DEF ChainsOK
    <3>3. QED
      BY <2>1, <3>2
  <2>5. u # orig[q] => rpc[u].flushed # t /\ o[rpc[u].flushed] = q /\ d[rpc[u].flushed] = dep[rpc[u].flushed]
    BY <1>b, <1>e, <2>1, <2>4
  <2>6. QED
    BY <1>e, <2>1, <2>2, <2>3, <2>4, <2>5
<1>2. ASSUME NEW u \in Tags, u # t, o[u] = p
      PROVE  /\ d[u] <= d[cur'[o[u]]]
             /\ d[u] = 0 <=> u = orig'[o[u]]
             /\ u = orig'[o[u]] => rpc'[u].flushed = None /\ rpc'[u].oldtag = None /\ rpc'[u].call \in Calls
             /\ u # orig'[o[u]] =>
                  /\ rpc'[u].flushed \in Tags /\ o[rpc'[u].flushed] = o[u]
                  /\ d[u] = d[rpc'[u].flushed] + 1
                  /\ rpc'[u].oldtag = orig'[o[u]]
  <2>1. own[u] = p /\ p # None /\ rpc'[u] = rpc[u] /\ d[u] = dep[u] /\ dep[u] < d[t]
    BY <1>b, <1>e, <1>2, Numbers
  <2>2. orig'[p] = orig[p]
    BY <1>a, <2>1 DEF Chained
  <2>4. /\ dep[u] = 0 <=> u = orig[p]
        /\ u = orig[p] => rpc[u].flushed = None /\ rpc[u].oldtag = None /\ rpc[u].call \in Calls
        /\ u # orig[p] =>
             /\ rpc[u].flushed \in Tags /\ own[rpc[u].flushed] = p
             /\ dep[u] = dep[rpc[u].flushed] + 1
             /\ rpc[u].oldtag = orig[p]
    BY <1>h, <2>1 DEF ChainsOK
  <2>5. u # orig[p] => rpc[u].flushed # t /\ o[rpc[u].flushed] = p /\ d[rpc[u].flushed] = dep[rpc[u].flushed]
    BY <1>b, <1>e, <2>1, <2>4
  <2>6. d[u] <= d[cur'[p]]
    BY <1>c, <1>n, <2>1
  <2>7. QED
    BY <1>2, <2>1, <2>2, <2>4, <2>5, <2>6
<1>3. /\ d[t] <= d[cur'[o[t]]]
      /\ d[t] = 0 <=> t = orig'[o[t]]
      /\ t = orig'[o[t]] => rpc'[t].flushed = None /\ rpc'[t].oldtag = None /\ rpc'[t].call \in Calls
      /\ t # orig'[o[t]] =>
           /\ rpc'[t].flushed \in Tags /\ o[rpc'[t].flushed] = o[t]
           /\ d[t] = d[rpc'[t].flushed] + 1
           /\ rpc'[t].oldtag = orig'[o[t]]
  <2>1. d[t] <= d[cur'[o[t]]]
    BY <1>b, <1>c, <1>e
  <2>2. CASE t = orig'[p]
    BY <1>a, <1>b, <2>1, <2>2 DEF Chained
  <2>3. CASE t # orig'[p]
    <3>1. /\ orig'[p] = orig[p] /\ Busy(p) /\ d[t] = dep[cur[p]] + 1
          /\ rpc'[t].flushed = cur[p] /\ rpc'[t].oldtag = orig[p]
      BY <1>a, <2>3 DEF Chained
    <3>2. cur[p] \in Tags /\ cur[p] # t /\ own[cur[p]] = p
      BY <1>h, <1>b, <3>1, OwnCur, Numbers
    <3>3. o[cur[p]] = p /\ d[cur[p]] = dep[cur[p]] /\ d[cur[p]] \in Nat
      BY <1>b, <1>e, <1>n, <3>2
    <3>4. d[t] # 0
      BY <3>1, <3>3
    <3>5. QED
      BY <1>b, <2>1, <2>3, <3>1, <3>2, <3>3, <3>4
  <2>4. QED
    BY <2>2, <2>3
<1>4. ASSUME NEW u \in Tags, NEW v \in Tags, o[u] # None, o[u] = o[v], d[u] = d[v] PROVE u = v
  <2>1. CASE u # t /\ v # t
    BY <1>h, <1>b, <1>e, <1>4, <2>1 DEF ChainsOK
  <2>2. CASE u = t /\ v # t
    BY <1>b, <1>e, <1>n, <1>4, <2>2
  <2>3. CASE u # t /\ v = t
    BY <1>b, <1>e, <1>n, <1>4, <2>3
  <2>4. QED
    BY <2>1, <2>2, <2>3
<1>5. QED
  BY <1>1, <1>2, <1>3, <1>4 DEF ChainsOK

(* A new call. *)
LEMMA CallOK ==
  ASSUME NEW own \in Owners, NEW dep \in Depths, CallInv(own, dep), NEW p \in Procs, Call(p)
  PROVE  IndInv'
<1>h. /\ TypesOK /\ PlacesOK /\ TagsOK(own) /\ ChainsOK(own, dep) /\ QueueOK(own)
      /\ FlightOK(own) /\ OrderOK(own, dep) /\ SettledOK(own, dep) /\ AnswersOK
  BY DEF CallInv
<1>1. PICK t : t = NewTag
  OBVIOUS
<1> DEFINE c == Head(todo[p])
<1>p. /\ pc[p] = "idle" /\ pc'[p] = "write" /\ pc' \in [Procs -> Labels] /\ ~Busy(p)
      /\ \A q \in Procs : q # p => pc'[q] = pc[q]
  BY <1>h DEF TypesOK, Labels, Busy, Call, Goto
<1>a. /\ todo[p] # <<>> /\ todo' = [todo EXCEPT ![p] = Tail(@)]
      /\ rpc' = [rpc EXCEPT ![t] = NewHeader(t, c, None, None)] /\ Spare
      /\ rpcfree' = (IF rpcfree # <<>> THEN Tail(rpcfree) ELSE rpcfree) /\ tagmask' = tagmask \cup {t}
      /\ orig' = [orig EXCEPT ![p] = t] /\ cur' = [cur EXCEPT ![p] = t]
      /\ queue' = <<t>> \o queue /\ rip' = rip
      /\ killed' = killed /\ late' = late /\ err' = err /\ interrupts' = interrupts
      /\ owed' = owed /\ replies' = replies /\ hungup' = hungup
  BY <1>1 DEF Call, Enqueue, mntralloc, server, NewHeader
<1>2. c \in Calls /\ todo' \in [Procs -> Seq(Calls)]
  <2>1. todo[p] \in Seq(Calls) /\ todo \in [Procs -> Seq(Calls)]
    BY <1>h DEF TypesOK
  <2>2. Tail(todo[p]) \in Seq(Calls) /\ Head(todo[p]) \in Calls
    BY <1>a, <2>1, TakeFirst
  <2>3. QED
    BY <1>a, <2>1, <2>2
<1> HIDE DEF c
<1>t. /\ t \in Tags /\ own[t] = None
      /\ rpcfree' \in Seq(Tags) /\ Distinct(rpcfree') /\ tagmask' \subseteq Tags
      /\ spare' = spare \ {t} /\ spare' \subseteq tagmask'
      /\ \A u \in Tags : u # t => (u \in tagmask' /\ u \notin spare' <=> u \in tagmask /\ u \notin spare)
  BY <1>h, <1>1, <1>a, MntrallocTags
<1>r. /\ rpc' \in [Tags -> Header] /\ ~rpc'[t].done /\ rpc'[t].call = c
      /\ rpc'[t].oldtag = None /\ rpc'[t].flushed = None
      /\ \A u \in Tags : u # t => rpc'[u] = rpc[u]
  <2>1. /\ TypesOK /\ t \in Tags /\ c \in Calls \cup {None} /\ None \in Tags \cup {None}
        /\ rpc' = [rpc EXCEPT ![t] = NewHeader(t, c, None, None)]
    BY <1>h, <1>2, <1>a, <1>t
  <2>2. QED
    BY <2>1, MntrallocHeader
<1>q. queue' \in Seq(Tags)
  BY <1>h, <1>a, <1>t, PutFirst DEF TypesOK
<1>3. TypesOK'
  BY <1>h, <1>p, <1>a, <1>2, <1>t, <1>r, <1>q DEF TypesOK
<1>4. \A u \in Tags : own[u] # p
  BY <1>h, <1>p, Numbers DEF TagsOK
<1>5. PICK o, d : o = [own EXCEPT ![t] = p] /\ d = [dep EXCEPT ![t] = 0]
  OBVIOUS
<1>6. o \in Owners /\ d \in Depths /\ d[t] = 0 /\ o[t] = p /\ \A u \in Tags : u # t => d[u] = dep[u]
  BY <1>5, <1>t DEF Owners, Depths
<1>7. orig'[p] = t /\ \A q \in Procs : q # p => orig'[q] = orig[q]
  BY <1>h, <1>a DEF TypesOK
<1>8. err'[p] = None /\ rip # p
  <2>1. PlaceOK(p) /\ err[p] \in {None, "Eintr", "fail"}
    BY <1>h DEF PlacesOK, TypesOK
  <2>2. QED
    BY <1>p, <1>a, <2>1 DEF PlaceOK, Reading
<1>9. Allots(p, t, o, d, own, dep)
  BY <1>p, <1>a, <1>t, <1>r, <1>4, <1>5, <1>6, <1>7, <1>8, Numbers DEF Allots
<1>10. Chained(p, t, d, own, dep)
  BY <1>2, <1>r, <1>4, <1>6, <1>7 DEF Chained
<1>11. ChainsOK(o, d)'
  BY <1>t, <1>6, <1>9, <1>10, AllotChains
<1>12. CallInv(o, d)'
  BY <1>t, <1>3, <1>6, <1>9, <1>11, AllotOK
<1>13. QED
  BY <1>6, <1>12 DEF IndInv

(* The flush of a call that was interrupted. *)
LEMMA MntflushallocOK ==
  ASSUME NEW own \in Owners, NEW dep \in Depths, CallInv(own, dep), NEW p \in Procs, mntflushalloc(p)
  PROVE  IndInv'
<1>h. /\ TypesOK /\ PlacesOK /\ TagsOK(own) /\ ChainsOK(own, dep) /\ QueueOK(own)
      /\ FlightOK(own) /\ OrderOK(own, dep) /\ SettledOK(own, dep) /\ AnswersOK
  BY DEF CallInv
<1>1. PICK t : t = NewTag
  OBVIOUS
<1>p. /\ pc[p] = "flush" /\ pc'[p] = "write" /\ pc' \in [Procs -> Labels] /\ Busy(p)
      /\ \A q \in Procs : q # p => pc'[q] = pc[q]
  BY <1>h DEF TypesOK, Labels, Busy, mntflushalloc, Goto
<1>b. cur[p] \in Tags /\ orig[p] \in Tags /\ own[cur[p]] = p /\ own[orig[p]] = p
  BY <1>h, <1>p, OwnCur
<1>2. (IF rpc[cur[p]].oldtag # None THEN rpc[cur[p]].oldtag ELSE cur[p]) = orig[p]
  <2>1. /\ cur[p] = orig[p] => rpc[cur[p]].oldtag = None
        /\ cur[p] # orig[p] => rpc[cur[p]].oldtag = orig[p]
    BY <1>h, <1>b, Numbers DEF ChainsOK
  <2>2. QED
    BY <1>b, <2>1, Numbers
<1>a. /\ rpc' = [rpc EXCEPT ![t] = NewHeader(t, None, orig[p], cur[p])]
      /\ Spare
      /\ rpcfree' = (IF rpcfree # <<>> THEN Tail(rpcfree) ELSE rpcfree) /\ tagmask' = tagmask \cup {t}
      /\ orig' = orig /\ cur' = [cur EXCEPT ![p] = t]
      /\ queue' = <<t>> \o queue /\ rip' = rip
      /\ killed' = killed /\ late' = late /\ err' = [err EXCEPT ![p] = None]
      /\ todo' = todo /\ interrupts' = interrupts
      /\ owed' = owed /\ replies' = replies /\ hungup' = hungup
  BY <1>1, <1>2 DEF mntflushalloc, Enqueue, mntralloc, server, counts, Raise, NewHeader
<1>t. /\ t \in Tags /\ own[t] = None
      /\ rpcfree' \in Seq(Tags) /\ Distinct(rpcfree') /\ tagmask' \subseteq Tags
      /\ spare' = spare \ {t} /\ spare' \subseteq tagmask'
      /\ \A u \in Tags : u # t => (u \in tagmask' /\ u \notin spare' <=> u \in tagmask /\ u \notin spare)
  BY <1>h, <1>1, <1>a, MntrallocTags
<1>r. /\ rpc' \in [Tags -> Header] /\ ~rpc'[t].done /\ rpc'[t].call = None
      /\ rpc'[t].oldtag = orig[p] /\ rpc'[t].flushed = cur[p]
      /\ \A u \in Tags : u # t => rpc'[u] = rpc[u]
  <2>1. /\ TypesOK /\ t \in Tags /\ None \in Calls \cup {None}
        /\ orig[p] \in Tags \cup {None} /\ cur[p] \in Tags \cup {None}
        /\ rpc' = [rpc EXCEPT ![t] = NewHeader(t, None, orig[p], cur[p])]
    BY <1>h, <1>b, <1>a, <1>t
  <2>2. QED
    BY ZenonT(60), <2>1, MntrallocHeader
<1>q. queue' \in Seq(Tags)
  BY <1>h, <1>a, <1>t, PutFirst DEF TypesOK
<1>3. TypesOK'
  BY <1>h, <1>p, <1>a, <1>t, <1>r, <1>q DEF TypesOK
<1>5. PICK o, d : o = [own EXCEPT ![t] = p] /\ d = [dep EXCEPT ![t] = dep[cur[p]] + 1]
  OBVIOUS
<1>n. \A u \in Tags : dep[u] \in Nat
  BY DEF Depths
<1>6. /\ o \in Owners /\ d \in Depths /\ d[t] = dep[cur[p]] + 1 /\ o[t] = p
      /\ \A u \in Tags : u # t => d[u] = dep[u] /\ o[u] = own[u]
  BY <1>5, <1>n, <1>b, <1>t DEF Owners, Depths
<1>4. \A u \in Tags : own[u] = p => dep[u] < d[t]
  <2>1. \A u \in Tags : own[u] = p => dep[u] <= dep[cur[p]]
    BY <1>h, Numbers DEF ChainsOK
  <2>2. QED
    BY <1>b, <1>n, <1>6, <2>1
<1>7. orig[p] # t /\ orig'[p] = orig[p] /\ o[orig[p]] = p /\ orig[p] # None
  BY <1>a, <1>b, <1>t, <1>6, Numbers
<1>8. err'[p] = None /\ rip # p /\ (hungup \/ ~Doomed(p)) /\ \A q \in Procs : q # p => err'[q] = err[q]
  <2>1. PlaceOK(p) /\ err \in [Procs -> {None, "Eintr", "fail"}]
    BY <1>h DEF PlacesOK, TypesOK
  <2>2. QED
    BY <1>p, <1>a, <2>1 DEF PlaceOK, Reading, Doomed
<1>e. d[t] \in Nat
  BY <1>6, <1>t DEF Depths
<1>9. Allots(p, t, o, d, own, dep)
  BY <1>p, <1>a, <1>t, <1>r, <1>4, <1>5, <1>6, <1>7, <1>8, <1>e DEF Allots
<1>10. Chained(p, t, d, own, dep)
  BY <1>p, <1>r, <1>6, <1>7 DEF Chained
<1>11. ChainsOK(o, d)'
  BY <1>t, <1>6, <1>9, <1>10, AllotChains
<1>12. CallInv(o, d)'
  BY <1>t, <1>3, <1>6, <1>9, <1>11, AllotOK
<1>13. QED
  BY <1>6, <1>12 DEF IndInv

----------------------------------------------------------------------------
(* mntfree: the header is on the free list, or gone. *)
LEMMA MntfreeTags ==
  ASSUME NEW own \in Owners, TypesOK, TagsOK(own), NEW t \in Tags, own[t] # None,
         \/ Len(rpcfree) >= MaxFree /\ tagmask' = tagmask \ {t} /\ rpcfree' = rpcfree
         \/ rpcfree' = <<t>> \o rpcfree /\ tagmask' = tagmask
  PROVE  /\ rpcfree' \in Seq(Tags) /\ Distinct(rpcfree') /\ tagmask' \subseteq Tags
         /\ spare' \subseteq tagmask' /\ ~(t \in tagmask' /\ t \notin spare')
         /\ \A u \in Tags : u # t => ((u \in tagmask' /\ u \notin spare') <=> (u \in tagmask /\ u \notin spare))
<1>1. /\ rpcfree \in Seq(Tags) /\ tagmask \subseteq Tags /\ Distinct(rpcfree) /\ spare \subseteq tagmask
      /\ t \in tagmask /\ t \notin spare
  BY DEF TypesOK, TagsOK
<1>2. CASE tagmask' = tagmask \ {t} /\ rpcfree' = rpcfree
  <2>1. spare' = spare
    BY <1>2 DEF spare
  <2>2. QED
    BY <1>1, <1>2, <2>1
<1>3. CASE rpcfree' = <<t>> \o rpcfree /\ tagmask' = tagmask
  <2>1. rpcfree' \in Seq(Tags) /\ Distinct(rpcfree') /\ spare' = spare \cup {t}
    BY <1>1, <1>3, PutFirst DEF spare
  <2>2. QED
    BY <1>1, <1>3, <2>1
<1>4. QED
  BY <1>2, <1>3

LEMMA MntfreeHeader ==
  ASSUME TypesOK, NEW t \in Tags, rpc' = [rpc EXCEPT ![t] = Fresh(t)]
  PROVE  /\ rpc' \in [Tags -> Header] /\ ~rpc'[t].done
         /\ \A u \in Tags : u # t => rpc'[u] = rpc[u]
<1>1. rpc \in [Tags -> Header] /\ rpc[t] \in Header
  BY DEF TypesOK
<1>2. rpc[t].sleeper \in Procs \cup {None}
  BY <1>1 DEF Header
<1>3. Fresh(t) \in Header /\ ~Fresh(t).done
  BY <1>2, FreshOK
<1>4. QED
  BY <1>1, <1>3

(* What freeing the last header of p's chain does: p goes on with the one   *)
(* that it flushed, or its call is over.                                    *)
Frees(p, t, o, own) ==
  /\ own[t] = p /\ t = cur[p] /\ t \in done /\ o = [own EXCEPT ![t] = None]
  /\ pc[p] \in {"free", "return"} /\ pc'[p] \in {"chain", "idle"}
  /\ \A q \in Procs : q # p => pc'[q] = pc[q] /\ err'[q] = err[q] /\ orig'[q] = orig[q] /\ cur'[q] = cur[q]
  /\ Distinct(rpcfree') /\ spare' \subseteq tagmask' /\ ~(t \in tagmask' /\ t \notin spare')
  /\ \A u \in Tags : u # t => ((u \in tagmask' /\ u \notin spare') <=> (u \in tagmask /\ u \notin spare))
  /\ ~rpc'[t].done /\ \A u \in Tags : u # t => rpc'[u] = rpc[u]
  /\ queue' = queue /\ owed' = owed /\ replies' = replies /\ hungup' = hungup /\ rip' = rip /\ late' = late
  /\ pc'[p] = "chain" =>
       /\ err'[p] = err[p] /\ orig'[p] = orig[p] /\ orig[p] # t
       /\ cur'[p] = rpc[t].flushed
  /\ pc'[p] = "idle" =>
       /\ err'[p] = None /\ orig'[p] = None /\ cur'[p] = None /\ \A u \in Tags : own[u] = p => u = t

LEMMA FreeChains ==
  ASSUME NEW own \in Owners, NEW dep \in Depths, CallInv(own, dep), NEW p \in Procs, NEW t \in Tags,
         NEW o \in Owners, Frees(p, t, o, own)
  PROVE  ChainsOK(o, dep)'
<1>h. /\ TypesOK /\ PlacesOK /\ TagsOK(own) /\ ChainsOK(own, dep) /\ QueueOK(own)
      /\ FlightOK(own) /\ OrderOK(own, dep) /\ SettledOK(own, dep) /\ AnswersOK
  BY DEF CallInv
<1>a. Frees(p, t, o, own)
  OBVIOUS
<1>b. o[t] = None /\ own[t] = p /\ t = cur[p] /\ \A u \in Tags : u # t => o[u] = own[u]
  BY <1>a DEF Frees, Owners
<1>c. \A q \in Procs : q # p => cur'[q] = cur[q] /\ orig'[q] = orig[q]
  BY <1>a DEF Frees
<1>n. \A u \in Tags : dep[u] \in Nat
  BY DEF Depths
<1>1. ASSUME NEW u \in Tags, o[u] # None
      PROVE  /\ dep[u] <= dep[cur'[o[u]]]
             /\ dep[u] = 0 <=> u = orig'[o[u]]
             /\ u = orig'[o[u]] => rpc'[u].flushed = None /\ rpc'[u].oldtag = None /\ rpc'[u].call \in Calls
             /\ u # orig'[o[u]] =>
                  /\ rpc'[u].flushed \in Tags /\ o[rpc'[u].flushed] = o[u]
                  /\ dep[u] = dep[rpc'[u].flushed] + 1
                  /\ rpc'[u].oldtag = orig'[o[u]]
  <2>1. PICK q \in Procs : q = own[u] /\ q = o[u] /\ q # None
    BY <1>1, <1>b DEF Owners
  <2>2. Busy(q) /\ rpc'[u] = rpc[u] /\ u # t
    BY <1>h, <1>1, <1>a, <1>b, <2>1 DEF TagsOK, Frees
  <2>4. /\ dep[u] <= dep[cur[q]]
        /\ dep[u] = 0 <=> u = orig[q]
        /\ u = orig[q] => rpc[u].flushed = None /\ rpc[u].oldtag = None /\ rpc[u].call \in Calls
        /\ u # orig[q] =>
             /\ rpc[u].flushed \in Tags /\ own[rpc[u].flushed] = q
             /\ dep[u] = dep[rpc[u].flushed] + 1
             /\ rpc[u].oldtag = orig[q]
    <3>1. own[u] # None
      BY <2>1
    <3>2. /\ dep[u] <= dep[cur[own[u]]]
          /\ dep[u] = 0 <=> u = orig[own[u]]
          /\ u = orig[own[u]] => rpc[u].flushed = None /\ rpc[u].oldtag = None /\ rpc[u].call \in Calls
          /\ u # orig[own[u]] =>
               /\ rpc[u].flushed \in Tags /\ own[rpc[u].flushed] = own[u]
               /\ dep[u] = dep[rpc[u].flushed] + 1
               /\ rpc[u].oldtag = orig[own[u]]
      BY <1>h, <3>1 DEF ChainsOK
    <3>3. QED
      BY <2>1, <3>2
  <2>5. orig'[q] = orig[q] /\ dep[u] <= dep[cur'[q]] /\ (u # orig[q] => rpc[u].flushed # t)
    <3>1. CASE q # p
      BY <1>b, <1>c, <2>1, <2>4, <3>1
    <3>2. CASE q = p
      <4>1. pc'[p] = "chain" /\ orig'[p] = orig[p] /\ orig[p] # t /\ cur'[p] = rpc[t].flushed
        BY <1>a, <2>1, <2>2, <3>2 DEF Frees
      <4>2. /\ rpc[t].flushed \in Tags /\ dep[t] = dep[rpc[t].flushed] + 1
        BY <1>h, <1>b, <2>1, <3>2, <4>1 DEF ChainsOK
      <4>3. dep[u] # dep[t]
        <5>1. own[u] # None /\ own[u] = own[t] /\ u # t
          BY <1>b, <2>1, <2>2, <3>2
        <5>2. QED
          BY <1>h, <5>1 DEF ChainsOK
      <4>4. dep[u] < dep[t]
        BY <1>b, <1>n, <2>4, <3>2, <4>3
      <4>5. dep[u] <= dep[rpc[t].flushed]
        BY <1>n, <4>2, <4>4
      <4>6. u # orig[q] => rpc[u].flushed # t
        BY <1>n, <2>4, <4>4
      <4>7. QED
        BY <3>2, <4>1, <4>5, <4>6
    <3>3. QED
      BY <3>1, <3>2
  <2>6. u # orig[q] => o[rpc[u].flushed] = q
    BY <1>b, <2>4, <2>5
  <2>7. QED
    BY <2>1, <2>2, <2>4, <2>5, <2>6
<1>4. ASSUME NEW u \in Tags, NEW v \in Tags, o[u] # None, o[u] = o[v], dep[u] = dep[v] PROVE u = v
  <2>1. u # t /\ v # t
    BY <1>b, <1>4
  <2>2. QED
    BY <1>h, <1>b, <1>4, <2>1 DEF ChainsOK
<1>5. QED
  BY <1>1, <1>4 DEF ChainsOK

LEMMA FreeOK ==
  ASSUME NEW own \in Owners, NEW dep \in Depths, CallInv(own, dep), NEW p \in Procs, NEW t \in Tags,
         NEW o \in Owners, Frees(p, t, o, own), TypesOK'
  PROVE  CallInv(o, dep)'
<1>h. /\ TypesOK /\ PlacesOK /\ TagsOK(own) /\ ChainsOK(own, dep) /\ QueueOK(own)
      /\ FlightOK(own) /\ OrderOK(own, dep) /\ SettledOK(own, dep) /\ AnswersOK
  BY DEF CallInv
<1>a. Frees(p, t, o, own)
  OBVIOUS
<1>b. o[t] = None /\ own[t] = p /\ t = cur[p] /\ \A u \in Tags : u # t => o[u] = own[u]
  BY <1>a DEF Frees, Owners
<1>c. \A q \in Procs : q # p => cur'[q] = cur[q] /\ orig'[q] = orig[q] /\ pc'[q] = pc[q] /\ err'[q] = err[q]
  BY <1>a DEF Frees
<1>d. done' = done \ {t} /\ t \in done
  BY <1>a DEF Frees, done
<1>g. /\ owed' = owed /\ replies' = replies /\ hungup' = hungup
      /\ waiting' = waiting
  BY <1>a DEF Frees, waiting
<1>e. /\ \A q \in Procs : q # p => (Busy(q)' <=> Busy(q)) /\ (Doomed(q)' <=> Doomed(q))
      /\ Busy(p)' => (Doomed(p)' <=> Doomed(p)) /\ pc'[p] = "chain"
      /\ Busy(p) /\ (Doomed(p) => hungup)
  BY <1>h, <1>a DEF Frees, Busy, Doomed, PlacesOK, PlaceOK
<1>f. \A q \in Procs : q # p /\ Busy(q) =>
        cur[q] # t /\ cur[q] \in Tags /\ orig[q] # t /\ own[cur[q]] = q /\ own[orig[q]] = q
  BY <1>h, <1>b, OwnCur
<1>k. /\ pc[p] \in {"free", "return"} /\ PlaceOK(p) /\ orig[p] \in Tags /\ own[orig[p]] = p
  BY <1>h, <1>a, <1>e, OwnCur DEF Frees, PlacesOK
<1>s. pc'[p] = "chain" => /\ err'[p] = err[p] /\ orig'[p] = orig[p] /\ orig[p] # t /\ cur'[p] \in Tags
                          /\ cur'[p] # t /\ own[cur'[p]] = p
  <2>1. SUFFICES ASSUME pc'[p] = "chain"
                 PROVE  /\ err'[p] = err[p] /\ orig'[p] = orig[p] /\ orig[p] # t /\ cur'[p] \in Tags
                        /\ cur'[p] # t /\ own[cur'[p]] = p
    OBVIOUS
  <2>2. err'[p] = err[p] /\ orig'[p] = orig[p] /\ orig[p] # t /\ cur'[p] = rpc[t].flushed
    BY <1>a, <2>1 DEF Frees
  <2>3. rpc[t].flushed \in Tags /\ own[rpc[t].flushed] = p /\ dep[t] = dep[rpc[t].flushed] + 1
    BY <1>h, <1>b, <2>2, Numbers DEF ChainsOK
  <2>4. dep[t] \in Nat
    BY DEF Depths
  <2>5. rpc[t].flushed # t
    BY <2>3, <2>4
  <2>6. QED
    BY <2>2, <2>3, <2>5
<1>5. \A u \in Tags : Live(o, u)' => u # t /\ own[u] = o[u] /\ Live(own, u)
  <2>1. SUFFICES ASSUME NEW u \in Tags, Live(o, u)' PROVE u # t /\ own[u] = o[u] /\ Live(own, u)
    OBVIOUS
  <2>2. o[u] # None /\ u # t /\ own[u] = o[u] /\ o[u] \in Procs
    BY <1>b, <2>1 DEF Live, Owners
  <2>3. CASE o[u] = p
    <3>1. pc'[p] = "chain"
      BY <1>a, <2>2, <2>3 DEF Frees
    <3>2. Busy(p)' /\ ~Doomed(p)'
      BY <2>1, <2>3, <3>1 DEF Live, Busy
    <3>3. ~Doomed(p)
      BY <1>e, <3>2
    <3>4. QED
      BY <2>2, <2>3, <3>3 DEF Live
  <2>4. CASE o[u] # p
    BY <1>e, <2>1, <2>2, <2>4 DEF Live
  <2>5. QED
    BY <2>3, <2>4
<1>6. held' = held
  <2>1. \A q \in Procs : (pc'[q] = "mux" <=> pc[q] = "mux") /\ (pc[q] = "mux" => q # p /\ Busy(q))
    BY <1>a DEF Frees, Busy
  <2>3. \A q \in Procs : pc[q] = "mux" => rpc'[cur'[q]] = rpc[cur[q]]
    BY <1>a, <1>c, <1>f, <2>1 DEF Frees
  <2>4. QED
    BY <2>1, <2>3 DEF held
<1>7. flight' = flight
  BY <1>6, <1>g DEF flight
<1>t. hungup \/ t \notin flight
  <2>1. SUFFICES ASSUME ~hungup PROVE t \notin flight
    OBVIOUS
  <2>2. Live(own, t) /\ pc[own[t]] \in Settled
    BY <1>b, <1>e, <1>k, <2>1, Numbers DEF Live, Settled
  <2>3. QED
    BY <1>h, <2>2 DEF SettledOK
<1>u. /\ \A n \in 1..Len(owed) : owed[n].tag \in Tags /\ owed[n].tag \in flight /\ ~hungup
      /\ \A n \in 1..Len(replies) : replies[n].tag \in Tags /\ replies[n].tag \in flight
      /\ \A r \in held : r.tag \in Tags /\ r.tag \in flight
  <2>1. /\ \A n \in 1..Len(owed) : owed[n].tag \in Tags /\ owed[n].tag \in flight
        /\ \A n \in 1..Len(replies) : replies[n].tag \in Tags /\ replies[n].tag \in flight
        /\ \A r \in held : r.tag \in Tags /\ r.tag \in flight
    BY <1>h, TagsTyped DEF FlightOK, Replies, flight
  <2>2. hungup => Len(owed) = 0
    BY <1>h DEF FlightOK
  <2>3. QED
    BY <2>1, <2>2
<1>3. ASSUME NEW q \in Procs PROVE PlaceOK(q)'
  <2>1. PlaceOK(q)
    BY <1>h DEF PlacesOK
  <2>2. CASE q = p
    <3>1. rip' = rip /\ rip # p /\ err[p] # "Eintr" /\ (err[p] = "fail" => hungup)
      BY <1>a, <1>k DEF Frees, PlaceOK, Reading
    <3>2. CASE pc'[p] = "chain"
      BY <1>g, <1>k, <1>s, <2>2, <3>1, <3>2, Numbers DEF PlaceOK, Reading
    <3>3. CASE pc'[p] = "idle"
      <4>1. err'[p] = None /\ orig'[p] = None /\ cur'[p] = None
        BY <1>a, <3>3 DEF Frees
      <4>2. QED
        BY <2>2, <3>1, <3>3, <4>1, Numbers DEF PlaceOK, Reading
    <3>4. QED
      BY <1>a, <3>2, <3>3 DEF Frees
  <2>3. CASE q # p
    BY <1>a, <1>c, <1>d, <1>f, <2>1, <2>3 DEF PlaceOK, Reading, Frees, Busy
  <2>4. QED
    BY <2>2, <2>3
<1>8. TagsOK(o)'
  <2>1. Distinct(rpcfree') /\ spare' \subseteq tagmask'
    BY <1>a DEF Frees
  <2>2. \A u \in Tags : o[u] # None <=> u \in tagmask' /\ u \notin spare'
    BY <1>h, <1>a, <1>b DEF TagsOK, Frees
  <2>3. ASSUME NEW q \in Procs, Busy(q)' PROVE o[cur'[q]] = q /\ o[orig'[q]] = q
    <3>1. CASE q = p
      BY <1>b, <1>e, <1>k, <1>s, <2>3, <3>1
    <3>2. CASE q # p
      <4>1. Busy(q)
        BY <1>e, <2>3, <3>2
      <4>2. /\ cur[q] \in Tags /\ orig[q] \in Tags /\ cur[q] # t /\ orig[q] # t
            /\ own[cur[q]] = q /\ own[orig[q]] = q
        BY <1>h, <1>f, <3>2, <4>1, OwnCur
      <4>3. QED
        BY <1>b, <1>c, <3>2, <4>2
    <3>3. QED
      BY <3>1, <3>2
  <2>4. ASSUME NEW u \in Tags, o[u] # None PROVE pc'[o[u]] # "idle"
    <3>1. u # t /\ own[u] = o[u] /\ o[u] \in Procs /\ pc[own[u]] # "idle"
      BY <1>h, <1>b, <2>4 DEF Owners, TagsOK, Busy
    <3>2. QED
      BY <1>a, <1>c, <3>1 DEF Frees
  <2>5. QED
    BY <2>1, <2>2, <2>3, <2>4 DEF TagsOK, Busy
<1>9. ChainsOK(o, dep)'
  BY FreeChains
<1>10. QueueOK(o)'
  <2>1. Distinct(queue')
    BY <1>h, <1>a DEF QueueOK, Frees
  <2>2. QED
    BY <1>h, <1>b, <1>d, <1>g, <2>1 DEF QueueOK
<1>11. FlightOK(o)'
  <2>1. ASSUME NEW r, r.tag \in Tags, r.tag \in flight, Genuine(own, r) PROVE Genuine(o, r)'
    <3>1. ~hungup' => o[r.tag] # None
      BY <1>b, <1>g, <1>t, <2>1 DEF Genuine
    <3>2. ASSUME Live(o, r.tag)' PROVE r.of \in {rpc'[r.tag].call, Rflush}
      <4>1. r.tag # t /\ Live(own, r.tag)
        BY <1>5, <2>1, <3>2
      <4>2. QED
        BY <1>a, <2>1, <4>1 DEF Genuine, Frees
    <3>3. QED
      BY <3>1, <3>2 DEF Genuine
  <2>2. \A n \in 1..Len(owed) : o[owed[n].tag] # None /\ owed[n] = Message(owed[n].tag)'
    <3>1. \A n \in 1..Len(owed) : owed[n].tag # t
      BY <1>t, <1>u
    <3>2. QED
      BY <1>h, <1>a, <1>b, <1>u, <3>1 DEF FlightOK, Message, Frees
  <2>3. \A n \in 1..Len(replies) : Genuine(o, replies[n])'
    <3>1. ASSUME NEW n \in 1..Len(replies) PROVE Genuine(o, replies[n])'
      <4>1. PICK r : r = replies[n]
        OBVIOUS
      <4>2. r.tag \in Tags /\ r.tag \in flight /\ Genuine(own, r) /\ replies'[n] = r
        BY <1>h, <1>g, <1>u, <4>1 DEF FlightOK
      <4>3. Genuine(o, r)'
        BY <2>1, <4>2
      <4>4. QED
        BY <4>2, <4>3 DEF Genuine, Live, Doomed
    <3>2. QED
      BY <3>1
  <2>4. QED
    <3>1. \A r \in held' : r \in Replies /\ Genuine(o, r)'
      BY <1>h, <1>6, <1>u, <2>1 DEF FlightOK
    <3>2. hungup' => owed' = <<>>
      BY <1>h, <1>g DEF FlightOK
    <3>3. QED
      BY <1>g, <2>2, <2>3, <3>1, <3>2 DEF FlightOK
<1>12. OrderOK(o, dep)'
  <2>1. ASSUME NEW u \in Tags, NEW v \in Tags, Rises(own, dep, u, v)
        PROVE  Rises(o, dep, u, v)'
    <3>1. SUFFICES ASSUME Live(o, u)', o[u] = o[v] PROVE dep[u] < dep[v]
      BY DEF Rises
    <3>2. u # t /\ Live(own, u) /\ own[u] = o[u] /\ o[u] # None
      BY <1>5, <3>1 DEF Live
    <3>3. v # t
      BY <1>b, <3>1, <3>2
    <3>4. QED
      BY <1>b, <2>1, <3>1, <3>2, <3>3 DEF Rises
  <2>2. QED
    BY <1>h, <1>6, <1>g, <1>u, <2>1 DEF OrderOK
<1>13. SettledOK(o, dep)'
  <2>1. ASSUME NEW q \in Procs, pc'[q] = "write", ~Doomed(q)' PROVE cur'[q] \notin flight' \cup done'
    <3>1. q # p
      BY <1>a, <2>1 DEF Frees
    <3>2. pc[q] = "write" /\ ~Doomed(q) /\ cur'[q] = cur[q]
      BY <1>c, <1>e, <2>1, <3>1
    <3>3. QED
      BY <1>h, <1>d, <1>7, <3>2 DEF SettledOK
  <2>2. ASSUME NEW u \in done', NEW v \in Tags, Live(o, u)', o[v] = o[u], dep[v] <= dep[u]
        PROVE  v \notin flight'
    <3>1. u \in Tags /\ u \in done /\ u # t /\ Live(own, u) /\ own[u] = o[u] /\ o[u] # None
      BY <1>5, <1>d, <2>2 DEF done, Live
    <3>2. v # t
      BY <1>b, <2>2, <3>1
    <3>3. own[v] = own[u]
      BY <1>b, <2>2, <3>1, <3>2
    <3>4. QED
      BY <1>h, <1>7, <2>2, <3>1, <3>3 DEF SettledOK
  <2>3. ASSUME NEW u \in Tags, Live(o, u)', pc'[o[u]] \in Settled PROVE u \notin flight'
    <3>1. own[u] = o[u] /\ Live(own, u) /\ own[u] \in Procs
      BY <1>5, <2>3 DEF Live, Owners
    <3>2. pc[own[u]] \in Settled
      BY <1>c, <1>k, <2>3, <3>1 DEF Settled
    <3>3. QED
      BY <1>h, <1>7, <3>1, <3>2 DEF SettledOK
  <2>4. QED
    BY <2>1, <2>2, <2>3 DEF SettledOK
<1>14. AnswersOK'
  <2>1. SUFFICES ASSUME NEW q \in Procs, Busy(q)', ~Doomed(q)', orig'[q] \in done'
                 PROVE  rpc'[orig'[q]].reply.of \in {rpc'[orig'[q]].call, Rflush}
    BY DEF AnswersOK
  <2>2. orig'[q] # t /\ orig'[q] \in Tags /\ orig'[q] \in done
    BY <1>d, <2>1 DEF done
  <2>3. orig'[q] = orig[q] /\ Busy(q) /\ ~Doomed(q)
    <3>1. CASE q # p
      BY <1>c, <1>e, <2>1, <3>1
    <3>2. CASE q = p
      BY <1>e, <1>s, <2>1, <3>2
    <3>3. QED
      BY <3>1, <3>2
  <2>5. QED
    BY <1>h, <1>a, <2>2, <2>3 DEF AnswersOK, Frees
<1>15. QED
  BY <1>3, <1>8, <1>9, <1>10, <1>11, <1>12, <1>13, <1>14 DEF CallInv, PlacesOK

LEMMA FlushFreeOK ==
  ASSUME NEW own \in Owners, NEW dep \in Depths, CallInv(own, dep), NEW p \in Procs, FlushFree(p)
  PROVE  IndInv'
<1>h. /\ TypesOK /\ PlacesOK /\ TagsOK(own) /\ ChainsOK(own, dep) /\ QueueOK(own)
      /\ FlightOK(own) /\ OrderOK(own, dep) /\ SettledOK(own, dep) /\ AnswersOK
  BY DEF CallInv
<1>1. PICK t : t = cur[p]
  OBVIOUS
<1>p. /\ pc[p] = "free" /\ pc'[p] = "chain" /\ pc' \in [Procs -> Labels] /\ Busy(p)
      /\ \A q \in Procs : q # p => pc'[q] = pc[q]
  BY <1>h DEF TypesOK, Labels, Busy, FlushFree, Goto
<1>b. t \in Tags /\ orig[p] \in Tags /\ own[t] = p /\ own[orig[p]] = p /\ own[t] # None
  BY <1>h, <1>1, <1>p, OwnCur, Numbers
<1>k. t \in done /\ t # orig[p]
  BY <1>h, <1>1, <1>p DEF PlacesOK, PlaceOK
<1>a. /\ \/ Len(rpcfree) >= MaxFree /\ tagmask' = tagmask \ {t} /\ rpcfree' = rpcfree
         \/ rpcfree' = <<t>> \o rpcfree /\ tagmask' = tagmask
      /\ rpc' = [rpc EXCEPT ![t] = Fresh(t)] /\ cur' = [cur EXCEPT ![p] = rpc[t].flushed]
      /\ orig' = orig /\ queue' = queue /\ rip' = rip
      /\ killed' = killed /\ late' = late /\ err' = err
      /\ todo' = todo /\ interrupts' = interrupts
      /\ owed' = owed /\ replies' = replies /\ hungup' = hungup
  BY <1>1 DEF FlushFree, mntfree, server, counts, mount
<1>t. /\ rpcfree' \in Seq(Tags) /\ Distinct(rpcfree') /\ tagmask' \subseteq Tags
      /\ spare' \subseteq tagmask' /\ ~(t \in tagmask' /\ t \notin spare')
      /\ \A u \in Tags : u # t => ((u \in tagmask' /\ u \notin spare') <=> (u \in tagmask /\ u \notin spare))
  BY <1>h, <1>a, <1>b, MntfreeTags
<1>r. /\ rpc' \in [Tags -> Header] /\ ~rpc'[t].done
      /\ \A u \in Tags : u # t => rpc'[u] = rpc[u]
  BY <1>h, <1>a, <1>b, MntfreeHeader
<1>2. rpc[t].flushed \in Tags
  BY <1>h, <1>b, <1>k DEF ChainsOK
<1>3. TypesOK'
  BY <1>h, <1>p, <1>a, <1>t, <1>r, <1>2 DEF TypesOK
<1>4. PICK o : o = [own EXCEPT ![t] = None]
  OBVIOUS
<1>5. o \in Owners
  BY <1>4 DEF Owners
<1>6. cur'[p] = rpc[t].flushed /\ \A q \in Procs : q # p => cur'[q] = cur[q]
  BY <1>h, <1>a DEF TypesOK
<1>7. Frees(p, t, o, own)
  BY <1>1, <1>p, <1>b, <1>k, <1>a, <1>t, <1>r, <1>4, <1>6 DEF Frees
<1>8. CallInv(o, dep)'
  BY <1>b, <1>3, <1>5, <1>7, FreeOK
<1>9. QED
  BY <1>5, <1>8 DEF IndInv

LEMMA ReturnOK ==
  ASSUME NEW own \in Owners, NEW dep \in Depths, CallInv(own, dep), NEW p \in Procs, Return(p)
  PROVE  IndInv'
<1>h. /\ TypesOK /\ PlacesOK /\ TagsOK(own) /\ ChainsOK(own, dep) /\ QueueOK(own)
      /\ FlightOK(own) /\ OrderOK(own, dep) /\ SettledOK(own, dep) /\ AnswersOK
  BY DEF CallInv
<1>1. PICK t : t = cur[p]
  OBVIOUS
<1>p. /\ pc[p] = "return" /\ pc'[p] = "idle" /\ pc' \in [Procs -> Labels] /\ Busy(p)
      /\ \A q \in Procs : q # p => pc'[q] = pc[q]
  BY <1>h DEF TypesOK, Labels, Busy, Return, Goto
<1>b. t \in Tags /\ own[t] = p /\ own[t] # None
  BY <1>h, <1>1, <1>p, OwnCur, Numbers
<1>k. t \in done /\ t = orig[p]
  BY <1>h, <1>1, <1>p DEF PlacesOK, PlaceOK
<1>a. /\ \/ Len(rpcfree) >= MaxFree /\ tagmask' = tagmask \ {t} /\ rpcfree' = rpcfree
         \/ rpcfree' = <<t>> \o rpcfree /\ tagmask' = tagmask
      /\ rpc' = [rpc EXCEPT ![t] = Fresh(t)] /\ cur' = [cur EXCEPT ![p] = None]
      /\ orig' = [orig EXCEPT ![p] = None] /\ queue' = queue /\ rip' = rip
      /\ killed' = killed /\ late' = late /\ err' = [err EXCEPT ![p] = None]
      /\ todo' = todo /\ interrupts' = interrupts
      /\ owed' = owed /\ replies' = replies /\ hungup' = hungup
  BY <1>k DEF Return, mntfree, server, counts, mount, Raise
<1>t. /\ rpcfree' \in Seq(Tags) /\ Distinct(rpcfree') /\ tagmask' \subseteq Tags
      /\ spare' \subseteq tagmask' /\ ~(t \in tagmask' /\ t \notin spare')
      /\ \A u \in Tags : u # t => ((u \in tagmask' /\ u \notin spare') <=> (u \in tagmask /\ u \notin spare))
  BY <1>h, <1>a, <1>b, MntfreeTags
<1>r. /\ rpc' \in [Tags -> Header] /\ ~rpc'[t].done
      /\ \A u \in Tags : u # t => rpc'[u] = rpc[u]
  BY <1>h, <1>a, <1>b, MntfreeHeader
<1>3. TypesOK'
  BY <1>h, <1>p, <1>a, <1>t, <1>r DEF TypesOK
<1>4. PICK o : o = [own EXCEPT ![t] = None]
  OBVIOUS
<1>5. o \in Owners
  BY <1>4 DEF Owners
<1>6. /\ cur'[p] = None /\ orig'[p] = None /\ err'[p] = None
      /\ \A q \in Procs : q # p => cur'[q] = cur[q] /\ orig'[q] = orig[q] /\ err'[q] = err[q]
  BY <1>h, <1>a DEF TypesOK
<1>2. ASSUME NEW u \in Tags, own[u] = p PROVE u = t
  <2>1. dep[t] = 0 /\ dep[u] <= dep[t] /\ dep[u] \in Nat
    BY <1>h, <1>1, <1>b, <1>k, <1>2 DEF ChainsOK, Depths
  <2>2. dep[u] = 0
    BY <2>1
  <2>3. QED
    BY <1>h, <1>b, <1>k, <1>2, <2>2 DEF ChainsOK
<1>7. Frees(p, t, o, own)
  BY <1>1, <1>2, <1>p, <1>b, <1>k, <1>a, <1>t, <1>r, <1>4, <1>6 DEF Frees
<1>8. CallInv(o, dep)'
  BY <1>b, <1>3, <1>5, <1>7, FreeOK
<1>9. QED
  BY <1>5, <1>8 DEF IndInv

----------------------------------------------------------------------------
(* The server.  What is left of a list when n and maybe more is taken out. *)
Left(s, v, n) ==
  \E m \in [1..Len(v) -> 1..Len(s)] :
    /\ \A j, k \in 1..Len(v) : j < k => m[j] < m[k]
    /\ \A k \in 1..Len(v) : v[k] = s[m[k]] /\ m[k] # n

LEMMA LeftOfOne ==
  ASSUME NEW S, NEW s \in Seq(S), NEW n \in 1..Len(s)
  PROVE  Left(s, RemoveAt(s, n), n)
<1>1. PICK v : v = RemoveAt(s, n)
  OBVIOUS
<1>2. /\ Len(v) = Len(s) - 1 /\ Len(s) \in Nat
      /\ \A i \in 1..Len(v) : v[i] = s[Was(n, i)] /\ Was(n, i) \in 1..Len(s) /\ Was(n, i) # n
  <2>1. /\ RemoveAt(s, n) \in Seq(S) /\ Len(RemoveAt(s, n)) = Len(s) - 1 /\ Len(s) \in Nat
        /\ \A k \in 1..(Len(s) - 1) : RemoveAt(s, n)[k] = s[Was(n, k)] /\ Was(n, k) \in 1..Len(s) /\ Was(n, k) # n
    BY TakenOut
  <2>2. QED
    BY <1>1, <2>1
<1>3. PICK m : m = [k \in 1..Len(v) |-> Was(n, k)]
  OBVIOUS
<1>4. m \in [1..Len(v) -> 1..Len(s)] /\ \A k \in 1..Len(v) : v[k] = s[m[k]] /\ m[k] # n /\ m[k] = Was(n, k)
  BY <1>2, <1>3
<1>5. \A j, k \in 1..Len(v) : j < k => m[j] < m[k]
  <2>1. \A j, k \in 1..Len(v) : j < k => Was(n, j) < Was(n, k)
    BY <1>2 DEF Was
  <2>2. QED
    BY <1>4, <2>1
<1>6. QED
  BY <1>1, <1>4, <1>5 DEF Left

LEMMA LeftOfTwo ==
  ASSUME NEW S, NEW s \in Seq(S), NEW n \in 1..Len(s), NEW i \in 1..Len(RemoveAt(s, n))
  PROVE  Left(s, RemoveAt(RemoveAt(s, n), i), n)
<1>1. PICK w, v : w = RemoveAt(s, n) /\ v = RemoveAt(w, i)
  OBVIOUS
<1>2. /\ w \in Seq(S) /\ Len(w) = Len(s) - 1 /\ Len(s) \in Nat
      /\ \A k \in 1..Len(w) : w[k] = s[Was(n, k)] /\ Was(n, k) \in 1..Len(s) /\ Was(n, k) # n
  <2>1. /\ RemoveAt(s, n) \in Seq(S) /\ Len(RemoveAt(s, n)) = Len(s) - 1 /\ Len(s) \in Nat
        /\ \A k \in 1..(Len(s) - 1) : RemoveAt(s, n)[k] = s[Was(n, k)] /\ Was(n, k) \in 1..Len(s) /\ Was(n, k) # n
    BY TakenOut
  <2>2. QED
    BY <1>1, <2>1
<1>3. /\ Len(v) = Len(w) - 1 /\ i \in 1..Len(w)
      /\ \A k \in 1..Len(v) : v[k] = w[Was(i, k)] /\ Was(i, k) \in 1..Len(w)
  <2>0. i \in 1..Len(w)
    BY <1>1
  <2>1. /\ RemoveAt(w, i) \in Seq(S) /\ Len(RemoveAt(w, i)) = Len(w) - 1 /\ Len(w) \in Nat
        /\ \A k \in 1..(Len(w) - 1) : RemoveAt(w, i)[k] = w[Was(i, k)] /\ Was(i, k) \in 1..Len(w) /\ Was(i, k) # i
    BY <1>2, <2>0, TakenOut
  <2>2. QED
    BY <1>1, <2>0, <2>1
<1>4. PICK m : m = [k \in 1..Len(v) |-> Was(n, Was(i, k))]
  OBVIOUS
<1>5. \A k \in 1..Len(v) : /\ v[k] = s[Was(n, Was(i, k))] /\ Was(n, Was(i, k)) \in 1..Len(s)
                           /\ Was(n, Was(i, k)) # n
  BY <1>2, <1>3
<1>6. m \in [1..Len(v) -> 1..Len(s)] /\ \A k \in 1..Len(v) : v[k] = s[m[k]] /\ m[k] # n /\ m[k] = Was(n, Was(i, k))
  BY <1>4, <1>5
<1>7. \A j, k \in 1..Len(v) : j < k => Was(i, j) < Was(i, k)
  BY <1>2, <1>3 DEF Was
<1>8. \A j, k \in 1..Len(w) : j < k => Was(n, j) < Was(n, k)
  BY <1>2 DEF Was
<1>9. \A j, k \in 1..Len(v) : j < k => m[j] < m[k]
  BY <1>3, <1>6, <1>7, <1>8
<1>10. QED
  BY <1>1, <1>6, <1>9 DEF Left

LEMMA Forgotten ==
  ASSUME NEW w \in Seq(Requests), NEW b
  PROVE  \/ /\ RemoveFirstMatch(w, LAMBDA o : o.tag = b) = w
            /\ \A i \in 1..Len(w) : w[i].tag # b
         \/ \E i \in 1..Len(w) :
              w[i].tag = b /\ RemoveFirstMatch(w, LAMBDA o : o.tag = b) = RemoveAt(w, i)
<1> DEFINE I == {i \in 1..Len(w) : w[i].tag = b}
<1>1. CASE I = {}
  BY <1>1 DEF RemoveFirstMatch
<1>2. CASE I # {}
  <2>1. Min(I) \in I
    <3>1. I \subseteq Nat
      BY LenProperties
    <3>2. QED
      BY <1>2, <3>1, Least
  <2>2. RemoveFirstMatch(w, LAMBDA o : o.tag = b) = RemoveAt(w, Min(I))
    BY <1>2 DEF RemoveFirstMatch, SelectInSeq
  <2>3. QED
    BY <2>1, <2>2
<1>3. QED
  BY <1>1, <1>2

(* The server answers a message after all that it answers or forgets of the *)
(* same call.                                                               *)
Untouched ==
  /\ queue' = queue /\ rip' = rip /\ rpc' = rpc /\ rpcfree' = rpcfree /\ tagmask' = tagmask
  /\ pc' = pc /\ killed' = killed /\ orig' = orig /\ cur' = cur /\ late' = late /\ err' = err
  /\ todo' = todo /\ interrupts' = interrupts

LEMMA UntouchedOK ==
  ASSUME NEW own \in Owners, NEW dep \in Depths, CallInv(own, dep), Untouched, hungup => hungup'
  PROVE  /\ PlacesOK' /\ TagsOK(own)' /\ ChainsOK(own, dep)' /\ QueueOK(own)' /\ AnswersOK'
         /\ done' = done /\ held' = held
         /\ \A q \in Procs : (Busy(q)' <=> Busy(q)) /\ (Doomed(q) => Doomed(q)')
         /\ \A t \in Tags : Live(own, t)' => Live(own, t)
<1>h. /\ TypesOK /\ PlacesOK /\ TagsOK(own) /\ ChainsOK(own, dep) /\ QueueOK(own)
      /\ FlightOK(own) /\ OrderOK(own, dep) /\ SettledOK(own, dep) /\ AnswersOK
  BY DEF CallInv
<1>1. done' = done /\ waiting' = waiting /\ spare' = spare /\ held' = held
  BY DEF Untouched, done, waiting, spare, held
<1>2. \A q \in Procs : (Busy(q)' <=> Busy(q)) /\ (Doomed(q) => Doomed(q)')
  BY DEF Untouched, Busy, Doomed
<1>3. \A t \in Tags : Live(own, t)' => Live(own, t)
  BY <1>2 DEF Live, Owners
<1>4. PlacesOK'
  BY <1>h, <1>1 DEF Untouched, PlacesOK, PlaceOK, Reading
<1>5. TagsOK(own)'
  BY <1>h, <1>1, <1>2 DEF Untouched, TagsOK, Owners
<1>6. ChainsOK(own, dep)'
  BY <1>h DEF Untouched, ChainsOK
<1>7. QueueOK(own)'
  BY <1>h, <1>1 DEF Untouched, QueueOK
<1>8. AnswersOK'
  BY <1>h, <1>1, <1>2 DEF Untouched, AnswersOK
<1>9. QED
  BY <1>1, <1>2, <1>3, <1>4, <1>5, <1>6, <1>7, <1>8

LEMMA ServerOK ==
  ASSUME NEW own \in Owners, NEW dep \in Depths, CallInv(own, dep), NEW n \in 1..Len(owed), NEW x \in Replies,
         x.tag = owed[n].tag, x.of \in {rpc[x.tag].call, Rflush}, Untouched, hungup' = hungup,
         replies' = Append(replies, x), owed' \in Seq(Requests), Left(owed, owed', n),
         \A k \in 1..Len(owed') : Rises(own, dep, x.tag, owed'[k].tag)
  PROVE  CallInv(own, dep)'
<1>h. /\ TypesOK /\ PlacesOK /\ TagsOK(own) /\ ChainsOK(own, dep) /\ QueueOK(own)
      /\ FlightOK(own) /\ OrderOK(own, dep) /\ SettledOK(own, dep) /\ AnswersOK
  BY DEF CallInv
<1>a. /\ x.tag = owed[n].tag /\ x.of \in {rpc[x.tag].call, Rflush} /\ hungup' = hungup /\ rpc' = rpc
      /\ rpcfree' = rpcfree /\ pc' = pc /\ cur' = cur
  BY DEF Untouched
<1>u. /\ PlacesOK' /\ TagsOK(own)' /\ ChainsOK(own, dep)' /\ QueueOK(own)' /\ AnswersOK'
      /\ done' = done /\ held' = held
      /\ \A q \in Procs : (Busy(q)' <=> Busy(q)) /\ (Doomed(q) => Doomed(q)')
      /\ \A t \in Tags : Live(own, t)' => Live(own, t)
  BY UntouchedOK
<1>r. /\ replies' \in Seq(Replies) /\ Len(replies') = Len(replies) + 1 /\ Len(replies) \in Nat
      /\ \A i \in 1..Len(replies) : replies'[i] = replies[i]
      /\ replies'[Len(replies) + 1] = x
  BY <1>h, PutLast DEF TypesOK
<1>i. \A i \in 1..Len(replies') : i \in 1..Len(replies) \/ i = Len(replies) + 1
  BY <1>r
<1>m. PICK m \in [1..Len(owed') -> 1..Len(owed)] :
        /\ \A j, k \in 1..Len(owed') : j < k => m[j] < m[k]
        /\ \A k \in 1..Len(owed') : owed'[k] = owed[m[k]] /\ m[k] # n
  BY DEF Left
<1>1. TypesOK'
  BY <1>h, <1>a, <1>r DEF TypesOK, Untouched
<1>t. /\ \A k \in 1..Len(owed) : owed[k].tag \in Tags
      /\ \A k \in 1..Len(replies) : replies[k].tag \in Tags
      /\ \A r \in held : r.tag \in Tags
      /\ x.tag \in Tags
  BY <1>h, TagsTyped DEF FlightOK, Replies
<1>o. ~hungup /\ own[x.tag] # None
  <2>1. owed # <<>>
    OBVIOUS
  <2>2. QED
    BY <1>h, <1>a, <2>1 DEF FlightOK
<1>g. Genuine(own, x)
  BY <1>a, <1>o DEF Genuine
<1>7. flight' \subseteq flight
  <2>1. \A k \in 1..Len(owed') : owed'[k].tag \in flight
    BY <1>m DEF flight
  <2>2. \A k \in 1..Len(replies') : replies'[k].tag \in flight
    BY <1>a, <1>i, <1>r DEF flight
  <2>3. \A r \in held' : r.tag \in flight
    BY <1>u DEF flight
  <2>4. QED
    BY ZenonT(60), <2>1, <2>2, <2>3 DEF flight
<1>11. FlightOK(own)'
  <2>1. \A i \in 1..Len(replies') : Genuine(own, replies'[i])
    BY <1>h, <1>g, <1>i, <1>r DEF FlightOK
  <2>2. \A k \in 1..Len(owed') : own[owed'[k].tag] # None /\ owed'[k] = Message(owed'[k].tag)
    BY <1>h, <1>m DEF FlightOK
  <2>3. \A r \in held' : r \in Replies /\ r.tag \in Tags /\ Genuine(own, r)
    BY <1>h, <1>u, <1>t DEF FlightOK
  <2>4. \A t \in Tags : Live(own, t)' => Live(own, t)
    BY <1>u
  <2>5. QED
    BY <1>1, <1>a, <1>o, <2>1, <2>2, <2>3, <2>4, FlightLater
<1>12. OrderOK(own, dep)'
  <2>1. \A j, k \in 1..Len(owed') : j < k => Rises(own, dep, owed'[j].tag, owed'[k].tag)
    BY <1>h, <1>m DEF OrderOK
  <2>2. ASSUME NEW j \in 1..Len(replies'), NEW k \in 1..Len(replies'), j < k
        PROVE  Rises(own, dep, replies'[j].tag, replies'[k].tag)
    <3>1. j \in 1..Len(replies)
      BY <1>r, <2>2
    <3>2. CASE k \in 1..Len(replies)
      BY <1>h, <1>r, <2>2, <3>1, <3>2 DEF OrderOK
    <3>3. CASE k = Len(replies) + 1
      BY <1>h, <1>a, <1>r, <3>1, <3>3 DEF OrderOK
    <3>4. QED
      BY <1>i, <3>2, <3>3
  <2>3. ASSUME NEW j \in 1..Len(replies'), NEW k \in 1..Len(owed')
        PROVE  Rises(own, dep, replies'[j].tag, owed'[k].tag)
    <3>1. CASE j \in 1..Len(replies)
      BY SMTT(60), <1>h, <1>m, <1>r, <3>1 DEF OrderOK
    <3>2. CASE j = Len(replies) + 1
      BY <1>r, <3>2
    <3>3. QED
      BY <1>i, <3>1, <3>2
  <2>4. ASSUME NEW r \in held', NEW k \in 1..Len(replies') PROVE Rises(own, dep, r.tag, replies'[k].tag)
    <3>1. CASE k \in 1..Len(replies)
      BY <1>h, <1>r, <1>u, <3>1 DEF OrderOK
    <3>2. CASE k = Len(replies) + 1
      BY <1>h, <1>a, <1>r, <1>u, <3>2 DEF OrderOK
    <3>3. QED
      BY <1>i, <3>1, <3>2
  <2>5. \A r \in held', k \in 1..Len(owed') : Rises(own, dep, r.tag, owed'[k].tag)
    BY <1>h, <1>m, <1>u DEF OrderOK
  <2>6. \A t \in Tags : Live(own, t)' => Live(own, t)
    BY <1>u
  <2>7. \A r \in held' : r.tag \in Tags
    BY <1>u, <1>t
  <2>8. QED
    BY <1>1, <2>1, <2>2, <2>3, <2>4, <2>5, <2>6, <2>7, OrderLater
<1>13. SettledOK(own, dep)'
  <2>1. ASSUME NEW q \in Procs, pc'[q] = "write", ~Doomed(q)' PROVE cur'[q] \notin flight' \cup done'
    BY <1>h, <1>a, <1>u, <1>7, <2>1 DEF SettledOK
  <2>2. ASSUME NEW u \in done', NEW v \in Tags, Live(own, u)', own[v] = own[u], dep[v] <= dep[u]
        PROVE  v \notin flight'
    <3>1. u \in Tags
      BY <2>2 DEF done
    <3>2. QED
      BY <1>h, <1>u, <1>7, <2>2, <3>1 DEF SettledOK
  <2>3. ASSUME NEW u \in Tags, Live(own, u)', pc'[own[u]] \in Settled PROVE u \notin flight'
    BY <1>h, <1>a, <1>u, <1>7, <2>3 DEF SettledOK
  <2>4. QED
    BY <2>1, <2>2, <2>3 DEF SettledOK
<1>15. QED
  BY <1>1, <1>u, <1>11, <1>12, <1>13 DEF CallInv

(* Messages under way before a hang-up are of calls that are not doomed. *)
LEMMA OwedLive ==
  ASSUME NEW own \in Owners, NEW dep \in Depths, CallInv(own, dep), NEW n \in 1..Len(owed)
  PROVE  /\ owed[n] \in Requests /\ owed[n].tag \in Tags /\ own[owed[n].tag] \in Procs
         /\ Live(own, owed[n].tag) /\ ~hungup
         /\ owed[n].call = rpc[owed[n].tag].call /\ owed[n].oldtag = rpc[owed[n].tag].oldtag
<1>h. /\ TypesOK /\ PlacesOK /\ TagsOK(own) /\ ChainsOK(own, dep) /\ QueueOK(own)
      /\ FlightOK(own) /\ OrderOK(own, dep) /\ SettledOK(own, dep) /\ AnswersOK
  BY DEF CallInv
<1>1. owed[n] \in Requests /\ owed[n].tag \in Tags
  BY <1>h, TagsTyped
<1>2. ~hungup /\ own[owed[n].tag] # None /\ owed[n] = Message(owed[n].tag)
  <2>1. owed # <<>>
    OBVIOUS
  <2>2. QED
    BY <1>h, <2>1 DEF FlightOK
<1>3. own[owed[n].tag] \in Procs
  BY <1>1, <1>2 DEF Owners
<1>4. \A q \in Procs : ~Doomed(q)
  BY <1>h, <1>2 DEF Doomed, PlacesOK, PlaceOK
<1>5. PICK t : t = owed[n].tag
  OBVIOUS
<1>6. owed[n].call = rpc[t].call /\ owed[n].oldtag = rpc[t].oldtag
  BY <1>2, <1>5 DEF Message
<1>7. QED
  BY <1>1, <1>2, <1>3, <1>4, <1>5, <1>6 DEF Live

LEMMA ServerRepliesOK ==
  ASSUME NEW own \in Owners, NEW dep \in Depths, CallInv(own, dep), NEW n \in 1..Len(owed), ServerReplies(n)
  PROVE  CallInv(own, dep)'
<1>h. /\ TypesOK /\ PlacesOK /\ TagsOK(own) /\ ChainsOK(own, dep) /\ QueueOK(own)
      /\ FlightOK(own) /\ OrderOK(own, dep) /\ SettledOK(own, dep) /\ AnswersOK
  BY DEF CallInv
<1>1. PICK z : z = owed[n]
  OBVIOUS
<1>2. /\ z \in Requests /\ z.tag \in Tags /\ own[z.tag] \in Procs /\ Live(own, z.tag) /\ ~hungup
      /\ z.call = rpc[z.tag].call /\ z.oldtag = rpc[z.tag].oldtag
  BY <1>1, OwedLive
<1>3. PICK x : x = [tag |-> z.tag, of |-> z.call]
  OBVIOUS
<1>a. /\ z.oldtag = None /\ replies' = Append(replies, x) /\ owed' = RemoveAt(owed, n)
      /\ Untouched /\ hungup' = hungup
  BY <1>1, <1>3 DEF ServerReplies, IsFlush, Untouched, mount, headers, procs, counts
<1>n. own[z.tag] # None /\ orig[own[z.tag]] # None
  <2>1. Busy(own[z.tag])
    BY <1>h, <1>2, Numbers DEF TagsOK
  <2>2. QED
    BY <1>h, <1>2, <2>1, OwnCur, Numbers
<1>4. z.tag = orig[own[z.tag]] /\ dep[z.tag] = 0 /\ z.call \in Calls
  BY <1>h, <1>2, <1>a, <1>n DEF ChainsOK
<1>5. x \in Replies /\ x.tag = z.tag /\ x.of \in {rpc[x.tag].call, Rflush}
  BY <1>2, <1>3, <1>4 DEF Replies
<1>6. owed \in Seq(Requests)
  BY <1>h DEF TypesOK
<1>7. owed' \in Seq(Requests) /\ Left(owed, owed', n)
  BY <1>6, <1>a, TakenOut, LeftOfOne
<1>m. PICK m \in [1..Len(owed') -> 1..Len(owed)] :
        \A k \in 1..Len(owed') : owed'[k] = owed[m[k]] /\ m[k] # n
  BY <1>7 DEF Left
<1>8. ASSUME NEW k \in 1..Len(owed') PROVE Rises(own, dep, x.tag, owed'[k].tag)
  <2>1. PICK j \in 1..Len(owed) : owed'[k] = owed[j] /\ j # n
    BY <1>m
  <2>2. j \in Int /\ n \in Int
    BY <1>6, LenProperties
  <2>3. CASE n < j
    BY <1>h, <1>1, <1>5, <2>1, <2>3 DEF OrderOK
  <2>4. CASE j < n
    <3>1. Live(own, owed[j].tag) /\ owed[j].tag \in Tags
      BY OwedLive
    <3>2. Rises(own, dep, owed[j].tag, z.tag)
      BY <1>h, <1>1, <2>4 DEF OrderOK
    <3>3. dep[owed[j].tag] \in Nat
      BY <3>1 DEF Depths
    <3>4. own[owed[j].tag] # own[z.tag]
      BY <1>4, <3>1, <3>2, <3>3 DEF Rises
    <3>5. QED
      BY <1>5, <2>1, <3>4 DEF Rises
  <2>5. QED
    BY <2>1, <2>2, <2>3, <2>4
<1>9. QED
  BY <1>1, <1>5, <1>7, <1>8, <1>a, ServerOK

LEMMA ServerFlushesOK ==
  ASSUME NEW own \in Owners, NEW dep \in Depths, CallInv(own, dep), NEW n \in 1..Len(owed), ServerFlushes(n)
  PROVE  CallInv(own, dep)'
<1>h. /\ TypesOK /\ PlacesOK /\ TagsOK(own) /\ ChainsOK(own, dep) /\ QueueOK(own)
      /\ FlightOK(own) /\ OrderOK(own, dep) /\ SettledOK(own, dep) /\ AnswersOK
  BY DEF CallInv
<1>1. PICK z, b : z = owed[n] /\ b = owed[n].oldtag
  OBVIOUS
<1>2. /\ z \in Requests /\ z.tag \in Tags /\ own[z.tag] \in Procs /\ Live(own, z.tag) /\ ~hungup
      /\ z.call = rpc[z.tag].call /\ z.oldtag = rpc[z.tag].oldtag
  BY <1>1, OwedLive
<1>3. PICK x : x = [tag |-> z.tag, of |-> Rflush]
  OBVIOUS
<1>a. /\ b # None /\ replies' = Append(replies, x)
      /\ owed' = RemoveFirstMatch(RemoveAt(owed, n), LAMBDA o : o.tag = b)
      /\ \A k \in 1..(n - 1) : owed[k].oldtag # b
      /\ Untouched /\ hungup' = hungup
  BY <1>1, <1>3 DEF ServerFlushes, IsFlush, Untouched, mount, headers, procs, counts
<1>4. own[z.tag] # None /\ b = orig[own[z.tag]]
  <2>1. own[z.tag] # None
    BY <1>2, Numbers
  <2>2. QED
    BY <1>h, <1>1, <1>2, <1>a, <2>1 DEF ChainsOK
<1>5. x \in Replies /\ x.tag = z.tag /\ x.of \in {rpc[x.tag].call, Rflush}
  BY <1>2, <1>3 DEF Replies
<1>6. owed \in Seq(Requests) /\ Len(owed) \in Nat
  BY <1>h, LenProperties DEF TypesOK
<1>w. PICK w : w = RemoveAt(owed, n)
  OBVIOUS
<1>v. /\ w \in Seq(Requests) /\ Len(w) = Len(owed) - 1
      /\ \A i \in 1..Len(w) : w[i] = owed[Was(n, i)] /\ Was(n, i) \in 1..Len(owed) /\ Was(n, i) # n
  BY SMTT(60), <1>6, <1>w, TakenOut
<1>c. \A i, j \in 1..Len(owed) : owed[i].tag = b /\ owed[j].tag = b => i = j
  <2>1. SUFFICES ASSUME NEW i \in 1..Len(owed), NEW j \in 1..Len(owed), i < j,
                        owed[i].tag = b, owed[j].tag = b
                 PROVE  FALSE
    BY <1>6
  <2>2. Rises(own, dep, owed[i].tag, owed[j].tag)
    BY <1>h, <2>1 DEF OrderOK
  <2>3. Live(own, owed[i].tag) /\ owed[i].tag \in Tags
    BY OwedLive
  <2>4. dep[b] < dep[b] /\ dep[b] \in Nat
    BY <2>1, <2>2, <2>3 DEF Rises, Depths
  <2>5. QED
    BY <2>4
<1>7. /\ owed' \in Seq(Requests) /\ Left(owed, owed', n)
      /\ \A k \in 1..Len(owed') : owed'[k].tag # b
  <2>1. CASE owed' = w /\ \A i \in 1..Len(w) : w[i].tag # b
    BY <1>6, <1>w, <1>v, <2>1, LeftOfOne
  <2>2. ASSUME NEW i \in 1..Len(w), w[i].tag = b, owed' = RemoveAt(w, i)
        PROVE  /\ owed' \in Seq(Requests) /\ Left(owed, owed', n)
               /\ \A k \in 1..Len(owed') : owed'[k].tag # b
    <3>1. /\ owed' \in Seq(Requests) /\ Len(owed') = Len(w) - 1
          /\ \A k \in 1..Len(owed') : owed'[k] = w[Was(i, k)] /\ Was(i, k) \in 1..Len(w) /\ Was(i, k) # i
      <4>1. /\ RemoveAt(w, i) \in Seq(Requests) /\ Len(RemoveAt(w, i)) = Len(w) - 1 /\ Len(w) \in Nat
            /\ \A k \in 1..(Len(w) - 1) : RemoveAt(w, i)[k] = w[Was(i, k)] /\ Was(i, k) \in 1..Len(w) /\ Was(i, k) # i
        BY <1>v, <2>2, TakenOut
      <4>2. QED
        BY <2>2, <4>1
    <3>2. Left(owed, owed', n)
      BY <1>6, <1>w, <2>2, LeftOfTwo
    <3>3. ASSUME NEW k \in 1..Len(owed') PROVE owed'[k].tag # b
      <4>1. PICK j \in 1..Len(w) : j # i /\ owed'[k] = w[j]
        BY <3>1
      <4>2. Was(n, i) # Was(n, j)
        BY <1>6, <1>v, <4>1 DEF Was
      <4>3. QED
        BY <1>c, <1>v, <2>2, <4>1, <4>2
    <3>4. QED
      BY <3>1, <3>2, <3>3
  <2>3. QED
    BY <1>a, <1>w, <1>v, <2>1, <2>2, Forgotten
<1>m. PICK m \in [1..Len(owed') -> 1..Len(owed)] :
        \A k \in 1..Len(owed') : owed'[k] = owed[m[k]] /\ m[k] # n
  BY <1>7 DEF Left
<1>8. ASSUME NEW k \in 1..Len(owed') PROVE Rises(own, dep, x.tag, owed'[k].tag)
  <2>1. PICK j \in 1..Len(owed) : owed'[k] = owed[j] /\ j # n
    BY <1>m
  <2>2. j \in Int /\ n \in Int
    BY <1>6
  <2>3. CASE n < j
    BY <1>h, <1>1, <1>5, <2>1, <2>3 DEF OrderOK
  <2>4. CASE j < n
    <3>1. PICK u : u = owed[j].tag
      OBVIOUS
    <3>2. u \in Tags /\ own[u] \in Procs /\ owed[j].oldtag = rpc[u].oldtag
      BY <3>1, OwedLive
    <3>3. u # b
      BY <1>7, <2>1, <3>1
    <3>4. owed[j].oldtag # b
      <4>1. j \in 1..(n - 1)
        BY <1>6, <2>4
      <4>2. QED
        BY <1>a, <4>1
    <3>5. own[u] # own[z.tag]
      <4>1. SUFFICES ASSUME own[u] = own[z.tag] PROVE FALSE
        OBVIOUS
      <4>2. u # orig[own[u]] /\ own[u] # None
        BY <1>4, <3>3, <4>1
      <4>3. rpc[u].oldtag = orig[own[u]]
        BY <1>h, <3>2, <4>2 DEF ChainsOK
      <4>4. QED
        BY <1>4, <3>2, <3>4, <4>1, <4>3
    <3>6. QED
      BY <1>5, <2>1, <3>1, <3>5 DEF Rises
  <2>5. QED
    BY <2>1, <2>2, <2>3, <2>4
<1>9. QED
  BY <1>1, <1>5, <1>7, <1>8, <1>a, ServerOK

(* The server goes: nothing is owed, and calls that write or flush fail. *)
LEMMA ServerHangsUpOK ==
  ASSUME NEW own \in Owners, NEW dep \in Depths, CallInv(own, dep), ServerHangsUp
  PROVE  CallInv(own, dep)'
<1>h. /\ TypesOK /\ PlacesOK /\ TagsOK(own) /\ ChainsOK(own, dep) /\ QueueOK(own)
      /\ FlightOK(own) /\ OrderOK(own, dep) /\ SettledOK(own, dep) /\ AnswersOK
  BY DEF CallInv
<1>a. hungup' = TRUE /\ owed' = <<>> /\ replies' = replies /\ Untouched
  BY DEF ServerHangsUp, Untouched, mount, headers, procs, counts
<1>u. /\ PlacesOK' /\ TagsOK(own)' /\ ChainsOK(own, dep)' /\ QueueOK(own)' /\ AnswersOK'
      /\ done' = done /\ held' = held
      /\ \A q \in Procs : (Busy(q)' <=> Busy(q)) /\ (Doomed(q) => Doomed(q)')
      /\ \A t \in Tags : Live(own, t)' => Live(own, t)
  BY <1>a, UntouchedOK
<1>1. TypesOK'
  BY <1>h, <1>a DEF TypesOK, Untouched
<1>2. flight' \subseteq flight
  BY <1>a, <1>u DEF flight
<1>t. /\ \A k \in 1..Len(replies) : replies[k].tag \in Tags
      /\ \A r \in held : r.tag \in Tags
  BY <1>h, TagsTyped DEF FlightOK, Replies
<1>3. FlightOK(own)'
  <2>1. ASSUME NEW r, r.tag \in Tags, Genuine(own, r) PROVE Genuine(own, r)'
    BY <1>a, <1>u, <2>1 DEF Genuine, Untouched
  <2>2. \A k \in 1..Len(replies) : Genuine(own, replies[k])'
    <3>1. ASSUME NEW k \in 1..Len(replies) PROVE Genuine(own, replies[k])'
      <4>1. PICK r : r = replies[k]
        OBVIOUS
      <4>2. r.tag \in Tags /\ Genuine(own, r) /\ replies'[k] = r
        BY <1>h, <1>a, <1>t, <4>1 DEF FlightOK
      <4>3. Genuine(own, r)'
        BY <2>1, <4>2
      <4>4. QED
        BY <4>2, <4>3 DEF Genuine, Live, Doomed
    <3>2. QED
      BY <3>1
  <2>3. \A r \in held' : r \in Replies /\ Genuine(own, r)'
    BY <1>h, <1>u, <1>t, <2>1 DEF FlightOK
  <2>4. QED
    BY <1>a, <2>2, <2>3 DEF FlightOK
<1>4. OrderOK(own, dep)'
  <2>1. \A j, k \in 1..Len(replies') : j < k => Rises(own, dep, replies'[j].tag, replies'[k].tag)
    BY <1>h, <1>a DEF OrderOK
  <2>2. \A r \in held', k \in 1..Len(replies') : Rises(own, dep, r.tag, replies'[k].tag)
    BY <1>h, <1>a, <1>u DEF OrderOK
  <2>3. \A t \in Tags : Live(own, t)' => Live(own, t)
    BY <1>u
  <2>4. \A r \in held' : r.tag \in Tags
    BY <1>u, <1>t
  <2>5. Len(owed') = 0
    BY <1>a
  <2>6. QED
    BY <1>1, <2>1, <2>2, <2>3, <2>4, <2>5, OrderLater
<1>5. SettledOK(own, dep)'
  <2>1. ASSUME NEW q \in Procs, pc'[q] = "write", ~Doomed(q)' PROVE cur'[q] \notin flight' \cup done'
    BY <1>a, <2>1 DEF Doomed
  <2>2. ASSUME NEW u \in done', NEW v \in Tags, Live(own, u)', own[v] = own[u], dep[v] <= dep[u]
        PROVE  v \notin flight'
    <3>1. u \in Tags
      BY <2>2 DEF done
    <3>2. QED
      BY <1>h, <1>u, <1>2, <2>2, <3>1 DEF SettledOK
  <2>3. ASSUME NEW u \in Tags, Live(own, u)', pc'[own[u]] \in Settled PROVE u \notin flight'
    BY <1>h, <1>a, <1>u, <1>2, <2>3 DEF SettledOK, Untouched
  <2>4. QED
    BY <2>1, <2>2, <2>3 DEF SettledOK
<1>6. QED
  BY <1>1, <1>u, <1>3, <1>4, <1>5 DEF CallInv
----------------------------------------------------------------------------
LEMMA InitOK == Init => IndInv
<1>1. SUFFICES ASSUME Init PROVE IndInv
  OBVIOUS
<1>2. PICK own, dep : own = [t \in Tags |-> None] /\ dep = [t \in Tags |-> 0]
  OBVIOUS
<1>3. own \in Owners /\ dep \in Depths /\ \A t \in Tags : own[t] = None
  BY <1>2 DEF Owners, Depths
<1>4. /\ queue = <<>> /\ rip = None /\ rpc = [t \in Tags |-> Unused] /\ rpcfree = <<>> /\ tagmask = {}
      /\ pc = [p \in Procs |-> "idle"] /\ killed = [p \in Procs |-> FALSE]
      /\ orig = [p \in Procs |-> None] /\ cur = [p \in Procs |-> None]
      /\ late = [p \in Procs |-> None] /\ err = [p \in Procs |-> None]
      /\ todo = Work /\ interrupts = 0 /\ owed = <<>> /\ replies = <<>> /\ hungup = FALSE
  BY <1>1 DEF Init
<1>5. Unused \in Header /\ ~Unused.done
  <2>1. NoReply \in [tag : Tags \cup {None}, of : Calls \cup {Rflush, None}]
    BY DEF NoReply
  <2>2. QED
    BY <2>1 DEF Unused, Header
<1>6. Work \in [Procs -> Seq(Calls)]
  <2>1. ASSUME NEW p \in Procs PROVE Work[p] \in Seq(Calls)
    <3>1. Work[p] \in Seq(Nat \ {0})
      BY MntAssumption
    <3>2. \A i \in 1..Len(Work[p]) : Work[p][i] \in Calls
      BY <3>1 DEF Calls, ToSet
    <3>3. Len(Work[p]) \in Nat /\ Work[p] = [i \in 1..Len(Work[p]) |-> Work[p][i]]
      BY <3>1
    <3>4. QED
      BY <3>2, <3>3
  <2>2. QED
    BY <2>1, MntAssumption
<1>7. done = {} /\ waiting = {} /\ spare = {} /\ held = {} /\ flight = {} /\ \A p \in Procs : ~Busy(p) /\ pc[p] = "idle"
  <2>1. \A p \in Procs : ~Busy(p) /\ pc[p] = "idle"
    BY <1>4 DEF Busy
  <2>2. done = {}
    BY <1>4, <1>5 DEF done
  <2>3. waiting = {} /\ spare = {}
    BY <1>4 DEF waiting, spare, Members
  <2>4. held = {}
    BY <2>1 DEF held
  <2>5. flight = {}
    BY <1>4, <2>4 DEF flight
  <2>6. QED
    BY <2>1, <2>2, <2>3, <2>4, <2>5
<1>8. TypesOK
  <2>1. MaxInterrupts \in Nat
    BY MntAssumption
  <2>2. queue \in Seq(Tags) /\ rpcfree \in Seq(Tags) /\ replies \in Seq(Replies) /\ owed \in Seq(Requests)
    BY <1>4, EmptySeq
  <2>3. rpc \in [Tags -> Header] /\ pc \in [Procs -> Labels]
    BY <1>4, <1>5 DEF Labels
  <2>4. /\ orig \in [Procs -> Tags \cup {None}] /\ cur \in [Procs -> Tags \cup {None}]
        /\ late \in [Procs -> Tags \cup {None}] /\ err \in [Procs -> {None, "Eintr", "fail"}]
        /\ killed \in [Procs -> BOOLEAN] /\ interrupts \in 0..MaxInterrupts
    BY <1>4, <2>1
  <2>5. QED
    BY <1>4, <1>6, <2>2, <2>3, <2>4 DEF TypesOK
<1>9. PlacesOK
  BY <1>4, Numbers DEF PlacesOK, PlaceOK, Reading
<1>10. TagsOK(own) /\ QueueOK(own)
  <2>1. Distinct(queue) /\ Distinct(rpcfree)
    BY <1>4 DEF Distinct
  <2>2. QED
    BY <1>3, <1>4, <1>7, <2>1 DEF TagsOK, QueueOK
<1>11. ChainsOK(own, dep)
  BY <1>3 DEF ChainsOK
<1>12. FlightOK(own) /\ OrderOK(own, dep)
  BY <1>4, <1>7 DEF FlightOK, OrderOK
<1>13. SettledOK(own, dep) /\ AnswersOK
  BY <1>7 DEF SettledOK, AnswersOK
<1>14. QED
  BY <1>3, <1>8, <1>9, <1>10, <1>11, <1>12, <1>13 DEF IndInv, CallInv

LEMMA StutterOK == IndInv /\ UNCHANGED vars => IndInv'
<1>1. SUFFICES ASSUME IndInv, UNCHANGED vars PROVE IndInv'
  OBVIOUS
<1>2. PICK own \in Owners, dep \in Depths : CallInv(own, dep)
  BY <1>1 DEF IndInv
<1>3. /\ Untouched /\ owed' = owed /\ replies' = replies /\ hungup' = hungup
  BY SMTT(60), <1>1 DEF vars, mount, headers, procs, counts, server, Untouched
<1>4. CallInv(own, dep)'
  BY <1>2, <1>3 DEF Untouched, CallInv, TypesOK, PlacesOK, PlaceOK, Reading, TagsOK, ChainsOK,
     QueueOK, FlightOK, OrderOK, SettledOK, AnswersOK, done, waiting, spare, Busy, Doomed, Live,
     held, flight, Genuine, Rises, Message
<1>5. QED
  BY <1>4 DEF IndInv

LEMMA NextOK == IndInv /\ [Next]_vars => IndInv'
<1>1. SUFFICES ASSUME IndInv, Next PROVE IndInv'
  BY StutterOK
<1>2. PICK own \in Owners, dep \in Depths : CallInv(own, dep)
  BY <1>1 DEF IndInv
<1>3. SUFFICES ASSUME ~CallInv(own, dep)' PROVE IndInv'
  BY DEF IndInv
<1>4. ASSUME NEW p \in Procs, Call(p) PROVE IndInv'
  BY <1>2, <1>4, CallOK
<1>5. ASSUME NEW p \in Procs, Interrupt(p) PROVE IndInv'
  BY <1>2, <1>3, <1>5, InterruptOK
<1>6. ASSUME NEW p \in Procs, ProcStep(p) PROVE IndInv'
  <2>1. CASE Write(p) \/ WriteFails(p) \/ WriteInterrupted(p)
    BY <1>2, <1>3, <2>1, WriteOK, WriteFailsOK, WriteInterruptedOK
  <2>2. CASE TakeGate(p) \/ Sleep(p) \/ SleepReturns(p) \/ SleepInterrupted(p)
    BY <1>2, <1>3, <2>2, TakeGateOK, SleepOK, SleepReturnsOK, SleepInterruptedOK
  <2>3. CASE mntrpcread(p) \/ ReadInterrupted(p) \/ ReadFails(p)
    BY <1>2, <1>3, <2>3, MntrpcreadOK, ReadInterruptedOK, ReadFailsOK
  <2>4. CASE mountmux(p) \/ MuxWakeup(p) \/ LeaveGate(p)
    BY <1>2, <1>3, <2>4, MountmuxFinds, MountmuxDrops, MuxWakeupOK, LeaveGateOK
  <2>5. CASE Handler(p) \/ FlushTest(p) \/ mntqrm(p)
    BY <1>2, <1>3, <2>5, HandlerOK, FlushTestOK, MntqrmOK
  <2>6. CASE mntflushalloc(p)
    BY <1>2, <2>6, MntflushallocOK
  <2>7. CASE FlushFree(p)
    BY <1>2, <2>7, FlushFreeOK
  <2>8. CASE Return(p)
    BY <1>2, <2>8, ReturnOK
  <2>9. QED
    BY <1>6, <2>1, <2>2, <2>3, <2>4, <2>5, <2>6, <2>7, <2>8 DEF ProcStep
<1>7. ASSUME NEW n \in DOMAIN owed, ServerReplies(n) \/ ServerFlushes(n) PROVE IndInv'
  <2>1. n \in 1..Len(owed)
    BY <1>2, <1>7 DEF CallInv, TypesOK
  <2>2. QED
    BY <1>2, <1>3, <1>7, <2>1, ServerRepliesOK, ServerFlushesOK
<1>8. CASE ServerHangsUp
  BY <1>2, <1>3, <1>8, ServerHangsUpOK
<1>9. QED
  BY <1>1, <1>4, <1>5, <1>6, <1>7, <1>8 DEF Next, ServerStep

LEMMA Invariance == Spec => []IndInv
<1>1. Init => IndInv
  BY InitOK
<1>2. IndInv /\ [Next]_vars => IndInv'
  BY NextOK
<1>3. QED
  BY <1>1, <1>2, PTL DEF Spec

----------------------------------------------------------------------------
(* What the invariant says of the properties of Mnt. *)
LEMMA InPlace == IndInv => HeadersInPlace
<1>1. SUFFICES ASSUME NEW own \in Owners, NEW dep \in Depths, CallInv(own, dep) PROVE HeadersInPlace
  BY DEF IndInv
<1>h. /\ TypesOK /\ PlacesOK /\ TagsOK(own) /\ ChainsOK(own, dep) /\ QueueOK(own)
      /\ FlightOK(own) /\ OrderOK(own, dep) /\ SettledOK(own, dep) /\ AnswersOK
  BY <1>1 DEF CallInv
<1>2. TypeOK
  <2>1. \A p \in Procs : pc[p] = "idle" <=> cur[p] = None
    BY <1>h DEF PlacesOK, PlaceOK
  <2>2. \A n \in DOMAIN replies : replies[n] \in [tag : Tags, of : Calls \cup {Rflush}]
    BY <1>h, TagsTyped DEF TypesOK, Replies
  <2>3. QED
    BY <1>h, <2>1, <2>2 DEF TypeOK, TypesOK
<1>3. OneReader
  BY <1>h DEF OneReader, PlacesOK, PlaceOK
<1>4. /\ queue \in Seq(Tags) /\ rpcfree \in Seq(Tags) /\ tagmask \subseteq Tags
      /\ ToSet(queue) = waiting /\ ToSet(rpcfree) = spare
  <2>1. queue \in Seq(Tags) /\ rpcfree \in Seq(Tags) /\ tagmask \subseteq Tags
    BY <1>h DEF TypesOK
  <2>2. DOMAIN queue = 1..Len(queue) /\ DOMAIN rpcfree = 1..Len(rpcfree)
    BY <2>1
  <2>3. QED
    BY <2>1, <2>2 DEF ToSet, waiting, spare, Members
<1>5. InUse \subseteq Tags /\ \A t \in Tags : t \in InUse <=> own[t] # None
  BY <1>h, <1>4 DEF InUse, TagsOK
<1>6. ListsExact
  <2>1. DOMAIN queue = 1..Len(queue) /\ DOMAIN rpcfree = 1..Len(rpcfree)
    BY <1>4
  <2>2. IsInjective(queue) /\ IsInjective(rpcfree)
    BY <1>h, <2>1 DEF IsInjective, TagsOK, QueueOK, Distinct
  <2>3. ToSet(rpcfree) \subseteq tagmask
    BY <1>h, <1>4 DEF TagsOK
  <2>4. waiting \subseteq Tags
    BY <1>4 DEF waiting, Members
  <2>5. waiting = {t \in InUse : ~rpc[t].done}
    BY <1>h, <1>5, <2>4 DEF QueueOK, done
  <2>6. QED
    BY <1>4, <2>2, <2>3, <2>5 DEF ListsExact
<1>7. ASSUME NEW t \in InUse
      PROVE  (\E p \in Procs : cur[p] = t) \/ (\E u \in InUse : rpc[u].flushed = t)
  <2>1. PICK p : p = own[t]
    OBVIOUS
  <2>2. t \in Tags /\ p \in Procs /\ Busy(p) /\ cur[p] \in Tags /\ own[cur[p]] = p
    <3>1. t \in Tags /\ own[t] # None
      BY <1>5
    <3>2. p \in Procs /\ Busy(p)
      BY <1>h, <2>1, <3>1 DEF Owners, TagsOK
    <3>3. cur[p] \in Tags
      BY <1>h, <3>2 DEF TypesOK, PlacesOK, PlaceOK, Busy
    <3>4. QED
      BY <1>h, <3>1, <3>2, <3>3 DEF TagsOK
  <2>3. CASE t = cur[p]
    BY <2>2, <2>3
  <2>4. CASE t # cur[p]
    <3> DEFINE Later == {u \in Tags : own[u] = p /\ dep[u] > dep[t]}
               D == {dep[u] : u \in Later}
    <3>1. dep[t] \in Nat /\ \A u \in Tags : dep[u] \in Nat
      BY <2>2 DEF Depths
    <3>2. cur[p] \in Later
      <4>1. dep[t] <= dep[cur[p]] /\ own[t] # None /\ own[t] = own[cur[p]]
        BY <1>h, <1>5, <2>1, <2>2 DEF ChainsOK
      <4>2. dep[t] # dep[cur[p]]
        BY <1>h, <2>2, <2>4, <4>1 DEF ChainsOK
      <4>3. QED
        BY <2>2, <3>1, <4>1, <4>2
    <3>3. D \subseteq Nat /\ D # {}
      BY <3>1, <3>2
    <3>4. PICK u \in Later : \A v \in Later : dep[u] <= dep[v]
      <4>1. PICK E : E = D
        OBVIOUS
      <4>2. Min(E) \in E /\ \A y \in E : Min(E) <= y
        BY <3>3, <4>1, Least
      <4>3. QED
        BY <4>1, <4>2
    <3>5. u \in Tags /\ own[u] = p /\ dep[u] > dep[t] /\ own[u] # None
      BY <1>5, <2>1, <3>4
    <3>6. u # orig[own[u]]
      BY <1>h, <3>1, <3>5 DEF ChainsOK
    <3>7. rpc[u].flushed \in Tags /\ own[rpc[u].flushed] = p /\ dep[u] = dep[rpc[u].flushed] + 1
      BY <1>h, <3>5, <3>6 DEF ChainsOK
    <3>8. dep[rpc[u].flushed] = dep[t]
      <4>1. PICK v : v = rpc[u].flushed
        OBVIOUS
      <4>2. v \in Tags /\ own[v] = p /\ dep[u] = dep[v] + 1
        BY <3>7, <4>1
      <4>3. ~ (dep[v] > dep[t])
        <5>1. SUFFICES ASSUME dep[v] > dep[t] PROVE FALSE
          OBVIOUS
        <5>2. dep[u] <= dep[v]
          BY <3>4, <4>2, <5>1
        <5>3. QED
          BY <3>1, <3>5, <4>2, <5>2
      <4>4. QED
        BY <3>1, <3>5, <4>1, <4>2, <4>3
    <3>9. rpc[u].flushed = t
      BY <1>h, <1>5, <2>1, <2>2, <3>7, <3>8 DEF ChainsOK
    <3>10. QED
      BY <1>5, <3>5, <3>9
  <2>5. QED
    BY <2>3, <2>4
<1>8. ASSUME NEW p \in Procs, NEW q \in Procs, cur[p] = cur[q], cur[p] # None
      PROVE  p = q /\ cur[p] \in InUse
  <2>1. Busy(p) /\ Busy(q) /\ cur[p] \in Tags
    BY <1>h, <1>8 DEF TypesOK, PlacesOK, PlaceOK, Busy
  <2>2. own[cur[p]] = p /\ own[cur[q]] = q
    BY <1>h, <2>1 DEF TagsOK
  <2>3. p # None
    BY MntAssumption
  <2>4. QED
    BY <1>5, <1>8, <2>1, <2>2, <2>3
<1>9. ASSUME NEW t \in InUse, NEW u \in InUse, rpc[t].flushed = rpc[u].flushed, rpc[t].flushed # None
      PROVE  t = u
  <2>1. t \in Tags /\ u \in Tags /\ own[t] # None /\ own[u] # None
    BY <1>5
  <2>2. t # orig[own[t]] /\ u # orig[own[u]]
    BY <1>h, <1>9, <2>1 DEF ChainsOK
  <2>3. /\ own[t] = own[rpc[t].flushed] /\ dep[t] = dep[rpc[t].flushed] + 1
        /\ own[u] = own[rpc[u].flushed] /\ dep[u] = dep[rpc[u].flushed] + 1
    BY <1>h, <2>1, <2>2 DEF ChainsOK
  <2>4. QED
    BY <1>h, <1>9, <2>1, <2>3 DEF ChainsOK
<1>10. ASSUME \A p \in Procs : pc[p] = "idle" PROVE InUse = {} /\ rip = None
  <2>1. \A t \in Tags : own[t] = None
    BY <1>h, <1>10 DEF TagsOK, Busy, Owners
  <2>2. rip \in Procs \cup {None}
    BY <1>h DEF TypesOK
  <2>3. \A p \in Procs : rip # p
    BY <1>h, <1>10 DEF PlacesOK, PlaceOK, Reading
  <2>4. QED
    BY <1>5, <2>1, <2>2, <2>3
<1>11. QED
  BY <1>2, <1>3, <1>6, <1>7, <1>8, <1>9, <1>10 DEF HeadersInPlace, ChainsExact

LEMMA Right == IndInv => RightAnswer
<1>1. SUFFICES ASSUME NEW own \in Owners, NEW dep \in Depths, CallInv(own, dep),
                      NEW p \in Procs, pc[p] = "return", err[p] # "fail"
               PROVE  rpc[orig[p]].done /\ rpc[orig[p]].reply.of \in {rpc[orig[p]].call, Rflush}
  BY DEF IndInv, RightAnswer
<1>h. /\ TypesOK /\ PlacesOK /\ TagsOK(own) /\ ChainsOK(own, dep) /\ QueueOK(own)
      /\ FlightOK(own) /\ OrderOK(own, dep) /\ SettledOK(own, dep) /\ AnswersOK
  BY <1>1 DEF CallInv
<1>2. orig[p] \in done /\ Busy(p) /\ ~Doomed(p)
  BY <1>h, <1>1 DEF PlacesOK, PlaceOK, Busy, Doomed
<1>3. QED
  BY <1>h, <1>2 DEF AnswersOK, done

LEMMA NotReused == IndInv => TagsNotReused
<1>1. SUFFICES ASSUME NEW own \in Owners, NEW dep \in Depths, CallInv(own, dep),
                      ~hungup, NEW n \in DOMAIN replies
               PROVE  /\ Contains(queue, replies[n].tag)
                      /\ replies[n].of \in {rpc[replies[n].tag].call, Rflush}
  BY DEF IndInv, TagsNotReused
<1>h. /\ TypesOK /\ PlacesOK /\ TagsOK(own) /\ ChainsOK(own, dep) /\ QueueOK(own)
      /\ FlightOK(own) /\ OrderOK(own, dep) /\ SettledOK(own, dep) /\ AnswersOK
  BY <1>1 DEF CallInv
<1>2. PICK r : r = replies[n]
  OBVIOUS
<1>3. n \in 1..Len(replies)
  BY <1>h, <1>1 DEF TypesOK
<1>4. r.tag \in Tags /\ Genuine(own, r) /\ r.tag \in flight
  BY <1>h, <1>2, <1>3, TagsTyped DEF FlightOK, flight
<1>5. \A q \in Procs : ~Doomed(q)
  BY <1>h, <1>1 DEF Doomed, PlacesOK, PlaceOK
<1>6. Live(own, r.tag)
  BY <1>1, <1>4, <1>5 DEF Live, Genuine, Owners
<1>7. r.tag \notin done
  <2>1. dep[r.tag] <= dep[r.tag]
    BY <1>4 DEF Depths
  <2>2. QED
    BY <1>h, <1>4, <1>6, <2>1 DEF SettledOK
<1>8. r.tag \in waiting
  BY <1>h, <1>4, <1>6, <1>7 DEF QueueOK, Live
<1>9. Contains(queue, r.tag)
  BY <1>8 DEF waiting, Members, Contains
<1>10. r.of \in {rpc[r.tag].call, Rflush}
  BY <1>4, <1>6 DEF Genuine
<1>11. QED
  BY <1>2, <1>9, <1>10

(* At every moment the queue is what is in use and has no answer, the free  *)
(* list is apart from it, every header in use belongs to one call, and one  *)
(* process at a time reads (mountio, mntralloc, mountmux, mntqrm, mntfree). *)
THEOREM HeadersPlaced == Spec => []HeadersInPlace
  BY Invariance, InPlace, PTL

(* A call that returns without an error has the answer to its own request,  *)
(* whoever read it and whatever was interrupted (mountmux, mntflushfree).   *)
THEOREM RightAnswers == Spec => []RightAnswer
  BY Invariance, Right, PTL

(* A reply that is to be read finds the rpc that asked: its tag has not     *)
(* been handed on (mntralloc, mountmux, mntflushfree).                      *)
THEOREM TagsKept == Spec => []TagsNotReused
  BY Invariance, NotReused, PTL

----------------------------------------------------------------------------
(* Answers.  mntflushfree tests done and marks the rpc as flushed in two    *)
(* steps; no answer comes between them, but when the connection has failed. *)
Unanswered == \A p \in Procs : pc[p] = "qrm" /\ err[p] # "fail" => cur[p] \notin done
Keeps ==
  \A p \in Procs : Busy(p) /\ pc'[p] # "idle" /\ orig[p] \in done /\ err[p] # "fail" =>
    rpc'[orig[p]].reply = rpc[orig[p]].reply

LEMMA SteadyKeeps ==
  ASSUME NEW own \in Owners, NEW dep \in Depths, CallInv(own, dep), Unanswered,
         \A t \in Tags : own[t] # None =>
           /\ t \in done => rpc'[t].reply = rpc[t].reply
           /\ rpc'[t].done => rpc[t].done,
         \A q \in Procs : pc'[q] = "qrm" => pc[q] = "qrm" /\ cur'[q] = cur[q] /\ err'[q] = err[q]
  PROVE  Keeps /\ Unanswered'
<1>h. /\ TypesOK /\ PlacesOK /\ TagsOK(own) /\ ChainsOK(own, dep) /\ QueueOK(own)
      /\ FlightOK(own) /\ OrderOK(own, dep) /\ SettledOK(own, dep) /\ AnswersOK
  BY DEF CallInv
<1>1. \A p \in Procs : Busy(p) => orig[p] \in Tags /\ own[orig[p]] # None /\ cur[p] \in Tags /\ own[cur[p]] # None
  BY <1>h, OwnCur, Numbers
<1>2. Keeps
  BY <1>1 DEF Keeps
<1>3. \A t \in Tags : own[t] # None /\ t \in done' => t \in done
  BY DEF done
<1>4. Unanswered'
  BY <1>1, <1>3 DEF Unanswered, Busy
<1>5. QED
  BY <1>2, <1>4

(* Most steps of a process that is not about to mark its rpc. *)
LEMMA MoverKeeps ==
  ASSUME NEW own \in Owners, NEW dep \in Depths, CallInv(own, dep), NEW p \in Procs,
         Unanswered, NEW l, l # "qrm", pc' = [pc EXCEPT ![p] = l],
         \A q \in Procs : q # p => cur'[q] = cur[q] /\ err'[q] = err[q],
         \A t \in Tags : own[t] # None =>
           /\ t \in done => rpc'[t].reply = rpc[t].reply
           /\ rpc'[t].done => rpc[t].done
  PROVE  Keeps /\ Unanswered'
<1>1. pc \in [Procs -> Labels]
  BY DEF CallInv, TypesOK
<1>2. \A q \in Procs : pc'[q] = "qrm" => pc[q] = "qrm" /\ cur'[q] = cur[q] /\ err'[q] = err[q]
  BY <1>1
<1>3. QED
  BY <1>2, SteadyKeeps

(* Steps that leave the answers alone. *)
LEMMA QuietKeeps ==
  ASSUME NEW own \in Owners, NEW dep \in Depths, CallInv(own, dep), NEW p \in Procs,
         Unanswered,
         \/ Write(p) \/ WriteFails(p) \/ WriteInterrupted(p) \/ TakeGate(p)
         \/ SleepReturns(p) \/ SleepInterrupted(p) \/ ReadInterrupted(p) \/ ReadFails(p)
  PROVE  Keeps /\ Unanswered'
<1>1. TypesOK
  BY DEF CallInv
<1>2. rpc' = rpc /\ cur' = cur /\ \A q \in Procs : q # p => err'[q] = err[q]
  BY <1>1 DEF TypesOK, Write, WriteFails, WriteInterrupted, TakeGate, SleepReturns, SleepInterrupted,
     ReadInterrupted, ReadFails, Raise, headers
<1>3. pc' = [pc EXCEPT ![p] = pc'[p]] /\ pc'[p] # "qrm"
  BY <1>1 DEF TypesOK, Write, WriteFails, WriteInterrupted, TakeGate, SleepReturns, SleepInterrupted,
     ReadInterrupted, ReadFails, Goto, Awake
<1>4. PICK l : l = pc'[p]
  OBVIOUS
<1>5. \A t \in Tags : (t \in done => rpc'[t].reply = rpc[t].reply) /\ (rpc'[t].done => rpc[t].done)
  BY <1>2
<1>6. QED
  BY <1>2, <1>3, <1>4, <1>5, MoverKeeps

LEMMA SleepersKeep ==
  ASSUME NEW own \in Owners, NEW dep \in Depths, CallInv(own, dep), NEW p \in Procs,
         Unanswered, Sleep(p) \/ LeaveGate(p) \/ Handler(p)
  PROVE  Keeps /\ Unanswered'
<1>h. /\ TypesOK /\ PlacesOK /\ TagsOK(own) /\ ChainsOK(own, dep) /\ QueueOK(own)
      /\ FlightOK(own) /\ OrderOK(own, dep) /\ SettledOK(own, dep) /\ AnswersOK
  BY DEF CallInv
<1>1. SleepersOnly
  <2>1. CASE Sleep(p)
    <3>1. cur[p] \in Tags
      BY <1>h, <2>1, OwnCur DEF Busy, Sleep, Goto
    <3>2. QED
      BY <1>h, <2>1, <3>1, SameHeaders, SleeperSet DEF Sleep
  <2>2. CASE LeaveGate(p)
    BY <1>h, <2>2, MntgateHeaders DEF LeaveGate
  <2>3. CASE Handler(p)
    BY <1>h, <2>3, MntgateHeaders, SameHeaders DEF Handler
  <2>4. QED
    BY <2>1, <2>2, <2>3
<1>2. cur' = cur /\ err' = err
  BY DEF Sleep, LeaveGate, Handler
<1>3. pc' = [pc EXCEPT ![p] = pc'[p]] /\ pc'[p] # "qrm"
  BY <1>h DEF TypesOK, Sleep, LeaveGate, Handler, Goto, Awake
<1>4. PICK l : l = pc'[p]
  OBVIOUS
<1>5. \A t \in Tags : (t \in done => rpc'[t].reply = rpc[t].reply) /\ (rpc'[t].done => rpc[t].done)
  BY <1>1 DEF SleepersOnly
<1>6. QED
  BY <1>2, <1>3, <1>4, <1>5, MoverKeeps

(* The reader overwrites the reply of its own rpc, which has no answer. *)
LEMMA ReaderKeeps ==
  ASSUME NEW own \in Owners, NEW dep \in Depths, CallInv(own, dep), NEW p \in Procs,
         Unanswered, mntrpcread(p) \/ MuxWakeup(p) \/ (mountmux(p) /\ ~Contains(queue, rpc[cur[p]].reply.tag))
  PROVE  Keeps /\ Unanswered'
<1>h. /\ TypesOK /\ PlacesOK /\ TagsOK(own) /\ ChainsOK(own, dep) /\ QueueOK(own)
      /\ FlightOK(own) /\ OrderOK(own, dep) /\ SettledOK(own, dep) /\ AnswersOK
  BY DEF CallInv
<1>1. pc[p] \in {"read", "mux", "muxwake"} /\ pc' = [pc EXCEPT ![p] = pc'[p]] /\ pc'[p] \in {"read", "mux"}
  BY <1>h DEF TypesOK, mntrpcread, MuxWakeup, mountmux, Goto
<1>2. cur[p] \in Tags /\ cur[p] \notin done /\ (pc[p] = "muxwake" => late[p] \in Tags)
  BY <1>h, <1>1, OwnCur DEF Busy, PlacesOK, PlaceOK, TypesOK
<1>3. rpc \in [Tags -> Header]
  BY <1>h DEF TypesOK
<1>4. ASSUME NEW t \in Tags
      PROVE  (t # cur[p] => rpc'[t].reply = rpc[t].reply) /\ rpc'[t].done = rpc[t].done
  <2>1. CASE mntrpcread(p)
    <3>1. rpc'[t] = IF t = cur[p] THEN [rpc[t] EXCEPT !.reply = Head(replies)] ELSE rpc[t]
      BY <1>2, <1>3, <2>1 DEF mntrpcread
    <3>2. rpc[t] \in Header
      BY <1>3
    <3>3. QED
      BY <3>1, <3>2 DEF Header
  <2>2. CASE mountmux(p) /\ ~Contains(queue, rpc[cur[p]].reply.tag)
    <3>1. rpc'[t] = IF t = cur[p] THEN [rpc[t] EXCEPT !.reply = NoReply] ELSE rpc[t]
      BY <1>2, <1>3, <2>2 DEF mountmux
    <3>2. rpc[t] \in Header
      BY <1>3
    <3>3. QED
      BY <3>1, <3>2 DEF Header
  <2>3. CASE MuxWakeup(p)
    <3>1. pc[p] = "muxwake"
      BY <2>3 DEF MuxWakeup, Goto
    <3>2. PICK r : r = [rpc EXCEPT ![late[p]].sleeper = None]
      OBVIOUS
    <3>3. r \in [Tags -> Header] /\ r[t].reply = rpc[t].reply /\ r[t].done = rpc[t].done
      <4>1. \A g \in Header : /\ [g EXCEPT !.sleeper = None] \in Header
                              /\ [g EXCEPT !.sleeper = None].reply = g.reply
                              /\ [g EXCEPT !.sleeper = None].done = g.done
        BY DEF Header
      <4>2. QED
        BY <1>2, <1>3, <3>1, <3>2, <4>1
    <3>4. rpc' = [r EXCEPT ![cur[p]].reply = NoReply]
      BY <2>3, <3>2 DEF MuxWakeup
    <3>5. rpc'[t] = IF t = cur[p] THEN [r[t] EXCEPT !.reply = NoReply] ELSE r[t]
      BY <1>2, <3>3, <3>4
    <3>6. r[t] \in Header
      BY SMTT(60), <3>3
    <3>7. QED
      BY <3>3, <3>5, <3>6 DEF Header
  <2>4. QED
    BY <2>1, <2>2, <2>3
<1>5. cur' = cur /\ err' = err
  BY DEF mntrpcread, MuxWakeup, mountmux
<1>6. PICK l : l = pc'[p]
  OBVIOUS
<1>7. QED
  BY ZenonT(60), <1>1, <1>2, <1>4, <1>5, <1>6, MoverKeeps

(* mountmux answers an rpc that has none, and for which a reply was coming. *)
LEMMA MountmuxKeeps ==
  ASSUME NEW own \in Owners, NEW dep \in Depths, CallInv(own, dep), NEW p \in Procs,
         Unanswered, mountmux(p), Contains(queue, rpc[cur[p]].reply.tag)
  PROVE  Keeps /\ Unanswered'
<1>h. /\ TypesOK /\ PlacesOK /\ TagsOK(own) /\ ChainsOK(own, dep) /\ QueueOK(own)
      /\ FlightOK(own) /\ OrderOK(own, dep) /\ SettledOK(own, dep) /\ AnswersOK
  BY DEF CallInv
<1> DEFINE y == rpc[cur[p]].reply
<1>1. PICK w : w = y.tag
  OBVIOUS
<1>p. /\ pc[p] = "mux" /\ pc'[p] # "qrm" /\ \A q \in Procs : q # p => pc'[q] = pc[q]
  BY SMTT(60), <1>h DEF TypesOK, mountmux, Goto
<1>a. cur' = cur /\ err' = err /\ rpc' = [rpc EXCEPT ![w].reply = y, ![w].done = TRUE]
  BY <1>1 DEF mountmux
<1>y. y \in held /\ y \in Replies /\ w \in Tags
  <2>1. y \in held
    BY <1>p DEF held
  <2>2. y \in Replies
    BY <1>h, <2>1 DEF FlightOK
  <2>3. QED
    BY <1>1, <2>1, <2>2 DEF Replies
<1>w. own[w] # None /\ w \notin done /\ w \in flight
  <2>1. w \in waiting
    BY <1>1 DEF Contains, waiting, Members
  <2>2. QED
    BY <1>h, <1>1, <1>y, <2>1 DEF QueueOK, flight
<1>t. y \in [tag : Tags \cup {None}, of : Calls \cup {Rflush, None}]
  BY <1>y DEF Replies
<1>v. rpc \in [Tags -> Header]
  BY <1>h DEF TypesOK
<1> HIDE DEF y
<1>r. rpc'[w].done /\ \A u \in Tags : u # w => rpc'[u] = rpc[u]
  BY <1>a, <1>y, <1>t, <1>v, AnswerPut
<1>2. Keeps
  <2>1. \A t \in done : t \in Tags /\ t # w
    BY <1>w DEF done
  <2>2. QED
    BY <1>r, <2>1 DEF Keeps
<1>3. done' = done \cup {w}
  BY <1>r, <1>y DEF done
<1>4. Unanswered'
  <2>1. SUFFICES ASSUME NEW q \in Procs, pc'[q] = "qrm", err'[q] # "fail", cur'[q] \in done' PROVE FALSE
    BY DEF Unanswered
  <2>2. pc[q] = "qrm" /\ err[q] # "fail" /\ cur[q] \in done'
    BY <1>p, <1>a, <2>1
  <2>3. cur[q] = w
    BY <1>3, <2>2 DEF Unanswered
  <2>4. own[w] = q /\ Live(own, w)
    BY <1>h, <1>w, <2>2, <2>3, OwnCur DEF Busy, Live, Doomed
  <2>5. QED
    BY <1>h, <1>w, <1>y, <2>2, <2>4 DEF SettledOK, Settled
<1>5. QED
  BY <1>2, <1>4

(* mntqrm marks an rpc without an answer. *)
LEMMA MntqrmKeeps ==
  ASSUME NEW own \in Owners, NEW dep \in Depths, CallInv(own, dep), NEW p \in Procs,
         Unanswered, mntqrm(p)
  PROVE  Keeps /\ Unanswered'
<1>h. /\ TypesOK /\ PlacesOK /\ TagsOK(own) /\ ChainsOK(own, dep) /\ QueueOK(own)
      /\ FlightOK(own) /\ OrderOK(own, dep) /\ SettledOK(own, dep) /\ AnswersOK
  BY DEF CallInv
<1>1. PICK w : w = cur[p]
  OBVIOUS
<1>p. /\ pc[p] = "qrm" /\ pc'[p] # "qrm" /\ Busy(p) /\ \A q \in Procs : q # p => pc'[q] = pc[q]
  BY <1>h DEF TypesOK, mntqrm, Goto, Off, Busy
<1>a. cur' = cur /\ err' = err /\ rpc' = [rpc EXCEPT ![w].reply.of = Rflush, ![w].done = TRUE]
  BY <1>1 DEF mntqrm
<1>2. \A u \in Tags : u # w => rpc'[u] = rpc[u]
  BY <1>h, <1>a DEF TypesOK
<1>3. \A q \in Procs : Busy(q) => /\ orig[q] \in Tags /\ own[orig[q]] = q /\ cur[q] \in Tags
                                  /\ own[cur[q]] = q
  BY <1>h, OwnCur
<1>4. Keeps
  BY <1>1, <1>p, <1>2, <1>3 DEF Keeps, Unanswered
<1>5. \A u \in Tags : u # w /\ u \in done' => u \in done
  BY <1>2 DEF done
<1>6. Unanswered'
  BY <1>1, <1>p, <1>a, <1>3, <1>5 DEF Unanswered, Busy
<1>7. QED
  BY <1>4, <1>6

LEMMA FlushTestKeeps ==
  ASSUME NEW own \in Owners, NEW dep \in Depths, CallInv(own, dep), NEW p \in Procs,
         Unanswered, FlushTest(p)
  PROVE  Keeps /\ Unanswered'
<1>h. /\ TypesOK /\ PlacesOK /\ TagsOK(own) /\ ChainsOK(own, dep) /\ QueueOK(own)
      /\ FlightOK(own) /\ OrderOK(own, dep) /\ SettledOK(own, dep) /\ AnswersOK
  BY DEF CallInv
<1>1. rpc' = rpc /\ cur' = cur /\ err' = err /\ done' = done
  BY DEF FlushTest, headers, done
<1>2. /\ \A q \in Procs : q # p => pc'[q] = pc[q]
      /\ pc'[p] = "qrm" => ~rpc[cur[p]].done
  BY <1>h DEF TypesOK, FlushTest, Goto, Off
<1>3. Keeps
  BY <1>1 DEF Keeps
<1>4. Unanswered'
  BY <1>1, <1>2 DEF Unanswered, done
<1>5. QED
  BY <1>3, <1>4

(* The header that mntralloc takes is nobody's. *)
LEMMA MntrallocKeeps ==
  ASSUME NEW own \in Owners, NEW dep \in Depths, CallInv(own, dep), NEW p \in Procs,
         Unanswered, Call(p) \/ mntflushalloc(p)
  PROVE  Keeps /\ Unanswered'
<1>h. /\ TypesOK /\ PlacesOK /\ TagsOK(own) /\ ChainsOK(own, dep) /\ QueueOK(own)
      /\ FlightOK(own) /\ OrderOK(own, dep) /\ SettledOK(own, dep) /\ AnswersOK
  BY DEF CallInv
<1>1. PICK t : t = NewTag
  OBVIOUS
<1>2. /\ Spare /\ rpcfree' = (IF rpcfree # <<>> THEN Tail(rpcfree) ELSE rpcfree) /\ tagmask' = tagmask \cup {t}
  BY <1>1 DEF Call, mntflushalloc, mntralloc
<1>3. t \in Tags /\ own[t] = None
  BY <1>h, <1>1, <1>2, MntrallocTags
<1>4. \A u \in Tags : u # t => rpc'[u] = rpc[u]
  BY <1>h, <1>1 DEF TypesOK, Call, mntflushalloc, mntralloc
<1>5. \A q \in Procs : q # p => cur'[q] = cur[q] /\ err'[q] = err[q]
  BY <1>h DEF TypesOK, Call, mntflushalloc, Enqueue, Raise
<1>6. pc' = [pc EXCEPT ![p] = "write"]
  BY DEF Call, mntflushalloc, Goto
<1>7. \A u \in Tags : own[u] # None => (u \in done => rpc'[u].reply = rpc[u].reply) /\ (rpc'[u].done => rpc[u].done)
  BY <1>3, <1>4
<1>8. QED
  BY <1>5, <1>6, <1>7, MoverKeeps

(* The header that mntfree takes is a flush, or its call is over. *)
LEMMA MntfreeKeeps ==
  ASSUME NEW own \in Owners, NEW dep \in Depths, CallInv(own, dep), NEW p \in Procs,
         Unanswered, FlushFree(p) \/ Return(p)
  PROVE  Keeps /\ Unanswered'
<1>h. /\ TypesOK /\ PlacesOK /\ TagsOK(own) /\ ChainsOK(own, dep) /\ QueueOK(own)
      /\ FlightOK(own) /\ OrderOK(own, dep) /\ SettledOK(own, dep) /\ AnswersOK
  BY DEF CallInv
<1>1. PICK t : t = cur[p]
  OBVIOUS
<1>p. /\ pc[p] \in {"free", "return"} /\ Busy(p) /\ pc'[p] \in {"chain", "idle"}
      /\ \A q \in Procs : q # p => pc'[q] = pc[q] /\ cur'[q] = cur[q] /\ err'[q] = err[q]
      /\ pc'[p] # "idle" => pc[p] = "free"
  BY <1>h DEF TypesOK, FlushFree, Return, Goto, Busy, Raise
<1>b. t \in Tags /\ own[t] = p
  BY <1>h, <1>1, <1>p, OwnCur
<1>k. (pc[p] = "free" => t # orig[p]) /\ (pc[p] = "return" => t = orig[p])
  BY <1>h, <1>1 DEF PlacesOK, PlaceOK
<1>2. rpc' = [rpc EXCEPT ![t] = Fresh(t)]
  BY <1>1, <1>k DEF FlushFree, Return, mntfree, Goto
<1>3. ~rpc'[t].done /\ \A u \in Tags : u # t => rpc'[u] = rpc[u]
  BY <1>h, <1>b, <1>2, MntfreeHeader
<1>4. \A q \in Procs : Busy(q) => orig[q] \in Tags /\ own[orig[q]] = q
  BY <1>h, OwnCur
<1>5. Keeps
  BY <1>p, <1>b, <1>k, <1>3, <1>4 DEF Keeps
<1>6. done' \subseteq done
  BY <1>3 DEF done
<1>7. Unanswered'
  BY <1>p, <1>6 DEF Unanswered
<1>8. QED
  BY <1>5, <1>7

LEMMA InterruptKeeps ==
  ASSUME NEW own \in Owners, NEW dep \in Depths, CallInv(own, dep), NEW p \in Procs,
         Unanswered, Interrupt(p)
  PROVE  Keeps /\ Unanswered'
<1>h. /\ TypesOK /\ PlacesOK /\ TagsOK(own) /\ ChainsOK(own, dep) /\ QueueOK(own)
      /\ FlightOK(own) /\ OrderOK(own, dep) /\ SettledOK(own, dep) /\ AnswersOK
  BY DEF CallInv
<1>1. rpc \in [Tags -> Header] /\ pc' = pc /\ err' = err /\ cur' = cur
  BY <1>h DEF TypesOK, Interrupt
<1>2. ASSUME NEW t \in Tags PROVE rpc'[t].reply = rpc[t].reply /\ rpc'[t].done = rpc[t].done
  <2>1. PICK x : rpc'[t] = [rpc[t] EXCEPT !.sleeper = x] /\ rpc[t] \in Header
    BY <1>1 DEF Interrupt
  <2>2. QED
    BY <2>1 DEF Header
<1>3. QED
  BY <1>1, <1>2, SteadyKeeps

LEMMA UntouchedKeeps ==
  ASSUME NEW own \in Owners, NEW dep \in Depths, CallInv(own, dep), Unanswered, Untouched
  PROVE  Keeps /\ Unanswered'
  BY SteadyKeeps DEF Untouched

LEMMA StepKeeps == IndInv /\ Unanswered /\ [Next]_vars => Keeps /\ Unanswered'
<1>1. SUFFICES ASSUME IndInv, Unanswered, [Next]_vars PROVE Keeps /\ Unanswered'
  OBVIOUS
<1>2. PICK own \in Owners, dep \in Depths : CallInv(own, dep)
  BY <1>1 DEF IndInv
<1>3. ASSUME NEW p \in Procs, Call(p) \/ Interrupt(p) PROVE Keeps /\ Unanswered'
  BY <1>1, <1>2, <1>3, MntrallocKeeps, InterruptKeeps
<1>4. ASSUME NEW p \in Procs, ProcStep(p) PROVE Keeps /\ Unanswered'
  <2>1. CASE \/ Write(p) \/ WriteFails(p) \/ WriteInterrupted(p) \/ TakeGate(p)
             \/ SleepReturns(p) \/ SleepInterrupted(p) \/ ReadInterrupted(p) \/ ReadFails(p)
    BY <1>1, <1>2, <2>1, QuietKeeps
  <2>2. CASE Sleep(p) \/ LeaveGate(p) \/ Handler(p)
    BY <1>1, <1>2, <2>2, SleepersKeep
  <2>3. CASE mntrpcread(p) \/ MuxWakeup(p)
    BY <1>1, <1>2, <2>3, ReaderKeeps
  <2>4. CASE mountmux(p)
    BY <1>1, <1>2, <2>4, ReaderKeeps, MountmuxKeeps
  <2>5. CASE mntqrm(p)
    BY <1>1, <1>2, <2>5, MntqrmKeeps
  <2>6. CASE FlushTest(p)
    BY <1>1, <1>2, <2>6, FlushTestKeeps
  <2>7. CASE mntflushalloc(p)
    BY <1>1, <1>2, <2>7, MntrallocKeeps
  <2>8. CASE FlushFree(p) \/ Return(p)
    BY <1>1, <1>2, <2>8, MntfreeKeeps
  <2>9. QED
    BY <1>4, <2>1, <2>2, <2>3, <2>4, <2>5, <2>6, <2>7, <2>8 DEF ProcStep
<1>5. CASE ServerStep \/ ServerHangsUp \/ UNCHANGED vars
  <2>1. Untouched
    BY <1>5 DEF ServerStep, ServerReplies, ServerFlushes, ServerHangsUp, Untouched, vars,
       mount, headers, procs, counts
  <2>2. QED
    BY <1>1, <1>2, <2>1, UntouchedKeeps
<1>6. QED
  BY <1>1, <1>3, <1>4, <1>5 DEF Next

(* An answer that has come stays the answer, also when the call was         *)
(* interrupted at the same time (mountmux, mntflushfree).                   *)
THEOREM AnswersKept == Spec => AnswerKept
<1> DEFINE Kept == \A p \in Procs :
                     pc[p] # "idle" /\ pc'[p] # "idle" /\ rpc[orig[p]].done /\ err[p] # "fail" =>
                       rpc'[orig[p]].reply = rpc[orig[p]].reply
<1>1. Init => Unanswered
  BY DEF Init, Unanswered
<1>2. IndInv /\ Unanswered /\ [Next]_vars => Unanswered'
  BY StepKeeps
<1>3. IndInv /\ Unanswered /\ [Next]_vars => [Kept]_vars
  <2>1. SUFFICES ASSUME IndInv, Unanswered, [Next]_vars PROVE Kept
    OBVIOUS
  <2>2. PICK own \in Owners, dep \in Depths : CallInv(own, dep)
    BY <2>1 DEF IndInv
  <2>3. \A p \in Procs : pc[p] # "idle" => orig[p] \in Tags
    BY <2>2, OwnCur DEF CallInv, Busy
  <2>4. Keeps
    BY <2>1, StepKeeps
  <2>5. QED
    BY <2>3, <2>4 DEF Keeps, Busy, done
<1> HIDE DEF Kept
<1>4. Spec => []IndInv
  BY Invariance
<1>5. Spec => [][Kept]_vars
  BY <1>1, <1>2, <1>3, <1>4, PTL DEF Spec
<1>6. QED
  BY <1>5 DEF AnswerKept, Kept
============================================================================
