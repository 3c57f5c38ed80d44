---------------------------- MODULE ChannelProofs ---------------------------
(***************************************************************************)
(* Proofs about Channel: whatever mix of buffered and waiting sends and    *)
(* receives the tasks make, and although every waiting operation uses the  *)
(* lists of the channel made last, each value is in one place or received  *)
(* once, each list is received in order, and the lists match the tasks     *)
(* that wait; for any set of tasks and channels.                           *)
(***************************************************************************)
EXTENDS Channel, FiniteSetTheorems, TLAPS

(***************************************************************************)
(* Facts about linked lists as sequences: who is on a list after an append *)
(* at its tail or the removal of its head.                                 *)
(***************************************************************************)

(* x is on the list s; no entry is on the list twice. *)
OnList(s, x) == \E i \in 1..Len(s) : s[i] = x
OnListOnce(s) == \A i, j \in 1..Len(s) : s[i] = s[j] => i = j

(* A list with an entry appended. *)
LEMMA AppendToList ==
  ASSUME NEW S, NEW s \in Seq(S), NEW x \in S
  PROVE  /\ Append(s, x) \in Seq(S)
         /\ \A y : OnList(Append(s, x), y) <=> (OnList(s, y) \/ y = x)
         /\ OnListOnce(s) /\ ~OnList(s, x) => OnListOnce(Append(s, x))
<1> DEFINE t == Append(s, x)
<1>1. /\ t \in Seq(S) /\ Len(s) \in Nat /\ Len(t) = Len(s) + 1
      /\ \A i \in 1..Len(s) : t[i] = s[i]
      /\ t[Len(s) + 1] = x
  OBVIOUS
<1>2. ASSUME NEW y PROVE OnList(t, y) <=> (OnList(s, y) \/ y = x)
  BY <1>1 DEF OnList
<1>3. OnListOnce(s) /\ ~OnList(s, x) => OnListOnce(t)
  BY <1>1 DEF OnList, OnListOnce
<1>4. QED
  BY <1>1, <1>2, <1>3

(* A list without its head. *)
LEMMA TailOfList ==
  ASSUME NEW S, NEW s \in Seq(S), s # <<>>, OnListOnce(s)
  PROVE  /\ Tail(s) \in Seq(S) /\ Head(s) \in S /\ OnList(s, Head(s))
         /\ \A y : OnList(Tail(s), y) <=> (OnList(s, y) /\ y # Head(s))
         /\ OnListOnce(Tail(s))
<1> DEFINE t == Tail(s)
<1>1. /\ t \in Seq(S) /\ Len(s) \in Nat \ {0} /\ Len(t) = Len(s) - 1
      /\ \A i \in 1..Len(t) : t[i] = s[i + 1]
      /\ Head(s) = s[1] /\ Head(s) \in S
  OBVIOUS
<1>2. OnList(s, Head(s))
  BY <1>1 DEF OnList
<1>3. ASSUME NEW y PROVE OnList(t, y) <=> (OnList(s, y) /\ y # Head(s))
  <2>1. ASSUME OnList(t, y) PROVE OnList(s, y) /\ y # Head(s)
    <3>1. PICK i \in 1..Len(t) : t[i] = y
      BY <2>1 DEF OnList
    <3>2. i + 1 \in 1..Len(s) /\ s[i + 1] = y /\ i + 1 # 1 /\ 1 \in 1..Len(s)
      BY <1>1, <3>1
    <3>3. QED
      BY <1>1, <3>2 DEF OnList, OnListOnce
  <2>2. ASSUME OnList(s, y), y # Head(s) PROVE OnList(t, y)
    <3>1. PICK i \in 1..Len(s) : s[i] = y
      BY <2>2 DEF OnList
    <3>2. i - 1 \in 1..Len(t) /\ (i - 1) + 1 = i
      BY <1>1, <2>2, <3>1
    <3>3. t[i - 1] = y
      BY <1>1, <3>1, <3>2
    <3>4. QED
      BY <3>2, <3>3 DEF OnList
  <2>3. QED
    BY <2>1, <2>2
<1>4. OnListOnce(t)
  <2>1. SUFFICES ASSUME NEW i \in 1..Len(t), NEW j \in 1..Len(t), t[i] = t[j]
                 PROVE  i = j
    BY DEF OnListOnce
  <2>2. i + 1 \in 1..Len(s) /\ j + 1 \in 1..Len(s) /\ s[i + 1] = s[j + 1]
    BY <1>1, <2>1
  <2>3. QED
    BY <2>2, <1>1 DEF OnListOnce
<1>5. QED
  BY <1>1, <1>2, <1>3, <1>4
-----------------------------------------------------------------------------

(* The lists that hold values, under the names Value gives them. *)
Lists == {"buff", "pending"} \X Channels
Values == [on : Channels, list : Lists, n : Nat]
Gots == [on : Channels, val : Values \cup {None}, by : Procs]
lst == [l \in Lists |-> IF l[1] = "buff" THEN buff[l[2]] ELSE pending[l[2]]]

(* The numbers of the values in each list, and of those received. *)
nums == [l \in Lists |-> {lst[l][i].n : i \in 1..Len(lst[l])}]
taken == {got[i].val.n : i \in {j \in 1..Len(got) : got[j].val # None}}

(* A list of values sent in this order to the list l, none after the n-th. *)
Climbs(s, l, n) ==
  /\ s \in Seq(Values)
  /\ \A i \in 1..Len(s) : s[i].list = l /\ i <= s[i].n /\ s[i].n <= n
  /\ \A i, j \in 1..Len(s) : i < j => s[i].n < s[j].n

SentOK == nsent \in Nat /\ nsent <= MaxSends
ValuesOK == lst \in [Lists -> Seq(Values)] /\ \A l \in Lists : Climbs(lst[l], l, nsent)
GotOK ==
  /\ got \in Seq(Gots)
  /\ \A i \in 1..Len(got) : got[i].val # None => got[i].val.n \in 1..nsent
GotOnce ==
  \A i, j \in 1..Len(got) :
    got[i].val # None /\ got[j].val # None /\ got[i].val.n = got[j].val.n => i = j
Apart ==
  /\ \A l, k \in Lists : l # k => nums[l] \cap nums[k] = {}
  /\ \A l \in Lists : nums[l] \cap taken = {}
Cover == \A n \in 1..nsent : n \in taken \/ \E l \in Lists : n \in nums[l]
GotBefore ==
  \A i \in 1..Len(got) : got[i].val # None =>
    \A n \in nums[got[i].val.list] : got[i].val.n < n

(* No recv has returned nil. *)
NeverNil == \A i \in 1..Len(got) : got[i].val # None

NumInv ==
  /\ SentOK /\ ValuesOK /\ GotOK /\ GotOnce /\ Apart /\ Cover /\ GotBefore /\ InOrder
  /\ NeverNil

(* The tasks on the lists, and the parts of wait. *)
ready == {p \in Procs : OnList(rdyq, p)}
sends == [c \in Channels |-> {p \in Procs : OnList(senders[c], p)}]
recvs == [c \in Channels |-> {p \in Procs : OnList(receivers[c], p)}]
wop == [p \in Procs |-> wait[p].op]
won == [p \in Procs |-> wait[p].on]
wat == [p \in Procs |-> wait[p].at]
woken == [c \in Channels |-> {p \in ready : wop[p] = "recv" /\ wat[p] = c}]
npend == [c \in Channels |-> Len(pending[c])]
nsend == [c \in Channels |-> Len(senders[c])]

Waits == [op : {"none", "send", "recv"}, on : Channels \cup {None}, at : Channels \cup {None}]
WaitsOK ==
  /\ wait \in [Procs -> Waits]
  /\ \A p \in Procs : wop[p] # "none" => won[p] \in Channels /\ wat[p] \in Channels
TypesOK ==
  /\ created \subseteq Channels /\ latest \in created \cup {None}
  /\ created # {} => latest \in created
  /\ cur \in Procs \cup {None}
  /\ sync \in [Procs -> created \cup {None}]
  /\ sched \in {"up", "stopped", "error"}
StatusOK == status \in [Procs -> {"unborn", "alive", "dead"}]
QueuesOK ==
  /\ rdyq \in Seq(Procs) /\ senders \in [Channels -> Seq(Procs)]
  /\ receivers \in [Channels -> Seq(Procs)] /\ buff \in [Channels -> Seq(Values)]
  /\ pending \in [Channels -> Seq(Values)]
OnceOK ==
  sched = "up" => /\ OnListOnce(rdyq)
                  /\ \A c \in Channels : OnListOnce(senders[c]) /\ OnListOnce(receivers[c])

(* A task is in one place: running, ready, in the list it waits in. *)
PlacesOK ==
  sched = "up" =>
    /\ cur # None => cur \notin ready /\ wop[cur] = "none" /\ status[cur] = "alive"
    /\ \A p \in ready : status[p] = "alive"
    /\ \A c \in Channels : \A p \in sends[c] :
         wop[p] = "send" /\ wat[p] = c /\ p \notin ready /\ status[p] = "alive"
    /\ \A c \in Channels : \A p \in recvs[c] :
         wop[p] = "recv" /\ wat[p] = c /\ p \notin ready /\ status[p] = "alive"
    /\ \A p \in Procs : status[p] = "unborn" => wop[p] = "none"

CountOK ==
  sched = "up" => \A c \in Channels :
    IsFiniteSet(woken[c]) /\ npend[c] = nsend[c] + Cardinality(woken[c])

TaskInv ==
  /\ WaitsOK /\ TypesOK /\ StatusOK /\ QueuesOK /\ OnceOK /\ PlacesOK /\ CountOK /\ NoneMissed
IndInv == NumInv /\ TaskInv
-----------------------------------------------------------------------------
(* None is none of the things it stands for the lack of. *)
LEMMA NoneApart == None \notin Procs /\ None \notin Channels /\ None \notin Values
  BY ChannelAssumption DEF Values, Lists

(* The numbers in a list, after an append and after a removal at the head. *)
LEMMA NumsAppend ==
  ASSUME NEW s \in Seq(Values), NEW v \in Values
  PROVE  {Append(s, v)[i].n : i \in 1..Len(Append(s, v))} = {s[i].n : i \in 1..Len(s)} \cup {v.n}
<1> DEFINE t == Append(s, v)
<1>1. /\ Len(s) \in Nat /\ Len(t) = Len(s) + 1 /\ \A i \in 1..Len(s) : t[i] = s[i]
      /\ t[Len(s) + 1] = v
  OBVIOUS
<1> HIDE DEF t
<1>2. ASSUME NEW i \in 1..Len(t) PROVE t[i].n \in {s[j].n : j \in 1..Len(s)} \cup {v.n}
  <2>1. CASE i = Len(s) + 1
    BY <1>1, <2>1
  <2>2. CASE i \in 1..Len(s)
    BY <1>1, <2>2
  <2>3. QED
    BY <1>1, <2>1, <2>2
<1>3. ASSUME NEW i \in 1..Len(s) PROVE s[i].n \in {t[j].n : j \in 1..Len(t)}
  <2>1. i \in 1..Len(t) /\ t[i].n = s[i].n
    BY <1>1
  <2>2. QED
    BY <2>1
<1>4. v.n \in {t[j].n : j \in 1..Len(t)}
  <2>1. Len(s) + 1 \in 1..Len(t) /\ t[Len(s) + 1].n = v.n
    BY <1>1
  <2>2. QED
    BY <2>1
<1>5. QED
  BY <1>2, <1>3, <1>4 DEF t

LEMMA NumsTail ==
  ASSUME NEW l \in Lists, NEW n \in Nat, NEW s, Climbs(s, l, n), s # <<>>
  PROVE  /\ Head(s) \in Values /\ Head(s).list = l /\ Head(s).n \in 1..n
         /\ Climbs(Tail(s), l, n)
         /\ Head(s).n \in {s[i].n : i \in 1..Len(s)}
         /\ {Tail(s)[i].n : i \in 1..Len(Tail(s))} = {s[i].n : i \in 1..Len(s)} \ {Head(s).n}
         /\ \A m \in {Tail(s)[i].n : i \in 1..Len(Tail(s))} : Head(s).n < m
<1> DEFINE t == Tail(s)
<1>0. s \in Seq(Values)
  BY DEF Climbs
<1>1. /\ Len(s) \in Nat \ {0} /\ Len(t) = Len(s) - 1 /\ t \in Seq(Values)
      /\ \A i \in 1..Len(t) : t[i] = s[i + 1]
      /\ Head(s) = s[1] /\ \A i \in 1..Len(s) : s[i] \in Values
  BY <1>0
<1> HIDE DEF t
<1>2. \A i \in 1..Len(s) : s[i].n \in Nat
  BY <1>1 DEF Values
<1>3. 1 \in 1..Len(s) /\ \A i \in 1..Len(t) : i \in Nat /\ i + 1 \in 1..Len(s) /\ 1 < i + 1
  BY <1>1
<1>4. \A i \in 1..Len(t) : t[i].list = l /\ i <= t[i].n /\ t[i].n <= n /\ s[1].n < t[i].n
  <2> TAKE i \in 1..Len(t)
  <2>1. i \in Nat /\ i + 1 \in 1..Len(s) /\ 1 < i + 1 /\ t[i] = s[i + 1]
    BY <1>1, <1>3
  <2>2. s[i + 1].list = l /\ i + 1 <= s[i + 1].n /\ s[i + 1].n <= n /\ s[i + 1].n \in Nat
    BY <1>2, <2>1 DEF Climbs
  <2>3. s[1].n < s[i + 1].n
    BY <1>3, <2>1 DEF Climbs
  <2>4. QED
    BY <2>1, <2>2, <2>3
<1>5. ASSUME NEW i \in 1..Len(t), NEW j \in 1..Len(t), i < j PROVE t[i].n < t[j].n
  <2>1. i + 1 \in 1..Len(s) /\ j + 1 \in 1..Len(s) /\ i + 1 < j + 1
    BY <1>1, <1>5
  <2>2. QED
    BY <1>1, <2>1 DEF Climbs
<1>6. Climbs(t, l, n)
  BY <1>1, <1>4, <1>5 DEF Climbs
<1>7. Head(s) \in Values /\ Head(s).list = l /\ Head(s).n \in 1..n
  BY <1>1, <1>2, <1>3 DEF Climbs
<1>8. ASSUME NEW i \in 1..Len(t) PROVE t[i].n \in {s[j].n : j \in 1..Len(s)} \ {Head(s).n}
  <2>1. i + 1 \in 1..Len(s) /\ t[i].n = s[i + 1].n
    BY <1>1, <1>3
  <2>2. t[i].n # Head(s).n
    BY <1>1, <1>2, <1>3, <1>4, <2>1
  <2>3. QED
    BY <2>1, <2>2
<1>9. ASSUME NEW i \in 1..Len(s), s[i].n # Head(s).n PROVE s[i].n \in {t[j].n : j \in 1..Len(t)}
  <2>1. i # 1
    BY <1>1, <1>9
  <2>2. i - 1 \in 1..Len(t) /\ (i - 1) + 1 = i
    BY <1>1, <2>1
  <2>3. t[i - 1].n = s[i].n
    BY <1>1, <2>2
  <2>4. QED
    BY <2>2, <2>3
<1>10. \A m \in {t[i].n : i \in 1..Len(t)} : Head(s).n < m
  BY <1>1, <1>4
<1>11. {t[i].n : i \in 1..Len(t)} = {s[i].n : i \in 1..Len(s)} \ {Head(s).n}
  BY <1>8, <1>9
<1>12. Head(s).n \in {s[i].n : i \in 1..Len(s)}
  BY <1>1, <1>3
<1>13. QED
  BY <1>6, <1>7, <1>10, <1>11, <1>12 DEF t

(* The list of a channel's buffer or of its pending values changes. *)
LEMMA BuffChanges ==
  ASSUME QueuesOK, NEW c \in Channels, NEW s, buff' = [buff EXCEPT ![c] = s], UNCHANGED pending
  PROVE  /\ <<"buff", c>> \in Lists /\ lst[<<"buff", c>>] = buff[c]
         /\ lst' = [lst EXCEPT ![<<"buff", c>>] = s]
<1>1. <<"buff", c>> \in Lists /\ lst[<<"buff", c>>] = buff[c]
  BY DEF Lists, lst
<1>2. ASSUME NEW l \in Lists
      PROVE  (IF l[1] = "buff" THEN buff'[l[2]] ELSE pending'[l[2]])
               = IF l = <<"buff", c>> THEN s ELSE IF l[1] = "buff" THEN buff[l[2]] ELSE pending[l[2]]
  <2>1. PICK a \in {"buff", "pending"}, d \in Channels : l = <<a, d>>
    BY DEF Lists
  <2>2. l[1] = a /\ l[2] = d
    BY <2>1
  <2>3. QED
    BY <2>1, <2>2 DEF QueuesOK
<1>3. QED
  BY <1>1, <1>2 DEF lst

LEMMA PendingChanges ==
  ASSUME QueuesOK, NEW c \in Channels, NEW s, pending' = [pending EXCEPT ![c] = s], UNCHANGED buff
  PROVE  /\ <<"pending", c>> \in Lists /\ lst[<<"pending", c>>] = pending[c]
         /\ lst' = [lst EXCEPT ![<<"pending", c>>] = s]
<1>1. <<"pending", c>> \in Lists /\ lst[<<"pending", c>>] = pending[c]
  BY DEF Lists, lst
<1>2. ASSUME NEW l \in Lists
      PROVE  (IF l[1] = "buff" THEN buff'[l[2]] ELSE pending'[l[2]])
               = IF l = <<"pending", c>> THEN s ELSE IF l[1] = "buff" THEN buff[l[2]] ELSE pending[l[2]]
  <2>1. PICK a \in {"buff", "pending"}, d \in Channels : l = <<a, d>>
    BY DEF Lists
  <2>2. l[1] = a /\ l[2] = d
    BY <2>1
  <2>3. QED
    BY <2>1, <2>2 DEF QueuesOK
<1>3. QED
  BY <1>1, <1>2 DEF lst

(* The numbers of such a list, what an append to it makes of it, and what   *)
(* it still is once more values have been sent.                            *)
LEMMA ClimbsNums ==
  ASSUME NEW l \in Lists, NEW n \in Nat, NEW s, Climbs(s, l, n)
  PROVE  /\ \A i \in 1..Len(s) : s[i] \in Values /\ s[i].n \in 1..n
         /\ {s[i].n : i \in 1..Len(s)} \subseteq 1..n
         /\ Len(s) \in Nat /\ Len(s) <= n
         /\ Climbs(s, l, n + 1)
<1>1. s \in Seq(Values) /\ Len(s) \in Nat
  BY DEF Climbs
<1>2. ASSUME NEW i \in 1..Len(s) PROVE s[i] \in Values /\ s[i].n \in 1..n
  <2>1. s[i] \in Values
    BY <1>1
  <2>2. s[i].n \in Nat
    BY <2>1 DEF Values
  <2>3. i <= s[i].n /\ s[i].n <= n
    BY DEF Climbs
  <2>4. QED
    BY <1>1, <2>1, <2>2, <2>3
<1>3. Len(s) <= n
  <2>1. CASE Len(s) = 0
    BY <2>1
  <2>2. CASE Len(s) # 0
    <3>1. Len(s) \in 1..Len(s)
      BY <1>1, <2>2
    <3>2. s[Len(s)].n \in 1..n /\ Len(s) <= s[Len(s)].n
      BY <1>2, <3>1 DEF Climbs
    <3>3. QED
      BY <1>1, <3>2
  <2>3. QED
    BY <2>1, <2>2
<1>4. Climbs(s, l, n + 1)
  <2>1. ASSUME NEW i \in 1..Len(s) PROVE s[i].list = l /\ i <= s[i].n /\ s[i].n <= n + 1
    BY <1>2 DEF Climbs
  <2>2. QED
    BY <1>1, <2>1 DEF Climbs
<1>5. QED
  BY <1>1, <1>2, <1>3, <1>4

LEMMA ClimbsAppend ==
  ASSUME NEW l \in Lists, NEW n \in Nat, NEW s, Climbs(s, l, n),
         NEW v \in Values, v.list = l, v.n = n + 1
  PROVE  Climbs(Append(s, v), l, n + 1)
<1> DEFINE t == Append(s, v)
<1>1. /\ s \in Seq(Values) /\ \A i \in 1..Len(s) : s[i].n \in 1..n /\ s[i].n \in Nat
      /\ Len(s) \in Nat /\ Len(s) <= n
  BY ClimbsNums DEF Climbs
<1>2. /\ t \in Seq(Values) /\ Len(t) = Len(s) + 1 /\ t[Len(s) + 1] = v
      /\ \A i \in 1..Len(s) : t[i] = s[i]
  BY <1>1
<1> HIDE DEF t
<1>3. ASSUME NEW i \in 1..Len(t) PROVE t[i].list = l /\ i <= t[i].n /\ t[i].n <= n + 1
  <2>1. CASE i = Len(s) + 1
    BY <1>1, <1>2, <2>1
  <2>2. CASE i \in 1..Len(s)
    <3>1. t[i] = s[i] /\ s[i].n \in 1..n /\ s[i].list = l /\ i <= s[i].n
      BY <1>1, <1>2, <2>2 DEF Climbs
    <3>2. QED
      BY <3>1
  <2>3. QED
    BY <1>1, <1>2, <2>1, <2>2
<1>4. ASSUME NEW i \in 1..Len(t), NEW j \in 1..Len(t), i < j PROVE t[i].n < t[j].n
  <2>1. i \in 1..Len(s) /\ t[i] = s[i] /\ s[i].n \in 1..n
    BY <1>1, <1>2, <1>4
  <2>2. CASE j = Len(s) + 1
    BY <1>1, <1>2, <2>1, <2>2
  <2>3. CASE j \in 1..Len(s)
    BY <1>2, <1>4, <2>1, <2>3 DEF Climbs
  <2>4. QED
    BY <1>1, <1>2, <2>2, <2>3
<1>5. QED
  BY <1>2, <1>3, <1>4 DEF Climbs, t

(* A send puts the next number at the end of one list. *)
LEMMA PutOK ==
  ASSUME NumInv, NEW l \in Lists, NEW v \in Values, v.list = l, v.n = nsent + 1,
         nsent < MaxSends, MaxSends \in Nat,
         lst' = [lst EXCEPT ![l] = Append(lst[l], v)], nsent' = nsent + 1, UNCHANGED got
  PROVE  NumInv'
<1>1. /\ lst \in [Lists -> Seq(Values)] /\ lst[l] \in Seq(Values)
      /\ \A k \in Lists : Climbs(lst[k], k, nsent) /\ nsent \in Nat
  BY DEF NumInv, ValuesOK, SentOK
<1>2. \A k \in Lists : Climbs(lst[k], k, nsent + 1) /\ {lst[k][i].n : i \in 1..Len(lst[k])} \subseteq 1..nsent
  <2> TAKE k \in Lists
  <2>1. Climbs(lst[k], k, nsent) /\ nsent \in Nat
    BY <1>1
  <2>2. QED
    BY <2>1, ClimbsNums
<1>3. Climbs(Append(lst[l], v), l, nsent + 1)
  BY <1>1, ClimbsAppend
<1>4. Append(lst[l], v) \in Seq(Values)
  BY <1>3 DEF Climbs
<1>5. nums' = [nums EXCEPT ![l] = nums[l] \cup {nsent + 1}]
  <2>1. {Append(lst[l], v)[i].n : i \in 1..Len(Append(lst[l], v))}
          = {lst[l][i].n : i \in 1..Len(lst[l])} \cup {v.n}
    BY <1>1, NumsAppend
  <2>2. ASSUME NEW k \in Lists
        PROVE  {lst'[k][i].n : i \in 1..Len(lst'[k])}
                 = IF k = l THEN nums[l] \cup {nsent + 1} ELSE nums[k]
    <3>1. CASE k = l
      BY <1>1, <2>1, <3>1 DEF nums
    <3>2. CASE k # l
      BY <1>1, <3>2 DEF nums
    <3>3. QED
      BY <3>1, <3>2
  <2>3. QED
    BY <2>2 DEF nums
<1>6. \A k \in Lists : nums[k] \subseteq 1..nsent
  BY <1>2 DEF nums
<1>7. DOMAIN nums = Lists
  BY DEF nums
<1>8. taken \subseteq 1..nsent /\ taken' = taken
  BY DEF taken, NumInv, GotOK
<1>9. SentOK'
  BY <1>1 DEF SentOK
<1>10. ValuesOK'
  BY <1>1, <1>2, <1>3, <1>4 DEF ValuesOK
<1>11. GotOK' /\ GotOnce' /\ InOrder' /\ NeverNil'
  BY <1>1 DEF NumInv, GotOK, GotOnce, InOrder, NeverNil
<1>12. Apart'
  BY <1>1, <1>5, <1>6, <1>7, <1>8 DEF NumInv, Apart
<1>13. Cover'
  <2>1. nsent + 1 \in nums'[l] /\ \A k \in Lists : nums[k] \subseteq nums'[k]
    BY <1>5, <1>7
  <2>2. ASSUME NEW n \in 1..(nsent + 1) PROVE n \in taken' \/ \E k \in Lists : n \in nums'[k]
    <3>1. CASE n = nsent + 1
      BY <2>1, <3>1
    <3>2. CASE n \in 1..nsent
      BY <1>8, <2>1, <3>2 DEF NumInv, Cover
    <3>3. QED
      BY <1>1, <3>1, <3>2
  <2>3. QED
    BY <2>2 DEF Cover
<1>14. GotBefore'
  <2>1. ASSUME NEW i \in 1..Len(got), got[i].val # None, NEW n \in nums'[got[i].val.list]
        PROVE  got[i].val.n < n
    <3>1. got[i].val.n \in 1..nsent /\ got[i] \in Gots
      BY <2>1 DEF NumInv, GotOK
    <3>2. got[i].val.list \in Lists
      BY <2>1, <3>1 DEF Values, Gots
    <3>3. n \in nums[got[i].val.list] \/ n = nsent + 1
      BY <1>5, <1>7, <2>1, <3>2
    <3>4. n \in nums[got[i].val.list] => got[i].val.n < n
      BY <2>1 DEF NumInv, GotBefore
    <3>5. QED
      BY <1>1, <3>1, <3>3, <3>4
  <2>2. QED
    BY <2>1 DEF GotBefore
<1>15. QED
  BY <1>9, <1>10, <1>11, <1>12, <1>13, <1>14 DEF NumInv

(* What one more recv adds to the history of those that returned. *)
LEMMA OneMoreGot ==
  ASSUME GotOK, NEW g \in Gots, got' = Append(got, g)
  PROVE  /\ got' \in Seq(Gots) /\ Len(got) \in Nat /\ Len(got') = Len(got) + 1
         /\ \A i \in 1..Len(got') : i = Len(got') \/ i \in 1..Len(got)
         /\ \A i \in 1..Len(got) : got'[i] = got[i] /\ got[i] \in Gots /\ i \in 1..Len(got')
         /\ Len(got') \in 1..Len(got') /\ got'[Len(got')] = g
         /\ g.val = None => taken' = taken
         /\ g.val # None => taken' = taken \cup {g.val.n}
<1>1. got \in Seq(Gots)
  BY DEF GotOK
<1>2. /\ got' \in Seq(Gots) /\ Len(got) \in Nat /\ Len(got') = Len(got) + 1
      /\ \A i \in 1..Len(got) : got'[i] = got[i] /\ got[i] \in Gots
      /\ got'[Len(got) + 1] = g
  BY <1>1
<1>3. /\ \A i \in 1..Len(got') : i = Len(got') \/ i \in 1..Len(got)
      /\ \A i \in 1..Len(got) : i \in 1..Len(got')
      /\ Len(got') \in 1..Len(got')
  BY <1>2
<1>4. ASSUME NEW n \in taken' PROVE n \in taken \/ (g.val # None /\ n = g.val.n)
  <2>1. PICK i \in 1..Len(got') : got'[i].val # None /\ n = got'[i].val.n
    BY <1>4 DEF taken
  <2>2. CASE i = Len(got')
    BY <1>2, <2>1, <2>2
  <2>3. CASE i \in 1..Len(got)
    BY <1>2, <2>1, <2>3 DEF taken
  <2>4. QED
    BY <1>3, <2>2, <2>3
<1>5. ASSUME NEW n \in taken PROVE n \in taken'
  <2>1. PICK i \in 1..Len(got) : got[i].val # None /\ n = got[i].val.n
    BY <1>5 DEF taken
  <2>2. i \in 1..Len(got') /\ got'[i] = got[i]
    BY <1>2, <1>3
  <2>3. QED
    BY <2>1, <2>2 DEF taken
<1>6. g.val # None => g.val.n \in taken'
  BY <1>2, <1>3 DEF taken
<1>7. QED
  BY <1>2, <1>3, <1>4, <1>5, <1>6

(* A recv takes the oldest value of a list. *)
LEMMA PopOK ==
  ASSUME NumInv, NEW l \in Lists, lst[l] # <<>>, NEW c \in Channels, NEW p \in Procs,
         lst' = [lst EXCEPT ![l] = Tail(lst[l])],
         Received(c, Head(lst[l]), p), UNCHANGED nsent
  PROVE  NumInv'
<1> DEFINE s == lst[l]
           v == Head(lst[l])
           g == [on |-> c, val |-> v, by |-> p]
<1>1. /\ lst \in [Lists -> Seq(Values)] /\ \A k \in Lists : Climbs(lst[k], k, nsent)
      /\ nsent \in Nat
  BY DEF NumInv, ValuesOK, SentOK
<1>2. /\ v \in Values /\ v.list = l /\ v.n \in 1..nsent
      /\ Climbs(Tail(s), l, nsent)
      /\ v.n \in {s[i].n : i \in 1..Len(s)}
      /\ {Tail(s)[i].n : i \in 1..Len(Tail(s))} = {s[i].n : i \in 1..Len(s)} \ {v.n}
      /\ \A m \in {Tail(s)[i].n : i \in 1..Len(Tail(s))} : v.n < m
  BY <1>1, NumsTail
<1>3. g \in Gots /\ g.val = v /\ v # None /\ got' = Append(got, g)
  BY <1>2, NoneApart DEF Gots, Received
<1>4. nums' = [nums EXCEPT ![l] = nums[l] \ {v.n}] /\ v.n \in nums[l] /\ DOMAIN nums = Lists
  <2>1. ASSUME NEW k \in Lists
        PROVE  {lst'[k][i].n : i \in 1..Len(lst'[k])}
                 = IF k = l THEN nums[l] \ {v.n} ELSE nums[k]
    <3>1. CASE k = l
      BY <1>1, <1>2, <3>1 DEF nums
    <3>2. CASE k # l
      BY <1>1, <3>2 DEF nums
    <3>3. QED
      BY <3>1, <3>2
  <2>2. v.n \in nums[l]
    BY <1>2 DEF nums
  <2>3. QED
    BY <2>1, <2>2 DEF nums
<1>5. \A m \in nums[l] \ {v.n} : v.n < m
  BY <1>2 DEF nums
<1>6. Tail(s) \in Seq(Values)
  BY <1>2 DEF Climbs
<1> HIDE DEF s, v, g
<1>7. /\ got' \in Seq(Gots) /\ Len(got) \in Nat /\ Len(got') = Len(got) + 1
      /\ \A i \in 1..Len(got') : i = Len(got') \/ i \in 1..Len(got)
      /\ \A i \in 1..Len(got) : got'[i] = got[i] /\ got[i] \in Gots /\ i \in 1..Len(got')
      /\ Len(got') \in 1..Len(got') /\ got'[Len(got')] = g
      /\ taken' = taken \cup {v.n}
  BY <1>3, OneMoreGot DEF NumInv
<1>8. v.n \notin taken /\ \A k \in Lists : k # l => v.n \notin nums[k]
  BY <1>4 DEF NumInv, Apart
<1>9. \A i \in 1..Len(got) : got[i].val # None => got[i].val.n \in taken
  BY DEF taken
<1>10. SentOK'
  BY DEF NumInv, SentOK
<1>11. ValuesOK'
  <2>1. ASSUME NEW k \in Lists PROVE lst'[k] \in Seq(Values) /\ Climbs(lst'[k], k, nsent)
    BY <1>1, <1>2, <1>6 DEF s
  <2>2. lst' \in [Lists -> Seq(Values)]
    BY <1>1, <1>6 DEF s
  <2>3. QED
    BY <2>1, <2>2 DEF ValuesOK
<1>12. GotOK'
  <2>1. ASSUME NEW i \in 1..Len(got'), got'[i].val # None PROVE got'[i].val.n \in 1..nsent
    <3>1. CASE i = Len(got')
      BY <1>2, <1>3, <1>7, <3>1
    <3>2. CASE i \in 1..Len(got)
      BY <1>7, <2>1, <3>2 DEF NumInv, GotOK
    <3>3. QED
      BY <1>7, <3>1, <3>2
  <2>2. QED
    BY <1>7, <2>1 DEF GotOK
<1>13. GotOnce'
  <2>1. ASSUME NEW i \in 1..Len(got'), NEW j \in 1..Len(got'), got'[i].val # None,
               got'[j].val # None, got'[i].val.n = got'[j].val.n
        PROVE  i = j
    <3>1. CASE i \in 1..Len(got) /\ j \in 1..Len(got)
      BY <1>7, <2>1, <3>1 DEF NumInv, GotOnce
    <3>2. CASE i = Len(got') /\ j \in 1..Len(got)
      BY <1>3, <1>7, <1>8, <1>9, <2>1, <3>2
    <3>3. CASE i \in 1..Len(got) /\ j = Len(got')
      BY <1>3, <1>7, <1>8, <1>9, <2>1, <3>3
    <3>4. QED
      BY <1>7, <3>1, <3>2, <3>3
  <2>2. QED
    BY <2>1 DEF GotOnce
<1>14. Apart'
  BY <1>4, <1>7, <1>8 DEF NumInv, Apart
<1>15. Cover'
  BY <1>4, <1>7 DEF NumInv, Cover
<1>16. GotBefore'
  <2>1. ASSUME NEW i \in 1..Len(got'), got'[i].val # None, NEW m \in nums'[got'[i].val.list]
        PROVE  got'[i].val.n < m
    <3>1. CASE i = Len(got')
      BY <1>2, <1>3, <1>4, <1>5, <1>7, <2>1, <3>1
    <3>2. CASE i \in 1..Len(got)
      <4>1. got'[i] = got[i] /\ got[i].val.list \in Lists
        BY <1>7, <2>1, <3>2 DEF Gots, Values
      <4>2. m \in nums[got[i].val.list]
        BY <1>4, <2>1, <4>1
      <4>3. QED
        BY <2>1, <3>2, <4>1, <4>2 DEF NumInv, GotBefore
    <3>3. QED
      BY <1>7, <3>1, <3>2
  <2>2. QED
    BY <2>1 DEF GotBefore
<1>17. InOrder'
  <2>1. ASSUME NEW i \in 1..Len(got'), NEW j \in 1..Len(got'), i < j, got'[i].val # None,
               got'[j].val # None, got'[i].val.list = got'[j].val.list
        PROVE  got'[i].val.n < got'[j].val.n
    <3>1. i \in 1..Len(got) /\ got'[i] = got[i]
      BY <1>7, <2>1
    <3>2. CASE j \in 1..Len(got)
      <4>1. DOMAIN got = 1..Len(got) /\ got'[j] = got[j]
        BY <1>7, <3>2 DEF NumInv, GotOK
      <4>2. QED
        BY <2>1, <3>1, <3>2, <4>1 DEF NumInv, InOrder
    <3>3. CASE j = Len(got')
      <4>1. got[i].val.list = l /\ got'[j].val = v
        BY <1>2, <1>3, <1>7, <2>1, <3>1, <3>3
      <4>2. QED
        BY <1>4, <2>1, <3>1, <4>1 DEF NumInv, GotBefore
    <3>4. QED
      BY <1>7, <3>2, <3>3
  <2>2. DOMAIN got' = 1..Len(got')
    BY <1>7
  <2>3. QED
    BY <2>1, <2>2 DEF InOrder
<1>18. NeverNil'
  BY <1>3, <1>7 DEF NumInv, NeverNil
<1>19. QED
  BY <1>10, <1>11, <1>12, <1>13, <1>14, <1>15, <1>16, <1>17, <1>18 DEF NumInv

(* A step that touches no value. *)
LEMMA SameValues ==
  ASSUME NumInv, UNCHANGED <<buff, pending, nsent, got>>
  PROVE  NumInv'
<1>1. UNCHANGED <<lst, nsent, got>>
  BY DEF lst
<1>2. UNCHANGED <<nums, taken>>
  BY <1>1 DEF nums, taken
<1>3. QED
  BY <1>1, <1>2 DEF NumInv, SentOK, ValuesOK, GotOK, GotOnce, Apart, Cover, GotBefore, InOrder,
    NeverNil

-----------------------------------------------------------------------------
(* What the operations do to the lists of tasks, as sets. *)
LEMMA ReadyPut ==
  ASSUME QueuesOK, NEW p \in Procs, Ready(p)
  PROVE  /\ rdyq' \in Seq(Procs) /\ ready' = ready \cup {p}
         /\ OnListOnce(rdyq) /\ p \notin ready => OnListOnce(rdyq')
<1>1. rdyq \in Seq(Procs) /\ rdyq' = Append(rdyq, p)
  BY DEF QueuesOK, Ready
<1>2. /\ rdyq' \in Seq(Procs)
      /\ \A y : OnList(rdyq', y) <=> (OnList(rdyq, y) \/ y = p)
      /\ OnListOnce(rdyq) /\ ~OnList(rdyq, p) => OnListOnce(rdyq')
  BY <1>1, AppendToList
<1>3. QED
  BY <1>2 DEF ready

LEMMA TakenOut ==
  ASSUME NEW S, NEW s \in Seq(S), NEW i \in 1..Len(s)
  PROVE  /\ Without(s, i) \in Seq(S)
         /\ OnListOnce(s) => \A y : OnList(Without(s, i), y) <=> (OnList(s, y) /\ y # s[i])
         /\ OnListOnce(s) => OnListOnce(Without(s, i))
<1>1. PICK w : w = Without(s, i)
  OBVIOUS
<1>2. Len(s) \in Nat /\ 1 <= i /\ i <= Len(s) /\ i \in Nat /\ \A j \in 1..Len(s) : s[j] \in S
  OBVIOUS
<1>3. w \in [1..(Len(s) - 1) -> S] /\ Len(s) - 1 \in Nat
  BY <1>1, <1>2 DEF Without
<1>4. w \in Seq(S) /\ Len(w) = Len(s) - 1
  BY <1>3
<1>5. \A j \in 1..(Len(s) - 1) : w[j] = s[IF j < i THEN j ELSE j + 1]
  BY <1>1 DEF Without
<1>6. \A k \in 1..Len(s) : k # i => \E j \in 1..(Len(s) - 1) : w[j] = s[k]
  <2>1. SUFFICES ASSUME NEW k \in 1..Len(s), k # i PROVE \E j \in 1..(Len(s) - 1) : w[j] = s[k]
    OBVIOUS
  <2>2. CASE k < i
    <3>1. k \in 1..(Len(s) - 1)
      BY <1>2, <2>2
    <3>2. QED
      BY <1>5, <2>2, <3>1
  <2>3. CASE k > i
    <3>1. k - 1 \in 1..(Len(s) - 1) /\ ~ (k - 1 < i) /\ (k - 1) + 1 = k
      BY <1>2, <2>3
    <3>2. QED
      BY <1>5, <3>1
  <2>4. QED
    BY <1>2, <2>1, <2>2, <2>3
<1>7. ASSUME OnListOnce(s) PROVE \A y : OnList(w, y) <=> (OnList(s, y) /\ y # s[i])
  <2>1. ASSUME NEW j \in 1..(Len(s) - 1) PROVE \E k \in 1..Len(s) : k # i /\ w[j] = s[k]
    BY <1>2, <1>5
  <2>2. ASSUME NEW y, OnList(w, y) PROVE OnList(s, y) /\ y # s[i]
    <3>1. PICK j \in 1..(Len(s) - 1) : w[j] = y
      BY <1>4, <2>2 DEF OnList
    <3>2. PICK k \in 1..Len(s) : k # i /\ y = s[k]
      BY <2>1, <3>1
    <3>3. QED
      BY <1>7, <3>2 DEF OnList, OnListOnce
  <2>3. ASSUME NEW y, OnList(s, y), y # s[i] PROVE OnList(w, y)
    <3>1. PICK k \in 1..Len(s) : s[k] = y
      BY <2>3 DEF OnList
    <3>2. QED
      BY <1>4, <1>6, <2>3, <3>1 DEF OnList
  <2>4. QED
    BY <2>2, <2>3
<1>8. ASSUME OnListOnce(s) PROVE OnListOnce(w)
  <2>1. SUFFICES ASSUME NEW j \in 1..(Len(s) - 1), NEW k \in 1..(Len(s) - 1), w[j] = w[k] PROVE j = k
    BY <1>4 DEF OnListOnce
  <2>2. PICK a, b : a = (IF j < i THEN j ELSE j + 1) /\ b = (IF k < i THEN k ELSE k + 1)
    OBVIOUS
  <2>3. a \in 1..Len(s) /\ b \in 1..Len(s) /\ s[a] = s[b]
    BY <1>2, <1>5, <2>1, <2>2
  <2>4. a = b
    BY <1>8, <2>3 DEF OnListOnce
  <2>5. QED
    BY <1>2, <2>2, <2>4
<1>9. QED
  BY <1>1, <1>4, <1>7, <1>8

LEMMA ReadyPop ==
  ASSUME QueuesOK, OnListOnce(rdyq), NEW i \in 1..Len(rdyq), rdyq' = Without(rdyq, i)
  PROVE  /\ rdyq' \in Seq(Procs) /\ rdyq[i] \in ready /\ rdyq[i] \in Procs
         /\ ready' = ready \ {rdyq[i]} /\ OnListOnce(rdyq')
<1>1. rdyq \in Seq(Procs)
  BY DEF QueuesOK
<1>2. rdyq[i] \in Procs /\ OnList(rdyq, rdyq[i])
  BY <1>1 DEF OnList
<1>3. /\ rdyq' \in Seq(Procs) /\ OnListOnce(rdyq')
      /\ \A y : OnList(rdyq', y) <=> (OnList(rdyq, y) /\ y # rdyq[i])
  BY <1>1, TakenOut
<1>4. QED
  BY <1>2, <1>3 DEF ready

LEMMA SendsPut ==
  ASSUME QueuesOK, NEW c \in Channels, NEW p \in Procs, senders' = Put(senders, c, p)
  PROVE  /\ senders' \in [Channels -> Seq(Procs)] /\ senders'[c] # <<>>
         /\ \A d \in Channels : d # c => senders'[d] = senders[d]
         /\ sends' = [sends EXCEPT ![c] = sends[c] \cup {p}]
         /\ nsend' = [nsend EXCEPT ![c] = nsend[c] + 1]
         /\ (\A d \in Channels : OnListOnce(senders[d])) /\ p \notin sends[c]
              => \A d \in Channels : OnListOnce(senders'[d])
<1>1. senders \in [Channels -> Seq(Procs)] /\ senders[c] \in Seq(Procs)
  BY DEF QueuesOK
<1>2. /\ Append(senders[c], p) \in Seq(Procs) /\ Append(senders[c], p) # <<>>
      /\ \A y : OnList(Append(senders[c], p), y) <=> (OnList(senders[c], y) \/ y = p)
      /\ OnListOnce(senders[c]) /\ ~OnList(senders[c], p) => OnListOnce(Append(senders[c], p))
      /\ Len(Append(senders[c], p)) = Len(senders[c]) + 1
  BY <1>1, AppendToList
<1>3. senders' = [senders EXCEPT ![c] = Append(senders[c], p)]
  BY DEF Put
<1>4. /\ senders' \in [Channels -> Seq(Procs)] /\ senders'[c] = Append(senders[c], p)
      /\ \A d \in Channels : d # c => senders'[d] = senders[d]
  BY <1>1, <1>2, <1>3
<1>5. sends' = [sends EXCEPT ![c] = sends[c] \cup {p}]
  <2>1. ASSUME NEW d \in Channels
        PROVE  {q \in Procs : OnList(senders'[d], q)} = IF d = c THEN sends[c] \cup {p} ELSE sends[d]
    BY <1>2, <1>4 DEF sends
  <2>2. QED
    BY <2>1 DEF sends
<1>6. nsend' = [nsend EXCEPT ![c] = nsend[c] + 1]
  BY <1>2, <1>4 DEF nsend
<1>7. p \notin sends[c] => ~OnList(senders[c], p)
  BY DEF sends
<1>8. QED
  BY <1>2, <1>4, <1>5, <1>6, <1>7

LEMMA SendsPop ==
  ASSUME QueuesOK, NEW c \in Channels, senders[c] # <<>>, senders' = Pop(senders, c),
         \A d \in Channels : OnListOnce(senders[d])
  PROVE  /\ senders' \in [Channels -> Seq(Procs)]
         /\ Head(senders[c]) \in Procs /\ Head(senders[c]) \in sends[c]
         /\ \A d \in Channels : d # c => senders'[d] = senders[d]
         /\ sends' = [sends EXCEPT ![c] = sends[c] \ {Head(senders[c])}]
         /\ nsend[c] \in Nat \ {0} /\ nsend' = [nsend EXCEPT ![c] = nsend[c] - 1]
         /\ \A d \in Channels : OnListOnce(senders'[d])
<1>1. senders \in [Channels -> Seq(Procs)] /\ senders[c] \in Seq(Procs) /\ OnListOnce(senders[c])
  BY DEF QueuesOK
<1>2. /\ Tail(senders[c]) \in Seq(Procs) /\ Head(senders[c]) \in Procs
      /\ OnList(senders[c], Head(senders[c]))
      /\ \A y : OnList(Tail(senders[c]), y) <=> (OnList(senders[c], y) /\ y # Head(senders[c]))
      /\ OnListOnce(Tail(senders[c]))
  BY <1>1, TailOfList
<1>3. Len(Tail(senders[c])) = Len(senders[c]) - 1 /\ Len(senders[c]) \in Nat \ {0}
  BY <1>1
<1>4. senders' = [senders EXCEPT ![c] = Tail(senders[c])]
  BY DEF Pop
<1>5. /\ senders' \in [Channels -> Seq(Procs)] /\ senders'[c] = Tail(senders[c])
      /\ \A d \in Channels : d # c => senders'[d] = senders[d]
  BY <1>1, <1>2, <1>4
<1>6. sends' = [sends EXCEPT ![c] = sends[c] \ {Head(senders[c])}]
  <2>1. ASSUME NEW d \in Channels
        PROVE  {q \in Procs : OnList(senders'[d], q)}
                 = IF d = c THEN sends[c] \ {Head(senders[c])} ELSE sends[d]
    BY <1>2, <1>5 DEF sends
  <2>2. QED
    BY <2>1 DEF sends
<1>7. nsend' = [nsend EXCEPT ![c] = nsend[c] - 1] /\ nsend[c] \in Nat \ {0}
  BY <1>3, <1>5 DEF nsend
<1>8. Head(senders[c]) \in sends[c]
  BY <1>2 DEF sends
<1>9. QED
  BY <1>2, <1>5, <1>6, <1>7, <1>8

LEMMA RecvsPut ==
  ASSUME QueuesOK, NEW c \in Channels, NEW p \in Procs, receivers' = Put(receivers, c, p)
  PROVE  /\ receivers' \in [Channels -> Seq(Procs)] /\ receivers'[c] # <<>>
         /\ \A d \in Channels : d # c => receivers'[d] = receivers[d]
         /\ recvs' = [recvs EXCEPT ![c] = recvs[c] \cup {p}]
         /\ (\A d \in Channels : OnListOnce(receivers[d])) /\ p \notin recvs[c]
              => \A d \in Channels : OnListOnce(receivers'[d])
<1>1. receivers \in [Channels -> Seq(Procs)] /\ receivers[c] \in Seq(Procs)
  BY DEF QueuesOK
<1>2. /\ Append(receivers[c], p) \in Seq(Procs) /\ Append(receivers[c], p) # <<>>
      /\ \A y : OnList(Append(receivers[c], p), y) <=> (OnList(receivers[c], y) \/ y = p)
      /\ OnListOnce(receivers[c]) /\ ~OnList(receivers[c], p) => OnListOnce(Append(receivers[c], p))
  BY <1>1, AppendToList
<1>3. receivers' = [receivers EXCEPT ![c] = Append(receivers[c], p)]
  BY DEF Put
<1>4. /\ receivers' \in [Channels -> Seq(Procs)] /\ receivers'[c] = Append(receivers[c], p)
      /\ \A d \in Channels : d # c => receivers'[d] = receivers[d]
  BY <1>1, <1>2, <1>3
<1>5. recvs' = [recvs EXCEPT ![c] = recvs[c] \cup {p}]
  <2>1. ASSUME NEW d \in Channels
        PROVE  {q \in Procs : OnList(receivers'[d], q)} = IF d = c THEN recvs[c] \cup {p} ELSE recvs[d]
    BY <1>2, <1>4 DEF recvs
  <2>2. QED
    BY <2>1 DEF recvs
<1>6. p \notin recvs[c] => ~OnList(receivers[c], p)
  BY DEF recvs
<1>7. QED
  BY <1>2, <1>4, <1>5, <1>6

LEMMA RecvsPop ==
  ASSUME QueuesOK, NEW c \in Channels, receivers[c] # <<>>, receivers' = Pop(receivers, c),
         \A d \in Channels : OnListOnce(receivers[d])
  PROVE  /\ receivers' \in [Channels -> Seq(Procs)]
         /\ Head(receivers[c]) \in Procs /\ Head(receivers[c]) \in recvs[c]
         /\ \A d \in Channels : d # c => receivers'[d] = receivers[d]
         /\ recvs' = [recvs EXCEPT ![c] = recvs[c] \ {Head(receivers[c])}]
         /\ \A d \in Channels : OnListOnce(receivers'[d])
<1>1. receivers \in [Channels -> Seq(Procs)] /\ receivers[c] \in Seq(Procs) /\ OnListOnce(receivers[c])
  BY DEF QueuesOK
<1>2. /\ Tail(receivers[c]) \in Seq(Procs) /\ Head(receivers[c]) \in Procs
      /\ OnList(receivers[c], Head(receivers[c]))
      /\ \A y : OnList(Tail(receivers[c]), y) <=> (OnList(receivers[c], y) /\ y # Head(receivers[c]))
      /\ OnListOnce(Tail(receivers[c]))
  BY <1>1, TailOfList
<1>3. receivers' = [receivers EXCEPT ![c] = Tail(receivers[c])]
  BY DEF Pop
<1>4. /\ receivers' \in [Channels -> Seq(Procs)] /\ receivers'[c] = Tail(receivers[c])
      /\ \A d \in Channels : d # c => receivers'[d] = receivers[d]
  BY <1>1, <1>2, <1>3
<1>5. recvs' = [recvs EXCEPT ![c] = recvs[c] \ {Head(receivers[c])}]
  <2>1. ASSUME NEW d \in Channels
        PROVE  {q \in Procs : OnList(receivers'[d], q)}
                 = IF d = c THEN recvs[c] \ {Head(receivers[c])} ELSE recvs[d]
    BY <1>2, <1>4 DEF recvs
  <2>2. QED
    BY <2>1 DEF recvs
<1>6. Head(receivers[c]) \in recvs[c]
  BY <1>2 DEF recvs
<1>7. QED
  BY <1>2, <1>4, <1>5, <1>6

(* A value put in the buffer or the pending list of a channel, or taken. *)
LEMMA BuffPut ==
  ASSUME IndInv, NEW c \in Channels, buff' = Put(buff, c, Value(c, <<"buff", c>>)),
         nsent < MaxSends, nsent' = nsent + 1, UNCHANGED <<pending, got>>
  PROVE  NumInv' /\ buff' \in [Channels -> Seq(Values)]
<1> DEFINE v == Value(c, <<"buff", c>>)
           l == <<"buff", c>>
<1>1. QueuesOK /\ NumInv /\ nsent \in Nat /\ MaxSends \in Nat
  BY ChannelAssumption DEF IndInv, TaskInv, NumInv, SentOK
<1>2. l \in Lists /\ v \in Values /\ v.list = l /\ v.n = nsent + 1
  BY <1>1 DEF Lists, Values, Value
<1>3. buff \in [Channels -> Seq(Values)] /\ buff' = [buff EXCEPT ![c] = Append(buff[c], v)]
  BY <1>1 DEF QueuesOK, Put
<1> HIDE DEF v, l
<1>4. buff' \in [Channels -> Seq(Values)]
  <2>1. Append(buff[c], v) \in Seq(Values)
    BY <1>2, <1>3
  <2>2. QED
    BY <1>3, <2>1
<1>5. lst[l] = buff[c] /\ lst' = [lst EXCEPT ![l] = Append(lst[l], v)]
  BY <1>1, <1>3, BuffChanges DEF l
<1>6. NumInv'
  BY <1>1, <1>2, <1>5, PutOK
<1>7. QED
  BY <1>4, <1>6

LEMMA PendingPut ==
  ASSUME IndInv, NEW c \in Channels, NEW d \in Channels,
         pending' = Put(pending, c, Value(d, <<"pending", c>>)),
         nsent < MaxSends, nsent' = nsent + 1, UNCHANGED <<buff, got>>
  PROVE  /\ NumInv' /\ pending' \in [Channels -> Seq(Values)]
         /\ npend' = [npend EXCEPT ![c] = npend[c] + 1]
<1> DEFINE v == Value(d, <<"pending", c>>)
           l == <<"pending", c>>
<1>1. QueuesOK /\ NumInv /\ nsent \in Nat /\ MaxSends \in Nat
  BY ChannelAssumption DEF IndInv, TaskInv, NumInv, SentOK
<1>2. l \in Lists /\ v \in Values /\ v.list = l /\ v.n = nsent + 1
  BY <1>1 DEF Lists, Values, Value
<1>3. pending \in [Channels -> Seq(Values)] /\ pending' = [pending EXCEPT ![c] = Append(pending[c], v)]
  BY <1>1 DEF QueuesOK, Put
<1> HIDE DEF v, l
<1>4. pending' \in [Channels -> Seq(Values)] /\ Len(Append(pending[c], v)) = Len(pending[c]) + 1
  <2>1. /\ pending[c] \in Seq(Values) /\ Append(pending[c], v) \in Seq(Values)
        /\ Len(Append(pending[c], v)) = Len(pending[c]) + 1
    BY <1>2, <1>3
  <2>2. QED
    BY <1>3, <2>1
<1>5. lst[l] = pending[c] /\ lst' = [lst EXCEPT ![l] = Append(lst[l], v)]
  BY <1>1, <1>3, PendingChanges DEF l
<1>6. NumInv'
  BY <1>1, <1>2, <1>5, PutOK
<1>7. npend' = [npend EXCEPT ![c] = npend[c] + 1]
  BY <1>3, <1>4 DEF npend
<1>8. QED
  BY <1>4, <1>6, <1>7

LEMMA BuffPop ==
  ASSUME IndInv, NEW c \in Channels, NEW p \in Procs, buff[c] # <<>>, buff' = Pop(buff, c),
         Received(c, Head(buff[c]), p), UNCHANGED <<pending, nsent>>
  PROVE  NumInv' /\ buff' \in [Channels -> Seq(Values)]
<1> DEFINE l == <<"buff", c>>
<1>1. QueuesOK /\ NumInv
  BY DEF IndInv, TaskInv
<1>2. /\ buff \in [Channels -> Seq(Values)] /\ buff' = [buff EXCEPT ![c] = Tail(buff[c])]
      /\ buff[c] \in Seq(Values)
  BY <1>1 DEF QueuesOK, Pop
<1>3. Tail(buff[c]) \in Seq(Values)
  BY <1>2
<1>4. buff' \in [Channels -> Seq(Values)]
  BY <1>2, <1>3
<1>5. l \in Lists /\ lst[l] = buff[c] /\ lst' = [lst EXCEPT ![l] = Tail(lst[l])]
  BY <1>1, <1>2, BuffChanges
<1> HIDE DEF l
<1>6. NumInv'
  BY <1>1, <1>5, PopOK
<1>7. QED
  BY <1>4, <1>6

LEMMA PendingPop ==
  ASSUME IndInv, NEW c \in Channels, NEW d \in Channels, NEW p \in Procs, pending[c] # <<>>,
         pending' = [pending EXCEPT ![c] = Tail(pending[c])],
         Received(d, Head(pending[c]), p), UNCHANGED <<buff, nsent>>
  PROVE  /\ NumInv' /\ pending' \in [Channels -> Seq(Values)]
         /\ npend[c] \in Nat \ {0} /\ npend' = [npend EXCEPT ![c] = npend[c] - 1]
<1> DEFINE l == <<"pending", c>>
<1>1. QueuesOK /\ NumInv
  BY DEF IndInv, TaskInv
<1>2. pending \in [Channels -> Seq(Values)] /\ pending[c] \in Seq(Values)
  BY <1>1 DEF QueuesOK
<1>3. /\ Tail(pending[c]) \in Seq(Values) /\ Len(pending[c]) \in Nat \ {0}
      /\ Len(Tail(pending[c])) = Len(pending[c]) - 1
  BY <1>2
<1>4. pending' \in [Channels -> Seq(Values)]
  BY <1>2, <1>3
<1>5. l \in Lists /\ lst[l] = pending[c] /\ lst' = [lst EXCEPT ![l] = Tail(lst[l])]
  BY <1>1, <1>2, PendingChanges
<1> HIDE DEF l
<1>6. NumInv'
  BY <1>1, <1>5, PopOK
<1>7. npend' = [npend EXCEPT ![c] = npend[c] - 1] /\ npend[c] \in Nat \ {0}
  BY <1>2, <1>3 DEF npend
<1>8. QED
  BY <1>4, <1>6, <1>7

(* The parts of wait, when one task's entry changes. *)
Enters(p, w) ==
  /\ w \in Waits /\ (w.op # "none" => w.on \in Channels /\ w.at \in Channels)
  /\ wait' = [wait EXCEPT ![p] = w]

LEMMA WaitPut ==
  ASSUME WaitsOK, NEW p \in Procs, NEW w, Enters(p, w)
  PROVE  /\ WaitsOK'
         /\ wop' = [wop EXCEPT ![p] = w.op] /\ won' = [won EXCEPT ![p] = w.on]
         /\ wat' = [wat EXCEPT ![p] = w.at]
<1>1. /\ wait \in [Procs -> Waits] /\ w \in Waits /\ wait' = [wait EXCEPT ![p] = w]
      /\ w.op # "none" => w.on \in Channels /\ w.at \in Channels
  BY DEF WaitsOK, Enters
<1>2. /\ wop' = [wop EXCEPT ![p] = w.op] /\ won' = [won EXCEPT ![p] = w.on]
      /\ wat' = [wat EXCEPT ![p] = w.at]
  BY <1>1 DEF wop, won, wat, Waits
<1>3. wait' \in [Procs -> Waits]
  BY <1>1
<1>4. DOMAIN wop = Procs /\ DOMAIN won = Procs /\ DOMAIN wat = Procs
  BY DEF wop, won, wat
<1>5. \A q \in Procs : wop'[q] # "none" => won'[q] \in Channels /\ wat'[q] \in Channels
  BY <1>1, <1>2, <1>4 DEF WaitsOK
<1>6. QED
  BY <1>2, <1>3, <1>5 DEF WaitsOK

LEMMA WaitClear ==
  ASSUME WaitsOK, NEW p \in Procs, wait' = [wait EXCEPT ![p] = NoWait]
  PROVE  WaitsOK' /\ wop' = [wop EXCEPT ![p] = "none"] /\ wat' = [wat EXCEPT ![p] = None]
<1> DEFINE w == NoWait
<1>1. w.op = "none" /\ w.at = None /\ Enters(p, w)
  BY DEF NoWait, Waits, Enters
<1> HIDE DEF w
<1>2. WaitsOK' /\ wop' = [wop EXCEPT ![p] = w.op] /\ wat' = [wat EXCEPT ![p] = w.at]
  BY <1>1, WaitPut
<1>3. QED
  BY <1>1, <1>2

Waiting(p, op, k) ==
  WaitsOK' /\ wop' = [wop EXCEPT ![p] = op] /\ wat' = [wat EXCEPT ![p] = k] /\ cur' = None

LEMMA WaitFor ==
  ASSUME WaitsOK, NEW p \in Procs, p = cur, NEW op, op = "send" \/ op = "recv",
         NEW c \in Channels, NEW k \in Channels, k = latest, Suspend(op, c)
  PROVE  Waiting(p, op, k)
<1> DEFINE w == [op |-> op, on |-> c, at |-> k]
<1>1. w.op = op /\ w.at = k /\ Enters(p, w) /\ cur' = None
  BY DEF Waits, Suspend, Enters
<1> HIDE DEF w
<1>2. WaitsOK' /\ wop' = [wop EXCEPT ![p] = w.op] /\ wat' = [wat EXCEPT ![p] = w.at]
  BY <1>1, WaitPut
<1>3. QED
  BY <1>1, <1>2 DEF Waiting

(* The receivers woken for a value: one more, one less, or the same ones. *)
LEMMA WokenMore ==
  ASSUME NEW h \in Procs, NEW c \in Channels, h \notin ready, wop[h] = "recv", wat[h] = c,
         ready' = ready \cup {h}, UNCHANGED <<wop, wat>>
  PROVE  woken' = [woken EXCEPT ![c] = woken[c] \cup {h}] /\ h \notin woken[c]
<1>1. ASSUME NEW d \in Channels
      PROVE  {p \in ready' : wop'[p] = "recv" /\ wat'[p] = d}
               = IF d = c THEN woken[c] \cup {h} ELSE woken[d]
  BY DEF woken
<1>2. QED
  BY <1>1 DEF woken

LEMMA WokenLess ==
  ASSUME NEW h \in Procs, NEW c \in Channels, h \in ready, wop[h] = "recv", wat[h] = c,
         ready' = ready \ {h}, NEW a, NEW b, wop' = [wop EXCEPT ![h] = a],
         wat' = [wat EXCEPT ![h] = b]
  PROVE  woken' = [woken EXCEPT ![c] = woken[c] \ {h}] /\ h \in woken[c]
<1>1. \A p \in Procs : p # h => wop'[p] = wop[p] /\ wat'[p] = wat[p]
  BY DEF wop, wat
<1>2. ready \subseteq Procs
  BY DEF ready
<1>3. QED
  BY ZenonT(60), <1>1, <1>2 DEF woken

LEMMA WokenSame ==
  ASSUME \A p \in Procs : p \in ready' /\ wop'[p] = "recv" <=> p \in ready /\ wop[p] = "recv",
         \A p \in ready : wop[p] = "recv" => wat'[p] = wat[p]
  PROVE  woken' = woken
<1>1. ready \subseteq Procs /\ ready' \subseteq Procs
  BY DEF ready
<1>2. QED
  BY <1>1 DEF woken

(* The count of pending values, when it and what it counts change. *)
LEMMA Counts ==
  ASSUME QueuesOK
  PROVE  /\ DOMAIN npend = Channels /\ DOMAIN nsend = Channels /\ DOMAIN woken = Channels
         /\ \A c \in Channels : npend[c] \in Nat /\ nsend[c] \in Nat
  BY DEF npend, nsend, woken, QueuesOK

LEMMA CountMore ==
  ASSUME QueuesOK, CountOK, sched = "up", NEW h, NEW c \in Channels, h \notin woken[c],
         woken' = [woken EXCEPT ![c] = woken[c] \cup {h}],
         npend' = [npend EXCEPT ![c] = npend[c] + 1], UNCHANGED nsend
  PROVE  CountOK'
<1>1. IsFiniteSet(woken[c]) /\ Cardinality(woken[c]) \in Nat
  BY FS_CardinalityType DEF CountOK
<1>2. /\ IsFiniteSet(woken[c] \cup {h})
      /\ Cardinality(woken[c] \cup {h}) = Cardinality(woken[c]) + 1
  BY <1>1, FS_AddElement
<1>3. QED
  BY <1>1, <1>2, Counts DEF CountOK

LEMMA CountLess ==
  ASSUME QueuesOK, CountOK, sched = "up", NEW h, NEW c \in Channels, h \in woken[c],
         woken' = [woken EXCEPT ![c] = woken[c] \ {h}],
         npend' = [npend EXCEPT ![c] = npend[c] - 1], UNCHANGED nsend
  PROVE  CountOK'
<1>1. IsFiniteSet(woken[c]) /\ Cardinality(woken[c]) \in Nat
  BY FS_CardinalityType DEF CountOK
<1>2. /\ IsFiniteSet(woken[c] \ {h})
      /\ Cardinality(woken[c] \ {h}) = Cardinality(woken[c]) - 1
  BY <1>1, FS_RemoveElement
<1>3. QED
  BY <1>1, <1>2, Counts DEF CountOK

(* A receiver that was woken finds a value, and so does who finds a sender. *)
LEMMA ValueThere ==
  ASSUME QueuesOK, CountOK, sched = "up", NEW c \in Channels,
         senders[c] # <<>> \/ woken[c] # {}
  PROVE  pending[c] # <<>>
<1>1. /\ IsFiniteSet(woken[c]) /\ Cardinality(woken[c]) \in Nat
      /\ npend[c] = nsend[c] + Cardinality(woken[c])
  BY FS_CardinalityType DEF CountOK
<1>2. woken[c] # {} => Cardinality(woken[c]) # 0
  BY <1>1, FS_EmptySet
<1>3. senders[c] # <<>> => nsend[c] # 0
  BY DEF nsend, QueuesOK
<1>4. npend[c] # 0
  BY <1>1, <1>2, <1>3, Counts
<1>5. QED
  BY <1>4 DEF npend

LEMMA CountSend ==
  ASSUME QueuesOK, CountOK, sched = "up", NEW c \in Channels, UNCHANGED woken,
         npend' = [npend EXCEPT ![c] = npend[c] + 1], nsend' = [nsend EXCEPT ![c] = nsend[c] + 1]
  PROVE  CountOK'
<1>1. \A d \in Channels : IsFiniteSet(woken[d]) => Cardinality(woken[d]) \in Nat
  BY FS_CardinalityType
<1>2. QED
  BY <1>1, Counts DEF CountOK

LEMMA CountTake ==
  ASSUME QueuesOK, CountOK, sched = "up", NEW c \in Channels, UNCHANGED woken,
         npend' = [npend EXCEPT ![c] = npend[c] - 1], nsend' = [nsend EXCEPT ![c] = nsend[c] - 1]
  PROVE  CountOK'
<1>1. \A d \in Channels : IsFiniteSet(woken[d]) => Cardinality(woken[d]) \in Nat
  BY FS_CardinalityType
<1>2. QED
  BY <1>1, Counts DEF CountOK

-----------------------------------------------------------------------------
(* A new channel: no list changes. *)
LEMMA NewChannelOK ==
  ASSUME IndInv, NEW c \in Channels, NewChannel(c)
  PROVE  IndInv'
<1>h. /\ NumInv /\ WaitsOK /\ TypesOK /\ StatusOK /\ QueuesOK /\ OnceOK /\ PlacesOK /\ CountOK
      /\ NoneMissed
  BY DEF IndInv, TaskInv
<1>d. /\ DOMAIN sends = Channels /\ DOMAIN recvs = Channels /\ DOMAIN wop = Procs
      /\ DOMAIN won = Procs /\ DOMAIN wat = Procs
  BY DEF sends, recvs, wop, won, wat
<1>a. /\ UNCHANGED <<lists, rdyq, cur, status, wait, sync, sched, nsent, got>>
      /\ UNCHANGED <<senders, receivers, pending, buff>>
      /\ created' = created \cup {c} /\ latest' = c
  BY DEF NewChannel, lists
<1>e. UNCHANGED <<wait, ready, sends, recvs, wop, won, wat, woken, npend, nsend>>
  BY <1>a DEF ready, sends, recvs, wop, won, wat, woken, npend, nsend
<1>1. NumInv'
  BY <1>h, <1>a, SameValues
<1>2. WaitsOK'
  BY <1>h, <1>e DEF WaitsOK
<1>3. TypesOK'
  BY <1>h, <1>a DEF TypesOK
<1>4. StatusOK'
  BY <1>h, <1>a DEF StatusOK
<1>5. QueuesOK'
  BY <1>h, <1>a DEF QueuesOK
<1>6. OnceOK'
  BY <1>h, <1>a DEF OnceOK
<1>7. PlacesOK'
  BY <1>h, <1>d, <1>a, <1>e DEF PlacesOK
<1>8. CountOK'
  BY <1>h, <1>a, <1>e DEF CountOK
<1>9. NoneMissed'
  BY <1>h, <1>a DEF NoneMissed
<1>10. QED
  BY <1>1, <1>2, <1>3, <1>4, <1>5, <1>6, <1>7, <1>8, <1>9 DEF IndInv, TaskInv

(* A send that the buffer has room for. *)
LEMMA SendBufferedOK ==
  ASSUME IndInv, NEW c \in Channels, SendBuffered(c)
  PROVE  IndInv'
<1>h. /\ NumInv /\ WaitsOK /\ TypesOK /\ StatusOK /\ QueuesOK /\ OnceOK /\ PlacesOK /\ CountOK
      /\ NoneMissed
  BY DEF IndInv, TaskInv
<1>d. /\ DOMAIN sends = Channels /\ DOMAIN recvs = Channels /\ DOMAIN wop = Procs
      /\ DOMAIN won = Procs /\ DOMAIN wat = Procs
  BY DEF sends, recvs, wop, won, wat
<1>a. /\ UNCHANGED <<created, latest, senders, receivers, pending, rdyq, cur, status, wait,
                     sync, sched, got>>
      /\ buff' = Put(buff, c, Value(c, <<"buff", c>>)) /\ nsent' = nsent + 1
      /\ nsent < MaxSends
  BY DEF SendBuffered
<1>b. NumInv' /\ buff' \in [Channels -> Seq(Values)]
  BY <1>a, BuffPut
<1>e. UNCHANGED <<wait, ready, sends, recvs, wop, won, wat, woken, npend, nsend>>
  BY <1>a DEF ready, sends, recvs, wop, won, wat, woken, npend, nsend
<1>1. NumInv'
  BY <1>b
<1>2. WaitsOK'
  BY <1>h, <1>e DEF WaitsOK
<1>3. TypesOK'
  BY <1>h, <1>a DEF TypesOK
<1>4. StatusOK'
  BY <1>h, <1>a DEF StatusOK
<1>5. QueuesOK'
  BY <1>h, <1>a, <1>b DEF QueuesOK
<1>6. OnceOK'
  BY <1>h, <1>a DEF OnceOK
<1>7. PlacesOK'
  BY <1>h, <1>d, <1>a, <1>e DEF PlacesOK
<1>8. CountOK'
  BY <1>h, <1>a, <1>e DEF CountOK
<1>9. NoneMissed'
  BY <1>h, <1>a DEF NoneMissed
<1>10. QED
  BY <1>1, <1>2, <1>3, <1>4, <1>5, <1>6, <1>7, <1>8, <1>9 DEF IndInv, TaskInv

(* A recv of a buffered value. *)
LEMMA RecvBufferedOK ==
  ASSUME IndInv, NEW c \in Channels, RecvBuffered(c)
  PROVE  IndInv'
<1>h. /\ NumInv /\ WaitsOK /\ TypesOK /\ StatusOK /\ QueuesOK /\ OnceOK /\ PlacesOK /\ CountOK
      /\ NoneMissed
  BY DEF IndInv, TaskInv
<1>d. /\ DOMAIN sends = Channels /\ DOMAIN recvs = Channels /\ DOMAIN wop = Procs
      /\ DOMAIN won = Procs /\ DOMAIN wat = Procs
  BY DEF sends, recvs, wop, won, wat
<1>a. /\ UNCHANGED <<created, latest, senders, receivers, pending, rdyq, cur, status, wait,
                     sync, sched, nsent>>
      /\ buff[c] # <<>> /\ buff' = Pop(buff, c) /\ Received(c, Head(buff[c]), cur)
      /\ cur \in Procs
  BY <1>h DEF RecvBuffered, Busy, TypesOK
<1>b. NumInv' /\ buff' \in [Channels -> Seq(Values)]
  BY <1>a, BuffPop
<1>e. UNCHANGED <<wait, ready, sends, recvs, wop, won, wat, woken, npend, nsend>>
  BY <1>a DEF ready, sends, recvs, wop, won, wat, woken, npend, nsend
<1>1. NumInv'
  BY <1>b
<1>2. WaitsOK'
  BY <1>h, <1>e DEF WaitsOK
<1>3. TypesOK'
  BY <1>h, <1>a DEF TypesOK
<1>4. StatusOK'
  BY <1>h, <1>a DEF StatusOK
<1>5. QueuesOK'
  BY <1>h, <1>a, <1>b DEF QueuesOK
<1>6. OnceOK'
  BY <1>h, <1>a DEF OnceOK
<1>7. PlacesOK'
  BY <1>h, <1>d, <1>a, <1>e DEF PlacesOK
<1>8. CountOK'
  BY <1>h, <1>a, <1>e DEF CountOK
<1>9. NoneMissed'
  BY <1>h, <1>a DEF NoneMissed
<1>10. QED
  BY <1>1, <1>2, <1>3, <1>4, <1>5, <1>6, <1>7, <1>8, <1>9 DEF IndInv, TaskInv

(* A send that meets a receiver: it is woken, and the value is pending. *)
LEMMA SendMeetsOK ==
  ASSUME IndInv, Busy, NEW c \in created, NEW k, k = latest, NEW h,
         nsent < MaxSends, receivers[k] # <<>>, h = Head(receivers[k]), Ready(h),
         pending' = Put(pending, k, Value(c, <<"pending", k>>)), nsent' = nsent + 1,
         receivers' = Pop(receivers, k),
         UNCHANGED <<senders, cur, wait, created, latest, buff, status, sync, sched, got>>
  PROVE  IndInv'
<1>h. /\ NumInv /\ WaitsOK /\ TypesOK /\ StatusOK /\ QueuesOK /\ OnceOK /\ PlacesOK /\ CountOK
      /\ NoneMissed
  BY DEF IndInv, TaskInv
<1>d. /\ DOMAIN sends = Channels /\ DOMAIN recvs = Channels /\ DOMAIN wop = Procs
      /\ DOMAIN won = Procs /\ DOMAIN wat = Procs
  BY DEF sends, recvs, wop, won, wat
<1>a. /\ k \in Channels /\ c \in Channels /\ sched = "up" /\ cur # None
      /\ OnListOnce(rdyq)
      /\ \A d \in Channels : OnListOnce(senders[d]) /\ OnListOnce(receivers[d])
  BY <1>h DEF TypesOK, Busy, OnceOK
<1>b. /\ NumInv' /\ pending' \in [Channels -> Seq(Values)]
      /\ npend' = [npend EXCEPT ![k] = npend[k] + 1]
  BY <1>a, PendingPut
<1>c. /\ receivers' \in [Channels -> Seq(Procs)] /\ h \in Procs /\ h \in recvs[k]
      /\ \A d \in Channels : d # k => receivers'[d] = receivers[d]
      /\ recvs' = [recvs EXCEPT ![k] = recvs[k] \ {h}]
      /\ \A d \in Channels : OnListOnce(receivers'[d])
  BY <1>h, <1>a, RecvsPop
<1>f. h \notin ready /\ wop[h] = "recv" /\ wat[h] = k /\ status[h] = "alive"
  BY <1>h, <1>a, <1>c DEF PlacesOK
<1>g. rdyq' \in Seq(Procs) /\ ready' = ready \cup {h} /\ OnListOnce(rdyq')
  BY <1>h, <1>a, <1>c, <1>f, ReadyPut
<1>e. UNCHANGED <<sends, wop, won, wat, nsend>>
  BY DEF sends, wop, won, wat, nsend
<1>w. woken' = [woken EXCEPT ![k] = woken[k] \cup {h}] /\ h \notin woken[k]
  BY <1>a, <1>c, <1>e, <1>f, <1>g, WokenMore
<1>1. NumInv'
  BY <1>b
<1>2. WaitsOK'
  BY <1>h, <1>e DEF WaitsOK
<1>3. TypesOK'
  BY <1>h DEF TypesOK
<1>4. StatusOK'
  BY <1>h DEF StatusOK
<1>5. QueuesOK'
  BY <1>h, <1>b, <1>c, <1>g DEF QueuesOK
<1>6. OnceOK'
  BY <1>a, <1>c, <1>g DEF OnceOK
<1>7. PlacesOK'
  <2>1. \A p \in Procs : status[p] = "unborn" => wop[p] = "none"
    BY <1>h, <1>a DEF PlacesOK
  <2>2. cur # h
    BY <1>h, <1>a, <1>f DEF PlacesOK
  <2>3. \A d \in Channels : \A p \in sends[d] : p # h
    BY <1>h, <1>a, <1>f DEF PlacesOK
  <2>4. \A d \in Channels : recvs'[d] \subseteq recvs[d] /\ h \notin recvs'[d]
    BY <1>h, <1>d, <1>a, <1>c, <1>f DEF PlacesOK
  <2>5. QED
    BY <1>h, <1>a, <1>e, <1>f, <1>g, <2>1, <2>2, <2>3, <2>4 DEF PlacesOK
<1>8. CountOK'
  BY <1>h, <1>a, <1>b, <1>e, <1>w, CountMore
<1>9. NoneMissed'
  <2>1. senders[k] = <<>>
    BY <1>h, <1>a DEF NoneMissed
  <2>2. QED
    BY <1>h, <1>c, <2>1 DEF NoneMissed
<1>10. QED
  BY <1>1, <1>2, <1>3, <1>4, <1>5, <1>6, <1>7, <1>8, <1>9 DEF IndInv, TaskInv

(* A send that waits for a receiver. *)
LEMMA SendWaitsOK ==
  ASSUME IndInv, Busy, NEW c \in created, NEW k, k = latest, NEW p, p = cur,
         nsent < MaxSends, receivers[k] = <<>>, senders' = Put(senders, k, p),
         pending' = Put(pending, k, Value(c, <<"pending", k>>)), nsent' = nsent + 1,
         Suspend("send", c),
         UNCHANGED <<receivers, rdyq, created, latest, buff, status, sync, sched, got>>
  PROVE  IndInv'
<1>h. /\ NumInv /\ WaitsOK /\ TypesOK /\ StatusOK /\ QueuesOK /\ OnceOK /\ PlacesOK /\ CountOK
      /\ NoneMissed
  BY DEF IndInv, TaskInv
<1>d. /\ DOMAIN sends = Channels /\ DOMAIN recvs = Channels /\ DOMAIN wop = Procs
      /\ DOMAIN won = Procs /\ DOMAIN wat = Procs
  BY DEF sends, recvs, wop, won, wat
<1>a. /\ k \in Channels /\ c \in Channels /\ sched = "up" /\ p \in Procs
      /\ OnListOnce(rdyq)
      /\ \A d \in Channels : OnListOnce(senders[d]) /\ OnListOnce(receivers[d])
  BY <1>h DEF TypesOK, Busy, OnceOK
<1>b. /\ NumInv' /\ pending' \in [Channels -> Seq(Values)]
      /\ npend' = [npend EXCEPT ![k] = npend[k] + 1]
  BY <1>a, PendingPut
<1>f. /\ p \notin ready /\ wop[p] = "none" /\ status[p] = "alive"
      /\ \A d \in Channels : p \notin sends[d] /\ p \notin recvs[d]
  BY <1>h, <1>a DEF PlacesOK, Busy
<1>c. /\ senders' \in [Channels -> Seq(Procs)]
      /\ \A d \in Channels : d # k => senders'[d] = senders[d]
      /\ sends' = [sends EXCEPT ![k] = sends[k] \cup {p}]
      /\ nsend' = [nsend EXCEPT ![k] = nsend[k] + 1]
      /\ \A d \in Channels : OnListOnce(senders'[d])
  BY <1>h, <1>a, <1>f, SendsPut
<1>g. /\ WaitsOK' /\ cur' = None /\ wop' = [wop EXCEPT ![p] = "send"]
      /\ wat' = [wat EXCEPT ![p] = k]
  <2>1. PICK op : op = "send"
    OBVIOUS
  <2>2. WaitsOK /\ p \in Procs /\ c \in Channels /\ k \in Channels /\ Suspend(op, c)
    BY <1>h, <1>a, <2>1
  <2>3. Waiting(p, op, k)
    BY <2>1, <2>2, WaitFor
  <2>4. QED
    BY <2>1, <2>3 DEF Waiting
<1>e. UNCHANGED <<ready, recvs>>
  BY DEF ready, recvs
<1>w. woken' = woken
  BY <1>d, <1>e, <1>f, <1>g, WokenSame
<1>1. NumInv'
  BY <1>b
<1>2. WaitsOK'
  BY <1>g
<1>3. TypesOK'
  BY <1>h, <1>g DEF TypesOK
<1>4. StatusOK'
  BY <1>h DEF StatusOK
<1>5. QueuesOK'
  BY <1>h, <1>b, <1>c DEF QueuesOK
<1>6. OnceOK'
  BY <1>a, <1>c DEF OnceOK
<1>7. PlacesOK'
  <2>1. \A q \in Procs : q # p => wop'[q] = wop[q] /\ wat'[q] = wat[q]
    BY <1>d, <1>g
  <2>2. wop'[p] = "send" /\ wat'[p] = k
    BY <1>d, <1>a, <1>g
  <2>3. \A d \in Channels : \A q \in sends'[d] : (q = p /\ d = k) \/ (q \in sends[d] /\ q # p)
    BY <1>d, <1>a, <1>c, <1>f
  <2>4. \A d \in Channels : sends[d] \subseteq Procs /\ recvs[d] \subseteq Procs
    BY DEF sends, recvs
  <2>5. QED
    BY <1>h, <1>a, <1>e, <1>f, <1>g, <2>1, <2>2, <2>3, <2>4 DEF PlacesOK
<1>8. CountOK'
  BY <1>h, <1>a, <1>b, <1>c, <1>w, CountSend
<1>9. NoneMissed'
  BY <1>h, <1>c DEF NoneMissed
<1>10. QED
  BY <1>1, <1>2, <1>3, <1>4, <1>5, <1>6, <1>7, <1>8, <1>9 DEF IndInv, TaskInv

(* A recv that meets a sender: it takes the value and the sender is ready. *)
LEMMA RecvMeetsOK ==
  ASSUME IndInv, Busy, NEW c \in created, NEW k, k = latest, NEW h,
         senders[k] # <<>>, h = Head(senders[k]), Ready(h), senders' = Pop(senders, k),
         pending' = Pop(pending, k), Received(c, Head(pending[k]), cur),
         UNCHANGED <<receivers, cur, wait, created, latest, buff, status, sync, sched, nsent>>
  PROVE  IndInv'
<1>h. /\ NumInv /\ WaitsOK /\ TypesOK /\ StatusOK /\ QueuesOK /\ OnceOK /\ PlacesOK /\ CountOK
      /\ NoneMissed
  BY DEF IndInv, TaskInv
<1>d. /\ DOMAIN sends = Channels /\ DOMAIN recvs = Channels /\ DOMAIN wop = Procs
      /\ DOMAIN won = Procs /\ DOMAIN wat = Procs
  BY DEF sends, recvs, wop, won, wat
<1>a. /\ k \in Channels /\ c \in Channels /\ sched = "up" /\ cur \in Procs /\ cur # None
      /\ OnListOnce(rdyq)
      /\ \A d \in Channels : OnListOnce(senders[d]) /\ OnListOnce(receivers[d])
  BY <1>h DEF TypesOK, Busy, OnceOK
<1>p. pending[k] # <<>> /\ pending' = [pending EXCEPT ![k] = Tail(pending[k])]
  BY <1>h, <1>a, ValueThere DEF Pop
<1>b. /\ NumInv' /\ pending' \in [Channels -> Seq(Values)]
      /\ npend[k] \in Nat \ {0} /\ npend' = [npend EXCEPT ![k] = npend[k] - 1]
  BY <1>a, <1>p, PendingPop
<1>c. /\ senders' \in [Channels -> Seq(Procs)] /\ h \in Procs /\ h \in sends[k]
      /\ \A d \in Channels : d # k => senders'[d] = senders[d]
      /\ sends' = [sends EXCEPT ![k] = sends[k] \ {h}]
      /\ nsend[k] \in Nat \ {0} /\ nsend' = [nsend EXCEPT ![k] = nsend[k] - 1]
      /\ \A d \in Channels : OnListOnce(senders'[d])
  BY <1>h, <1>a, SendsPop
<1>f. h \notin ready /\ wop[h] = "send" /\ wat[h] = k /\ status[h] = "alive"
  BY <1>h, <1>a, <1>c DEF PlacesOK
<1>g. rdyq' \in Seq(Procs) /\ ready' = ready \cup {h} /\ OnListOnce(rdyq')
  BY <1>h, <1>a, <1>c, <1>f, ReadyPut
<1>e. UNCHANGED <<recvs, wop, won, wat>>
  BY DEF recvs, wop, won, wat
<1>w. woken' = woken
  BY <1>e, <1>f, <1>g, WokenSame
<1>1. NumInv'
  BY <1>b
<1>2. WaitsOK'
  BY <1>h, <1>e DEF WaitsOK
<1>3. TypesOK'
  BY <1>h DEF TypesOK
<1>4. StatusOK'
  BY <1>h DEF StatusOK
<1>5. QueuesOK'
  BY <1>h, <1>b, <1>c, <1>g DEF QueuesOK
<1>6. OnceOK'
  BY <1>a, <1>c, <1>g DEF OnceOK
<1>7. PlacesOK'
  <2>1. \A p \in Procs : status[p] = "unborn" => wop[p] = "none"
    BY <1>h, <1>a DEF PlacesOK
  <2>2. cur # h
    BY <1>h, <1>a, <1>f DEF PlacesOK
  <2>3. \A d \in Channels : \A p \in recvs[d] : p # h
    BY <1>h, <1>a, <1>f DEF PlacesOK
  <2>4. \A d \in Channels : sends'[d] \subseteq sends[d] /\ h \notin sends'[d]
    BY <1>h, <1>d, <1>a, <1>c, <1>f DEF PlacesOK
  <2>5. QED
    BY <1>h, <1>a, <1>e, <1>f, <1>g, <2>1, <2>2, <2>3, <2>4 DEF PlacesOK
<1>8. CountOK'
  BY <1>h, <1>a, <1>b, <1>c, <1>w, CountTake
<1>9. NoneMissed'
  <2>1. receivers[k] = <<>>
    BY <1>h, <1>a DEF NoneMissed
  <2>2. QED
    BY <1>h, <1>c, <2>1 DEF NoneMissed
<1>10. QED
  BY <1>1, <1>2, <1>3, <1>4, <1>5, <1>6, <1>7, <1>8, <1>9 DEF IndInv, TaskInv

(* A recv that waits for a sender. *)
LEMMA RecvWaitsOK ==
  ASSUME IndInv, Busy, NEW c \in created, NEW k, k = latest, NEW p, p = cur,
         senders[k] = <<>>, receivers' = Put(receivers, k, p), Suspend("recv", c),
         UNCHANGED <<senders, pending, rdyq, got, created, latest, buff, status, sync, sched,
                     nsent>>
  PROVE  IndInv'
<1>h. /\ NumInv /\ WaitsOK /\ TypesOK /\ StatusOK /\ QueuesOK /\ OnceOK /\ PlacesOK /\ CountOK
      /\ NoneMissed
  BY DEF IndInv, TaskInv
<1>d. /\ DOMAIN sends = Channels /\ DOMAIN recvs = Channels /\ DOMAIN wop = Procs
      /\ DOMAIN won = Procs /\ DOMAIN wat = Procs
  BY DEF sends, recvs, wop, won, wat
<1>a. /\ k \in Channels /\ c \in Channels /\ sched = "up" /\ p \in Procs
      /\ OnListOnce(rdyq)
      /\ \A d \in Channels : OnListOnce(senders[d]) /\ OnListOnce(receivers[d])
  BY <1>h DEF TypesOK, Busy, OnceOK
<1>f. /\ p \notin ready /\ wop[p] = "none" /\ status[p] = "alive"
      /\ \A d \in Channels : p \notin sends[d] /\ p \notin recvs[d]
  BY <1>h, <1>a DEF PlacesOK, Busy
<1>c. /\ receivers' \in [Channels -> Seq(Procs)]
      /\ \A d \in Channels : d # k => receivers'[d] = receivers[d]
      /\ recvs' = [recvs EXCEPT ![k] = recvs[k] \cup {p}]
      /\ \A d \in Channels : OnListOnce(receivers'[d])
  BY <1>h, <1>a, <1>f, RecvsPut
<1>g. /\ WaitsOK' /\ cur' = None /\ wop' = [wop EXCEPT ![p] = "recv"]
      /\ wat' = [wat EXCEPT ![p] = k]
  <2>1. PICK op : op = "recv"
    OBVIOUS
  <2>2. WaitsOK /\ p \in Procs /\ c \in Channels /\ k \in Channels /\ Suspend(op, c)
    BY <1>h, <1>a, <2>1
  <2>3. Waiting(p, op, k)
    BY <2>1, <2>2, WaitFor
  <2>4. QED
    BY <2>1, <2>3 DEF Waiting
<1>e. UNCHANGED <<ready, sends, npend, nsend>>
  BY DEF ready, sends, npend, nsend
<1>w. woken' = woken
  BY <1>d, <1>e, <1>f, <1>g, WokenSame
<1>1. NumInv'
  BY <1>h, SameValues
<1>2. WaitsOK'
  BY <1>g
<1>3. TypesOK'
  BY <1>h, <1>g DEF TypesOK
<1>4. StatusOK'
  BY <1>h DEF StatusOK
<1>5. QueuesOK'
  BY <1>h, <1>c DEF QueuesOK
<1>6. OnceOK'
  BY <1>a, <1>c DEF OnceOK
<1>7. PlacesOK'
  <2>1. \A q \in Procs : q # p => wop'[q] = wop[q] /\ wat'[q] = wat[q]
    BY <1>d, <1>g
  <2>2. wop'[p] = "recv" /\ wat'[p] = k
    BY <1>d, <1>a, <1>g
  <2>3. \A d \in Channels : \A q \in recvs'[d] : (q = p /\ d = k) \/ (q \in recvs[d] /\ q # p)
    BY <1>d, <1>a, <1>c, <1>f
  <2>4. \A d \in Channels : sends[d] \subseteq Procs /\ recvs[d] \subseteq Procs
    BY DEF sends, recvs
  <2>5. QED
    BY <1>h, <1>a, <1>e, <1>f, <1>g, <2>1, <2>2, <2>3, <2>4 DEF PlacesOK
<1>8. CountOK'
  BY <1>h, <1>e, <1>w DEF CountOK
<1>9. NoneMissed'
  BY <1>h, <1>c DEF NoneMissed
<1>10. QED
  BY <1>1, <1>2, <1>3, <1>4, <1>5, <1>6, <1>7, <1>8, <1>9 DEF IndInv, TaskInv

(* The scheduler resumes a receiver: the value it was woken for is there. *)
LEMMA ResumeReceiverOK ==
  ASSUME IndInv, sched = "up", cur = None, NEW i \in 1..Len(rdyq), NEW p, p = rdyq[i], NEW k, NEW c,
         wop[p] = "recv", k = wat[p], c = won[p], cur' = p,
         wait' = [wait EXCEPT ![p] = NoWait],
         pending' = [pending EXCEPT ![k] = IF @ = <<>> THEN @ ELSE Tail(@)],
         Received(c, IF pending[k] = <<>> THEN None ELSE Head(pending[k]), p),
         rdyq' = Without(rdyq, i),
         UNCHANGED <<created, latest, senders, receivers, buff, status, sync, sched, nsent>>
  PROVE  IndInv'
<1>h. /\ NumInv /\ WaitsOK /\ TypesOK /\ StatusOK /\ QueuesOK /\ OnceOK /\ PlacesOK /\ CountOK
      /\ NoneMissed
  BY DEF IndInv, TaskInv
<1>d. /\ DOMAIN sends = Channels /\ DOMAIN recvs = Channels /\ DOMAIN wop = Procs
      /\ DOMAIN won = Procs /\ DOMAIN wat = Procs
  BY DEF sends, recvs, wop, won, wat
<1>a. /\ OnListOnce(rdyq)
      /\ \A d \in Channels : OnListOnce(senders[d]) /\ OnListOnce(receivers[d])
  BY <1>h DEF OnceOK
<1>g. /\ rdyq' \in Seq(Procs) /\ p \in ready /\ p \in Procs
      /\ ready' = ready \ {p} /\ OnListOnce(rdyq')
  BY <1>h, <1>a, ReadyPop
<1>k. k \in Channels /\ c \in Channels
  BY <1>h, <1>g DEF WaitsOK
<1>f. /\ WaitsOK' /\ wop' = [wop EXCEPT ![p] = "none"] /\ wat' = [wat EXCEPT ![p] = None]
  BY <1>h, <1>g, WaitClear
<1>w. woken' = [woken EXCEPT ![k] = woken[k] \ {p}] /\ p \in woken[k]
  BY <1>g, <1>k, <1>f, WokenLess
<1>p. pending[k] # <<>>
  BY <1>h, <1>k, <1>w, ValueThere
<1>q. pending' = [pending EXCEPT ![k] = Tail(pending[k])] /\ Received(c, Head(pending[k]), p)
  BY <1>p
<1>b. /\ NumInv' /\ pending' \in [Channels -> Seq(Values)]
      /\ npend[k] \in Nat \ {0} /\ npend' = [npend EXCEPT ![k] = npend[k] - 1]
  BY <1>g, <1>k, <1>p, <1>q, PendingPop
<1>e. UNCHANGED <<sends, recvs, nsend>>
  BY DEF sends, recvs, nsend
<1>1. NumInv'
  BY <1>b
<1>2. WaitsOK'
  BY <1>f
<1>3. TypesOK'
  BY <1>h, <1>g DEF TypesOK
<1>4. StatusOK'
  BY <1>h DEF StatusOK
<1>5. QueuesOK'
  BY <1>h, <1>b, <1>g DEF QueuesOK
<1>6. OnceOK'
  BY <1>a, <1>g DEF OnceOK
<1>7. PlacesOK'
  <2>1. \A q \in Procs : q # p => wop'[q] = wop[q] /\ wat'[q] = wat[q]
    BY <1>d, <1>f
  <2>2. wop'[p] = "none" /\ p \notin ready' /\ status[p] = "alive"
    BY <1>h, <1>d, <1>f, <1>g DEF PlacesOK
  <2>3. /\ ready \subseteq Procs
        /\ \A d \in Channels : /\ sends[d] \subseteq Procs /\ recvs[d] \subseteq Procs
                               /\ p \notin sends[d] /\ p \notin recvs[d]
    BY <1>h, <1>g DEF ready, sends, recvs, PlacesOK
  <2>4. QED
    BY <1>h, <1>e, <1>g, <2>1, <2>2, <2>3 DEF PlacesOK
<1>8. CountOK'
  BY <1>h, <1>k, <1>b, <1>e, <1>w, CountLess
<1>9. NoneMissed'
  BY <1>h DEF NoneMissed
<1>10. QED
  BY <1>1, <1>2, <1>3, <1>4, <1>5, <1>6, <1>7, <1>8, <1>9 DEF IndInv, TaskInv

(* The scheduler resumes any other task. *)
LEMMA ResumeOtherOK ==
  ASSUME IndInv, sched = "up", cur = None, NEW i \in 1..Len(rdyq), NEW p, p = rdyq[i],
         wop[p] # "recv", cur' = p, wait' = [wait EXCEPT ![p] = NoWait],
         rdyq' = Without(rdyq, i), UNCHANGED <<pending, got>>,
         UNCHANGED <<created, latest, senders, receivers, buff, status, sync, sched, nsent>>
  PROVE  IndInv'
<1>h. /\ NumInv /\ WaitsOK /\ TypesOK /\ StatusOK /\ QueuesOK /\ OnceOK /\ PlacesOK /\ CountOK
      /\ NoneMissed
  BY DEF IndInv, TaskInv
<1>d. /\ DOMAIN sends = Channels /\ DOMAIN recvs = Channels /\ DOMAIN wop = Procs
      /\ DOMAIN won = Procs /\ DOMAIN wat = Procs
  BY DEF sends, recvs, wop, won, wat
<1>a. /\ OnListOnce(rdyq)
      /\ \A d \in Channels : OnListOnce(senders[d]) /\ OnListOnce(receivers[d])
  BY <1>h DEF OnceOK
<1>g. /\ rdyq' \in Seq(Procs) /\ p \in ready /\ p \in Procs
      /\ ready' = ready \ {p} /\ OnListOnce(rdyq')
  BY <1>h, <1>a, ReadyPop
<1>f. /\ WaitsOK' /\ wop' = [wop EXCEPT ![p] = "none"] /\ wat' = [wat EXCEPT ![p] = None]
  BY <1>h, <1>g, WaitClear
<1>w. woken' = woken
  BY <1>d, <1>f, <1>g, WokenSame
<1>e. UNCHANGED <<sends, recvs, nsend, npend>>
  BY DEF sends, recvs, nsend, npend
<1>1. NumInv'
  BY <1>h, SameValues
<1>2. WaitsOK'
  BY <1>f
<1>3. TypesOK'
  BY <1>h, <1>g DEF TypesOK
<1>4. StatusOK'
  BY <1>h DEF StatusOK
<1>5. QueuesOK'
  BY <1>h, <1>g DEF QueuesOK
<1>6. OnceOK'
  BY <1>a, <1>g DEF OnceOK
<1>7. PlacesOK'
  <2>1. \A q \in Procs : q # p => wop'[q] = wop[q] /\ wat'[q] = wat[q]
    BY <1>d, <1>f
  <2>2. wop'[p] = "none" /\ p \notin ready' /\ status[p] = "alive"
    BY <1>h, <1>d, <1>f, <1>g DEF PlacesOK
  <2>3. /\ ready \subseteq Procs
        /\ \A d \in Channels : /\ sends[d] \subseteq Procs /\ recvs[d] \subseteq Procs
                               /\ p \notin sends[d] /\ p \notin recvs[d]
    BY <1>h, <1>g DEF ready, sends, recvs, PlacesOK
  <2>4. QED
    BY <1>h, <1>e, <1>g, <2>1, <2>2, <2>3 DEF PlacesOK
<1>8. CountOK'
  BY <1>h, <1>e, <1>w DEF CountOK
<1>9. NoneMissed'
  BY <1>h DEF NoneMissed
<1>10. QED
  BY <1>1, <1>2, <1>3, <1>4, <1>5, <1>6, <1>7, <1>8, <1>9 DEF IndInv, TaskInv

(* A task that makes a system call. *)
LEMMA YieldOK ==
  ASSUME IndInv, Yield
  PROVE  IndInv'
<1>h. /\ NumInv /\ WaitsOK /\ TypesOK /\ StatusOK /\ QueuesOK /\ OnceOK /\ PlacesOK /\ CountOK
      /\ NoneMissed
  BY DEF IndInv, TaskInv
<1>d. /\ DOMAIN sends = Channels /\ DOMAIN recvs = Channels /\ DOMAIN wop = Procs
      /\ DOMAIN won = Procs /\ DOMAIN wat = Procs
  BY DEF sends, recvs, wop, won, wat
<1>a. /\ sched = "up" /\ cur \in Procs /\ Ready(cur) /\ cur' = None
      /\ UNCHANGED <<created, latest, lists, status, wait, sync, sched, nsent, got>>
      /\ UNCHANGED <<senders, receivers, pending, buff>>
      /\ OnListOnce(rdyq)
      /\ \A d \in Channels : OnListOnce(senders[d]) /\ OnListOnce(receivers[d])
  BY <1>h DEF Yield, lists, TypesOK, Busy, OnceOK
<1>f. /\ cur \notin ready /\ wop[cur] = "none" /\ status[cur] = "alive"
      /\ \A d \in Channels : cur \notin sends[d] /\ cur \notin recvs[d]
  BY <1>h, <1>a, NoneApart DEF PlacesOK
<1>g. rdyq' \in Seq(Procs) /\ ready' = ready \cup {cur} /\ OnListOnce(rdyq')
  BY <1>h, <1>a, <1>f, ReadyPut
<1>e. UNCHANGED <<sends, recvs, wop, won, wat, npend, nsend>>
  BY <1>a DEF sends, recvs, wop, won, wat, npend, nsend
<1>w. woken' = woken
  BY <1>e, <1>f, <1>g, WokenSame
<1>1. NumInv'
  BY <1>h, <1>a, SameValues
<1>2. WaitsOK'
  BY <1>h, <1>a, <1>e DEF WaitsOK
<1>3. TypesOK'
  BY <1>h, <1>a DEF TypesOK
<1>4. StatusOK'
  BY <1>h, <1>a DEF StatusOK
<1>5. QueuesOK'
  BY <1>h, <1>a, <1>g DEF QueuesOK
<1>6. OnceOK'
  BY <1>a, <1>g DEF OnceOK
<1>7. PlacesOK'
  BY <1>h, <1>a, <1>e, <1>f, <1>g DEF PlacesOK
<1>8. CountOK'
  BY <1>h, <1>a, <1>e, <1>w DEF CountOK
<1>9. NoneMissed'
  BY <1>h, <1>a DEF NoneMissed
<1>10. QED
  BY <1>1, <1>2, <1>3, <1>4, <1>5, <1>6, <1>7, <1>8, <1>9 DEF IndInv, TaskInv

(* A task is made. *)
LEMMA SpawnOK ==
  ASSUME IndInv, NEW p \in Procs, NEW c \in Channels \cup {None}, spawn(p, c)
  PROVE  IndInv'
<1>h. /\ NumInv /\ WaitsOK /\ TypesOK /\ StatusOK /\ QueuesOK /\ OnceOK /\ PlacesOK /\ CountOK
      /\ NoneMissed
  BY DEF IndInv, TaskInv
<1>d. /\ DOMAIN sends = Channels /\ DOMAIN recvs = Channels /\ DOMAIN wop = Procs
      /\ DOMAIN won = Procs /\ DOMAIN wat = Procs
  BY DEF sends, recvs, wop, won, wat
<1>a. /\ sched = "up" /\ cur \in Procs /\ cur # None /\ Ready(p) /\ status[p] = "unborn"
      /\ c \in created \cup {None}
      /\ UNCHANGED <<created, latest, lists, cur, wait, sched, nsent, got>>
      /\ UNCHANGED <<senders, receivers, pending, buff>>
      /\ status' = [status EXCEPT ![p] = "alive"] /\ sync' = [sync EXCEPT ![p] = c]
      /\ OnListOnce(rdyq)
      /\ \A d \in Channels : OnListOnce(senders[d]) /\ OnListOnce(receivers[d])
  BY <1>h DEF spawn, lists, TypesOK, Busy, OnceOK
<1>f. /\ p \notin ready /\ wop[p] = "none" /\ p # cur
      /\ \A d \in Channels : p \notin sends[d] /\ p \notin recvs[d]
  BY <1>h, <1>a DEF PlacesOK
<1>g. rdyq' \in Seq(Procs) /\ ready' = ready \cup {p} /\ OnListOnce(rdyq')
  BY <1>h, <1>a, <1>f, ReadyPut
<1>e. UNCHANGED <<sends, recvs, wop, won, wat, npend, nsend>>
  BY <1>a DEF sends, recvs, wop, won, wat, npend, nsend
<1>w. woken' = woken
  BY <1>e, <1>f, <1>g, WokenSame
<1>s. /\ status'[p] = "alive" /\ \A q \in Procs : q # p => status'[q] = status[q]
      /\ ready \subseteq Procs /\ \A d \in Channels : sends[d] \subseteq Procs /\ recvs[d] \subseteq Procs
  BY <1>h, <1>a DEF StatusOK, ready, sends, recvs
<1>1. NumInv'
  BY <1>h, <1>a, SameValues
<1>2. WaitsOK'
  BY <1>h, <1>a, <1>e DEF WaitsOK
<1>3. TypesOK'
  BY <1>h, <1>a DEF TypesOK
<1>4. StatusOK'
  BY <1>h, <1>a DEF StatusOK
<1>5. QueuesOK'
  BY <1>h, <1>a, <1>g DEF QueuesOK
<1>6. OnceOK'
  BY <1>a, <1>g DEF OnceOK
<1>7. PlacesOK'
  BY <1>h, <1>a, <1>e, <1>f, <1>g, <1>s DEF PlacesOK
<1>8. CountOK'
  BY <1>h, <1>a, <1>e, <1>w DEF CountOK
<1>9. NoneMissed'
  BY <1>h, <1>a DEF NoneMissed
<1>10. QED
  BY <1>1, <1>2, <1>3, <1>4, <1>5, <1>6, <1>7, <1>8, <1>9 DEF IndInv, TaskInv

(* A task ends that has no sync channel. *)
LEMMA ExitQuietOK ==
  ASSUME IndInv, NEW p, p = cur, Busy, status' = [status EXCEPT ![p] = "dead"], cur' = None,
         sched' = IF cur = Boot THEN "stopped" ELSE sched,
         UNCHANGED <<senders, receivers, pending, buff, rdyq, nsent, created, latest, wait, sync,
                     got>>
  PROVE  IndInv'
<1>h. /\ NumInv /\ WaitsOK /\ TypesOK /\ StatusOK /\ QueuesOK /\ OnceOK /\ PlacesOK /\ CountOK
      /\ NoneMissed
  BY DEF IndInv, TaskInv
<1>d. /\ DOMAIN sends = Channels /\ DOMAIN recvs = Channels /\ DOMAIN wop = Procs
      /\ DOMAIN won = Procs /\ DOMAIN wat = Procs
  BY DEF sends, recvs, wop, won, wat
<1>a. /\ sched = "up" /\ p \in Procs /\ cur # None /\ OnListOnce(rdyq)
      /\ \A d \in Channels : OnListOnce(senders[d]) /\ OnListOnce(receivers[d])
  BY <1>h DEF TypesOK, Busy, OnceOK
<1>s. /\ \A q \in Procs : q # p => status'[q] = status[q]
      /\ status'[p] = "dead" /\ status' \in [Procs -> {"unborn", "alive", "dead"}]
      /\ ready \subseteq Procs /\ \A d \in Channels : sends[d] \subseteq Procs /\ recvs[d] \subseteq Procs
  BY <1>h, <1>a DEF StatusOK, ready, sends, recvs
<1>f. /\ p \notin ready /\ wop[p] = "none" /\ status[p] = "alive"
      /\ \A d \in Channels : p \notin sends[d] /\ p \notin recvs[d]
  BY <1>h, <1>a DEF PlacesOK

<1>e. UNCHANGED <<ready, sends, recvs, wop, won, wat, woken, npend, nsend>>
  BY DEF ready, sends, recvs, wop, won, wat, woken, npend, nsend
<1>1. NumInv'
  BY <1>h, SameValues
<1>2. WaitsOK'
  BY <1>h, <1>e DEF WaitsOK
<1>3. TypesOK'
  BY <1>h, <1>a DEF TypesOK
<1>4. StatusOK'
  BY <1>s DEF StatusOK
<1>5. QueuesOK'
  BY <1>h DEF QueuesOK
<1>6. OnceOK'
  BY <1>a DEF OnceOK
<1>7. PlacesOK'
  BY <1>h, <1>a, <1>e, <1>f, <1>s DEF PlacesOK
<1>8. CountOK'
  BY <1>h, <1>a, <1>e DEF CountOK
<1>9. NoneMissed'
  BY <1>h DEF NoneMissed
<1>10. QED
  BY <1>1, <1>2, <1>3, <1>4, <1>5, <1>6, <1>7, <1>8, <1>9 DEF IndInv, TaskInv

(* The scheduler reports the end of a task in a buffer with room. *)
LEMMA ExitBufferedOK ==
  ASSUME IndInv, NEW p, p = cur, Busy, status' = [status EXCEPT ![p] = "dead"], cur' = None,
         NEW c \in Channels, nsent < MaxSends, nsent' = nsent + 1,
         buff' = Put(buff, c, Value(c, <<"buff", c>>)),
         sched' = IF cur = Boot THEN "stopped" ELSE sched,
         UNCHANGED <<senders, receivers, pending, rdyq, created, latest, wait, sync, got>>
  PROVE  IndInv'
<1>h. /\ NumInv /\ WaitsOK /\ TypesOK /\ StatusOK /\ QueuesOK /\ OnceOK /\ PlacesOK /\ CountOK
      /\ NoneMissed
  BY DEF IndInv, TaskInv
<1>d. /\ DOMAIN sends = Channels /\ DOMAIN recvs = Channels /\ DOMAIN wop = Procs
      /\ DOMAIN won = Procs /\ DOMAIN wat = Procs
  BY DEF sends, recvs, wop, won, wat
<1>a. /\ sched = "up" /\ p \in Procs /\ cur # None /\ OnListOnce(rdyq)
      /\ \A d \in Channels : OnListOnce(senders[d]) /\ OnListOnce(receivers[d])
  BY <1>h DEF TypesOK, Busy, OnceOK
<1>s. /\ \A q \in Procs : q # p => status'[q] = status[q]
      /\ status'[p] = "dead" /\ status' \in [Procs -> {"unborn", "alive", "dead"}]
      /\ ready \subseteq Procs /\ \A d \in Channels : sends[d] \subseteq Procs /\ recvs[d] \subseteq Procs
  BY <1>h, <1>a DEF StatusOK, ready, sends, recvs
<1>f. /\ p \notin ready /\ wop[p] = "none" /\ status[p] = "alive"
      /\ \A d \in Channels : p \notin sends[d] /\ p \notin recvs[d]
  BY <1>h, <1>a DEF PlacesOK

<1>e. UNCHANGED <<ready, sends, recvs, wop, won, wat, woken, npend, nsend>>
  BY DEF ready, sends, recvs, wop, won, wat, woken, npend, nsend

<1>b. NumInv' /\ buff' \in [Channels -> Seq(Values)]
  BY BuffPut
<1>1. NumInv'
  BY <1>b
<1>2. WaitsOK'
  BY <1>h, <1>e DEF WaitsOK
<1>3. TypesOK'
  BY <1>h, <1>a DEF TypesOK
<1>4. StatusOK'
  BY <1>s DEF StatusOK
<1>5. QueuesOK'
  BY <1>h, <1>b DEF QueuesOK
<1>6. OnceOK'
  BY <1>a DEF OnceOK
<1>7. PlacesOK'
  BY <1>h, <1>a, <1>e, <1>f, <1>s DEF PlacesOK
<1>8. CountOK'
  BY <1>h, <1>a, <1>e DEF CountOK
<1>9. NoneMissed'
  BY <1>h DEF NoneMissed
<1>10. QED
  BY <1>1, <1>2, <1>3, <1>4, <1>5, <1>6, <1>7, <1>8, <1>9 DEF IndInv, TaskInv

(* The report of a task's end meets a receiver. *)
LEMMA ExitMeetsOK ==
  ASSUME IndInv, NEW p, p = cur, Busy, status' = [status EXCEPT ![p] = "dead"], cur' = None,
         NEW c \in created, NEW k, k = latest, NEW h,
         nsent < MaxSends, receivers[k] # <<>>, h = Head(receivers[k]), Ready(h),
         pending' = Put(pending, k, Value(c, <<"pending", k>>)), nsent' = nsent + 1,
         receivers' = Pop(receivers, k),
         sched' = IF cur = Boot THEN "stopped" ELSE sched,
         UNCHANGED <<senders, wait, created, latest, buff, sync, got>>
  PROVE  IndInv'
<1>h. /\ NumInv /\ WaitsOK /\ TypesOK /\ StatusOK /\ QueuesOK /\ OnceOK /\ PlacesOK /\ CountOK
      /\ NoneMissed
  BY DEF IndInv, TaskInv
<1>d. /\ DOMAIN sends = Channels /\ DOMAIN recvs = Channels /\ DOMAIN wop = Procs
      /\ DOMAIN won = Procs /\ DOMAIN wat = Procs
  BY DEF sends, recvs, wop, won, wat
<1>a. /\ sched = "up" /\ p \in Procs /\ cur # None /\ OnListOnce(rdyq)
      /\ \A d \in Channels : OnListOnce(senders[d]) /\ OnListOnce(receivers[d])
  BY <1>h DEF TypesOK, Busy, OnceOK
<1>s. /\ \A q \in Procs : q # p => status'[q] = status[q]
      /\ status'[p] = "dead" /\ status' \in [Procs -> {"unborn", "alive", "dead"}]
      /\ ready \subseteq Procs /\ \A d \in Channels : sends[d] \subseteq Procs /\ recvs[d] \subseteq Procs
  BY <1>h, <1>a DEF StatusOK, ready, sends, recvs
<1>f. /\ p \notin ready /\ wop[p] = "none" /\ status[p] = "alive"
      /\ \A d \in Channels : p \notin sends[d] /\ p \notin recvs[d]
  BY <1>h, <1>a DEF PlacesOK

<1>k. k \in Channels /\ c \in Channels
  BY <1>h DEF TypesOK
<1>b. /\ NumInv' /\ pending' \in [Channels -> Seq(Values)]
      /\ npend' = [npend EXCEPT ![k] = npend[k] + 1]
  BY <1>k, PendingPut
<1>c. /\ receivers' \in [Channels -> Seq(Procs)] /\ h \in Procs /\ h \in recvs[k]
      /\ \A d \in Channels : d # k => receivers'[d] = receivers[d]
      /\ recvs' = [recvs EXCEPT ![k] = recvs[k] \ {h}]
      /\ \A d \in Channels : OnListOnce(receivers'[d])
  BY <1>h, <1>a, <1>k, RecvsPop
<1>i. h \notin ready /\ wop[h] = "recv" /\ wat[h] = k /\ status[h] = "alive" /\ h # p
  BY <1>h, <1>a, <1>c, <1>f, <1>k DEF PlacesOK
<1>g. rdyq' \in Seq(Procs) /\ ready' = ready \cup {h} /\ OnListOnce(rdyq')
  BY <1>h, <1>a, <1>c, <1>i, ReadyPut
<1>e. UNCHANGED <<sends, wop, won, wat, nsend>>
  BY DEF sends, wop, won, wat, nsend
<1>w. woken' = [woken EXCEPT ![k] = woken[k] \cup {h}] /\ h \notin woken[k]
  BY <1>c, <1>e, <1>g, <1>i, <1>k, WokenMore
<1>1. NumInv'
  BY <1>b
<1>2. WaitsOK'
  BY <1>h, <1>e DEF WaitsOK
<1>3. TypesOK'
  BY <1>h, <1>a DEF TypesOK
<1>4. StatusOK'
  BY <1>s DEF StatusOK
<1>5. QueuesOK'
  BY <1>h, <1>b, <1>c, <1>g DEF QueuesOK
<1>6. OnceOK'
  BY <1>a, <1>c, <1>g DEF OnceOK
<1>7. PlacesOK'
  <2>1. \A q \in Procs : status[q] = "unborn" => wop[q] = "none"
    BY <1>h, <1>a DEF PlacesOK
  <2>2. \A d \in Channels : \A q \in sends[d] : q # h
    BY <1>h, <1>a, <1>i DEF PlacesOK
  <2>3. \A d \in Channels : recvs'[d] \subseteq recvs[d] /\ h \notin recvs'[d]
    BY <1>h, <1>d, <1>a, <1>c, <1>i, <1>k DEF PlacesOK
  <2>4. QED
    BY <1>h, <1>a, <1>e, <1>f, <1>g, <1>i, <1>s, <2>1, <2>2, <2>3 DEF PlacesOK
<1>8. CountOK'
  BY <1>h, <1>a, <1>b, <1>e, <1>k, <1>w, CountMore
<1>9. NoneMissed'
  <2>1. senders[k] = <<>>
    BY <1>h, <1>k DEF NoneMissed
  <2>2. QED
    BY <1>h, <1>c, <2>1 DEF NoneMissed
<1>10. QED
  BY <1>1, <1>2, <1>3, <1>4, <1>5, <1>6, <1>7, <1>8, <1>9 DEF IndInv, TaskInv

(* The report of a task's end finds no receiver, and the scheduler fails. *)
LEMMA ExitFailsOK ==
  ASSUME IndInv, NEW p, p = cur, Busy, status' = [status EXCEPT ![p] = "dead"], cur' = None,
         NEW c \in created, NEW k, k = latest,
         nsent < MaxSends, receivers[k] = <<>>, senders' = Put(senders, k, p),
         pending' = Put(pending, k, Value(c, <<"pending", k>>)), nsent' = nsent + 1,
         sched' = "error",
         UNCHANGED <<receivers, rdyq, wait, created, latest, buff, sync, got>>
  PROVE  IndInv'
<1>h. /\ NumInv /\ WaitsOK /\ TypesOK /\ StatusOK /\ QueuesOK /\ OnceOK /\ PlacesOK /\ CountOK
      /\ NoneMissed
  BY DEF IndInv, TaskInv
<1>d. /\ DOMAIN sends = Channels /\ DOMAIN recvs = Channels /\ DOMAIN wop = Procs
      /\ DOMAIN won = Procs /\ DOMAIN wat = Procs
  BY DEF sends, recvs, wop, won, wat
<1>a. p \in Procs /\ k \in Channels /\ c \in Channels
  BY <1>h DEF TypesOK, Busy
<1>s. status' \in [Procs -> {"unborn", "alive", "dead"}]
  BY <1>h DEF StatusOK
<1>b. NumInv' /\ pending' \in [Channels -> Seq(Values)]
  BY <1>a, PendingPut
<1>c. /\ senders' \in [Channels -> Seq(Procs)]
      /\ \A d \in Channels : d # k => senders'[d] = senders[d]
  BY <1>h, <1>a, SendsPut
<1>e. UNCHANGED <<wop, won, wat>>
  BY DEF wop, won, wat
<1>1. NumInv'
  BY <1>b
<1>2. WaitsOK'
  BY <1>h, <1>e DEF WaitsOK
<1>3. TypesOK'
  BY <1>h DEF TypesOK
<1>4. StatusOK'
  BY <1>s DEF StatusOK
<1>5. QueuesOK'
  BY <1>h, <1>b, <1>c DEF QueuesOK
<1>6. OnceOK'
  BY DEF OnceOK
<1>7. PlacesOK'
  BY DEF PlacesOK
<1>8. CountOK'
  BY DEF CountOK
<1>9. NoneMissed'
  BY <1>h, <1>c DEF NoneMissed
<1>10. QED
  BY <1>1, <1>2, <1>3, <1>4, <1>5, <1>6, <1>7, <1>8, <1>9 DEF IndInv, TaskInv

(* The three actions that have several branches. *)
LEMMA SendWaitOK ==
  ASSUME IndInv, NEW c \in Channels, SendWait(c)
  PROVE  IndInv'
<1>1. CASE receivers[latest] # <<>>
  <2>1. /\ Ready(Head(receivers[latest])) /\ receivers' = Pop(receivers, latest)
        /\ UNCHANGED <<senders, cur, wait, created, latest, buff, status, sync, sched, got>>
        /\ Busy /\ c \in created /\ nsent < MaxSends /\ nsent' = nsent + 1
        /\ pending' = Put(pending, latest, Value(c, <<"pending", latest>>))
    BY <1>1 DEF SendWait
  <2>2. PICK k, h : k = latest /\ h = Head(receivers[k])
    OBVIOUS
  <2>3. QED
    BY <1>1, <2>1, <2>2, SendMeetsOK
<1>2. CASE receivers[latest] = <<>>
  <2>1. /\ senders' = Put(senders, latest, cur) /\ Suspend("send", c)
        /\ UNCHANGED <<receivers, rdyq, created, latest, buff, status, sync, sched, got>>
        /\ Busy /\ c \in created /\ nsent < MaxSends /\ nsent' = nsent + 1
        /\ pending' = Put(pending, latest, Value(c, <<"pending", latest>>))
    BY <1>2 DEF SendWait
  <2>2. PICK k, p : k = latest /\ p = cur
    OBVIOUS
  <2>3. QED
    BY <1>2, <2>1, <2>2, SendWaitsOK
<1>3. QED
  BY <1>1, <1>2

LEMMA RecvWaitOK ==
  ASSUME IndInv, NEW c \in Channels, RecvWait(c)
  PROVE  IndInv'
<1>1. CASE senders[latest] # <<>>
  <2>1. /\ Ready(Head(senders[latest])) /\ senders' = Pop(senders, latest)
        /\ pending' = Pop(pending, latest) /\ Received(c, Head(pending[latest]), cur)
        /\ UNCHANGED <<receivers, cur, wait, created, latest, buff, status, sync, sched, nsent>>
        /\ Busy /\ c \in created
    BY <1>1 DEF RecvWait
  <2>2. PICK k, h : k = latest /\ h = Head(senders[k])
    OBVIOUS
  <2>3. QED
    BY <1>1, <2>1, <2>2, RecvMeetsOK
<1>2. CASE senders[latest] = <<>>
  <2>1. /\ receivers' = Put(receivers, latest, cur) /\ Suspend("recv", c)
        /\ UNCHANGED <<senders, pending, rdyq, got, created, latest, buff, status, sync, sched,
                       nsent>>
        /\ Busy /\ c \in created
    BY <1>2 DEF RecvWait
  <2>2. PICK k, p : k = latest /\ p = cur
    OBVIOUS
  <2>3. QED
    BY <1>2, <2>1, <2>2, RecvWaitsOK
<1>3. QED
  BY <1>1, <1>2

LEMMA ResumeOK ==
  ASSUME IndInv, NEW i \in DOMAIN rdyq, Resume(i)
  PROVE  IndInv'
<1>1. PICK p : p = rdyq[i]
  OBVIOUS
<1>2. i \in 1..Len(rdyq) /\ p \in Procs
  <2>1. rdyq \in Seq(Procs)
    BY DEF IndInv, TaskInv, QueuesOK
  <2>2. QED
    BY <1>1, <2>1
<1>3. wop[p] = wait[p].op /\ won[p] = wait[p].on /\ wat[p] = wait[p].at
  BY <1>2 DEF wop, won, wat
<1>4. /\ sched = "up" /\ cur = None /\ cur' = p /\ rdyq' = Without(rdyq, i)
      /\ wait' = [wait EXCEPT ![p] = NoWait]
      /\ UNCHANGED <<created, latest, senders, receivers, buff, status, sync, sched, nsent>>
  BY <1>1 DEF Resume
<1>5. CASE wop[p] = "recv"
  <2>1. PICK k, c : k = wat[p] /\ c = won[p]
    OBVIOUS
  <2>2. /\ pending' = [pending EXCEPT ![k] = IF @ = <<>> THEN @ ELSE Tail(@)]
        /\ Received(c, IF pending[k] = <<>> THEN None ELSE Head(pending[k]), p)
    BY <1>1, <1>3, <1>5, <2>1 DEF Resume
  <2>3. QED
    BY <1>1, <1>2, <1>4, <1>5, <2>1, <2>2, ResumeReceiverOK
<1>6. CASE wop[p] # "recv"
  <2>1. UNCHANGED <<pending, got>>
    BY <1>1, <1>3, <1>6 DEF Resume
  <2>2. QED
    BY <1>1, <1>2, <1>4, <1>6, <2>1, ResumeOtherOK
<1>7. QED
  BY <1>5, <1>6

LEMMA ExitOK ==
  ASSUME IndInv, Exit
  PROVE  IndInv'
<1>1. PICK p, k, c : p = cur /\ k = latest /\ c = sync[p]
  OBVIOUS
<1>2. /\ Busy /\ status' = [status EXCEPT ![p] = "dead"] /\ cur' = None
      /\ UNCHANGED <<created, latest, wait, sync, got>>
      /\ c # None => nsent < MaxSends /\ nsent' = nsent + 1
  BY <1>1 DEF Exit
<1>3. p \in Procs /\ created \subseteq Channels /\ (c = None \/ c \in created)
  BY <1>1, <1>2 DEF IndInv, TaskInv, TypesOK, Busy
<1>4. CASE c = None
  <2>1. /\ sched' = IF cur = Boot THEN "stopped" ELSE sched
        /\ UNCHANGED <<senders, receivers, pending, buff, rdyq, nsent>>
    BY <1>1, <1>4 DEF Exit, lists
  <2>2. QED
    BY <1>1, <1>2, <2>1, ExitQuietOK
<1>5. CASE c # None /\ Len(buff[c]) < Size[c]
  <2>1. /\ sched' = IF cur = Boot THEN "stopped" ELSE sched
        /\ buff' = Put(buff, c, Value(c, <<"buff", c>>))
        /\ UNCHANGED <<senders, receivers, pending, rdyq>>
    BY <1>1, <1>5 DEF Exit
  <2>2. QED
    BY <1>1, <1>2, <1>3, <1>5, <2>1, ExitBufferedOK
<1>6. CASE c # None /\ ~(Len(buff[c]) < Size[c]) /\ receivers[k] # <<>>
  <2>1. /\ sched' = IF cur = Boot THEN "stopped" ELSE sched
        /\ pending' = Put(pending, k, Value(c, <<"pending", k>>))
        /\ Ready(Head(receivers[k])) /\ receivers' = Pop(receivers, k)
        /\ UNCHANGED <<senders, buff>>
    BY <1>1, <1>6 DEF Exit
  <2>2. PICK h : h = Head(receivers[k])
    OBVIOUS
  <2>3. QED
    BY <1>1, <1>2, <1>3, <1>6, <2>1, <2>2, ExitMeetsOK
<1>7. CASE c # None /\ ~(Len(buff[c]) < Size[c]) /\ receivers[k] = <<>>
  <2>1. /\ sched' = "error" /\ senders' = Put(senders, k, p)
        /\ pending' = Put(pending, k, Value(c, <<"pending", k>>))
        /\ UNCHANGED <<receivers, rdyq, buff>>
    BY <1>1, <1>7 DEF Exit
  <2>2. QED
    BY <1>1, <1>2, <1>3, <1>7, <2>1, ExitFailsOK
<1>8. QED
  BY <1>4, <1>5, <1>6, <1>7
-----------------------------------------------------------------------------
(* The first state: one ready task, and every list empty. *)
LEMMA InitOK ==
  ASSUME Init
  PROVE  IndInv
<1>1. /\ \A l \in Lists : lst[l] = <<>>
      /\ lst \in [Lists -> Seq(Values)]
  <2>1. ASSUME NEW l \in Lists PROVE (IF l[1] = "buff" THEN buff[l[2]] ELSE pending[l[2]]) = <<>>
    <3>1. PICK a \in {"buff", "pending"}, d \in Channels : l = <<a, d>>
      BY DEF Lists
    <3>2. l[1] = a /\ l[2] = d
      BY <3>1
    <3>3. QED
      BY <3>2 DEF Init
  <2>2. <<>> \in Seq(Values)
    OBVIOUS
  <2>3. QED
    BY <2>1, <2>2 DEF lst
<1>2. /\ \A l \in Lists : nums[l] = {} /\ Climbs(<<>>, l, 0)
      /\ got = <<>> /\ nsent = 0 /\ Len(got) = 0
  BY <1>1 DEF nums, Init, Climbs
<1>3. NumInv
  <2>1. SentOK /\ ValuesOK
    BY <1>1, <1>2, ChannelAssumption DEF SentOK, ValuesOK
  <2>2. GotOK /\ GotOnce /\ GotBefore /\ InOrder /\ NeverNil
    BY <1>2 DEF GotOK, GotOnce, GotBefore, InOrder, NeverNil
  <2>3. Apart /\ Cover
    BY <1>2 DEF Apart, Cover
  <2>4. QED
    BY <2>1, <2>2, <2>3 DEF NumInv
<1>4. WaitsOK /\ \A p \in Procs : wop[p] = "none"
  BY DEF Init, WaitsOK, Waits, NoWait, wop
<1>5. TypesOK /\ StatusOK
  BY ChannelAssumption DEF Init, TypesOK, StatusOK
<1>6. QueuesOK
  <2>1. <<>> \in Seq(Procs) /\ <<>> \in Seq(Values) /\ <<Boot>> \in Seq(Procs)
    BY ChannelAssumption
  <2>2. QED
    BY <2>1 DEF Init, QueuesOK
<1>7. ready = {Boot} /\ Boot \in Procs
  BY ChannelAssumption DEF ready, OnList, Init
<1>8. \A c \in Channels : sends[c] = {} /\ recvs[c] = {} /\ npend[c] = 0 /\ nsend[c] = 0
  BY DEF sends, recvs, npend, nsend, OnList, Init
<1>9. OnceOK
  BY DEF OnceOK, OnListOnce, Init
<1>10. PlacesOK
  BY <1>4, <1>7, <1>8 DEF PlacesOK, Init
<1>11. CountOK
  <2>1. \A c \in Channels : woken[c] = {}
    BY <1>4, <1>7 DEF woken
  <2>2. QED
    BY <1>8, <2>1, FS_EmptySet DEF CountOK
<1>12. NoneMissed
  BY DEF NoneMissed, Init
<1>13. QED
  BY <1>3, <1>4, <1>5, <1>6, <1>9, <1>10, <1>11, <1>12 DEF IndInv, TaskInv

LEMMA StutterOK ==
  ASSUME IndInv, UNCHANGED vars
  PROVE  IndInv'
<1>1. UNCHANGED <<created, latest, senders, receivers, pending, buff, rdyq, cur, status, wait,
                  sync, sched, nsent, got>>
  BY DEF vars, lists
<1>2. UNCHANGED <<ready, sends, recvs, wop, won, wat, woken, npend, nsend>>
  BY <1>1 DEF ready, sends, recvs, wop, won, wat, woken, npend, nsend
<1>3. NumInv'
  BY <1>1, SameValues DEF IndInv
<1>4. TaskInv'
  BY <1>1, <1>2 DEF IndInv, TaskInv, WaitsOK, TypesOK, StatusOK, QueuesOK, OnceOK, PlacesOK, CountOK,
    NoneMissed
<1>5. QED
  BY <1>3, <1>4 DEF IndInv

(***************************************************************************)
(* The inductive invariant: where each task is, what the lists of each     *)
(* channel hold and how many values wait in them, and which of the numbers *)
(* given to the values are in a list and which have been received.         *)
(***************************************************************************)
THEOREM Invariance == Spec => []IndInv
<1>1. Init => IndInv
  BY InitOK
<1>2. IndInv /\ [Next]_vars => IndInv'
  <2> SUFFICES ASSUME IndInv, [Next]_vars PROVE IndInv'
    OBVIOUS
  <2>1. ASSUME NEW c \in Channels, NewChannel(c) \/ send(c) \/ recv(c) PROVE IndInv'
    BY <2>1, NewChannelOK, SendBufferedOK, SendWaitOK, RecvBufferedOK, RecvWaitOK DEF send, recv
  <2>2. ASSUME NEW p \in Procs, NEW c \in Channels \cup {None}, spawn(p, c) PROVE IndInv'
    BY <2>2, SpawnOK
  <2>3. QED
    BY <2>1, <2>2, ResumeOK, YieldOK, ExitOK, StutterOK DEF Next, Task
<1>3. QED
  BY <1>1, <1>2, PTL DEF Spec

(***************************************************************************)
(* The lists of sendwait and recvwait match the tasks: a sender and a      *)
(* receiver never wait in the same lists, and there is a pending value for *)
(* each waiting sender and each receiver that was woken and has not run.   *)
(***************************************************************************)
THEOREM ListsMatch == Spec => []ListsMatchTasks
<1>1. IndInv => ListsMatchTasks
  <2> SUFFICES ASSUME IndInv PROVE ListsMatchTasks
    OBVIOUS
  <2>1. TypeOK
    <3>1. nsent \in 0..MaxSends
      BY ChannelAssumption DEF IndInv, NumInv, SentOK
    <3>2. QED
      BY <3>1 DEF IndInv, TaskInv, TypesOK, StatusOK, QueuesOK, TypeOK
  <2>2. ASSUME sched = "up", NEW c \in Channels
        PROVE  Len(pending[c]) = Len(senders[c]) + Cardinality(WokenReceivers(c))
    <3>1. WokenReceivers(c) = woken[c]
      <4>1. DOMAIN rdyq = 1..Len(rdyq)
        BY DEF IndInv, TaskInv, QueuesOK
      <4>2. QED
        BY <4>1 DEF WokenReceivers, woken, ready, OnList, wop, wat
    <3>2. npend[c] = Len(pending[c]) /\ nsend[c] = Len(senders[c])
      BY DEF npend, nsend
    <3>3. QED
      BY <2>2, <3>1, <3>2 DEF IndInv, TaskInv, CountOK
  <2>3. QED
    BY <2>1, <2>2 DEF IndInv, TaskInv, ListsMatchTasks, ValuesMatchTasks
<1>2. QED
  BY <1>1, Invariance, PTL

(* How often a number is in the lists of one kind: once if it is in one. *)
LEMMA CopiesOne ==
  ASSUME NumInv, NEW a \in {"buff", "pending"}, NEW f, NEW n, NEW c \in Channels,
         \A d \in Channels : f[d] = lst[<<a, d>>], n \in nums[<<a, c>>]
  PROVE  Copies(f, n) = 1
<1> DEFINE S == {at \in Channels \X (1..MaxSends) :
                   at[2] <= Len(f[at[1]]) /\ f[at[1]][at[2]].n = n}
<1>1. \A d \in Channels : <<a, d>> \in Lists
  BY DEF Lists
<1>2. \A l \in Lists : Climbs(lst[l], l, nsent) /\ Len(lst[l]) \in Nat /\ Len(lst[l]) <= nsent
                       /\ \A i \in 1..Len(lst[l]) : lst[l][i].n \in Nat
  <2> TAKE l \in Lists
  <2>1. Climbs(lst[l], l, nsent) /\ nsent \in Nat
    BY DEF NumInv, ValuesOK, SentOK
  <2>2. Len(lst[l]) \in Nat /\ Len(lst[l]) <= nsent /\ \A i \in 1..Len(lst[l]) : lst[l][i].n \in 1..nsent
    BY <2>1, ClimbsNums
  <2>3. QED
    BY <2>1, <2>2
<1>3. nsent \in Nat /\ nsent <= MaxSends /\ MaxSends \in Nat
  BY ChannelAssumption DEF NumInv, SentOK
<1>4. PICK i \in 1..Len(f[c]) : f[c][i].n = n
  BY <1>1 DEF nums
<1>5. <<c, i>> \in S
  <2>1. i \in 1..MaxSends /\ i <= Len(f[c])
    BY <1>1, <1>2, <1>3, <1>4
  <2>2. QED
    BY <1>4, <2>1
<1>6. ASSUME NEW at \in S PROVE at = <<c, i>>
  <2>1. PICK d \in Channels, j \in 1..MaxSends : at = <<d, j>>
    OBVIOUS
  <2>2. j \in 1..Len(f[d]) /\ f[d][j].n = n
    <3>1. j <= Len(f[d]) /\ f[d][j].n = n
      BY <2>1
    <3>2. Len(f[d]) \in Nat
      BY <1>1, <1>2
    <3>3. QED
      BY <1>3, <3>1, <3>2
  <2>3. n \in nums[<<a, d>>]
    BY <1>1, <2>2 DEF nums
  <2>4. <<a, d>> = <<a, c>>
    BY <1>1, <2>3 DEF NumInv, Apart
  <2>5. d = c
    BY <2>4
  <2>6. i = j
    <3>1. /\ i \in 1..Len(lst[<<a, c>>]) /\ j \in 1..Len(lst[<<a, c>>]) /\ <<a, c>> \in Lists
          /\ lst[<<a, c>>][i].n = lst[<<a, c>>][j].n
      BY <1>1, <1>4, <2>2, <2>5
    <3>2. ~(i < j) /\ ~(j < i)
      BY <1>2, <3>1 DEF Climbs
    <3>3. QED
      BY <1>1, <1>2, <3>1, <3>2
  <2>7. QED
    BY <2>1, <2>5, <2>6
<1>7. S = {<<c, i>>}
  BY <1>5, <1>6
<1>8. Cardinality(S) = 1
  BY <1>7, FS_Singleton
<1>9. QED
  BY <1>8 DEF Copies

LEMMA CopiesNone ==
  ASSUME NumInv, NEW a \in {"buff", "pending"}, NEW f, NEW n,
         \A d \in Channels : f[d] = lst[<<a, d>>], \A d \in Channels : n \notin nums[<<a, d>>]
  PROVE  Copies(f, n) = 0
<1> DEFINE S == {at \in Channels \X (1..MaxSends) :
                   at[2] <= Len(f[at[1]]) /\ f[at[1]][at[2]].n = n}
<1>1. ASSUME NEW at \in S PROVE FALSE
  <2>1. PICK d \in Channels, j \in 1..MaxSends : at = <<d, j>>
    OBVIOUS
  <2>2. <<a, d>> \in Lists /\ lst[<<a, d>>] \in Seq(Values)
    BY DEF Lists, NumInv, ValuesOK
  <2>3. j \in 1..Len(f[d]) /\ f[d][j].n = n
    <3>1. j <= Len(f[d]) /\ f[d][j].n = n
      BY <2>1
    <3>2. Len(f[d]) \in Nat /\ MaxSends \in Nat
      BY <2>2, ChannelAssumption
    <3>3. QED
      BY <3>1, <3>2
  <2>4. QED
    BY <2>2, <2>3 DEF nums
<1>2. S = {}
  BY <1>1
<1>3. QED
  BY <1>2, FS_EmptySet DEF Copies

(***************************************************************************)
(* Each value sent is in exactly one place: in the buffer or the pending   *)
(* list of one channel, once, or returned by exactly one recv.             *)
(***************************************************************************)
THEOREM ValuesOnce == Spec => []EachValueOnce
<1>1. IndInv => EachValueOnce
  <2> SUFFICES ASSUME IndInv, NEW n \in 1..nsent
               PROVE  Cardinality({i \in DOMAIN got : got[i].val # None /\ got[i].val.n = n})
                        + Copies(buff, n) + Copies(pending, n) = 1
    BY DEF EachValueOnce
  <2> DEFINE G == {i \in DOMAIN got : got[i].val # None /\ got[i].val.n = n}
  <2>1. NumInv /\ DOMAIN got = 1..Len(got)
    BY DEF IndInv, NumInv, GotOK
  <2>2. /\ \A c \in Channels : buff[c] = lst[<<"buff", c>>]
        /\ \A c \in Channels : pending[c] = lst[<<"pending", c>>]
    BY DEF lst, Lists
  <2>3. n \notin taken => Cardinality(G) = 0
    <3>1. n \notin taken => G = {}
      BY <2>1 DEF taken
    <3>2. QED
      BY <3>1, FS_EmptySet
  <2>4. \A c \in Channels : <<"buff", c>> \in Lists /\ <<"pending", c>> \in Lists
    BY DEF Lists
  <2>5. CASE n \in taken
    <3>1. \A l \in Lists : n \notin nums[l]
      BY <2>1, <2>5 DEF NumInv, Apart
    <3>2. PICK i \in 1..Len(got) : got[i].val # None /\ got[i].val.n = n
      BY <2>5 DEF taken
    <3>3. G = {i}
      BY <2>1, <3>2 DEF NumInv, GotOnce
    <3>4. Cardinality(G) = 1
      BY <3>3, FS_Singleton
    <3>5. Copies(buff, n) = 0
      BY <2>1, <2>2, <2>4, <3>1, CopiesNone
    <3>6. Copies(pending, n) = 0
      BY <2>1, <2>2, <2>4, <3>1, CopiesNone
    <3>7. QED
      BY <3>4, <3>5, <3>6
  <2>6. ASSUME NEW c \in Channels, n \in nums[<<"buff", c>>]
        PROVE  Cardinality(G) + Copies(buff, n) + Copies(pending, n) = 1
    <3>1. n \notin taken
      BY <2>1, <2>4, <2>6 DEF NumInv, Apart
    <3>2. \A d \in Channels : n \notin nums[<<"pending", d>>]
      <4>1. \A d \in Channels : <<"pending", d>> # <<"buff", c>>
        OBVIOUS
      <4>2. QED
        BY <2>1, <2>4, <2>6, <4>1 DEF NumInv, Apart
    <3>3. Copies(buff, n) = 1
      BY <2>1, <2>2, <2>6, CopiesOne
    <3>4. Copies(pending, n) = 0
      BY <2>1, <2>2, <3>2, CopiesNone
    <3>5. QED
      BY <2>3, <3>1, <3>3, <3>4
  <2>7. ASSUME NEW c \in Channels, n \in nums[<<"pending", c>>]
        PROVE  Cardinality(G) + Copies(buff, n) + Copies(pending, n) = 1
    <3>1. n \notin taken
      BY <2>1, <2>4, <2>7 DEF NumInv, Apart
    <3>2. \A d \in Channels : n \notin nums[<<"buff", d>>]
      <4>1. \A d \in Channels : <<"buff", d>> # <<"pending", c>>
        OBVIOUS
      <4>2. QED
        BY <2>1, <2>4, <2>7, <4>1 DEF NumInv, Apart
    <3>3. Copies(pending, n) = 1
      BY <2>1, <2>2, <2>7, CopiesOne
    <3>4. Copies(buff, n) = 0
      BY <2>1, <2>2, <3>2, CopiesNone
    <3>5. QED
      BY <2>3, <3>1, <3>3, <3>4
  <2>8. n \in taken \/ \E l \in Lists : n \in nums[l]
    BY <2>1 DEF NumInv, Cover
  <2>9. \A l \in Lists : \E c \in Channels : l = <<"buff", c>> \/ l = <<"pending", c>>
    BY DEF Lists
  <2>10. QED
    BY <2>5, <2>6, <2>7, <2>8, <2>9
<1>2. QED
  BY <1>1, Invariance, PTL

(* Values that waited in one list are received in the order of the sends. *)
THEOREM ReceivedInOrder == Spec => []InOrder
<1>1. IndInv => InOrder
  BY DEF IndInv, NumInv
<1>2. QED
  BY <1>1, Invariance, PTL

(* No recv returns nil: a receiver is woken only for a value nobody takes. *)
THEOREM RecvNeverNil == Spec => []NeverNil
<1>1. IndInv => NeverNil
  BY DEF IndInv, NumInv
<1>2. QED
  BY <1>1, Invariance, PTL

=============================================================================
