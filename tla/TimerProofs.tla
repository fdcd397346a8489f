------------------------------ MODULE TimerProofs ------------------------------
(* Proofs about TimerProcess: whatever the deltas in the list are worth,   *)
(* its nodes are the timers they should be.  First what insertValue(),     *)
(* removeValue() and decrement() do to the numbers in the list, then the   *)
(* invariants, then that tp implements TimerSet.                           *)
EXTENDS TimerProcess, TLAPS, WellFoundedInduction, FiniteSetTheorems

(* The order of the natural numbers as a set of pairs. *)
Less == {ss \in Nat \X Nat : ss[1] < ss[2]}

(* The order is well-founded. *)
LEMMA LessWF == IsWellFoundedOn(Less, Nat)
  BY NatLessThanWellFounded DEF OpToRel, Less

(* A non-empty set of natural numbers has a least element. *)
LEMMA NatMin == ASSUME NEW T \in SUBSET Nat, T # {} PROVE \E x \in T : \A y \in T : x <= y
<1>1. PICK x \in T : \A y \in T : ~ (<<y, x>> \in Less)
  BY LessWF, WFMin
<1>2. \A y \in T : x <= y
  <2> SUFFICES ASSUME NEW y \in T PROVE x <= y  OBVIOUS
  <2>1. x \in Nat /\ y \in Nat OBVIOUS
  <2>2. y < x => <<y, x>> \in Less  BY <2>1 DEF Less
  <2> QED BY <1>1, <2>1, <2>2
<1> QED BY <1>2

--------------------------------------------------------------------------------

(* g follows step from the value v at a. *)
Follows(g, a, n, v, step) ==
  /\ g \in [a..n -> Int] /\ g[a] = v
  /\ \A i \in a+1..n : g[i] = step[i][g[i-1]]

(* A function of the first n numbers that is given by a first value and a  *)
(* step from each value to the next exists.                                *)
LEMMA FollowsExists ==
  ASSUME NEW a \in Nat, NEW n \in Nat, a <= n, NEW v \in Int, NEW step \in [a+1..n -> [Int -> Int]]
  PROVE  \E g : Follows(g, a, n, v, step)
<1> DEFINE T == {m \in a..n : ~ \E g : Follows(g, a, m, v, step)}
<1> SUFFICES ASSUME T # {} PROVE FALSE  BY n \in a..n
<1>1. PICK m \in T : \A y \in T : m <= y
  <2>1. T \in SUBSET Nat OBVIOUS
  <2> HIDE DEF T
  <2> QED BY <2>1, NatMin
<1>2. m \in a..n /\ ~ \E g : Follows(g, a, m, v, step) OBVIOUS
<1>3. m # a
  <2>1. Follows([i \in a..a |-> v], a, a, v, step) BY DEF Follows
  <2> QED BY <2>1, <1>2
<1>4. m - 1 \in a..n /\ m - 1 \notin T
  <2>1. m - 1 \in a..n /\ ~(m <= m - 1) BY <1>2, <1>3
  <2> HIDE DEF T
  <2> QED BY <2>1, <1>1
<1>5. PICK g : Follows(g, a, m - 1, v, step) BY <1>4
<1> DEFINE h == [i \in a..m |-> IF i = m THEN step[m][g[m-1]] ELSE g[i]]
<1>6. step[m] \in [Int -> Int] /\ g[m-1] \in Int
  <2>1. m \in a+1..n /\ m - 1 \in a..m-1 BY <1>2, <1>3
  <2>2. g \in [a..m-1 -> Int] BY <1>5 DEF Follows
  <2> QED BY <2>1, <2>2
<1>7. step[m][g[m-1]] \in Int BY <1>6
<1>8. \A i \in a..m : i # m => g[i] \in Int BY <1>5, <1>2 DEF Follows
<1>9. h \in [a..m -> Int] BY <1>7, <1>8
<1>10. h[a] = v BY <1>2, <1>3, <1>5 DEF Follows
<1>11. \A i \in a+1..m : h[i] = step[i][h[i-1]]
  <2> SUFFICES ASSUME NEW i \in a+1..m PROVE h[i] = step[i][h[i-1]] OBVIOUS
  <2>1. i - 1 \in a..m /\ i - 1 # m /\ i \in a..m BY <1>2
  <2>2. h[i-1] = g[i-1] BY <2>1
  <2>3. CASE i = m BY <2>3, <2>1, <2>2
  <2>4. CASE i # m
    <3>1. i \in a+1..m-1 BY <2>4, <1>2
    <3>2. g[i] = step[i][g[i-1]] BY <3>1, <1>5 DEF Follows
    <3>3. h[i] = g[i] BY <2>4, <2>1
    <3> QED BY <3>2, <3>3, <2>2
  <2> QED BY <2>3, <2>4
<1>12. Follows(h, a, m, v, step) BY <1>9, <1>10, <1>11 DEF Follows
<1> QED BY <1>2, <1>12

(* The whole seconds of a delta are a number. *)
LEMMA WholeSecondsType == ASSUME NEW d \in Int PROVE WholeSeconds(d) \in Int
<1>1. Second \in Int /\ Second > 0 BY TimerAssumption
<1>2. d \div Second \in Int /\ (-d) \div Second \in Int BY <1>1
<1>3. Second * (d \div Second) \in Int BY <1>1, <1>2
<1>4. Second * ((-d) \div Second) \in Int BY <1>1, <1>2
<1>5. -(Second * ((-d) \div Second)) \in Int BY <1>4
<1> QED BY <1>3, <1>5 DEF WholeSeconds

(* A node of the list carries a timer's number and a delta. *)
LEMMA NodeOf ==
  ASSUME NEW l \in Seq(TimerNode)
  PROVE  /\ Len(l) \in Nat
         /\ \A i \in 1..Len(l) : /\ l[i] \in TimerNode
                                 /\ l[i].byteSeqNum \in Timers /\ l[i].dtime \in Int
<1>1. Len(l) \in Nat OBVIOUS
<1>2. \A i \in 1..Len(l) : l[i] \in TimerNode OBVIOUS
<1>3. \A i \in 1..Len(l) : l[i].byteSeqNum \in Timers /\ l[i].dtime \in Int BY <1>2 DEF TimerNode
<1> QED BY <1>1, <1>2, <1>3

(* The deltas added up are numbers. *)
LEMMA ElapsedType ==
  ASSUME NEW l \in Seq(TimerNode)
  PROVE  \A i \in 0..Len(l) : Elapsed(l)[i] \in Int
<1> DEFINE n == Len(l)
           R(f) == f = [i \in 0..n |-> IF i = 0 THEN 0 ELSE f[i-1] + l[i].dtime]
           step == [i \in 1..n |-> [x \in Int |-> x + l[i].dtime]]
<1>1. n \in Nat /\ \A i \in 1..n : l[i].dtime \in Int BY NodeOf
<1>2. step \in [0+1..n -> [Int -> Int]] BY <1>1
<1>3. PICK g : Follows(g, 0, n, 0, step)
  <2>1. 0 \in Nat /\ 0 <= n /\ 0 \in Int BY <1>1
  <2> HIDE DEF step, n
  <2> QED BY <1>1, <1>2, <2>1, FollowsExists
<1>4. R(g)
  <2>1. g \in [0..n -> Int] /\ g[0] = 0 /\ \A i \in 1..n : g[i] = step[i][g[i-1]]
    BY <1>3 DEF Follows
  <2>2. \A i \in 1..n : g[i] = g[i-1] + l[i].dtime
    <3> SUFFICES ASSUME NEW i \in 1..n PROVE g[i] = g[i-1] + l[i].dtime OBVIOUS
    <3>1. g[i-1] \in Int BY <2>1, <1>1, SMTT(30)
    <3> QED BY <2>1, <3>1
  <2> HIDE DEF step, n
  <2> QED BY <2>1, <2>2, <1>1
<1>5. R(Elapsed(l))
  <2>1. Elapsed(l) = CHOOSE f : R(f) BY DEF Elapsed
  <2> QED BY <1>4, <2>1
<1> DEFINE E == Elapsed(l)
           T == {i \in 0..n : E[i] \notin Int}
<1>6. E[0] = 0 /\ \A i \in 1..n : E[i] = E[i-1] + l[i].dtime
  <2>1. R(E) BY <1>5
  <2> HIDE DEF E
  <2> QED BY <2>1, <1>1
<1>7. T = {}
  <2> SUFFICES ASSUME T # {} PROVE FALSE OBVIOUS
  <2> HIDE DEF E
  <2>1. PICK m \in T : \A y \in T : m <= y
    <3>1. T \in SUBSET Nat BY <1>1
    <3> HIDE DEF T
    <3> QED BY <3>1, NatMin
  <2>2. m \in 1..n BY <2>1, <1>6, <1>1
  <2>3. m - 1 \in 0..n /\ m - 1 \notin T
    <3>1. m - 1 \in 0..n /\ ~(m <= m - 1) BY <2>2, <1>1
    <3> HIDE DEF T
    <3> QED BY <3>1, <2>1
  <2>4. E[m-1] \in Int BY <2>3
  <2>5. E[m] = E[m-1] + l[m].dtime /\ l[m].dtime \in Int BY <2>2, <1>1, <1>6
  <2>6. E[m] \in Int BY <2>4, <2>5
  <2> QED BY <2>1, <2>6
<1> QED BY <1>7

(* So are the dtimes that nodes have when they become head. *)
LEMMA DueType ==
  ASSUME NEW l \in Seq(TimerNode), NEW dif \in Int
  PROVE  \A i \in 1..Len(l) : Due(l, dif)[i] \in Int
<1> DEFINE n == Len(l)
           R(f) == f = [k \in 1..n |-> IF k = 1 THEN l[1].dtime - dif
                                       ELSE l[k].dtime + f[k-1] + WholeSeconds(f[k-1])]
           step == [i \in 2..n |-> [x \in Int |-> l[i].dtime + x + WholeSeconds(x)]]
<1>1. n \in Nat /\ \A i \in 1..n : l[i].dtime \in Int BY NodeOf
<1> SUFFICES ASSUME n >= 1 PROVE \A i \in 1..n : Due(l, dif)[i] \in Int
  BY <1>1
<1>2. step \in [1+1..n -> [Int -> Int]]
  <2>1. \A i \in 2..n : \A x \in Int : l[i].dtime + x + WholeSeconds(x) \in Int
    <3> SUFFICES ASSUME NEW i \in 2..n, NEW x \in Int PROVE l[i].dtime + x + WholeSeconds(x) \in Int OBVIOUS
    <3>1. l[i].dtime \in Int /\ WholeSeconds(x) \in Int BY <1>1, WholeSecondsType
    <3> QED BY <3>1
  <2> QED BY <2>1
<1>3. l[1].dtime - dif \in Int BY <1>1
<1>4. PICK g : Follows(g, 1, n, l[1].dtime - dif, step)
  <2> HIDE DEF step
  <2> QED BY <1>1, <1>2, <1>3, FollowsExists
<1>5. R(g)
  <2>1. g \in [1..n -> Int] /\ g[1] = l[1].dtime - dif /\ \A i \in 2..n : g[i] = step[i][g[i-1]]
    BY <1>4 DEF Follows
  <2>2. \A i \in 2..n : g[i] = l[i].dtime + g[i-1] + WholeSeconds(g[i-1])
    <3> SUFFICES ASSUME NEW i \in 2..n PROVE g[i] = l[i].dtime + g[i-1] + WholeSeconds(g[i-1]) OBVIOUS
    <3>1. g[i-1] \in Int BY <2>1, <1>1
    <3> QED BY <2>1, <3>1
  <2>3. g = [k \in 1..n |-> g[k]] BY <2>1
  <2>4. \A k \in 1..n : g[k] = IF k = 1 THEN l[1].dtime - dif ELSE l[k].dtime + g[k-1] + WholeSeconds(g[k-1])
    BY <2>1, <2>2, <1>1
  <2> HIDE DEF step, n
  <2> QED BY <2>3, <2>4
<1>6. R(Due(l, dif))
  <2>1. Due(l, dif) = CHOOSE f : R(f) BY DEF Due
  <2> QED BY <1>5, <2>1
<1> DEFINE E == Due(l, dif)
           T == {i \in 1..n : E[i] \notin Int}
<1>7. E[1] = l[1].dtime - dif /\ \A i \in 2..n : E[i] = l[i].dtime + E[i-1] + WholeSeconds(E[i-1])
  <2>1. R(E) BY <1>6
  <2> HIDE DEF E
  <2> QED BY <2>1, <1>1
<1>8. T = {}
  <2> SUFFICES ASSUME T # {} PROVE FALSE OBVIOUS
  <2> HIDE DEF E
  <2>1. PICK m \in T : \A y \in T : m <= y
    <3>1. T \in SUBSET Nat BY <1>1
    <3> HIDE DEF T
    <3> QED BY <3>1, NatMin
  <2>2. m \in 2..n BY <2>1, <1>7, <1>1, <1>3
  <2>3. m - 1 \in 1..n /\ m - 1 \notin T
    <3>1. m - 1 \in 1..n /\ ~(m <= m - 1) BY <2>2, <1>1
    <3> HIDE DEF T
    <3> QED BY <3>1, <2>1
  <2>4. E[m-1] \in Int /\ WholeSeconds(E[m-1]) \in Int BY <2>3, WholeSecondsType
  <2>5. E[m] = l[m].dtime + E[m-1] + WholeSeconds(E[m-1]) /\ l[m].dtime \in Int BY <2>2, <1>1, <1>7
  <2>6. E[m] \in Int BY <2>4, <2>5
  <2> QED BY <2>1, <2>6
<1> QED BY <1>8

--------------------------------------------------------------------------------

(* InsertAt() by positions. *)
LEMMA InsertAtElements ==
  ASSUME NEW S, NEW s \in Seq(S), NEW p \in 1..Len(s)+1, NEW e \in S
  PROVE  /\ InsertAt(s, p, e) \in Seq(S) /\ Len(InsertAt(s, p, e)) = Len(s) + 1
         /\ InsertAt(s, p, e)[p] = e
         /\ \A i \in 1..p-1 : InsertAt(s, p, e)[i] = s[i]
         /\ \A i \in p+1..Len(s)+1 : InsertAt(s, p, e)[i] = s[i-1]
<1> DEFINE n  == Len(s)
           u  == SubSeq(s, 1, p - 1)
           v  == SubSeq(s, p, n)
           ue == u \o <<e>>
           m  == ue \o v
<1>1. n \in Nat /\ p \in Nat /\ 1 <= p /\ p <= n + 1 OBVIOUS
<1>2. u \in Seq(S) /\ Len(u) = p - 1 /\ \A i \in 1..p-1 : u[i] = s[i] BY <1>1
<1>3. v \in Seq(S) /\ Len(v) = n + 1 - p /\ \A i \in 1..n+1-p : v[i] = s[p-1+i]
  <2>1. CASE p = n + 1 BY <2>1, <1>1
  <2>2. CASE p # n + 1 BY <2>2, <1>1
  <2> QED BY <2>1, <2>2
<1> HIDE DEF u, v
<1>4. ue \in Seq(S) /\ Len(ue) = p /\ ue[p] = e /\ \A i \in 1..p-1 : ue[i] = s[i] BY <1>1, <1>2
<1> HIDE DEF ue
<1>5. m \in Seq(S) /\ Len(m) = n + 1
  <2>0. ue \in Seq(S) /\ v \in Seq(S) BY <1>3, <1>4
  <2>1. m \in Seq(S) BY <2>0
  <2>2. Len(m) = Len(ue) + Len(v) BY <2>0
  <2> QED BY <2>1, <2>2, <1>1, <1>3, <1>4
<1>6. \A i \in 1..p : m[i] = ue[i] BY <1>1, <1>3, <1>4
<1>7. \A i \in p+1..n+1 : m[i] = v[i-p] BY <1>1, <1>3, <1>4
<1>8. \A i \in p+1..n+1 : i - p \in 1..n+1-p /\ p - 1 + (i - p) = i - 1 BY <1>1
<1>9. \A i \in p+1..n+1 : m[i] = s[i-1] BY <1>3, <1>7, <1>8
<1>10. m[p] = e /\ \A i \in 1..p-1 : m[i] = s[i] BY <1>1, <1>4, <1>6
<1>11. InsertAt(s, p, e) = m BY DEF InsertAt, ue, u, v
<1> HIDE DEF m
<1> QED BY <1>5, <1>9, <1>10, <1>11

(* RemoveAt() by positions. *)
LEMMA RemoveAtElements ==
  ASSUME NEW S, NEW s \in Seq(S), NEW p \in 1..Len(s)
  PROVE  /\ RemoveAt(s, p) \in Seq(S) /\ Len(RemoveAt(s, p)) = Len(s) - 1
         /\ \A i \in 1..p-1 : RemoveAt(s, p)[i] = s[i]
         /\ \A i \in p..Len(s)-1 : RemoveAt(s, p)[i] = s[i+1]
<1> DEFINE n == Len(s)
           u == SubSeq(s, 1, p - 1)
           v == SubSeq(s, p + 1, n)
           m == u \o v
<1>1. n \in Nat /\ p \in Nat /\ 1 <= p /\ p <= n OBVIOUS
<1>2. u \in Seq(S) /\ Len(u) = p - 1 /\ \A i \in 1..p-1 : u[i] = s[i] BY <1>1
<1>3. v \in Seq(S) /\ Len(v) = n - p /\ \A i \in 1..n-p : v[i] = s[p+i] BY <1>1
<1> HIDE DEF u, v
<1>4. m \in Seq(S) /\ Len(m) = n - 1
  <2>0. u \in Seq(S) /\ v \in Seq(S) BY <1>2, <1>3
  <2>1. m \in Seq(S) BY <2>0
  <2>2. Len(m) = Len(u) + Len(v) BY <2>0
  <2> QED BY <2>1, <2>2, <1>1, <1>2, <1>3
<1>5. \A i \in 1..p-1 : m[i] = u[i] BY <1>1, <1>2, <1>3
<1>6. \A i \in p..n-1 : m[i] = v[i-(p-1)] BY <1>1, <1>2, <1>3
<1>7. \A i \in p..n-1 : i - (p - 1) \in 1..n-p /\ p + (i - (p - 1)) = i + 1 BY <1>1
<1>8. \A i \in p..n-1 : m[i] = s[i+1] BY <1>3, <1>6, <1>7
<1>9. \A i \in 1..p-1 : m[i] = s[i] BY <1>2, <1>5
<1>10. RemoveAt(s, p) = m BY DEF RemoveAt, u, v
<1> HIDE DEF m
<1> QED BY <1>4, <1>8, <1>9, <1>10

(* m is l with a node for b at position p; deltas may differ. *)
PutAt(m, l, p, b) ==
  /\ m \in Seq(TimerNode) /\ Len(m) = Len(l) + 1 /\ p \in 1..Len(l)+1
  /\ m[p].byteSeqNum = b
  /\ \A i \in 1..p-1 : m[i].byteSeqNum = l[i].byteSeqNum
  /\ \A i \in p+1..Len(l)+1 : m[i].byteSeqNum = l[i-1].byteSeqNum

(* m is l without the node at position p; deltas may differ. *)
TakenFrom(m, l, p) ==
  /\ m \in Seq(TimerNode) /\ Len(m) = Len(l) - 1 /\ p \in 1..Len(l)
  /\ \A i \in 1..p-1 : m[i].byteSeqNum = l[i].byteSeqNum
  /\ \A i \in p..Len(l)-1 : m[i].byteSeqNum = l[i+1].byteSeqNum

(* Splice() puts the node where it is told to. *)
LEMMA SplicePuts ==
  ASSUME NEW l \in Seq(TimerNode), NEW p \in 1..Len(l)+1, NEW node \in TimerNode
  PROVE  PutAt(Splice(l, p, node), l, p, node.byteSeqNum)
<1> DEFINE n   == Len(l)
           new == InsertAt(l, p, node)
           mid == [new EXCEPT ![p+1].dtime = @ - node.dtime]
<1>1. n \in Nat /\ \A i \in 1..n : l[i] \in TimerNode BY NodeOf
<1>2. new \in Seq(TimerNode) /\ Len(new) = n + 1 BY InsertAtElements
<1>3. new[p] = node BY InsertAtElements
<1>4. \A i \in 1..p-1 : new[i] = l[i] BY InsertAtElements
<1>5. \A i \in p+1..n+1 : new[i] = l[i-1] BY InsertAtElements
<1> HIDE DEF new
<1>6. CASE p = n + 1
  <2>1. Splice(l, p, node) = new BY <1>6, <1>2 DEF Splice, new
  <2> QED BY <2>1, <1>1, <1>2, <1>3, <1>4, <1>5 DEF PutAt
<1>7. CASE p # n + 1
  <2>1. Splice(l, p, node) = mid BY <1>7, <1>2 DEF Splice, new
  <2>2. p + 1 \in 1..n+1 /\ p + 1 # p /\ p \in 1..n BY <1>7, <1>1
  <2>3. \A i \in 1..n+1 : new[i] \in TimerNode BY <1>2
  <2>4. new[p+1].dtime - node.dtime \in Int /\ new[p+1].byteSeqNum \in Timers
    BY <2>2, <2>3 DEF TimerNode
  <2> DEFINE nd == [new[p+1] EXCEPT !.dtime = new[p+1].dtime - node.dtime]
  <2>5. nd \in TimerNode /\ nd.byteSeqNum = new[p+1].byteSeqNum
    BY <2>2, <2>3, <2>4 DEF TimerNode
  <2>6. mid = [new EXCEPT ![p+1] = nd] OBVIOUS
  <2> HIDE DEF nd, mid
  <2>7. mid \in Seq(TimerNode) /\ Len(mid) = n + 1 BY <2>6, <2>5, <2>2, <1>2
  <2>8. \A i \in 1..n+1 : mid[i].byteSeqNum = new[i].byteSeqNum
    BY <2>6, <2>5, <2>2, <1>2
  <2>9. PutAt(mid, l, p, node.byteSeqNum)
    <3>1. mid[p].byteSeqNum = node.byteSeqNum BY <2>8, <1>3, <1>1
    <3>2. \A i \in 1..p-1 : mid[i].byteSeqNum = l[i].byteSeqNum BY <2>8, <1>4, <1>1
    <3>3. \A i \in p+1..n+1 : mid[i].byteSeqNum = l[i-1].byteSeqNum BY <2>8, <1>5, <1>1
    <3> QED BY <2>7, <3>1, <3>2, <3>3 DEF PutAt
  <2> QED BY <2>1, <2>9
<1> QED BY <1>6, <1>7

(* Appending puts it past the end. *)
LEMMA AppendPuts ==
  ASSUME NEW l \in Seq(TimerNode), NEW node \in TimerNode
  PROVE  PutAt(Append(l, node), l, Len(l) + 1, node.byteSeqNum)
<1>1. Len(l) \in Nat OBVIOUS
<1> DEFINE m == Append(l, node)
<1>2. m \in Seq(TimerNode) /\ Len(m) = Len(l) + 1 /\ m[Len(l)+1] = node /\ \A i \in 1..Len(l) : m[i] = l[i]
  BY <1>1
<1> HIDE DEF m
<1>3. PutAt(m, l, Len(l) + 1, node.byteSeqNum) BY <1>1, <1>2 DEF PutAt
<1> QED BY <1>3 DEF m

(* The traversal stops at a node or past the last one. *)
LEMMA StopAtType ==
  ASSUME NEW l \in Seq(TimerNode), NEW time \in Int
  PROVE  StopAt(l, time) \in 1..Len(l)+1
<1> DEFINE reached == {i \in 1..Len(l) : Elapsed(l)[i] >= time}
<1>1. Len(l) \in Nat OBVIOUS
<1>2. CASE reached = {} BY <1>1, <1>2 DEF StopAt
<1>3. CASE reached # {}
  <2>1. reached \in SUBSET Nat OBVIOUS
  <2>2. \E i \in reached : \A j \in reached : i <= j
    <3> HIDE DEF reached
    <3> QED BY <2>1, <1>3, NatMin
  <2>3. StopAt(l, time) = CHOOSE i \in reached : \A j \in reached : i <= j BY <1>3 DEF StopAt
  <2>4. StopAt(l, time) \in reached BY <2>2, <2>3
  <2> QED BY <2>4, <1>1
<1> QED BY <1>2, <1>3

(* Whatever insertValue() makes of the deltas, it adds one node. *)
LEMMA InsertPuts ==
  ASSUME NEW l \in Seq(TimerNode), NEW time \in Int, NEW b \in Timers
  PROVE  \E p \in 1..Len(l)+1 : PutAt(InsertValue(l, time, b), l, p, b)
<1> DEFINE n       == Len(l)
           stop    == StopAt(l, time)
           elapse  == Elapsed(l)[stop - 1]
           node(d) == [byteSeqNum |-> b, dtime |-> d]
           append  == Append(l, node(time - (IF elapse = 0 THEN l[n].dtime ELSE elapse)))
           m       == InsertValue(l, time, b)
<1>1. n \in Nat /\ \A i \in 1..n : l[i].dtime \in Int BY NodeOf
<1>2. stop \in 1..n+1 BY StopAtType
<1>3. elapse \in Int
  <2>1. stop - 1 \in 0..n BY <1>1, <1>2
  <2> HIDE DEF stop, n
  <2> QED BY <2>1, ElapsedType DEF n
<1>4. \A d \in Int : node(d) \in TimerNode /\ node(d).byteSeqNum = b BY DEF TimerNode
<1>5. n = 0 => m = <<node(time)>> BY DEF InsertValue
<1>6. n > 0 => \/ m = Splice(l, 1, node(0)) \/ m = Splice(l, 1, node(time))
               \/ m = Append(l, node(time - l[1].dtime))
               \/ stop < n /\ m = Splice(l, stop + 1, node(time - elapse))
               \/ m = append
               \/ m = Splice(l, n, node(time - elapse))
  BY <1>1 DEF InsertValue
<1> HIDE DEF m, stop, elapse
<1>7. CASE n = 0
  <2>1. m = <<node(time)>> BY <1>5, <1>7
  <2>2. m \in Seq(TimerNode) /\ Len(m) = 1 /\ m[1] = node(time) BY <2>1, <1>4
  <2>3. PutAt(m, l, 1, b) BY <2>2, <1>4, <1>7 DEF PutAt
  <2> QED BY <2>3, <1>7 DEF m
<1>8. CASE n > 0
  <2>1. 1 \in 1..n+1 /\ n \in 1..n+1 /\ n + 1 \in 1..n+1 /\ (stop < n => stop + 1 \in 1..n+1)
    BY <1>8, <1>1, <1>2
  <2>2. l[1].dtime \in Int /\ l[n].dtime \in Int BY <1>8, <1>1
  <2>3. /\ time - l[1].dtime \in Int /\ time - elapse \in Int /\ 0 \in Int
        /\ time - (IF elapse = 0 THEN l[n].dtime ELSE elapse) \in Int
    BY <2>2, <1>3
  <2>4. \A d \in Int, p \in 1..n+1 : PutAt(Splice(l, p, node(d)), l, p, b)
    <3> SUFFICES ASSUME NEW d \in Int, NEW p \in 1..n+1 PROVE PutAt(Splice(l, p, node(d)), l, p, b) OBVIOUS
    <3>1. node(d) \in TimerNode /\ node(d).byteSeqNum = b BY <1>4
    <3> HIDE DEF node
    <3> QED BY <3>1, SplicePuts
  <2>5. \A d \in Int : PutAt(Append(l, node(d)), l, n + 1, b)
    <3> SUFFICES ASSUME NEW d \in Int PROVE PutAt(Append(l, node(d)), l, n + 1, b) OBVIOUS
    <3>1. node(d) \in TimerNode /\ node(d).byteSeqNum = b BY <1>4
    <3> HIDE DEF node
    <3> QED BY <3>1, AppendPuts
  <2> HIDE DEF node, n
  <2>6. \E p \in 1..n+1 : PutAt(m, l, p, b)
    BY <1>6, <1>8, <2>1, <2>3, <2>4, <2>5
  <2> QED BY <2>6 DEF m, n
<1> QED BY <1>1, <1>7, <1>8

(* removeValue() takes out one node with the number, if there is one. *)
LEMMA RemoveTakes ==
  ASSUME NEW l \in Seq(TimerNode), NEW b \in Timers
  PROVE  \/ /\ RemoveValue(l, b) = l
            /\ \A i \in 1..Len(l) : l[i].byteSeqNum # b
         \/ \E p \in 1..Len(l) : l[p].byteSeqNum = b /\ TakenFrom(RemoveValue(l, b), l, p)
<1> DEFINE n     == Len(l)
           found == {i \in 1..n : l[i].byteSeqNum = b}
           p     == CHOOSE j \in found : \A k \in found : j <= k
           m     == RemoveValue(l, b)
<1>1. n \in Nat /\ \A i \in 1..n : l[i] \in TimerNode BY NodeOf
<1>2. CASE found = {} BY <1>2 DEF RemoveValue
<1>3. CASE found # {}
  <2>1. found \in SUBSET Nat OBVIOUS
  <2>2. \E j \in found : \A k \in found : j <= k
    <3> HIDE DEF found
    <3> QED BY <2>1, <1>3, NatMin
  <2>3. p \in found BY <2>2
  <2>4. p \in 1..n /\ l[p].byteSeqNum = b BY <2>3
  <2>5. m = IF p = n THEN SubSeq(l, 1, p - 1)
            ELSE RemoveAt([l EXCEPT ![p+1].dtime = @ + WholeSeconds(l[p].dtime)], p)
    BY <1>3 DEF RemoveValue
  <2> HIDE DEF p, m, found
  <2>6. CASE p = n
    <3>1. m = SubSeq(l, 1, n - 1) BY <2>5, <2>6
    <3>2. m \in Seq(TimerNode) /\ Len(m) = n - 1 /\ \A i \in 1..n-1 : m[i] = l[i]
      BY <3>1, <1>1, <2>4, <2>6
    <3>3. TakenFrom(m, l, p) BY <3>2, <2>4, <2>6, <1>1 DEF TakenFrom
    <3> QED BY <3>3, <2>4 DEF m
  <2>7. CASE p # n
    <3>1. p + 1 \in 1..n BY <2>4, <2>7, <1>1
    <3>2. l[p] \in TimerNode /\ l[p+1] \in TimerNode BY <3>1, <2>4, <1>1
    <3>3. l[p].dtime \in Int /\ l[p+1].dtime \in Int BY <3>2 DEF TimerNode
    <3>4. WholeSeconds(l[p].dtime) \in Int BY <3>3, WholeSecondsType
    <3>5. l[p+1].dtime + WholeSeconds(l[p].dtime) \in Int BY <3>3, <3>4
    <3> DEFINE nd == [l[p+1] EXCEPT !.dtime = l[p+1].dtime + WholeSeconds(l[p].dtime)]
               q  == [l EXCEPT ![p+1] = nd]
    <3>6. nd \in TimerNode /\ nd.byteSeqNum = l[p+1].byteSeqNum BY <3>2, <3>5 DEF TimerNode
    <3>7. m = RemoveAt(q, p) BY <2>5, <2>7
    <3> HIDE DEF nd
    <3>8. q \in Seq(TimerNode) /\ Len(q) = n /\ \A i \in 1..n : q[i].byteSeqNum = l[i].byteSeqNum
      BY <3>6, <3>1, <1>1
    <3> HIDE DEF q
    <3>9. m \in Seq(TimerNode) /\ Len(m) = n - 1 BY <3>7, <3>8, <2>4, RemoveAtElements
    <3>10. \A i \in 1..p-1 : m[i] = q[i] BY <3>7, <3>8, <2>4, RemoveAtElements
    <3>11. \A i \in p..n-1 : m[i] = q[i+1]
      <4>1. p \in 1..Len(q) /\ Len(q) = n BY <3>8, <2>4
      <4>2. \A i \in p..Len(q)-1 : RemoveAt(q, p)[i] = q[i+1] BY <3>8, <4>1, RemoveAtElements
      <4> HIDE DEF n
      <4> QED BY <4>1, <4>2, <3>7
    <3>12. TakenFrom(m, l, p)
      <4>1. \A i \in 1..p-1 : m[i].byteSeqNum = l[i].byteSeqNum BY <3>8, <3>10, <2>4, <1>1
      <4>2. \A i \in p..n-1 : m[i].byteSeqNum = l[i+1].byteSeqNum BY <3>8, <3>11, <2>4, <1>1
      <4> QED BY <4>1, <4>2, <3>9, <2>4 DEF TakenFrom
    <3> QED BY <3>12, <2>4 DEF m
  <2> QED BY <2>6, <2>7
<1> QED BY <1>2, <1>3

(* What is left of l, and what has expired, when k nodes have. *)
Split(rest, fired, l, k) ==
  /\ k \in 0..Len(l)
  /\ rest \in Seq(TimerNode) /\ Len(rest) = Len(l) - k
  /\ \A i \in 1..Len(l)-k : rest[i].byteSeqNum = l[k+i].byteSeqNum
  /\ fired \in Seq(Timers) /\ Len(fired) = k
  /\ \A i \in 1..k : fired[i] = l[i].byteSeqNum

(* The k first nodes expire and the others stay. *)
LEMMA ExpiredSplits ==
  ASSUME NEW l \in Seq(TimerNode), NEW k \in 0..Len(l), NEW dtime \in Int
  PROVE  LET d == Expired(l, k, dtime) IN Split(d.rest, d.fired, l, k)
<1> DEFINE n     == Len(l)
           tail  == SubSeq(l, k + 1, n)
           fired == [j \in 1..k |-> l[j].byteSeqNum]
           rest  == IF k = n THEN <<>> ELSE [tail EXCEPT ![1].dtime = dtime]
<1>1. n \in Nat /\ \A i \in 1..n : l[i].byteSeqNum \in Timers BY NodeOf
<1>2. Expired(l, k, dtime).rest = rest /\ Expired(l, k, dtime).fired = fired BY DEF Expired
<1>3. fired \in Seq(Timers) /\ Len(fired) = k /\ \A i \in 1..k : fired[i] = l[i].byteSeqNum
  <2>1. \A j \in 1..k : l[j].byteSeqNum \in Timers BY <1>1
  <2> QED BY <2>1
<1>4. rest \in Seq(TimerNode) /\ Len(rest) = n - k
      /\ \A i \in 1..n-k : rest[i].byteSeqNum = l[k+i].byteSeqNum
  <2>1. CASE k = n BY <2>1, <1>1
  <2>2. CASE k # n
    <3>1. tail \in Seq(TimerNode) /\ Len(tail) = n - k /\ (\A i \in 1..n-k : tail[i] = l[k+i]) /\ 1 \in 1..n-k
      BY <2>2, <1>1
    <3> DEFINE nd == [tail[1] EXCEPT !.dtime = dtime]
    <3> HIDE DEF tail
    <3>2. tail[1] \in TimerNode BY <3>1
    <3>3. nd \in TimerNode /\ nd.byteSeqNum = tail[1].byteSeqNum BY <3>2 DEF TimerNode
    <3>4. rest = [tail EXCEPT ![1] = nd] BY <2>2
    <3> HIDE DEF nd, rest
    <3>5. rest \in Seq(TimerNode) /\ Len(rest) = n - k BY <3>1, <3>3, <3>4
    <3>6. \A i \in 1..n-k : rest[i].byteSeqNum = tail[i].byteSeqNum BY <3>1, <3>3, <3>4
    <3> QED BY <3>1, <3>5, <3>6
  <2> QED BY <2>1, <2>2
<1> HIDE DEF rest, fired
<1> QED BY <1>2, <1>3, <1>4 DEF Split

(* Whatever the deltas are, decrement() takes a front off the list and     *)
(* sends the notices of it, in its order.                                  *)
LEMMA DecrementSplits ==
  ASSUME NEW l \in Seq(TimerNode), NEW dif \in Int
  PROVE  \E k \in 0..Len(l) : Split(Decrement(l, dif).rest, Decrement(l, dif).fired, l, k)
<1> DEFINE n   == Len(l)
           due == Due(l, dif)
           P(j) == (\A i \in 1..j : due[i] <= 0) /\ (j < n => due[j+1] > 0)
           k   == IF due[1] = 0 THEN 1 ELSE CHOOSE j \in 0..n : P(j)
<1>1. n \in Nat OBVIOUS
<1>2. \A i \in 1..n : due[i] \in Int BY DueType
<1>3. CASE l = <<>>
  <2>1. Decrement(l, dif).rest = <<>> /\ Decrement(l, dif).fired = <<>> BY <1>3 DEF Decrement
  <2>2. Split(<<>>, <<>>, l, 0) BY <1>3 DEF Split
  <2> QED BY <2>1, <2>2, <1>1
<1>4. CASE l # <<>>
  <2>1. n > 0 BY <1>4
  <2>2. \E j \in 0..n : P(j)
    <3> DEFINE T == {i \in 1..n : ~(due[i] <= 0)}
    <3> HIDE DEF due
    <3>1. CASE T = {}
      <4>1. n \in 0..n /\ P(n) BY <3>1, <1>1
      <4> QED BY <4>1
    <3>2. CASE T # {}
      <4>1. T \in SUBSET Nat OBVIOUS
      <4>2. PICK m \in T : \A j \in T : m <= j
        <5> HIDE DEF T
        <5> QED BY <3>2, <4>1, NatMin
      <4>3. m \in 1..n /\ ~(due[m] <= 0) /\ due[m] \in Int BY <4>2, <1>2
      <4>4. m - 1 \in 0..n /\ (m - 1) + 1 = m BY <4>3, <1>1
      <4>5. \A i \in 1..m-1 : i \in 1..n /\ ~(m <= i) BY <4>3, <1>1
      <4>6. \A i \in 1..m-1 : due[i] <= 0 BY <4>5, <4>2
      <4>7. due[(m-1)+1] > 0 BY <4>3, <4>4
      <4> QED BY <4>4, <4>6, <4>7
    <3> QED BY <3>1, <3>2
  <2>3. k \in 0..n
    <3>1. (CHOOSE j \in 0..n : P(j)) \in 0..n BY <2>2
    <3> HIDE DEF due, P
    <3> QED BY <3>1, <2>1, <1>1
  <2>4. Decrement(l, dif) = Expired(l, k, IF k < n THEN due[k+1] ELSE 0) BY <1>4 DEF Decrement
  <2> HIDE DEF k, due
  <2>5. (IF k < n THEN due[k+1] ELSE 0) \in Int BY <2>3, <1>1, <1>2
  <2> QED BY <2>3, <2>4, <2>5, ExpiredSplits
<1> QED BY <1>3, <1>4

--------------------------------------------------------------------------------

(* No two nodes, no two notices carry the same number. *)
NodesDiffer(l)   == \A i, j \in 1..Len(l) : l[i].byteSeqNum = l[j].byteSeqNum => i = j
NoticesDiffer(n) == \A i, j \in 1..Len(n) : n[i] = n[j] => i = j

(* Adding a node with a new number. *)
LEMMA PutMembers ==
  ASSUME NEW l \in Seq(TimerNode), NEW m, NEW p, NEW b, PutAt(m, l, p, b)
  PROVE  /\ Members(m) = Members(l) \cup {b}
         /\ NodesDiffer(l) /\ b \notin Members(l) => NodesDiffer(m)
<1>1. Len(l) \in Nat /\ Len(m) = Len(l) + 1 /\ p \in 1..Len(l)+1 BY DEF PutAt
<1>2. \A i \in 1..Len(m) : \/ i = p /\ m[i].byteSeqNum = b
                           \/ i \in 1..p-1 /\ i \in 1..Len(l) /\ m[i].byteSeqNum = l[i].byteSeqNum
                           \/ i \in p+1..Len(m) /\ i-1 \in 1..Len(l) /\ m[i].byteSeqNum = l[i-1].byteSeqNum
  BY <1>1, SMTT(30) DEF PutAt
<1>3. Members(m) \subseteq Members(l) \cup {b} BY <1>2 DEF Members
<1>4. b \in Members(m) BY <1>1 DEF PutAt, Members
<1>5. ASSUME NEW i \in 1..Len(l) PROVE l[i].byteSeqNum \in Members(m)
  <2>1. CASE i < p
    <3>1. i \in 1..p-1 /\ i \in 1..Len(m) BY <2>1, <1>1
    <3>2. m[i].byteSeqNum = l[i].byteSeqNum BY <3>1 DEF PutAt
    <3> QED BY <3>1, <3>2 DEF Members
  <2>2. CASE ~(i < p)
    <3>1. i + 1 \in p+1..Len(l)+1 /\ i + 1 \in 1..Len(m) /\ (i + 1) - 1 = i BY <2>2, <1>1
    <3>2. m[i+1].byteSeqNum = l[i].byteSeqNum BY <3>1 DEF PutAt
    <3> QED BY <3>1, <3>2 DEF Members
  <2> QED BY <2>1, <2>2
<1>6. Members(m) = Members(l) \cup {b} BY <1>3, <1>4, <1>5 DEF Members
<1>7. ASSUME NodesDiffer(l), b \notin Members(l) PROVE NodesDiffer(m)
  <2>1. \A i \in 1..Len(l) : l[i].byteSeqNum # b BY <1>7 DEF Members
  <2> SUFFICES ASSUME NEW i \in 1..Len(m), NEW j \in 1..Len(m), m[i].byteSeqNum = m[j].byteSeqNum
               PROVE  i = j
    BY DEF NodesDiffer
  <2> QED BY <2>1, <1>1, <1>2, <1>7 DEF NodesDiffer
<1> QED BY <1>6, <1>7

(* Taking a node away. *)
LEMMA TakeMembers ==
  ASSUME NEW l \in Seq(TimerNode), NEW m, NEW p, TakenFrom(m, l, p), NodesDiffer(l)
  PROVE  Members(m) = Members(l) \ {l[p].byteSeqNum} /\ NodesDiffer(m)
<1>1. Len(l) \in Nat /\ Len(m) = Len(l) - 1 /\ p \in 1..Len(l) BY DEF TakenFrom
<1>2. \A i \in 1..Len(m) : \/ i \in 1..p-1 /\ i \in 1..Len(l) /\ m[i].byteSeqNum = l[i].byteSeqNum
                           \/ i \in p..Len(m) /\ i+1 \in 1..Len(l) /\ m[i].byteSeqNum = l[i+1].byteSeqNum
  BY <1>1 DEF TakenFrom
<1>3. Members(m) \subseteq Members(l) \ {l[p].byteSeqNum}
  <2> SUFFICES ASSUME NEW i \in 1..Len(m) PROVE m[i].byteSeqNum \in Members(l) \ {l[p].byteSeqNum}
    BY DEF Members
  <2>1. CASE i \in 1..p-1 /\ i \in 1..Len(l) /\ m[i].byteSeqNum = l[i].byteSeqNum
    <3>1. i # p BY <2>1, <1>1
    <3> QED BY <2>1, <3>1, <1>1 DEF Members, NodesDiffer
  <2>2. CASE i \in p..Len(m) /\ i+1 \in 1..Len(l) /\ m[i].byteSeqNum = l[i+1].byteSeqNum
    <3>1. i + 1 # p BY <2>2, <1>1
    <3> QED BY <2>2, <3>1, <1>1 DEF Members, NodesDiffer
  <2> QED BY <2>1, <2>2, <1>2
<1>4. ASSUME NEW i \in 1..Len(l), i # p PROVE l[i].byteSeqNum \in Members(m)
  <2>1. CASE i < p
    <3>1. i \in 1..p-1 /\ i \in 1..Len(m) BY <2>1, <1>1
    <3>2. m[i].byteSeqNum = l[i].byteSeqNum BY <3>1 DEF TakenFrom
    <3> QED BY <3>1, <3>2 DEF Members
  <2>2. CASE ~(i < p)
    <3>1. i - 1 \in p..Len(l)-1 /\ i - 1 \in 1..Len(m) /\ (i - 1) + 1 = i BY <2>2, <1>4, <1>1
    <3>2. m[i-1].byteSeqNum = l[i].byteSeqNum BY <3>1 DEF TakenFrom
    <3> QED BY <3>1, <3>2 DEF Members
  <2> QED BY <2>1, <2>2
<1>5. Members(l) \ {l[p].byteSeqNum} \subseteq Members(m) BY <1>4 DEF Members
<1>6. NodesDiffer(m)
  <2> SUFFICES ASSUME NEW i \in 1..Len(m), NEW j \in 1..Len(m), m[i].byteSeqNum = m[j].byteSeqNum
               PROVE  i = j
    BY DEF NodesDiffer
  <2> QED BY <1>1, <1>2 DEF NodesDiffer
<1> QED BY <1>3, <1>5, <1>6

(* Splitting the list. *)
LEMMA SplitMembers ==
  ASSUME NEW l \in Seq(TimerNode), NEW rest, NEW fired, NEW k, Split(rest, fired, l, k), NodesDiffer(l)
  PROVE  /\ Members(rest) = Members(l) \ Range(fired) /\ Range(fired) \subseteq Members(l)
         /\ NodesDiffer(rest) /\ NoticesDiffer(fired)
<1>1. Len(l) \in Nat /\ Len(rest) = Len(l) - k /\ Len(fired) = k /\ k \in 0..Len(l) BY DEF Split
<1>2. DOMAIN fired = 1..k
  <2>1. fired \in Seq(Timers) BY DEF Split
  <2> QED BY <2>1, <1>1
<1>3. \A i \in 1..k : i \in 1..Len(l) /\ fired[i] = l[i].byteSeqNum BY <1>1 DEF Split
<1>4. \A i \in 1..Len(rest) : k+i \in 1..Len(l) /\ k+i \notin 1..k /\ rest[i].byteSeqNum = l[k+i].byteSeqNum
  BY <1>1 DEF Split
<1>5. Range(fired) = {fired[i] : i \in 1..k} BY <1>2 DEF Range
<1>6. Range(fired) \subseteq Members(l) BY <1>3, <1>5 DEF Members
<1>7. Members(rest) \subseteq Members(l) \ Range(fired)
  <2> SUFFICES ASSUME NEW i \in 1..Len(rest) PROVE rest[i].byteSeqNum \in Members(l) \ Range(fired)
    BY DEF Members
  <2>1. k+i \in 1..Len(l) /\ k+i \notin 1..k /\ rest[i].byteSeqNum = l[k+i].byteSeqNum BY <1>4
  <2>2. ASSUME NEW j \in 1..k PROVE fired[j] # rest[i].byteSeqNum
    <3>1. j \in 1..Len(l) /\ fired[j] = l[j].byteSeqNum BY <1>3
    <3> QED BY <3>1, <2>1 DEF NodesDiffer
  <2> QED BY <2>1, <2>2, <1>5 DEF Members
<1>8. ASSUME NEW i \in 1..Len(l), l[i].byteSeqNum \notin Range(fired) PROVE l[i].byteSeqNum \in Members(rest)
  <2>1. i \notin 1..k BY <1>8, <1>3, <1>5
  <2>2. i - k \in 1..Len(rest) /\ k + (i - k) = i BY <2>1, <1>1
  <2>3. rest[i-k].byteSeqNum = l[i].byteSeqNum BY <2>2, <1>4
  <2> QED BY <2>2, <2>3 DEF Members
<1>9. Members(l) \ Range(fired) \subseteq Members(rest) BY <1>8 DEF Members
<1>10. NodesDiffer(rest)
  <2> SUFFICES ASSUME NEW i \in 1..Len(rest), NEW j \in 1..Len(rest), rest[i].byteSeqNum = rest[j].byteSeqNum
               PROVE  i = j
    BY DEF NodesDiffer
  <2>1. k+i = k+j BY <1>4 DEF NodesDiffer
  <2> QED BY <2>1, <1>1
<1>11. NoticesDiffer(fired) BY <1>1, <1>3 DEF NoticesDiffer, NodesDiffer
<1> QED BY <1>6, <1>7, <1>9, <1>10, <1>11

(* Notices that are sent come behind those that wait. *)
LEMMA NoticesAdded ==
  ASSUME NEW n \in Seq(Timers), NEW f \in Seq(Timers)
  PROVE  /\ n \o f \in Seq(Timers) /\ Range(n \o f) = Range(n) \cup Range(f)
         /\ NoticesDiffer(n) /\ NoticesDiffer(f) /\ Range(n) \cap Range(f) = {} => NoticesDiffer(n \o f)
<1> DEFINE m == n \o f
<1>1. Len(n) \in Nat /\ Len(f) \in Nat OBVIOUS
<1>2. m \in Seq(Timers) /\ Len(m) = Len(n) + Len(f) OBVIOUS
<1>3. \A i \in 1..Len(m) : IF i <= Len(n) THEN i \in 1..Len(n) /\ m[i] = n[i]
                           ELSE i - Len(n) \in 1..Len(f) /\ m[i] = f[i - Len(n)]
  BY <1>1, <1>2
<1>4. \A i \in 1..Len(n) : i \in 1..Len(m) /\ m[i] = n[i] BY <1>1, <1>2
<1>5. \A i \in 1..Len(f) : i + Len(n) \in 1..Len(m) /\ m[i + Len(n)] = f[i] BY <1>1, <1>2
<1> HIDE DEF m
<1>6. Range(m) = {m[i] : i \in 1..Len(m)} /\ Range(n) = {n[i] : i \in 1..Len(n)} /\ Range(f) = {f[i] : i \in 1..Len(f)}
  <2>1. DOMAIN m = 1..Len(m) /\ DOMAIN n = 1..Len(n) /\ DOMAIN f = 1..Len(f) BY <1>2
  <2> QED BY <2>1 DEF Range
<1>7. Range(m) = Range(n) \cup Range(f)
  <2>1. Range(m) \subseteq Range(n) \cup Range(f) BY <1>3, <1>6
  <2>2. Range(n) \subseteq Range(m) BY <1>4, <1>6
  <2>3. Range(f) \subseteq Range(m) BY <1>5, <1>6
  <2> QED BY <2>1, <2>2, <2>3
<1>8. ASSUME NoticesDiffer(n), NoticesDiffer(f), Range(n) \cap Range(f) = {} PROVE NoticesDiffer(m)
  <2> SUFFICES ASSUME NEW i \in 1..Len(m), NEW j \in 1..Len(m), m[i] = m[j] PROVE i = j
    BY DEF NoticesDiffer
  <2>1. \A x \in 1..Len(n), y \in 1..Len(f) : n[x] # f[y] BY <1>6, <1>8
  <2>2. CASE i <= Len(n) /\ j <= Len(n) BY <2>2, <1>3, <1>8 DEF NoticesDiffer
  <2>3. CASE ~(i <= Len(n)) /\ ~(j <= Len(n))
    <3>1. i - Len(n) = j - Len(n) BY <2>3, <1>3, <1>8 DEF NoticesDiffer
    <3> QED BY <3>1, <1>1, <1>2
  <2>4. CASE i <= Len(n) /\ ~(j <= Len(n)) BY <2>4, <2>1, <1>3
  <2>5. CASE ~(i <= Len(n)) /\ j <= Len(n) BY <2>5, <2>1, <1>3
  <2> QED BY <2>2, <2>3, <2>4, <2>5
<1> QED BY <1>2, <1>7, <1>8 DEF m

(* The oldest notice is read. *)
LEMMA NoticeRead ==
  ASSUME NEW n \in Seq(Timers), n # <<>>, NoticesDiffer(n)
  PROVE  /\ Tail(n) \in Seq(Timers) /\ Head(n) \in Timers /\ Head(n) \in Range(n)
         /\ Range(Tail(n)) = Range(n) \ {Head(n)} /\ NoticesDiffer(Tail(n))
<1> DEFINE m == Tail(n)
<1>1. Len(n) \in Nat /\ Len(n) > 0 OBVIOUS
<1>2. m \in Seq(Timers) /\ Len(m) = Len(n) - 1 /\ Head(n) = n[1] /\ Head(n) \in Timers OBVIOUS
<1>3. \A i \in 1..Len(m) : i+1 \in 1..Len(n) /\ i+1 # 1 /\ m[i] = n[i+1] BY <1>1, <1>2
<1> HIDE DEF m
<1>4. Range(m) = {m[i] : i \in 1..Len(m)} /\ Range(n) = {n[i] : i \in 1..Len(n)}
  <2>1. DOMAIN m = 1..Len(m) /\ DOMAIN n = 1..Len(n) BY <1>2
  <2> QED BY <2>1 DEF Range
<1>5. 1 \in 1..Len(n) BY <1>1
<1>6. \A i \in 1..Len(n) : i # 1 => i-1 \in 1..Len(m) /\ m[i-1] = n[i]
  <2> SUFFICES ASSUME NEW i \in 1..Len(n), i # 1 PROVE i-1 \in 1..Len(m) /\ m[i-1] = n[i] OBVIOUS
  <2>1. i - 1 \in 1..Len(m) /\ (i-1)+1 = i BY <1>1, <1>2
  <2> QED BY <2>1, <1>3
<1>7. Range(m) = Range(n) \ {n[1]}
  <2>1. Range(m) \subseteq Range(n) \ {n[1]} BY <1>3, <1>4, <1>5 DEF NoticesDiffer
  <2>2. Range(n) \ {n[1]} \subseteq Range(m) BY <1>4, <1>6
  <2> QED BY <2>1, <2>2
<1>8. NoticesDiffer(m)
  <2> SUFFICES ASSUME NEW i \in 1..Len(m), NEW j \in 1..Len(m), m[i] = m[j] PROVE i = j
    BY DEF NoticesDiffer
  <2>1. i + 1 = j + 1 BY <1>3 DEF NoticesDiffer
  <2> QED BY <2>1, <1>2
<1>9. Head(n) \in Range(n) BY <1>2, <1>4, <1>5
<1> QED BY <1>2, <1>7, <1>8, <1>9 DEF m

--------------------------------------------------------------------------------

IsStart(m, b)  == m.flag = "start" /\ m.byteSeqNum = b
IsCancel(m, b) == m.flag = "cancel" /\ m.byteSeqNum = b

(* Some message of in starts b; none cancels it; one starts it and none    *)
(* behind that one cancels it.                                             *)
Starting(in, b) == \E i \in 1..Len(in) : IsStart(in[i], b)
NoCancel(in, b) == \A i \in 1..Len(in) : ~IsCancel(in[i], b)
StartLast(in, b) ==
  \E i \in 1..Len(in) : IsStart(in[i], b) /\ \A j \in i+1..Len(in) : ~IsCancel(in[j], b)

(* No two messages start the same timer. *)
StartsDiffer(in) ==
  \A i, j \in 1..Len(in) :
    in[i].flag = "start" /\ in[j].flag = "start" /\ in[i].byteSeqNum = in[j].byteSeqNum => i = j

(* What a message can be. *)
LEMMA MessageKinds ==
  ASSUME NEW m \in Message
  PROVE  \/ m.flag = "start" /\ m.byteSeqNum \in Timers /\ m.time \in Durations
         \/ m.flag = "cancel" /\ m.byteSeqNum \in Timers
         \/ m.flag = "quit"
<1>1. CASE m \in [flag : {"start"}, byteSeqNum : Timers, time : Durations] BY <1>1
<1>2. CASE m \in [flag : {"cancel"}, byteSeqNum : Timers] BY <1>2
<1>3. CASE m \in [flag : {"quit"}] BY <1>3
<1> QED BY <1>1, <1>2, <1>3 DEF Message

(* tp takes the oldest message. *)
LEMMA MessageTaken ==
  ASSUME NEW in \in Seq(Message), in # <<>>
  PROVE  /\ Head(in) \in Message /\ Tail(in) \in Seq(Message) /\ Len(Tail(in)) = Len(in) - 1
         /\ StartsDiffer(in) => StartsDiffer(Tail(in))
         /\ \A b : /\ Starting(Tail(in), b) => Starting(in, b)
                   /\ IsStart(Head(in), b) => Starting(in, b)
                   /\ StartsDiffer(in) /\ IsStart(Head(in), b) => ~Starting(Tail(in), b)
                   /\ StartLast(in, b) => \/ StartLast(Tail(in), b)
                                          \/ IsStart(Head(in), b) /\ NoCancel(Tail(in), b)
                   /\ NoCancel(in, b) => NoCancel(Tail(in), b) /\ ~IsCancel(Head(in), b)
<1> DEFINE t == Tail(in)
           h == Head(in)
<1>1. Len(in) \in Nat /\ Len(in) > 0 /\ 1 \in 1..Len(in) /\ h = in[1] /\ h \in Message OBVIOUS
<1>2. t \in Seq(Message) /\ Len(t) = Len(in) - 1 OBVIOUS
<1>3. \A i \in 1..Len(t) : i+1 \in 1..Len(in) /\ i+1 # 1 /\ t[i] = in[i+1] BY <1>1, <1>2
<1>4. \A i \in 1..Len(in) : i # 1 => i-1 \in 1..Len(t) /\ t[i-1] = in[i]
  <2> SUFFICES ASSUME NEW i \in 1..Len(in), i # 1 PROVE i-1 \in 1..Len(t) /\ t[i-1] = in[i] OBVIOUS
  <2>1. i - 1 \in 1..Len(t) /\ (i-1)+1 = i BY <1>1, <1>2
  <2> QED BY <2>1, <1>3
<1> HIDE DEF t, h
<1>5. ASSUME StartsDiffer(in) PROVE StartsDiffer(t)
  <2> SUFFICES ASSUME NEW i \in 1..Len(t), NEW j \in 1..Len(t), t[i].flag = "start", t[j].flag = "start",
                      t[i].byteSeqNum = t[j].byteSeqNum
               PROVE  i = j
    BY DEF StartsDiffer
  <2>1. i + 1 = j + 1 BY <1>3, <1>5 DEF StartsDiffer
  <2> QED BY <2>1, <1>2
<1>6. ASSUME NEW b
      PROVE  /\ Starting(t, b) => Starting(in, b)
             /\ IsStart(h, b) => Starting(in, b)
             /\ StartsDiffer(in) /\ IsStart(h, b) => ~Starting(t, b)
             /\ StartLast(in, b) => StartLast(t, b) \/ (IsStart(h, b) /\ NoCancel(t, b))
             /\ NoCancel(in, b) => NoCancel(t, b) /\ ~IsCancel(h, b)
  <2>1. Starting(t, b) => Starting(in, b) BY <1>3 DEF Starting
  <2>2. IsStart(h, b) => Starting(in, b) BY <1>1 DEF Starting
  <2>3. StartsDiffer(in) /\ IsStart(h, b) => ~Starting(t, b)
    BY <1>1, <1>3 DEF Starting, StartsDiffer, IsStart
  <2>4. NoCancel(in, b) => NoCancel(t, b) /\ ~IsCancel(h, b) BY <1>1, <1>3 DEF NoCancel
  <2>5. ASSUME StartLast(in, b) PROVE StartLast(t, b) \/ (IsStart(h, b) /\ NoCancel(t, b))
    <3>1. PICK i \in 1..Len(in) : IsStart(in[i], b) /\ \A j \in i+1..Len(in) : ~IsCancel(in[j], b)
      BY <2>5 DEF StartLast
    <3>2. CASE i = 1
      <4>1. \A j \in 1..Len(t) : j+1 \in i+1..Len(in) /\ t[j] = in[j+1] BY <3>2, <1>1, <1>2, <1>3
      <4> QED BY <4>1, <3>1, <3>2, <1>1 DEF NoCancel
    <3>3. CASE i # 1
      <4>1. i - 1 \in 1..Len(t) /\ IsStart(t[i-1], b) BY <3>1, <3>3, <1>4
      <4>2. \A j \in (i-1)+1..Len(t) : j+1 \in i+1..Len(in) /\ t[j] = in[j+1] BY <3>3, <1>1, <1>2, <1>3
      <4>3. \A j \in (i-1)+1..Len(t) : ~IsCancel(t[j], b) BY <4>2, <3>1
      <4> QED BY <4>1, <4>3 DEF StartLast
    <3> QED BY <3>2, <3>3
  <2> QED BY <2>1, <2>2, <2>3, <2>4, <2>5
<1> QED BY <1>1, <1>2, <1>5, <1>6 DEF t, h

(* The client sends a message. *)
LEMMA MessageSent ==
  ASSUME NEW in \in Seq(Message), NEW m \in Message
  PROVE  /\ Append(in, m) \in Seq(Message) /\ Len(Append(in, m)) = Len(in) + 1
         /\ \A b : /\ Starting(Append(in, m), b) => Starting(in, b) \/ IsStart(m, b)
                   /\ NoCancel(in, b) /\ ~IsCancel(m, b) => NoCancel(Append(in, m), b)
                   /\ StartLast(in, b) /\ ~IsCancel(m, b) => StartLast(Append(in, m), b)
                   /\ IsStart(m, b) => StartLast(Append(in, m), b)
         /\ StartsDiffer(in) /\ (m.flag = "start" => ~Starting(in, m.byteSeqNum))
              => StartsDiffer(Append(in, m))
<1> DEFINE s == Append(in, m)
           n == Len(in)
<1>1. n \in Nat /\ s \in Seq(Message) /\ Len(s) = n + 1 /\ s[n+1] = m /\ n+1 \in 1..Len(s) OBVIOUS
<1>2. \A i \in 1..n : s[i] = in[i] /\ i \in 1..Len(s) BY <1>1
<1>3. \A i \in 1..Len(s) : i = n+1 \/ i \in 1..n BY <1>1
<1> HIDE DEF s, n
<1>4. ASSUME NEW b
      PROVE  /\ Starting(s, b) => Starting(in, b) \/ IsStart(m, b)
             /\ NoCancel(in, b) /\ ~IsCancel(m, b) => NoCancel(s, b)
             /\ StartLast(in, b) /\ ~IsCancel(m, b) => StartLast(s, b)
             /\ IsStart(m, b) => StartLast(s, b)
  <2>1. Starting(s, b) => Starting(in, b) \/ IsStart(m, b) BY <1>1, <1>2, <1>3 DEF Starting, n
  <2>2. NoCancel(in, b) /\ ~IsCancel(m, b) => NoCancel(s, b) BY <1>1, <1>2, <1>3 DEF NoCancel, n
  <2>3. ASSUME StartLast(in, b), ~IsCancel(m, b) PROVE StartLast(s, b)
    <3>1. PICK i \in 1..n : IsStart(in[i], b) /\ \A j \in i+1..n : ~IsCancel(in[j], b)
      BY <2>3 DEF StartLast, n
    <3>2. \A j \in i+1..Len(s) : j = n+1 \/ (j \in i+1..n /\ j \in 1..n) BY <1>1
    <3>3. \A j \in i+1..Len(s) : ~IsCancel(s[j], b) BY <3>1, <3>2, <2>3, <1>1, <1>2
    <3>4. i \in 1..Len(s) /\ IsStart(s[i], b) BY <3>1, <1>2
    <3> QED BY <3>3, <3>4 DEF StartLast
  <2>4. ASSUME IsStart(m, b) PROVE StartLast(s, b)
    <3>1. \A j \in n+1+1..Len(s) : FALSE BY <1>1
    <3> QED BY <3>1, <2>4, <1>1 DEF StartLast
  <2> QED BY <2>1, <2>2, <2>3, <2>4
<1>5. ASSUME StartsDiffer(in), m.flag = "start" => ~Starting(in, m.byteSeqNum) PROVE StartsDiffer(s)
  <2> SUFFICES ASSUME NEW i \in 1..Len(s), NEW j \in 1..Len(s), s[i].flag = "start", s[j].flag = "start",
                      s[i].byteSeqNum = s[j].byteSeqNum
               PROVE  i = j
    BY DEF StartsDiffer
  <2>1. m.flag = "start" => \A x \in 1..n : ~(in[x].flag = "start" /\ in[x].byteSeqNum = m.byteSeqNum)
    BY <1>5 DEF Starting, IsStart, n
  <2>2. CASE i \in 1..n /\ j \in 1..n BY <2>2, <1>2, <1>5 DEF StartsDiffer, n
  <2>3. CASE i = n+1 /\ j \in 1..n BY <2>3, <2>1, <1>1, <1>2
  <2>4. CASE i \in 1..n /\ j = n+1 BY <2>4, <2>1, <1>1, <1>2
  <2> QED BY <2>2, <2>3, <2>4, <1>3
<1> QED BY <1>1, <1>4, <1>5 DEF s, n

--------------------------------------------------------------------------------

(* What Handled makes of the list, by the kind of message. *)
LEMMA HandledType ==
  ASSUME TypeOK
  PROVE  /\ Handled \in Seq(TimerNode)
         /\ \/ Handled = list /\ (HasMessage => Head(inbox).flag # "start")
            \/ /\ HasMessage /\ Head(inbox).flag = "start" /\ Head(inbox).byteSeqNum \in Timers
               /\ \E p : PutAt(Handled, list, p, Head(inbox).byteSeqNum)
            \/ /\ HasMessage /\ Head(inbox).flag = "cancel" /\ Head(inbox).byteSeqNum \in Timers
               /\ \E p \in 1..Len(list) : /\ list[p].byteSeqNum = Head(inbox).byteSeqNum
                                          /\ TakenFrom(Handled, list, p)
         /\ HasMessage /\ Head(inbox).flag = "cancel" /\ Handled = list
              => Head(inbox).byteSeqNum \notin Members(list)
<1> DEFINE m == Head(inbox)
<1>1. list \in Seq(TimerNode) /\ inbox \in Seq(Message) BY DEF TypeOK
<1>2. CASE ~HasMessage BY <1>1, <1>2 DEF Handled
<1>3. CASE HasMessage
  <2>1. m \in Message BY <1>1, <1>3 DEF HasMessage
  <2> HIDE DEF m
  <2>2. CASE m.flag = "start" /\ m.byteSeqNum \in Timers /\ m.time \in Durations
    <3>1. Handled = InsertValue(list, m.time, m.byteSeqNum) BY <1>3, <2>2 DEF Handled, m
    <3>2. m.time \in Int
      <4>1. m.time \in Durations BY <2>2
      <4>2. \A x \in Durations : x \in Int BY TimerAssumption
      <4> QED BY <4>1, <4>2
    <3>3. PICK p \in 1..Len(list)+1 : PutAt(Handled, list, p, m.byteSeqNum) BY <1>1, <2>2, <3>1, <3>2, InsertPuts
    <3>4. Handled \in Seq(TimerNode) BY <3>3 DEF PutAt
    <3> QED BY <1>3, <2>2, <3>3, <3>4 DEF m
  <2>3. CASE m.flag = "cancel" /\ m.byteSeqNum \in Timers
    <3>1. Handled = RemoveValue(list, m.byteSeqNum) BY <1>3, <2>3 DEF Handled, m
    <3>2. CASE Handled = list /\ \A i \in 1..Len(list) : list[i].byteSeqNum # m.byteSeqNum
      BY <1>1, <2>3, <3>2 DEF m, Members
    <3>3. CASE \E p \in 1..Len(list) : list[p].byteSeqNum = m.byteSeqNum /\ TakenFrom(Handled, list, p)
      <4>1. PICK p \in 1..Len(list) : list[p].byteSeqNum = m.byteSeqNum /\ TakenFrom(Handled, list, p)
        BY <3>3
      <4>2. Handled \in Seq(TimerNode) /\ Len(Handled) = Len(list) - 1 BY <4>1 DEF TakenFrom
      <4>3. Len(list) \in Nat BY <1>1
      <4>4. Handled # list BY <4>2, <4>3
      <4> QED BY <1>3, <2>3, <4>1, <4>2, <4>4 DEF m
    <3> QED BY <1>1, <2>3, <3>1, <3>2, <3>3, RemoveTakes
  <2>4. CASE m.flag = "quit"
    <3>1. Handled = list BY <1>3, <2>4 DEF Handled, m
    <3> QED BY <1>1, <2>4, <3>1 DEF m
  <2> QED BY <2>1, <2>2, <2>3, <2>4, MessageKinds
<1> QED BY <1>2, <1>3

(* A turn splits the list that Handled left. *)
LEMMA TurnSplits ==
  ASSUME TypeOK, Turn
  PROVE  \E fired, k : /\ Split(list', fired, Handled, k)
                       /\ notices' = notices \o fired
                       /\ wait' = (IF list' = <<>> THEN IdleWait ELSE list'[1].dtime)
<1>1. since \in Int BY DEF TypeOK
<1>2. Handled \in Seq(TimerNode) BY HandledType
<1> DEFINE d == Decrement(Handled, since)
<1>3. list' = d.rest /\ notices' = notices \o d.fired
      /\ wait' = (IF list' = <<>> THEN IdleWait ELSE list'[1].dtime)
  BY DEF Turn
<1>4. \E k : Split(d.rest, d.fired, Handled, k) BY <1>1, <1>2, DecrementSplits
<1> HIDE DEF d
<1> QED BY <1>3, <1>4

(* Type correctness: the list is a list whatever the deltas are worth,     *)
(* negative and overdue ones included, so the head that main() reads its   *)
(* next timeout from is always a node.                                     *)
THEOREM TimerTypeCorrect == Spec => []TypeOK
<1>1. Init => TypeOK
  BY TimerAssumption DEF Init, TypeOK
<1>2. TypeOK /\ [Next]_vars => TypeOK'
  <2> SUFFICES ASSUME TypeOK, [Next]_vars PROVE TypeOK' OBVIOUS
  <2>1. CASE Turn
    <3>1. PICK fired, k : /\ Split(list', fired, Handled, k)
                          /\ notices' = notices \o fired
                          /\ wait' = (IF list' = <<>> THEN IdleWait ELSE list'[1].dtime)
      BY <2>1, TurnSplits
    <3>2. list' \in Seq(TimerNode) /\ fired \in Seq(Timers) BY <3>1 DEF Split
    <3>3. notices' \in Seq(Timers) BY <3>1, <3>2 DEF TypeOK
    <3>4. wait' \in Int
      <4>1. CASE list' = <<>> BY <4>1, <3>1, TimerAssumption
      <4>2. CASE list' # <<>>
        <5>1. 1 \in 1..Len(list') BY <4>2, <3>2
        <5>2. list'[1] \in TimerNode BY <5>1, <3>2
        <5> QED BY <4>2, <5>2, <3>1 DEF TimerNode
      <4> QED BY <4>1, <4>2
    <3>5. inbox' \in Seq(Message) /\ Len(inbox') <= InboxMax
      <4>1. CASE HasMessage
        <5>1. inbox' = Tail(inbox) /\ inbox # <<>> /\ inbox \in Seq(Message) /\ Len(inbox) <= InboxMax
          BY <4>1, <2>1 DEF Turn, HasMessage, TypeOK
        <5>2. Len(inbox') = Len(inbox) - 1 /\ inbox' \in Seq(Message) /\ Len(inbox) \in Nat BY <5>1, MessageTaken
        <5> QED BY <5>1, <5>2, TimerAssumption
      <4>2. CASE ~HasMessage BY <4>2, <2>1 DEF Turn, TypeOK
      <4> QED BY <4>1, <4>2
    <3>6. since' = 0 /\ late' = 0 /\ asked' = asked /\ left' = left BY <2>1 DEF Turn
    <3> QED BY <3>2, <3>3, <3>4, <3>5, <3>6, TimerAssumption DEF TypeOK
  <2>2. CASE Tick
    <3>1. late' \in 0..Latency
      <4>1. late \in 0..Latency /\ Latency \in Nat BY TimerAssumption DEF TypeOK
      <4>2. CASE Ready BY <4>1, <4>2, <2>2 DEF Tick
      <4>3. CASE ~Ready BY <4>1, <4>3, <2>2 DEF Tick
      <4> QED BY <4>2, <4>3
    <3>2. left' \in [Timers -> Int]
      <4>1. \A b \in Timers : left[b] \in Int /\ left[b] - 1 \in Int BY DEF TypeOK
      <4> DEFINE new(b) == IF b \in Watched /\ Pending(b) /\ left[b] > -Overdue THEN left[b] - 1 ELSE left[b]
      <4>2. \A b \in Timers : new(b) \in Int BY <4>1
      <4>3. left' = [b \in Timers |-> new(b)] BY <2>2 DEF Tick
      <4> HIDE DEF new
      <4> QED BY <4>2, <4>3
    <3>3. since' \in Nat BY <2>2 DEF Tick, TypeOK
    <3>4. UNCHANGED <<list, wait, inbox, notices, asked>> BY <2>2 DEF Tick
    <3> QED BY <3>1, <3>2, <3>3, <3>4 DEF TypeOK
  <2>3. ASSUME NEW b \in Timers, NEW time \in Durations, StartTimer(b, time) PROVE TypeOK'
    <3> DEFINE m == [flag |-> "start", byteSeqNum |-> b, time |-> time]
    <3>1. m \in Message BY DEF Message
    <3>2. inbox' = Append(inbox, m) /\ Len(inbox) < InboxMax BY <2>3 DEF StartTimer
    <3>3. inbox' \in Seq(Message) /\ Len(inbox') <= InboxMax
      <4> HIDE DEF m
      <4>1. inbox \in Seq(Message) /\ Len(inbox) \in Nat BY DEF TypeOK
      <4>2. inbox' \in Seq(Message) /\ Len(inbox') = Len(inbox) + 1 BY <3>1, <3>2, <4>1, MessageSent
      <4> QED BY <4>1, <4>2, <3>2, TimerAssumption
    <3>4. asked' \in [Timers -> {"fresh", "running", "cancelled", "notified"}]
      BY <2>3 DEF StartTimer, TypeOK
    <3>5. (IF b \in Watched THEN time ELSE 0) \in Int BY TimerAssumption
    <3>6. left' \in [Timers -> Int] BY <2>3, <3>5 DEF StartTimer, TypeOK
    <3>7. UNCHANGED <<list, since, wait, late, notices>> BY <2>3 DEF StartTimer
    <3> QED BY <3>3, <3>4, <3>6, <3>7 DEF TypeOK
  <2>4. ASSUME NEW b \in Timers, CancelTimer(b) PROVE TypeOK'
    <3> DEFINE m == [flag |-> "cancel", byteSeqNum |-> b]
    <3>1. m \in Message BY DEF Message
    <3>2. inbox' = Append(inbox, m) /\ Len(inbox) < InboxMax BY <2>4 DEF CancelTimer
    <3>3. inbox' \in Seq(Message) /\ Len(inbox') <= InboxMax
      <4> HIDE DEF m
      <4>1. inbox \in Seq(Message) /\ Len(inbox) \in Nat BY DEF TypeOK
      <4>2. inbox' \in Seq(Message) /\ Len(inbox') = Len(inbox) + 1 BY <3>1, <3>2, <4>1, MessageSent
      <4> QED BY <4>1, <4>2, <3>2, TimerAssumption
    <3>4. asked' \in [Timers -> {"fresh", "running", "cancelled", "notified"}]
      BY <2>4 DEF CancelTimer, TypeOK
    <3>5. left' \in [Timers -> Int] BY <2>4 DEF CancelTimer, TypeOK
    <3>6. UNCHANGED <<list, since, wait, late, notices>> BY <2>4 DEF CancelTimer
    <3> QED BY <3>3, <3>4, <3>5, <3>6 DEF TypeOK
  <2>5. CASE TimerQuit
    <3> DEFINE m == [flag |-> "quit"]
    <3>1. m \in Message BY DEF Message
    <3>2. inbox' = Append(inbox, m) /\ Len(inbox) < InboxMax BY <2>5 DEF TimerQuit
    <3>3. inbox' \in Seq(Message) /\ Len(inbox') <= InboxMax
      <4> HIDE DEF m
      <4>1. inbox \in Seq(Message) /\ Len(inbox) \in Nat BY DEF TypeOK
      <4>2. inbox' \in Seq(Message) /\ Len(inbox') = Len(inbox) + 1 BY <3>1, <3>2, <4>1, MessageSent
      <4> QED BY <4>1, <4>2, <3>2, TimerAssumption
    <3>4. UNCHANGED <<list, since, wait, late, notices, asked, left>> BY <2>5 DEF TimerQuit
    <3> QED BY <3>3, <3>4 DEF TypeOK
  <2>6. CASE TakeNotice
    <3>1. notices' \in Seq(Timers) BY <2>6 DEF TakeNotice, TypeOK
    <3>2. asked' \in [Timers -> {"fresh", "running", "cancelled", "notified"}]
      BY <2>6 DEF TakeNotice, TypeOK
    <3>3. left' \in [Timers -> Int] BY <2>6 DEF TakeNotice, TypeOK
    <3>4. UNCHANGED <<list, since, wait, late, inbox>> BY <2>6 DEF TakeNotice
    <3> QED BY <3>1, <3>2, <3>3, <3>4 DEF TypeOK
  <2>7. CASE UNCHANGED vars BY <2>7 DEF vars, tpVars, TypeOK
  <2> QED BY <2>1, <2>2, <2>3, <2>4, <2>5, <2>6, <2>7 DEF Next, Client
<1> QED BY <1>1, <1>2, PTL DEF Spec

--------------------------------------------------------------------------------

(* Where a timer can be: in the list, in a notice, in a start message. *)
Placed(l, in, n, b) == b \in Members(l) \/ b \in Range(n) \/ Starting(in, b)

(* It is in one of these only, and there once. *)
OnePlace(l, in, n) ==
  /\ NodesDiffer(l) /\ NoticesDiffer(n) /\ StartsDiffer(in)
  /\ Members(l) \cap Range(n) = {}
  /\ \A b \in Timers : Starting(in, b) => b \notin Members(l) /\ b \notin Range(n)

(* A timer the client waits for is in such a place, and no cancellation    *)
(* that is still to be read will take it from there.                       *)
Safe(l, in, n, b) ==
  StartLast(in, b) \/ ((b \in Members(l) \/ b \in Range(n)) /\ NoCancel(in, b))

(* The inductive invariant: a timer that the client has heard of, or never *)
(* asked for, is nowhere, so that starting it does not double it.          *)
PlaceInv ==
  /\ TypeOK
  /\ OnePlace(list, inbox, notices)
  /\ \A b \in Timers :
       /\ asked[b] \in {"fresh", "notified"} => ~Placed(list, inbox, notices, b)
       /\ asked[b] = "running" => Safe(list, inbox, notices, b)

(* A message is handled: the places before the list is decremented. *)
LEMMA HandledKeepsPlaces ==
  ASSUME PlaceInv
  PROVE  LET in == IF HasMessage THEN Tail(inbox) ELSE inbox
         IN  /\ OnePlace(Handled, in, notices)
             /\ \A b \in Timers :
                  /\ Placed(Handled, in, notices, b) => Placed(list, inbox, notices, b)
                  /\ Safe(list, inbox, notices, b) => Safe(Handled, in, notices, b)
<1> DEFINE in == IF HasMessage THEN Tail(inbox) ELSE inbox
           h  == Head(inbox)
<1>1. list \in Seq(TimerNode) /\ inbox \in Seq(Message) /\ notices \in Seq(Timers) /\ TypeOK
  BY DEF PlaceInv, TypeOK
<1>2. OnePlace(list, inbox, notices) BY DEF PlaceInv
<1>3. CASE ~HasMessage
  <2>1. Handled = list /\ in = inbox BY <1>3 DEF Handled
  <2> QED BY <2>1, <1>2
<1>4. CASE HasMessage
  <2>1. in = Tail(inbox) /\ inbox # <<>> /\ h \in Message BY <1>4, <1>1 DEF HasMessage
  <2>2. /\ StartsDiffer(in)
        /\ \A b : /\ Starting(in, b) => Starting(inbox, b)
                  /\ IsStart(h, b) => Starting(inbox, b)
                  /\ IsStart(h, b) => ~Starting(in, b)
                  /\ StartLast(inbox, b) => StartLast(in, b) \/ (IsStart(h, b) /\ NoCancel(in, b))
                  /\ NoCancel(inbox, b) => NoCancel(in, b) /\ ~IsCancel(h, b)
    BY <2>1, <1>1, <1>2, MessageTaken DEF OnePlace
  <2> HIDE DEF in, h
  <2>3. \/ Handled = list /\ h.flag # "start"
        \/ /\ h.flag = "start" /\ h.byteSeqNum \in Timers
           /\ \E p : PutAt(Handled, list, p, h.byteSeqNum)
        \/ /\ h.flag = "cancel" /\ h.byteSeqNum \in Timers
           /\ \E p \in 1..Len(list) : list[p].byteSeqNum = h.byteSeqNum /\ TakenFrom(Handled, list, p)
    BY <1>1, <1>4, HandledType DEF h
  <2>4. CASE Handled = list /\ h.flag # "start"
    <3>1. \A b : ~IsStart(h, b) BY <2>4 DEF IsStart
    <3> QED BY <1>2, <2>2, <2>4, <3>1 DEF OnePlace, Placed, Safe, in
  <2>5. CASE /\ h.flag = "start" /\ h.byteSeqNum \in Timers
             /\ \E p : PutAt(Handled, list, p, h.byteSeqNum)
    <3> DEFINE c == h.byteSeqNum
    <3>1. c \in Timers /\ IsStart(h, c) /\ \A b : IsStart(h, b) => b = c BY <2>5 DEF IsStart
    <3>2. Members(Handled) = Members(list) \cup {c}
          /\ (NodesDiffer(list) /\ c \notin Members(list) => NodesDiffer(Handled))
      BY <2>5, <1>1, PutMembers
    <3> HIDE DEF c
    <3>3. c \notin Members(list) /\ c \notin Range(notices) /\ ~Starting(in, c)
      BY <1>2, <2>2, <3>1 DEF OnePlace
    <3>4. OnePlace(Handled, in, notices) BY <1>2, <2>2, <3>2, <3>3 DEF OnePlace
    <3>5. \A b \in Timers : Placed(Handled, in, notices, b) => Placed(list, inbox, notices, b)
      BY <2>2, <3>1, <3>2 DEF Placed
    <3>6. \A b \in Timers : Safe(list, inbox, notices, b) => Safe(Handled, in, notices, b)
      BY <2>2, <3>1, <3>2 DEF Safe
    <3> QED BY <3>4, <3>5, <3>6 DEF in
  <2>6. CASE /\ h.flag = "cancel" /\ h.byteSeqNum \in Timers
             /\ \E p \in 1..Len(list) : list[p].byteSeqNum = h.byteSeqNum /\ TakenFrom(Handled, list, p)
    <3> DEFINE c == h.byteSeqNum
    <3>1. IsCancel(h, c) /\ \A b : ~IsStart(h, b) BY <2>6 DEF IsStart, IsCancel
    <3>2. Members(Handled) = Members(list) \ {c} /\ NodesDiffer(Handled)
      BY <2>6, <1>1, <1>2, TakeMembers DEF OnePlace
    <3> HIDE DEF c
    <3>3. OnePlace(Handled, in, notices) BY <1>2, <2>2, <3>2 DEF OnePlace
    <3>4. \A b \in Timers : Placed(Handled, in, notices, b) => Placed(list, inbox, notices, b)
      BY <2>2, <3>2 DEF Placed
    <3>5. \A b \in Timers : Safe(list, inbox, notices, b) => Safe(Handled, in, notices, b)
      <4> SUFFICES ASSUME NEW b \in Timers, Safe(list, inbox, notices, b) PROVE Safe(Handled, in, notices, b)
        OBVIOUS
      <4>1. CASE StartLast(inbox, b) BY <4>1, <2>2, <3>1 DEF Safe
      <4>2. CASE (b \in Members(list) \/ b \in Range(notices)) /\ NoCancel(inbox, b)
        <5>1. b # c BY <4>2, <2>2, <3>1
        <5> QED BY <4>2, <5>1, <2>2, <3>2 DEF Safe
      <4> QED BY <4>1, <4>2 DEF Safe
    <3> QED BY <3>3, <3>4, <3>5 DEF in
  <2> QED BY <2>3, <2>4, <2>5, <2>6
<1> QED BY <1>3, <1>4

(* Timers expire: they move from the list to the notices. *)
LEMMA SplitKeepsPlaces ==
  ASSUME NEW l \in Seq(TimerNode), NEW in, NEW n \in Seq(Timers), OnePlace(l, in, n),
         NEW rest, NEW fired, NEW k, Split(rest, fired, l, k)
  PROVE  /\ OnePlace(rest, in, n \o fired)
         /\ \A b : /\ Placed(rest, in, n \o fired, b) => Placed(l, in, n, b)
                   /\ Safe(l, in, n, b) => Safe(rest, in, n \o fired, b)
<1> DEFINE m == n \o fired
<1>1. fired \in Seq(Timers) BY DEF Split
<1>2. /\ Members(rest) = Members(l) \ Range(fired) /\ Range(fired) \subseteq Members(l)
      /\ NodesDiffer(rest) /\ NoticesDiffer(fired)
  BY SplitMembers DEF OnePlace
<1>3. Range(n) \cap Range(fired) = {} BY <1>2 DEF OnePlace
<1>4. Range(m) = Range(n) \cup Range(fired) /\ NoticesDiffer(m)
  BY <1>1, <1>2, <1>3, NoticesAdded DEF OnePlace
<1> HIDE DEF m
<1>5. OnePlace(rest, in, m) BY <1>2, <1>3, <1>4 DEF OnePlace
<1>6. \A b : Placed(rest, in, m, b) => Placed(l, in, n, b) BY <1>2, <1>4 DEF Placed
<1>7. \A b : Safe(l, in, n, b) => Safe(rest, in, m, b) BY <1>2, <1>4 DEF Safe
<1> QED BY <1>5, <1>6, <1>7 DEF m

(* The invariant is inductive. *)
LEMMA PlaceInvStep == PlaceInv /\ TypeOK' /\ [Next]_vars => PlaceInv'
<1> SUFFICES ASSUME PlaceInv, TypeOK', [Next]_vars PROVE PlaceInv' OBVIOUS
<1>0. /\ list \in Seq(TimerNode) /\ inbox \in Seq(Message) /\ notices \in Seq(Timers) /\ TypeOK
      /\ OnePlace(list, inbox, notices)
      /\ asked \in [Timers -> {"fresh", "running", "cancelled", "notified"}]
  BY DEF PlaceInv, TypeOK
<1>1. CASE Turn
  <2>1. PICK fired, k : Split(list', fired, Handled, k) /\ notices' = notices \o fired
    BY <1>0, <1>1, TurnSplits
  <2> DEFINE in == IF HasMessage THEN Tail(inbox) ELSE inbox
  <2>2. inbox' = in /\ asked' = asked BY <1>1 DEF Turn
  <2>3. /\ OnePlace(Handled, in, notices)
        /\ \A b \in Timers :
             /\ Placed(Handled, in, notices, b) => Placed(list, inbox, notices, b)
             /\ Safe(list, inbox, notices, b) => Safe(Handled, in, notices, b)
    BY HandledKeepsPlaces
  <2>4. Handled \in Seq(TimerNode) BY <1>0, HandledType
  <2> HIDE DEF in
  <2>5. /\ OnePlace(list', in, notices')
        /\ \A b : /\ Placed(list', in, notices', b) => Placed(Handled, in, notices, b)
                  /\ Safe(Handled, in, notices, b) => Safe(list', in, notices', b)
    BY <1>0, <2>1, <2>3, <2>4, SplitKeepsPlaces
  <2>6. OnePlace(list', inbox', notices') BY <2>2, <2>5
  <2>7. ASSUME NEW b \in Timers
        PROVE  /\ asked'[b] \in {"fresh", "notified"} => ~Placed(list', inbox', notices', b)
               /\ asked'[b] = "running" => Safe(list', inbox', notices', b)
    BY <2>2, <2>3, <2>5 DEF PlaceInv
  <2> QED BY <2>6, <2>7 DEF PlaceInv
<1>2. CASE Tick BY <1>2 DEF Tick, PlaceInv
<1>3. ASSUME NEW c \in Timers, NEW time \in Durations, StartTimer(c, time) PROVE PlaceInv'
  <2> DEFINE m == [flag |-> "start", byteSeqNum |-> c, time |-> time]
  <2>1. m \in Message /\ m.flag = "start" /\ IsStart(m, c) /\ \A b : ~IsCancel(m, b) /\ (IsStart(m, b) => b = c)
    BY DEF Message, IsStart, IsCancel
  <2>2. m.byteSeqNum = c OBVIOUS
  <2>3. /\ inbox' = Append(inbox, m) /\ asked' = [asked EXCEPT ![c] = "running"]
        /\ UNCHANGED <<list, notices>> /\ asked[c] \in {"fresh", "notified"}
    BY <1>3 DEF StartTimer
  <2> HIDE DEF m
  <2>4. ~Placed(list, inbox, notices, c) BY <2>3 DEF PlaceInv
  <2>5. /\ \A b : /\ Starting(inbox', b) => Starting(inbox, b) \/ IsStart(m, b)
                  /\ NoCancel(inbox, b) => NoCancel(inbox', b)
                  /\ StartLast(inbox, b) => StartLast(inbox', b)
                  /\ IsStart(m, b) => StartLast(inbox', b)
        /\ StartsDiffer(inbox) /\ ~Starting(inbox, c) => StartsDiffer(inbox')
    BY <1>0, <2>1, <2>2, <2>3, MessageSent
  <2>6. OnePlace(list', inbox', notices')
    BY <1>0, <2>1, <2>3, <2>4, <2>5 DEF OnePlace, Placed
  <2>7. ASSUME NEW b \in Timers
        PROVE  /\ asked'[b] \in {"fresh", "notified"} => ~Placed(list', inbox', notices', b)
               /\ asked'[b] = "running" => Safe(list', inbox', notices', b)
    <3>1. CASE b = c
      <4>1. asked'[b] = "running" BY <3>1, <2>3, <1>0
      <4>2. Safe(list', inbox', notices', b) BY <3>1, <2>1, <2>5 DEF Safe
      <4> QED BY <4>1, <4>2
    <3>2. CASE b # c
      <4>1. asked'[b] = asked[b] /\ ~IsStart(m, b) BY <3>2, <2>1, <2>3, <1>0
      <4> QED BY <4>1, <2>3, <2>5 DEF PlaceInv, Placed, Safe
    <3> QED BY <3>1, <3>2
  <2> QED BY <2>6, <2>7 DEF PlaceInv
<1>4. ASSUME NEW c \in Timers, CancelTimer(c) PROVE PlaceInv'
  <2> DEFINE m == [flag |-> "cancel", byteSeqNum |-> c]
  <2>1. m \in Message /\ m.flag # "start" /\ \A b : ~IsStart(m, b) /\ (IsCancel(m, b) => b = c)
    BY DEF Message, IsStart, IsCancel
  <2>2. /\ inbox' = Append(inbox, m) /\ asked' = [asked EXCEPT ![c] = "cancelled"]
        /\ UNCHANGED <<list, notices>>
    BY <1>4 DEF CancelTimer
  <2> HIDE DEF m
  <2>3. /\ \A b : /\ Starting(inbox', b) => Starting(inbox, b)
                  /\ b # c /\ NoCancel(inbox, b) => NoCancel(inbox', b)
                  /\ b # c /\ StartLast(inbox, b) => StartLast(inbox', b)
        /\ StartsDiffer(inbox) => StartsDiffer(inbox')
    BY <1>0, <2>1, <2>2, MessageSent
  <2>4. OnePlace(list', inbox', notices') BY <1>0, <2>2, <2>3 DEF OnePlace
  <2>5. ASSUME NEW b \in Timers
        PROVE  /\ asked'[b] \in {"fresh", "notified"} => ~Placed(list', inbox', notices', b)
               /\ asked'[b] = "running" => Safe(list', inbox', notices', b)
    <3>1. CASE b = c
      <4>1. asked'[b] = "cancelled" BY <3>1, <2>2, <1>0
      <4> QED BY <4>1
    <3>2. CASE b # c
      <4>1. asked'[b] = asked[b] BY <3>2, <2>2, <1>0
      <4> QED BY <4>1, <3>2, <2>2, <2>3 DEF PlaceInv, Placed, Safe
    <3> QED BY <3>1, <3>2
  <2> QED BY <2>4, <2>5 DEF PlaceInv
<1>5. CASE TimerQuit
  <2> DEFINE m == [flag |-> "quit"]
  <2>1. m \in Message /\ m.flag # "start" /\ \A b : ~IsStart(m, b) /\ ~IsCancel(m, b)
    BY DEF Message, IsStart, IsCancel
  <2>2. inbox' = Append(inbox, m) /\ UNCHANGED <<list, notices, asked>> BY <1>5 DEF TimerQuit
  <2> HIDE DEF m
  <2>3. /\ \A b : /\ Starting(inbox', b) => Starting(inbox, b)
                  /\ NoCancel(inbox, b) => NoCancel(inbox', b)
                  /\ StartLast(inbox, b) => StartLast(inbox', b)
        /\ StartsDiffer(inbox) => StartsDiffer(inbox')
    BY <1>0, <2>1, <2>2, MessageSent
  <2>4. OnePlace(list', inbox', notices') BY <1>0, <2>2, <2>3 DEF OnePlace
  <2> QED BY <2>2, <2>3, <2>4 DEF PlaceInv, Placed, Safe
<1>6. CASE TakeNotice
  <2> DEFINE c == Head(notices)
  <2>1. /\ notices # <<>> /\ notices' = Tail(notices) /\ asked' = [asked EXCEPT ![c] = "notified"]
        /\ UNCHANGED <<list, inbox>>
    BY <1>6 DEF TakeNotice
  <2>2. /\ c \in Timers /\ c \in Range(notices)
        /\ Range(notices') = Range(notices) \ {c} /\ NoticesDiffer(notices')
    BY <1>0, <2>1, NoticeRead DEF OnePlace
  <2> HIDE DEF c
  <2>3. OnePlace(list', inbox', notices') BY <1>0, <2>1, <2>2 DEF OnePlace
  <2>4. ASSUME NEW b \in Timers
        PROVE  /\ asked'[b] \in {"fresh", "notified"} => ~Placed(list', inbox', notices', b)
               /\ asked'[b] = "running" => Safe(list', inbox', notices', b)
    <3>1. CASE b = c
      <4>1. asked'[b] = "notified" BY <3>1, <2>1, <1>0
      <4>2. ~Placed(list', inbox', notices', b) BY <3>1, <2>1, <2>2, <1>0 DEF OnePlace, Placed
      <4> QED BY <4>1, <4>2
    <3>2. CASE b # c
      <4>1. asked'[b] = asked[b] BY <3>2, <2>1, <1>0
      <4> QED BY <4>1, <3>2, <2>1, <2>2 DEF PlaceInv, Placed, Safe
    <3> QED BY <3>1, <3>2
  <2> QED BY <2>3, <2>4 DEF PlaceInv
<1>7. CASE UNCHANGED vars BY <1>7 DEF vars, tpVars, PlaceInv
<1> QED BY <1>1, <1>2, <1>3, <1>4, <1>5, <1>6, <1>7 DEF Next, Client

(* It holds initially: tp knows no timer and nothing is on its way. *)
LEMMA PlaceInvInit == Init => PlaceInv
<1> SUFFICES ASSUME Init PROVE PlaceInv OBVIOUS
<1>1. TypeOK BY TimerAssumption DEF Init, TypeOK
<1>2. list = <<>> /\ inbox = <<>> /\ notices = <<>> /\ asked = [b \in Timers |-> "fresh"] BY DEF Init
<1>3. Members(list) = {} /\ Range(notices) = {} /\ \A b : ~Starting(inbox, b)
  <2>1. Len(list) = 0 /\ Len(inbox) = 0 /\ DOMAIN notices = {} BY <1>2
  <2> QED BY <2>1 DEF Members, Range, Starting
<1>4. OnePlace(list, inbox, notices)
  BY <1>2, <1>3 DEF OnePlace, NodesDiffer, NoticesDiffer, StartsDiffer
<1> QED BY <1>1, <1>2, <1>3, <1>4 DEF PlaceInv, Placed

(* The places are disjoint throughout. *)
LEMMA PlacesHold == Spec => []PlaceInv
<1>1. PlaceInv /\ TypeOK' /\ [Next]_vars => PlaceInv' BY PlaceInvStep
<1> QED BY <1>1, PlaceInvInit, TimerTypeCorrect, PTL DEF Spec

(* A set without two different members. *)
LEMMA AtMostOneMember ==
  ASSUME NEW S, \A x, y \in S : x = y
  PROVE  Cardinality(S) = (IF S = {} THEN 0 ELSE 1)
<1>1. CASE S = {} BY <1>1, FS_EmptySet
<1>2. CASE S # {}
  <2>1. PICK x : x \in S BY <1>2
  <2>2. S = {x} BY <2>1
  <2> QED BY <1>2, <2>2, FS_Singleton
<1> QED BY <1>1, <1>2

(* The places of a timer counted, as EachTimerOnce does. *)
LEMMA PlacesCounted == PlaceInv => EachTimerOnce
<1> SUFFICES ASSUME PlaceInv, NEW b \in Timers
             PROVE  LET nodes   == {i \in 1..Len(list) : list[i].byteSeqNum = b}
                        starts  == Messages(b, {"start"})
                        expired == {i \in 1..Len(notices) : notices[i] = b}
                        places  == Cardinality(nodes) + Cardinality(starts) + Cardinality(expired)
                    IN  places <= 1 /\ (asked[b] = "running" => places = 1)
  BY DEF EachTimerOnce
<1> DEFINE nodes   == {i \in 1..Len(list) : list[i].byteSeqNum = b}
           starts  == Messages(b, {"start"})
           expired == {i \in 1..Len(notices) : notices[i] = b}
<1>1. OnePlace(list, inbox, notices) /\ notices \in Seq(Timers) BY DEF PlaceInv, TypeOK
<1>2. Cardinality(nodes) = IF b \in Members(list) THEN 1 ELSE 0
  <2>1. \A x, y \in nodes : x = y BY <1>1 DEF OnePlace, NodesDiffer
  <2>2. nodes = {} <=> b \notin Members(list) BY DEF Members
  <2> HIDE DEF nodes
  <2> QED BY <2>1, <2>2, AtMostOneMember
<1>3. Cardinality(starts) = IF Starting(inbox, b) THEN 1 ELSE 0
  <2>1. starts = {i \in 1..Len(inbox) : IsStart(inbox[i], b)} BY DEF Messages, IsStart
  <2>2. \A x, y \in starts : x = y BY <2>1, <1>1 DEF OnePlace, StartsDiffer, IsStart
  <2>3. starts = {} <=> ~Starting(inbox, b) BY <2>1 DEF Starting
  <2> HIDE DEF starts
  <2> QED BY <2>2, <2>3, AtMostOneMember
<1>4. Cardinality(expired) = IF b \in Range(notices) THEN 1 ELSE 0
  <2>1. \A x, y \in expired : x = y BY <1>1 DEF OnePlace, NoticesDiffer
  <2>2. DOMAIN notices = 1..Len(notices) BY <1>1
  <2>3. expired = {} <=> b \notin Range(notices) BY <2>2 DEF Range
  <2> HIDE DEF expired
  <2> QED BY <2>1, <2>3, AtMostOneMember
<1>5. ~(b \in Members(list) /\ b \in Range(notices))
      /\ (Starting(inbox, b) => b \notin Members(list) /\ b \notin Range(notices))
  BY <1>1 DEF OnePlace
<1>6. asked[b] = "running" => b \in Members(list) \/ b \in Range(notices) \/ Starting(inbox, b)
  BY DEF PlaceInv, Safe, StartLast, Starting
<1> HIDE DEF nodes, starts, expired
<1>7. Cardinality(nodes) + Cardinality(starts) + Cardinality(expired) <= 1 BY <1>2, <1>3, <1>4, <1>5
<1>8. asked[b] = "running" => Cardinality(nodes) + Cardinality(starts) + Cardinality(expired) = 1
  BY <1>2, <1>3, <1>4, <1>5, <1>6
<1> QED BY <1>7, <1>8 DEF nodes, starts, expired

(* In whatever order messages and notices cross, however late a turn comes *)
(* and whatever has become of the deltas: insertValue(), removeValue() and *)
(* decrement() lose no timer and double none.                              *)
THEOREM NoTimerLost == Spec => []EachTimerOnce
  BY PlacesHold, PlacesCounted, PTL

--------------------------------------------------------------------------------

(* Notices without repetition are an ordering of the set of them. *)
LEMMA FiredIsOrder ==
  ASSUME NEW f \in Seq(Timers), NoticesDiffer(f)
  PROVE  f \in SetToSeqs(Range(f))
<1> DEFINE R == Range(f)
           n == Len(f)
<1>1. n \in Nat /\ DOMAIN f = 1..n BY DEF n
<1>2. f \in [1..n -> R] /\ \A t \in R : \E i \in 1..n : f[i] = t
  <2>1. f = [i \in 1..n |-> f[i]] BY <1>1
  <2> HIDE DEF n
  <2> QED BY <1>1, <2>1 DEF Range
<1>3. \A i, j \in 1..n : f[i] = f[j] => i = j BY DEF NoticesDiffer
<1> HIDE DEF R, n
<1>4. f \in Bijection(1..n, R)
  BY <1>1, <1>2, <1>3 DEF Bijection, Injection, Surjection, IsInjective
<1>5. ExistsBijection(1..n, R) BY <1>4 DEF ExistsBijection
<1>6. Cardinality(R) = n BY <1>1, <1>5, FS_CountingElements
<1>7. f \in SetToSeqs(R) BY <1>2, <1>3, <1>6 DEF SetToSeqs
<1> QED BY <1>7 DEF R

(* Splitting the list is what TimerSet calls Expire. *)
LEMMA SplitIsExpire ==
  ASSUME NEW l \in Seq(TimerNode), NodesDiffer(l),
         NEW fired, NEW k, Split(list', fired, l, k), notices' = notices \o fired
  PROVE  Service!Expire(Members(l))
<1>1. fired \in Seq(Timers) BY DEF Split
<1>2. Members(list') = Members(l) \ Range(fired) /\ Range(fired) \subseteq Members(l) /\ NoticesDiffer(fired)
  BY SplitMembers
<1>3. fired \in SetToSeqs(Range(fired)) BY <1>1, <1>2, FiredIsOrder
<1>4. Members(list)' = Members(l) \ Range(fired) BY <1>2 DEF Members
<1>5. Range(fired) \in SUBSET Members(l) BY <1>2
<1>6. \E due \in SUBSET Members(l) : \E order \in SetToSeqs(due) :
        Members(list)' = Members(l) \ due /\ notices' = notices \o order
  BY <1>3, <1>4, <1>5
<1>7. \A due : SetToSeqs(due) = Service!SetToSeqs(due)
  <2>1. \A S : Cardinality(S) = Service!Cardinality(S) BY DEF Cardinality, Service!Cardinality
  <2> QED BY <2>1 DEF SetToSeqs, Service!SetToSeqs
<1> QED BY <1>6, <1>7 DEF Service!Expire

(* A turn starts, cancels or only expires timers; the client's actions are *)
(* not seen by the service, but for reading a notice.                      *)
LEMMA TimerStepIsService == PlaceInv /\ [Next]_vars => [Service!Next]_<<Members(list), notices>>
<1> SUFFICES ASSUME PlaceInv, [Next]_vars PROVE [Service!Next]_<<Members(list), notices>> OBVIOUS
<1>0. /\ list \in Seq(TimerNode) /\ inbox \in Seq(Message) /\ TypeOK /\ NodesDiffer(list)
      /\ OnePlace(list, inbox, notices)
  BY DEF PlaceInv, TypeOK, OnePlace
<1>1. CASE Turn
  <2> DEFINE h == Head(inbox)
             c == h.byteSeqNum
  <2>1. PICK fired, k : Split(list', fired, Handled, k) /\ notices' = notices \o fired
    BY <1>0, <1>1, TurnSplits
  <2>2. Handled \in Seq(TimerNode) /\ NodesDiffer(Handled)
    BY <1>0, HandledType, HandledKeepsPlaces DEF OnePlace
  <2>3. Service!Expire(Members(Handled)) BY <2>1, <2>2, SplitIsExpire
  <2>4. CASE Handled = list BY <2>3, <2>4 DEF Service!Next
  <2>5. CASE /\ HasMessage /\ h.flag = "start" /\ c \in Timers
             /\ \E p : PutAt(Handled, list, p, c)
    <3>1. Members(Handled) = Members(list) \cup {c} BY <2>5, <1>0, PutMembers
    <3>2. inbox # <<>> /\ IsStart(h, c) BY <2>5 DEF HasMessage, IsStart
    <3>3. Starting(inbox, c) BY <1>0, <3>2, MessageTaken
    <3>4. c \notin Members(list) BY <1>0, <2>5, <3>3 DEF OnePlace
    <3>5. Service!Start(c) BY <2>3, <3>1, <3>4 DEF Service!Start
    <3> QED BY <2>5, <3>5 DEF Service!Next
  <2>6. CASE /\ HasMessage /\ h.flag = "cancel" /\ c \in Timers
             /\ \E p \in 1..Len(list) : list[p].byteSeqNum = c /\ TakenFrom(Handled, list, p)
    <3>1. Members(Handled) = Members(list) \ {c} BY <2>6, <1>0, TakeMembers
    <3>2. Service!Cancel(c) BY <2>3, <3>1 DEF Service!Cancel
    <3> QED BY <2>6, <3>2 DEF Service!Next
  <2> QED BY <1>0, <2>4, <2>5, <2>6, HandledType
<1>2. CASE Tick BY <1>2 DEF Tick
<1>3. ASSUME NEW b \in Timers, NEW time \in Durations, StartTimer(b, time)
      PROVE  UNCHANGED <<Members(list), notices>>
  BY <1>3 DEF StartTimer
<1>4. ASSUME NEW b \in Timers, CancelTimer(b) PROVE UNCHANGED <<Members(list), notices>>
  BY <1>4 DEF CancelTimer
<1>5. CASE TimerQuit BY <1>5 DEF TimerQuit
<1>6. CASE TakeNotice
  <2>1. Service!Read BY <1>6 DEF TakeNotice, Service!Read
  <2> QED BY <2>1 DEF Service!Next
<1>7. CASE UNCHANGED vars BY <1>7 DEF vars, tpVars
<1> QED BY <1>1, <1>2, <1>3, <1>4, <1>5, <1>6, <1>7 DEF Next, Client

(* The timer process keeps the promise the client daemon builds on: seen   *)
(* through the numbers in its list it is TimerSet.  Nothing it is not      *)
(* counting for is ever notified, and nothing leaves the list but by a     *)
(* cancellation or with a notice.                                          *)
THEOREM TpImplementsService == Spec => ServiceSpec
<1>1. Init => Service!Init
  <2> SUFFICES ASSUME Init PROVE Service!Init OBVIOUS
  <2>1. list = <<>> /\ notices = <<>> BY DEF Init
  <2>2. Members(list) = {} BY <2>1 DEF Members
  <2> QED BY <2>1, <2>2 DEF Service!Init
<1>2. PlaceInv /\ [Next]_vars => [Service!Next]_<<Members(list), notices>> BY TimerStepIsService
<1> QED BY <1>1, <1>2, PlacesHold, PTL DEF Spec, ServiceSpec, Service!Spec

================================================================================
