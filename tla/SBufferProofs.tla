------------------------------ MODULE SBufferProofs ----------------------------
(* The reassembly buffer keeps what it acknowledges and hands it to ftps   *)
(* in order, whatever the sizes, as long as no copy comes of a packet that *)
(* ftps has read (OldCopies = FALSE).                                      *)
EXTENDS SBuffer, TLAPS, WellFoundedInduction

(* x is a whole number of laps of the buffer. *)
Laps(x) == x % BufSize = 0

(* Packet s begins at address d (one may have to wrap it first). *)
Begins(d, s) == Laps(d - (s - 1) * Mss)

(* The packets of a filled node are packets ftps has not read and the      *)
(* buffer has room for, and its bytes end where those of its last packet   *)
(* do.  Only of the node at the head may bytes have been read.             *)
FilledOK(nd, start) ==
  /\ nd.firstSeq \in start..nd.lastSeq /\ nd.lastSeq <= MaxSeq /\ nd.lastSeq <= start + Packets - 1
  /\ nd.size \in 1..(nd.lastSeq - nd.firstSeq + 1) * Mss
  /\ Laps(nd.data + nd.size - nd.lastSeq * Mss)

Whole(nd) == nd.size = (nd.lastSeq - nd.firstSeq + 1) * Mss

(* A node that ftps has still to come to.  A hole among them begins where  *)
(* its first packet belongs, and has room for its packets, if their number *)
(* is known.                                                               *)
Live(nd, start) == nd.firstSeq >= start
LiveHoleOK(nd) ==
  /\ nd.firstSeq <= nd.lastSeq /\ nd.firstSeq <= MaxInt
  /\ nd.lastSeq = MaxInt \/ Whole(nd)
  /\ Begins(nd.data, nd.firstSeq)

(* A hole that is left where ftps has read. *)
SpentOK(nd, start) == nd.firstSeq <= nd.lastSeq /\ nd.lastSeq < start

NodeOK(nd, start) ==
  IF nd.filled THEN FilledOK(nd, start)
  ELSE IF Live(nd, start) THEN LiveHoleOK(nd) ELSE SpentOK(nd, start)

(* Node b right after node a: the live nodes go on without a gap, and so   *)
(* do the spent ones; no two holes among the live ones.                    *)
Adjacent(a, b, start) ==
  /\ Live(b, start) => b.firstSeq = a.lastSeq + 1 /\ (a.filled \/ b.filled)
  /\ ~Live(a, start) => b.firstSeq = a.lastSeq + 1

(* Node b anywhere after node a: the spent nodes are at the end. *)
InOrder(a, b, start) == Live(b, start) => Live(a, start) /\ a.lastSeq < b.firstSeq

ListOK(l, start) ==
  /\ l \in Seq(CirNode) /\ Len(l) >= 1
  /\ \A i \in 1..Len(l) : NodeOK(l[i], start) /\ (i # 1 /\ l[i].filled => Whole(l[i]))
  /\ \A i, j \in 1..Len(l) : i < j => InOrder(l[i], l[j], start)
  /\ \A i \in 1..Len(l)-1 : Adjacent(l[i], l[i+1], start)
  /\ Live(l[1], start) => l[1].firstSeq = start
  /\ ~Live(l[Len(l)], start) => l[Len(l)].lastSeq = start - 1

(* No node can be joined with the one after it. *)
NoJoin(l, start) == \A i \in 1..Len(l)-1 : ~Joins(l[i], l[i+1], start)

(* The packets in the filled nodes. *)
Holds(l, s) == \E i \in 1..Len(l) : l[i].filled /\ s \in l[i].firstSeq..l[i].lastSeq

(* ftps has read up to the first byte of the head. *)
ReadUpTo(l, start) == IF l[1].filled THEN l[1].lastSeq * Mss - l[1].size ELSE (start - 1) * Mss

ListInv ==
  /\ ListOK(list, dstart) /\ NoJoin(list, dstart)
  /\ \A s \in 1..MaxSeq : s >= dstart => (s \in answered <=> Holds(list, s))
  /\ readPos = ReadUpTo(list, dstart)
  /\ \A s \in 1..MaxSeq : Holds(list, s) => \A q \in (s-1)*Mss..s*Mss-1 : buffer[q % BufSize] = q

BufferInv == TypeOK /\ ListInv /\ ReadIsTheStream

--------------------------------------------------------------------------------

(* What the constants allow. *)
LEMMA Sizes == /\ Packets \in Nat /\ Packets >= 1 /\ Mss \in Nat /\ Mss >= 1
               /\ BufSize \in Nat \ {0} /\ BufSize = Packets * Mss /\ BufSize >= Mss
               /\ MaxSeq \in Nat /\ MaxInt \in Nat /\ MaxSeq < MaxInt
<1>1. Packets \in Nat \ {0} /\ Mss \in Nat \ {0} /\ MaxSeq \in 0..MaxInt-1 BY BufferAssumption
<1>2. MaxInt \in Nat BY SMT DEF MaxInt
<1>3. Packets * Mss \in Nat \ {0} /\ Packets * Mss >= Mss BY <1>1
<1>4. MaxSeq \in Nat /\ MaxSeq < MaxInt BY <1>1, <1>2
<1> QED BY <1>1, <1>2, <1>3, <1>4 DEF BufSize

(* Quotient and remainder of a division. *)
LEMMA DivMod ==
  ASSUME NEW b \in Nat \ {0}, NEW x \in Int
  PROVE  /\ x % b \in 0..b-1
         /\ x \div b \in Int
         /\ x = b * (x \div b) + (x % b)
  OBVIOUS

(* Less than a lap that is whole laps is none. *)
LEMMA NoWholeLap ==
  ASSUME NEW b \in Nat \ {0}, NEW d \in Int, NEW q \in Int, d = b * q, -b < d, d < b
  PROVE  d = 0
<1>1. CASE q >= 1
  <2>1. b * q >= b BY <1>1
  <2> QED BY <2>1
<1>2. CASE q <= -1
  <2>1. b * q <= -b BY <1>2
  <2> QED BY <2>1
<1>3. CASE q = 0 BY <1>3
<1> QED BY <1>1, <1>2, <1>3

(* Laps are the multiples of the buffer's size. *)
LEMMA LapsAre == ASSUME NEW x \in Int PROVE Laps(x) <=> \E q \in Int : x = BufSize * q
<1>1. ASSUME Laps(x) PROVE \E q \in Int : x = BufSize * q
  <2> DEFINE p == x \div BufSize
             r == x % BufSize
  <2>1. p \in Int /\ x = BufSize * p + r BY Sizes, DivMod
  <2>2. r = 0 BY <1>1 DEF Laps
  <2> HIDE DEF p, r
  <2>3. x = BufSize * p BY <2>1, <2>2, Sizes
  <2> QED BY <2>1, <2>3
<1>2. ASSUME NEW q \in Int, x = BufSize * q PROVE Laps(x)
  <2> DEFINE p == x \div BufSize
             r == x % BufSize
  <2>1. p \in Int /\ r \in 0..BufSize-1 /\ x = BufSize * p + r BY Sizes, DivMod
  <2>2. r = 0 => Laps(x) BY DEF Laps
  <2> HIDE DEF p, r
  <2>3. r \in Int /\ q - p \in Int /\ r = BufSize * (q - p) /\ -BufSize < r /\ r < BufSize
    BY <2>1, <1>2, Sizes
  <2>4. r = 0 BY <2>3, Sizes, NoWholeLap
  <2> QED BY <2>2, <2>4
<1> QED BY <1>1, <1>2

(* Laps and laps are laps. *)
LEMMA LapsAdd == ASSUME NEW x \in Int, NEW y \in Int, Laps(x), Laps(y)
                 PROVE  Laps(x + y) /\ Laps(x - y)
<1>1. PICK p \in Int : x = BufSize * p BY LapsAre
<1>2. PICK q \in Int : y = BufSize * q BY LapsAre
<1>3. x + y \in Int /\ p + q \in Int /\ x + y = BufSize * (p + q) BY <1>1, <1>2, Sizes
<1>4. x - y \in Int /\ p - q \in Int /\ x - y = BufSize * (p - q) BY <1>1, <1>2, Sizes
<1> QED BY <1>3, <1>4, LapsAre

(* None and one lap. *)
LEMMA LapsOne == Laps(0) /\ Laps(BufSize)
<1>1. 0 \in Int /\ BufSize \in Int /\ 1 \in Int /\ 0 = BufSize * 0 /\ BufSize = BufSize * 1 BY Sizes
<1>2. Laps(0) BY <1>1, LapsAre
<1>3. Laps(BufSize) BY <1>1, LapsAre
<1> QED BY <1>2, <1>3

(* Laps apart is the same address. *)
LEMMA SameAddress == ASSUME NEW x \in Int, NEW y \in Int
                     PROVE  Laps(x - y) <=> x % BufSize = y % BufSize
<1> DEFINE p == x \div BufSize
           r == x % BufSize
           u == y \div BufSize
           v == y % BufSize
<1>1. p \in Int /\ r \in 0..BufSize-1 /\ x = BufSize * p + r BY Sizes, DivMod
<1>2. u \in Int /\ v \in 0..BufSize-1 /\ y = BufSize * u + v BY Sizes, DivMod
<1>0. x - y \in Int OBVIOUS
<1> HIDE DEF p, r, u, v
<1>3. ASSUME Laps(x - y) PROVE r = v
  <2>1. PICK q \in Int : x - y = BufSize * q BY <1>0, <1>3, LapsAre
  <2> DEFINE d == r - v
             k == q - p + u
  <2>2. d \in Int /\ k \in Int /\ d = BufSize * k /\ -BufSize < d /\ d < BufSize
    BY <2>1, <1>1, <1>2, Sizes
  <2> HIDE DEF d, k
  <2>3. d = 0 BY <2>2, Sizes, NoWholeLap
  <2> QED BY <2>3, <1>1, <1>2, Sizes DEF d
<1>4. ASSUME r = v PROVE Laps(x - y)
  <2>1. p - u \in Int /\ x - y = BufSize * (p - u) BY <1>1, <1>2, <1>4, Sizes
  <2> QED BY <1>0, <2>1, LapsAre
<1> QED BY <1>3, <1>4 DEF r, v

(* Less than a lap apart, one address is one byte. *)
LEMMA SameByte == ASSUME NEW x \in Int, NEW y \in Int, Laps(x - y), x - y < BufSize, y - x < BufSize
                  PROVE  x = y
<1>1. x - y \in Int OBVIOUS
<1>2. PICK q \in Int : x - y = BufSize * q BY <1>1, LapsAre
<1> DEFINE d == x - y
<1>3. d \in Int /\ d = BufSize * q /\ -BufSize < d /\ d < BufSize BY <1>1, <1>2, Sizes
<1> HIDE DEF d
<1>4. d = 0 BY <1>3, Sizes, NoWholeLap
<1> QED BY <1>4 DEF d

(* Going on at the start of the buffer changes an address by whole laps.   *)
LEMMA WrappedLaps == ASSUME NEW a \in Int, NEW b \in Int, Laps(a - b)
                     PROVE  Wrapped(a) \in Int /\ Laps(Wrapped(a) - b)
<1>1. a - b \in Int /\ BufSize \in Int /\ (a - b) - BufSize = (a - BufSize) - b BY Sizes
<1>2. Laps((a - b) - BufSize) BY <1>1, LapsOne, LapsAdd
<1>3. CASE a > BufSize
  <2>1. Wrapped(a) = a - BufSize BY <1>3 DEF Wrapped
  <2> QED BY <2>1, <1>1, <1>2
<1>4. CASE ~(a > BufSize)
  <2>1. Wrapped(a) = a BY <1>4 DEF Wrapped
  <2> QED BY <2>1, <1>1
<1> QED BY <1>3, <1>4

--------------------------------------------------------------------------------

(* The order of the natural numbers as a set of pairs. *)
Less == {ss \in Nat \X Nat : ss[1] < ss[2]}

(* A non-empty set of natural numbers has a least element. *)
LEMMA NatMin == ASSUME NEW T \in SUBSET Nat, T # {} PROVE \E x \in T : \A y \in T : x <= y
<1>1. IsWellFoundedOn(Less, Nat) BY NatLessThanWellFounded DEF OpToRel, Less
<1>2. PICK x \in T : \A y \in T : ~ (<<y, x>> \in Less) BY <1>1, WFMin
<1>3. \A y \in T : x <= y
  <2> SUFFICES ASSUME NEW y \in T PROVE x <= y  OBVIOUS
  <2>1. x \in Nat /\ y \in Nat OBVIOUS
  <2>2. y < x => <<y,x>> \in Less  BY <2>1 DEF Less
  <2> QED BY <1>2, <2>1, <2>2
<1> QED BY <1>3

(* What is true of 1, and of n when it is of n - 1, is true of all up to m. *)
LEMMA UpTo ==
  ASSUME NEW m \in Nat, NEW G, 1 \in G, \A n \in 2..m : n - 1 \in G => n \in G
  PROVE  1..m \subseteq G
<1> DEFINE T == {n \in 1..m : n \notin G}
<1> SUFFICES ASSUME T # {} PROVE FALSE OBVIOUS
<1>1. T \in SUBSET Nat OBVIOUS
<1>2. PICK n \in T : \A y \in T : n <= y
  <2> HIDE DEF T
  <2> QED BY <1>1, NatMin
<1>3. n \in 1..m /\ n \notin G OBVIOUS
<1>4. n # 1 BY <1>3
<1>5. n \in 2..m /\ n - 1 \in 1..m /\ ~(n <= n - 1) BY <1>3, <1>4
<1>6. n - 1 \notin T
  <2> HIDE DEF T
  <2> QED BY <1>2, <1>5
<1>7. n - 1 \in G BY <1>5, <1>6
<1> QED BY <1>3, <1>5, <1>7

(* g holds what mergeList() has made of the first 1, 2, ... m nodes of l.  *)
Merging(g, l, start, m) ==
  /\ g = [i \in 1..m |-> g[i]]
  /\ \A i \in 1..m : g[i] = IF i = 1 THEN <<l[1]>> ELSE MergeNext(g[i-1], l[i], start)

(* The function that MergeList defines by recursion exists. *)
LEMMA MergingExists ==
  ASSUME NEW l, NEW start, NEW m \in Nat, m >= 1
  PROVE  \E g : Merging(g, l, start, m)
<1> DEFINE G == {n \in 1..m : \E g : Merging(g, l, start, n)}
<1>1. 1 \in G
  <2>1. Merging([i \in 1..1 |-> <<l[1]>>], l, start, 1) BY DEF Merging
  <2> QED BY <2>1
<1>2. ASSUME NEW n \in 2..m, n - 1 \in G PROVE n \in G
  <2>1. PICK g : Merging(g, l, start, n - 1) BY <1>2
  <2> DEFINE h == [i \in 1..n |-> IF i = n THEN MergeNext(g[n-1], l[n], start) ELSE g[i]]
  <2>2. \A i \in 1..n-1 : h[i] = g[i] OBVIOUS
  <2>3. h[n] = MergeNext(g[n-1], l[n], start) OBVIOUS
  <2>4. h = [i \in 1..n |-> h[i]] OBVIOUS
  <2> HIDE DEF h
  <2>5. ASSUME NEW i \in 1..n PROVE h[i] = IF i = 1 THEN <<l[1]>> ELSE MergeNext(h[i-1], l[i], start)
    <3>1. CASE i = n
      <4>1. i # 1 /\ n - 1 \in 1..n-1 BY <3>1
      <4> QED BY <3>1, <4>1, <2>2, <2>3
    <3>2. CASE i # n
      <4>1. i \in 1..n-1 /\ (i # 1 => i - 1 \in 1..n-1) BY <3>2
      <4> QED BY <4>1, <2>1, <2>2 DEF Merging
    <3> QED BY <3>1, <3>2
  <2>6. Merging(h, l, start, n) BY <2>4, <2>5 DEF Merging
  <2> QED BY <2>6
<1> HIDE DEF G
<1>3. 1..m \subseteq G BY <1>1, <1>2, UpTo
<1>4. m \in 1..m OBVIOUS
<1> QED BY <1>3, <1>4 DEF G

(* MergeList is the last of its values. *)
LEMMA MergeIs ==
  ASSUME NEW l, NEW start, Len(l) \in Nat, Len(l) >= 1
  PROVE  \E g : Merging(g, l, start, Len(l)) /\ MergeList(l, start) = g[Len(l)]
<1> DEFINE m == Len(l)
           R(f) == f = [i \in 1..m |-> IF i = 1 THEN <<l[1]>> ELSE MergeNext(f[i-1], l[i], start)]
           merged == CHOOSE f : R(f)
<1>1. PICK g : Merging(g, l, start, m) BY MergingExists
<1>2. R(g) BY <1>1 DEF Merging
<1>3. R(merged) BY <1>2
<1>4. MergeList(l, start) = merged[m] BY DEF MergeList
<1>5. Merging(merged, l, start, m)
  <2> HIDE DEF merged, m
  <2> QED BY <1>3 DEF Merging
<1> QED BY <1>4, <1>5

(* Joining two nodes leaves the first one's beginning. *)
LEMMA JoinedFacts ==
  ASSUME NEW a \in CirNode, NEW b \in CirNode
  PROVE  /\ Joined(a, b) \in CirNode
         /\ Joined(a, b).firstSeq = a.firstSeq /\ Joined(a, b).data = a.data
         /\ Joined(a, b).filled = a.filled /\ Joined(a, b).size = a.size + b.size
         /\ Joined(a, b).lastSeq = IF Consecutive(a, b) THEN b.lastSeq ELSE MaxInt
<1> DEFINE last == IF Consecutive(a, b) THEN b.lastSeq ELSE MaxInt
<1>1. last \in Nat BY Sizes DEF CirNode
<1>2. Joined(a, b) = [a EXCEPT !.lastSeq = last, !.size = a.size + b.size] BY DEF Joined
<1>3. a.size + b.size \in Int BY DEF CirNode
<1> HIDE DEF last
<1>4. Joined(a, b) = [firstSeq |-> a.firstSeq, lastSeq |-> last, data |-> a.data,
                      size |-> a.size + b.size, filled |-> a.filled]
  BY <1>2 DEF CirNode
<1> QED BY <1>1, <1>3, <1>4 DEF CirNode, last

(* The first n elements of a sequence. *)
LEMMA FrontFacts ==
  ASSUME NEW R, NEW d \in Seq(R), NEW n \in Nat, n <= Len(d)
  PROVE  /\ SubSeq(d, 1, n) \in Seq(R) /\ Len(SubSeq(d, 1, n)) = n
         /\ \A k \in 1..n : SubSeq(d, 1, n)[k] = d[k]
  OBVIOUS

(* The first value, and each from the one before it. *)
LEMMA MergingAt ==
  ASSUME NEW g, NEW l, NEW start, NEW m \in Nat, m >= 1, Merging(g, l, start, m)
  PROVE  /\ g[1] = <<l[1]>>
         /\ \A i \in 2..m : g[i] = MergeNext(g[i-1], l[i], start)
<1>1. \A i \in 1..m : g[i] = IF i = 1 THEN <<l[1]>> ELSE MergeNext(g[i-1], l[i], start)
  BY DEF Merging
<1>2. 1 \in 1..m /\ \A i \in 2..m : i \in 1..m /\ i # 1 OBVIOUS
<1> QED BY <1>1, <1>2, Zenon

(* One round of the loop. *)
LEMMA MergeNextFacts ==
  ASSUME NEW d \in Seq(CirNode), Len(d) >= 1, NEW b \in CirNode, NEW start,
         NEW e, e = MergeNext(d, b, start)
  PROVE  /\ e \in Seq(CirNode)
         /\ Joins(d[Len(d)], b, start) =>
              /\ Len(e) = Len(d) /\ e[Len(d)] = Joined(d[Len(d)], b)
              /\ \A k \in 1..Len(d)-1 : e[k] = d[k]
         /\ ~Joins(d[Len(d)], b, start) =>
              /\ Len(e) = Len(d) + 1 /\ e[Len(d) + 1] = b
              /\ \A k \in 1..Len(d) : e[k] = d[k]
<1> DEFINE n == Len(d)
           f == SubSeq(d, 1, n - 1)
<1>1. n \in Nat /\ n >= 1 /\ d[n] \in CirNode OBVIOUS
<1>2. Last(d) = d[n] /\ Front(d) = f BY DEF Last, Front
<1>3. CASE Joins(d[n], b, start)
  <2>1. e = Append(f, Joined(d[n], b)) BY <1>2, <1>3 DEF MergeNext
  <2>2. Joined(d[n], b) \in CirNode BY <1>1, JoinedFacts
  <2>3. f \in Seq(CirNode) /\ Len(f) = n - 1 /\ \A k \in 1..n-1 : f[k] = d[k]
    <3>1. n - 1 \in Nat /\ n - 1 <= Len(d) BY <1>1
    <3> QED BY <3>1, FrontFacts
  <2> DEFINE x == Joined(d[n], b)
  <2>4. x \in CirNode /\ e = Append(f, x) /\ n - 1 \in Nat BY <2>1, <2>2, <1>1
  <2> HIDE DEF f, x, n
  <2>5. e \in Seq(CirNode) /\ Len(e) = n /\ e[n] = x /\ \A k \in 1..n-1 : e[k] = f[k]
    BY <2>3, <2>4, <1>1
  <2> QED BY <2>5, <2>3, <1>3 DEF x, n
<1>4. CASE ~Joins(d[n], b, start)
  <2>1. e = Append(d, b) BY <1>2, <1>4 DEF MergeNext
  <2>2. e \in Seq(CirNode) /\ Len(e) = n + 1 /\ e[n + 1] = b /\ \A k \in 1..n : e[k] = d[k]
    BY <2>1, <1>1
  <2> QED BY <2>2, <1>4
<1> QED BY <1>3, <1>4

(* r is m with node j and the node after it joined. *)
IsJoin(m, j, r) ==
  /\ r \in Seq(CirNode) /\ Len(r) = Len(m) - 1
  /\ \A i \in 1..Len(r) : r[i] = IF i < j THEN m[i] ELSE IF i = j THEN Joined(m[j], m[j+1]) ELSE m[i+1]

(* Such an r exists. *)
LEMMA JoinExists ==
  ASSUME NEW m \in Seq(CirNode), NEW j \in 1..Len(m)-1
  PROVE  \E r : IsJoin(m, j, r)
<1> DEFINE n == Len(m) - 1
           x == Joined(m[j], m[j+1])
           r == [i \in 1..n |-> IF i < j THEN m[i] ELSE IF i = j THEN x ELSE m[i+1]]
<1>1. n \in Nat /\ j \in 1..n /\ m[j] \in CirNode /\ m[j+1] \in CirNode OBVIOUS
<1>2. x \in CirNode BY <1>1, JoinedFacts
<1>3. \A i \in 1..n : m[i] \in CirNode /\ m[i+1] \in CirNode OBVIOUS
<1> HIDE DEF x, n
<1>4. \A i \in 1..n : r[i] \in CirNode BY <1>1, <1>2, <1>3
<1>5. r \in [1..n -> CirNode] BY <1>4
<1>6. r \in Seq(CirNode) /\ Len(r) = n
  <2> HIDE DEF r
  <2> QED BY <1>5, <1>1
<1>7. IsJoin(m, j, r) BY <1>6 DEF IsJoin, x, n
<1> QED BY <1>7

(* Two sequences of one length with the same elements. *)
LEMMA SameSeq ==
  ASSUME NEW R, NEW s \in Seq(R), NEW t \in Seq(R), Len(s) = Len(t), \A k \in 1..Len(t) : s[k] = t[k]
  PROVE  t = s
<1>1. s = [k \in 1..Len(t) |-> s[k]] /\ t = [k \in 1..Len(t) |-> t[k]] OBVIOUS
<1> QED BY <1>1

(* A set of lists that every join of two nodes keeps is kept by mergeList(), *)
(* and mergeList() leaves nothing to join.                                 *)
LEMMA MergeKeeps ==
  ASSUME NEW l \in Seq(CirNode), Len(l) >= 1, NEW start \in Nat, NEW G, l \in G, G \subseteq Seq(CirNode),
         \A m \in G : \A j \in 1..Len(m)-1 : \A r :
           Joins(m[j], m[j+1], start) /\ IsJoin(m, j, r) => r \in G
  PROVE  MergeList(l, start) \in G /\ NoJoin(MergeList(l, start), start)
<1> DEFINE n == Len(l)
           Stage(i, d) ==
             /\ d \in Seq(CirNode) /\ Len(d) >= 1 /\ NoJoin(d, start)
             /\ \E w \in G : /\ Len(w) = Len(d) + n - i
                             /\ \A k \in 1..Len(d) : w[k] = d[k]
                             /\ \A k \in 1..n-i : w[Len(d) + k] = l[i + k]
<1>1. n \in Nat /\ n >= 1 /\ \A i \in 1..n : l[i] \in CirNode OBVIOUS
<1>2. PICK g : Merging(g, l, start, n) /\ MergeList(l, start) = g[n] BY <1>1, MergeIs
<1> HIDE DEF n
<1>3. Stage(1, g[1])
  <2>1. g[1] = <<l[1]>> BY <1>1, <1>2, MergingAt
  <2>2. g[1] \in Seq(CirNode) /\ Len(g[1]) = 1 /\ g[1][1] = l[1] BY <1>1, <2>1
  <2>3. NoJoin(g[1], start) BY <2>2 DEF NoJoin
  <2>4. /\ Len(l) = Len(g[1]) + n - 1
        /\ \A k \in 1..Len(g[1]) : l[k] = g[1][k]
        /\ \A k \in 1..n-1 : l[Len(g[1]) + k] = l[1 + k]
    BY <1>1, <2>2 DEF n
  <2> QED BY <2>2, <2>3, <2>4
<1>4. ASSUME NEW i \in 2..n, Stage(i - 1, g[i-1]) PROVE Stage(i, g[i])
  <2> DEFINE d == g[i-1]
             b == l[i]
             e == g[i]
             p == Len(d)
  <2>1. d \in Seq(CirNode) /\ p >= 1 /\ NoJoin(d, start) /\ p \in Nat BY <1>4
  <2>2. b \in CirNode BY <1>1
  <2>3. e = MergeNext(d, b, start) BY <1>1, <1>2, MergingAt
  <2>4. PICK w \in G : /\ Len(w) = p + n - (i - 1)
                       /\ \A k \in 1..p : w[k] = d[k]
                       /\ \A k \in 1..n-(i-1) : w[p + k] = l[(i - 1) + k]
    BY <1>4
  <2>w. w \in Seq(CirNode) OBVIOUS
  <2> HIDE DEF d, b, e, p
  <2>5. /\ e \in Seq(CirNode)
        /\ Joins(d[p], b, start) =>
              /\ Len(e) = p /\ e[p] = Joined(d[p], b)
              /\ \A k \in 1..p-1 : e[k] = d[k]
        /\ ~Joins(d[p], b, start) =>
              /\ Len(e) = p + 1 /\ e[p + 1] = b
              /\ \A k \in 1..p : e[k] = d[k]
    BY <2>1, <2>2, <2>3, MergeNextFacts DEF p
  <2>6. w[p+1] = b /\ w[p] = d[p] /\ p \in 1..Len(w)-1
    <3>1. 1 \in 1..n-(i-1) /\ (i - 1) + 1 = i /\ p \in 1..p BY <1>1, <2>1
    <3>2. w[p+1] = l[(i-1)+1] /\ w[p] = d[p] BY <3>1, <2>4
    <3>3. Len(w) = p + n - (i - 1) BY <2>4
    <3>4. p \in 1..Len(w)-1 BY <3>3, <2>1, <1>1
    <3> QED BY <3>1, <3>2, <3>4 DEF b
  <2>7. CASE Joins(d[p], b, start)
    <3>1. PICK r : IsJoin(w, p, r) BY <2>6, <2>w, JoinExists
    <3>2. r \in G BY <2>6, <2>7, <3>1
    <3>3. Len(r) = p + n - i BY <3>1, <2>4, <2>1, <1>1 DEF IsJoin
    <3>4. ASSUME NEW k \in 1..p PROVE r[k] = e[k]
      <4>1. k \in 1..Len(r) BY <3>3, <2>1, <1>1
      <4>2. k < p => r[k] = w[k] /\ w[k] = d[k] /\ e[k] = d[k] BY <4>1, <3>1, <2>4, <2>5, <2>7, <2>1 DEF IsJoin
      <4>3. k = p => r[k] = Joined(w[p], w[p+1])
        <5>1. r[k] = IF k < p THEN w[k] ELSE IF k = p THEN Joined(w[p], w[p+1]) ELSE w[k+1]
          BY <4>1, <3>1 DEF IsJoin
        <5>2. k = p => ~(k < p) BY <2>1
        <5> QED BY <5>1, <5>2
      <4>4. k < p \/ k = p BY <2>1
      <4>5. e[p] = Joined(d[p], b) BY <2>5, <2>7
      <4> QED BY <4>2, <4>3, <4>4, <4>5, <2>6
    <3>5. ASSUME NEW k \in 1..n-i PROVE r[p + k] = l[i + k]
      <4>1. p + k \in 1..Len(r) /\ ~(p + k < p) /\ p + k # p /\ k + 1 \in 1..n-(i-1)
            /\ (p + k) + 1 = p + (k + 1) /\ (i - 1) + (k + 1) = i + k
        BY <3>3, <2>1, <1>1
      <4>2. r[p + k] = w[(p + k) + 1] BY <4>1, <3>1 DEF IsJoin
      <4> QED BY <4>1, <4>2, <2>4
    <3>6. NoJoin(e, start)
      <4> SUFFICES ASSUME NEW k \in 1..p-1 PROVE ~Joins(e[k], e[k+1], start)
        BY <2>5, <2>7 DEF NoJoin
      <4>1. ~Joins(d[k], d[k+1], start) 
        BY <2>1 DEF NoJoin, p
      <4>a. d[p] \in CirNode /\ d[k] \in CirNode
        <5>1. p \in 1..Len(d) /\ k \in 1..Len(d) BY <2>1 DEF p
        <5> QED BY <5>1, <2>1
      <4>2. CASE k + 1 < p
        <5>1. k \in 1..p-1 /\ k + 1 \in 1..p-1 BY <2>1, <4>2
        <5>2. e[k] = d[k] /\ e[k+1] = d[k+1] BY <5>1, <2>5, <2>7
        <5> QED BY <4>1, <5>2
      <4>3. CASE ~(k + 1 < p)
        <5>1. k + 1 = p BY <2>1, <4>3
        <5>2. e[k] = d[k] /\ e[k+1] = Joined(d[p], b) BY <5>1, <2>5, <2>7
        <5>3. Joined(d[p], b).firstSeq = d[p].firstSeq /\ Joined(d[p], b).filled = d[p].filled
          BY <4>a, <2>2, JoinedFacts
        <5> QED BY <4>1, <5>1, <5>2, <5>3 DEF Joins, Consecutive, SpareHoles
      <4> QED BY <4>2, <4>3
    <3>7. Len(e) = p BY <2>5, <2>7
    <3>8. Len(e) >= 1 /\ Len(r) = Len(e) + n - i BY <3>3, <3>7, <2>1
    <3> QED BY <2>5, <3>2, <3>4, <3>5, <3>6, <3>7, <3>8 DEF e
  <2>8. CASE ~Joins(d[p], b, start)
    <3>1. Len(e) = p + 1 /\ e[p+1] = b /\ \A k \in 1..p : e[k] = d[k] BY <2>5, <2>8
    <3>2. Len(w) = Len(e) + n - i BY <3>1, <2>4, <2>1, <1>1
    <3>3. ASSUME NEW k \in 1..p+1 PROVE w[k] = e[k]
      <4>1. k \in 1..p \/ k = p + 1 BY <2>1
      <4> QED BY <4>1, <3>1, <2>4, <2>6
    <3>4. ASSUME NEW k \in 1..n-i PROVE w[(p + 1) + k] = l[i + k]
      <4>1. k + 1 \in 1..n-(i-1) /\ (p + 1) + k = p + (k + 1) /\ (i - 1) + (k + 1) = i + k BY <2>1, <1>1
      <4> QED BY <4>1, <2>4
    <3>5. NoJoin(e, start)
      <4> SUFFICES ASSUME NEW k \in 1..p PROVE ~Joins(e[k], e[k+1], start)
        BY <3>1, <2>1 DEF NoJoin
      <4>1. CASE k = p BY <4>1, <3>1, <2>8
      <4>2. CASE k # p
        <5>1. k \in 1..p-1 /\ k \in 1..p /\ k + 1 \in 1..p BY <2>1, <4>2
        <5>2. ~Joins(d[k], d[k+1], start) BY <5>1, <2>1 DEF NoJoin, p
        <5> QED BY <5>1, <5>2, <3>1
      <4> QED BY <4>1, <4>2
    <3>6. Len(e) >= 1 BY <3>1, <2>1
    <3> QED BY <2>5, <3>1, <3>2, <3>3, <3>4, <3>5, <3>6 DEF e
  <2> QED BY <2>7, <2>8
<1> DEFINE S == {i \in 1..n : Stage(i, g[i])}
<1>5. 1..n \subseteq S
  <2>1. 1 \in S BY <1>1, <1>3
  <2>2. ASSUME NEW i \in 2..n, i - 1 \in S PROVE i \in S
    <3>1. Stage(i - 1, g[i-1]) BY <2>2
    <3>2. i \in 1..n BY <1>1
    <3> QED BY <3>1, <3>2, <1>4
  <2> HIDE DEF S
  <2> QED BY <1>1, <2>1, <2>2, UpTo
<1>6. Stage(n, g[n])
  <2>1. n \in S
    <3> HIDE DEF S
    <3> QED BY <1>5, <1>1
  <2> QED BY <2>1
<1>7. PICK w \in G : /\ Len(w) = Len(g[n]) + n - n
                     /\ \A k \in 1..Len(g[n]) : w[k] = g[n][k]
  BY <1>6
<1>8. g[n] = w
  <2>1. g[n] \in Seq(CirNode) /\ w \in Seq(CirNode) BY <1>6
  <2>2. Len(w) = Len(g[n]) /\ Len(w) \in Nat BY <1>7, <1>1, <2>1
  <2> QED BY <2>1, <2>2, <1>7, SameSeq
<1> QED BY <1>2, <1>6, <1>8

(* A list with nothing to join stays as it is, and mergeList() ends. *)
LEMMA NoJoinSame ==
  ASSUME NEW l \in Seq(CirNode), Len(l) >= 1, NEW start \in Nat, NoJoin(l, start)
  PROVE  MergeList(l, start) = l
<1> DEFINE G == {l}
<1>1. \A m \in G : \A j \in 1..Len(m)-1 : \A r :
        Joins(m[j], m[j+1], start) /\ IsJoin(m, j, r) => r \in G
  BY DEF NoJoin
<1>2. l \in G /\ G \subseteq Seq(CirNode) OBVIOUS
<1>3. MergeList(l, start) \in G
  <2> HIDE DEF G
  <2> QED BY <1>1, <1>2, MergeKeeps
<1> QED BY <1>3

(* ... and does not run for ever. *)
LEMMA NoJoinEnds ==
  ASSUME NEW l \in Seq(CirNode), Len(l) >= 1, NEW start \in Nat, NoJoin(l, start)
  PROVE  ~MergeHangs(l, start)
<1> SUFFICES ASSUME Len(l) > 1
             PROVE  MergeList(l, start) = Append(MergeList(Front(l), start), Last(l))
  BY DEF MergeHangs
<1> DEFINE n == Len(l) - 1
           f == SubSeq(l, 1, n)
<1>1. n \in Nat /\ n >= 1 /\ n <= Len(l) /\ n + 1 = Len(l) /\ l[n+1] \in CirNode OBVIOUS
<1>2. Front(l) = f /\ Last(l) = l[n+1] BY <1>1 DEF Front, Last
<1> HIDE DEF n
<1>3. f \in Seq(CirNode) /\ Len(f) = n /\ \A k \in 1..n : f[k] = l[k] BY <1>1, FrontFacts
<1> HIDE DEF f
<1>4. NoJoin(f, start)
  <2> SUFFICES ASSUME NEW i \in 1..n-1 PROVE ~Joins(f[i], f[i+1], start) BY <1>3 DEF NoJoin
  <2>1. i \in 1..n /\ i + 1 \in 1..n /\ i \in 1..Len(l)-1 BY <1>1
  <2> QED BY <2>1, <1>3 DEF NoJoin
<1>5. MergeList(f, start) = f BY <1>1, <1>3, <1>4, NoJoinSame
<1>6. MergeList(l, start) = l BY NoJoinSame
<1>7. Append(f, l[n+1]) \in Seq(CirNode) /\ Len(Append(f, l[n+1])) = n + 1
      /\ \A k \in 1..n+1 : Append(f, l[n+1])[k] = l[k]
  BY <1>1, <1>3
<1>8. Append(f, l[n+1]) = l
  <2> DEFINE t == Append(f, l[n+1])
  <2>1. t \in Seq(CirNode) /\ Len(l) = Len(t) /\ \A k \in 1..Len(t) : l[k] = t[k] BY <1>1, <1>7
  <2> HIDE DEF t
  <2>2. t = l BY <2>1, SameSeq
  <2> QED BY <2>2 DEF t
<1> QED BY <1>2, <1>5, <1>6, <1>8

--------------------------------------------------------------------------------

(* The fields of a node. *)
LEMMA NodeTypes ==
  ASSUME NEW nd \in CirNode
  PROVE  /\ nd.firstSeq \in Nat /\ nd.lastSeq \in Nat /\ nd.data \in Int /\ nd.size \in Int
         /\ nd.filled \in BOOLEAN
  BY DEF CirNode

(* What a node that two were joined into is. *)
LEMMA JoinedOK ==
  ASSUME NEW a \in CirNode, NEW b \in CirNode, NEW start \in Nat,
         NodeOK(a, start), NodeOK(b, start), b.filled => Whole(b),
         Adjacent(a, b, start), InOrder(a, b, start), Joins(a, b, start),
         NEW c, c = Joined(a, b)
  PROVE  /\ c \in CirNode /\ NodeOK(c, start)
         /\ c.firstSeq = a.firstSeq /\ c.filled = a.filled /\ a.filled = b.filled
         /\ a.filled => /\ c.lastSeq = b.lastSeq /\ b.firstSeq = a.lastSeq + 1
                        /\ c.size = a.size + (b.lastSeq - b.firstSeq + 1) * Mss
                        /\ a.firstSeq <= a.lastSeq /\ b.firstSeq <= b.lastSeq
         /\ a.filled /\ Whole(a) => Whole(c)
         /\ ~Live(c, start) => ~Live(b, start) /\ c.lastSeq = b.lastSeq
         /\ \A y \in CirNode : InOrder(b, y, start) => InOrder(c, y, start)
         /\ \A y \in CirNode : InOrder(b, y, start) /\ Adjacent(b, y, start) => Adjacent(c, y, start)
<1>1. /\ c \in CirNode /\ c.firstSeq = a.firstSeq /\ c.data = a.data
      /\ c.filled = a.filled /\ c.size = a.size + b.size
      /\ c.lastSeq = IF Consecutive(a, b) THEN b.lastSeq ELSE MaxInt
  BY JoinedFacts
<1>2. /\ a.firstSeq \in Nat /\ a.lastSeq \in Nat /\ a.data \in Int /\ a.size \in Int /\ a.filled \in BOOLEAN
      /\ b.firstSeq \in Nat /\ b.lastSeq \in Nat /\ b.data \in Int /\ b.size \in Int /\ b.filled \in BOOLEAN
      /\ c.lastSeq \in Nat
  BY <1>1, NodeTypes
<1>3. CASE a.filled
  <2>1. Consecutive(a, b) BY <1>3 DEF Joins, SpareHoles
  <2>2. b.filled /\ a.lastSeq = b.firstSeq - 1 /\ c.lastSeq = b.lastSeq BY <1>3, <2>1, <1>1 DEF Consecutive
  <2>3. FilledOK(a, start) /\ FilledOK(b, start) /\ Whole(b) BY <1>3, <2>2 DEF NodeOK
  <2>4. /\ a.firstSeq <= a.lastSeq /\ a.firstSeq >= start /\ b.firstSeq <= b.lastSeq
        /\ b.lastSeq <= MaxSeq /\ b.lastSeq <= start + Packets - 1
        /\ a.size >= 1 /\ a.size <= (a.lastSeq - a.firstSeq + 1) * Mss
        /\ Laps(a.data + a.size - a.lastSeq * Mss)
    <3> DEFINE room == (a.lastSeq - a.firstSeq + 1) * Mss
    <3>1. a.size \in 1..room BY <2>3 DEF FilledOK
    <3>2. room \in Int BY <1>2, Sizes
    <3> HIDE DEF room
    <3>3. a.size >= 1 /\ a.size <= room BY <3>1, <3>2, <1>2
    <3> QED BY <3>3, <2>3, <1>2 DEF FilledOK, room
  <2>5. b.size = (b.lastSeq - b.firstSeq + 1) * Mss BY <2>3 DEF Whole
  <2>6. /\ (b.lastSeq - b.firstSeq + 1) * Mss = (b.lastSeq - a.lastSeq) * Mss
        /\ (a.lastSeq - a.firstSeq + 1) * Mss + (b.lastSeq - a.lastSeq) * Mss = (b.lastSeq - a.firstSeq + 1) * Mss
        /\ a.lastSeq * Mss + (b.lastSeq - a.lastSeq) * Mss = b.lastSeq * Mss
        /\ (b.lastSeq - a.lastSeq) * Mss \in Nat /\ a.lastSeq * Mss \in Int /\ b.lastSeq * Mss \in Int
        /\ (a.lastSeq - a.firstSeq + 1) * Mss \in Int
    <3>1. b.firstSeq = a.lastSeq + 1 /\ b.lastSeq - a.lastSeq \in Nat BY <2>2, <2>4, <1>2
    <3>2. \A x, y \in Int : x * Mss + y * Mss = (x + y) * Mss /\ x * Mss \in Int BY Sizes
    <3>3. (b.lastSeq - a.lastSeq) * Mss \in Nat BY <3>1, Sizes
    <3>4. b.lastSeq - b.firstSeq + 1 = b.lastSeq - a.lastSeq
          /\ (a.lastSeq - a.firstSeq + 1) + (b.lastSeq - a.lastSeq) = b.lastSeq - a.firstSeq + 1
          /\ a.lastSeq + (b.lastSeq - a.lastSeq) = b.lastSeq
          /\ a.lastSeq - a.firstSeq + 1 \in Int /\ b.lastSeq - a.lastSeq \in Int /\ a.lastSeq \in Int /\ b.lastSeq \in Int
      BY <3>1, <1>2
    <3>5. (b.lastSeq - b.firstSeq + 1) * Mss = (b.lastSeq - a.lastSeq) * Mss BY <3>4
    <3> DEFINE u == a.lastSeq - a.firstSeq + 1
               v == b.lastSeq - a.lastSeq
               w == a.lastSeq
    <3>6. u * Mss + v * Mss = (u + v) * Mss /\ w * Mss + v * Mss = (w + v) * Mss
          /\ u * Mss \in Int /\ w * Mss \in Int
      <4>1. u \in Int /\ v \in Int /\ w \in Int BY <3>4
      <4> HIDE DEF u, v, w
      <4> QED BY <4>1, <3>2
    <3>7. (u + v) * Mss = (b.lastSeq - a.firstSeq + 1) * Mss /\ (w + v) * Mss = b.lastSeq * Mss BY <3>4
    <3>8. b.lastSeq * Mss \in Int BY <3>2, <3>4
    <3> QED BY <3>3, <3>5, <3>6, <3>7, <3>8
  <2> DEFINE gain == (b.lastSeq - a.lastSeq) * Mss
             room == (a.lastSeq - a.firstSeq + 1) * Mss
  <2>7. c.size = a.size + gain /\ b.size = gain BY <1>1, <2>5, <2>6
  <2>8. c.size >= 1 /\ c.size <= (c.lastSeq - c.firstSeq + 1) * Mss
    <3>1. gain \in Nat /\ room \in Int /\ a.size <= room /\ room + gain = (c.lastSeq - c.firstSeq + 1) * Mss
      BY <2>6, <2>4, <2>2, <1>1
    <3> HIDE DEF gain, room
    <3> QED BY <3>1, <2>7, <2>4, <1>2
  <2>9. c.data + c.size - c.lastSeq * Mss = a.data + a.size - a.lastSeq * Mss
    <3>1. gain \in Nat /\ a.lastSeq * Mss + gain = c.lastSeq * Mss /\ a.lastSeq * Mss \in Int /\ c.lastSeq * Mss \in Int
      BY <2>6, <2>2
    <3> HIDE DEF gain
    <3> DEFINE x == a.lastSeq * Mss
               y == c.lastSeq * Mss
    <3>2. x \in Int /\ y \in Int /\ x + gain = y BY <3>1
    <3> HIDE DEF x, y
    <3>3. c.data + c.size - y = a.data + a.size - x BY <3>1, <3>2, <2>7, <1>1, <1>2
    <3> QED BY <3>3 DEF x, y
  <2>10. FilledOK(c, start)
    <3>1. c.firstSeq \in start..c.lastSeq /\ c.lastSeq <= MaxSeq /\ c.lastSeq <= start + Packets - 1
      BY <2>4, <2>2, <1>1, <1>2
    <3>2. c.size \in 1..(c.lastSeq - c.firstSeq + 1) * Mss
      <4> DEFINE z == (c.lastSeq - c.firstSeq + 1) * Mss
      <4>1. z \in Int /\ c.size \in Int BY <1>1, <1>2, Sizes
      <4>2. c.size >= 1 /\ c.size <= z BY <2>8
      <4> HIDE DEF z
      <4>3. c.size \in 1..z BY <4>1, <4>2
      <4> QED BY <4>3 DEF z
    <3> QED BY <3>1, <3>2, <2>4, <2>9 DEF FilledOK
  <2>11. NodeOK(c, start) BY <2>10, <1>1, <1>3 DEF NodeOK
  <2>12. Whole(a) => Whole(c) BY <2>7, <2>6, <2>2, <1>1 DEF Whole
  <2>13. Live(c, start) BY <1>1, <2>4 DEF Live
  <2>14. \A y \in CirNode : InOrder(b, y, start) => InOrder(c, y, start)
    BY <2>13, <2>2 DEF InOrder
  <2>15. \A y \in CirNode : InOrder(b, y, start) /\ Adjacent(b, y, start) => Adjacent(c, y, start)
    BY <2>13, <2>2, <1>1, <1>3 DEF InOrder, Adjacent
  <2>16. b.firstSeq = a.lastSeq + 1 BY <2>2, <1>2
  <2> QED BY <1>1, <1>3, <2>2, <2>4, <2>5, <2>11, <2>12, <2>13, <2>14, <2>15, <2>16
<1>4. CASE ~a.filled /\ Live(a, start)
  <2>1. ~b.filled BY <1>4 DEF Joins, Consecutive, SpareHoles
  <2>2. ~Live(b, start) BY <1>4, <2>1 DEF Adjacent
  <2>3. LiveHoleOK(a) BY <1>4 DEF NodeOK
  <2>4. ~Consecutive(a, b) BY <1>4, <2>2, <2>3, <1>2 DEF Live, LiveHoleOK, Consecutive
  <2>5. c.lastSeq = MaxInt BY <1>1, <2>4
  <2>6. LiveHoleOK(c) BY <2>3, <2>5, <1>1 DEF LiveHoleOK
  <2>7. Live(c, start) BY <1>1, <1>4 DEF Live
  <2>8. NodeOK(c, start) BY <2>6, <2>7, <1>1, <1>4 DEF NodeOK
  <2>9. \A y \in CirNode : InOrder(b, y, start) => ~Live(y, start) BY <2>2 DEF InOrder
  <2>10. \A y \in CirNode : InOrder(b, y, start) => InOrder(c, y, start) BY <2>9 DEF InOrder
  <2>11. \A y \in CirNode : InOrder(b, y, start) /\ Adjacent(b, y, start) => Adjacent(c, y, start)
    BY <2>7, <2>9 DEF Adjacent
  <2>12. a.filled = b.filled BY <1>2, <1>4, <2>1
  <2> QED BY <1>1, <1>4, <2>7, <2>8, <2>10, <2>11, <2>12
<1>5. CASE ~a.filled /\ ~Live(a, start)
  <2>1. ~Live(b, start) BY <1>5 DEF InOrder
  <2>2. ~b.filled BY <1>5 DEF Joins, Consecutive, SpareHoles
  <2>3. b.firstSeq = a.lastSeq + 1 BY <1>5 DEF Adjacent
  <2>4. Consecutive(a, b) BY <1>5, <2>2, <2>3, <1>2 DEF Consecutive
  <2>5. c.lastSeq = b.lastSeq BY <1>1, <2>4
  <2>6. SpentOK(a, start) /\ SpentOK(b, start) BY <1>5, <2>1, <2>2 DEF NodeOK
  <2>7. SpentOK(c, start) BY <2>3, <2>5, <2>6, <1>1, <1>2 DEF SpentOK
  <2>8. ~Live(c, start) BY <1>1, <1>5 DEF Live
  <2>9. NodeOK(c, start) BY <2>7, <2>8, <1>1, <1>5 DEF NodeOK
  <2>10. \A y \in CirNode : InOrder(b, y, start) => ~Live(y, start) BY <2>1 DEF InOrder
  <2>11. \A y \in CirNode : InOrder(b, y, start) => InOrder(c, y, start) BY <2>10 DEF InOrder
  <2>12. \A y \in CirNode : InOrder(b, y, start) /\ Adjacent(b, y, start) => Adjacent(c, y, start)
    <3> SUFFICES ASSUME NEW y \in CirNode, InOrder(b, y, start), Adjacent(b, y, start)
                 PROVE  Adjacent(c, y, start)
      OBVIOUS
    <3>1. y.firstSeq = c.lastSeq + 1 BY <2>1, <2>5 DEF Adjacent
    <3>2. ~Live(y, start) BY <2>10
    <3> QED BY <3>1, <3>2 DEF Adjacent
  <2>13. a.filled = b.filled BY <1>2, <1>5, <2>2
  <2> QED BY <1>1, <1>5, <2>1, <2>5, <2>8, <2>9, <2>11, <2>12, <2>13
<1> QED BY <1>3, <1>4, <1>5

(* Joining two nodes of a list keeps the list in order, what it holds and  *)
(* up to where ftps has read.                                              *)
LEMMA JoinKeepsList ==
  ASSUME NEW start \in Nat, NEW m, ListOK(m, start), NEW j \in 1..Len(m)-1,
         Joins(m[j], m[j+1], start), NEW r, IsJoin(m, j, r)
  PROVE  /\ ListOK(r, start)
         /\ \A s \in Nat : Holds(r, s) <=> Holds(m, s)
         /\ ReadUpTo(r, start) = ReadUpTo(m, start)
<1> DEFINE n == Len(m)
           a == m[j]
           b == m[j+1]
           c == Joined(a, b)
<1>1. /\ m \in Seq(CirNode) /\ n \in Nat /\ n >= 1 /\ j \in Nat /\ j >= 1 /\ j + 1 <= n
      /\ r \in Seq(CirNode) /\ Len(r) = n - 1
  BY DEF ListOK, IsJoin
<1>2. /\ \A i \in 1..n : m[i] \in CirNode /\ NodeOK(m[i], start) /\ (i # 1 /\ m[i].filled => Whole(m[i]))
      /\ \A i, k \in 1..n : i < k => InOrder(m[i], m[k], start)
      /\ \A i \in 1..n-1 : Adjacent(m[i], m[i+1], start)
      /\ Live(m[1], start) => m[1].firstSeq = start
      /\ ~Live(m[n], start) => m[n].lastSeq = start - 1
  <2>1. \A i \in 1..n : m[i] \in CirNode BY <1>1
  <2> QED BY <2>1 DEF ListOK
<1>3. /\ \A i \in 1..n-1 : i < j => r[i] = m[i]
      /\ r[j] = c
      /\ \A i \in 1..n-1 : i > j => r[i] = m[i+1]
  <2>1. \A i \in 1..n-1 : r[i] = IF i < j THEN m[i] ELSE IF i = j THEN c ELSE m[i+1] BY <1>1 DEF IsJoin
  <2>2. j \in 1..n-1 /\ ~(j < j) BY <1>1
  <2> HIDE DEF c, n
  <2>3. r[j] = c BY <2>1, <2>2
  <2>4. \A i \in 1..n-1 : i > j => ~(i < j) /\ i # j BY <1>1
  <2> QED BY <2>1, <2>3, <2>4
<1> HIDE DEF n
<1>4. /\ j \in 1..n /\ j + 1 \in 1..n /\ j + 1 # 1 /\ j < j + 1 /\ j \in 1..n-1 BY <1>1
<1>5. /\ a \in CirNode /\ b \in CirNode /\ NodeOK(a, start) /\ NodeOK(b, start) /\ (b.filled => Whole(b))
      /\ Adjacent(a, b, start) /\ InOrder(a, b, start) /\ Joins(a, b, start)
  BY <1>2, <1>4
<1> HIDE DEF a, b, c
<1>6. /\ c \in CirNode /\ NodeOK(c, start)
      /\ c.firstSeq = a.firstSeq /\ c.filled = a.filled /\ a.filled = b.filled
      /\ a.filled => /\ c.lastSeq = b.lastSeq /\ b.firstSeq = a.lastSeq + 1
                     /\ c.size = a.size + (b.lastSeq - b.firstSeq + 1) * Mss
                     /\ a.firstSeq <= a.lastSeq /\ b.firstSeq <= b.lastSeq
      /\ a.filled /\ Whole(a) => Whole(c)
      /\ ~Live(c, start) => ~Live(b, start) /\ c.lastSeq = b.lastSeq
      /\ \A y \in CirNode : InOrder(b, y, start) => InOrder(c, y, start)
      /\ \A y \in CirNode : InOrder(b, y, start) /\ Adjacent(b, y, start) => Adjacent(c, y, start)
  <2>1. c = Joined(a, b) BY DEF c
  <2> QED BY <1>5, <2>1, JoinedOK
<1>7. Live(c, start) <=> Live(a, start) BY <1>6 DEF Live
<1>8. ASSUME NEW i \in 1..n-1 PROVE NodeOK(r[i], start) /\ (i # 1 /\ r[i].filled => Whole(r[i]))
  <2>1. CASE i < j
    <3>1. i \in 1..n /\ r[i] = m[i] BY <2>1, <1>1, <1>3
    <3> QED BY <3>1, <1>2
  <2>2. CASE i = j
    <3>1. j # 1 /\ a.filled => Whole(a) BY <1>2, <1>4 DEF a
    <3> QED BY <2>2, <3>1, <1>3, <1>6
  <2>3. CASE i > j
    <3>1. i + 1 \in 1..n /\ r[i] = m[i+1] /\ i + 1 # 1 BY <2>3, <1>1, <1>3
    <3> QED BY <3>1, <1>2
  <2>4. i < j \/ i = j \/ i > j BY <1>1
  <2> QED BY <2>1, <2>2, <2>3, <2>4
<1>9. ASSUME NEW i \in 1..n-1, NEW k \in 1..n-1, i < k PROVE InOrder(r[i], r[k], start)
  <2>1. CASE k < j
    <3>1. i \in 1..n /\ k \in 1..n /\ i < j BY <2>1, <1>1, <1>9
    <3>2. r[i] = m[i] /\ r[k] = m[k] BY <3>1, <2>1, <1>3
    <3> QED BY <3>1, <3>2, <1>2, <1>9
  <2>2. CASE k = j
    <3>1. i \in 1..n /\ r[i] = m[i] /\ i < j BY <2>2, <1>1, <1>3, <1>9
    <3>2. InOrder(m[i], a, start) BY <3>1, <1>2, <1>4 DEF a
    <3>3. InOrder(m[i], c, start) BY <3>2, <1>6, <1>7 DEF InOrder
    <3> QED BY <3>1, <3>3, <1>3, <2>2
  <2>3. CASE k > j /\ i < j
    <3>1. i \in 1..n /\ k + 1 \in 1..n /\ i < k + 1 /\ r[i] = m[i] /\ r[k] = m[k+1] BY <2>3, <1>1, <1>3, <1>9
    <3> QED BY <3>1, <1>2
  <2>4. CASE k > j /\ i = j
    <3>1. k + 1 \in 1..n /\ j + 1 < k + 1 /\ r[k] = m[k+1] /\ m[k+1] \in CirNode BY <2>4, <1>1, <1>2, <1>3, <1>9, SMTT(30)
    <3>2. InOrder(b, m[k+1], start) BY <3>1, <1>2, <1>4 DEF b
    <3> QED BY <3>1, <3>2, <1>3, <1>6, <2>4
  <2>5. CASE k > j /\ i > j
    <3>1. i + 1 \in 1..n /\ k + 1 \in 1..n /\ i + 1 < k + 1 BY <1>1, <1>9
    <3>2. r[i] = m[i+1] /\ r[k] = m[k+1] BY <2>5, <1>3
    <3> QED BY <3>1, <3>2, <1>2
  <2>6. k < j \/ k = j \/ (k > j /\ (i < j \/ i = j \/ i > j)) BY <1>1
  <2> QED BY <2>1, <2>2, <2>3, <2>4, <2>5, <2>6
<1>10. ASSUME NEW i \in 1..n-2 PROVE Adjacent(r[i], r[i+1], start)
  <2>0. i \in 1..n-1 /\ i + 1 \in 1..n-1 BY <1>1
  <2>1. CASE i + 1 < j
    <3>1. i \in 1..n-1 /\ r[i] = m[i] /\ r[i+1] = m[i+1] BY <2>0, <2>1, <1>1, <1>3
    <3> QED BY <3>1, <1>2
  <2>2. CASE i + 1 = j
    <3>1. i \in 1..n-1 /\ r[i] = m[i] /\ r[i+1] = c BY <2>0, <2>2, <1>1, <1>3
    <3>2. Adjacent(m[i], a, start) BY <3>1, <1>2, <2>2 DEF a
    <3>3. Adjacent(m[i], c, start) BY <3>2, <1>6, <1>7 DEF Adjacent
    <3> QED BY <3>1, <3>3
  <2>3. CASE i = j
    <3>1. j + 2 \in 1..n /\ r[i] = c /\ r[i+1] = m[j+2] /\ m[j+2] \in CirNode
      <4>1. i + 1 > j /\ (i + 1) + 1 = j + 2 /\ j + 2 \in 1..n BY <2>0, <2>3, <1>1
      <4>2. r[i+1] = m[(i+1)+1] BY <2>0, <4>1, <1>3
      <4> QED BY <2>3, <4>1, <4>2, <1>2, <1>3
    <3>2. InOrder(b, m[j+2], start) /\ Adjacent(b, m[j+2], start)
      <4>1. j + 1 \in 1..n-1 /\ j + 1 < j + 2 /\ (j + 1) + 1 = j + 2 BY <3>1, <1>1
      <4>2. Adjacent(m[j+1], m[(j+1)+1], start) BY <4>1, <1>2
      <4>3. InOrder(m[j+1], m[j+2], start) BY <3>1, <4>1, <1>2, <1>4
      <4> QED BY <4>1, <4>2, <4>3 DEF b
    <3> QED BY <3>1, <3>2, <1>6
  <2>4. CASE i > j
    <3>1. i + 1 \in 1..n-1 /\ i + 1 > j /\ r[i] = m[i+1] /\ r[i+1] = m[(i+1)+1] BY <2>0, <2>4, <1>1, <1>3
    <3> QED BY <3>1, <1>2
  <2>5. i + 1 < j \/ i + 1 = j \/ i = j \/ i > j BY <1>1
  <2> QED BY <2>1, <2>2, <2>3, <2>4, <2>5
<1>11. r[1].firstSeq = m[1].firstSeq /\ r[1].filled = m[1].filled
  <2>1. 1 \in 1..n-1 BY <1>1
  <2>2. CASE j = 1 BY <2>2, <1>3, <1>6 DEF a
  <2>3. CASE j # 1
    <3>1. 1 < j BY <2>3, <1>1
    <3> QED BY <2>1, <3>1, <1>3
  <2> QED BY <2>2, <2>3
<1>12. ~Live(r[n-1], start) => r[n-1].lastSeq = start - 1
  <2>1. CASE j = n - 1
    <3>1. j + 1 = n BY <2>1, <1>1
    <3>2. b = m[n] BY <3>1 DEF b
    <3>3. r[n-1] = c BY <2>1, <1>3
    <3> QED BY <3>2, <3>3, <1>2, <1>6
  <2>2. CASE j # n - 1
    <3>1. n - 1 \in 1..n-1 /\ n - 1 > j /\ (n - 1) + 1 = n BY <2>2, <1>1
    <3>2. r[n-1] = m[(n-1)+1] BY <3>1, <1>3
    <3> QED BY <3>1, <3>2, <1>2
  <2> QED BY <2>1, <2>2
<1>13. ListOK(r, start)
  <2>1. r \in Seq(CirNode) /\ Len(r) >= 1 /\ Len(r) - 1 = n - 2 /\ Len(r) = n - 1 BY <1>1
  <2>2. Live(r[1], start) => r[1].firstSeq = start BY <1>2, <1>11 DEF Live
  <2> QED BY <2>1, <2>2, <1>8, <1>9, <1>10, <1>12 DEF ListOK
<1>14. ASSUME NEW s \in Nat PROVE Holds(r, s) <=> Holds(m, s)
  <2>1. ASSUME Holds(r, s) PROVE Holds(m, s)
    <3>1. PICK i \in 1..n-1 : r[i].filled /\ s \in r[i].firstSeq..r[i].lastSeq BY <2>1, <1>1 DEF Holds
    <3>2. CASE i < j
      <4>1. i \in 1..n /\ r[i] = m[i] BY <3>2, <1>1, <1>3
      <4> QED BY <3>1, <4>1 DEF Holds, n
    <3>3. CASE i = j
      <4>1. a.filled /\ b.filled /\ s \in a.firstSeq..b.lastSeq /\ b.firstSeq = a.lastSeq + 1
        BY <3>1, <3>3, <1>3, <1>6
      <4>2. a.firstSeq \in Nat /\ a.lastSeq \in Nat /\ b.lastSeq \in Nat BY <1>5, NodeTypes
      <4>3. s \in a.firstSeq..a.lastSeq \/ s \in b.firstSeq..b.lastSeq BY <4>1, <4>2
      <4> QED BY <4>1, <4>3, <1>4 DEF Holds, n, a, b
    <3>4. CASE i > j
      <4>1. i + 1 \in 1..n /\ r[i] = m[i+1] BY <3>4, <1>1, <1>3
      <4> QED BY <3>1, <4>1 DEF Holds, n
    <3>5. i < j \/ i = j \/ i > j BY <1>1
    <3> QED BY <3>2, <3>3, <3>4, <3>5
  <2>2. ASSUME Holds(m, s) PROVE Holds(r, s)
    <3>1. PICK i \in 1..n : m[i].filled /\ s \in m[i].firstSeq..m[i].lastSeq BY <2>2 DEF Holds, n
    <3>0. \A k \in 1..n-1 : r[k].filled /\ s \in r[k].firstSeq..r[k].lastSeq => Holds(r, s) BY <1>1 DEF Holds
    <3>2. CASE i < j
      <4>1. i \in 1..n-1 /\ r[i] = m[i] BY <3>2, <1>1, <1>3
      <4> QED BY <3>1, <4>1, <3>0
    <3>3. CASE i = j \/ i = j + 1
      <4>1. a.filled /\ (s \in a.firstSeq..a.lastSeq \/ s \in b.firstSeq..b.lastSeq)
        BY <3>1, <3>3, <1>6 DEF a, b
      <4>2. a.firstSeq \in Nat /\ a.lastSeq \in Nat /\ b.lastSeq \in Nat /\ b.firstSeq \in Nat BY <1>5, NodeTypes
      <4>3. s \in a.firstSeq..b.lastSeq BY <4>1, <4>2, <1>6, SMTT(30)
      <4>4. r[j].filled /\ s \in r[j].firstSeq..r[j].lastSeq BY <4>1, <4>3, <1>3, <1>6
      <4> QED BY <4>4, <3>0, <1>4
    <3>4. CASE i > j + 1
      <4>1. i - 1 \in 1..n-1 /\ i - 1 > j /\ (i - 1) + 1 = i BY <3>4, <1>1
      <4>2. r[i-1] = m[(i-1)+1] BY <4>1, <1>3
      <4> QED BY <3>1, <4>1, <4>2, <3>0
    <3>5. i < j \/ (i = j \/ i = j + 1) \/ i > j + 1 BY <1>1
    <3> QED BY <3>2, <3>3, <3>4, <3>5
  <2> QED BY <2>1, <2>2
<1>15. ReadUpTo(r, start) = ReadUpTo(m, start)
  <2>1. CASE j = 1 /\ a.filled
    <3>1. r[1] = c /\ m[1] = a BY <2>1, <1>3 DEF a
    <3>2. /\ a.firstSeq \in Nat /\ a.lastSeq \in Nat /\ a.size \in Int
          /\ b.lastSeq \in Nat /\ b.firstSeq \in Nat
      BY <1>5, NodeTypes
    <3>3. /\ c.filled /\ c.lastSeq = b.lastSeq /\ b.firstSeq = a.lastSeq + 1
          /\ c.size = a.size + (b.lastSeq - b.firstSeq + 1) * Mss
      BY <2>1, <1>6
    <3>4. \A x, y \in Int : (x - y) * Mss = x * Mss - y * Mss /\ x * Mss \in Int BY Sizes
    <3>5. b.lastSeq - b.firstSeq + 1 = b.lastSeq - a.lastSeq /\ b.lastSeq \in Int /\ a.lastSeq \in Int
      BY <3>2, <3>3, SMTT(30)
    <3>6. (b.lastSeq - a.lastSeq) * Mss = b.lastSeq * Mss - a.lastSeq * Mss
          /\ b.lastSeq * Mss \in Int /\ a.lastSeq * Mss \in Int
      BY <3>4, <3>5
    <3>7. c.size = a.size + (b.lastSeq - a.lastSeq) * Mss BY <3>3, <3>5
    <3> DEFINE x == a.lastSeq * Mss
               y == b.lastSeq * Mss
    <3>8. c.size = a.size + (y - x) /\ x \in Int /\ y \in Int BY <3>6, <3>7
    <3>9. c.lastSeq * Mss = y BY <3>3
    <3> HIDE DEF x, y
    <3>10. y - c.size = x - a.size BY <3>8, <3>2
    <3>11. c.lastSeq * Mss - c.size = x - a.size BY <3>9, <3>10
    <3> QED BY <3>1, <3>3, <3>11, <2>1 DEF ReadUpTo, x
  <2>2. CASE ~m[1].filled
    BY <2>2, <1>11 DEF ReadUpTo
  <2>3. CASE j # 1
    <3>1. 1 \in 1..n-1 /\ 1 < j BY <2>3, <1>1
    <3>2. r[1] = m[1] BY <3>1, <1>3
    <3> QED BY <3>2 DEF ReadUpTo
  <2>4. j = 1 => a = m[1] BY DEF a
  <2> QED BY <2>1, <2>2, <2>3, <2>4
<1> QED BY <1>13, <1>14, <1>15

(* mergeList() keeps all that, and leaves nothing to join. *)
LEMMA MergeOK ==
  ASSUME NEW start \in Nat, NEW l, ListOK(l, start), NEW m, m = MergeList(l, start)
  PROVE  /\ ListOK(m, start) /\ NoJoin(m, start)
         /\ \A s \in Nat : Holds(m, s) <=> Holds(l, s)
         /\ ReadUpTo(m, start) = ReadUpTo(l, start)
<1> DEFINE Good(w) == /\ ListOK(w, start)
                      /\ \A s \in Nat : Holds(w, s) <=> Holds(l, s)
                      /\ ReadUpTo(w, start) = ReadUpTo(l, start)
           G == {w \in Seq(CirNode) : Good(w)}
<1>1. l \in Seq(CirNode) /\ Len(l) >= 1 BY DEF ListOK
<1>2. l \in G /\ G \subseteq Seq(CirNode) BY <1>1
<1>3. ASSUME NEW w \in G, NEW j \in 1..Len(w)-1, NEW r,
             Joins(w[j], w[j+1], start), IsJoin(w, j, r)
      PROVE  r \in G
  <2>1. Good(w) BY <1>3
  <2>2. /\ ListOK(r, start)
        /\ \A s \in Nat : Holds(r, s) <=> Holds(w, s)
        /\ ReadUpTo(r, start) = ReadUpTo(w, start)
    BY <2>1, <1>3, JoinKeepsList
  <2>3. Good(r) BY <2>1, <2>2
  <2>4. r \in Seq(CirNode) BY <2>2 DEF ListOK
  <2> QED BY <2>3, <2>4
<1>4. MergeList(l, start) \in G /\ NoJoin(MergeList(l, start), start)
  <2> HIDE DEF G
  <2> QED BY <1>1, <1>2, <1>3, MergeKeeps
<1> QED BY <1>4

--------------------------------------------------------------------------------

(* The node of a packet that has just come. *)
LEMMA FilledFacts ==
  ASSUME NEW start \in Nat, NEW seqnum \in Nat, seqnum >= start, seqnum <= MaxSeq,
         seqnum <= start + Packets - 1, NEW d \in Int, Begins(d, seqnum),
         NEW nd, nd = Filled(seqnum, d)
  PROVE  /\ nd \in CirNode /\ nd.firstSeq = seqnum /\ nd.lastSeq = seqnum /\ nd.data = d
         /\ nd.size = Mss /\ nd.filled = TRUE
         /\ NodeOK(nd, start) /\ Whole(nd) /\ Live(nd, start)
<1>1. /\ nd \in CirNode /\ nd.firstSeq = seqnum /\ nd.lastSeq = seqnum /\ nd.data = d
      /\ nd.size = Mss /\ nd.filled = TRUE
  BY Sizes DEF Filled, CirNode
<1>2. (seqnum - seqnum + 1) * Mss = Mss /\ d + Mss - seqnum * Mss = d - (seqnum - 1) * Mss
  <2>1. seqnum - seqnum + 1 = 1 OBVIOUS
  <2>2. (seqnum - 1) * Mss = seqnum * Mss - Mss /\ seqnum * Mss \in Int BY Sizes
  <2> DEFINE x == seqnum * Mss
             y == (seqnum - 1) * Mss
  <2>3. x \in Int /\ y = x - Mss BY <2>2
  <2> HIDE DEF x, y
  <2>4. d + Mss - x = d - y BY <2>3, Sizes
  <2>5. 1 * Mss = Mss BY Sizes
  <2> QED BY <2>1, <2>4, <2>5 DEF x, y
<1>3. FilledOK(nd, start)
  <2>1. nd.firstSeq \in start..nd.lastSeq BY <1>1
  <2>2. nd.size \in 1..(nd.lastSeq - nd.firstSeq + 1) * Mss BY <1>1, <1>2, Sizes
  <2>3. Laps(nd.data + nd.size - nd.lastSeq * Mss) BY <1>1, <1>2 DEF Begins
  <2> QED BY <1>1, <2>1, <2>2, <2>3 DEF FilledOK
<1>4. NodeOK(nd, start) BY <1>1, <1>3 DEF NodeOK
<1>5. Whole(nd) BY <1>1, <1>2 DEF Whole
<1>6. Live(nd, start) BY <1>1 DEF Live
<1> QED BY <1>1, <1>4, <1>5, <1>6

(* The size of a hole from packet first to packet last. *)
SizeOK(size, first, last) == last = MaxInt \/ size = (last - first + 1) * Mss

(* A hole that begins where its first packet belongs. *)
LEMMA HoleFacts ==
  ASSUME NEW start \in Nat, NEW first \in Nat, NEW last \in Nat, first >= start, first <= last,
         first <= MaxInt, NEW d \in Int, Begins(d, first), NEW size \in Int,
         SizeOK(size, first, last), NEW nd, nd = Hole(first, last, d, size)
  PROVE  /\ nd \in CirNode /\ nd.firstSeq = first /\ nd.lastSeq = last /\ nd.filled = FALSE
         /\ NodeOK(nd, start) /\ Live(nd, start)
<1>1. /\ nd \in CirNode /\ nd.firstSeq = first /\ nd.lastSeq = last /\ nd.data = d
      /\ nd.size = size /\ nd.filled = FALSE
  BY DEF Hole, CirNode
<1>2. Live(nd, start) BY <1>1 DEF Live
<1>3. LiveHoleOK(nd) BY <1>1 DEF LiveHoleOK, Whole, SizeOK
<1> QED BY <1>1, <1>2, <1>3 DEF NodeOK

(* Nodes that can stand where hole h stands. *)
FitsFor(h, parts, start) ==
  /\ parts \in Seq(CirNode) /\ Len(parts) >= 1
  /\ \A k \in 1..Len(parts) : /\ NodeOK(parts[k], start) /\ Live(parts[k], start)
                              /\ parts[k].filled => Whole(parts[k])
                              /\ h.firstSeq <= parts[k].firstSeq /\ parts[k].lastSeq <= h.lastSeq
  /\ \A a, b \in 1..Len(parts) : a < b => InOrder(parts[a], parts[b], start)
  /\ \A a \in 1..Len(parts)-1 : Adjacent(parts[a], parts[a+1], start)
  /\ parts[1].firstSeq = h.firstSeq
  /\ parts[Len(parts)].lastSeq = h.lastSeq \/ h.lastSeq = MaxInt

(* Two nodes of which the second goes on where the first ends. *)
LEMMA NextTo ==
  ASSUME NEW start \in Nat, NEW a \in CirNode, NEW b \in CirNode, Live(a, start), Live(b, start),
         b.firstSeq = a.lastSeq + 1, a.filled \/ b.filled
  PROVE  InOrder(a, b, start) /\ Adjacent(a, b, start)
<1>1. a.lastSeq \in Nat /\ b.firstSeq \in Nat BY NodeTypes
<1>2. a.lastSeq < b.firstSeq BY <1>1
<1> QED BY <1>2 DEF InOrder, Adjacent

(* One, two and three such nodes.                                          *)
PartOK(h, x, start) ==
  /\ x \in CirNode /\ NodeOK(x, start) /\ Live(x, start) /\ (x.filled => Whole(x))
  /\ h.firstSeq <= x.firstSeq /\ x.lastSeq <= h.lastSeq
Ends(h, x) == x.lastSeq = h.lastSeq \/ h.lastSeq = MaxInt

(* One node. *)
LEMMA OneFits ==
  ASSUME NEW start \in Nat, NEW h, NEW x, PartOK(h, x, start), x.firstSeq = h.firstSeq, Ends(h, x)
  PROVE  FitsFor(h, <<x>>, start)
<1> DEFINE s == <<x>>
<1>1. s \in Seq(CirNode) /\ Len(s) = 1 /\ s[1] = x BY DEF PartOK
<1> HIDE DEF s
<1>2. \A k \in 1..Len(s) : s[k] = x BY <1>1
<1>3. ~\E a, b \in 1..Len(s) : a < b BY <1>1
<1>4. 1..Len(s)-1 = {} BY <1>1
<1>5. FitsFor(h, s, start) BY <1>1, <1>2, <1>3, <1>4 DEF FitsFor, PartOK, Ends
<1> QED BY <1>5 DEF s

(* Two nodes, the second right after the first. *)
LEMMA TwoFit ==
  ASSUME NEW start \in Nat, NEW h, NEW x, NEW y, PartOK(h, x, start), PartOK(h, y, start),
         x.firstSeq = h.firstSeq, y.firstSeq = x.lastSeq + 1, x.filled \/ y.filled, Ends(h, y)
  PROVE  FitsFor(h, <<x, y>>, start)
<1> DEFINE s == <<x, y>>
<1>1. s \in Seq(CirNode) /\ Len(s) = 2 /\ s[1] = x /\ s[2] = y BY DEF PartOK
<1>2. InOrder(x, y, start) /\ Adjacent(x, y, start) BY NextTo DEF PartOK
<1> HIDE DEF s
<1>3. \A k \in 1..Len(s) : s[k] = x \/ s[k] = y
  <2>1. \A k \in 1..Len(s) : k = 1 \/ k = 2 BY <1>1
  <2> QED BY <1>1, <2>1
<1>4. \A a, b \in 1..Len(s) : a < b => a = 1 /\ b = 2 BY <1>1
<1>5. \A a \in 1..Len(s)-1 : a = 1 BY <1>1
<1>6. \A a, b \in 1..Len(s) : a < b => InOrder(s[a], s[b], start) BY <1>1, <1>2, <1>4
<1>7. \A a \in 1..Len(s)-1 : Adjacent(s[a], s[a+1], start)
  <2>1. Adjacent(s[1], s[1+1], start) BY <1>1, <1>2
  <2> QED BY <2>1, <1>5
<1>8. \A k \in 1..Len(s) : PartOK(h, s[k], start) BY <1>3
<1>9. FitsFor(h, s, start) BY <1>1, <1>6, <1>7, <1>8 DEF FitsFor, PartOK, Ends
<1> QED BY <1>9 DEF s

(* Three nodes. *)
LEMMA ThreeFit ==
  ASSUME NEW start \in Nat, NEW h, NEW x, NEW y, NEW z,
         PartOK(h, x, start), PartOK(h, y, start), PartOK(h, z, start),
         x.firstSeq = h.firstSeq, y.firstSeq = x.lastSeq + 1, z.firstSeq = y.lastSeq + 1,
         y.filled, y.lastSeq = y.firstSeq, Ends(h, z)
  PROVE  FitsFor(h, <<x, y, z>>, start)
<1> DEFINE s == <<x, y, z>>
<1>1. s \in Seq(CirNode) /\ Len(s) = 3 /\ s[1] = x /\ s[2] = y /\ s[3] = z BY DEF PartOK
<1>2. /\ InOrder(x, y, start) /\ Adjacent(x, y, start)
      /\ InOrder(y, z, start) /\ Adjacent(y, z, start)
  BY NextTo DEF PartOK
<1>a. x.lastSeq < z.firstSeq
  <2>1. x.lastSeq \in Nat /\ y.lastSeq \in Nat /\ y.firstSeq \in Nat BY NodeTypes DEF PartOK
  <2> QED BY <2>1
<1>b. InOrder(x, z, start) BY <1>a DEF InOrder, PartOK
<1> HIDE DEF s
<1>3. \A k \in 1..Len(s) : s[k] = x \/ s[k] = y \/ s[k] = z
  <2>1. \A k \in 1..Len(s) : k = 1 \/ k = 2 \/ k = 3 BY <1>1
  <2> QED BY <1>1, <2>1
<1>4. \A a, b \in 1..Len(s) : a < b => (a = 1 /\ b = 2) \/ (a = 1 /\ b = 3) \/ (a = 2 /\ b = 3) BY <1>1
<1>5. \A a \in 1..Len(s)-1 : a = 1 \/ a = 2 BY <1>1
<1>6. \A a, b \in 1..Len(s) : a < b => InOrder(s[a], s[b], start) BY <1>1, <1>2, <1>b, <1>4
<1>7. \A a \in 1..Len(s)-1 : Adjacent(s[a], s[a+1], start)
  <2>1. Adjacent(s[1], s[1+1], start) /\ Adjacent(s[2], s[2+1], start) BY <1>1, <1>2
  <2> QED BY <2>1, <1>5
<1>8. \A k \in 1..Len(s) : PartOK(h, s[k], start) BY <1>3
<1>9. FitsFor(h, s, start) BY <1>1, <1>6, <1>7, <1>8 DEF FitsFor, PartOK, Ends
<1> QED BY <1>9 DEF s

(* Of the nodes in parts number p, and no other, holds packet seqnum.      *)
PacketIn(nd, seqnum) ==
  /\ nd.filled /\ nd.firstSeq = seqnum /\ nd.lastSeq = seqnum
  /\ nd.size = Mss /\ nd.data \in Int /\ Begins(nd.data, seqnum)
HasPacket(parts, p, seqnum) ==
  /\ PacketIn(parts[p], seqnum)
  /\ \A k \in 1..Len(parts) : parts[k].filled => k = p

(* How many bytes there are from packet f to s and to t. *)
LEMMA FillSums ==
  ASSUME NEW f \in Int, NEW t \in Int, NEW s \in Int, NEW m \in Int
  PROVE  /\ (f - 1) * m \in Int /\ (s - 1) * m \in Int /\ (s - f) * m \in Int
         /\ (t - f + 1) * m \in Int
         /\ (s - f) * m = (s - 1) * m - (f - 1) * m
         /\ (s + 1 - 1) * m = (s - 1) * m + m
         /\ (t - f + 1) * m - ((s - f) * m + m) = (t - (s + 1) + 1) * m
         /\ (s - f + 1) * m = (s - 1) * m - (f - 1) * m + m
         /\ (s - 1 - f + 1) * m = (s - f) * m
  OBVIOUS

(* addData() makes such nodes of a hole, one of them with the packet.      *)
LEMMA FillFits ==
  ASSUME NEW start \in Nat, start >= 1, NEW h \in CirNode, NodeOK(h, start), ~h.filled,
         NEW seqnum \in Nat, seqnum >= start, seqnum <= MaxSeq, seqnum <= start + Packets - 1,
         NEW parts, parts = Fill(h, seqnum), parts # <<>>
  PROVE  /\ Live(h, start)
         /\ FitsFor(h, parts, start)
         /\ \E p \in 1..Len(parts) : HasPacket(parts, p, seqnum)
<1>a. PICK f \in Nat, t \in Nat, d \in Int, z \in Int :
        h.firstSeq = f /\ h.lastSeq = t /\ h.data = d /\ h.size = z
  BY NodeTypes
<1>b. PICK F \in Int, S \in Int, B \in Int :
        F = (f - 1) * Mss /\ S = (seqnum - 1) * Mss /\ B = (seqnum - f) * Mss
  BY Sizes
<1>0. /\ Packets \in Nat /\ Mss \in Nat /\ Mss >= 1 /\ MaxSeq \in Nat /\ MaxInt \in Nat /\ MaxSeq < MaxInt
  BY Sizes
<1>1. \/ f = seqnum /\ Mss < z
         /\ parts = <<Filled(seqnum, d), Hole(seqnum + 1, t, d + Mss, z - Mss)>>
      \/ f = seqnum /\ Mss = z /\ parts = <<Filled(seqnum, d)>>
      \/ f < seqnum /\ seqnum < t
         /\ parts = <<Hole(f, seqnum - 1, d, B), Filled(seqnum, Wrapped(d + B)),
                      Hole(seqnum + 1, t, Wrapped(Wrapped(d + B) + Mss), z - (B + Mss))>>
      \/ f < seqnum /\ seqnum = t
         /\ parts = <<Hole(f, seqnum - 1, d, z - Mss), Filled(seqnum, Wrapped(d + z - Mss))>>
  <2> DEFINE c1 == f = seqnum /\ Mss < z
             c2 == f = seqnum /\ Mss = z
             c3 == f < seqnum /\ seqnum < t
             c4 == f < seqnum /\ seqnum = t
             r1 == <<Filled(seqnum, d), Hole(seqnum + 1, t, d + Mss, z - Mss)>>
             r2 == <<Filled(seqnum, d)>>
             r3 == <<Hole(f, seqnum - 1, d, B), Filled(seqnum, Wrapped(d + B)),
                     Hole(seqnum + 1, t, Wrapped(Wrapped(d + B) + Mss), z - (B + Mss))>>
             r4 == <<Hole(f, seqnum - 1, d, z - Mss), Filled(seqnum, Wrapped(d + z - Mss))>>
  <2>1. parts = CASE c1 -> r1 [] c2 -> r2 [] c3 -> r3 [] c4 -> r4 [] OTHER -> <<>>
    BY <1>a, <1>b DEF Fill
  <2>2. ~(c1 /\ c2) /\ ~(c1 /\ c3) /\ ~(c1 /\ c4) /\ ~(c2 /\ c3) /\ ~(c2 /\ c4) /\ ~(c3 /\ c4)
    BY <1>0
  <2>3. (c1 /\ parts = r1) \/ (c2 /\ parts = r2) \/ (c3 /\ parts = r3) \/ (c4 /\ parts = r4)
    <3> HIDE DEF c1, c2, c3, c4, r1, r2, r3, r4
    <3> QED BY <2>1, <2>2
  <2> QED BY <2>3
<1>c. f <= seqnum BY <1>1
<1>2. Live(h, start)
  <2> SUFFICES ASSUME ~Live(h, start) PROVE FALSE OBVIOUS
  <2>1. SpentOK(h, start) /\ f < start BY <1>a DEF NodeOK, Live
  <2>2. f <= t /\ t < start BY <2>1, <1>a DEF SpentOK
  <2>3. f = seqnum \/ seqnum <= t BY <1>1
  <2> QED BY <2>1, <2>2, <2>3
<1>3. /\ f >= start /\ f <= t /\ f <= MaxInt /\ (t = MaxInt \/ z = (t - f + 1) * Mss) /\ Laps(d - F)
  BY <1>2, <1>a, <1>b DEF NodeOK, Live, LiveHoleOK, Whole, Begins
<1>4. /\ B = S - F /\ (seqnum + 1 - 1) * Mss = S + Mss
      /\ (t - f + 1) * Mss - (B + Mss) = (t - (seqnum + 1) + 1) * Mss
      /\ (seqnum - f + 1) * Mss = B + Mss
      /\ (seqnum - 1 - f + 1) * Mss = B
      /\ (t - f + 1) * Mss \in Int
  <2>1. f \in Int /\ t \in Int /\ seqnum \in Int /\ Mss \in Int BY <1>0
  <2>2. /\ (t - f + 1) * Mss \in Int
        /\ (seqnum - f) * Mss = (seqnum - 1) * Mss - (f - 1) * Mss
        /\ (seqnum + 1 - 1) * Mss = (seqnum - 1) * Mss + Mss
        /\ (t - f + 1) * Mss - ((seqnum - f) * Mss + Mss) = (t - (seqnum + 1) + 1) * Mss
        /\ (seqnum - f + 1) * Mss = (seqnum - 1) * Mss - (f - 1) * Mss + Mss
        /\ (seqnum - 1 - f + 1) * Mss = (seqnum - f) * Mss
    BY <2>1, FillSums
  <2> QED BY <1>b, <2>2, <1>0
<1>5. \A x \in Int : x - S = d - F => Laps(x - S) BY <1>3
<1>d. \A x \in CirNode : (/\ NodeOK(x, start) /\ Live(x, start) /\ (x.filled => Whole(x))
                          /\ f <= x.firstSeq /\ x.lastSeq <= t) => PartOK(h, x, start)
  BY <1>a DEF PartOK
<1>6. ASSUME f = seqnum /\ Mss < z,
             parts = <<Filled(seqnum, d), Hole(seqnum + 1, t, d + Mss, z - Mss)>>
      PROVE FitsFor(h, parts, start) /\ HasPacket(parts, 1, seqnum) /\ Len(parts) = 2
  <2>n. PICK s2 \in Nat, d2 \in Int, z2 \in Int : s2 = seqnum + 1 /\ d2 = d + Mss /\ z2 = z - Mss
    BY <1>0
  <2> DEFINE nd == Filled(seqnum, d)
             after == Hole(s2, t, d2, z2)
  <2>1. F = S /\ B = 0 BY <1>6, <1>b, <1>4
  <2>2. Laps(d - S) /\ Begins(d, seqnum) BY <2>1, <1>3, <1>b DEF Begins
  <2>3. Begins(d2, s2)
    <3>1. d2 - (S + Mss) = d - S BY <1>0, <2>n
    <3>2. (s2 - 1) * Mss = S + Mss BY <1>4, <2>n
    <3> QED BY <3>1, <3>2, <2>2 DEF Begins
  <2>4. s2 <= t
    <3>1. CASE t = MaxInt BY <3>1, <2>n, <1>0
    <3>2. CASE t = f /\ z = (t - f + 1) * Mss
      <4>1. t - f + 1 = 1 BY <3>2
      <4>2. z = Mss BY <4>1, <3>2, <1>0
      <4> QED BY <4>2, <1>6, <1>0
    <3>3. CASE t # f BY <3>3, <2>n, <1>3, <1>6
    <3> QED BY <3>1, <3>2, <3>3, <1>3
  <2>5. SizeOK(z2, s2, t)
    <3>1. (t - f + 1) * Mss - Mss = (t - (seqnum + 1) + 1) * Mss BY <1>4, <2>1, <1>0
    <3>2. (t - f + 1) * Mss - Mss = (t - s2 + 1) * Mss BY <3>1, <2>n
    <3> QED BY <3>2, <2>n, <1>3 DEF SizeOK
  <2>6. /\ nd \in CirNode /\ nd.firstSeq = seqnum /\ nd.lastSeq = seqnum /\ nd.data = d
        /\ nd.size = Mss /\ nd.filled = TRUE
        /\ NodeOK(nd, start) /\ Whole(nd) /\ Live(nd, start)
    BY <2>2, FilledFacts
  <2>7. /\ after \in CirNode /\ after.firstSeq = s2 /\ after.lastSeq = t /\ after.filled = FALSE
        /\ NodeOK(after, start) /\ Live(after, start)
    <3>1. s2 >= start /\ s2 <= MaxInt BY <1>0, <2>n
    <3> QED BY <3>1, <2>3, <2>4, <2>5, HoleFacts
  <2>8. parts = <<nd, after>> BY <1>6, <2>n
  <2> HIDE DEF nd, after
  <2>9. PartOK(h, nd, start) /\ PartOK(h, after, start)
    <3>1. f <= seqnum /\ seqnum <= t /\ f <= s2 /\ t <= t BY <1>6, <2>4, <2>n
    <3> QED BY <3>1, <2>6, <2>7, <1>d
  <2>10. FitsFor(h, <<nd, after>>, start)
    <3>1. nd.firstSeq = h.firstSeq /\ after.firstSeq = nd.lastSeq + 1 /\ nd.filled /\ Ends(h, after)
      BY <1>6, <1>a, <2>6, <2>7, <2>n DEF Ends
    <3> QED BY <2>9, <3>1, TwoFit
  <2>11. Len(parts) = 2 /\ parts[1] = nd /\ parts[2] = after BY <2>8
  <2>12. PacketIn(nd, seqnum) BY <2>2, <2>6, <1>b DEF PacketIn
  <2>13. \A k \in 1..Len(parts) : parts[k].filled => k = 1
    <3>1. \A k \in 1..Len(parts) : k = 1 \/ k = 2 BY <2>11
    <3> QED BY <3>1, <2>11, <2>7
  <2> QED BY <2>8, <2>10, <2>11, <2>12, <2>13 DEF HasPacket
<1>7. ASSUME f = seqnum /\ Mss = z, parts = <<Filled(seqnum, d)>>
      PROVE FitsFor(h, parts, start) /\ HasPacket(parts, 1, seqnum) /\ Len(parts) = 1
  <2> DEFINE nd == Filled(seqnum, d)
  <2>2. Laps(d - S) /\ Begins(d, seqnum) BY <1>7, <1>b, <1>3 DEF Begins
  <2>4. seqnum <= t /\ (seqnum = t \/ t = MaxInt)
    <3>1. seqnum <= t BY <1>7, <1>3
    <3>2. CASE z = (t - f + 1) * Mss
      <4>1. PICK u \in Nat : u = t - f + 1 /\ u >= 1 BY <1>3
      <4>2. Mss = u * Mss BY <1>7, <3>2, <4>1
      <4>3. u >= 2 => u * Mss >= 2 * Mss BY <1>0
      <4>4. u = 1 BY <4>1, <4>2, <4>3, <1>0
      <4> QED BY <4>1, <4>4, <3>1, <1>7
    <3> QED BY <3>1, <3>2, <1>3
  <2>6. /\ nd \in CirNode /\ nd.firstSeq = seqnum /\ nd.lastSeq = seqnum /\ nd.data = d
        /\ nd.size = Mss /\ nd.filled = TRUE
        /\ NodeOK(nd, start) /\ Whole(nd) /\ Live(nd, start)
    BY <2>2, FilledFacts
  <2>8. parts = <<nd>> BY <1>7
  <2> HIDE DEF nd
  <2>9. PartOK(h, nd, start)
    <3>1. f <= seqnum BY <1>7
    <3> QED BY <3>1, <2>4, <2>6, <1>d
  <2>10. FitsFor(h, <<nd>>, start)
    <3>1. nd.firstSeq = h.firstSeq /\ Ends(h, nd) BY <1>7, <1>a, <2>4, <2>6 DEF Ends
    <3> QED BY <2>9, <3>1, OneFits
  <2>11. Len(parts) = 1 /\ parts[1] = nd BY <2>8
  <2>12. PacketIn(nd, seqnum) BY <2>2, <2>6, <1>b DEF PacketIn
  <2>13. \A k \in 1..Len(parts) : k = 1 BY <2>11
  <2> QED BY <2>8, <2>10, <2>11, <2>12, <2>13 DEF HasPacket
<1>8. ASSUME f < seqnum /\ seqnum < t,
             parts = <<Hole(f, seqnum - 1, d, B), Filled(seqnum, Wrapped(d + B)),
                       Hole(seqnum + 1, t, Wrapped(Wrapped(d + B) + Mss), z - (B + Mss))>>
      PROVE FitsFor(h, parts, start) /\ HasPacket(parts, 2, seqnum) /\ Len(parts) = 3
  <2>n. PICK s1 \in Nat, s2 \in Nat, z2 \in Int : s1 = seqnum - 1 /\ s2 = seqnum + 1 /\ z2 = z - (B + Mss)
    BY <1>0, <1>8
  <2>2. PICK da \in Int : da = Wrapped(d + B) /\ Laps(da - S) /\ Begins(da, seqnum)
    <3>1. (d + B) - S = d - F /\ d + B \in Int BY <1>4
    <3>2. Wrapped(d + B) \in Int /\ Laps(Wrapped(d + B) - S) BY <3>1, <1>3, WrappedLaps
    <3> QED BY <3>2, <1>b DEF Begins
  <2>3. PICK de \in Int : de = Wrapped(da + Mss) /\ Begins(de, s2)
    <3>1. (da + Mss) - (S + Mss) = da - S BY <1>0
    <3>2. da + Mss \in Int /\ S + Mss \in Int /\ Laps((da + Mss) - (S + Mss)) BY <3>1, <2>2, <1>0
    <3>3. Wrapped(da + Mss) \in Int /\ Laps(Wrapped(da + Mss) - (S + Mss)) BY <3>2, WrappedLaps
    <3> QED BY <3>3, <1>4, <2>n DEF Begins
  <2> DEFINE bef == Hole(f, s1, d, B)
             nd == Filled(seqnum, da)
             after == Hole(s2, t, de, z2)
  <2>4. f <= s1 /\ s2 <= t BY <1>8, <2>n
  <2>5. SizeOK(z2, s2, t)
    <3>1. (t - f + 1) * Mss - (B + Mss) = (t - s2 + 1) * Mss BY <1>4, <2>n
    <3> QED BY <3>1, <2>n, <1>3 DEF SizeOK
  <2>6. /\ nd \in CirNode /\ nd.firstSeq = seqnum /\ nd.lastSeq = seqnum /\ nd.data = da
        /\ nd.size = Mss /\ nd.filled = TRUE
        /\ NodeOK(nd, start) /\ Whole(nd) /\ Live(nd, start)
    <3>1. Begins(da, seqnum) BY <2>2
    <3> QED BY <3>1, FilledFacts
  <2>7. /\ after \in CirNode /\ after.firstSeq = s2 /\ after.lastSeq = t /\ after.filled = FALSE
        /\ NodeOK(after, start) /\ Live(after, start)
    <3>1. s2 >= start /\ s2 <= MaxInt BY <1>0, <2>n
    <3>2. Begins(de, s2) BY <2>3
    <3> QED BY <3>1, <3>2, <2>4, <2>5, HoleFacts
  <2>14. /\ bef \in CirNode /\ bef.firstSeq = f /\ bef.lastSeq = s1 /\ bef.filled = FALSE
         /\ NodeOK(bef, start) /\ Live(bef, start)
    <3>1. SizeOK(B, f, s1)
      <4>1. B = (s1 - f + 1) * Mss BY <1>4, <2>n
      <4> QED BY <4>1 DEF SizeOK
    <3>2. Begins(d, f) BY <1>b, <1>3 DEF Begins
    <3>3. f >= start /\ f <= MaxInt BY <1>3
    <3> QED BY <3>1, <3>2, <3>3, <2>4, HoleFacts
  <2>8. parts = <<bef, nd, after>> BY <1>8, <2>2, <2>3, <2>n
  <2> HIDE DEF bef, nd, after
  <2>9. PartOK(h, bef, start) /\ PartOK(h, nd, start) /\ PartOK(h, after, start)
    <3>1. /\ f <= seqnum /\ seqnum <= t /\ f <= s2 /\ t <= t
          /\ s1 <= t /\ f <= f
      BY <1>8, <2>n
    <3> QED BY <3>1, <2>6, <2>7, <2>14, <1>d
  <2>10. FitsFor(h, <<bef, nd, after>>, start)
    <3>1. /\ bef.firstSeq = h.firstSeq /\ nd.firstSeq = bef.lastSeq + 1 /\ after.firstSeq = nd.lastSeq + 1
          /\ nd.filled /\ nd.lastSeq = nd.firstSeq /\ Ends(h, after)
      BY <1>a, <2>6, <2>7, <2>14, <2>n DEF Ends
    <3> QED BY <2>9, <3>1, ThreeFit
  <2>11. Len(parts) = 3 /\ parts[1] = bef /\ parts[2] = nd /\ parts[3] = after BY <2>8
  <2>12. PacketIn(nd, seqnum) BY <2>2, <2>6, <1>b DEF PacketIn
  <2>13. \A k \in 1..Len(parts) : parts[k].filled => k = 2
    <3>1. \A k \in 1..Len(parts) : k = 1 \/ k = 2 \/ k = 3 BY <2>11
    <3> QED BY <3>1, <2>11, <2>7, <2>14
  <2> QED BY <2>8, <2>10, <2>11, <2>12, <2>13 DEF HasPacket
<1>9. ASSUME f < seqnum /\ seqnum = t,
             parts = <<Hole(f, seqnum - 1, d, z - Mss), Filled(seqnum, Wrapped(d + z - Mss))>>
      PROVE FitsFor(h, parts, start) /\ HasPacket(parts, 2, seqnum) /\ Len(parts) = 2
  <2>1. z = B + Mss
    <3>1. t # MaxInt BY <1>9, <1>0
    <3>2. z = (t - f + 1) * Mss BY <3>1, <1>3
    <3>3. z = (seqnum - f + 1) * Mss BY <3>2, <1>9
    <3> QED BY <3>3, <1>4
  <2>n. PICK s1 \in Nat, z1 \in Int : s1 = seqnum - 1 /\ z1 = z - Mss BY <1>0, <1>9
  <2>2. PICK da \in Int : da = Wrapped(d + z - Mss) /\ Laps(da - S) /\ Begins(da, seqnum)
    <3>1. (d + z - Mss) - S = d - F /\ d + z - Mss \in Int BY <1>4, <2>1, <1>0
    <3>2. Wrapped(d + z - Mss) \in Int /\ Laps(Wrapped(d + z - Mss) - S) BY <3>1, <1>3, WrappedLaps
    <3> QED BY <3>2, <1>b DEF Begins
  <2> DEFINE bef == Hole(f, s1, d, z1)
             nd  == Filled(seqnum, da)
  <2>4. f <= s1 BY <1>9, <2>n
  <2>6. /\ nd \in CirNode /\ nd.firstSeq = seqnum /\ nd.lastSeq = seqnum /\ nd.data = da
        /\ nd.size = Mss /\ nd.filled = TRUE
        /\ NodeOK(nd, start) /\ Whole(nd) /\ Live(nd, start)
    <3>1. Begins(da, seqnum) BY <2>2
    <3> QED BY <3>1, FilledFacts
  <2>14. /\ bef \in CirNode /\ bef.firstSeq = f /\ bef.lastSeq = s1 /\ bef.filled = FALSE
         /\ NodeOK(bef, start) /\ Live(bef, start)
    <3>1. SizeOK(z1, f, s1)
      <4>1. z1 = (s1 - f + 1) * Mss BY <1>4, <2>1, <2>n, <1>0
      <4> QED BY <4>1 DEF SizeOK
    <3>2. Begins(d, f) BY <1>b, <1>3 DEF Begins
    <3>3. f >= start /\ f <= MaxInt BY <1>3
    <3> QED BY <3>1, <3>2, <3>3, <2>4, HoleFacts
  <2>8. parts = <<bef, nd>> BY <1>9, <2>2, <2>n
  <2> HIDE DEF bef, nd
  <2>9. PartOK(h, bef, start) /\ PartOK(h, nd, start)
    <3>1. f <= seqnum /\ seqnum <= t /\ s1 <= t /\ f <= f BY <1>9, <2>n
    <3> QED BY <3>1, <2>6, <2>14, <1>d
  <2>10. FitsFor(h, <<bef, nd>>, start)
    <3>1. bef.firstSeq = h.firstSeq /\ nd.firstSeq = bef.lastSeq + 1 /\ nd.filled /\ Ends(h, nd)
      BY <1>9, <1>a, <2>6, <2>14, <2>n DEF Ends
    <3> QED BY <2>9, <3>1, TwoFit
  <2>11. Len(parts) = 2 /\ parts[1] = bef /\ parts[2] = nd BY <2>8
  <2>12. PacketIn(nd, seqnum) BY <2>2, <2>6, <1>b DEF PacketIn
  <2>13. \A k \in 1..Len(parts) : parts[k].filled => k = 2
    <3>1. \A k \in 1..Len(parts) : k = 1 \/ k = 2 BY <2>11
    <3> QED BY <3>1, <2>11, <2>14
  <2> QED BY <2>8, <2>10, <2>11, <2>12, <2>13 DEF HasPacket
<1>10. FitsFor(h, parts, start) /\ \E p \in 1..Len(parts) : HasPacket(parts, p, seqnum)
  <2>1. (FitsFor(h, parts, start) /\ HasPacket(parts, 1, seqnum) /\ Len(parts) \in {1, 2})
        \/ (FitsFor(h, parts, start) /\ HasPacket(parts, 2, seqnum) /\ Len(parts) \in {2, 3})
    BY <1>1, <1>6, <1>7, <1>8, <1>9
  <2> QED BY <2>1
<1> QED BY <1>2, <1>10

(* Chains of inequalities. *)
LEMMA LessChain ==
  ASSUME NEW x \in Nat, NEW y \in Nat, NEW z \in Nat
  PROVE  (x < y /\ y <= z => x < z) /\ (x <= y /\ y < z => x < z)
  OBVIOUS

(* What SubSeq() leaves of a sequence: the elements behind the i-th. *)
LEMMA BackFacts ==
  ASSUME NEW R, NEW x \in Seq(R), NEW i \in 1..Len(x)
  PROVE  /\ SubSeq(x, i+1, Len(x)) \in Seq(R) /\ Len(SubSeq(x, i+1, Len(x))) = Len(x) - i
         /\ \A k \in 1..Len(x)-i : SubSeq(x, i+1, Len(x))[k] = x[i + k]
  OBVIOUS

(* r is l with the nodes parts in the place of node i.                     *)
IsSplice(l, i, parts, r) ==
  /\ r \in Seq(CirNode) /\ Len(r) = Len(l) - 1 + Len(parts)
  /\ \A k \in 1..Len(l) : k < i => r[k] = l[k]
  /\ \A k \in 1..Len(parts) : r[i - 1 + k] = parts[k]
  /\ \A k \in 1..Len(l) : k > i => r[k - 1 + Len(parts)] = l[k]

(* addData() makes it of three pieces. *)
LEMMA SpliceIs ==
  ASSUME NEW l \in Seq(CirNode), NEW i \in 1..Len(l), NEW parts \in Seq(CirNode), NEW r,
         r = SubSeq(l, 1, i-1) \o parts \o SubSeq(l, i+1, Len(l))
  PROVE  IsSplice(l, i, parts, r)
<1> DEFINE n == Len(l)
           p == Len(parts)
           x == SubSeq(l, 1, i-1)
           y == SubSeq(l, i+1, n)
<1>1. n \in Nat /\ p \in Nat /\ i \in Nat /\ 1 <= i /\ i <= n OBVIOUS
<1>2. x \in Seq(CirNode) /\ Len(x) = i - 1 /\ \A k \in 1..i-1 : x[k] = l[k]
  <2>1. i - 1 \in Nat /\ i - 1 <= Len(l) BY <1>1
  <2> QED BY <2>1, FrontFacts
<1>3. y \in Seq(CirNode) /\ Len(y) = n - i /\ \A k \in 1..n-i : y[k] = l[i + k]
  BY BackFacts
<1>4. r = (x \o parts) \o y OBVIOUS
<1> HIDE DEF x, y, n, p
<1> DEFINE xp == x \o parts
<1>5. /\ xp \in Seq(CirNode) /\ Len(xp) = i - 1 + p
      /\ \A k \in 1..i-1 : xp[k] = x[k]
      /\ \A k \in 1..p : xp[i - 1 + k] = parts[k]
  <2>1. /\ xp \in Seq(CirNode) /\ Len(xp) = Len(x) + p
        /\ \A k \in 1..Len(x) : xp[k] = x[k]
        /\ \A k \in 1..p : xp[Len(x) + k] = parts[k]
    <3>1. x \in Seq(CirNode) /\ parts \in Seq(CirNode) BY <1>2
    <3> QED BY <3>1 DEF p
  <2>2. Len(x) = i - 1 BY <1>2
  <2> HIDE DEF xp
  <2> QED BY <2>1, <2>2
<1> HIDE DEF xp
<1>6. r = xp \o y BY <1>4 DEF xp
<1>7. /\ r \in Seq(CirNode) /\ Len(r) = (i - 1 + p) + (n - i)
      /\ \A k \in 1..i-1+p : r[k] = xp[k]
      /\ \A k \in 1..n-i : r[(i - 1 + p) + k] = y[k]
  <2>1. /\ r \in Seq(CirNode) /\ Len(r) = Len(xp) + Len(y)
        /\ \A k \in 1..Len(xp) : r[k] = xp[k]
        /\ \A k \in 1..Len(y) : r[Len(xp) + k] = y[k]
    <3>1. xp \in Seq(CirNode) /\ y \in Seq(CirNode) BY <1>3, <1>5
    <3>2. /\ xp \o y \in Seq(CirNode) /\ Len(xp \o y) = Len(xp) + Len(y)
          /\ \A k \in 1..Len(xp) : (xp \o y)[k] = xp[k]
      BY <3>1
    <3>3. \A k \in 1..Len(y) : (xp \o y)[Len(xp) + k] = y[k] BY <3>1, SMTT(40)
    <3> QED BY <3>2, <3>3, <1>6
  <2>2. Len(xp) = i - 1 + p /\ Len(y) = n - i BY <1>3, <1>5
  <2> QED BY <2>1, <2>2
<1>8. Len(r) = n - 1 + p
  <2>1. (i - 1 + p) + (n - i) = n - 1 + p BY <1>1
  <2> QED BY <2>1, <1>7
<1>9. \A k \in 1..n : k < i => r[k] = l[k]
  <2> SUFFICES ASSUME NEW k \in 1..n, k < i PROVE r[k] = l[k] OBVIOUS
  <2>1. k \in 1..i-1 /\ k \in 1..i-1+p BY <1>1
  <2> QED BY <2>1, <1>2, <1>5, <1>7
<1>10. \A k \in 1..p : r[i - 1 + k] = parts[k]
  <2> SUFFICES ASSUME NEW k \in 1..p PROVE r[i - 1 + k] = parts[k] OBVIOUS
  <2>1. i - 1 + k \in 1..i-1+p BY <1>1
  <2> QED BY <2>1, <1>5, <1>7
<1>11. \A k \in 1..n : k > i => r[k - 1 + p] = l[k]
  <2> SUFFICES ASSUME NEW k \in 1..n, k > i PROVE r[k - 1 + p] = l[k] OBVIOUS
  <2>1. PICK m \in 1..n-i : m = k - i BY <1>1
  <2>2. (i - 1 + p) + m = k - 1 + p /\ i + m = k BY <2>1, <1>1
  <2>3. r[(i - 1 + p) + m] = y[m] BY <1>7
  <2>4. y[m] = l[i + m] BY <1>3
  <2> QED BY <2>2, <2>3, <2>4
<1> QED BY <1>7, <1>8, <1>9, <1>10, <1>11 DEF IsSplice, n, p

(* Every place in it is one of the three. *)
LEMMA SplicePlace ==
  ASSUME NEW l \in Seq(CirNode), NEW i \in 1..Len(l), NEW parts \in Seq(CirNode), NEW r,
         IsSplice(l, i, parts, r), NEW k \in 1..Len(r)
  PROVE  \/ k \in 1..Len(l) /\ k < i /\ r[k] = l[k]
         \/ \E u \in 1..Len(parts) : k = i - 1 + u /\ r[k] = parts[u]
         \/ \E u \in 1..Len(l) : u > i /\ k = u - 1 + Len(parts) /\ r[k] = l[u]
<1> DEFINE n == Len(l)
           p == Len(parts)
<1>1. n \in Nat /\ p \in Nat /\ i \in Nat /\ 1 <= i /\ i <= n OBVIOUS
<1>2. k \in 1..n-1+p BY DEF IsSplice
<1> HIDE DEF n, p
<1>3. CASE k < i
  <2>1. k \in 1..n BY <1>1, <1>2, <1>3
  <2> QED BY <2>1, <1>3 DEF IsSplice, n
<1>4. CASE k >= i /\ k <= i - 1 + p
  <2>1. k - (i - 1) \in 1..p /\ k = i - 1 + (k - (i - 1)) BY <1>1, <1>2, <1>4
  <2>2. PICK u \in 1..p : k = i - 1 + u BY <2>1
  <2> QED BY <2>2 DEF IsSplice, p
<1>5. CASE k > i - 1 + p
  <2>1. k + 1 - p \in 1..n /\ k + 1 - p > i /\ k = (k + 1 - p) - 1 + p BY <1>1, <1>2, <1>5
  <2>2. PICK u \in 1..n : u > i /\ k = u - 1 + p BY <2>1
  <2> QED BY <2>2 DEF IsSplice, n, p
<1>6. k < i \/ (k >= i /\ k <= i - 1 + p) \/ k > i - 1 + p BY <1>1, <1>2
<1> QED BY <1>3, <1>4, <1>5, <1>6

(* The list with those nodes in the place of the hole is in order, and     *)
(* holds the packet besides what it held.                                  *)
LEMMA SpliceOK ==
  ASSUME NEW start \in Nat, NEW l, ListOK(l, start), NEW i \in 1..Len(l), ~l[i].filled, Live(l[i], start),
         NEW parts, FitsFor(l[i], parts, start), NEW seqnum \in Nat,
         NEW q \in 1..Len(parts), HasPacket(parts, q, seqnum),
         NEW r, IsSplice(l, i, parts, r)
  PROVE  /\ ListOK(r, start)
         /\ \A s \in Nat : Holds(r, s) <=> Holds(l, s) \/ s = seqnum
         /\ ReadUpTo(r, start) = ReadUpTo(l, start)
<1> DEFINE n == Len(l)
           p == Len(parts)
           h == l[i]
<1>1. /\ l \in Seq(CirNode) /\ parts \in Seq(CirNode) /\ r \in Seq(CirNode)
      /\ n \in Nat /\ p \in Nat /\ p >= 1 /\ i \in Nat /\ 1 <= i /\ i <= n /\ Len(r) = n - 1 + p
  BY DEF ListOK, FitsFor, IsSplice
<1>2. /\ \A k \in 1..n : l[k] \in CirNode /\ NodeOK(l[k], start) /\ (k # 1 /\ l[k].filled => Whole(l[k]))
      /\ \A a, b \in 1..n : a < b => InOrder(l[a], l[b], start)
      /\ \A a \in 1..n-1 : Adjacent(l[a], l[a+1], start)
      /\ Live(l[1], start) => l[1].firstSeq = start
      /\ ~Live(l[n], start) => l[n].lastSeq = start - 1
  <2>1. \A k \in 1..n : l[k] \in CirNode BY <1>1
  <2> QED BY <2>1 DEF ListOK
<1>3. /\ \A u \in 1..p : /\ parts[u] \in CirNode /\ NodeOK(parts[u], start) /\ Live(parts[u], start)
                         /\ parts[u].filled => Whole(parts[u])
                         /\ h.firstSeq <= parts[u].firstSeq /\ parts[u].lastSeq <= h.lastSeq
      /\ \A a, b \in 1..p : a < b => InOrder(parts[a], parts[b], start)
      /\ \A a \in 1..p-1 : Adjacent(parts[a], parts[a+1], start)
      /\ parts[1].firstSeq = h.firstSeq
      /\ parts[p].lastSeq = h.lastSeq \/ h.lastSeq = MaxInt
  <2>1. \A u \in 1..p : parts[u] \in CirNode BY <1>1
  <2> QED BY <2>1 DEF FitsFor
<1>4. /\ \A k \in 1..n : k < i => r[k] = l[k]
      /\ \A u \in 1..p : r[i - 1 + u] = parts[u]
      /\ \A k \in 1..n : k > i => r[k - 1 + p] = l[k]
  BY DEF IsSplice
<1>5. \A k \in 1..Len(r) :
         \/ k \in 1..n /\ k < i /\ r[k] = l[k]
         \/ \E u \in 1..p : k = i - 1 + u /\ r[k] = parts[u]
         \/ \E u \in 1..n : u > i /\ k = u - 1 + p /\ r[k] = l[u]
  <2>1. l \in Seq(CirNode) /\ parts \in Seq(CirNode) BY <1>1
  <2> QED BY <2>1, SplicePlace
<1>6. h \in CirNode /\ ~h.filled /\ Live(h, start) BY <1>1, <1>2
<1> HIDE DEF n, p, h
<1>7. \A k \in 1..n : k < i => Live(l[k], start) /\ l[k].lastSeq < h.firstSeq
  <2> SUFFICES ASSUME NEW k \in 1..n, k < i PROVE Live(l[k], start) /\ l[k].lastSeq < h.firstSeq OBVIOUS
  <2>1. InOrder(l[k], h, start) BY <1>1, <1>2 DEF h
  <2> QED BY <2>1, <1>6 DEF InOrder
<1>8. \A k \in 1..n : k > i => InOrder(h, l[k], start) BY <1>1, <1>2 DEF h
<1>9. ASSUME NEW k \in 1..Len(r) PROVE NodeOK(r[k], start) /\ (k # 1 /\ r[k].filled => Whole(r[k]))
  <2>1. CASE k \in 1..n /\ k < i /\ r[k] = l[k] BY <2>1, <1>2
  <2>2. ASSUME NEW u \in 1..p, r[k] = parts[u] PROVE NodeOK(r[k], start) /\ (r[k].filled => Whole(r[k]))
    BY <2>2, <1>3
  <2>3. ASSUME NEW u \in 1..n, u > i, r[k] = l[u] PROVE NodeOK(r[k], start) /\ (r[k].filled => Whole(r[k]))
    <3>1. u # 1 BY <2>3, <1>1
    <3> QED BY <2>3, <3>1, <1>2
  <2> QED BY <1>5, <2>1, <2>2, <2>3
<1>10. ASSUME NEW a \in 1..Len(r), NEW b \in 1..Len(r), a < b PROVE InOrder(r[a], r[b], start)
  <2>0. a \in Nat /\ b \in Nat BY <1>1
  <2>1. CASE a \in 1..n /\ a < i /\ r[a] = l[a]
    <3>1. CASE b \in 1..n /\ b < i /\ r[b] = l[b] BY <1>10, <2>1, <3>1, <1>2
    <3>2. ASSUME NEW u \in 1..p, r[b] = parts[u] PROVE InOrder(r[a], r[b], start)
      <4>1. Live(l[a], start) /\ l[a].lastSeq < h.firstSeq BY <2>1, <1>7
      <4>2. h.firstSeq <= parts[u].firstSeq BY <1>3
      <4>3. l[a].lastSeq \in Nat /\ h.firstSeq \in Nat /\ parts[u].firstSeq \in Nat BY <2>1, <1>2, <1>3, <1>6, NodeTypes
      <4>4. l[a].lastSeq < parts[u].firstSeq BY <4>1, <4>2, <4>3, LessChain
      <4> QED BY <2>1, <3>2, <4>1, <4>4 DEF InOrder
    <3>3. ASSUME NEW u \in 1..n, u > i, r[b] = l[u] PROVE InOrder(r[a], r[b], start)
      <4>1. a < u BY <2>1, <3>3, <1>1
      <4> QED BY <4>1, <2>1, <3>3, <1>2
    <3> QED BY <1>5, <3>1, <3>2, <3>3
  <2>2. ASSUME NEW v \in 1..p, a = i - 1 + v, r[a] = parts[v] PROVE InOrder(r[a], r[b], start)
    <3>1. CASE b \in 1..n /\ b < i /\ r[b] = l[b] BY <1>10, <2>2, <3>1, <1>1
    <3>2. ASSUME NEW u \in 1..p, b = i - 1 + u, r[b] = parts[u] PROVE InOrder(r[a], r[b], start)
      <4>1. v < u BY <1>10, <2>2, <3>2, <1>1
      <4> QED BY <4>1, <2>2, <3>2, <1>3
    <3>3. ASSUME NEW u \in 1..n, u > i, r[b] = l[u] PROVE InOrder(r[a], r[b], start)
      <4> SUFFICES ASSUME Live(l[u], start) PROVE parts[v].lastSeq < l[u].firstSeq
        BY <2>2, <3>3, <1>3 DEF InOrder
      <4>1. h.lastSeq < l[u].firstSeq BY <3>3, <1>8 DEF InOrder
      <4>2. parts[v].lastSeq <= h.lastSeq BY <1>3
      <4>3. parts[v].lastSeq \in Nat /\ h.lastSeq \in Nat /\ l[u].firstSeq \in Nat BY <1>2, <1>3, <1>6, NodeTypes
      <4> QED BY <4>1, <4>2, <4>3, LessChain
    <3> QED BY <1>5, <3>1, <3>2, <3>3
  <2>3. ASSUME NEW v \in 1..n, v > i, a = v - 1 + p, r[a] = l[v] PROVE InOrder(r[a], r[b], start)
    <3>1. CASE b \in 1..n /\ b < i /\ r[b] = l[b] BY <1>10, <2>3, <3>1, <1>1
    <3>2. ASSUME NEW u \in 1..p, b = i - 1 + u, r[b] = parts[u] PROVE InOrder(r[a], r[b], start)
      BY <1>10, <2>3, <3>2, <1>1
    <3>3. ASSUME NEW u \in 1..n, u > i, b = u - 1 + p, r[b] = l[u] PROVE InOrder(r[a], r[b], start)
      <4>1. v < u
        <5>1. v - 1 + p < u - 1 + p /\ v \in Int /\ u \in Int BY <1>10, <2>3, <3>3, <1>1
        <5> QED BY <5>1, <1>1
      <4> QED BY <4>1, <2>3, <3>3, <1>2
    <3> QED BY <1>5, <3>1, <3>2, <3>3
  <2> QED BY <1>5, <2>1, <2>2, <2>3
<1>11. ASSUME NEW a \in 1..Len(r)-1 PROVE Adjacent(r[a], r[a+1], start)
  <2>0. a \in Nat /\ a >= 1 /\ a <= n - 1 + p - 1 BY <1>1
  <2>1. CASE a + 1 < i
    <3>1. a \in 1..n /\ a + 1 \in 1..n /\ a \in 1..n-1 /\ a < i BY <2>0, <2>1, <1>1
    <3>2. r[a] = l[a] /\ r[a+1] = l[a+1] BY <3>1, <2>1, <1>4
    <3> QED BY <3>1, <3>2, <1>2
  <2>2. CASE a + 1 = i
    <3>1. a \in 1..n /\ a < i /\ a \in 1..n-1 /\ i - 1 + 1 = i /\ 1 \in 1..p BY <2>0, <2>2, <1>1
    <3>2. r[a] = l[a] /\ r[i - 1 + 1] = parts[1] BY <3>1, <1>4
    <3>3. r[a+1] = parts[1] BY <3>1, <3>2, <2>2
    <3>4. Adjacent(l[a], h, start)
      <4>1. Adjacent(l[a], l[a+1], start) BY <3>1, <1>2
      <4> QED BY <4>1, <2>2 DEF h
    <3>5. Live(l[a], start) BY <3>1, <1>7
    <3>6. h.firstSeq = l[a].lastSeq + 1 /\ l[a].filled BY <3>4, <1>6 DEF Adjacent
    <3> QED BY <3>2, <3>3, <3>5, <3>6, <1>3 DEF Adjacent
  <2>3. CASE a >= i /\ a + 1 <= i - 1 + p
    <3>1. PICK u \in 1..p-1 : a = i - 1 + u
      <4>1. a - (i - 1) \in 1..p-1 /\ a = i - 1 + (a - (i - 1)) BY <2>0, <2>3, <1>1
      <4> QED BY <4>1
    <3>2. u \in 1..p /\ u + 1 \in 1..p /\ a + 1 = i - 1 + (u + 1) BY <3>1, <1>1
    <3>3. r[a] = parts[u] /\ r[a+1] = parts[u+1] BY <3>1, <3>2, <1>4
    <3> QED BY <3>3, <3>1, <1>3
  <2>4. CASE a = i - 1 + p
    <3>1. p \in 1..p /\ i \in 1..n-1 /\ i + 1 \in 1..n /\ i + 1 > i /\ a + 1 = (i + 1) - 1 + p
      BY <2>0, <2>4, <1>1
    <3>2. r[a] = parts[p] /\ r[a+1] = l[i+1] BY <3>1, <2>4, <1>4
    <3>3. Adjacent(h, l[i+1], start) BY <3>1, <1>2 DEF h
    <3>4. Live(parts[p], start) BY <3>1, <1>3
    <3>5. ASSUME Live(l[i+1], start)
          PROVE  l[i+1].firstSeq = parts[p].lastSeq + 1 /\ l[i+1].filled
      <4>1. l[i+1].firstSeq = h.lastSeq + 1 /\ l[i+1].filled BY <3>3, <3>5, <1>6 DEF Adjacent
      <4>2. FilledOK(l[i+1], start) BY <3>1, <4>1, <1>2 DEF NodeOK
      <4>3. /\ l[i+1].firstSeq \in Nat /\ l[i+1].lastSeq \in Nat /\ h.lastSeq \in Nat
            /\ MaxInt \in Nat /\ MaxSeq \in Nat /\ MaxSeq < MaxInt
        BY <3>1, <1>2, <1>6, NodeTypes, Sizes
      <4>4. l[i+1].firstSeq <= l[i+1].lastSeq /\ l[i+1].lastSeq <= MaxSeq BY <4>2, <4>3 DEF FilledOK
      <4>5. h.lastSeq # MaxInt
        <5> SUFFICES ASSUME h.lastSeq = MaxInt PROVE FALSE OBVIOUS
        <5>1. PICK x \in Nat, y \in Nat : x = l[i+1].firstSeq /\ y = l[i+1].lastSeq BY <4>3
        <5>2. x = MaxInt + 1 /\ x <= y /\ y <= MaxSeq BY <5>1, <4>1, <4>4
        <5> QED BY <5>2, Sizes
      <4> QED BY <4>1, <4>5, <1>3
    <3> QED BY <3>2, <3>4, <3>5 DEF Adjacent
  <2>5. CASE a > i - 1 + p
    <3>1. PICK u \in 1..n-1 : a = u - 1 + p /\ u > i
      <4>1. a + 1 - p \in 1..n-1 /\ a = (a + 1 - p) - 1 + p /\ a + 1 - p > i BY <2>0, <2>5, <1>1
      <4> QED BY <4>1
    <3>2. u \in 1..n /\ u + 1 \in 1..n /\ u + 1 > i /\ a + 1 = (u + 1) - 1 + p BY <3>1, <1>1
    <3>3. r[a] = l[u] /\ r[a+1] = l[u+1] BY <3>1, <3>2, <1>4
    <3> QED BY <3>3, <3>1, <1>2
  <2> QED BY <2>0, <2>1, <2>2, <2>3, <2>4, <2>5, <1>1
<1>12. Live(r[1], start) => r[1].firstSeq = start
  <2>1. CASE i = 1
    <3>0. 1 \in 1..p BY <1>1
    <3>1. r[i - 1 + 1] = parts[1] BY <3>0, <1>4
    <3>2. r[1] = parts[1] BY <3>1, <2>1
    <3>3. h = l[1] BY <2>1 DEF h
    <3> QED BY <3>2, <3>3, <1>2, <1>3, <1>6
  <2>2. CASE i # 1
    <3>1. 1 \in 1..n /\ 1 < i BY <2>2, <1>1
    <3>2. r[1] = l[1] BY <3>1, <1>4
    <3> QED BY <3>2, <1>2
  <2> QED BY <2>1, <2>2
<1>13. ~Live(r[Len(r)], start) => r[Len(r)].lastSeq = start - 1
  <2>1. CASE i = n
    <3>1. p \in 1..p /\ Len(r) = i - 1 + p BY <2>1, <1>1
    <3>2. r[Len(r)] = parts[p] BY <3>1, <1>4
    <3> QED BY <3>1, <3>2, <1>3
  <2>2. CASE i # n
    <3>1. n \in 1..n /\ n > i /\ Len(r) = n - 1 + p BY <2>2, <1>1
    <3>2. r[Len(r)] = l[n] BY <3>1, <1>4
    <3> QED BY <3>2, <1>2
  <2> QED BY <2>1, <2>2
<1>14. ListOK(r, start)
  <2>1. r \in Seq(CirNode) /\ Len(r) >= 1 BY <1>1
  <2> QED BY <2>1, <1>9, <1>10, <1>11, <1>12, <1>13 DEF ListOK
<1>15. /\ q \in 1..p /\ parts[q].filled /\ parts[q].firstSeq = seqnum /\ parts[q].lastSeq = seqnum
       /\ parts[q].size = Mss /\ \A u \in 1..p : parts[u].filled => u = q
  BY DEF HasPacket, PacketIn, p
<1>16. ASSUME NEW s \in Nat PROVE Holds(r, s) <=> Holds(l, s) \/ s = seqnum
  <2>1. ASSUME Holds(r, s) PROVE Holds(l, s) \/ s = seqnum
    <3>1. PICK k \in 1..Len(r) : r[k].filled /\ s \in r[k].firstSeq..r[k].lastSeq BY <2>1 DEF Holds
    <3>2. \A u \in 1..n : r[k] = l[u] => Holds(l, s) BY <3>1 DEF Holds, n
    <3>3. ASSUME NEW u \in 1..p, r[k] = parts[u] PROVE s = seqnum
      <4>1. u = q BY <3>1, <3>3, <1>15
      <4>2. s \in seqnum..seqnum BY <3>1, <3>3, <4>1, <1>15
      <4> QED BY <4>2
    <3> QED BY <1>5, <3>2, <3>3
  <2>2. ASSUME Holds(l, s) PROVE Holds(r, s)
    <3>1. PICK k \in 1..n : l[k].filled /\ s \in l[k].firstSeq..l[k].lastSeq BY <2>2 DEF Holds, n
    <3>2. k # i BY <3>1, <1>6 DEF h
    <3>3. CASE k < i
      <4>1. k \in 1..Len(r) /\ r[k] = l[k] BY <3>3, <1>1, <1>4
      <4> QED BY <3>1, <4>1 DEF Holds
    <3>4. CASE k > i
      <4>1. k - 1 + p \in 1..Len(r) /\ r[k - 1 + p] = l[k] BY <3>4, <1>1, <1>4
      <4> QED BY <3>1, <4>1 DEF Holds
    <3> QED BY <3>2, <3>3, <3>4, <1>1
  <2>3. ASSUME s = seqnum PROVE Holds(r, s)
    <3>1. i - 1 + q \in 1..Len(r) /\ r[i - 1 + q] = parts[q] BY <1>1, <1>4, <1>15
    <3>2. s \in parts[q].firstSeq..parts[q].lastSeq BY <2>3, <1>15
    <3> QED BY <3>1, <3>2, <1>15 DEF Holds
  <2> QED BY <2>1, <2>2, <2>3
<1>17. ReadUpTo(r, start) = ReadUpTo(l, start)
  <2>1. CASE i = 1
    <3>1. r[i - 1 + 1] = parts[1] /\ 1 \in 1..p BY <1>1, <1>4
    <3>2. r[1] = parts[1] /\ h = l[1] BY <3>1, <2>1 DEF h
    <3>3. h.firstSeq = start BY <3>2, <1>2, <1>6
    <3>4. CASE parts[1].filled
      <4>1. 1 = q BY <3>1, <3>4, <1>15
      <4>2. parts[1].lastSeq = start /\ parts[1].size = Mss BY <4>1, <1>15, <3>3, <1>3
      <4>3. start * Mss - Mss = (start - 1) * Mss BY Sizes
      <4> QED BY <3>2, <3>4, <4>2, <4>3, <1>6 DEF ReadUpTo
    <3>5. CASE ~parts[1].filled BY <3>2, <3>5, <1>6 DEF ReadUpTo
    <3> QED BY <3>4, <3>5
  <2>2. CASE i # 1
    <3>1. 1 \in 1..n /\ 1 < i BY <2>2, <1>1
    <3>2. r[1] = l[1] BY <3>1, <1>4
    <3> QED BY <3>2 DEF ReadUpTo
  <2> QED BY <2>1, <2>2
<1> QED BY <1>14, <1>16, <1>17

--------------------------------------------------------------------------------

(* The node at which addData() stops. *)
LEMMA FirstHitIs ==
  ASSUME NEW l \in Seq(CirNode), NEW seqnum, NEW i, i = FirstHit(l, seqnum), i # 0
  PROVE  i \in 1..Len(l) /\ (Known(l[i], seqnum) \/ Takes(l[i], seqnum))
<1> DEFINE hits == {k \in 1..Len(l) : Known(l[k], seqnum) \/ Takes(l[k], seqnum)}
<1>1. i = IF hits = {} THEN 0 ELSE CHOOSE k \in hits : \A j \in hits : k <= j BY DEF FirstHit
<1>2. hits \in SUBSET Nat OBVIOUS
<1>3. i \in hits
  <2> HIDE DEF hits
  <2>1. hits # {} BY <1>1
  <2>2. PICK x \in hits : \A y \in hits : x <= y BY <1>2, <2>1, NatMin
  <2> QED BY <1>1, <2>1, <2>2
<1> QED BY <1>3

(* The one node that holds the new packet. *)
LEMMA TheFilled ==
  ASSUME NEW parts \in Seq(CirNode), NEW p \in 1..Len(parts), NEW seqnum, HasPacket(parts, p, seqnum)
  PROVE  NewNode(parts) = parts[p]
<1>1. ToSet(parts) = {parts[k] : k \in 1..Len(parts)} BY DEF ToSet
<1>2. parts[p] \in ToSet(parts) /\ parts[p].filled BY <1>1 DEF HasPacket, PacketIn
<1>3. \A x \in ToSet(parts) : x.filled => x = parts[p] BY <1>1 DEF HasPacket
<1> QED BY <1>2, <1>3 DEF NewNode

(* An address is its own remainder. *)
LEMMA SmallMod == ASSUME NEW x \in Int, 0 <= x, x < BufSize PROVE x % BufSize = x
<1> DEFINE p == x \div BufSize
           r == x % BufSize
<1>1. p \in Int /\ r \in 0..BufSize-1 /\ x = BufSize * p + r BY Sizes, DivMod
<1> HIDE DEF p, r
<1>2. x - r \in Int /\ x - r = BufSize * p /\ -BufSize < x - r /\ x - r < BufSize BY <1>1, Sizes
<1> DEFINE d == x - r
<1>3. d = 0
  <2> HIDE DEF d
  <2>1. d \in Int /\ d = BufSize * p /\ -BufSize < d /\ d < BufSize BY <1>2 DEF d
  <2> QED BY <2>1, <1>1, Sizes, NoWholeLap
<1>4. r = x BY <1>1, <1>3, Sizes
<1> QED BY <1>4 DEF r

(* The offset of byte q in a copy to address d, where byte b belongs.      *)
LEMMA Offset ==
  ASSUME NEW d \in Int, NEW b \in Int, Laps(d - b), NEW q \in Int, NEW j \in Int, 0 <= j, j < BufSize,
         Laps((q - b) - j)
  PROVE  ((q % BufSize) - d) % BufSize = j
<1> DEFINE a == q % BufSize
<1>1. a \in 0..BufSize-1 BY Sizes, DivMod
<1>2. a % BufSize = q % BufSize
  <2>1. a \in Int /\ 0 <= a /\ a < BufSize BY <1>1, Sizes
  <2> HIDE DEF a
  <2>2. a % BufSize = a BY <2>1, SmallMod
  <2> QED BY <2>2 DEF a
<1> HIDE DEF a
<1>3. a \in Int BY <1>1, Sizes
<1>4. Laps(a - q) BY <1>2, <1>3, SameAddress
<1>5. PICK u \in Int, v \in Int, w \in Int : u = a - q /\ v = (q - b) - j /\ w = d - b BY <1>3
<1>6. Laps(u) /\ Laps(v) /\ Laps(w) BY <1>4, <1>5
<1>7. Laps(u + v) BY <1>6, LapsAdd
<1>8. u + v \in Int /\ Laps((u + v) - w) BY <1>6, <1>7, LapsAdd
<1>9. (u + v) - w = (a - d) - j BY <1>3, <1>5
<1>10. a - d \in Int /\ Laps((a - d) - j) BY <1>3, <1>8, <1>9
<1>11. (a - d) % BufSize = j % BufSize BY <1>10, SameAddress
<1>12. j % BufSize = j BY SmallMod
<1> QED BY <1>11, <1>12 DEF a

(* Byte q of the stream belongs to one packet. *)
LEMMA PacketOf ==
  ASSUME NEW f \in Int, NEW t \in Int, NEW q \in Int, (f - 1) * Mss <= q, q < t * Mss
  PROVE  \E s \in f..t : q \in (s-1)*Mss..s*Mss-1
<1> DEFINE p == q \div Mss
           r == q % Mss
<1>1. p \in Int /\ r \in 0..Mss-1 /\ q = Mss * p + r BY Sizes, DivMod
<1> HIDE DEF p, r
<1>2. PICK s \in Int : s = p + 1 BY <1>1
<1>3. (s - 1) * Mss = Mss * p /\ s * Mss = Mss * p + Mss /\ Mss * p \in Int BY <1>1, <1>2, Sizes
<1>4. q \in (s-1)*Mss..s*Mss-1 BY <1>1, <1>3, Sizes
<1>5. f <= s
  <2> SUFFICES ASSUME s <= f - 1 PROVE FALSE BY <1>2
  <2>1. s * Mss <= (f - 1) * Mss BY Sizes
  <2>2. s * Mss \in Int /\ (f - 1) * Mss \in Int BY Sizes
  <2> QED BY <2>1, <2>2, <1>1, <1>3, Sizes
<1>6. s <= t
  <2> SUFFICES ASSUME t <= s - 1 PROVE FALSE BY <1>2
  <2>1. t * Mss <= (s - 1) * Mss BY Sizes
  <2>2. t * Mss \in Int /\ (s - 1) * Mss \in Int BY Sizes
  <2> QED BY <2>1, <2>2, <1>1, <1>3, Sizes
<1>7. s \in f..t BY <1>2, <1>5, <1>6
<1> QED BY <1>4, <1>7

(* The k-th byte of a filled node. *)
LEMMA NodeByte ==
  ASSUME NEW start \in Nat, NEW nd \in CirNode, FilledOK(nd, start),
         NEW k \in Int, 0 <= k, k < nd.size, NEW q, q = nd.lastSeq * Mss - nd.size + k
  PROVE  /\ q \in Int /\ (nd.firstSeq - 1) * Mss <= q /\ q < nd.lastSeq * Mss
         /\ (nd.data + k) % BufSize = q % BufSize
         /\ \E s \in nd.firstSeq..nd.lastSeq : q \in (s-1)*Mss..s*Mss-1
<1>1. PICK f \in Nat, t \in Nat, d \in Int, z \in Int :
        nd.firstSeq = f /\ nd.lastSeq = t /\ nd.data = d /\ nd.size = z
  BY NodeTypes
<1>2. PICK F \in Int, T \in Int, room \in Int : F = (f - 1) * Mss /\ T = t * Mss /\ room = (t - f + 1) * Mss
  BY Sizes
<1>3. z \in 1..room /\ Laps(d + z - T) BY <1>1, <1>2 DEF FilledOK
<1>4. room = T - F
  <2>1. (t - f + 1) * Mss = t * Mss - (f - 1) * Mss BY Sizes
  <2> QED BY <2>1, <1>2
<1>5. q = T - z + k /\ q \in Int BY <1>1, <1>2
<1>6. F <= q /\ q < T BY <1>1, <1>3, <1>4, <1>5
<1>7. (d + k) - q = d + z - T /\ d + k \in Int BY <1>5
<1>8. (d + k) % BufSize = q % BufSize BY <1>3, <1>5, <1>7, SameAddress
<1>9. (f - 1) * Mss <= q /\ q < t * Mss BY <1>2, <1>6
<1>10. \E s \in f..t : q \in (s-1)*Mss..s*Mss-1 BY <1>5, <1>9, PacketOf
<1> QED BY <1>1, <1>5, <1>8, <1>9, <1>10

(* A product with the size of a packet grows with the number of packets. *)
LEMMA MoreBytes == ASSUME NEW x \in Int, NEW y \in Int, x <= y
                   PROVE  x * Mss <= y * Mss /\ x * Mss \in Int /\ y * Mss \in Int
  BY Sizes

(* How far the bytes of packet t are from where packet s is stored. *)
LEMMA StoreOffset ==
  ASSUME NEW start \in Nat, NEW s \in start..start+Packets-1, NEW t \in start..start+Packets-1,
         NEW d \in Int, Begins(d, s), NEW q \in (t-1)*Mss..t*Mss-1,
         NEW j, j = ((q % BufSize) - d) % BufSize
  PROVE  /\ t = s => j = q - (s - 1) * Mss /\ j \in 0..Mss-1
         /\ t # s => j \in Nat /\ j >= Mss
<1>0. s \in Int /\ t \in Int /\ start \in Int BY Sizes
<1>1. PICK S \in Int, T \in Int : S = (s - 1) * Mss /\ T = (t - 1) * Mss BY <1>0, Sizes
<1>2. t * Mss = T + Mss
  <2>1. (t - 1) * Mss = t * Mss - Mss /\ t * Mss \in Int BY <1>0, Sizes
  <2> QED BY <2>1, <1>1, Sizes
<1>3. q \in Int /\ T <= q /\ q < T + Mss BY <1>1, <1>2, Sizes
<1>4. Laps(d - S) BY <1>1 DEF Begins
<1>5. CASE t = s
  <2>1. T = S BY <1>1, <1>5
  <2>2. PICK x \in Int : x = q - S BY <1>3
  <2>3. 0 <= x /\ x < Mss /\ x < BufSize BY <1>3, <2>1, <2>2, Sizes
  <2>4. (q - S) - x = 0 BY <1>3, <2>2
  <2>5. j = x BY <1>3, <1>4, <2>3, <2>4, LapsOne, Offset
  <2> QED BY <2>2, <2>3, <2>5, <1>1, <1>5, Sizes
<1>6. CASE t > s
  <2>1. S + Mss <= T
    <3>1. s * Mss <= (t - 1) * Mss
      <4>1. s <= t - 1 /\ t - 1 \in Int BY <1>6, <1>0
      <4> QED BY <4>1, <1>0, MoreBytes
    <3>2. (s - 1) * Mss = s * Mss - Mss /\ s * Mss \in Int BY <1>0, Sizes
    <3> QED BY <3>1, <3>2, <1>1, Sizes
  <2>2. T + Mss <= S + BufSize
    <3>1. t * Mss <= (s - 1 + Packets) * Mss
      <4>1. t <= s - 1 + Packets /\ s - 1 + Packets \in Int BY <1>0, Sizes
      <4> QED BY <4>1, <1>0, MoreBytes
    <3>2. (s - 1 + Packets) * Mss = (s - 1) * Mss + Packets * Mss BY <1>0, Sizes
    <3> QED BY <3>1, <3>2, <1>1, <1>2, Sizes
  <2>3. PICK x \in Int : x = q - S BY <1>3
  <2>4. Mss <= x /\ 0 <= x /\ x < BufSize BY <1>3, <2>1, <2>2, <2>3, Sizes
  <2>5. (q - S) - x = 0 BY <1>3, <2>3
  <2>6. j = x BY <1>3, <1>4, <2>4, <2>5, LapsOne, Offset
  <2> QED BY <2>3, <2>4, <2>6, <1>6, <1>0
<1>7. CASE t < s
  <2>1. T + Mss <= S
    <3>1. t * Mss <= (s - 1) * Mss
      <4>1. t <= s - 1 /\ s - 1 \in Int BY <1>7, <1>0
      <4> QED BY <4>1, <1>0, MoreBytes
    <3> QED BY <3>1, <1>1, <1>2
  <2>2. S + Mss <= T + BufSize
    <3>1. s * Mss <= (t - 1 + Packets) * Mss
      <4>1. s <= t - 1 + Packets /\ t - 1 + Packets \in Int BY <1>0, Sizes
      <4> QED BY <4>1, <1>0, MoreBytes
    <3>2. (t - 1 + Packets) * Mss = (t - 1) * Mss + Packets * Mss BY <1>0, Sizes
    <3>3. (s - 1) * Mss = s * Mss - Mss /\ s * Mss \in Int BY <1>0, Sizes
    <3> QED BY <3>1, <3>2, <3>3, <1>1, Sizes
  <2>3. PICK x \in Int : x = (q - S) + BufSize BY <1>3, Sizes
  <2>4. Mss <= x /\ 0 <= x /\ x < BufSize BY <1>3, <2>1, <2>2, <2>3, Sizes
  <2>5. (q - S) - x = 0 - BufSize /\ 0 \in Int /\ BufSize \in Int BY <1>3, <2>3, Sizes
  <2>6. Laps((q - S) - x) BY <2>5, LapsOne, LapsAdd
  <2>7. j = x BY <1>3, <1>4, <2>4, <2>6, Offset
  <2> QED BY <2>3, <2>4, <2>7, <1>7, <1>0
<1> QED BY <1>0, <1>5, <1>6, <1>7

(* After the copy the bytes of the new packet are in the buffer, and those *)
(* of the other packets that it has room for still are.                    *)
LEMMA StoreGives ==
  ASSUME NEW start \in Nat, start >= 1, NEW s \in start..start+Packets-1, NEW t \in start..start+Packets-1,
         NEW nd, nd.data \in Int, Begins(nd.data, s), NEW q \in (t-1)*Mss..t*Mss-1
  PROVE  Store(nd, Bytes(s))[q % BufSize] = IF t = s THEN q ELSE buffer[q % BufSize]
<1> DEFINE a == q % BufSize
           j == (a - nd.data) % BufSize
<1>0. s \in Int /\ t \in Int /\ q \in Int /\ s >= 1
  <2>1. s \in Int /\ t \in Int /\ s >= 1 BY Sizes
  <2>2. (t-1)*Mss \in Int /\ t*Mss \in Int BY <2>1, Sizes
  <2> QED BY <2>1, <2>2
<1>1. a \in Address
  <2>1. a \in 0..BufSize-1 BY <1>0, Sizes, DivMod
  <2> QED BY <2>1 DEF Address
<1>2. Store(nd, Bytes(s))[a] = IF j < Mss THEN Bytes(s)[j+1] ELSE buffer[a]
  <2> HIDE DEF a
  <2> QED BY <1>1 DEF Store
<1>3. /\ t = s => j = q - (s - 1) * Mss /\ j \in 0..Mss-1
      /\ t # s => j \in Nat /\ j >= Mss
  BY StoreOffset
<1> HIDE DEF j, a
<1>4. CASE t = s
  <2>1. j = q - (s - 1) * Mss /\ j \in 0..Mss-1 BY <1>3, <1>4
  <2>2. j < Mss /\ j + 1 \in 1..Mss BY <2>1, Sizes
  <2>3. Bytes(s)[j+1] = (s - 1) * Mss + (j + 1) - 1 BY <2>2 DEF Bytes
  <2>4. PICK S \in Int : S = (s - 1) * Mss BY <1>0, Sizes
  <2>5. Bytes(s)[j+1] = q BY <2>1, <2>3, <2>4, <1>0, Sizes
  <2> QED BY <2>2, <2>5, <1>2, <1>4 DEF a
<1>5. CASE t # s
  <2>1. ~(j < Mss) BY <1>3, <1>5, Sizes
  <2> QED BY <2>1, <1>2, <1>5 DEF a
<1> QED BY <1>4, <1>5

(* The copy fills the buffer with bytes. *)
LEMMA StoreType ==
  ASSUME NEW s \in Nat, s >= 1, NEW nd, nd.data \in Int, buffer \in [Address -> Nat \cup {NoByte}]
  PROVE  Store(nd, Bytes(s)) \in [Address -> Nat \cup {NoByte}]
<1> SUFFICES ASSUME NEW a \in Address
             PROVE  (LET j == (a - nd.data) % BufSize
                     IN  IF j < Mss THEN Bytes(s)[j+1] ELSE buffer[a]) \in Nat \cup {NoByte}
  BY DEF Store
<1> DEFINE j == (a - nd.data) % BufSize
<1>1. j \in 0..BufSize-1
  <2>1. a - nd.data \in Int BY Sizes DEF Address
  <2> QED BY <2>1, Sizes, DivMod
<1> HIDE DEF j
<1>2. CASE j < Mss
  <2>1. j + 1 \in 1..Mss /\ j \in Nat BY <1>1, <1>2, Sizes
  <2>2. Bytes(s)[j+1] = (s - 1) * Mss + (j + 1) - 1 BY <2>1 DEF Bytes
  <2>3. PICK S \in Nat : S = (s - 1) * Mss BY Sizes
  <2>4. Bytes(s)[j+1] \in Nat BY <2>1, <2>2, <2>3
  <2> QED BY <2>4, <1>2 DEF j
<1>3. CASE ~(j < Mss)
  <2>1. buffer[a] \in Nat \cup {NoByte} OBVIOUS
  <2> QED BY <2>1, <1>3 DEF j
<1> QED BY <1>2, <1>3

(* ftps has read up to a byte of the packet it needs next. *)
LEMMA ReadUpToIs ==
  ASSUME NEW start \in Nat, start >= 1, NEW l, ListOK(l, start), NEW x, x = ReadUpTo(l, start)
  PROVE  x \in Nat /\ (start - 1) * Mss <= x
<1>1. l[1] \in CirNode /\ NodeOK(l[1], start) BY DEF ListOK
<1>2. PICK S \in Nat : S = (start - 1) * Mss BY Sizes
<1>3. CASE l[1].filled
  <2>1. PICK f \in Nat, t \in Nat, z \in Int : l[1].firstSeq = f /\ l[1].lastSeq = t /\ l[1].size = z
    BY <1>1, NodeTypes
  <2>2. PICK F \in Int, T \in Int, room \in Int : F = (f - 1) * Mss /\ T = t * Mss /\ room = (t - f + 1) * Mss
    BY Sizes
  <2>3. z \in 1..room /\ start <= f BY <1>1, <1>3, <2>1, <2>2 DEF NodeOK, FilledOK
  <2>4. room = T - F
    <3>1. (t - f + 1) * Mss = t * Mss - (f - 1) * Mss BY Sizes
    <3> QED BY <3>1, <2>2
  <2>5. S <= F
    <3>1. (start - 1) * Mss <= (f - 1) * Mss
      <4>1. start - 1 \in Int /\ f - 1 \in Int /\ start - 1 <= f - 1 BY <2>3
      <4> QED BY <4>1, MoreBytes
    <3> QED BY <3>1, <1>2, <2>2
  <2>6. x = T - z BY <1>3, <2>1, <2>2 DEF ReadUpTo
  <2>7. S <= T - z /\ T - z \in Nat BY <2>3, <2>4, <2>5
  <2> QED BY <2>6, <2>7, <1>2
<1>4. CASE ~l[1].filled
  <2>1. x = S BY <1>2, <1>4 DEF ReadUpTo
  <2> QED BY <2>1, <1>2
<1> QED BY <1>3, <1>4

(* The end of a sequence with one more element. *)
LEMMA RotateFacts ==
  ASSUME NEW R, NEW l \in Seq(R), Len(l) >= 1, NEW x \in R, NEW r, r = Append(Tail(l), x)
  PROVE  /\ r \in Seq(R) /\ Len(r) = Len(l) /\ r[Len(l)] = x
         /\ \A k \in 1..Len(l)-1 : r[k] = l[k+1]
<1>1. l # <<>> OBVIOUS
<1> DEFINE y == Tail(l)
<1>2. y \in Seq(R) /\ Len(y) = Len(l) - 1 /\ \A k \in 1..Len(l)-1 : y[k] = l[k+1] BY <1>1
<1>3. r = Append(y, x) OBVIOUS
<1> HIDE DEF y
<1>4. r \in Seq(R) /\ Len(r) = Len(y) + 1 /\ r[Len(y) + 1] = x /\ \A k \in 1..Len(y) : r[k] = y[k]
  BY <1>2, <1>3
<1>5. Len(l) \in Nat OBVIOUS
<1>6. Len(y) + 1 = Len(l) BY <1>2, <1>5
<1> QED BY <1>2, <1>4, <1>6

(* When the node at the head has been read it becomes the last hole, and   *)
(* the list is in order for the packet after its last.                     *)
LEMMA UsedUpOK ==
  ASSUME NEW start \in Nat, start >= 1, NEW l, ListOK(l, start), l[1].filled,
         NEW r, r = UsedUp(l), NEW after, after = NextNeeded(l[1])
  PROVE  /\ after \in start+1..MaxSeq+1 /\ ListOK(r, after)
         /\ \A s \in Nat : s >= after => (Holds(r, s) <=> Holds(l, s))
         /\ \A s \in Nat : Holds(r, s) => Holds(l, s)
         /\ ReadUpTo(r, after) = ReadUpTo(l, start) + l[1].size
<1> DEFINE n == Len(l)
           h == l[1]
           e == [h EXCEPT !.filled = FALSE]
<1>1. l \in Seq(CirNode) /\ n \in Nat /\ n >= 1 /\ 1 \in 1..n /\ n \in 1..n BY DEF ListOK
<1>2. /\ \A k \in 1..n : l[k] \in CirNode /\ NodeOK(l[k], start) /\ (k # 1 /\ l[k].filled => Whole(l[k]))
      /\ \A a, b \in 1..n : a < b => InOrder(l[a], l[b], start)
      /\ \A a \in 1..n-1 : Adjacent(l[a], l[a+1], start)
      /\ Live(h, start) => h.firstSeq = start
      /\ ~Live(l[n], start) => l[n].lastSeq = start - 1
  <2>1. \A k \in 1..n : l[k] \in CirNode BY <1>1
  <2> QED BY <2>1 DEF ListOK
<1>3. /\ e \in CirNode /\ e.firstSeq = h.firstSeq /\ e.lastSeq = h.lastSeq /\ ~e.filled
  <2>1. h \in CirNode BY <1>1, <1>2
  <2> HIDE DEF h
  <2> QED BY <2>1 DEF CirNode
<1>4. r \in Seq(CirNode) /\ Len(r) = n /\ r[n] = e /\ \A k \in 1..n-1 : r[k] = l[k+1]
  <2>1. r = Append(Tail(l), e) BY <1>1 DEF UsedUp
  <2> HIDE DEF e
  <2> QED BY <1>1, <1>3, <2>1, RotateFacts
<1>5. h \in CirNode /\ FilledOK(h, start) BY <1>1, <1>2 DEF NodeOK
<1>6. PICK f \in Nat, t \in Nat, z \in Int : h.firstSeq = f /\ h.lastSeq = t /\ h.size = z
  BY <1>5, NodeTypes
<1>7. f >= start /\ f <= t /\ t <= MaxSeq BY <1>5, <1>6, Sizes DEF FilledOK
<1>8. after = t + 1 /\ after \in Nat BY <1>6 DEF NextNeeded
<1>9. Live(h, start) BY <1>6, <1>7 DEF Live
<1>10. f = start BY <1>2, <1>6, <1>9
<1> HIDE DEF n, h, e
<1>11. \A k \in 2..n : Live(l[k], start) => l[k].firstSeq >= after
  <2> SUFFICES ASSUME NEW k \in 2..n, Live(l[k], start) PROVE l[k].firstSeq >= after OBVIOUS
  <2>1. k \in 1..n /\ 1 < k BY <1>1
  <2>2. InOrder(h, l[k], start) BY <1>1, <1>2, <2>1 DEF h
  <2>3. t < l[k].firstSeq BY <2>2, <1>6 DEF InOrder
  <2>4. l[k].firstSeq \in Nat BY <2>1, <1>2, NodeTypes
  <2> QED BY <2>3, <2>4, <1>8
<1>12. \A k \in 2..n : Live(l[k], after) <=> Live(l[k], start)
  <2> SUFFICES ASSUME NEW k \in 2..n PROVE Live(l[k], after) <=> Live(l[k], start) OBVIOUS
  <2>1. k \in 1..n BY <1>1
  <2>2. l[k].firstSeq \in Nat BY <2>1, <1>2, NodeTypes
  <2>3. PICK g \in Nat : g = l[k].firstSeq BY <2>2
  <2>4. g >= after => g >= start BY <1>7, <1>8
  <2> QED BY <2>3, <2>4, <1>11 DEF Live
<1>13. \A k \in 2..n : NodeOK(l[k], after) /\ (l[k].filled => Whole(l[k]))
  <2> SUFFICES ASSUME NEW k \in 2..n PROVE NodeOK(l[k], after) /\ (l[k].filled => Whole(l[k])) OBVIOUS
  <2>1. k \in 1..n /\ k # 1 BY <1>1
  <2>2. NodeOK(l[k], start) /\ (l[k].filled => Whole(l[k])) /\ l[k] \in CirNode BY <2>1, <1>2
  <2>3. l[k].firstSeq \in Nat /\ l[k].lastSeq \in Nat BY <2>2, NodeTypes
  <2>4. CASE l[k].filled
    <3>1. FilledOK(l[k], start) BY <2>2, <2>4 DEF NodeOK
    <3>2. Live(l[k], start) BY <3>1, <2>3 DEF FilledOK, Live
    <3>3. l[k].firstSeq >= after BY <3>2, <1>11
    <3>4. l[k].firstSeq \in after..l[k].lastSeq /\ l[k].lastSeq <= after + Packets - 1
      <4>1. PICK u \in Nat, v \in Nat : u = l[k].firstSeq /\ v = l[k].lastSeq BY <2>3
      <4>2. u <= v /\ v <= start + Packets - 1 BY <3>1, <4>1 DEF FilledOK
      <4>3. start + Packets - 1 <= after + Packets - 1 BY <1>7, <1>8, Sizes
      <4>4. v <= after + Packets - 1 BY <4>2, <4>3, <1>8, Sizes
      <4> QED BY <4>1, <4>2, <4>4, <3>3, <1>8
    <3>5. FilledOK(l[k], after) BY <3>1, <3>4 DEF FilledOK
    <3> QED BY <3>5, <2>2, <2>4 DEF NodeOK
  <2>5. CASE ~l[k].filled /\ Live(l[k], start) BY <2>2, <2>5, <1>12 DEF NodeOK
  <2>6. CASE ~l[k].filled /\ ~Live(l[k], start)
    <3>1. SpentOK(l[k], start) /\ ~Live(l[k], after) BY <2>2, <2>6, <1>12 DEF NodeOK
    <3>2. SpentOK(l[k], after)
      <4>1. PICK v \in Nat : v = l[k].lastSeq BY <2>3
      <4>2. v < start => v < after BY <1>7, <1>8
      <4> QED BY <3>1, <4>1, <4>2 DEF SpentOK
    <3> QED BY <3>1, <3>2, <2>6 DEF NodeOK
  <2> QED BY <2>4, <2>5, <2>6
<1>14. ~Live(e, after) BY <1>3, <1>6, <1>7, <1>8 DEF Live
<1>15. NodeOK(e, after)
  <2>1. SpentOK(e, after) BY <1>3, <1>6, <1>7, <1>8 DEF SpentOK
  <2> QED BY <2>1, <1>3, <1>14 DEF NodeOK
<1>16. \A k \in 1..n : (k = n /\ r[k] = e) \/ (k \in 1..n-1 /\ k + 1 \in 2..n /\ r[k] = l[k+1])
  BY <1>1, <1>4
<1>17. \A k \in 1..n : NodeOK(r[k], after) /\ (k # 1 /\ r[k].filled => Whole(r[k]))
  BY <1>3, <1>13, <1>15, <1>16
<1>18. ASSUME NEW a \in 1..n, NEW b \in 1..n, a < b PROVE InOrder(r[a], r[b], after)
  <2>1. CASE b = n BY <2>1, <1>4, <1>14 DEF InOrder
  <2>2. CASE b # n
    <3>1. /\ a \in 1..n-1 /\ b \in 1..n-1 /\ a + 1 \in 2..n /\ b + 1 \in 2..n /\ a + 1 < b + 1
          /\ a + 1 \in 1..n /\ b + 1 \in 1..n
      BY <1>1, <1>18, <2>2
    <3>2. r[a] = l[a+1] /\ r[b] = l[b+1] BY <3>1, <1>4
    <3>3. InOrder(l[a+1], l[b+1], start) BY <3>1, <1>2
    <3> QED BY <3>1, <3>2, <3>3, <1>12 DEF InOrder
  <2> QED BY <2>1, <2>2
<1>19. ASSUME NEW a \in 1..n-1 PROVE Adjacent(r[a], r[a+1], after)
  <2>0. r[a] = l[a+1] /\ a + 1 \in 2..n /\ a + 1 \in 1..n BY <1>1, <1>4
  <2>1. CASE a + 1 = n
    <3>1. r[a+1] = e /\ r[a] = l[n] BY <2>0, <2>1, <1>4
    <3>2. ~Live(l[n], after) => l[n].lastSeq = start - 1 BY <2>0, <2>1, <1>2, <1>12
    <3>3. start - 1 + 1 = start OBVIOUS
    <3>4. ~Live(l[n], after) => e.firstSeq = l[n].lastSeq + 1 BY <3>2, <3>3, <1>3, <1>6, <1>10
    <3> QED BY <3>1, <3>4, <1>14 DEF Adjacent
  <2>2. CASE a + 1 # n
    <3>1. a + 1 \in 1..n-1 /\ (a + 1) + 1 \in 2..n BY <1>1, <2>2
    <3>2. r[a+1] = l[(a+1)+1] BY <3>1, <1>4
    <3>3. Adjacent(l[a+1], l[(a+1)+1], start) BY <3>1, <1>2
    <3> QED BY <2>0, <3>1, <3>2, <3>3, <1>12 DEF Adjacent
  <2> QED BY <2>1, <2>2
<1>20. n >= 2 => r[1] = l[2] /\ 2 \in 2..n /\ 2 \in 1..n /\ 1 \in 1..n-1
  <2> SUFFICES ASSUME n >= 2 PROVE r[1] = l[2] /\ 2 \in 2..n /\ 2 \in 1..n /\ 1 \in 1..n-1 OBVIOUS
  <2>1. 2 \in 2..n /\ 2 \in 1..n /\ 1 \in 1..n-1 /\ 1 + 1 = 2 BY <1>1
  <2>2. r[1] = l[1+1] BY <2>1, <1>4
  <2> QED BY <2>1, <2>2
<1>21. n < 2 => r[1] = e BY <1>1, <1>4
<1>22. Live(r[1], after) => r[1].firstSeq = after
  <2>1. CASE n >= 2
    <3>1. Adjacent(l[1], l[1+1], start) BY <2>1, <1>2, <1>20
    <3>2. Live(l[2], start) => l[2].firstSeq = t + 1 BY <3>1, <1>6 DEF Adjacent, h
    <3>3. Live(l[2], after) => Live(l[2], start) BY <2>1, <1>12, <1>20
    <3> QED BY <2>1, <3>2, <3>3, <1>8, <1>20
  <2> QED BY <2>1, <1>1, <1>14, <1>21
<1>23. r[n].lastSeq = after - 1 BY <1>3, <1>4, <1>6, <1>8
<1>24. ListOK(r, after)
  <2>1. Len(r) >= 1 /\ Len(r) = n BY <1>1, <1>4
  <2>2. r \in Seq(CirNode) BY <1>4
  <2> QED BY <2>1, <2>2, <1>17, <1>18, <1>19, <1>22, <1>23 DEF ListOK
<1>25. ASSUME NEW s \in Nat, Holds(r, s) PROVE Holds(l, s)
  <2>1. PICK k \in 1..n : r[k].filled /\ s \in r[k].firstSeq..r[k].lastSeq BY <1>4, <1>25 DEF Holds
  <2>2. k \in 1..n-1 /\ k + 1 \in 1..n /\ r[k] = l[k+1] BY <2>1, <1>1, <1>3, <1>16
  <2> QED BY <2>1, <2>2 DEF Holds, n
<1>26. ASSUME NEW s \in Nat, s >= after, Holds(l, s) PROVE Holds(r, s)
  <2>1. PICK k \in 1..n : l[k].filled /\ s \in l[k].firstSeq..l[k].lastSeq BY <1>26 DEF Holds, n
  <2>2. k # 1
    <3> SUFFICES ASSUME k = 1 PROVE FALSE OBVIOUS
    <3>1. s \in f..t BY <2>1, <1>6 DEF h
    <3> QED BY <3>1, <1>8, <1>26
  <2>3. k - 1 \in 1..n-1 /\ k - 1 \in 1..n /\ (k - 1) + 1 = k BY <2>2, <1>1
  <2>4. r[k-1] = l[(k-1)+1] BY <2>3, <1>4
  <2> QED BY <2>1, <2>3, <2>4, <1>4 DEF Holds
<1>27. ReadUpTo(r, after) = ReadUpTo(l, start) + h.size
  <2>1. PICK T \in Int : T = t * Mss BY Sizes
  <2>2. ReadUpTo(l, start) = T - z /\ h.size = z BY <2>1, <1>6 DEF ReadUpTo, h
  <2>3. (after - 1) * Mss = T
    <3>1. after - 1 = t BY <1>8
    <3> QED BY <3>1, <2>1
  <2>4. ReadUpTo(r, after) = T
    <3>1. CASE ~r[1].filled BY <3>1, <2>3 DEF ReadUpTo
    <3>2. CASE r[1].filled
      <4>1. n >= 2 BY <3>2, <1>1, <1>3, <1>21
      <4>2. r[1] = l[2] /\ l[2] \in CirNode /\ Whole(l[2]) /\ NodeOK(l[2], after)
        BY <3>2, <4>1, <1>2, <1>13, <1>20
      <4>3. PICK u \in Nat, v \in Nat : l[2].firstSeq = u /\ l[2].lastSeq = v BY <4>2, NodeTypes
      <4>4. u >= after BY <3>2, <4>2, <4>3, <1>8 DEF NodeOK, FilledOK
      <4>5. u = after BY <4>2, <4>3, <4>4, <1>22 DEF Live
      <4>6. l[2].size = (v - u + 1) * Mss BY <4>2, <4>3 DEF Whole
      <4>7. (v - u + 1) * Mss = v * Mss - (u - 1) * Mss /\ v * Mss \in Int /\ (u - 1) * Mss \in Int BY Sizes
      <4>8. PICK V \in Int : V = v * Mss BY <4>7
      <4>9. (u - 1) * Mss = T BY <2>3, <4>5
      <4>10. l[2].size = V - T BY <4>6, <4>7, <4>8, <4>9
      <4>11. ReadUpTo(r, after) = V - l[2].size BY <3>2, <4>2, <4>3, <4>8 DEF ReadUpTo
      <4>12. V - (V - T) = T OBVIOUS
      <4> QED BY <4>10, <4>11, <4>12
    <3> QED BY <3>1, <3>2
  <2> QED BY <2>2, <2>4
<1>28. after \in start+1..MaxSeq+1 BY <1>7, <1>8, Sizes
<1> QED BY <1>24, <1>25, <1>26, <1>27, <1>28 DEF h

(* The list with some bytes of its head taken.                             *)
PartTaken(l, size) == [l EXCEPT ![1] = PartLeft(@, size)]

(* Reading a part of the node at the head keeps the list in order, and     *)
(* moves the reading place by the bytes read.                              *)
LEMMA PartLeftOK ==
  ASSUME NEW start \in Nat, start >= 1, NEW l, ListOK(l, start), l[1].filled,
         NEW size \in Nat, size >= 1, l[1].size > size,
         NEW r, r = PartTaken(l, size)
  PROVE  /\ ListOK(r, start) /\ (NoJoin(l, start) => NoJoin(r, start))
         /\ \A s \in Nat : Holds(r, s) <=> Holds(l, s)
         /\ ReadUpTo(r, start) = ReadUpTo(l, start) + size
<1> DEFINE n == Len(l)
           h == l[1]
           e == PartLeft(h, size)
<1>1. l \in Seq(CirNode) /\ n \in Nat /\ n >= 1 /\ 1 \in 1..n BY DEF ListOK
<1>2. /\ \A k \in 1..n : l[k] \in CirNode /\ NodeOK(l[k], start) /\ (k # 1 /\ l[k].filled => Whole(l[k]))
      /\ \A a, b \in 1..n : a < b => InOrder(l[a], l[b], start)
      /\ \A a \in 1..n-1 : Adjacent(l[a], l[a+1], start)
      /\ Live(l[1], start) => l[1].firstSeq = start
      /\ ~Live(l[n], start) => l[n].lastSeq = start - 1
  <2>1. \A k \in 1..n : l[k] \in CirNode BY <1>1
  <2> QED BY <2>1 DEF ListOK
<1>3. /\ e \in CirNode /\ e.firstSeq = h.firstSeq /\ e.lastSeq = h.lastSeq /\ e.filled = h.filled
      /\ e.data = h.data + size /\ e.size = h.size - size
  <2>1. h \in CirNode BY <1>1, <1>2
  <2> HIDE DEF h
  <2>2. h.data + size \in Int /\ h.size - size \in Int BY <2>1, NodeTypes
  <2>3. e = [h EXCEPT !.data = h.data + size, !.size = h.size - size] BY DEF PartLeft
  <2>4. e = [firstSeq |-> h.firstSeq, lastSeq |-> h.lastSeq, data |-> h.data + size,
             size |-> h.size - size, filled |-> h.filled]
    BY <2>1, <2>3 DEF CirNode
  <2> HIDE DEF e
  <2> QED BY <2>1, <2>2, <2>4 DEF CirNode
<1>4. r \in Seq(CirNode) /\ Len(r) = n /\ r[1] = e /\ \A k \in 1..n : k # 1 => r[k] = l[k]
  <2>1. r = [l EXCEPT ![1] = e] BY DEF PartTaken
  <2> HIDE DEF e
  <2> QED BY <1>1, <1>3, <2>1
<1>5. h \in CirNode /\ FilledOK(h, start) BY <1>1, <1>2 DEF NodeOK
<1>6. PICK f \in Nat, t \in Nat, d \in Int, z \in Int :
        h.firstSeq = f /\ h.lastSeq = t /\ h.data = d /\ h.size = z
  BY <1>5, NodeTypes
<1>7. z > size BY <1>6
<1> HIDE DEF n, e
<1>8. \A k \in 1..n : /\ r[k].firstSeq = l[k].firstSeq /\ r[k].lastSeq = l[k].lastSeq
                      /\ r[k].filled = l[k].filled
  BY <1>3, <1>4
<1> HIDE DEF h
<1>9. NodeOK(e, start)
  <2>1. PICK room \in Int, T \in Int : room = (t - f + 1) * Mss /\ T = t * Mss BY Sizes
  <2>2. z \in 1..room /\ Laps(d + z - T) BY <1>5, <1>6, <2>1 DEF FilledOK
  <2>3. z - size \in 1..room BY <2>2, <1>7
  <2>4. (d + size) + (z - size) - T = d + z - T OBVIOUS
  <2>5. Laps((d + size) + (z - size) - T) BY <2>2, <2>4
  <2>6. e.data = d + size /\ e.size = z - size BY <1>3, <1>6
  <2>7. e.size \in 1..(e.lastSeq - e.firstSeq + 1) * Mss BY <2>1, <2>3, <2>6, <1>3, <1>6
  <2>8. Laps(e.data + e.size - e.lastSeq * Mss) BY <2>1, <2>5, <2>6, <1>3, <1>6
  <2>9. FilledOK(e, start) BY <2>7, <2>8, <1>3, <1>5 DEF FilledOK
  <2>10. e.filled BY <1>3 DEF h
  <2> QED BY <2>9, <2>10 DEF NodeOK
<1>10. \A k \in 1..n : NodeOK(r[k], start) /\ (k # 1 /\ r[k].filled => Whole(r[k]))
  BY <1>2, <1>4, <1>9
<1>11. \A a, b \in 1..n : a < b => InOrder(r[a], r[b], start) BY <1>2, <1>8 DEF InOrder, Live
<1>12. \A a \in 1..n-1 : a \in 1..n /\ a + 1 \in 1..n BY <1>1
<1>13. \A a \in 1..n-1 : Adjacent(r[a], r[a+1], start) BY <1>2, <1>8, <1>12 DEF Adjacent, Live
<1>14. Live(r[1], start) => r[1].firstSeq = start BY <1>1, <1>2, <1>8 DEF Live
<1>15. ~Live(r[n], start) => r[n].lastSeq = start - 1
  <2>1. n \in 1..n BY <1>1
  <2> QED BY <2>1, <1>2, <1>8 DEF Live
<1>16. ListOK(r, start)
  <2>1. r \in Seq(CirNode) /\ Len(r) = n /\ Len(r) >= 1 BY <1>1, <1>4
  <2> QED BY <2>1, <1>10, <1>11, <1>13, <1>14, <1>15 DEF ListOK
<1>17. NoJoin(l, start) => NoJoin(r, start)
  <2> SUFFICES ASSUME NoJoin(l, start), NEW a \in 1..n-1 PROVE ~Joins(r[a], r[a+1], start)
    BY <1>4 DEF NoJoin
  <2>1. ~Joins(l[a], l[a+1], start) BY DEF NoJoin, n
  <2>2. /\ r[a].firstSeq = l[a].firstSeq /\ r[a].lastSeq = l[a].lastSeq /\ r[a].filled = l[a].filled
        /\ r[a+1].firstSeq = l[a+1].firstSeq /\ r[a+1].lastSeq = l[a+1].lastSeq /\ r[a+1].filled = l[a+1].filled
    BY <1>8, <1>12
  <2> QED BY <2>1, <2>2 DEF Joins, Consecutive, SpareHoles
<1>18. \A s \in Nat : Holds(r, s) <=> Holds(l, s) BY <1>4, <1>8 DEF Holds, n
<1>19. ReadUpTo(r, start) = ReadUpTo(l, start) + size
  <2>1. PICK T \in Int : T = t * Mss BY Sizes
  <2>2. ReadUpTo(l, start) = T - z BY <2>1, <1>6 DEF ReadUpTo, h
  <2>3. r[1].filled /\ r[1].lastSeq = t /\ r[1].size = z - size BY <1>3, <1>4, <1>6 DEF h
  <2>4. ReadUpTo(r, start) = T - (z - size) BY <2>1, <2>3 DEF ReadUpTo
  <2>5. T - (z - size) = (T - z) + size OBVIOUS
  <2> QED BY <2>2, <2>4, <2>5
<1> QED BY <1>16, <1>17, <1>18, <1>19

--------------------------------------------------------------------------------

(* The empty buffer is one hole. *)
LEMMA InitInv == Init => BufferInv
<1> SUFFICES ASSUME Init PROVE BufferInv OBVIOUS
<1> DEFINE h == Hole(1, Packets, 0, BufSize)
<1>1. list = <<h>> /\ dstart = 1 /\ fault = "none" /\ answered = {} /\ readPos = 0 /\ lastRead = <<>>
      /\ buffer = [a \in Address |-> NoByte]
  BY DEF Init
<1>2. h \in CirNode /\ h.firstSeq = 1 /\ h.lastSeq = Packets /\ h.filled = FALSE
      /\ NodeOK(h, 1) /\ Live(h, 1)
  <2>1. SizeOK(BufSize, 1, Packets)
    <3>1. (Packets - 1 + 1) * Mss = BufSize
      <4>1. Packets - 1 + 1 = Packets BY Sizes
      <4> QED BY <4>1, Sizes
    <3> QED BY <3>1 DEF SizeOK
  <2>2. Begins(0, 1)
    <3>1. 0 - (1 - 1) * Mss = 0 BY Sizes
    <3> QED BY <3>1, LapsOne DEF Begins
  <2>3. 1 \in Nat /\ 1 <= MaxInt /\ 1 <= Packets /\ 1 >= 1 /\ 0 \in Int /\ BufSize \in Int /\ Packets \in Nat
    BY Sizes
  <2>4. PICK one \in Nat, zero \in Int : one = 1 /\ zero = 0 OBVIOUS
  <2>5. SizeOK(BufSize, one, Packets) /\ Begins(zero, one) /\ one <= MaxInt /\ one <= Packets /\ one >= one
    BY <2>1, <2>2, <2>3, <2>4
  <2> DEFINE x == Hole(one, Packets, zero, BufSize)
  <2>6. /\ x \in CirNode /\ x.firstSeq = one /\ x.lastSeq = Packets /\ x.filled = FALSE
        /\ NodeOK(x, one) /\ Live(x, one)
    BY <2>3, <2>5, HoleFacts
  <2>7. h = x BY <2>4
  <2> HIDE DEF h, x
  <2> QED BY <2>4, <2>6, <2>7
<1> HIDE DEF h
<1>3. list \in Seq(CirNode) /\ Len(list) = 1 /\ list[1] = h BY <1>1, <1>2
<1>4. \A i \in 1..Len(list) : i = 1 BY <1>3
<1>5. ListOK(list, dstart)
  <2>1. \A i \in 1..Len(list) : NodeOK(list[i], dstart) /\ (i # 1 /\ list[i].filled => Whole(list[i]))
    BY <1>1, <1>2, <1>3, <1>4
  <2>2. \A i, j \in 1..Len(list) : ~(i < j) BY <1>3
  <2>3. 1..Len(list)-1 = {} BY <1>3
  <2>4. Live(list[1], dstart) /\ list[1].firstSeq = dstart BY <1>1, <1>2, <1>3
  <2> QED BY <1>3, <2>1, <2>2, <2>3, <2>4 DEF ListOK
<1>6. NoJoin(list, dstart)
  <2>1. 1..Len(list)-1 = {} BY <1>3
  <2> QED BY <2>1 DEF NoJoin
<1>7. \A s \in Nat : ~Holds(list, s) BY <1>2, <1>3, <1>4 DEF Holds
<1>8. readPos = ReadUpTo(list, dstart)
  <2>1. (1 - 1) * Mss = 0 BY Sizes
  <2> QED BY <2>1, <1>1, <1>2, <1>3 DEF ReadUpTo
<1>9. TypeOK
  <2>1. buffer \in [Address -> Nat \cup {NoByte}] BY <1>1
  <2>2. dstart \in 1..MaxSeq+1 BY <1>1, Sizes
  <2>3. list # <<>> BY <1>3
  <2> QED BY <1>1, <1>3, <2>1, <2>2, <2>3 DEF TypeOK
<1>10. ReadIsTheStream BY <1>1 DEF ReadIsTheStream
<1>11. ListInv
  <2>1. \A s \in 1..MaxSeq : ~Holds(list, s) /\ s \notin answered BY <1>1, <1>7
  <2> QED BY <1>5, <1>6, <1>8, <2>1 DEF ListInv
<1> QED BY <1>9, <1>10, <1>11 DEF BufferInv

(* What the invariant says, and that mergeList() at the beginning of       *)
(* addData() changes nothing.                                              *)
LEMMA InvFacts ==
  ASSUME BufferInv
  PROVE  /\ dstart \in Nat /\ dstart >= 1 /\ dstart <= MaxSeq + 1
         /\ ListOK(list, dstart) /\ list \in Seq(CirNode) /\ Len(list) >= 1 /\ 1 \in 1..Len(list)
         /\ MergeList(list, dstart) = list /\ ~MergeHangs(list, dstart)
<1>1. dstart \in 1..MaxSeq+1 /\ ListOK(list, dstart) /\ NoJoin(list, dstart)
  BY DEF BufferInv, TypeOK, ListInv
<1>2. dstart \in Nat /\ dstart >= 1 /\ dstart <= MaxSeq + 1 BY <1>1, Sizes
<1>3. list \in Seq(CirNode) /\ Len(list) >= 1 BY <1>1 DEF ListOK
<1>4. 1 \in 1..Len(list) BY <1>3
<1>5. MergeList(list, dstart) = list BY <1>1, <1>2, <1>3, NoJoinSame
<1>6. ~MergeHangs(list, dstart) BY <1>1, <1>2, <1>3, NoJoinEnds
<1> QED BY <1>1, <1>2, <1>3, <1>4, <1>5, <1>6

(* What ftps is handed from a filled node are the bytes of the stream.     *)
LEMMA GetIsStream ==
  ASSUME BufferInv, list[1].filled, NEW m \in Nat, m <= list[1].size
  PROVE  /\ Get(list[1], m) \in Seq(Nat) /\ Len(Get(list[1], m)) = m
         /\ \A j \in 1..m : Get(list[1], m)[j] = list[1].lastSeq * Mss - list[1].size + j - 1
<1> DEFINE nd == list[1]
           g  == Get(nd, m)
<1>a. PICK start \in Nat : start = dstart /\ start >= 1 BY InvFacts
<1>1. nd \in CirNode /\ FilledOK(nd, start) BY <1>a, InvFacts DEF ListOK, NodeOK
<1>b. \A s \in 1..MaxSeq : Holds(list, s) => \A q \in (s-1)*Mss..s*Mss-1 : buffer[q % BufSize] = q
  BY DEF BufferInv, ListInv
<1>2. PICK f \in Nat, t \in Nat, d \in Int, z \in Int :
        nd.firstSeq = f /\ nd.lastSeq = t /\ nd.data = d /\ nd.size = z
  BY <1>1, NodeTypes
<1>3. PICK T \in Int : T = t * Mss BY Sizes
<1>4. f >= start /\ t <= MaxSeq BY <1>a, <1>1, <1>2 DEF FilledOK
<1>5. ASSUME NEW j \in 1..m PROVE buffer[(d + j - 1) % BufSize] = T - z + j - 1 /\ T - z + j - 1 \in Nat
  <2>1. PICK k \in Int : k = j - 1 OBVIOUS
  <2>2. 0 <= k /\ k < z BY <2>1, <1>2
  <2>3. PICK q \in Int : q = T - z + k OBVIOUS
  <2>4. /\ (f - 1) * Mss <= q
        /\ (d + k) % BufSize = q % BufSize
        /\ \E s \in f..t : q \in (s-1)*Mss..s*Mss-1
    <3>1. k < nd.size /\ q = nd.lastSeq * Mss - nd.size + k BY <1>2, <1>3, <2>2, <2>3
    <3> HIDE DEF nd
    <3>3. /\ (nd.firstSeq - 1) * Mss <= q
          /\ (nd.data + k) % BufSize = q % BufSize
          /\ \E s \in nd.firstSeq..nd.lastSeq : q \in (s-1)*Mss..s*Mss-1
      BY <1>1, <2>2, <3>1, NodeByte
    <3> QED BY <3>3, <1>2
  <2>5. PICK s \in f..t : q \in (s-1)*Mss..s*Mss-1 BY <2>4
  <2>6. Holds(list, s) BY <1>2, InvFacts DEF Holds
  <2>7. s \in 1..MaxSeq BY <1>a, <1>4, Sizes
  <2>8. buffer[q % BufSize] = q BY <1>b, <2>5, <2>6, <2>7
  <2>9. d + j - 1 = d + k /\ T - z + j - 1 = q BY <2>1, <2>3
  <2>10. q \in Nat
    <3>1. f - 1 \in Nat BY <1>a, <1>4
    <3>2. (f - 1) * Mss \in Nat BY <3>1, Sizes
    <3> QED BY <3>2, <2>4
  <2> QED BY <2>4, <2>8, <2>9, <2>10
<1> HIDE DEF g
<1>6. g = [j \in 1..m |-> buffer[(d + j - 1) % BufSize]] BY <1>2 DEF Get, g
<1> HIDE DEF nd
<1>7. \A j \in 1..m : g[j] = T - z + j - 1 /\ g[j] \in Nat BY <1>5, <1>6
<1>8. g \in [1..m -> Nat] BY <1>6, <1>7
<1>9. g \in Seq(Nat) /\ Len(g) = m BY <1>8
<1> QED BY <1>2, <1>3, <1>7, <1>9 DEF nd, g

(* A packet that addData() finds in the list. *)
LEMMA KnownKeeps ==
  ASSUME BufferInv, NEW seqnum \in 1..MaxSeq, AddDataKnown(seqnum)
  PROVE  BufferInv'
<1> DEFINE i == FirstHit(list, seqnum)
<1>1. /\ i # 0 /\ Known(list[i], seqnum) /\ list' = list /\ answered' = answered \cup {seqnum}
      /\ UNCHANGED <<buffer, dstart, fault, readPos, lastRead>>
  BY InvFacts DEF AddDataKnown
<1>2. i \in 1..Len(list) BY <1>1, InvFacts, FirstHitIs
<1> HIDE DEF i
<1>3. Holds(list, seqnum)
  <2>1. list[i] \in CirNode /\ list[i].filled /\ list[i].firstSeq = seqnum BY <1>1, <1>2, InvFacts DEF Known
  <2>2. FilledOK(list[i], dstart) BY <1>2, <2>1, InvFacts DEF ListOK, NodeOK
  <2>3. list[i].firstSeq \in Nat /\ list[i].lastSeq \in Nat BY <2>1, NodeTypes
  <2>4. list[i].firstSeq \in list[i].firstSeq..list[i].lastSeq BY <2>2, <2>3 DEF FilledOK
  <2> QED BY <1>2, <2>1, <2>4 DEF Holds
<1>4. TypeOK' BY <1>1 DEF BufferInv, TypeOK
<1>5. \A s \in 1..MaxSeq : s >= dstart' => (s \in answered' <=> Holds(list', s))
  BY <1>1, <1>3 DEF BufferInv, ListInv
<1>6. ListInv' BY <1>1, <1>5 DEF BufferInv, ListInv
<1>7. ReadIsTheStream' BY <1>1 DEF BufferInv, ReadIsTheStream
<1> QED BY <1>4, <1>6, <1>7 DEF BufferInv

(* A packet that addData() refuses. *)
LEMMA RefusedKeeps ==
  ASSUME BufferInv, NEW seqnum \in 1..MaxSeq, AddDataRefused(seqnum)
  PROVE  BufferInv'
<1>1. list' = list /\ UNCHANGED <<buffer, dstart, fault, answered, readPos, lastRead>>
  BY InvFacts DEF AddDataRefused
<1> QED BY <1>1 DEF BufferInv, TypeOK, ListInv, ReadIsTheStream

(* A packet that addData() puts into a hole. *)
LEMMA FitsKeeps ==
  ASSUME BufferInv, NEW seqnum \in 1..MaxSeq, seqnum >= dstart, AddDataFits(seqnum, Bytes(seqnum))
  PROVE  BufferInv'
<1> DEFINE i     == FirstHit(list, seqnum)
           parts == Fill(list[i], seqnum)
           nd    == NewNode(parts)
           new   == SubSeq(list, 1, i-1) \o parts \o SubSeq(list, i+1, Len(list))
<1>1. /\ i # 0 /\ ~list[i].filled /\ InRange(seqnum)
      /\ IF Copyable(nd) /\ ~MergeHangs(new, dstart)
         THEN /\ list' = MergeList(new, dstart)
              /\ buffer' = Store(nd, Bytes(seqnum))
              /\ answered' = answered \cup {seqnum}
              /\ UNCHANGED <<dstart, fault, readPos, lastRead>>
         ELSE /\ fault' = IF Copyable(nd) THEN "hung" ELSE "crashed"
              /\ UNCHANGED <<buffer, dstart, list, answered, readPos, lastRead>>
  BY InvFacts DEF AddDataFits
<1>2. CASE ~(Copyable(nd) /\ ~MergeHangs(new, dstart))
  <2>1. fault' \in {"hung", "crashed"} /\ UNCHANGED <<buffer, dstart, list, answered, readPos, lastRead>>
    BY <1>1, <1>2
  <2> QED BY <2>1 DEF BufferInv, TypeOK, ListInv, ReadIsTheStream
<1>3. CASE Copyable(nd) /\ ~MergeHangs(new, dstart)
  <2>1. /\ list' = MergeList(new, dstart) /\ buffer' = Store(nd, Bytes(seqnum))
        /\ answered' = answered \cup {seqnum} /\ UNCHANGED <<dstart, fault, readPos, lastRead>>
    BY <1>1, <1>3
  <2>2. i \in 1..Len(list) /\ parts # <<>>
    <3>1. i \in 1..Len(list) /\ (Known(list[i], seqnum) \/ Takes(list[i], seqnum))
      BY <1>1, InvFacts, FirstHitIs
    <3> QED BY <3>1, <1>1 DEF Known, Takes
  <2>3. seqnum \in Nat /\ seqnum >= 1 /\ seqnum <= MaxSeq /\ seqnum <= dstart + Packets - 1
        /\ dstart \in Nat /\ dstart >= 1
    BY <1>1, InvFacts, Sizes DEF InRange
  <2> HIDE DEF i
  <2>4. list[i] \in CirNode /\ NodeOK(list[i], dstart) BY <2>2, InvFacts DEF ListOK
  <2>5. /\ Live(list[i], dstart) /\ FitsFor(list[i], parts, dstart)
        /\ \E p \in 1..Len(parts) : HasPacket(parts, p, seqnum)
    BY <1>1, <2>2, <2>3, <2>4, FillFits
  <2> HIDE DEF parts
  <2>6. PICK p \in 1..Len(parts) : HasPacket(parts, p, seqnum) BY <2>5
  <2>7. parts \in Seq(CirNode) BY <2>5 DEF FitsFor
  <2>8. nd = parts[p] BY <2>6, <2>7, TheFilled
  <2>9. nd.data \in Int /\ Begins(nd.data, seqnum) BY <2>6, <2>8 DEF HasPacket, PacketIn
  <2>10. IsSplice(list, i, parts, new) BY <2>2, <2>7, InvFacts, SpliceIs
  <2> HIDE DEF new, nd
  <2>11. /\ ListOK(new, dstart)
         /\ \A s \in Nat : Holds(new, s) <=> Holds(list, s) \/ s = seqnum
         /\ ReadUpTo(new, dstart) = ReadUpTo(list, dstart)
    BY <1>1, <2>2, <2>3, <2>5, <2>6, <2>10, InvFacts, SpliceOK
  <2>12. /\ ListOK(list', dstart) /\ NoJoin(list', dstart)
         /\ \A s \in Nat : Holds(list', s) <=> Holds(new, s)
         /\ ReadUpTo(list', dstart) = ReadUpTo(new, dstart)
    BY <2>1, <2>3, <2>11, MergeOK
  <2>13. \A s \in 1..MaxSeq : Holds(list', s) <=> Holds(list, s) \/ s = seqnum BY <2>11, <2>12
  <2>14. ASSUME NEW s \in 1..MaxSeq, Holds(list, s) \/ s = seqnum, NEW q \in (s-1)*Mss..s*Mss-1
         PROVE  buffer'[q % BufSize] = q
    <3>1. s \in dstart..dstart+Packets-1 /\ seqnum \in dstart..dstart+Packets-1
      <4>1. seqnum \in dstart..dstart+Packets-1 BY <2>3, Sizes
      <4>2. ASSUME Holds(list, s) PROVE s \in dstart..dstart+Packets-1
        <5>1. PICK k \in 1..Len(list) : list[k].filled /\ s \in list[k].firstSeq..list[k].lastSeq
          BY <4>2 DEF Holds
        <5>2. FilledOK(list[k], dstart) /\ list[k] \in CirNode BY <5>1, InvFacts DEF ListOK, NodeOK
        <5>3. PICK f \in Nat, t \in Nat : f = list[k].firstSeq /\ t = list[k].lastSeq BY <5>2, NodeTypes
        <5>4. dstart <= f /\ t <= dstart + Packets - 1 /\ s \in f..t BY <5>1, <5>2, <5>3 DEF FilledOK
        <5> QED BY <5>4, <2>3, Sizes
      <4> QED BY <2>14, <4>1, <4>2
    <3>2. Store(nd, Bytes(seqnum))[q % BufSize] = IF s = seqnum THEN q ELSE buffer[q % BufSize]
      BY <2>3, <2>9, <3>1, StoreGives
    <3>3. s # seqnum => buffer[q % BufSize] = q BY <2>14 DEF BufferInv, ListInv
    <3> QED BY <2>1, <3>2, <3>3
  <2>15. TypeOK'
    <3>1. buffer' \in [Address -> Nat \cup {NoByte}]
      <4>1. buffer \in [Address -> Nat \cup {NoByte}] BY DEF BufferInv, TypeOK
      <4> QED BY <2>1, <2>3, <2>9, <4>1, StoreType
    <3>2. list' \in Seq(CirNode) /\ list' # <<>>
      <4>1. list' \in Seq(CirNode) /\ Len(list') >= 1 BY <2>12 DEF ListOK
      <4> QED BY <4>1
    <3>3. answered' \subseteq 1..MaxSeq BY <2>1 DEF BufferInv, TypeOK
    <3> QED BY <2>1, <3>1, <3>2, <3>3 DEF BufferInv, TypeOK
  <2>16. ListInv'
    <3>1. ListOK(list', dstart') /\ NoJoin(list', dstart') BY <2>1, <2>12
    <3>2. \A s \in 1..MaxSeq : s >= dstart' => (s \in answered' <=> Holds(list', s))
      <4>1. \A s \in 1..MaxSeq : s >= dstart => (s \in answered <=> Holds(list, s)) BY DEF BufferInv, ListInv
      <4> QED BY <2>1, <2>13, <4>1
    <3>3. readPos' = ReadUpTo(list', dstart')
      <4>1. readPos = ReadUpTo(list, dstart) BY DEF BufferInv, ListInv
      <4> QED BY <2>1, <2>11, <2>12, <4>1
    <3>4. \A s \in 1..MaxSeq : Holds(list', s) => \A q \in (s-1)*Mss..s*Mss-1 : buffer'[q % BufSize] = q
      BY <2>13, <2>14
    <3> QED BY <3>1, <3>2, <3>3, <3>4 DEF ListInv
  <2>17. ReadIsTheStream' BY <2>1 DEF BufferInv, ReadIsTheStream
  <2> QED BY <2>15, <2>16, <2>17 DEF BufferInv
<1> QED BY <1>2, <1>3

(* ftps reads the whole node at the head. *)
LEMMA WholeKeeps ==
  ASSUME BufferInv, NEW size \in Requests, RequestWhole(size)
  PROVE  BufferInv'
<1> DEFINE nd    == list[1]
           start == NextNeeded(nd)
           new   == UsedUp(list)
<1>1. /\ nd.filled
      /\ IF Copyable(nd) /\ ~MergeHangs(new, start)
         THEN /\ dstart' = start
              /\ list' = MergeList(new, start)
              /\ lastRead' = Get(nd, nd.size)
              /\ readPos' = readPos + nd.size
              /\ UNCHANGED fault
         ELSE /\ fault' = IF Copyable(nd) THEN "hung" ELSE "crashed"
              /\ UNCHANGED <<dstart, list, lastRead, readPos>>
      /\ UNCHANGED <<buffer, answered>>
  BY DEF RequestWhole, Servable
<1>2. CASE ~(Copyable(nd) /\ ~MergeHangs(new, start))
  <2>1. fault' \in {"hung", "crashed"} /\ UNCHANGED <<buffer, dstart, list, answered, readPos, lastRead>>
    BY <1>1, <1>2
  <2> QED BY <2>1 DEF BufferInv, TypeOK, ListInv, ReadIsTheStream
<1>3. CASE Copyable(nd) /\ ~MergeHangs(new, start)
  <2>1. /\ dstart' = start /\ list' = MergeList(new, start) /\ lastRead' = Get(nd, nd.size)
        /\ readPos' = readPos + nd.size /\ UNCHANGED <<fault, buffer, answered>>
    BY <1>1, <1>3
  <2>2. /\ start \in dstart+1..MaxSeq+1 /\ ListOK(new, start)
        /\ \A s \in Nat : s >= start => (Holds(new, s) <=> Holds(list, s))
        /\ \A s \in Nat : Holds(new, s) => Holds(list, s)
        /\ ReadUpTo(new, start) = ReadUpTo(list, dstart) + nd.size
    BY <1>1, InvFacts, UsedUpOK
  <2>3. nd \in CirNode /\ FilledOK(nd, dstart) BY <1>1, InvFacts DEF ListOK, NodeOK
  <2>4. nd.size \in Nat
    <3>1. nd.size \in Int /\ nd.size >= 1
      <4>1. PICK room \in Int, z \in Int : room = (nd.lastSeq - nd.firstSeq + 1) * Mss /\ z = nd.size
        <5>1. nd.lastSeq \in Nat /\ nd.firstSeq \in Nat /\ nd.size \in Int BY <2>3, NodeTypes
        <5> HIDE DEF nd
        <5> QED BY <5>1, Sizes
      <4>2. z \in 1..room BY <2>3, <4>1 DEF FilledOK
      <4> QED BY <4>1, <4>2
    <3> QED BY <3>1
  <2>5. /\ lastRead' \in Seq(Nat) /\ Len(lastRead') = nd.size
        /\ \A j \in 1..nd.size : lastRead'[j] = nd.lastSeq * Mss - nd.size + j - 1
    <3>1. nd.size <= nd.size BY <2>4
    <3> QED BY <1>1, <2>1, <2>4, <3>1, GetIsStream
  <2>6. readPos = nd.lastSeq * Mss - nd.size /\ readPos \in Nat /\ readPos = ReadUpTo(list, dstart)
    BY <1>1 DEF BufferInv, TypeOK, ListInv, ReadUpTo
  <2> HIDE DEF nd, start, new
  <2>7. start \in Nat /\ start >= 1 /\ start <= MaxSeq + 1 /\ start >= dstart BY <2>2, InvFacts, Sizes
  <2>8. /\ ListOK(list', start) /\ NoJoin(list', start)
        /\ \A s \in Nat : Holds(list', s) <=> Holds(new, s)
        /\ ReadUpTo(list', start) = ReadUpTo(new, start)
    BY <2>1, <2>2, <2>7, MergeOK
  <2>9. TypeOK'
    <3>1. dstart' \in 1..MaxSeq+1 BY <2>1, <2>7, Sizes
    <3>2. list' \in Seq(CirNode) /\ list' # <<>>
      <4>1. list' \in Seq(CirNode) /\ Len(list') >= 1 BY <2>8 DEF ListOK
      <4> QED BY <4>1
    <3>3. readPos' \in Nat BY <2>1, <2>4, <2>6
    <3> QED BY <2>1, <2>5, <3>1, <3>2, <3>3 DEF BufferInv, TypeOK
  <2>10. ListInv'
    <3>1. ListOK(list', dstart') /\ NoJoin(list', dstart') BY <2>1, <2>8
    <3>2. ASSUME NEW s \in 1..MaxSeq, s >= dstart' PROVE s \in answered' <=> Holds(list', s)
      <4>1. s \in Nat /\ s >= start /\ s >= dstart BY <2>1, <2>7, <3>2, InvFacts
      <4>2. s \in answered <=> Holds(list, s) BY <4>1 DEF BufferInv, ListInv
      <4> QED BY <2>1, <2>2, <2>8, <4>1, <4>2
    <3>3. readPos' = ReadUpTo(list', dstart') BY <2>1, <2>2, <2>6, <2>8
    <3>4. ASSUME NEW s \in 1..MaxSeq, Holds(list', s) PROVE \A q \in (s-1)*Mss..s*Mss-1 : buffer'[q % BufSize] = q
      <4>1. s \in Nat OBVIOUS
      <4>2. Holds(list, s) BY <2>2, <2>8, <3>4, <4>1
      <4> QED BY <2>1, <4>2 DEF BufferInv, ListInv
    <3> QED BY <3>1, <3>2, <3>3, <3>4 DEF ListInv
  <2>11. ReadIsTheStream'
    <3> SUFFICES ASSUME NEW j \in 1..Len(lastRead') PROVE lastRead'[j] = readPos' - Len(lastRead') + j - 1
      BY DEF ReadIsTheStream
    <3>1. j \in 1..nd.size /\ lastRead'[j] = nd.lastSeq * Mss - nd.size + j - 1 BY <2>5
    <3>2. lastRead'[j] = readPos + j - 1 BY <3>1, <2>6
    <3>3. readPos' - Len(lastRead') = readPos BY <2>1, <2>4, <2>5, <2>6
    <3> QED BY <3>2, <3>3
  <2> QED BY <2>9, <2>10, <2>11 DEF BufferInv
<1> QED BY <1>2, <1>3

(* ftps reads a part of it. *)
LEMMA PartKeeps ==
  ASSUME BufferInv, NEW size \in Requests, RequestPart(size)
  PROVE  BufferInv'
<1> DEFINE nd    == list[1]
           wraps == nd.data + nd.size > BufSize
           sound == Copyable(nd) /\ (wraps => BufSize - nd.data <= size)
<1>1. /\ nd.filled /\ nd.size > size
      /\ IF sound
         THEN /\ list' = [list EXCEPT ![1] = PartLeft(@, size)]
              /\ lastRead' = Get(nd, size)
              /\ readPos' = readPos + size
              /\ UNCHANGED fault
         ELSE /\ fault' = "crashed"
              /\ UNCHANGED <<list, lastRead, readPos>>
      /\ UNCHANGED <<buffer, dstart, answered>>
  BY DEF RequestPart, Servable
<1> HIDE DEF sound
<1>2. CASE ~sound
  <2>1. fault' = "crashed" /\ UNCHANGED <<buffer, dstart, list, answered, readPos, lastRead>>
    BY <1>1, <1>2
  <2> QED BY <2>1 DEF BufferInv, TypeOK, ListInv, ReadIsTheStream
<1>3. CASE sound
  <2>1. /\ list' = [list EXCEPT ![1] = PartLeft(@, size)] /\ lastRead' = Get(nd, size)
        /\ readPos' = readPos + size /\ UNCHANGED <<fault, buffer, dstart, answered>>
    BY <1>1, <1>3
  <2>2. size \in Nat /\ size >= 1 BY BufferAssumption
  <2>3. /\ ListOK(list', dstart) /\ NoJoin(list', dstart)
        /\ \A s \in Nat : Holds(list', s) <=> Holds(list, s)
        /\ ReadUpTo(list', dstart) = ReadUpTo(list, dstart) + size
    <3>1. NoJoin(list, dstart) BY DEF BufferInv, ListInv
    <3>2. dstart \in Nat /\ dstart >= 1 /\ ListOK(list, dstart) BY InvFacts
    <3>3. list[1].filled BY <1>1
    <3>4. PICK m \in Nat : m = size /\ m >= 1 BY <2>2
    <3>5. list[1].size > m BY <1>1, <3>4
    <3>6. PICK start \in Nat : start = dstart /\ start >= 1 /\ ListOK(list, start) BY <3>2
    <3> HIDE DEF nd
    <3> DEFINE new == PartTaken(list, m)
    <3>7. /\ ListOK(new, start) /\ (NoJoin(list, start) => NoJoin(new, start))
          /\ \A s \in Nat : Holds(new, s) <=> Holds(list, s)
          /\ ReadUpTo(new, start) = ReadUpTo(list, start) + m
      BY <3>3, <3>4, <3>5, <3>6, PartLeftOK
    <3>8. list' = new BY <2>1, <3>4 DEF PartTaken
    <3> HIDE DEF new
    <3> QED BY <3>1, <3>4, <3>6, <3>7, <3>8
  <2>4. size <= nd.size
    <3>1. nd \in CirNode BY InvFacts DEF ListOK
    <3>2. nd.size \in Int BY <3>1, NodeTypes
    <3> QED BY <3>2, <2>2, <1>1
  <2>5. /\ lastRead' \in Seq(Nat) /\ Len(lastRead') = size
        /\ \A j \in 1..size : lastRead'[j] = nd.lastSeq * Mss - nd.size + j - 1
    <3> QED BY <1>1, <2>1, <2>2, <2>4, GetIsStream
  <2>6. readPos = nd.lastSeq * Mss - nd.size /\ readPos \in Nat /\ readPos = ReadUpTo(list, dstart)
    BY <1>1 DEF BufferInv, TypeOK, ListInv, ReadUpTo
  <2> HIDE DEF nd
  <2>7. TypeOK'
    <3>1. list' \in Seq(CirNode) /\ list' # <<>>
      <4>1. list' \in Seq(CirNode) /\ Len(list') >= 1 BY <2>3 DEF ListOK
      <4> QED BY <4>1
    <3>2. readPos' \in Nat BY <2>1, <2>2, <2>6
    <3> QED BY <2>1, <2>5, <3>1, <3>2 DEF BufferInv, TypeOK
  <2>8. ListInv'
    <3>1. ListOK(list', dstart') /\ NoJoin(list', dstart') BY <2>1, <2>3
    <3>2. \A s \in 1..MaxSeq : Holds(list', s) <=> Holds(list, s) BY <2>3
    <3>3. readPos' = ReadUpTo(list', dstart') BY <2>1, <2>3, <2>6
    <3> QED BY <2>1, <3>1, <3>2, <3>3 DEF BufferInv, ListInv
  <2>9. ReadIsTheStream'
    <3> SUFFICES ASSUME NEW j \in 1..Len(lastRead') PROVE lastRead'[j] = readPos' - Len(lastRead') + j - 1
      BY DEF ReadIsTheStream
    <3>1. j \in 1..size /\ lastRead'[j] = nd.lastSeq * Mss - nd.size + j - 1 BY <2>5
    <3>2. lastRead'[j] = readPos + j - 1 BY <3>1, <2>6
    <3>3. readPos' - Len(lastRead') = readPos BY <2>1, <2>2, <2>5, <2>6
    <3> QED BY <3>2, <3>3
  <2> QED BY <2>7, <2>8, <2>9 DEF BufferInv
<1> QED BY <1>2, <1>3

(* Every step keeps the invariant, when no copies come of packets that     *)
(* ftps has read.                                                          *)
LEMMA NextInv == ASSUME ~OldCopies, BufferInv, [Next]_vars PROVE BufferInv'
<1>1. ASSUME NEW seqnum \in 1..MaxSeq, InFlight(seqnum), AddDataKnown(seqnum) PROVE BufferInv'
  BY <1>1, KnownKeeps
<1>2. ASSUME NEW seqnum \in 1..MaxSeq, InFlight(seqnum), AddDataFits(seqnum, Bytes(seqnum)) PROVE BufferInv'
  <2>1. seqnum >= dstart BY <1>2 DEF InFlight
  <2> QED BY <1>2, <2>1, FitsKeeps
<1>3. ASSUME NEW seqnum \in 1..MaxSeq, InFlight(seqnum), AddDataRefused(seqnum) PROVE BufferInv'
  BY <1>3, RefusedKeeps
<1>4. ASSUME NEW size \in Requests, RequestWhole(size) PROVE BufferInv' BY <1>4, WholeKeeps
<1>5. ASSUME NEW size \in Requests, RequestPart(size) PROVE BufferInv' BY <1>5, PartKeeps
<1>6. CASE RequestNothing
  <2>1. lastRead' = <<>> /\ UNCHANGED <<bufVars, answered, readPos>> BY <1>6 DEF RequestNothing
  <2> QED BY <2>1 DEF bufVars, BufferInv, TypeOK, ListInv, ReadIsTheStream
<1>7. CASE UNCHANGED vars
  BY <1>7 DEF vars, bufVars, BufferInv, TypeOK, ListInv, ReadIsTheStream
<1> QED BY <1>1, <1>2, <1>3, <1>4, <1>5, <1>6, <1>7 DEF Next

(* So it holds in every state. *)
LEMMA BufferInvHolds == ASSUME ~OldCopies PROVE Spec => []BufferInv
<1>1. BufferInv /\ [Next]_vars => BufferInv' BY NextInv
<1> QED BY InitInv, <1>1, PTL DEF Spec

(* The variables of the buffer always hold what the code's would:          *)
(* addresses hold bytes, the list is never empty.                          *)
THEOREM BufferTypeCorrect == ASSUME ~OldCopies PROVE Spec => []TypeOK
<1>1. BufferInv => TypeOK BY DEF BufferInv
<1> QED BY BufferInvHolds, <1>1, PTL

(* What requestData() hands to ftps is the stream, for every size of       *)
(* packet, buffer and request: each read goes on where the one before it   *)
(* ended, whatever the order the packets came in.                          *)
THEOREM FtpsReadsTheStream == ASSUME ~OldCopies PROVE Spec => []ReadIsTheStream
<1>1. BufferInv => ReadIsTheStream BY DEF BufferInv
<1> QED BY BufferInvHolds, <1>1, PTL

(* mergeList() called between two operations has nothing to join and ends: *)
(* the call at the end of addData() and of requestData() has joined all,   *)
(* and a partial read makes no new neighbours.                             *)
THEOREM OneMergeIsEnough == ASSUME ~OldCopies PROVE Spec => []NothingToMerge
<1>1. BufferInv => NothingToMerge BY InvFacts DEF NothingToMerge
<1> QED BY BufferInvHolds, <1>1, PTL

(* An acknowledged packet stays in the buffer until ftps has read it, at   *)
(* the address where requestData() will look for it.                       *)
THEOREM NothingAnsweredIsLost == ASSUME ~OldCopies PROVE Spec => []AnsweredIsKept
<1>1. ASSUME BufferInv PROVE AnsweredIsKept
  <2> SUFFICES ASSUME NEW s \in answered, NEW q \in (s-1)*Mss..s*Mss-1, q >= readPos
               PROVE  \E i \in 1..Len(list) :
                        /\ list[i].filled /\ s \in list[i].firstSeq..list[i].lastSeq
                        /\ buffer[(list[i].data + list[i].size - (list[i].lastSeq * Mss - q)) % BufSize] = q
    BY DEF AnsweredIsKept
  <2>1. s \in 1..MaxSeq /\ readPos = ReadUpTo(list, dstart) BY <1>1 DEF BufferInv, TypeOK, ListInv
  <2>2. readPos \in Nat /\ (dstart - 1) * Mss <= readPos BY <1>1, <2>1, InvFacts, ReadUpToIs
  <2>3. s \in Int /\ q \in Int /\ q <= s * Mss - 1 /\ s * Mss \in Int
    <3>1. s \in Int /\ (s-1)*Mss \in Int /\ s*Mss \in Int BY <2>1, Sizes
    <3> QED BY <3>1
  <2>4. s >= dstart
    <3> SUFFICES ASSUME s <= dstart - 1 PROVE FALSE BY <1>1, <2>3, InvFacts
    <3>1. s * Mss <= (dstart - 1) * Mss /\ (dstart - 1) * Mss \in Int
      <4>1. dstart - 1 \in Int BY <1>1, InvFacts
      <4> QED BY <4>1, <2>3, MoreBytes
    <3> QED BY <3>1, <2>2, <2>3
  <2>5. Holds(list, s) BY <1>1, <2>1, <2>4 DEF BufferInv, ListInv
  <2>6. PICK i \in 1..Len(list) : list[i].filled /\ s \in list[i].firstSeq..list[i].lastSeq BY <2>5 DEF Holds
  <2>7. list[i] \in CirNode /\ FilledOK(list[i], dstart) BY <1>1, <2>6, InvFacts DEF ListOK, NodeOK
  <2>8. PICK t \in Nat, d \in Int, z \in Int, T \in Int :
          t = list[i].lastSeq /\ d = list[i].data /\ z = list[i].size /\ T = t * Mss
    BY <2>7, NodeTypes, Sizes
  <2>9. Laps(d + z - T) BY <2>7, <2>8 DEF FilledOK
  <2>10. d + z - (T - q) \in Int /\ (d + z - (T - q)) - q = d + z - T BY <2>3
  <2>11. (d + z - (T - q)) % BufSize = q % BufSize BY <2>3, <2>9, <2>10, SameAddress
  <2>12. buffer[q % BufSize] = q BY <1>1, <2>1, <2>5 DEF BufferInv, ListInv
  <2> QED BY <2>6, <2>8, <2>11, <2>12
<1> QED BY BufferInvHolds, <1>1, PTL

(* When the packet ftps needs next has been acknowledged it is at the head *)
(* of the list, and requestData() serves it.                               *)
THEOREM NeededIsServed == ASSUME ~OldCopies PROVE Spec => []NextIsServed
<1>1. ASSUME BufferInv PROVE NextIsServed
  <2> SUFFICES ASSUME fault = "none", dstart \in answered PROVE list[1].filled /\ list[1].firstSeq = dstart
    BY DEF NextIsServed, Servable, Running
  <2>1. dstart \in 1..MaxSeq /\ dstart >= dstart BY <1>1, InvFacts DEF BufferInv, TypeOK
  <2>2. Holds(list, dstart) BY <1>1, <2>1 DEF BufferInv, ListInv
  <2>3. PICK i \in 1..Len(list) : list[i].filled /\ dstart \in list[i].firstSeq..list[i].lastSeq
    BY <2>2 DEF Holds
  <2>4. /\ list[i] \in CirNode /\ FilledOK(list[i], dstart) /\ list[1] \in CirNode /\ NodeOK(list[1], dstart)
        /\ (1 < i => InOrder(list[1], list[i], dstart)) /\ (Live(list[1], dstart) => list[1].firstSeq = dstart)
    BY <1>1, <2>3, InvFacts DEF ListOK, NodeOK
  <2>5. PICK f \in Nat, t \in Nat, g \in Nat, u \in Nat :
          f = list[i].firstSeq /\ t = list[i].lastSeq /\ g = list[1].firstSeq /\ u = list[1].lastSeq
    BY <2>4, NodeTypes
  <2>6. f = dstart
    <3>1. f >= dstart /\ dstart \in f..t BY <2>3, <2>4, <2>5, <1>1, InvFacts DEF FilledOK
    <3> QED BY <3>1, <1>1, InvFacts
  <2>7. i = 1
    <3> SUFFICES ASSUME i # 1 PROVE FALSE OBVIOUS
    <3>1. 1 < i BY <1>1, InvFacts
    <3>2. Live(list[i], dstart) BY <2>5, <2>6, <1>1, InvFacts DEF Live
    <3>3. Live(list[1], dstart) /\ u < f BY <2>4, <2>5, <3>1, <3>2 DEF InOrder
    <3>4. g = dstart BY <2>4, <2>5, <3>3
    <3>5. g <= u
      <4>1. CASE list[1].filled
        <5>1. FilledOK(list[1], dstart) BY <2>4, <4>1 DEF NodeOK
        <5>2. g \in dstart..u BY <2>5, <5>1 DEF FilledOK
        <5> QED BY <5>2, <1>1, InvFacts
      <4>2. CASE ~list[1].filled BY <2>4, <2>5, <3>3, <4>2 DEF NodeOK, LiveHoleOK
      <4> QED BY <4>1, <4>2
    <3> QED BY <2>6, <3>3, <3>4, <3>5
  <2> QED BY <2>3, <2>5, <2>6, <2>7
<1> QED BY BufferInvHolds, <1>1, PTL

(* No byte of the buffer belongs to two filled nodes: a copy of one packet *)
(* never overwrites another one ftps has still to read.                    *)
THEOREM FilledNodesApart == ASSUME ~OldCopies PROVE Spec => []FilledNodesDisjoint
<1>1. ASSUME BufferInv PROVE FilledNodesDisjoint
  <2> SUFFICES ASSUME NEW i \in 1..Len(list), NEW j \in 1..Len(list),
                      i < j, list[i].filled, list[j].filled,
                      NEW c \in Cells(list[i]) \cap Cells(list[j])
               PROVE  FALSE
    BY DEF FilledNodesDisjoint
  <2>1. /\ list[i] \in CirNode /\ FilledOK(list[i], dstart) /\ list[j] \in CirNode /\ FilledOK(list[j], dstart)
        /\ InOrder(list[i], list[j], dstart)
    BY <1>1, InvFacts DEF ListOK, NodeOK
  <2>2. PICK f \in Nat, t \in Nat, z \in Int, g \in Nat, u \in Nat, w \in Int :
          /\ f = list[i].firstSeq /\ t = list[i].lastSeq /\ z = list[i].size
          /\ g = list[j].firstSeq /\ u = list[j].lastSeq /\ w = list[j].size
    BY <2>1, NodeTypes
  <2>3. PICK k \in 0..z-1 : c = (list[i].data + k) % BufSize BY <2>2 DEF Cells
  <2>4. PICK m \in 0..w-1 : c = (list[j].data + m) % BufSize BY <2>2 DEF Cells
  <2>5. PICK T \in Int, U \in Int : T = t * Mss /\ U = u * Mss BY Sizes
  <2>6. PICK p \in Int, q \in Int : p = T - z + k /\ q = U - w + m OBVIOUS
  <2>a. PICK ds \in Nat : ds = dstart /\ ds >= 1 BY <1>1, InvFacts
  <2>b. FilledOK(list[i], ds) /\ FilledOK(list[j], ds) BY <2>1, <2>a
  <2>7. (f - 1) * Mss <= p /\ p < t * Mss /\ (list[i].data + k) % BufSize = p % BufSize
    <3> DEFINE nd == list[i]
    <3>1. 0 <= k /\ k < nd.size /\ k \in Int /\ nd \in CirNode /\ FilledOK(nd, ds)
      BY <2>1, <2>2, <2>b, SMTT(30)
    <3>2. p = nd.lastSeq * Mss - nd.size + k BY <2>2, <2>5, <2>6
    <3> HIDE DEF nd
    <3>3. /\ (nd.firstSeq - 1) * Mss <= p /\ p < nd.lastSeq * Mss
          /\ (nd.data + k) % BufSize = p % BufSize
      BY <3>1, <3>2, NodeByte
    <3> QED BY <3>3, <2>2 DEF nd
  <2>8. (g - 1) * Mss <= q /\ q < u * Mss /\ (list[j].data + m) % BufSize = q % BufSize
    <3> DEFINE nd == list[j]
    <3>1. 0 <= m /\ m < nd.size /\ m \in Int /\ nd \in CirNode /\ FilledOK(nd, ds)
      BY <2>1, <2>2, <2>b
    <3>2. q = nd.lastSeq * Mss - nd.size + m BY <2>2, <2>5, <2>6
    <3> HIDE DEF nd
    <3>3. /\ (nd.firstSeq - 1) * Mss <= q /\ q < nd.lastSeq * Mss
          /\ (nd.data + m) % BufSize = q % BufSize
      BY <3>1, <3>2, NodeByte
    <3> QED BY <3>3, <2>2 DEF nd
  <2>9. Laps(q - p)
    <3>1. q % BufSize = p % BufSize BY <2>3, <2>4, <2>7, <2>8
    <3> QED BY <3>1, SameAddress
  <2>11. ds <= f /\ f <= t /\ ds <= g /\ g <= u /\ u <= ds + Packets - 1 /\ t < g
    <3>1. f \in ds..t /\ g \in ds..u /\ u <= ds + Packets - 1 BY <2>1, <2>2, <2>a DEF FilledOK
    <3>2. Live(list[j], dstart) BY <2>2, <2>a, <3>1 DEF Live
    <3>3. t < g BY <2>1, <2>2, <3>2 DEF InOrder
    <3> QED BY <3>1, <3>3, <2>a
  <2>12. p < q
    <3>1. t * Mss <= (g - 1) * Mss
      <4>1. t <= g - 1 /\ t \in Int /\ g - 1 \in Int BY <2>11
      <4> QED BY <4>1, MoreBytes
    <3>2. t * Mss \in Int /\ (g - 1) * Mss \in Int BY Sizes
    <3> QED BY <3>1, <3>2, <2>7, <2>8
  <2>13. q - p < BufSize
    <3>1. (ds - 1) * Mss <= (f - 1) * Mss
      <4>1. ds - 1 <= f - 1 /\ ds - 1 \in Int /\ f - 1 \in Int BY <2>11
      <4> QED BY <4>1, MoreBytes
    <3>2. u * Mss <= (ds - 1 + Packets) * Mss
      <4>1. u <= ds - 1 + Packets /\ u \in Int /\ ds - 1 + Packets \in Int BY <2>11, Sizes
      <4> QED BY <4>1, MoreBytes
    <3>3. (ds - 1 + Packets) * Mss = (ds - 1) * Mss + Packets * Mss BY Sizes
    <3>4. PICK D \in Int, F \in Int : D = (ds - 1) * Mss /\ F = (f - 1) * Mss BY Sizes
    <3>5. D <= F /\ U <= D + BufSize BY <3>1, <3>2, <3>3, <3>4, <2>5, Sizes
    <3>6. F <= p /\ q < U BY <3>4, <2>5, <2>7, <2>8
    <3> QED BY <3>5, <3>6, Sizes
  <2>14. p - q < BufSize BY <2>12, Sizes
  <2>15. q = p BY <2>9, <2>13, <2>14, SameByte
  <2> QED BY <2>12, <2>15
<1> QED BY BufferInvHolds, <1>1, PTL

--------------------------------------------------------------------------------

(* What a program with both buffers needs to know of this one.             *)

(* The packets of a filled node at the head are those from dstart on, and  *)
(* they have been acknowledged.                                            *)
LEMMA HeadFacts ==
  ASSUME BufferInv, list[1].filled
  PROVE  \E t \in Nat, z \in Nat :
           /\ t = list[1].lastSeq /\ z = list[1].size /\ z >= 1
           /\ dstart <= t /\ t <= MaxSeq
           /\ \A s \in dstart..t : s \in answered
           /\ readPos = t * Mss - z
<1>1. dstart \in Nat /\ dstart >= 1 /\ ListOK(list, dstart) /\ 1 \in 1..Len(list) BY InvFacts
<1>2. list[1] \in CirNode /\ FilledOK(list[1], dstart) BY <1>1 DEF ListOK, NodeOK
<1>3. PICK f \in Nat, t \in Nat, z \in Int :
        f = list[1].firstSeq /\ t = list[1].lastSeq /\ z = list[1].size
  BY <1>2, NodeTypes
<1>4. f \in dstart..t /\ t <= MaxSeq /\ z \in 1..(t - f + 1) * Mss BY <1>2, <1>3 DEF FilledOK
<1>5. z \in Nat /\ z >= 1
  <2>1. (t - f + 1) * Mss \in Int BY <1>4, <1>1, Sizes
  <2> QED BY <2>1, <1>4
<1>6. f = dstart
  <2>1. Live(list[1], dstart) BY <1>1, <1>3, <1>4 DEF Live
  <2> QED BY <2>1, <1>1, <1>3 DEF ListOK
<1>7. ASSUME NEW s \in dstart..t PROVE s \in answered
  <2>1. Holds(list, s) BY <1>1, <1>3, <1>6, <1>7 DEF Holds
  <2>2. s \in 1..MaxSeq /\ s >= dstart BY <1>1, <1>4, <1>7, Sizes
  <2> QED BY <2>1, <2>2 DEF BufferInv, ListInv
<1>8. readPos = t * Mss - z BY <1>3 DEF BufferInv, ListInv, ReadUpTo
<1> QED BY <1>1, <1>3, <1>4, <1>5, <1>6, <1>7, <1>8

(* ftps has read only what has been acknowledged.                          *)
LEMMA ReadIsAnswered ==
  ASSUME BufferInv
  PROVE  /\ readPos \in Nat
         /\ \E t \in Nat : readPos <= t * Mss /\ dstart <= t + 1 /\ \A s \in dstart..t : s \in answered
<1>1. readPos \in Nat BY DEF BufferInv, TypeOK
<1>2. dstart \in Nat /\ dstart >= 1 BY InvFacts
<1>3. CASE list[1].filled
  <2>1. PICK t \in Nat, z \in Nat : /\ dstart <= t /\ readPos = t * Mss - z
                                    /\ \A s \in dstart..t : s \in answered
    BY <1>3, HeadFacts
  <2>2. readPos <= t * Mss
    <3>1. t * Mss \in Int BY Sizes
    <3> QED BY <3>1, <2>1
  <2> QED BY <1>1, <1>2, <2>1, <2>2
<1>4. CASE ~list[1].filled
  <2>1. readPos = (dstart - 1) * Mss BY <1>4 DEF BufferInv, ListInv, ReadUpTo
  <2>2. PICK t \in Nat : t = dstart - 1 BY <1>2
  <2>3. readPos <= t * Mss
    <3>1. t * Mss \in Int BY Sizes
    <3> QED BY <3>1, <2>1, <2>2
  <2>4. \A s \in dstart..t : s \in answered BY <1>2, <2>2
  <2> QED BY <1>1, <1>2, <2>2, <2>3, <2>4
<1> QED BY <1>3, <1>4

(* A read moves on by what it hands out, and only past packets that have   *)
(* been acknowledged; one that fails moves nothing.                        *)
LEMMA ReadsOn ==
  ASSUME BufferInv, NEW size \in Requests, RequestWhole(size) \/ RequestPart(size)
  PROVE  /\ fault = "none" /\ UNCHANGED <<buffer, answered>>
         /\ fault' = "none" => /\ Len(lastRead') \in 1..size
                               /\ readPos' = readPos + Len(lastRead')
         /\ fault' # "none" => readPos' = readPos
         /\ \A s \in 1..dstart'-1 : s < dstart \/ s \in answered
<1> DEFINE nd == list[1]
<1>0. /\ dstart \in Nat /\ dstart >= 1 /\ size \in Nat /\ size >= 1 /\ readPos \in Nat
  <2>1. size \in Nat /\ size >= 1 BY BufferAssumption
  <2> QED BY <2>1, InvFacts, ReadIsAnswered
<1>1. nd.filled /\ fault = "none" /\ UNCHANGED <<buffer, answered>>
  BY DEF RequestWhole, RequestPart, Servable, Running
<1>2. PICK t \in Nat, z \in Nat :
        /\ t = nd.lastSeq /\ z = nd.size /\ z >= 1 /\ dstart <= t
        /\ \A s \in dstart..t : s \in answered
  BY <1>1, HeadFacts
<1>3. CASE RequestWhole(size)
  <2>1. /\ z <= size
        /\ \/ /\ dstart' = NextNeeded(nd) /\ lastRead' = Get(nd, z) /\ readPos' = readPos + z /\ UNCHANGED fault
           \/ /\ fault' \in {"hung", "crashed"} /\ UNCHANGED <<dstart, readPos>>
    BY <1>2, <1>3 DEF RequestWhole
  <2>2. CASE dstart' = NextNeeded(nd) /\ lastRead' = Get(nd, z) /\ readPos' = readPos + z /\ UNCHANGED fault
    <3>1. Len(Get(nd, z)) = z
      <4>1. z <= list[1].size BY <1>2
      <4> QED BY <4>1, <1>1, GetIsStream
    <3>2. Len(lastRead') = z /\ z \in 1..size BY <3>1, <2>1, <2>2, <1>0, <1>2
    <3>3. dstart' = t + 1 BY <1>2, <2>2 DEF NextNeeded
    <3>4. \A s \in 1..dstart'-1 : s < dstart \/ s \in answered BY <3>3, <1>0, <1>2
    <3> HIDE DEF nd
    <3> QED BY <3>2, <3>4, <2>2, <1>1
  <2>3. CASE fault' \in {"hung", "crashed"} /\ UNCHANGED <<dstart, readPos>>
    <3>1. \A s \in 1..dstart'-1 : s < dstart \/ s \in answered BY <2>3, <1>0
    <3>2. fault' # "none" BY <2>3
    <3> QED BY <3>1, <3>2, <2>3, <1>1
  <2> QED BY <2>1, <2>2, <2>3
<1>4. CASE RequestPart(size)
  <2>1. /\ nd.size > size /\ dstart' = dstart
        /\ \/ /\ lastRead' = Get(nd, size) /\ readPos' = readPos + size /\ UNCHANGED fault
           \/ /\ fault' = "crashed" /\ UNCHANGED readPos
    BY <1>4 DEF RequestPart
  <2>2. Len(Get(nd, size)) = size
    <3>1. size <= list[1].size BY <2>1, <1>0, <1>2
    <3> QED BY <3>1, <1>0, <1>1, GetIsStream
  <2>3. \A s \in 1..dstart'-1 : s < dstart \/ s \in answered BY <2>1, <1>0
  <2>4. size \in 1..size BY <1>0
  <2> HIDE DEF nd
  <2> QED BY <2>1, <2>2, <2>3, <2>4, <1>1
<1> QED BY <1>3, <1>4

(* A byte of an acknowledged packet that ftps has not read is in a filled  *)
(* node, at its place.                                                     *)
LEMMA KeptAt ==
  ASSUME BufferInv, NEW s \in answered, NEW q \in (s-1)*Mss..s*Mss-1, q >= readPos
  PROVE  \E i \in 1..Len(list) :
           /\ list[i].filled
           /\ q - (list[i].lastSeq * Mss - list[i].size) \in 0..list[i].size-1
           /\ buffer[(list[i].data + (q - (list[i].lastSeq * Mss - list[i].size))) % BufSize] = q
<1>1. s \in 1..MaxSeq BY DEF BufferInv, TypeOK
<1>a. s \in Int /\ q \in Int /\ (s-1)*Mss \in Int /\ s*Mss \in Int /\ (s-1)*Mss <= q /\ q <= s*Mss - 1
  <2>1. s \in Int /\ (s-1)*Mss \in Int /\ s*Mss \in Int BY <1>1, Sizes
  <2> QED BY <2>1
<1>b. PICK start \in Nat : start = dstart /\ start >= 1 BY InvFacts
<1>2. s >= dstart
  <2> SUFFICES ASSUME s <= dstart - 1 PROVE FALSE BY <1>a, <1>b
  <2>1. s * Mss <= (dstart - 1) * Mss /\ (dstart - 1) * Mss \in Int
    <3>1. dstart - 1 \in Int BY <1>b
    <3> QED BY <3>1, <1>a, MoreBytes
  <2>2. readPos \in Nat /\ (dstart - 1) * Mss <= readPos
    <3>1. readPos = ReadUpTo(list, dstart) BY DEF BufferInv, ListInv
    <3> QED BY <3>1, InvFacts, ReadUpToIs
  <2> QED BY <2>1, <2>2, <1>a
<1>3. Holds(list, s) BY <1>1, <1>2 DEF BufferInv, ListInv
<1>4. PICK i \in 1..Len(list) : list[i].filled /\ s \in list[i].firstSeq..list[i].lastSeq BY <1>3 DEF Holds
<1>5. /\ list[i] \in CirNode /\ FilledOK(list[i], start)
      /\ i # 1 => Whole(list[i])
  BY <1>4, <1>b, InvFacts DEF ListOK, NodeOK
<1>6. PICK f \in Nat, t \in Nat, d \in Int, z \in Int, T \in Int :
        /\ f = list[i].firstSeq /\ t = list[i].lastSeq /\ d = list[i].data /\ z = list[i].size
        /\ T = t * Mss
  BY <1>5, NodeTypes, Sizes
<1>c. PICK p \in Int, U \in Int, L \in Int : p = q /\ U = s * Mss /\ L = (s - 1) * Mss /\ L <= p /\ p < U
  BY <1>a
<1>7. PICK k \in Int : k = p - (T - z) BY <1>6
<1>8. k < z
  <2>1. s <= t /\ t \in Int BY <1>4, <1>6
  <2>2. U <= T
    <3>1. s * Mss <= t * Mss BY <2>1, <1>a, MoreBytes
    <3> QED BY <3>1, <1>c, <1>6
  <2>3. \A x, y, u, v \in Int : x < u /\ u <= v => x - (v - y) < y OBVIOUS
  <2> QED BY <2>2, <2>3, <1>6, <1>7, <1>c
<1>9. k >= 0
  <2>1. CASE i = 1
    <3>1. readPos = T - z BY <2>1, <1>4, <1>6 DEF BufferInv, ListInv, ReadUpTo
    <3>2. \A x, y \in Int : x >= y => x - y >= 0 OBVIOUS
    <3>3. T - z \in Int /\ p >= T - z BY <3>1, <1>6, <1>c
    <3> QED BY <3>2, <3>3, <1>7
  <2>2. CASE i # 1
    <3>1. z = (t - f + 1) * Mss BY <2>2, <1>5, <1>6 DEF Whole
    <3>2. (t - f + 1) * Mss = t * Mss - (f - 1) * Mss
      <4>1. \A x, y \in Int : (x - y) * Mss = x * Mss - y * Mss BY Sizes
      <4>2. t - f + 1 = t - (f - 1) /\ t \in Int /\ f - 1 \in Int BY <1>6
      <4> QED BY <4>1, <4>2
    <3>3. (f - 1) * Mss <= (s - 1) * Mss
      <4>1. f <= s BY <1>4, <1>6
      <4>2. f - 1 <= s - 1 /\ f - 1 \in Int /\ s - 1 \in Int BY ONLY <4>1, <1>6, <1>a
      <4> QED BY <4>2, MoreBytes
    <3>4. PICK F \in Int : F = (f - 1) * Mss BY Sizes
    <3>5. z = T - F BY <3>1, <3>2, <3>4, <1>6
    <3>6. F <= L BY <3>3, <3>4, <1>c
    <3>7. \A x, y, u, v, w \in Int : y = u - v /\ v <= w /\ w <= x => x - (u - y) >= 0 OBVIOUS
    <3> QED BY <3>4, <3>5, <3>6, <3>7, <1>6, <1>7, <1>c
  <2> QED BY <2>1, <2>2
<1>10. (d + k) % BufSize = q % BufSize
  <2> DEFINE nd == list[i]
  <2>1. nd \in CirNode /\ FilledOK(nd, start) /\ k < nd.size /\ q = nd.lastSeq * Mss - nd.size + k
    <3>1. k < nd.size BY <1>6, <1>8
    <3>2. q = T - z + k
      <4>2. \A x, y, u \in Int : y = u - x => u = x + y OBVIOUS
      <4>3. T - z \in Int BY <1>6
      <4> QED BY <4>2, <4>3, <1>7, <1>c
    <3>3. nd.lastSeq * Mss - nd.size = T - z BY <1>6
    <3> QED BY <1>5, <3>1, <3>2, <3>3
  <2> HIDE DEF nd
  <2>2. (nd.data + k) % BufSize = q % BufSize BY <2>1, <1>9, NodeByte
  <2> QED BY <2>2, <1>6 DEF nd
<1>11. buffer[q % BufSize] = q BY <1>1, <1>3 DEF BufferInv, ListInv
<1>12. k \in 0..z-1 /\ buffer[(d + k) % BufSize] = q
  <2>1. \A x, y \in Int : 0 <= x /\ x < y => x \in 0..y-1 OBVIOUS
  <2> QED BY <2>1, <1>6, <1>7, <1>8, <1>9, <1>10, <1>11
<1>13. q - (list[i].lastSeq * Mss - list[i].size) = k BY <1>6, <1>7, <1>c
<1>14. /\ q - (list[i].lastSeq * Mss - list[i].size) \in 0..list[i].size-1
       /\ buffer[(list[i].data + (q - (list[i].lastSeq * Mss - list[i].size))) % BufSize] = q
  BY <1>6, <1>12, <1>13
<1> QED BY <1>4, <1>14

================================================================================
