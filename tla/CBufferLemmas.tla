----------------------------- MODULE CBufferLemmas -----------------------------
(* What the operators of CBuffer compute: facts about the packet list, its *)
(* byte offsets and addresses in the ring, used by the invariant proofs.   *)
EXTENDS CBuffer, TLAPS, WellFoundedInduction, FiniteSetTheorems

(* The order of the natural numbers as a set of pairs, and the one fact    *)
(* about it that every induction below uses: a non-empty set of natural    *)
(* numbers has a least element.                                            *)
Less == {ss \in Nat \X Nat : ss[1] < ss[2]}
(* The order is well-founded. *)
LEMMA LessWF == IsWellFoundedOn(Less, Nat)
  BY NatLessThanWellFounded DEF OpToRel, Less

(* A non-empty set of natural numbers has a least element. *)
LEMMA NatMin == ASSUME NEW T \in SUBSET Nat, T # {} PROVE \E x \in T : \A y \in T : x <= y
<1>1. PICK x \in T : \A y \in T : ~ (<<y, x>> \in Less)
  BY LessWF, WFMin
<1>2. \A y \in T : x <= y
  <2> SUFFICES ASSUME NEW y \in T PROVE x <= y  OBVIOUS
  <2>1. x \in Nat /\ y \in Nat OBVIOUS
  <2>2. y < x => <<y,x>> \in Less  BY <2>1 DEF Less
  <2> QED BY <1>1, <2>1, <2>2
<1> QED BY <1>2

--------------------------------------------------------------------------------

(* g adds up the sizes of the packets of ns, as Offsets(ns) does. *)
IsSum(g, ns, m) == g \in [0..m -> Nat] /\ g[0] = 0 /\ \A i \in 1..m : g[i] = g[i-1] + ns[i].size

(* The sums exist. *)
LEMMA SumExists ==
  ASSUME NEW ns \in Seq(Node), NEW n \in 0..Len(ns)
  PROVE  \E g : IsSum(g, ns, n)
<1> DEFINE T == {m \in 0..Len(ns) : ~ \E g : IsSum(g, ns, m)}
<1> SUFFICES ASSUME T # {} PROVE FALSE  OBVIOUS
<1>0. Len(ns) \in Nat OBVIOUS
<1>1. PICK m \in T : \A y \in T : m <= y
  <2>1. T \in SUBSET Nat BY <1>0
  <2> HIDE DEF T
  <2> QED BY <2>1, NatMin
<1>2. m \in 0..Len(ns) /\ ~ \E g : IsSum(g, ns, m) OBVIOUS
<1>3. CASE m = 0
  <2>1. IsSum([i \in 0..0 |-> 0], ns, 0) BY DEF IsSum
  <2> QED BY <1>2, <1>3, <2>1
<1>4. CASE m # 0
  <2>1. m - 1 \in 0..Len(ns) /\ m-1 \notin T
    <3>1. m - 1 \in 0..Len(ns) /\ ~(m <= m-1) BY <1>0, <1>2, <1>4
    <3> HIDE DEF T
    <3> QED BY <3>1, <1>1
  <2>2. PICK g : IsSum(g, ns, m-1) BY <2>1
  <2> DEFINE h == [i \in 0..m |-> IF i = m THEN g[m-1] + ns[m].size ELSE g[i]]
  <2>3. ns[m] \in Node BY <1>0, <1>2, <1>4
  <2>4. ns[m].size \in Nat /\ g[m-1] \in Nat BY <2>3, <2>2, <1>2, <1>4, <1>0, SizesAssumption DEF Node, IsSum
  <2>5. h \in [0..m -> Nat]
    <3>1. \A i \in 0..m : i # m => g[i] \in Nat BY <2>2, <1>0, <1>2 DEF IsSum
    <3>2. g[m-1] + ns[m].size \in Nat BY <2>4
    <3>3. \A i \in 0..m : h[i] \in Nat BY <3>1, <3>2
    <3> QED BY <3>3
  <2>6. h[0] = 0 BY <2>2, <1>2, <1>4, <1>0 DEF IsSum
  <2>7. \A i \in 1..m : h[i] = h[i-1] + ns[i].size BY <2>2, <1>2, <1>4, <1>0 DEF IsSum
  <2>8. IsSum(h, ns, m) BY <2>5, <2>6, <2>7 DEF IsSum
  <2> QED BY <2>8, <1>2
<1> QED BY <1>3, <1>4

(* Offsets, which is defined by recursion, is such a sum. *)
LEMMA OffsetsIsSum ==
  ASSUME NEW ns \in Seq(Node)
  PROVE  IsSum(Offsets(ns), ns, Len(ns))
<1>0. Len(ns) \in Nat OBVIOUS
<1> DEFINE R(f) == f = [i \in 0..Len(ns) |-> IF i = 0 THEN 0 ELSE f[i-1] + ns[i].size]
<1>1. PICK g : IsSum(g, ns, Len(ns)) BY SumExists, <1>0
<1>2. R(g) BY <1>1, <1>0 DEF IsSum
<1>3. R(Offsets(ns)) 
  <2>1. Offsets(ns) = CHOOSE f : R(f) BY DEF Offsets
  <2> QED BY <1>2, <2>1
<1>4. /\ DOMAIN Offsets(ns) = 0..Len(ns)
      /\ Offsets(ns)[0] = 0
      /\ \A i \in 1..Len(ns) : Offsets(ns)[i] = Offsets(ns)[i-1] + ns[i].size
      /\ Offsets(ns) = [i \in 0..Len(ns) |-> Offsets(ns)[i]]
  <2> DEFINE O == Offsets(ns)
  <2>1. R(O) BY <1>3
  <2> HIDE DEF O
  <2>2. DOMAIN O = 0..Len(ns) /\ O[0] = 0 /\ (\A i \in 1..Len(ns) : O[i] = O[i-1] + ns[i].size)
        /\ O = [i \in 0..Len(ns) |-> O[i]]
    BY <2>1, <1>0
  <2> QED BY <2>2 DEF O
<1> DEFINE T == {i \in 0..Len(ns) : Offsets(ns)[i] # g[i]}
<1>5. T = {}
  <2> SUFFICES ASSUME T # {} PROVE FALSE OBVIOUS
  <2>1. PICK m \in T : \A y \in T : m <= y
    <3>1. T \in SUBSET Nat BY <1>0
    <3> HIDE DEF T
    <3> QED BY <3>1, NatMin
  <2>2. m \in 0..Len(ns) /\ Offsets(ns)[m] # g[m] OBVIOUS
  <2>3. m # 0 BY <2>2, <1>4, <1>1 DEF IsSum
  <2>4. m - 1 \in 0..Len(ns) /\ m - 1 \notin T
    <3>1. m - 1 \in 0..Len(ns) /\ ~(m <= m-1) BY <1>0, <2>2, <2>3
    <3> HIDE DEF T
    <3> QED BY <3>1, <2>1
  <2>5. Offsets(ns)[m-1] = g[m-1] BY <2>4
  <2>6. m \in 1..Len(ns) BY <2>2, <2>3, <1>0
  <2>7. Offsets(ns)[m] = g[m] BY <2>5, <2>6, <1>4, <1>1 DEF IsSum
  <2> QED BY <2>7, <2>2
<1>6. \A i \in 0..Len(ns) : Offsets(ns)[i] \in Nat BY <1>5, <1>1 DEF IsSum
<1>7. Offsets(ns) \in [0..Len(ns) -> Nat] BY <1>4, <1>6
<1> QED BY <1>4, <1>7 DEF IsSum

(* Two sums of the same sizes are the same. *)
LEMMA SumUnique ==
  ASSUME NEW ns \in Seq(Node), NEW n \in 0..Len(ns), NEW g, NEW h,
         IsSum(g, ns, n), IsSum(h, ns, n)
  PROVE  g = h
<1>0. Len(ns) \in Nat OBVIOUS
<1> DEFINE T == {i \in 0..n : h[i] # g[i]}
<1>1. T = {}
  <2> SUFFICES ASSUME T # {} PROVE FALSE OBVIOUS
  <2>1. PICK m \in T : \A y \in T : m <= y
    <3>1. T \in SUBSET Nat BY <1>0
    <3> HIDE DEF T
    <3> QED BY <3>1, NatMin
  <2>2. m \in 0..n /\ h[m] # g[m] OBVIOUS
  <2>3. m # 0 BY <2>2 DEF IsSum
  <2>4. m - 1 \in 0..n /\ m - 1 \notin T
    <3>1. m - 1 \in 0..n /\ ~(m <= m-1) BY <1>0, <2>2, <2>3
    <3> HIDE DEF T
    <3> QED BY <3>1, <2>1
  <2>5. h[m-1] = g[m-1] BY <2>4
  <2>6. m \in 1..n BY <2>2, <2>3, <1>0
  <2>7. h[m] = g[m] BY <2>5, <2>6 DEF IsSum
  <2> QED BY <2>7, <2>2
<1>2. g \in [0..n -> Nat] /\ h \in [0..n -> Nat] BY DEF IsSum
<1>3. \A i \in 0..n : h[i] = g[i] BY <1>1
<1> HIDE DEF T
<1> QED BY <1>2, <1>3

(* Offsets read off one packet at a time. *)
LEMMA OffsetsStep ==
  ASSUME NEW ns \in Seq(Node)
  PROVE  /\ Len(ns) \in Nat
         /\ Offsets(ns)[0] = 0
         /\ Offsets(ns)[Len(ns)] \in Nat
         /\ \A i \in 0..Len(ns) : Offsets(ns)[i] \in Nat
         /\ \A i \in 1..Len(ns) : /\ Offsets(ns)[i] = Offsets(ns)[i-1] + ns[i].size
                                  /\ ns[i].size \in 1..Mss
<1>1. IsSum(Offsets(ns), ns, Len(ns)) BY OffsetsIsSum
<1>2. Len(ns) \in Nat /\ Len(ns) \in 0..Len(ns) OBVIOUS
<1>3. Offsets(ns)[0] = 0 BY <1>1 DEF IsSum
<1>4. \A i \in 0..Len(ns) : Offsets(ns)[i] \in Nat BY <1>1 DEF IsSum
<1>5. \A i \in 1..Len(ns) : Offsets(ns)[i] = Offsets(ns)[i-1] + ns[i].size BY <1>1 DEF IsSum
<1>6. \A i \in 1..Len(ns) : ns[i] \in Node OBVIOUS
<1>7. \A i \in 1..Len(ns) : ns[i].size \in 1..Mss BY <1>6 DEF Node
<1> QED BY <1>2, <1>3, <1>4, <1>5, <1>7

(* Offsets depends on the sizes only. *)
LEMMA OffsetsSameSizes ==
  ASSUME NEW ns \in Seq(Node), NEW ms \in Seq(Node), Len(ms) = Len(ns),
         \A i \in 1..Len(ns) : ms[i].size = ns[i].size
  PROVE  Offsets(ms) = Offsets(ns)
<1>0. Len(ns) \in Nat /\ Len(ns) \in 0..Len(ns) OBVIOUS
<1>1. IsSum(Offsets(ns), ns, Len(ns)) /\ IsSum(Offsets(ms), ms, Len(ns)) BY OffsetsIsSum
<1>2. IsSum(Offsets(ms), ns, Len(ns)) BY <1>1 DEF IsSum
<1> QED BY <1>0, <1>1, <1>2, SumUnique

(* Offsets never decreases. *)
LEMMA OffsetsMonotonic ==
  ASSUME NEW ns \in Seq(Node), NEW i \in 0..Len(ns), NEW j \in 0..Len(ns), i <= j
  PROVE  Offsets(ns)[i] <= Offsets(ns)[j]
<1>0. Len(ns) \in Nat OBVIOUS
<1>1. IsSum(Offsets(ns), ns, Len(ns)) BY OffsetsIsSum
<1> DEFINE T == {m \in 0..Len(ns) : i <= m /\ ~(Offsets(ns)[i] <= Offsets(ns)[m])}
<1>2. T = {}
  <2> SUFFICES ASSUME T # {} PROVE FALSE OBVIOUS
  <2>1. PICK m \in T : \A y \in T : m <= y
    <3>1. T \in SUBSET Nat BY <1>0
    <3> HIDE DEF T
    <3> QED BY <3>1, NatMin
  <2>2. m \in 0..Len(ns) /\ i <= m /\ ~(Offsets(ns)[i] <= Offsets(ns)[m]) OBVIOUS
  <2>3. Offsets(ns)[i] \in Nat BY <1>1 DEF IsSum
  <2>4. m # i BY <2>2, <2>3
  <2>5. m - 1 \in 0..Len(ns) /\ i <= m - 1 /\ m \in 1..Len(ns) BY <1>0, <2>2, <2>4
  <2>6. m - 1 \notin T
    <3>1. ~(m <= m-1) BY <1>0, <2>2
    <3> HIDE DEF T
    <3> QED BY <3>1, <2>1
  <2>7. Offsets(ns)[i] <= Offsets(ns)[m-1] BY <2>5, <2>6
  <2>8. ns[m] \in Node BY <2>5
  <2>9. ns[m].size \in Nat BY <2>8, SizesAssumption DEF Node
  <2>10. Offsets(ns)[m] = Offsets(ns)[m-1] + ns[m].size /\ Offsets(ns)[m-1] \in Nat
    BY <1>1, <2>5 DEF IsSum
  <2> QED BY <2>2, <2>3, <2>7, <2>9, <2>10
<1> QED BY <1>2

(* Dropping k packets from the front of ns leaves the others.              *)
LEMMA RestIsSeq ==
  ASSUME NEW ns \in Seq(Node), NEW k \in 0..Len(ns)
  PROVE  LET rest == SubSeq(ns, k+1, Len(ns))
         IN  /\ rest \in Seq(Node) /\ Len(rest) = Len(ns) - k
             /\ \A i \in 1..Len(ns)-k : rest[i] = ns[k+i]
<1> DEFINE rest == SubSeq(ns, k+1, Len(ns))
<1>0. Len(ns) \in Nat /\ k \in Nat /\ k <= Len(ns) OBVIOUS
<1>1. rest \in Seq(Node) /\ Len(rest) = Len(ns) - k
  OBVIOUS
<1>2. \A i \in 1..Len(ns)-k : rest[i] = ns[k+i]
  BY <1>0
<1> QED BY <1>1, <1>2

(* Dropping k packets from the front of ns and appending fr: which packet  *)
(* of the new list is which.                                               *)
LEMMA RestOf ==
  ASSUME NEW ns \in Seq(Node), NEW k \in 0..Len(ns), NEW fr \in Seq(Node)
  PROVE  LET rest == SubSeq(ns, k+1, Len(ns))
             all  == rest \o fr
         IN  /\ rest \in Seq(Node) /\ Len(rest) = Len(ns) - k
             /\ all \in Seq(Node) /\ Len(all) = Len(ns) - k + Len(fr)
             /\ \A i \in 1..Len(ns)-k : all[i] = ns[k+i] /\ rest[i] = ns[k+i]
             /\ \A i \in Len(ns)-k+1..Len(ns)-k+Len(fr) : all[i] = fr[i - (Len(ns)-k)]
<1> DEFINE rest == SubSeq(ns, k+1, Len(ns))
           all  == rest \o fr
<1>0. Len(ns) \in Nat /\ Len(fr) \in Nat /\ k \in Nat /\ k <= Len(ns) OBVIOUS
<1>1. rest \in Seq(Node) /\ Len(rest) = Len(ns) - k
  BY RestIsSeq
<1>2. \A i \in 1..Len(ns)-k : rest[i] = ns[k+i]
  BY RestIsSeq
<1> HIDE DEF rest
<1>3. all \in Seq(Node)
  BY <1>1
<1>4. Len(all) = Len(ns) - k + Len(fr)
  BY <1>1, <1>0
<1>5. \A i \in 1..Len(ns)-k : all[i] = rest[i]
  BY <1>1, <1>0
<1>6. \A i \in Len(ns)-k+1..Len(ns)-k+Len(fr) : all[i] = fr[i - (Len(ns)-k)]
  BY <1>1, <1>0, SMTT(30)
<1> HIDE DEF all
<1>7. \A i \in 1..Len(ns)-k : all[i] = ns[k+i] /\ rest[i] = ns[k+i]
  BY <1>2, <1>5
<1> QED BY <1>1, <1>3, <1>4, <1>6, <1>7 DEF rest, all

(* Dropping a front and appending packets shifts the offsets (checkWindow  *)
(* releases a front and appends what it cuts).                             *)
LEMMA OffsetsOfRest ==
  ASSUME NEW ns \in Seq(Node), NEW k \in 0..Len(ns), NEW fr \in Seq(Node)
  PROVE  LET r   == Len(ns) - k
             all == SubSeq(ns, k+1, Len(ns)) \o fr
         IN  /\ \A i \in 0..r : Offsets(all)[i] = Offsets(ns)[k+i] - Offsets(ns)[k]
             /\ \A i \in r..r+Len(fr) :
                  Offsets(all)[i] = Offsets(ns)[Len(ns)] - Offsets(ns)[k] + Offsets(fr)[i-r]
<1> DEFINE r   == Len(ns) - k
           all == SubSeq(ns, k+1, Len(ns)) \o fr
           O   == Offsets(ns)
           F   == Offsets(fr)
           A   == Offsets(all)
           B1  == {i \in 0..r : A[i] # O[k+i] - O[k]}
           B2  == {i \in r..r+Len(fr) : A[i] # O[Len(ns)] - O[k] + F[i-r]}
<1>0. Len(ns) \in Nat /\ Len(fr) \in Nat /\ k \in Nat /\ k <= Len(ns) /\ r \in Nat /\ k + r = Len(ns)
  OBVIOUS
<1>1. /\ all \in Seq(Node) /\ Len(all) = r + Len(fr)
      /\ \A i \in 1..r : all[i] = ns[k+i]
      /\ \A i \in r+1..r+Len(fr) : all[i] = fr[i-r]
  BY RestOf
<1>2. /\ A[0] = 0
      /\ \A i \in 0..r+Len(fr) : A[i] \in Nat
      /\ \A i \in 1..r+Len(fr) : A[i] = A[i-1] + all[i].size
  <2> HIDE DEF all, r
  <2> QED BY <1>1, OffsetsStep
<1>3. /\ O[k] \in Nat /\ O[Len(ns)] \in Nat
      /\ \A i \in 0..Len(ns) : O[i] \in Nat
      /\ \A i \in 1..Len(ns) : O[i] = O[i-1] + ns[i].size /\ ns[i].size \in 1..Mss
  BY OffsetsStep
<1>4. /\ F[0] = 0
      /\ \A i \in 0..Len(fr) : F[i] \in Nat
      /\ \A i \in 1..Len(fr) : F[i] = F[i-1] + fr[i].size /\ fr[i].size \in 1..Mss
  BY OffsetsStep
<1> HIDE DEF r, all, O, F, A
<1>5. B1 = {}
  <2> SUFFICES ASSUME B1 # {} PROVE FALSE OBVIOUS
  <2>1. PICK m \in B1 : \A y \in B1 : m <= y
    <3>1. B1 \in SUBSET Nat BY <1>0
    <3> HIDE DEF B1
    <3> QED BY <3>1, NatMin
  <2>2. m \in 0..r /\ A[m] # O[k+m] - O[k] OBVIOUS
  <2>3. m # 0
    <3> SUFFICES ASSUME m = 0 PROVE FALSE OBVIOUS
    <3>1. k + m = k BY <1>0
    <3> QED BY <3>1, <2>2, <1>2, <1>3
  <2>4. m - 1 \in 0..r /\ ~(m <= m-1) /\ m \in 1..r /\ m \in 1..r+Len(fr) /\ k+m \in 1..Len(ns)
        /\ k + (m-1) = k+m-1
    BY <1>0, <2>2, <2>3
  <2>5. m - 1 \notin B1
    <3> HIDE DEF B1
    <3> QED BY <2>4, <2>1
  <2>6. A[m-1] = O[k+m-1] - O[k] BY <2>4, <2>5
  <2> HIDE DEF B1
  <2>7. PICK x \in 1..Len(ns) : x = k+m /\ x-1 = k+m-1 /\ x-1 \in 0..Len(ns) BY <2>4, <1>0
  <2>8. O[x] = O[x-1] + ns[x].size /\ ns[x].size \in 1..Mss /\ O[x-1] \in Nat /\ O[k] \in Nat
    BY <2>7, <1>3, Zenon
  <2>9. A[m] = A[m-1] + all[m].size /\ all[m] = ns[x] BY <2>4, <2>7, <1>2, <1>1, Zenon
  <2>10. A[m] = O[k+m] - O[k]
    <3> DEFINE p == O[x-1]
               q == O[k]
               z == ns[x].size
    <3>1. A[m] = (p - q) + z /\ O[k+m] = p + z BY <2>6, <2>7, <2>8, <2>9, Zenon
    <3>2. p \in Nat /\ q \in Nat /\ z \in Nat BY <2>8, SizesAssumption
    <3> HIDE DEF p, q, z
    <3>3. (p - q) + z = (p + z) - q BY <3>2
    <3>4. A[m] = O[k+m] - q BY <3>1, <3>3, Zenon
    <3> QED BY <3>4 DEF q
  <2> QED BY <2>10, <2>2
<1>6. A[r] = O[Len(ns)] - O[k]
  <2>1. r \in 0..r BY <1>0
  <2> QED BY <1>5, <2>1, <1>0
<1>7. B2 = {}
  <2> SUFFICES ASSUME B2 # {} PROVE FALSE OBVIOUS
  <2>1. PICK m \in B2 : \A y \in B2 : m <= y
    <3>1. B2 \in SUBSET Nat BY <1>0
    <3> HIDE DEF B2
    <3> QED BY <3>1, NatMin
  <2>2. m \in r..r+Len(fr) /\ A[m] # O[Len(ns)] - O[k] + F[m-r] OBVIOUS
  <2>3. m # r
    <3> SUFFICES ASSUME m = r PROVE FALSE OBVIOUS
    <3>1. m - r = 0 BY <1>0
    <3> QED BY <3>1, <2>2, <1>6, <1>3, <1>4
  <2>4. m - 1 \in r..r+Len(fr) /\ ~(m <= m-1) /\ m \in r+1..r+Len(fr) /\ m \in 1..r+Len(fr)
        /\ m-r \in 1..Len(fr) /\ (m-1)-r = (m-r)-1 /\ (m-r)-1 \in 0..Len(fr)
    BY <1>0, <2>2, <2>3
  <2>5. m - 1 \notin B2
    <3> HIDE DEF B2
    <3> QED BY <2>4, <2>1
  <2>6. A[m-1] = O[Len(ns)] - O[k] + F[(m-1)-r] BY <2>4, <2>5
  <2>7. A[m] = A[m-1] + fr[m-r].size BY <2>4, <1>2, <1>1
  <2>8. F[m-r] = F[(m-1)-r] + fr[m-r].size /\ fr[m-r].size \in 1..Mss /\ F[(m-1)-r] \in Nat
    BY <2>4, <1>4
  <2> HIDE DEF B2
  <2>9. fr[m-r].size \in Nat BY <2>8, SizesAssumption
  <2>10. A[m] = O[Len(ns)] - O[k] + F[m-r]
    <3> DEFINE p == O[Len(ns)] - O[k]
               q == F[(m-1)-r]
               z == fr[m-r].size
    <3>1. A[m] = (p + q) + z /\ F[m-r] = q + z BY <2>6, <2>7, <2>8, Zenon
    <3>2. p \in Int /\ q \in Nat /\ z \in Nat BY <2>8, <2>9, <1>3
    <3> HIDE DEF p, q, z
    <3>3. (p + q) + z = p + (q + z) BY <3>2
    <3>4. A[m] = p + F[m-r] BY <3>1, <3>3, Zenon
    <3> QED BY <3>4 DEF p
  <2> QED BY <2>10, <2>2
<1>8. \A i \in 0..r : A[i] = O[k+i] - O[k] BY <1>5
<1>9. \A i \in r..r+Len(fr) : A[i] = O[Len(ns)] - O[k] + F[i-r] BY <1>7
<1> QED BY <1>8, <1>9 DEF r, all, O, F, A

--------------------------------------------------------------------------------

(* Arithmetic modulo b: an integer is quotient times b plus remainder. *)
LEMMA DivMod ==
  ASSUME NEW b \in Nat \ {0}, NEW x \in Int
  PROVE  /\ x % b \in 0..b-1
         /\ x \div b \in Int
         /\ x = b * (x \div b) + (x % b)
  OBVIOUS

(* The remainder is the only one. *)
LEMMA ModUnique ==
  ASSUME NEW b \in Nat \ {0}, NEW x \in Int, NEW q \in Int, NEW r \in 0..b-1, x = b*q + r
  PROVE  x % b = r
<1> DEFINE p == x \div b
           s == x % b
<1>1. p \in Int /\ s \in 0..b-1 /\ b*p + s = b*q + r BY DivMod
<1> HIDE DEF p, s
<1> DEFINE d == p - q
<1>2. d \in Int /\ b * d = r - s BY <1>1
<1>3. b * d < b /\ -b < b * d BY <1>1, <1>2
<1>4. d = 0
  <2> HIDE DEF d
  <2>1. CASE d >= 1
    <3>1. b * d >= b BY <2>1, <1>2
    <3> QED BY <3>1, <1>3, <1>2
  <2>2. CASE d <= -1
    <3>1. b * d <= -b BY <2>2, <1>2
    <3> QED BY <3>1, <1>3, <1>2
  <2> QED BY <2>1, <2>2, <1>2
<1>5. p = q BY <1>4, <1>1
<1>6. s = r BY <1>5, <1>1
<1> QED BY <1>6 DEF s

(* A number below b is its own remainder. *)
LEMMA ModId == ASSUME NEW b \in Nat \ {0}, NEW x \in 0..b-1 PROVE x % b = x
  BY ModUnique, x = b*0 + x

(* A sum may be reduced after each addition. *)
LEMMA ModAdd ==
  ASSUME NEW b \in Nat \ {0}, NEW x \in Int, NEW y \in Int
  PROVE  ((x % b) + y) % b = (x + y) % b
<1> DEFINE p == x \div b
           r == x % b
           q == (x+y) \div b
           s == (x+y) % b
<1>1. p \in Int /\ r \in Int /\ x = b*p + r BY DivMod
<1>2. x + y \in Int OBVIOUS
<1>3. q \in Int /\ s \in 0..b-1 /\ x + y = b*q + s BY <1>2, DivMod
<1> HIDE DEF p, r, q, s
<1>4. r + y \in Int /\ q - p \in Int BY <1>1, <1>3
<1>5. r + y = b*(q-p) + s BY <1>1, <1>3
<1>6. (r + y) % b = s BY <1>3, <1>4, <1>5, ModUnique
<1> QED BY <1>6 DEF r, s

--------------------------------------------------------------------------------

(* What the constants allow. *)
LEMMA Sizes ==
  /\ BufSize \in Nat \ {0} /\ WinSize \in Nat /\ Mss \in Nat \ {0} /\ Slots \in Nat \ {0}
  /\ Mss <= WinSize /\ WinSize < BufSize /\ MaxStream \in Nat
  /\ \A c \in Chunks : c \in 0..Mss
  BY SizesAssumption

(* The acknowledged front of a list ends before its first packet that is   *)
(* not acknowledged (checkWindow's first loop).                            *)
LEMMA AckedPrefixFacts ==
  ASSUME NEW ns \in Seq(Node)
  PROVE  /\ AckedPrefix(ns) \in 0..Len(ns)
         /\ \A i \in 1..AckedPrefix(ns) : ns[i].ack = Acked
         /\ AckedPrefix(ns) < Len(ns) => ns[AckedPrefix(ns)+1].ack # Acked
<1> DEFINE T == {k \in 0..Len(ns) : k < Len(ns) => ns[k+1].ack # Acked}
<1>1. Len(ns) \in Nat OBVIOUS
<1>2. Len(ns) \in T BY <1>1
<1>3. PICK k \in T : \A y \in T : k <= y
  <2>1. T \in SUBSET Nat BY <1>1
  <2> HIDE DEF T
  <2> QED BY <1>2, <2>1, NatMin
<1>4. k \in 0..Len(ns) /\ (k < Len(ns) => ns[k+1].ack # Acked) OBVIOUS
<1>5. \A i \in 1..k : ns[i].ack = Acked
  <2> SUFFICES ASSUME NEW i \in 1..k PROVE ns[i].ack = Acked OBVIOUS
  <2>1. i - 1 \in 0..Len(ns) /\ ~(k <= i-1) /\ i-1 < Len(ns) /\ (i-1)+1 = i BY <1>1, <1>4
  <2>2. i - 1 \notin T
    <3> HIDE DEF T
    <3> QED BY <2>1, <1>3
  <2> QED BY <2>1, <2>2
<1> QED BY <1>4, <1>5 DEF AckedPrefix

(* How many packets cut gap bytes. *)
Cuts(gap) == IF gap > 0 THEN (gap + Mss - 1) \div Mss ELSE 0

(* The packets but the last one are full, and the last one is not empty. *)
LEMMA CutsFacts ==
  ASSUME NEW gap \in Int
  PROVE  /\ Cuts(gap) \in Nat
         /\ gap <= 0 => Cuts(gap) = 0
         /\ gap > 0 => /\ Cuts(gap) \in 1..gap
                       /\ gap <= Cuts(gap) * Mss
                       /\ \A j \in 1..Cuts(gap) : (j-1) * Mss \in 0..gap-1
<1>1. CASE gap <= 0 BY <1>1 DEF Cuts
<1>2. CASE gap > 0
  <2> DEFINE n == (gap + Mss - 1) \div Mss
             r == (gap + Mss - 1) % Mss
  <2>1. gap + Mss - 1 \in Int BY Sizes
  <2>2. n \in Int /\ r \in 0..Mss-1 /\ gap + Mss - 1 = Mss * n + r BY <2>1, Sizes, DivMod
  <2> HIDE DEF n, r
  <2>3. Mss * n >= gap /\ Mss * n <= gap + Mss - 1 BY <2>2, Sizes
  <2>4. n >= 1
    <3> SUFFICES ASSUME n <= 0 PROVE FALSE BY <2>2
    <3>1. Mss * n <= 0 BY <2>2, Sizes
    <3> QED BY <3>1, <2>3, <1>2, <2>2, Sizes
  <2>5. \A j \in 1..n : (j-1) * Mss \in 0..gap-1
    <3> SUFFICES ASSUME NEW j \in 1..n PROVE (j-1) * Mss \in 0..gap-1 OBVIOUS
    <3>1. (j-1) * Mss \in Nat BY Sizes
    <3>2. (j-1) * Mss <= (n-1) * Mss BY <2>2, Sizes
    <3>3. (n-1) * Mss = Mss * n - Mss BY <2>2, Sizes
    <3>4. Mss * n \in Int BY <2>2, Sizes
    <3> QED BY <3>1, <3>2, <3>3, <3>4, <2>3, Sizes
  <2>6. n <= gap
    <3>1. (n-1) * Mss >= n-1 BY <2>2, <2>4, Sizes
    <3>2. (n-1) * Mss \in 0..gap-1 BY <2>5, <2>4, <2>2
    <3> QED BY <3>1, <3>2, <2>2
  <2>7. Cuts(gap) = n BY <1>2 DEF Cuts, n
  <2>8. n * Mss = Mss * n BY <2>2, Sizes
  <2> QED BY <1>2, <2>2, <2>3, <2>4, <2>5, <2>6, <2>7, <2>8
<1> QED BY <1>1, <1>2

(* Addresses: Wrap reduces any integer to an address, may be applied after *)
(* each addition, and leaves an address alone.                             *)
LEMMA WrapFacts ==
  /\ \A x \in Int : Wrap(x) \in Address /\ Wrap(x) \in Int
  /\ \A x, y \in Int : Wrap(Wrap(x) + y) = Wrap(x + y)
  /\ \A x \in Address : Wrap(x) = x
<1>1. \A x \in Int : Wrap(x) \in Address /\ Wrap(x) \in Int
  BY Sizes, DivMod DEF Wrap, Address
<1>2. \A x, y \in Int : Wrap(Wrap(x) + y) = Wrap(x + y)
  BY Sizes, ModAdd DEF Wrap
<1>3. \A x \in Address : Wrap(x) = x
  BY Sizes, ModId DEF Wrap, Address
<1> QED BY <1>1, <1>2, <1>3

(* The packets checkWindow cuts: in sequence, each where the one before    *)
(* ends, unsent, and together as long as the gap they fill.                *)
LEMMA FreshFacts ==
  ASSUME NEW from \in Address, NEW gap \in Int, packseq \in Nat
  PROVE  LET fr == Fresh(from, gap)
         IN  /\ fr \in Seq(Node)
             /\ Len(fr) = Cuts(gap)
             /\ Offsets(fr)[Len(fr)] = IF gap > 0 THEN gap ELSE 0
             /\ \A j \in 1..Len(fr) :
                  /\ fr[j].seqnum = packseq + j - 1
                  /\ fr[j].data = Wrap(from + Offsets(fr)[j-1])
                  /\ fr[j].ack = Unsent
             /\ \A j \in 1..Len(fr)-1 : fr[j].size = Mss
<1> DEFINE n  == Cuts(gap)
           fr == Fresh(from, gap)
           at == [j \in 0..n |-> IF gap > 0 THEN Least(j * Mss, gap) ELSE 0]
<1>1. /\ n \in Nat
      /\ gap <= 0 => n = 0
      /\ gap > 0 => n \in 1..gap /\ gap <= n * Mss /\ \A j \in 1..n : (j-1) * Mss \in 0..gap-1
  BY CutsFacts
<1>2. fr = [j \in 1..n |-> [seqnum |-> packseq + j - 1,
                            data   |-> Wrap(from + (j-1) * Mss),
                            size   |-> Least(Mss, gap - (j-1) * Mss),
                            ack    |-> Unsent]]
  BY DEF Fresh, Cuts
<1> HIDE DEF n, fr
<1>3. ASSUME NEW j \in 1..n PROVE fr[j] \in Node
  <2>1. gap > 0 /\ (j-1) * Mss \in 0..gap-1 /\ j \in Nat /\ j >= 1
    BY <1>1
  <2> DEFINE a == (j-1) * Mss
  <2>2. a \in 0..gap-1 BY <2>1
  <2>3. fr[j] = [seqnum |-> packseq + j - 1, data |-> Wrap(from + a),
                 size |-> Least(Mss, gap - a), ack |-> Unsent]
    BY <1>2
  <2> HIDE DEF a
  <2>4. Least(Mss, gap - a) \in 1..Mss BY <2>2, Sizes DEF Least
  <2>5. Wrap(from + a) \in Address
    <3>1. from + a \in Int BY <2>2 DEF Address
    <3> QED BY <3>1, WrapFacts
  <2>6. packseq + j - 1 \in Nat BY <2>1
  <2> QED BY <2>3, <2>4, <2>5, <2>6 DEF Node, Unsent
<1>4. fr \in Seq(Node) /\ Len(fr) = n
  BY <1>1, <1>2, <1>3
<1>5. IsSum(at, fr, n)
  <2>1. \A j \in 0..n : at[j] \in Nat
    <3> SUFFICES ASSUME NEW j \in 0..n, gap > 0 PROVE Least(j * Mss, gap) \in Nat OBVIOUS
    <3>1. j * Mss \in Nat BY <1>1, Sizes
    <3> QED BY <3>1 DEF Least
  <2>2. at[0] = 0 BY <1>1, Sizes DEF Least
  <2>3. ASSUME NEW j \in 1..n PROVE at[j] = at[j-1] + fr[j].size
    <3>1. gap > 0 /\ (j-1) * Mss \in 0..gap-1 /\ j-1 \in 0..n /\ j \in 0..n BY <1>1
    <3>2. j * Mss = (j-1) * Mss + Mss BY <1>1, Sizes
    <3>3. fr[j].size = Least(Mss, gap - (j-1) * Mss) BY <1>2
    <3>4. at[j] = Least((j-1) * Mss + Mss, gap) /\ at[j-1] = Least((j-1) * Mss, gap)
      BY <3>1, <3>2
    <3> DEFINE a == (j-1) * Mss
    <3>5. a \in 0..gap-1 /\ at[j] = Least(a + Mss, gap) /\ at[j-1] = Least(a, gap)
          /\ fr[j].size = Least(Mss, gap - a)
      BY <3>1, <3>3, <3>4
    <3> HIDE DEF a, at
    <3> QED BY <3>5, Sizes DEF Least
  <2>4. at \in [0..n -> Nat] BY <2>1
  <2> HIDE DEF at
  <2> QED BY <2>2, <2>3, <2>4 DEF IsSum
<1>6. Offsets(fr) = at
  <2>1. IsSum(Offsets(fr), fr, n) BY <1>4, OffsetsIsSum
  <2> QED BY <1>1, <1>4, <1>5, <2>1, SumUnique
<1>7. at[n] = IF gap > 0 THEN gap ELSE 0
  <2>1. gap > 0 => gap <= n * Mss /\ n * Mss \in Int BY <1>1, Sizes
  <2> QED BY <2>1, <1>1 DEF Least
<1>8. ASSUME NEW j \in 1..n
      PROVE  /\ fr[j].seqnum = packseq + j - 1
             /\ fr[j].data = Wrap(from + Offsets(fr)[j-1])
             /\ fr[j].ack = Unsent
  <2>1. gap > 0 /\ (j-1) * Mss \in 0..gap-1 /\ j-1 \in 0..n BY <1>1
  <2>2. at[j-1] = (j-1) * Mss BY <2>1 DEF Least
  <2> QED BY <1>2, <1>6, <2>2
<1>9. ASSUME NEW j \in 1..n-1 PROVE fr[j].size = Mss
  <2>1. j \in 1..n /\ j + 1 \in 1..n /\ (j+1)-1 = j /\ gap > 0 BY <1>1
  <2> DEFINE a == (j-1) * Mss
  <2>2. j * Mss \in 0..gap-1 /\ a \in Int /\ j * Mss = a + Mss
    <3>1. j * Mss = (j-1) * Mss + Mss /\ (j-1) * Mss \in Int BY <2>1, Sizes
    <3> QED BY <3>1, <2>1, <1>1
  <2>3. fr[j].size = Least(Mss, gap - a) BY <2>1, <1>2
  <2> HIDE DEF a
  <2> QED BY <2>2, <2>3, Sizes DEF Least
<1> QED BY <1>4, <1>6, <1>7, <1>8, <1>9 DEF n, fr

--------------------------------------------------------------------------------

(* The packets of ns tile the ring from stream byte base on, and carry the *)
(* last numbers before ps.                                                 *)
Tiles(ns, base, ps) ==
  \A i \in 1..Len(ns) : /\ ns[i].data = Wrap(base + Offsets(ns)[i-1])
                        /\ ns[i].seqnum = ps - Len(ns) + i - 1

(* spaceLeft() is a number of bytes of the ring. *)
LEMMA SpaceLeftRange ==
  ASSUME NEW start \in Address, NEW end \in 0..BufSize, NEW empty \in BOOLEAN
  PROVE  SpaceLeft(start, end, empty) \in 0..BufSize
<1>1. CASE end < start BY <1>1, Sizes DEF SpaceLeft, Address
<1>2. CASE start < end BY <1>2, Sizes DEF SpaceLeft, Address
<1>3. CASE start = end
  <2>1. SpaceLeft(start, end, empty) = IF empty THEN BufSize ELSE 0
    BY <1>3, Sizes DEF SpaceLeft, Address
  <2> QED BY <2>1, Sizes
<1> QED BY <1>1, <1>2, <1>3 DEF Address

(* How many bytes the window should cover: what is stored, up to WinSize. *)
Wanted(start, end, empty) == Least(BufSize - SpaceLeft(start, end, empty), WinSize)

(* The distance from start to an address at most WinSize further on is     *)
(* what it should be, also when the ring's end lies between the two.       *)
LEMMA Distance ==
  ASSUME NEW start \in Address, NEW want \in 0..WinSize
  PROVE  Wrap(Wrap(start + want) - start) = want
<1> DEFINE w == Wrap(start + want)
<1>1. start \in Int /\ want \in Int /\ start + want \in Int /\ -start \in Int BY Sizes DEF Address
<1>2. w \in Int BY <1>1, WrapFacts
<1>3. w - start = w + (-start) BY <1>1, <1>2
<1>4. Wrap(w + (-start)) = Wrap((start + want) + (-start)) BY <1>1, WrapFacts
<1>5. (start + want) + (-start) = want BY <1>1
<1>6. want \in Address BY Sizes DEF Address
<1>7. Wrap(want) = want BY <1>6, WrapFacts
<1> HIDE DEF w
<1>8. Wrap(w - start) = want BY <1>3, <1>4, <1>5, <1>7
<1> QED BY <1>8 DEF w

(* The packet that checkWindow cuts first starts where the list ends.      *)
LEMMA EndOfList ==
  ASSUME NEW ns \in Seq(Node), NEW base \in Nat, NEW ps \in Nat, Tiles(ns, base, ps), Len(ns) > 0
  PROVE  Wrap(ns[Len(ns)].data + ns[Len(ns)].size) = Wrap(base + Offsets(ns)[Len(ns)])
<1> DEFINE n == Len(ns)
           o == Offsets(ns)[n-1]
           z == ns[n].size
<1>1. n \in 1..n /\ n - 1 \in 0..n OBVIOUS
<1>2. o \in Nat /\ z \in 1..Mss /\ Offsets(ns)[n] = o + z BY <1>1, OffsetsStep
<1>3. ns[n].data = Wrap(base + o) BY <1>1 DEF Tiles
<1>4. base + o \in Int /\ z \in Int BY <1>2, Sizes
<1>5. (base + o) + z = base + (o + z) BY <1>2, <1>4
<1> HIDE DEF o, z, n
<1>6. Wrap(Wrap(base + o) + z) = Wrap((base + o) + z) BY <1>4, WrapFacts
<1>7. Wrap(ns[n].data + z) = Wrap(base + Offsets(ns)[n]) BY <1>2, <1>3, <1>5, <1>6
<1> QED BY <1>7 DEF n, z

(* A list that loses its front and gains packets cut where it ends tiles   *)
(* the ring from the first packet that is left.                            *)
LEMMA RestTiles ==
  ASSUME NEW ns \in Seq(Node), NEW base \in Nat, NEW ps \in Nat, Tiles(ns, base, ps),
         NEW k \in 0..Len(ns), NEW from \in Address, NEW fr \in Seq(Node),
         from = Wrap(base + Offsets(ns)[Len(ns)]),
         \A j \in 1..Len(fr) : /\ fr[j].seqnum = ps + j - 1
                               /\ fr[j].data = Wrap(from + Offsets(fr)[j-1])
  PROVE  Tiles(SubSeq(ns, k+1, Len(ns)) \o fr, base + Offsets(ns)[k], ps + Len(fr))
<1> DEFINE n   == Len(ns)
           O   == Offsets(ns)
           F   == Offsets(fr)
           all == SubSeq(ns, k+1, n) \o fr
           A   == Offsets(all)
<1>0. n \in Nat /\ k \in 0..n /\ Len(fr) \in Nat OBVIOUS
<1>1. /\ Len(all) = n - k + Len(fr)
      /\ \A i \in 1..n-k : all[i] = ns[k+i]
      /\ \A i \in n-k+1..n-k+Len(fr) : all[i] = fr[i - (n-k)]
  BY RestOf, SMTT(30)
<1>2. /\ \A i \in 0..n-k : A[i] = O[k+i] - O[k]
      /\ \A i \in n-k..n-k+Len(fr) : A[i] = O[n] - O[k] + F[i - (n-k)]
  BY OffsetsOfRest
<1>3. O[n] \in Nat /\ \A i \in 0..n : O[i] \in Nat BY OffsetsStep
<1>4. \A i \in 0..Len(fr) : F[i] \in Nat BY OffsetsStep
<1>5. \A i \in 1..n : ns[i].data = Wrap(base + O[i-1]) /\ ns[i].seqnum = ps - n + i - 1
  BY DEF Tiles
<1>6. \A j \in 1..Len(fr) : fr[j].seqnum = ps + j - 1 /\ fr[j].data = Wrap(Wrap(base + O[n]) + F[j-1])
  OBVIOUS
<1> HIDE DEF n, O, F, all
<1>7. Tiles(all, base + O[k], ps + Len(fr)) <=>
        \A i \in 1..Len(all) : /\ all[i].data = Wrap(base + O[k] + A[i-1])
                               /\ all[i].seqnum = ps + Len(fr) - Len(all) + i - 1
  BY DEF Tiles
<1> HIDE DEF A
<1>8. ASSUME NEW i \in 1..Len(all)
      PROVE  /\ all[i].data = Wrap(base + O[k] + A[i-1])
             /\ all[i].seqnum = ps + Len(fr) - Len(all) + i - 1
  <2>1. CASE i <= n - k
    <3>1. i \in 1..n-k /\ i-1 \in 0..n-k /\ k+i \in 1..n /\ k + (i-1) = k+i-1 /\ k+i-1 \in 0..n
      BY <2>1, <1>0, <1>1
    <3>2. all[i] = ns[k+i] /\ A[i-1] = O[k+i-1] - O[k] BY <3>1, <1>1, <1>2
    <3>3. ns[k+i].data = Wrap(base + O[k+i-1]) /\ ns[k+i].seqnum = ps - n + (k+i) - 1
      BY <3>1, <1>5, SMTT(30)
    <3>4. base + O[k] + (O[k+i-1] - O[k]) = base + O[k+i-1] BY <3>1, <1>0, <1>3
    <3>5. ps + Len(fr) - Len(all) + i - 1 = ps - n + (k+i) - 1 BY <3>1, <1>0, <1>1
    <3> QED BY <3>2, <3>3, <3>4, <3>5
  <2>2. CASE ~(i <= n - k)
    <3> DEFINE j == i - (n-k)
    <3>1. i \in n-k+1..n-k+Len(fr) /\ j \in 1..Len(fr) /\ i-1 \in n-k..n-k+Len(fr)
          /\ (i-1) - (n-k) = j-1 /\ j-1 \in 0..Len(fr)
      BY <2>2, <1>0, <1>1, SMTT(30)
    <3>2. all[i] = fr[j] /\ A[i-1] = O[n] - O[k] + F[j-1] BY <3>1, <1>1, <1>2
    <3>3. F[j-1] \in Nat /\ O[n] \in Nat /\ O[k] \in Nat BY <3>1, <1>0, <1>3, <1>4
    <3>4. Wrap(Wrap(base + O[n]) + F[j-1]) = Wrap((base + O[n]) + F[j-1])
      <4> HIDE DEF j
      <4>1. base + O[n] \in Int /\ F[j-1] \in Int BY <3>3
      <4>2. \A x, y \in Int : Wrap(Wrap(x) + y) = Wrap(x + y) BY WrapFacts
      <4> QED BY <4>1, <4>2, Zenon
    <3>5. (base + O[n]) + F[j-1] = base + O[k] + (O[n] - O[k] + F[j-1])
      <4> DEFINE p == O[n]
                 q == O[k]
                 z == F[j-1]
      <4>1. p \in Int /\ q \in Int /\ z \in Int BY <3>3
      <4> HIDE DEF p, q, z
      <4>2. (base + p) + z = base + q + (p - q + z) BY <4>1
      <4> QED BY <4>2, Zenon DEF p, q, z
    <3>6. ps + j - 1 = ps + Len(fr) - Len(all) + i - 1 BY <3>1, <1>0, <1>1, SMTT(30)
    <3>7. fr[j].seqnum = ps + j - 1 /\ fr[j].data = Wrap(Wrap(base + O[n]) + F[j-1])
      BY <3>1, <1>6
    <3> HIDE DEF j
    <3>8. all[i].data = Wrap(base + O[k] + A[i-1]) BY <3>2, <3>4, <3>5, <3>7
    <3> QED BY <3>2, <3>6, <3>7, <3>8
  <2> QED BY <2>1, <2>2
<1> QED BY <1>7, <1>8 DEF all, n, O

(* checkWindow() keeps the tiling: what it releases from the front moves   *)
(* the base by as many bytes, what it cuts goes on where the list ends.    *)
(* Afterwards the list covers what it should, unless it covered more; what *)
(* is new in it is Unsent, and full but for its last packet.               *)
LEMMA CheckWindowTiles ==
  ASSUME NEW ns \in Seq(Node), NEW end \in 0..BufSize, NEW empty \in BOOLEAN,
         packseq \in Nat, acked \in Nat, dstart = Wrap(acked),
         Tiles(ns, acked, packseq), Len(ns) < packseq,
         CheckWindow(ns, end, empty)
  PROVE  LET k     == AckedPrefix(ns)
             gone  == Offsets(ns)[k]
             left  == Offsets(ns)[Len(ns)] - gone
             empt  == empty \/ (k > 0 /\ k = Len(ns))
             want  == Wanted(Wrap(acked + gone), end, empt)
         IN  /\ gone \in Nat /\ left \in Nat /\ want \in 0..WinSize
             /\ acked' = acked + gone
             /\ dstart' = Wrap(acked') /\ dstart' \in Address
             /\ isEmpty' = StillEmpty(dstart', end, empt)
             /\ nodes' \in Seq(Node)
             /\ packseq' \in Nat /\ packseq <= packseq' /\ Len(nodes') < packseq'
             /\ Tiles(nodes', acked', packseq')
             /\ Offsets(nodes')[Len(nodes')] = IF left < want THEN want ELSE left
             /\ Len(nodes') > 0 => nodes'[1].ack # Acked
             /\ \E fr \in Seq(Node) : /\ nodes' = SubSeq(ns, k+1, Len(ns)) \o fr
                                      /\ packseq' = packseq + Len(fr)
                                      /\ \A j \in 1..Len(fr) : fr[j].ack = Unsent
                                      /\ \A j \in 1..Len(fr)-1 : fr[j].size = Mss
<1> DEFINE k     == AckedPrefix(ns)
           O     == Offsets(ns)
           n     == Len(ns)
           rest  == SubSeq(ns, k+1, n)
           start == Wrap(acked + O[k])
           empt  == empty \/ (k > 0 /\ k = n)
           want  == Wanted(start, end, empt)
           gap   == want - (O[n] - O[k])
           from  == Wrap(acked + O[n])
           fr    == Fresh(from, gap)
           all   == rest \o fr
<1>0. /\ k \in 0..n /\ n \in Nat
      /\ k < n => ns[k+1].ack # Acked
  BY AckedPrefixFacts
<1>1. O[n] \in Nat /\ O[k] \in Nat /\ O[k] <= O[n]
  <2>1. n \in 0..n /\ k <= n BY <1>0
  <2> QED BY <1>0, <2>1, OffsetsStep, OffsetsMonotonic
<1>2. start = Wrap(dstart + O[k]) /\ start \in Address /\ from \in Address
  <2> DEFINE o == O[k]
             p == O[n]
  <2>1. acked \in Int /\ o \in Int /\ p \in Int /\ acked + o \in Int /\ acked + p \in Int BY <1>1
  <2> HIDE DEF o, p
  <2>2. Wrap(Wrap(acked) + o) = Wrap(acked + o) /\ Wrap(acked + o) \in Address
        /\ Wrap(acked + p) \in Address
    BY <2>1, WrapFacts
  <2> QED BY <2>2 DEF o, p
<1>3. want \in 0..WinSize /\ empt \in BOOLEAN
  <2>1. empt \in BOOLEAN OBVIOUS
  <2> HIDE DEF empt, start
  <2>2. SpaceLeft(start, end, empt) \in 0..BufSize BY <1>2, <2>1, SpaceLeftRange
  <2> QED BY <2>1, <2>2, Sizes DEF Wanted, Least
<1>4. gap \in Int BY <1>1, <1>3
<1>5. /\ rest \in Seq(Node) /\ Len(rest) = n - k
      /\ \A i \in 1..n-k : rest[i] = ns[k+i]
  BY <1>0, RestIsSeq
<1>6. from = IF rest = <<>> THEN start ELSE Wrap(rest[Len(rest)].data + rest[Len(rest)].size)
  <2>1. CASE k = n
    <3>1. rest = <<>> BY <1>5, <1>0, <2>1
    <3> QED BY <2>1, <3>1
  <2>2. CASE k # n
    <3>1. n - k \in 1..n-k /\ k + (n-k) = n /\ n > 0 BY <1>0, <2>2
    <3>2. rest # <<>> /\ rest[Len(rest)] = ns[n] BY <1>5, <3>1
    <3>3. Wrap(ns[n].data + ns[n].size) = from BY <3>1, EndOfList
    <3> HIDE DEF rest, from
    <3> QED BY <3>2, <3>3
  <2> QED BY <2>1, <2>2
<1>7. /\ dstart' = start /\ isEmpty' = StillEmpty(start, end, empt) /\ nodes' = all
      /\ packseq' = packseq + Len(fr) /\ acked' = acked + O[k]
  <2> DEFINE L == Least(BufSize - SpaceLeft(start, end, empt), WinSize)
             f == IF rest = <<>> THEN start ELSE Wrap(rest[Len(rest)].data + rest[Len(rest)].size)
             w == Wrap(Wrap(start + L) - start)
             c == Fresh(f, w - (O[n] - O[k]))
  <2>1. /\ dstart' = start /\ isEmpty' = StillEmpty(start, end, empt) /\ nodes' = rest \o c
        /\ packseq' = packseq + Len(c) /\ acked' = acked + O[k]
    BY <1>2 DEF CheckWindow
  <2>2. L = want BY DEF Wanted
  <2>3. w = want
    <3> HIDE DEF want, start, L
    <3> QED BY <1>2, <1>3, <2>2, Distance
  <2>4. f = from BY <1>6
  <2>5. c = fr
    <3> HIDE DEF want, start, f, w, from, O, n
    <3> QED BY <2>3, <2>4
  <2> QED BY <2>1, <2>5
<1>8. /\ fr \in Seq(Node) /\ Len(fr) \in Nat
      /\ Offsets(fr)[Len(fr)] = IF gap > 0 THEN gap ELSE 0
      /\ \A j \in 1..Len(fr) : /\ fr[j].seqnum = packseq + j - 1
                               /\ fr[j].data = Wrap(from + Offsets(fr)[j-1])
                               /\ fr[j].ack = Unsent
      /\ \A j \in 1..Len(fr)-1 : fr[j].size = Mss
  <2> HIDE DEF from, gap
  <2>1. /\ fr \in Seq(Node)
        /\ Offsets(fr)[Len(fr)] = IF gap > 0 THEN gap ELSE 0
        /\ \A j \in 1..Len(fr) : /\ fr[j].seqnum = packseq + j - 1
                                 /\ fr[j].data = Wrap(from + Offsets(fr)[j-1])
                                 /\ fr[j].ack = Unsent
        /\ \A j \in 1..Len(fr)-1 : fr[j].size = Mss
    BY <1>2, <1>4, FreshFacts
  <2>2. Len(fr) \in Nat
    <3> HIDE DEF fr
    <3> QED BY <2>1
  <2> QED BY <2>1, <2>2
<1>9. /\ all \in Seq(Node) /\ Len(all) = n - k + Len(fr)
      /\ \A i \in 1..n-k : all[i] = ns[k+i]
      /\ \A i \in n-k+1..n-k+Len(fr) : all[i] = fr[i - (n-k)]
      /\ Offsets(all)[n-k+Len(fr)] = O[n] - O[k] + Offsets(fr)[Len(fr)]
  <2> HIDE DEF fr
  <2>1. n-k+Len(fr) \in n-k..n-k+Len(fr) /\ n-k+Len(fr) - (n-k) = Len(fr) BY <1>0, <1>8
  <2>2. fr \in Seq(Node) BY <1>8
  <2>3. /\ all \in Seq(Node) /\ Len(all) = n - k + Len(fr)
        /\ \A i \in 1..n-k : all[i] = ns[k+i]
        /\ \A i \in n-k+1..n-k+Len(fr) : all[i] = fr[i - (n-k)]
    <3>1. k \in 0..Len(ns) BY <1>0
    <3> HIDE DEF k, O
    <3> QED BY <3>1, <2>2, RestOf, SMTT(30)
  <2>4. \A i \in n-k..n-k+Len(fr) :
          Offsets(all)[i] = O[n] - O[k] + Offsets(fr)[i-(n-k)]
    BY <1>0, <2>2, OffsetsOfRest
  <2> DEFINE i == n-k+Len(fr)
  <2>5. Offsets(all)[i] = O[n] - O[k] + Offsets(fr)[i-(n-k)] BY <2>1, <2>4
  <2>6. i - (n-k) = Len(fr)
    <3> HIDE DEF n, k
    <3> QED BY <1>0, <1>8
  <2> HIDE DEF all, n, O, i, k
  <2>7. Offsets(all)[i] = O[n] - O[k] + Offsets(fr)[Len(fr)] BY <2>5, <2>6
  <2> QED BY <2>3, <2>7 DEF i
<1>10. Tiles(all, acked + O[k], packseq + Len(fr))
  <2> HIDE DEF fr, from
  <2>1. from = Wrap(acked + Offsets(ns)[Len(ns)]) BY DEF from
  <2> QED BY <1>0, <1>2, <1>8, <2>1, RestTiles
<1>b. \E f \in Seq(Node) : /\ nodes' = rest \o f /\ packseq' = packseq + Len(f)
                           /\ \A j \in 1..Len(f) : f[j].ack = Unsent
                           /\ \A j \in 1..Len(f)-1 : f[j].size = Mss
  <2> HIDE DEF fr, rest
  <2> QED BY <1>7, <1>8
<1> HIDE DEF k, O, n, rest, fr, from, want, start, empt
<1>11. Offsets(all)[Len(all)] = IF O[n] - O[k] < want THEN want ELSE O[n] - O[k]
  BY <1>9, <1>8, <1>1, <1>3
<1> HIDE DEF all, gap
<1>12. Len(all) > 0 => all[1].ack # Acked
  <2> SUFFICES ASSUME Len(all) > 0 PROVE all[1].ack # Acked OBVIOUS
  <2>1. CASE k < n
    <3>1. 1 \in 1..n-k BY <2>1, <1>0
    <3> QED BY <3>1, <2>1, <1>0, <1>9
  <2>2. CASE ~(k < n)
    <3>1. n - k = 0 /\ 1 \in n-k+1..n-k+Len(fr) /\ 1 - (n-k) = 1 /\ 1 \in 1..Len(fr)
      BY <2>2, <1>0, <1>8, <1>9
    <3>2. all[1] = fr[1] /\ fr[1].ack = Unsent BY <3>1, <1>8, <1>9
    <3> QED BY <3>2 DEF Unsent, Acked
  <2> QED BY <2>1, <2>2
<1>13. packseq + Len(fr) \in Nat /\ packseq <= packseq + Len(fr) /\ Len(all) < packseq + Len(fr)
  BY <1>0, <1>8, <1>9 DEF n
<1>14. O[n] - O[k] \in Nat /\ dstart' = Wrap(acked') BY <1>1, <1>7 DEF start
<1> QED
  <2>1. /\ O[k] \in Nat /\ O[n] - O[k] \in Nat /\ want \in 0..WinSize
        /\ acked' = acked + O[k]
        /\ dstart' = Wrap(acked') /\ dstart' \in Address
        /\ isEmpty' = StillEmpty(dstart', end, empt)
        /\ nodes' \in Seq(Node)
        /\ packseq' \in Nat /\ packseq <= packseq' /\ Len(nodes') < packseq'
        /\ Tiles(nodes', acked', packseq')
        /\ Offsets(nodes')[Len(nodes')] = IF O[n] - O[k] < want THEN want ELSE O[n] - O[k]
        /\ Len(nodes') > 0 => nodes'[1].ack # Acked
    BY <1>1, <1>2, <1>3, <1>7, <1>9, <1>10, <1>11, <1>12, <1>13, <1>14
  <2> QED BY <2>1, <1>b DEF k, n, O, want, start, empt, rest

================================================================================
