------------------------------ MODULE CBufferSent ------------------------------
(* What the send buffer hands to the network, and the clocks it runs for   *)
(* it, proved for every size: the packets are the stream cut into pieces,  *)
(* the same pieces however often they are sent, and every packet in flight *)
(* has one clock.                                                          *)
EXTENDS CBufferStream

(* first says where the stream is cut: packet num begins with byte         *)
(* first[num], and no packet is empty.  The packets of ns, cut from byte   *)
(* base on, have the last numbers before ps.                               *)
CutAt(first, ns, base, ps) ==
  /\ first \in [1..ps -> Nat] /\ first[1] = 0
  /\ \A num \in 1..ps-1 : first[num] < first[num+1]
  /\ \A i \in 0..Len(ns) : first[ps - Len(ns) + i] = base + Offsets(ns)[i]

(* Packet num of a stream that is cut so. *)
Piece(first, num) ==
  [seq |-> num, payload |-> [j \in 1..first[num+1]-first[num] |-> first[num] + j - 1]]

SentPieces(first) ==
  ~misread /\ fault = "none" => \A p \in sent : p = Piece(first, p.seq)

(* The inductive invariant: there are such cuts.  No variable records them *)
(* all, for a released packet is forgotten; they never move.               *)
StreamInv ==
  /\ KeptInv
  /\ \E first : CutAt(first, nodes, acked, packseq) /\ SentPieces(first)

(* checkWindow adds cuts behind the last one and moves none. *)
LEMMA CheckWindowCuts ==
  ASSUME NEW ns \in Seq(Node), NEW end \in 0..BufSize, NEW empty \in BOOLEAN,
         packseq \in Nat \ {0}, acked \in Nat, dstart = Wrap(acked),
         Tiles(ns, acked, packseq), Len(ns) < packseq,
         CheckWindow(ns, end, empty),
         NEW first, CutAt(first, ns, acked, packseq)
  PROVE  \E g : CutAt(g, nodes', acked', packseq') /\ \A num \in 1..packseq : g[num] = first[num]
<1> DEFINE k == AckedPrefix(ns)
           n == Len(ns)
           O == Offsets(ns)
<1>1. PICK fr \in Seq(Node) : nodes' = SubSeq(ns, k+1, n) \o fr /\ packseq' = packseq + Len(fr)
  BY CheckWindowTiles
<1>2. acked' = acked + O[k] BY CheckWindowTiles
<1>3. k \in 0..n /\ n \in Nat /\ Len(fr) \in Nat BY AckedPrefixFacts
<1> DEFINE all == SubSeq(ns, k+1, n) \o fr
           A == Offsets(all)
           F == Offsets(fr)
           r == n - k
           q == packseq
           m == Len(fr)
           c == first[q]
           g == [num \in 1..q+m |-> IF num <= q THEN first[num] ELSE c + F[num-q]]
<1>4. /\ \A i \in 0..r : A[i] = O[k+i] - O[k]
      /\ \A i \in r..r+m : A[i] = O[n] - O[k] + F[i-r]
  BY <1>3, OffsetsOfRest
<1>5. Len(all) = r + m BY <1>3, RestOf
<1>6. \A i \in 0..n : O[i] \in Nat BY OffsetsStep
<1>7. /\ F[0] = 0 /\ \A i \in 0..m : F[i] \in Nat
      /\ \A i \in 1..m : F[i] = F[i-1] + fr[i].size /\ fr[i].size \in 1..Mss
  BY OffsetsStep
<1> HIDE DEF A, F, O, all, k, n
<1>8. /\ first \in [1..q -> Nat] /\ first[1] = 0
      /\ \A num \in 1..q-1 : first[num] < first[num+1]
      /\ \A i \in 0..n : first[q - n + i] = acked + O[i]
  BY DEF CutAt, n, O
<1>9. q \in Nat /\ q >= 1 /\ n < q /\ m \in Nat /\ r \in Nat /\ k + r = n BY <1>3 DEF n
<1>10. c \in Nat /\ c = acked + O[n]
  <2>1. q \in 1..q /\ n \in 0..n /\ q - n + n = q BY <1>9, <1>3
  <2> QED BY <2>1, <1>8
<1> HIDE DEF r, m, c
<1>11. \A num \in 1..q : g[num] = first[num] BY <1>9
<1>12. \A i \in 0..m : g[q+i] = c + F[i]
  <2> SUFFICES ASSUME NEW i \in 0..m PROVE g[q+i] = c + F[i] OBVIOUS
  <2>1. q + i \in 1..q+m /\ (q + i) - q = i BY <1>9
  <2>2. CASE i = 0
    <3>1. q + i = q /\ q \in 1..q BY <2>2, <1>9
    <3>2. g[q+i] = c BY <3>1, <1>11 DEF c
    <3> QED BY <3>2, <2>2, <1>7, <1>10
  <2>3. CASE i # 0
    <3>1. ~(q + i <= q) BY <2>3, <1>9
    <3> QED BY <3>1, <2>1
  <2> QED BY <2>2, <2>3
<1>13. g \in [1..q+m -> Nat]
  <2>1. ASSUME NEW num \in 1..q+m PROVE g[num] \in Nat
    <3>1. CASE num <= q
      <4>1. num \in 1..q BY <3>1, <1>9
      <4> QED BY <4>1, <1>8, <1>11
    <3>2. CASE ~(num <= q)
      <4>1. num - q \in 0..m /\ q + (num - q) = num BY <3>2, <1>9
      <4>2. g[num] = c + F[num-q] BY <4>1, <1>12
      <4>3. F[num-q] \in Nat BY <4>1, <1>7
      <4> QED BY <4>2, <4>3, <1>10
    <3> QED BY <3>1, <3>2
  <2>2. g = [num \in 1..q+m |-> g[num]] OBVIOUS
  <2> HIDE DEF g
  <2> QED BY <2>1, <2>2
<1> HIDE DEF g
<1>14. g[1] = 0
  <2>1. 1 \in 1..q BY <1>9
  <2> QED BY <2>1, <1>8, <1>11
<1>15. \A num \in 1..q+m-1 : g[num] < g[num+1]
  <2> SUFFICES ASSUME NEW num \in 1..q+m-1 PROVE g[num] < g[num+1] OBVIOUS
  <2>1. CASE num < q
    <3>1. num \in 1..q-1 /\ num \in 1..q /\ num + 1 \in 1..q BY <2>1, <1>9
    <3>2. first[num] < first[num+1] BY <3>1, <1>8
    <3>3. g[num] = first[num] /\ g[num+1] = first[num+1] BY <3>1, <1>11
    <3> QED BY <3>2, <3>3
  <2>2. CASE ~(num < q)
    <3> DEFINE i == num + 1 - q
    <3>1. i \in 1..m /\ i - 1 \in 0..m /\ i \in 0..m /\ q + (i-1) = num /\ q + i = num + 1 BY <2>2, <1>9
    <3> HIDE DEF i
    <3>2. g[num] = c + F[i-1] /\ g[num+1] = c + F[i] BY <3>1, <1>12
    <3>3. F[i] = F[i-1] + fr[i].size /\ fr[i].size \in 1..Mss /\ F[i-1] \in Nat BY <3>1, <1>7
    <3>4. fr[i].size \in Nat /\ fr[i].size > 0 BY <3>3, Sizes, SMTT(30)
    <3> HIDE DEF F
    <3> QED BY <3>2, <3>3, <3>4, <1>10, SMTT(30)
  <2> QED BY <2>1, <2>2
<1>16. \A i \in 0..Len(all) : g[q + m - Len(all) + i] = (acked + O[k]) + A[i]
  <2> SUFFICES ASSUME NEW i \in 0..r+m PROVE g[q - r + i] = (acked + O[k]) + A[i]
    <3>1. \A i \in 0..r+m : q + m - (r + m) + i = q - r + i BY <1>9
    <3> QED BY <3>1, <1>5
  <2>1. O[k] \in Nat /\ O[n] \in Nat /\ acked \in Nat BY <1>3, <1>6
  <2>2. CASE i <= r
    <3>1. i \in 0..r /\ k + i \in 0..n /\ q - r + i \in 1..q /\ q - r + i = q - n + (k + i)
      BY <2>2, <1>3, <1>9
    <3>2. A[i] = O[k+i] - O[k] /\ O[k+i] \in Nat BY <3>1, <1>4, <1>6
    <3>3. g[q - r + i] = acked + O[k+i] BY <3>1, <1>8, <1>11
    <3> QED BY <2>1, <3>2, <3>3
  <2>3. CASE ~(i <= r)
    <3>1. i \in r..r+m /\ i - r \in 0..m /\ q - r + i = q + (i - r) BY <2>3, <1>9
    <3>2. A[i] = O[n] - O[k] + F[i-r] /\ F[i-r] \in Nat BY <3>1, <1>4, <1>7
    <3>3. g[q - r + i] = c + F[i-r] BY <3>1, <1>12
    <3> DEFINE f == F[i-r]
               on == O[n]
               ok == O[k]
    <3>4. A[i] = on - ok + f /\ f \in Nat /\ g[q - r + i] = acked + on + f BY <3>2, <3>3, <1>10
    <3>5. on \in Nat /\ ok \in Nat BY <2>1
    <3> HIDE DEF f, on, ok
    <3>6. acked + on + f = (acked + ok) + (on - ok + f) BY <3>4, <3>5, <2>1
    <3> QED BY <3>4, <3>6 DEF ok
  <2> QED BY <2>2, <2>3
<1>17. nodes' = all /\ packseq' = q + m /\ acked' = acked + O[k] BY <1>1, <1>2 DEF all, m, O, k, n
<1>18. CutAt(g, all, acked + O[k], q + m)
  <2>1. \A i \in 0..Len(all) : g[q + m - Len(all) + i] = (acked + O[k]) + Offsets(all)[i]
    BY <1>16 DEF A
  <2> DEFINE ps == q + m
             base == acked + O[k]
  <2>2. g \in [1..ps -> Nat] BY <1>13
  <2>3. g[1] = 0 BY <1>14
  <2>4. \A num \in 1..ps-1 : g[num] < g[num+1] BY <1>9, <1>15
  <2>5. \A i \in 0..Len(all) : g[ps - Len(all) + i] = base + Offsets(all)[i]
    <3>1. Len(all) \in Nat BY <1>5, <1>9
    <3> QED BY <2>1, <3>1, <1>9
  <2> HIDE DEF ps, base
  <2>6. CutAt(g, all, base, ps) BY <2>2, <2>3, <2>4, <2>5 DEF CutAt
  <2> QED BY <2>6 DEF base, ps
<1> QED BY <1>11, <1>17, <1>18

(* Packets marked are cut where they were. *)
LEMMA MarkedCuts ==
  ASSUME NEW ns \in Seq(Node), NEW I, NEW a \in {Unsent, Waiting, Acked},
         NEW first, NEW base, NEW ps, CutAt(first, ns, base, ps)
  PROVE  CutAt(first, Marked(ns, I, a), base, ps)
<1> DEFINE ms == Marked(ns, I, a)
<1>1. /\ ms \in Seq(Node) /\ Len(ms) = Len(ns)
      /\ \A i \in 1..Len(ns) : ms[i].size = ns[i].size
  BY MarkedFacts
<1> HIDE DEF ms
<1>2. Offsets(ms) = Offsets(ns) BY <1>1, OffsetsSameSizes
<1>3. CutAt(first, ms, base, ps) BY <1>1, <1>2 DEF CutAt
<1> QED BY <1>3 DEF ms

(* What was sent are still the pieces. *)
LEMMA SentStill ==
  ASSUME IInv, NEW first, SentPieces(first), NEW g, \A num \in 1..packseq : g[num] = first[num],
         misread => misread', fault # "none" => fault' # "none", UNCHANGED sent
  PROVE  ~misread' /\ fault' = "none" => \A p \in sent' : p = Piece(g, p.seq)
<1> SUFFICES ASSUME ~misread', fault' = "none", NEW p \in sent PROVE p = Piece(g, p.seq) OBVIOUS
<1>1. p = Piece(first, p.seq) BY DEF SentPieces
<1>2. p.seq \in 1..packseq-1 /\ packseq \in Nat BY IInvFacts
<1> DEFINE s == p.seq
<1>3. s \in 1..packseq /\ s+1 \in 1..packseq BY <1>2
<1> HIDE DEF s
<1>4. Piece(g, s) = Piece(first, s) BY <1>3 DEF Piece
<1> QED BY <1>1, <1>4 DEF s

(* The bytes a listed packet takes from the ring are its piece. *)
LEMMA PayloadIsPiece ==
  ASSUME KeptInv, ~misread, fault = "none", NEW first, CutAt(first, nodes, acked, packseq),
         NEW i \in 1..Len(nodes)
  PROVE  /\ nodes[i].seqnum \in 1..packseq-1
         /\ [seq |-> nodes[i].seqnum, payload |-> Payload(nodes[i])] = Piece(first, nodes[i].seqnum)
<1>0. IInv /\ CoverInv /\ UnackedBytesKept BY DEF KeptInv, CoverInv
<1>1. /\ nodes \in Seq(Node) /\ packseq \in Nat \ {0} /\ Len(nodes) \in Nat /\ Len(nodes) < packseq
      /\ Tiles(nodes, acked, packseq) /\ acked \in Nat
  BY <1>0, IInvFacts
<1> DEFINE n == Len(nodes)
           O == Offsets(nodes)
           s == nodes[i].seqnum
           z == nodes[i].size
           b == acked + O[i-1]
<1>2. i - 1 \in 0..n /\ i \in 0..n BY <1>1
<1>3. /\ O[i-1] \in Nat /\ O[i] \in Nat /\ O[n] \in Nat /\ O[i] = O[i-1] + z /\ z \in 1..Mss
      /\ O[i] <= O[n]
  <2>1. n \in 0..n /\ i <= n BY <1>1
  <2> QED BY <1>1, <1>2, <2>1, OffsetsStep, OffsetsMonotonic
<1>4. nodes[i].data = Wrap(b) /\ s = packseq - n + i - 1 BY <1>1 DEF Tiles
<1>5. s \in 1..packseq-1 /\ s = packseq - n + (i - 1) /\ s + 1 = packseq - n + i BY <1>1, <1>4
<1>6. first[s] = b /\ first[s+1] = acked + O[i] BY <1>2, <1>5 DEF CutAt
<1>7. b \in Nat /\ first[s+1] - first[s] = z
  <2> DEFINE o1 == O[i-1]
             o2 == O[i]
  <2>1. o1 \in Nat /\ o2 \in Nat /\ o2 = o1 + z /\ z \in Nat /\ b = acked + o1 /\ acked \in Nat
    BY <1>1, <1>3, Sizes
  <2>2. first[s] = b /\ first[s+1] = acked + o2 BY <1>6
  <2> HIDE DEF o1, o2, z, b, s, O, n
  <2>3. acked + o2 - b = z /\ b \in Nat BY <2>1
  <2>5. first[s+1] - first[s] = z BY <2>1, <2>2, <2>3
  <2> QED BY <2>3, <2>5
<1>8. b + z <= written
  <2>1. O[n] = Least(written - acked, WinSize) /\ written \in Nat BY <1>0, CoverFacts
  <2> DEFINE o1 == O[i-1]
             o2 == O[i]
             on == O[n]
  <2>2. /\ o1 \in Nat /\ o2 \in Nat /\ on \in Nat /\ o2 = o1 + z /\ z \in Nat /\ o2 <= on
        /\ b = acked + o1 /\ acked \in Nat /\ on = Least(written - acked, WinSize)
    BY <1>1, <1>3, <2>1, Sizes
  <2> HIDE DEF o1, o2, on, O, n, z, b
  <2>3. acked + on <= written BY <2>1, <2>2, Sizes DEF Least
  <2> QED BY <2>1, <2>2, <2>3
<1>9. \A j \in 1..z : cirbuffer[Wrap(nodes[i].data + j - 1)] = b + j - 1
  <2> SUFFICES ASSUME NEW j \in 1..z PROVE cirbuffer[Wrap(nodes[i].data + j - 1)] = b + j - 1 OBVIOUS
  <2>0. z \in Int BY <1>3, Sizes
  <2> HIDE DEF b, z, s, O, n
  <2>1. j \in Int /\ b + j - 1 = b + (j - 1) /\ j - 1 \in Int BY <2>0, <1>7
  <2>2. nodes[i].data + j - 1 = Wrap(b) + (j - 1)
    <3>1. Wrap(b) \in Int BY <1>7, WrapFacts
    <3> QED BY <3>1, <2>1, <1>4
  <2>3. Wrap(Wrap(b) + (j - 1)) = Wrap(b + (j - 1)) BY <2>1, <1>7, WrapFacts
  <2>4. b + j - 1 \in acked..written-1
    <3>1. acked <= b BY <1>1, <1>3 DEF b
    <3>2. written \in Nat BY <1>0, CoverFacts
    <3> QED BY <3>1, <3>2, <2>0, <1>1, <1>7, <1>8
  <2>5. cirbuffer[Wrap(b + j - 1)] = b + j - 1 BY <2>4, <1>0 DEF UnackedBytesKept
  <2> QED BY <2>1, <2>2, <2>3, <2>5
<1>10. Payload(nodes[i]) = [j \in 1..z |-> b + j - 1] BY <1>9 DEF Payload
<1> HIDE DEF b, z, s
<1>11. [seq |-> s, payload |-> Payload(nodes[i])] = Piece(first, s) BY <1>6, <1>7, <1>10 DEF Piece
<1> QED BY <1>5, <1>11 DEF s

--------------------------------------------------------------------------------

(* What has to be shown of a step. *)
LEMMA StreamNext ==
  ASSUME KeptInv', NEW g, CutAt(g, nodes', acked', packseq'),
         ~misread' /\ fault' = "none" => \A p \in sent' : p = Piece(g, p.seq)
  PROVE  StreamInv'
<1>1. SentPieces(g)' BY DEF SentPieces, Piece
<1>2. CutAt(g, nodes, acked, packseq)' BY DEF CutAt, Offsets
<1> QED BY <1>1, <1>2 DEF StreamInv

(* A step that runs checkWindow on ns, the list or the list with packets   *)
(* marked, and sends nothing.                                              *)
LEMMA WindowStep ==
  ASSUME IInv, KeptInv', NEW first, CutAt(first, nodes, acked, packseq), SentPieces(first),
         NEW I, NEW a \in {Unsent, Waiting, Acked}, NEW ns, ns = nodes \/ ns = Marked(nodes, I, a),
         NEW end \in 0..BufSize, NEW empty \in BOOLEAN, CheckWindow(ns, end, empty),
         misread => misread', fault # "none" => fault' # "none", UNCHANGED sent
  PROVE  StreamInv'
<1>1. /\ nodes \in Seq(Node) /\ packseq \in Nat \ {0} /\ acked \in Nat /\ dstart = Wrap(acked)
      /\ Tiles(nodes, acked, packseq) /\ Len(nodes) < packseq
  BY IInvFacts
<1>2. /\ ns \in Seq(Node) /\ Len(ns) = Len(nodes) /\ Tiles(ns, acked, packseq)
      /\ CutAt(first, ns, acked, packseq)
  <2>1. CASE ns = nodes BY <1>1, <2>1
  <2>2. CASE ns = Marked(nodes, I, a)
    <3>1. /\ ns \in Seq(Node) /\ Len(ns) = Len(nodes)
          /\ \A i \in 1..Len(nodes) : /\ ns[i].size = nodes[i].size
                                      /\ ns[i].data = nodes[i].data
                                      /\ ns[i].seqnum = nodes[i].seqnum
      BY <1>1, <2>2, MarkedFacts
    <3>2. CutAt(first, ns, acked, packseq) BY <1>1, <2>2, MarkedCuts
    <3>3. Tiles(ns, acked, packseq) BY <1>1, <3>1, SameTiles
    <3> QED BY <3>1, <3>2, <3>3
  <2> QED BY <2>1, <2>2
<1>3. Len(ns) < packseq BY <1>1, <1>2
<1>4. PICK g : CutAt(g, nodes', acked', packseq') /\ \A num \in 1..packseq : g[num] = first[num]
  BY <1>1, <1>2, <1>3, CheckWindowCuts
<1>5. ~misread' /\ fault' = "none" => \A p \in sent' : p = Piece(g, p.seq) BY <1>4, SentStill
<1> QED BY <1>4, <1>5, StreamNext

(* A step that neither cuts nor sends. *)
LEMMA StillStep ==
  ASSUME IInv, KeptInv', NEW first, CutAt(first, nodes, acked, packseq), SentPieces(first),
         UNCHANGED <<acked, packseq, sent>>,
         \/ UNCHANGED nodes
         \/ \E I : \E a \in {Unsent, Waiting} : nodes' = Marked(nodes, I, a),
         misread => misread', fault # "none" => fault' # "none"
  PROVE  StreamInv'
<1>1. CutAt(first, nodes', acked', packseq')
  <2>1. CASE UNCHANGED nodes BY <2>1
  <2>2. CASE \E I : \E a \in {Unsent, Waiting} : nodes' = Marked(nodes, I, a)
    <3>1. PICK I, a : a \in {Unsent, Waiting} /\ nodes' = Marked(nodes, I, a) BY <2>2
    <3>2. CutAt(first, Marked(nodes, I, a), acked, packseq) BY <3>1, IInvFacts, MarkedCuts
    <3> QED BY <3>1, <3>2
  <2> QED BY <2>1, <2>2
<1>2. ~misread' /\ fault' = "none" => \A p \in sent' : p = Piece(first, p.seq) BY DEF SentPieces
<1> QED BY <1>1, <1>2, StreamNext

(* sendWindow sends pieces of the stream and nothing else. *)
LEMMA SendStep ==
  ASSUME KeptInv, KeptInv', NEW first, CutAt(first, nodes, acked, packseq), SentPieces(first),
         SendWindow
  PROVE  StreamInv'
<1>0. IInv BY DEF KeptInv, CoverInv
<1>1. /\ sent' = sent \cup {[seq |-> nodes[i].seqnum, payload |-> Payload(nodes[i])] : i \in Outgoing}
      /\ nodes' = Marked(nodes, Outgoing, Waiting)
      /\ UNCHANGED <<packseq, acked, misread>> /\ fault = "none"
  BY DEF SendWindow, Running
<1>2. CutAt(first, nodes', acked', packseq')
  <2>1. CutAt(first, Marked(nodes, Outgoing, Waiting), acked, packseq) BY <1>0, IInvFacts, MarkedCuts
  <2> QED BY <1>1, <2>1
<1>3. ASSUME ~misread', NEW p \in sent' PROVE p = Piece(first, p.seq)
  <2>1. ~misread BY <1>1, <1>3
  <2>2. CASE p \in sent BY <1>1, <2>1, <2>2 DEF SentPieces
  <2>3. CASE p \notin sent
    <3>1. PICK i \in Outgoing : p = [seq |-> nodes[i].seqnum, payload |-> Payload(nodes[i])]
      BY <1>1, <1>3, <2>3
    <3>2. i \in 1..Len(nodes) BY DEF Outgoing
    <3>3. p = Piece(first, nodes[i].seqnum) BY <1>1, <2>1, <3>1, <3>2, PayloadIsPiece
    <3>4. p.seq = nodes[i].seqnum BY <3>1
    <3> QED BY <3>3, <3>4
  <2> QED BY <2>2, <2>3
<1> QED BY <1>2, <1>3, StreamNext

(* The stream begins with byte 0. *)
LEMMA InitStream == Init => StreamInv
<1> SUFFICES ASSUME Init PROVE StreamInv OBVIOUS
<1>1. nodes = <<>> /\ packseq = 1 /\ acked = 0 /\ sent = {} BY DEF Init
<1> DEFINE first == [num \in 1..1 |-> 0]
<1>2. CutAt(first, nodes, acked, packseq)
  <2>1. first \in [1..1 -> Nat] /\ first[1] = 0 OBVIOUS
  <2>2. 1..1-1 = {} /\ 0..0 = {0} OBVIOUS
  <2>3. Len(nodes) = 0 /\ Offsets(nodes)[0] = 0 BY <1>1, EmptyList
  <2>4. \A i \in 0..Len(nodes) : first[1 - Len(nodes) + i] = 0 + Offsets(nodes)[i]
    BY <2>1, <2>2, <2>3
  <2> HIDE DEF first
  <2> QED BY <1>1, <2>1, <2>2, <2>4 DEF CutAt
<1>3. SentPieces(first) BY <1>1 DEF SentPieces
<1> QED BY <1>2, <1>3, InitKept DEF StreamInv

(* Every step keeps the cuts. *)
LEMMA NextStream == StreamInv /\ [Next]_vars => StreamInv'
<1> SUFFICES ASSUME StreamInv, [Next]_vars PROVE StreamInv' OBVIOUS
<1>0. KeptInv /\ KeptInv' /\ IInv /\ IInv' BY NextKept DEF StreamInv, KeptInv, CoverInv
<1>1. PICK first : CutAt(first, nodes, acked, packseq) /\ SentPieces(first) BY DEF StreamInv
<1>2. dend \in 0..BufSize /\ dend' \in 0..BufSize /\ isEmpty \in BOOLEAN
  BY <1>0 DEF IInv, TypeOK
<1>3. ASSUME NEW size \in Chunks, AddData(size) PROVE StreamInv'
  <2>1. CheckWindow(nodes, dend', FALSE) /\ (misread => misread') /\ UNCHANGED <<fault, sent>>
    BY <1>3 DEF AddData
  <2> QED BY <1>0, <1>1, <1>2, <2>1, WindowStep
<1>4. ASSUME NEW size \in Chunks, AddDataFull(size) PROVE StreamInv'
  <2>1. /\ CheckWindow(nodes, dend, StillEmpty(dstart, dend, isEmpty))
        /\ UNCHANGED <<fault, sent, misread>>
    BY <1>4 DEF AddDataFull
  <2>2. StillEmpty(dstart, dend, isEmpty) \in BOOLEAN BY DEF StillEmpty
  <2> QED BY <1>0, <1>1, <1>2, <2>1, <2>2, WindowStep
<1>5. ASSUME NEW num \in 1..packseq-1, RecvACK(num) PROVE StreamInv'
  <2>1. fault = "none" /\ UNCHANGED sent BY <1>5 DEF RecvACK, Running
  <2>2. CASE Numbered(num) # {}
    <3>1. CheckWindow(Marked(nodes, Numbered(num), Acked), dend, isEmpty) /\ (misread => misread')
      BY <1>5, <2>2 DEF RecvACK
    <3> QED BY <1>0, <1>1, <1>2, <2>1, <3>1, WindowStep
  <2>3. CASE Numbered(num) = {}
    <3>1. UNCHANGED <<nodes, packseq, acked, misread>> BY <1>5, <2>3 DEF RecvACK
    <3> QED BY <1>0, <1>1, <2>1, <3>1, StillStep
  <2> QED BY <2>2, <2>3
<1>6. ASSUME NEW num \in 1..packseq-1, RecvACKCrash(num) PROVE StreamInv'
  <2>1. UNCHANGED <<nodes, packseq, acked, misread, sent>> /\ fault' = "crashed"
    BY <1>6 DEF RecvACKCrash, history
  <2> QED BY <1>0, <1>1, <2>1, StillStep
<1>7. ASSUME NEW bsn \in 1..packseq-1, TimerExpire(bsn) PROVE StreamInv'
  <2>1. nodes' = Marked(nodes, Numbered(bsn), Unsent) /\ UNCHANGED <<packseq, acked, misread, sent, fault>>
    BY <1>7 DEF TimerExpire, history
  <2> QED BY <1>0, <1>1, <2>1, StillStep
<1>8. ASSUME SendWindow PROVE StreamInv' BY <1>0, <1>1, <1>8, SendStep
<1>9. ASSUME UNCHANGED vars PROVE StreamInv'
  <2>1. UNCHANGED <<nodes, packseq, acked, misread, sent, fault>> BY <1>9 DEF vars, bufVars, history
  <2> QED BY <1>0, <1>1, <2>1, StillStep
<1> QED BY <1>3, <1>4, <1>5, <1>6, <1>7, <1>8, <1>9 DEF Next

(* pay holds the bytes from byte from up to byte to, which it leaves out. *)
IsRun(pay, from, to) ==
  /\ Len(pay) = to - from /\ Len(pay) \in Nat \ {0}
  /\ \A j \in 1..Len(pay) : pay[j] = from + j - 1

(* A piece is such a run. *)
LEMMA PiecesFit ==
  ASSUME NEW first, NEW ps \in Nat, first \in [1..ps -> Nat], NEW num \in 1..ps-1,
         first[num] < first[num+1]
  PROVE  IsRun(Piece(first, num).payload, first[num], first[num+1])
<1> DEFINE pay == Piece(first, num).payload
           len == first[num+1] - first[num]
<1>1. num \in 1..ps /\ num + 1 \in 1..ps OBVIOUS
<1>2. first[num] \in Nat /\ first[num+1] \in Nat BY <1>1
<1>3. len \in Nat \ {0} BY <1>2
<1>4. pay = [j \in 1..len |-> first[num] + j - 1] BY DEF Piece
<1> HIDE DEF len, pay
<1>5. pay \in Seq(Int)
  <2>1. pay \in [1..len -> Int] BY <1>2, <1>3, <1>4
  <2> QED BY <1>3, <2>1
<1>6. Len(pay) = len BY <1>3, <1>4, <1>5
<1>7. \A j \in 1..Len(pay) : pay[j] = first[num] + j - 1 BY <1>4, <1>6
<1> QED BY <1>3, <1>6, <1>7 DEF IsRun, len, pay

(* What the network was given is the stream: the pieces come one after the *)
(* other from byte 0 on, and a packet sent again is the packet sent        *)
(* before, whatever was released, stored or cut in between, as long as     *)
(* spaceLeft has not misread the ring (requestData, sendWindow).           *)
THEOREM StreamIsSent == Spec => []SentIsTheStream
<1>1. StreamInv => SentIsTheStream
  <2> SUFFICES ASSUME StreamInv, ~misread, fault = "none", NEW a \in sent, NEW b \in sent
               PROVE  /\ \A j \in 1..Len(a.payload) : a.payload[j] = a.payload[1] + j - 1
                      /\ a.seq = 1 => a.payload[1] = 0
                      /\ a.seq = b.seq => a = b
                      /\ a.seq + 1 = b.seq => b.payload[1] = a.payload[Len(a.payload)] + 1
    BY DEF SentIsTheStream
  <2>0. IInv BY DEF StreamInv, KeptInv, CoverInv
  <2>1. PICK first : CutAt(first, nodes, acked, packseq) /\ SentPieces(first) BY DEF StreamInv
  <2>2. a = Piece(first, a.seq) /\ b = Piece(first, b.seq) BY <2>1 DEF SentPieces
  <2> DEFINE s == a.seq
             t == b.seq
             A == Piece(first, s).payload
             B == Piece(first, t).payload
  <2>3. s \in 1..packseq-1 /\ t \in 1..packseq-1 /\ packseq \in Nat BY <2>0, IInvFacts
  <2>4. /\ first \in [1..packseq -> Nat] /\ first[1] = 0
        /\ \A num \in 1..packseq-1 : first[num] < first[num+1]
    BY <2>1 DEF CutAt
  <2>a. \A num \in 1..packseq-1 : IsRun(Piece(first, num).payload, first[num], first[num+1])
    BY <2>3, <2>4, PiecesFit
  <2>5. /\ Len(A) = first[s+1] - first[s] /\ Len(A) \in Nat \ {0}
        /\ \A j \in 1..Len(A) : A[j] = first[s] + j - 1
    BY <2>3, <2>a DEF IsRun
  <2>6. Len(B) \in Nat \ {0} /\ \A j \in 1..Len(B) : B[j] = first[t] + j - 1
    BY <2>3, <2>a DEF IsRun
  <2>7. a.payload = A /\ b.payload = B BY <2>2
  <2>8. first[s] \in Nat /\ first[s+1] \in Nat /\ first[t] \in Nat
    <3>1. s \in 1..packseq /\ s + 1 \in 1..packseq /\ t \in 1..packseq BY <2>3
    <3> QED BY <3>1, <2>4
  <2>9. a.seq = b.seq => a = b BY <2>2
  <2> HIDE DEF A, B, s, t
  <2>10. A[1] = first[s] /\ B[1] = first[t]
    <3>1. 1 \in 1..Len(A) /\ 1 \in 1..Len(B) BY <2>5, <2>6
    <3>2. A[1] = first[s] + 1 - 1 /\ B[1] = first[t] + 1 - 1 BY <3>1, <2>5, <2>6
    <3> QED BY <3>2, <2>8
  <2>11. \A j \in 1..Len(A) : A[j] = A[1] + j - 1 BY <2>5, <2>10
  <2>12. s = 1 => A[1] = 0 BY <2>4, <2>10
  <2>13. s + 1 = t => B[1] = A[Len(A)] + 1
    <3>1. Len(A) \in 1..Len(A) BY <2>5
    <3>2. A[Len(A)] = first[s] + Len(A) - 1 BY <3>1, <2>5
    <3>3. A[Len(A)] + 1 = first[s+1] BY <3>2, <2>5, <2>8
    <3> QED BY <3>3, <2>10
  <2> QED BY <2>7, <2>9, <2>11, <2>12, <2>13 DEF s, t
<1> QED BY <1>1, InitStream, NextStream, PTL DEF Spec

--------------------------------------------------------------------------------

(* How many of T are not above x.  SendRank and FreeRank count so. *)
Upto(T, x) == Cardinality({j \in T : j <= x})

(* The count goes up by one at a member of T and nowhere else. *)
LEMMA UptoStep ==
  ASSUME NEW n \in Nat, NEW T \in SUBSET (1..n)
  PROVE  /\ IsFiniteSet(T) /\ Upto(T, 0) = 0 /\ Upto(T, n) = Cardinality(T)
         /\ \A x \in 0..n : Upto(T, x) \in Nat
         /\ \A x \in 1..n : Upto(T, x) = Upto(T, x-1) + (IF x \in T THEN 1 ELSE 0)
<1>1. IsFiniteSet(T)
  <2>1. IsFiniteSet(1..n) BY FS_Interval
  <2> QED BY <2>1, FS_Subset
<1> DEFINE S(x) == {j \in T : j <= x}
<1>2. \A x : IsFiniteSet(S(x)) /\ Cardinality(S(x)) \in Nat
  <2> SUFFICES ASSUME NEW x PROVE IsFiniteSet(S(x)) /\ Cardinality(S(x)) \in Nat OBVIOUS
  <2>1. S(x) \subseteq T OBVIOUS
  <2>2. IsFiniteSet(S(x)) BY <1>1, <2>1, FS_Subset
  <2> HIDE DEF S
  <2> QED BY <2>2, FS_CardinalityType
<1>m. \A j \in T : j \in Nat /\ 1 <= j /\ j <= n OBVIOUS
<1>3. S(0) = {} /\ S(n) = T
  <2>1. \A j \in T : ~(j <= 0) /\ j <= n BY <1>m
  <2> QED BY <2>1
<1>4. ASSUME NEW x \in 1..n
      PROVE  Cardinality(S(x)) = Cardinality(S(x-1)) + (IF x \in T THEN 1 ELSE 0)
  <2>1. CASE x \in T
    <3>1. \A j \in T : (j <= x <=> j <= x-1 \/ j = x) BY <1>m
    <3>2. ~(x <= x-1) /\ x <= x OBVIOUS
    <3>3. S(x) = S(x-1) \cup {x} /\ x \notin S(x-1) BY <2>1, <3>1, <3>2
    <3> HIDE DEF S
    <3> QED BY <3>3, <2>1, <1>2, FS_AddElement
  <2>2. CASE x \notin T
    <3>0. \A j \in T : (j <= x <=> j <= x-1) BY <1>m, <2>2
    <3>1. S(x) = S(x-1) BY <3>0
    <3>2. Cardinality(S(x-1)) \in Nat BY <1>2
    <3> HIDE DEF S
    <3> QED BY <3>1, <3>2, <2>2
  <2> QED BY <2>1, <2>2
<1>5. \A x : Upto(T, x) = Cardinality(S(x)) BY DEF Upto
<1>6. Cardinality(S(0)) = 0 BY <1>3, FS_EmptySet
<1> HIDE DEF S
<1> QED BY <1>1, <1>2, <1>3, <1>4, <1>5, <1>6

(* The count is monotonic, and a member counts more than what is below it. *)
LEMMA UptoMonotonic ==
  ASSUME NEW n \in Nat, NEW T \in SUBSET (1..n), NEW x \in 0..n, NEW y \in 0..n, x < y
  PROVE  Upto(T, x) <= Upto(T, y) /\ (y \in T => Upto(T, x) < Upto(T, y))
<1> DEFINE U(z) == Upto(T, z)
           B == {z \in 0..n : x <= z /\ ~(U(x) <= U(z))}
<1>1. /\ \A z \in 0..n : U(z) \in Nat
      /\ \A z \in 1..n : U(z) = U(z-1) + (IF z \in T THEN 1 ELSE 0)
  BY UptoStep
<1> HIDE DEF U
<1>2. B = {}
  <2> SUFFICES ASSUME B # {} PROVE FALSE OBVIOUS
  <2>1. PICK m \in B : \A z \in B : m <= z
    <3>1. B \in SUBSET Nat OBVIOUS
    <3> HIDE DEF B
    <3> QED BY <3>1, NatMin
  <2>2. m \in 0..n /\ x <= m /\ ~(U(x) <= U(m)) OBVIOUS
  <2>3. U(x) \in Nat /\ U(m) \in Nat BY <1>1, <2>2
  <2>4. m # x BY <2>2, <2>3
  <2>5. m - 1 \in 0..n /\ x <= m - 1 /\ m \in 1..n /\ m - 1 < m BY <2>2, <2>4
  <2>6. U(x) <= U(m-1)
    <3>1. m - 1 \notin B BY <2>1, <2>5
    <3> QED BY <3>1, <2>5
  <2>7. U(m) = U(m-1) + (IF m \in T THEN 1 ELSE 0) /\ U(m-1) \in Nat BY <1>1, <2>5
  <2> HIDE DEF B
  <2> QED BY <2>2, <2>3, <2>6, <2>7
<1>3. \A z \in 0..n : x <= z => U(x) <= U(z) BY <1>2
<1>4. y \in 1..n /\ y - 1 \in 0..n /\ x <= y - 1 /\ x <= y OBVIOUS
<1>5. U(x) <= U(y-1) /\ U(x) <= U(y) BY <1>3, <1>4
<1>6. U(y) = U(y-1) + (IF y \in T THEN 1 ELSE 0) BY <1>1, <1>4
<1>7. U(x) \in Nat /\ U(y-1) \in Nat BY <1>1, <1>4
<1>8. U(x) <= U(y) /\ (y \in T => U(x) < U(y)) BY <1>5, <1>6, <1>7
<1> QED BY <1>8 DEF U

(* There is a member of every rank. *)
LEMMA UptoOnto ==
  ASSUME NEW n \in Nat, NEW T \in SUBSET (1..n), NEW r \in 1..Upto(T, n)
  PROVE  \E x \in T : Upto(T, x) = r
<1> DEFINE U(z) == Upto(T, z)
           B == {z \in 0..n : r <= U(z)}
<1>1. /\ \A z \in 0..n : U(z) \in Nat
      /\ \A z \in 1..n : U(z) = U(z-1) + (IF z \in T THEN 1 ELSE 0)
      /\ U(0) = 0
  BY UptoStep
<1>2. n \in 0..n /\ U(n) \in Nat BY <1>1
<1>3. r \in 1..U(n) OBVIOUS
<1> HIDE DEF U
<1>4. r \in Nat /\ r >= 1 /\ r <= U(n) BY <1>2, <1>3
<1>5. PICK x \in B : \A z \in B : x <= z
  <2>1. B \in SUBSET Nat /\ n \in B BY <1>2, <1>4
  <2> HIDE DEF B
  <2> QED BY <2>1, NatMin
<1>6. x \in 0..n /\ r <= U(x) OBVIOUS
<1>7. x # 0 BY <1>1, <1>4, <1>6
<1>8. x \in 1..n /\ x - 1 \in 0..n /\ x - 1 < x BY <1>6, <1>7
<1>9. ~(r <= U(x-1))
  <2>1. x - 1 \notin B BY <1>5, <1>8
  <2> QED BY <2>1, <1>8
<1>10. U(x) = U(x-1) + (IF x \in T THEN 1 ELSE 0) /\ U(x-1) \in Nat /\ U(x) \in Nat BY <1>1, <1>6, <1>8
<1>11. x \in T /\ U(x) = r BY <1>4, <1>6, <1>9, <1>10
<1> QED BY <1>11 DEF U

--------------------------------------------------------------------------------

(* The clocks of table pt are those of the packets of ns in flight. *)
Clocks(ns, pt) ==
  /\ \A i \in 1..Len(ns) : ns[i].ack = Waiting =>
       \E s \in 1..Slots :
         /\ pt[s].bsn = ns[i].seqnum /\ pt[s].on
         /\ \A t \in 1..Slots : pt[t].bsn = ns[i].seqnum /\ t # s => s < t /\ ~pt[t].on
  /\ \A s \in 1..Slots : pt[s].on =>
       \E i \in 1..Len(ns) : ns[i].seqnum = pt[s].bsn /\ ns[i].ack = Waiting

(* The two ways it is written, also of the next state. *)
LEMMA ClocksAre ==
  /\ OneClockPerPacketInFlight <=> (fault = "none" => Clocks(nodes, packtimes))
  /\ OneClockPerPacketInFlight' <=> (fault' = "none" => Clocks(nodes', packtimes'))
<1>1. OneClockPerPacketInFlight <=> (fault = "none" => Clocks(nodes, packtimes))
  BY DEF OneClockPerPacketInFlight, SlotsOf, Clocks
<1>2. OneClockPerPacketInFlight' <=> (fault' = "none" => Clocks(nodes', packtimes'))
  BY DEF OneClockPerPacketInFlight, SlotsOf, Clocks
<1> QED BY <1>1, <1>2

(* A number is that of one packet. *)
LEMMA NumbersDiffer ==
  ASSUME NEW ns \in Seq(Node), NEW base, NEW ps \in Nat, Tiles(ns, base, ps),
         NEW i \in 1..Len(ns), NEW j \in 1..Len(ns), ns[i].seqnum = ns[j].seqnum
  PROVE  i = j
<1>1. ns[i].seqnum = ps - Len(ns) + i - 1 /\ ns[j].seqnum = ps - Len(ns) + j - 1 BY DEF Tiles
<1> DEFINE l == Len(ns)
<1>2. l \in Nat /\ i \in Int /\ j \in Int OBVIOUS
<1>3. ps - l + i - 1 = ps - l + j - 1 BY <1>1
<1> HIDE DEF l
<1> QED BY <1>2, <1>3

(* checkWindow releases acknowledged packets and cuts unsent ones: none of *)
(* them has a clock.                                                       *)
LEMMA WindowClocks ==
  ASSUME NEW ns \in Seq(Node), NEW end \in 0..BufSize, NEW empty \in BOOLEAN,
         packseq \in Nat \ {0}, acked \in Nat, dstart = Wrap(acked),
         Tiles(ns, acked, packseq), Len(ns) < packseq,
         CheckWindow(ns, end, empty), NEW pt, Clocks(ns, pt)
  PROVE  Clocks(nodes', pt)
<1> DEFINE k == AckedPrefix(ns)
           n == Len(ns)
           r == n - k
<1>1. PICK fr \in Seq(Node) : /\ nodes' = SubSeq(ns, k+1, n) \o fr
                              /\ \A j \in 1..Len(fr) : fr[j].ack = Unsent
  BY CheckWindowTiles
<1>2. k \in 0..n /\ n \in Nat /\ Len(fr) \in Nat /\ \A i \in 1..k : ns[i].ack = Acked BY AckedPrefixFacts
<1> DEFINE all == SubSeq(ns, k+1, n) \o fr
           m == Len(fr)
<1> HIDE DEF k
<1>a. k \in 0..Len(ns) BY <1>2
<1>b. /\ Len(all) = Len(ns) - k + Len(fr)
      /\ \A i \in 1..Len(ns)-k : all[i] = ns[k+i]
      /\ \A i \in Len(ns)-k+1..Len(ns)-k+Len(fr) : all[i] = fr[i - (Len(ns)-k)]
  BY <1>a, RestOf, SMTT(30)
<1> HIDE DEF all
<1>3. /\ Len(all) = r + m
      /\ \A i \in 1..r : all[i] = ns[k+i]
      /\ \A i \in r+1..r+m : all[i] = fr[i-r]
  BY <1>b
<1>4. n = Len(ns) /\ m = Len(fr) /\ n \in Nat /\ m \in Nat /\ k \in 0..n BY <1>2
<1> HIDE DEF n, m
<1>5. ASSUME NEW i \in 1..Len(all), all[i].ack = Waiting
      PROVE  i \in 1..r /\ k + i \in 1..n /\ all[i] = ns[k+i]
  <2>1. CASE i <= r
    <3>1. i \in 1..r /\ k + i \in 1..n BY <2>1, <1>3, <1>4
    <3> QED BY <3>1, <1>3
  <2>2. CASE ~(i <= r)
    <3>1. i \in r+1..r+m /\ i - r \in 1..m BY <2>2, <1>3, <1>4, SMTT(30)
    <3>2. all[i].ack = Unsent BY <3>1, <1>1, <1>3 DEF m
    <3> QED BY <3>2, <1>5 DEF Unsent, Waiting
  <2> QED BY <2>1, <2>2
<1>6. ASSUME NEW j \in 1..n, ns[j].ack = Waiting
      PROVE  j - k \in 1..Len(all) /\ all[j-k] = ns[j]
  <2>1. ~(j <= k)
    <3> SUFFICES ASSUME j <= k PROVE FALSE OBVIOUS
    <3>1. j \in 1..k BY <1>4
    <3> QED BY <3>1, <1>2, <1>6 DEF Acked, Waiting
  <2>2. j - k \in 1..r /\ j - k \in 1..Len(all) /\ k + (j - k) = j BY <2>1, <1>3, <1>4
  <2> QED BY <2>2, <1>3
<1>7. nodes' = all BY <1>1 DEF all, k, n
<1> HIDE DEF r
<1>8. Clocks(all, pt)
  <2>1. ASSUME NEW i \in 1..Len(all), all[i].ack = Waiting
        PROVE  \E s \in 1..Slots :
                 /\ pt[s].bsn = all[i].seqnum /\ pt[s].on
                 /\ \A t \in 1..Slots : pt[t].bsn = all[i].seqnum /\ t # s => s < t /\ ~pt[t].on
    <3>1. k + i \in 1..Len(ns) /\ all[i] = ns[k+i] BY <1>5, <2>1, <1>4
    <3>2. PICK h \in 1..Len(ns) : all[i] = ns[h] BY <3>1
    <3>3. ns[h].ack = Waiting BY <2>1, <3>2
    <3>4. \E s \in 1..Slots :
            /\ pt[s].bsn = ns[h].seqnum /\ pt[s].on
            /\ \A t \in 1..Slots : pt[t].bsn = ns[h].seqnum /\ t # s => s < t /\ ~pt[t].on
      BY <3>3 DEF Clocks
    <3> QED BY <3>2, <3>4
  <2>2. ASSUME NEW s \in 1..Slots, pt[s].on
        PROVE  \E i \in 1..Len(all) : all[i].seqnum = pt[s].bsn /\ all[i].ack = Waiting
    <3>1. PICK j \in 1..Len(ns) : ns[j].seqnum = pt[s].bsn /\ ns[j].ack = Waiting BY <2>2 DEF Clocks
    <3>2. j - k \in 1..Len(all) /\ all[j-k] = ns[j] BY <3>1, <1>4, <1>6
    <3> QED BY <3>1, <3>2
  <2> QED BY <2>1, <2>2 DEF Clocks
<1> QED BY <1>7, <1>8

(* A clock stopped, with the packets of its number taken out of flight. *)
LEMMA StopKeeps ==
  ASSUME IInv, Clocks(nodes, packtimes), NEW num, NEW a \in {Unsent, Acked}, NEW pt,
         \A s \in 1..Slots : /\ pt[s].bsn = packtimes[s].bsn
                             /\ packtimes[s].bsn # num => pt[s].on = packtimes[s].on
                             /\ packtimes[s].bsn = num => ~pt[s].on
  PROVE  Clocks(Marked(nodes, Numbered(num), a), pt)
<1> DEFINE ms == Marked(nodes, Numbered(num), a)
<1>1. /\ ms \in Seq(Node) /\ Len(ms) = Len(nodes)
      /\ \A i \in 1..Len(nodes) : /\ ms[i].seqnum = nodes[i].seqnum
                                  /\ ms[i].ack = IF i \in Numbered(num) THEN a ELSE nodes[i].ack
  BY IInvFacts, MarkedFacts
<1> HIDE DEF ms
<1>2. \A i \in 1..Len(nodes) : ms[i].ack = Waiting <=> nodes[i].ack = Waiting /\ nodes[i].seqnum # num
  BY <1>1 DEF Numbered, Unsent, Acked, Waiting
<1>3. ASSUME NEW i \in 1..Len(ms), ms[i].ack = Waiting
      PROVE  \E s \in 1..Slots :
               /\ pt[s].bsn = ms[i].seqnum /\ pt[s].on
               /\ \A t \in 1..Slots : pt[t].bsn = ms[i].seqnum /\ t # s => s < t /\ ~pt[t].on
  <2>1. i \in 1..Len(nodes) /\ nodes[i].ack = Waiting /\ nodes[i].seqnum # num BY <1>1, <1>2, <1>3
  <2>2. PICK s \in 1..Slots :
               /\ packtimes[s].bsn = nodes[i].seqnum /\ packtimes[s].on
               /\ \A t \in 1..Slots : packtimes[t].bsn = nodes[i].seqnum /\ t # s => s < t /\ ~packtimes[t].on
    BY <2>1 DEF Clocks
  <2>3. ms[i].seqnum = nodes[i].seqnum BY <2>1, <1>1
  <2>4. pt[s].bsn = ms[i].seqnum /\ pt[s].on BY <2>1, <2>2, <2>3
  <2>5. ASSUME NEW t \in 1..Slots, pt[t].bsn = ms[i].seqnum, t # s
        PROVE  s < t /\ ~pt[t].on
    <3>1. packtimes[t].bsn = nodes[i].seqnum /\ packtimes[t].bsn # num BY <2>5, <2>3, <2>1
    <3>2. s < t /\ ~packtimes[t].on BY <3>1, <2>2, <2>5
    <3> QED BY <3>1, <3>2
  <2> QED BY <2>4, <2>5
<1>4. ASSUME NEW s \in 1..Slots, pt[s].on
      PROVE  \E i \in 1..Len(ms) : ms[i].seqnum = pt[s].bsn /\ ms[i].ack = Waiting
  <2>1. packtimes[s].bsn # num /\ packtimes[s].on BY <1>4
  <2>2. PICK i \in 1..Len(nodes) : nodes[i].seqnum = packtimes[s].bsn /\ nodes[i].ack = Waiting
    BY <2>1 DEF Clocks
  <2> QED BY <2>1, <2>2, <1>1, <1>2
<1>5. Clocks(ms, pt) BY <1>3, <1>4 DEF Clocks
<1> QED BY <1>5 DEF ms

(* The entries sendWindow gives away: every packet it sends gets one, no   *)
(* two the same, and the free ones before it go to other packets.          *)
LEMMA EntriesGiven ==
  ASSUME IInv, Cardinality(Outgoing) <= FreeRank(Slots)
  PROVE  /\ \A i \in Outgoing : \E s \in 1..Slots : GetsEntry(i, s)
         /\ \A i, j \in Outgoing : \A s \in 1..Slots : GetsEntry(i, s) /\ GetsEntry(j, s) => i = j
         /\ \A i \in Outgoing : \A s, t \in 1..Slots :
              GetsEntry(i, s) /\ t < s /\ ~packtimes[t].on =>
                \E j \in Outgoing : GetsEntry(j, t) /\ j # i
         /\ \A i \in Outgoing : \A s, t \in 1..Slots : GetsEntry(i, s) /\ GetsEntry(i, t) => s = t
<1> DEFINE Free == {t \in 1..Slots : ~packtimes[t].on}
           n == Len(nodes)
           out == Outgoing
           S(x) == Upto(out, x)
           F(x) == Upto(Free, x)
<1>1. n \in Nat /\ out \in SUBSET (1..n) /\ Slots \in Nat /\ Free \in SUBSET (1..Slots)
  BY IInvFacts, Sizes DEF Outgoing
<1>2. \A i \in out : SendRank(i) = S(i) BY DEF SendRank, Upto
<1>3. \A s \in 1..Slots : FreeRank(s) = F(s)
  <2> SUFFICES ASSUME NEW s \in 1..Slots PROVE FreeRank(s) = F(s) OBVIOUS
  <2>1. \A t : t \in 1..s /\ ~packtimes[t].on <=> t \in Free /\ t <= s BY <1>1
  <2>2. {t \in 1..s : ~packtimes[t].on} = {t \in Free : t <= s} BY <2>1
  <2> QED BY <2>2 DEF FreeRank, Upto
<1>4. \A i \in out : \A s \in 1..Slots : GetsEntry(i, s) <=> s \in Free /\ S(i) = F(s)
  BY <1>2, <1>3 DEF GetsEntry
<1>5. Cardinality(out) <= F(Slots)
  <2>1. Slots \in 1..Slots BY Sizes
  <2> QED BY <2>1, <1>3
<1> HIDE DEF Free, n, out
<1>6. /\ Upto(out, 0) = 0 /\ Upto(out, n) = Cardinality(out)
      /\ \A x \in 0..n : Upto(out, x) \in Nat
  BY <1>1, UptoStep
<1>7. Upto(Free, 0) = 0 /\ \A x \in 0..Slots : Upto(Free, x) \in Nat BY <1>1, UptoStep
<1>8. \A x, y \in 0..n : x < y => S(x) <= S(y) /\ (y \in out => S(x) < S(y)) BY <1>1, UptoMonotonic
<1>9. \A x, y \in 0..Slots : x < y => F(x) <= F(y) /\ (y \in Free => F(x) < F(y)) BY <1>1, UptoMonotonic
<1>10. \A r \in 1..S(n) : \E x \in out : S(x) = r BY <1>1, UptoOnto
<1>11. \A r \in 1..F(Slots) : \E x \in Free : F(x) = r BY <1>1, UptoOnto
<1>12. \A i \in out : i \in 1..n /\ i \in 0..n /\ S(i) \in Nat /\ 0 < S(i) /\ S(i) <= S(n)
  <2> SUFFICES ASSUME NEW i \in out
               PROVE  i \in 1..n /\ i \in 0..n /\ S(i) \in Nat /\ 0 < S(i) /\ S(i) <= S(n)
    OBVIOUS
  <2>1. i \in 1..n /\ i \in 0..n /\ 0 \in 0..n /\ n \in 0..n /\ 0 < i /\ i <= n BY <1>1
  <2>2. S(i) \in Nat /\ S(n) \in Nat BY <1>6, <2>1
  <2>3. 0 < S(i)
    <3>1. S(0) < S(i) BY <1>8, <2>1
    <3> QED BY <3>1, <1>6
  <2>4. CASE i = n BY <2>1, <2>2, <2>3, <2>4
  <2>5. CASE i # n
    <3>1. i < n BY <2>1, <2>5, <1>1
    <3>2. S(i) <= S(n) BY <3>1, <2>1, <1>8
    <3> QED BY <3>2, <2>1, <2>2, <2>3
  <2> QED BY <2>4, <2>5
<1>13. Slots \in 0..Slots /\ F(Slots) \in Nat /\ S(n) \in Nat /\ S(n) <= F(Slots)
  <2>1. n \in 0..n /\ Slots \in 0..Slots BY <1>1
  <2> QED BY <2>1, <1>5, <1>6, <1>7
<1> DEFINE u == S(n)
           v == F(Slots)
<1>14. \A s \in Free : s \in 1..Slots /\ s \in 0..Slots BY <1>1
<1>15. ASSUME NEW i \in out PROVE \E s \in 1..Slots : GetsEntry(i, s)
  <2> DEFINE r == S(i)
  <2>1. r \in Nat /\ 0 < r /\ r <= u /\ u \in Nat /\ v \in Nat /\ u <= v BY <1>12, <1>13
  <2> HIDE DEF r, u, v
  <2>2. r \in 1..v BY <2>1
  <2>3. PICK s \in Free : F(s) = r BY <2>2, <1>11 DEF v
  <2> QED BY <2>3, <1>4, <1>14 DEF r
<1>16. ASSUME NEW i \in out, NEW j \in out, NEW s \in 1..Slots, GetsEntry(i, s), GetsEntry(j, s)
       PROVE  i = j
  <2>1. S(i) = F(s) /\ S(j) = F(s) BY <1>4, <1>16
  <2>2. i \in 0..n /\ j \in 0..n /\ S(i) \in Nat BY <1>12
  <2>3. ~(i < j) /\ ~(j < i)
    <3>1. i < j => S(i) < S(j) BY <1>8, <2>2
    <3>2. j < i => S(j) < S(i) BY <1>8, <2>2
    <3>3. ~(S(i) < S(j)) /\ ~(S(j) < S(i)) BY <2>1, <2>2
    <3> QED BY <3>1, <3>2, <3>3
  <2> QED BY <2>2, <2>3, <1>1
<1>17. ASSUME NEW i \in out, NEW s \in 1..Slots, NEW t \in 1..Slots, GetsEntry(i, s), GetsEntry(i, t)
       PROVE  s = t
  <2>1. S(i) = F(s) /\ S(i) = F(t) /\ s \in Free /\ t \in Free BY <1>4, <1>17
  <2>2. s \in 0..Slots /\ t \in 0..Slots /\ S(i) \in Nat BY <1>12, <1>14, <2>1
  <2>3. ~(s < t) /\ ~(t < s)
    <3>1. s < t => F(s) < F(t) BY <1>9, <2>1, <2>2
    <3>2. t < s => F(t) < F(s) BY <1>9, <2>1, <2>2
    <3>3. ~(F(s) < F(t)) /\ ~(F(t) < F(s)) BY <2>1, <2>2
    <3> QED BY <3>1, <3>2, <3>3
  <2> QED BY <2>2, <2>3, <1>1
<1>18. ASSUME NEW i \in out, NEW s \in 1..Slots, NEW t \in 1..Slots, GetsEntry(i, s),
              t < s, ~packtimes[t].on
       PROVE  \E j \in out : GetsEntry(j, t) /\ j # i
  <2>1. S(i) = F(s) /\ s \in Free BY <1>4, <1>18
  <2>2. t \in Free BY <1>18 DEF Free
  <2>3. s \in 0..Slots /\ t \in 0..Slots /\ 0 \in 0..Slots /\ 0 < t BY <1>1
  <2> DEFINE r == F(t)
             q == S(i)
  <2>4. r \in Nat /\ q \in Nat /\ r < q /\ 0 < r /\ q <= u /\ u \in Nat
    <3>1. F(0) < F(t) /\ F(t) < F(s) BY <1>9, <1>18, <2>1, <2>2, <2>3
    <3>2. F(t) \in Nat /\ F(0) = 0 BY <1>7, <2>3
    <3> QED BY <3>1, <3>2, <2>1, <1>12, <1>13
  <2> HIDE DEF r, q, u
  <2>5. r \in 1..u /\ r # q BY <2>4
  <2>6. PICK j \in out : S(j) = r BY <2>5, <1>10 DEF u
  <2>7. GetsEntry(j, t) BY <2>2, <2>6, <1>4 DEF r
  <2>8. j # i BY <2>5, <2>6 DEF q
  <2> QED BY <2>7, <2>8
<1> QED BY <1>15, <1>16, <1>17, <1>18 DEF out

(* sendWindow starts one clock for each packet it sends, and none before   *)
(* it carries the packet's number: an old entry with that number is free,  *)
(* so the search for a free entry meets it first.                          *)
LEMMA SendClocks ==
  ASSUME IInv, Clocks(nodes, packtimes), SendWindow, fault' = "none"
  PROVE  Clocks(nodes', packtimes')
<1> DEFINE given(s) == {i \in Outgoing : GetsEntry(i, s)}
<1>1. /\ nodes' = Marked(nodes, Outgoing, Waiting)
      /\ packtimes' = [s \in 1..Slots |->
                         IF \E i \in Outgoing : GetsEntry(i, s)
                         THEN [bsn |-> nodes[CHOOSE i \in Outgoing : GetsEntry(i, s)].seqnum, on |-> TRUE]
                         ELSE packtimes[s]]
      /\ Cardinality(Outgoing) <= FreeRank(Slots)
  BY DEF SendWindow
<1>2. /\ \A i \in Outgoing : \E s \in 1..Slots : GetsEntry(i, s)
      /\ \A i, j \in Outgoing : \A s \in 1..Slots : GetsEntry(i, s) /\ GetsEntry(j, s) => i = j
      /\ \A i \in Outgoing : \A s, t \in 1..Slots :
           GetsEntry(i, s) /\ t < s /\ ~packtimes[t].on =>
             \E j \in Outgoing : GetsEntry(j, t) /\ j # i
      /\ \A i \in Outgoing : \A s, t \in 1..Slots : GetsEntry(i, s) /\ GetsEntry(i, t) => s = t
  BY <1>1, EntriesGiven
<1>3. /\ nodes \in Seq(Node) /\ Tiles(nodes, acked, packseq) /\ packseq \in Nat
      /\ \A i \in Outgoing : i \in 1..Len(nodes) /\ nodes[i].ack = Unsent
      /\ \A i \in 1..Len(nodes) : nodes[i].ack = Unsent => i \in Outgoing
  BY IInvFacts DEF Outgoing
<1>4. /\ Len(nodes') = Len(nodes)
      /\ \A i \in 1..Len(nodes) : /\ nodes'[i].seqnum = nodes[i].seqnum
                                  /\ nodes'[i].ack = IF i \in Outgoing THEN Waiting ELSE nodes[i].ack
  BY <1>1, <1>3, MarkedFacts
<1>5. ASSUME NEW s \in 1..Slots, NEW i \in Outgoing, GetsEntry(i, s)
      PROVE  packtimes'[s].bsn = nodes[i].seqnum /\ packtimes'[s].on
  <2>1. (CHOOSE j \in Outgoing : GetsEntry(j, s)) = i BY <1>2, <1>5
  <2>2. packtimes'[s] = [bsn |-> nodes[i].seqnum, on |-> TRUE] BY <1>1, <1>5, <2>1
  <2> QED BY <2>2
<1>6. ASSUME NEW s \in 1..Slots, ~ \E i \in Outgoing : GetsEntry(i, s)
      PROVE  packtimes'[s] = packtimes[s]
  BY <1>1, <1>6
<1>7. \A i, j \in 1..Len(nodes) : nodes[i].seqnum = nodes[j].seqnum => i = j
  BY <1>3, NumbersDiffer
<1>8. \A s \in 1..Slots : \A i \in Outgoing : GetsEntry(i, s) => ~packtimes[s].on BY DEF GetsEntry
(* An old entry with the number of a packet to be sent is free. *)
<1>9. ASSUME NEW i \in Outgoing, NEW t \in 1..Slots, packtimes[t].bsn = nodes[i].seqnum
      PROVE  ~packtimes[t].on
  <2> SUFFICES ASSUME packtimes[t].on PROVE FALSE OBVIOUS
  <2>1. PICK j \in 1..Len(nodes) : nodes[j].seqnum = packtimes[t].bsn /\ nodes[j].ack = Waiting
    BY DEF Clocks
  <2>2. j = i BY <2>1, <1>3, <1>7, <1>9
  <2> QED BY <2>1, <2>2, <1>3 DEF Unsent, Waiting
<1>10. ASSUME NEW i \in 1..Len(nodes), nodes'[i].ack = Waiting
       PROVE  \E s \in 1..Slots :
                /\ packtimes'[s].bsn = nodes[i].seqnum /\ packtimes'[s].on
                /\ \A t \in 1..Slots : packtimes'[t].bsn = nodes[i].seqnum /\ t # s => s < t /\ ~packtimes'[t].on
  <2>1. CASE i \in Outgoing
    <3>1. PICK s \in 1..Slots : GetsEntry(i, s) BY <2>1, <1>2
    <3>2. ASSUME NEW t \in 1..Slots, packtimes'[t].bsn = nodes[i].seqnum, t # s
          PROVE  s < t /\ ~packtimes'[t].on
      <4>1. ~ \E j \in Outgoing : GetsEntry(j, t)
        <5> SUFFICES ASSUME NEW j \in Outgoing, GetsEntry(j, t) PROVE FALSE OBVIOUS
        <5>1. packtimes'[t].bsn = nodes[j].seqnum BY <1>5
        <5>2. j = i BY <5>1, <3>2, <1>3, <1>7
        <5> QED BY <5>2, <3>1, <3>2, <1>2
      <4>2. packtimes'[t] = packtimes[t] BY <4>1, <1>6
      <4>3. ~packtimes[t].on BY <4>2, <3>2, <2>1, <1>9
      <4>4. ~(t < s) BY <4>1, <4>3, <3>1, <2>1, <1>2
      <4>5. t \in Int /\ s \in Int OBVIOUS
      <4>6. s < t BY <4>4, <4>5, <3>2
      <4> QED BY <4>2, <4>3, <4>6
    <3>3. packtimes'[s].bsn = nodes[i].seqnum /\ packtimes'[s].on BY <3>1, <2>1, <1>5
    <3> QED BY <3>2, <3>3
  <2>2. CASE i \notin Outgoing
    <3>1. nodes[i].ack = Waiting BY <2>2, <1>4, <1>10
    <3>2. PICK s \in 1..Slots :
            /\ packtimes[s].bsn = nodes[i].seqnum /\ packtimes[s].on
            /\ \A t \in 1..Slots : packtimes[t].bsn = nodes[i].seqnum /\ t # s => s < t /\ ~packtimes[t].on
      BY <3>1 DEF Clocks
    <3>3. packtimes'[s] = packtimes[s] BY <3>2, <1>6, <1>8
    <3>4. ASSUME NEW t \in 1..Slots, packtimes'[t].bsn = nodes[i].seqnum, t # s
          PROVE  s < t /\ ~packtimes'[t].on
      <4>1. ~ \E j \in Outgoing : GetsEntry(j, t)
        <5> SUFFICES ASSUME NEW j \in Outgoing, GetsEntry(j, t) PROVE FALSE OBVIOUS
        <5>1. packtimes'[t].bsn = nodes[j].seqnum BY <1>5
        <5>2. j = i BY <5>1, <3>4, <1>3, <1>7
        <5> QED BY <5>2, <2>2
      <4>2. packtimes'[t] = packtimes[t] BY <4>1, <1>6
      <4> QED BY <4>2, <3>2, <3>4
    <3> QED BY <3>2, <3>3, <3>4
  <2> QED BY <2>1, <2>2
<1>11. ASSUME NEW s \in 1..Slots, packtimes'[s].on
       PROVE  \E i \in 1..Len(nodes) : nodes[i].seqnum = packtimes'[s].bsn /\ nodes'[i].ack = Waiting
  <2>1. CASE \E i \in Outgoing : GetsEntry(i, s)
    <3>1. PICK i \in Outgoing : GetsEntry(i, s) BY <2>1
    <3>2. packtimes'[s].bsn = nodes[i].seqnum BY <3>1, <1>5
    <3> QED BY <3>2, <1>3, <1>4
  <2>2. CASE ~ \E i \in Outgoing : GetsEntry(i, s)
    <3>1. packtimes'[s] = packtimes[s] BY <2>2, <1>6
    <3>2. PICK i \in 1..Len(nodes) : nodes[i].seqnum = packtimes[s].bsn /\ nodes[i].ack = Waiting
      BY <3>1, <1>11 DEF Clocks
    <3>3. nodes'[i].ack = Waiting BY <3>2, <1>4
    <3> QED BY <3>1, <3>2, <3>3
  <2> QED BY <2>1, <2>2
<1>12. ASSUME NEW i \in 1..Len(nodes'), nodes'[i].ack = Waiting
       PROVE  \E s \in 1..Slots :
                /\ packtimes'[s].bsn = nodes'[i].seqnum /\ packtimes'[s].on
                /\ \A t \in 1..Slots : packtimes'[t].bsn = nodes'[i].seqnum /\ t # s => s < t /\ ~packtimes'[t].on
  BY <1>4, <1>10, <1>12
<1>13. ASSUME NEW s \in 1..Slots, packtimes'[s].on
       PROVE  \E i \in 1..Len(nodes') : nodes'[i].seqnum = packtimes'[s].bsn /\ nodes'[i].ack = Waiting
  BY <1>4, <1>11, <1>13
<1> QED BY <1>12, <1>13 DEF Clocks

(* The inductive invariant. *)
ClockInv == IInv /\ OneClockPerPacketInFlight

(* No packet, no clock. *)
LEMMA InitClocks == Init => ClockInv
<1> SUFFICES ASSUME Init PROVE ClockInv OBVIOUS
<1>1. nodes = <<>> /\ packtimes = [i \in 1..Slots |-> [bsn |-> 0, on |-> FALSE]] BY DEF Init
<1>2. Len(nodes) = 0 /\ \A s \in 1..Slots : ~packtimes[s].on BY <1>1
<1>3. Clocks(nodes, packtimes) BY <1>2 DEF Clocks
<1> QED BY <1>3, ClocksAre, InitIInv DEF ClockInv

(* Every step keeps the clocks. *)
LEMMA NextClocks == ClockInv /\ [Next]_vars => ClockInv'
<1> SUFFICES ASSUME ClockInv, [Next]_vars PROVE ClockInv' OBVIOUS
<1>0. IInv /\ IInv' BY NextIInv DEF ClockInv
<1> SUFFICES ASSUME fault' = "none" PROVE Clocks(nodes', packtimes') BY <1>0, ClocksAre DEF ClockInv
<1>1. /\ nodes \in Seq(Node) /\ packseq \in Nat \ {0} /\ acked \in Nat /\ dstart = Wrap(acked)
      /\ Tiles(nodes, acked, packseq) /\ Len(nodes) < packseq /\ packtimes \in [1..Slots -> Slot]
  BY <1>0, IInvFacts
<1>2. dend \in 0..BufSize /\ dend' \in 0..BufSize /\ isEmpty \in BOOLEAN
  BY <1>0 DEF IInv, TypeOK
<1>3. fault = "none" => Clocks(nodes, packtimes) BY ClocksAre DEF ClockInv
<1>4. ASSUME NEW size \in Chunks, AddData(size) PROVE Clocks(nodes', packtimes')
  <2>1. CheckWindow(nodes, dend', FALSE) /\ packtimes' = packtimes /\ fault = "none"
    BY <1>4 DEF AddData, Running
  <2>2. Clocks(nodes', packtimes) BY <1>1, <1>2, <1>3, <2>1, WindowClocks
  <2> QED BY <2>1, <2>2
<1>5. ASSUME NEW size \in Chunks, AddDataFull(size) PROVE Clocks(nodes', packtimes')
  <2>1. /\ CheckWindow(nodes, dend, StillEmpty(dstart, dend, isEmpty))
        /\ packtimes' = packtimes /\ fault = "none"
    BY <1>5 DEF AddDataFull, Running
  <2>2. StillEmpty(dstart, dend, isEmpty) \in BOOLEAN BY DEF StillEmpty
  <2>3. Clocks(nodes', packtimes) BY <1>1, <1>2, <1>3, <2>1, <2>2, WindowClocks
  <2> QED BY <2>1, <2>3
<1>6. ASSUME NEW num \in 1..packseq-1, RecvACK(num) PROVE Clocks(nodes', packtimes')
  <2>1. fault = "none" /\ StopClock(num) BY <1>6 DEF RecvACK, Running
  <2>2. PICK s \in SlotsOf(num) : /\ \A j \in SlotsOf(num) : s <= j
                                  /\ packtimes' = [packtimes EXCEPT ![s].on = FALSE]
    BY <2>1 DEF StopClock
  <2>3. Clocks(nodes, packtimes) BY <2>1, <1>3
  <2>4. \A t \in 1..Slots : packtimes[t].bsn = num /\ packtimes[t].on => t = s
    <3> SUFFICES ASSUME NEW t \in 1..Slots, packtimes[t].bsn = num, packtimes[t].on, t # s PROVE FALSE
      OBVIOUS
    <3>1. PICK i \in 1..Len(nodes) : nodes[i].seqnum = num /\ nodes[i].ack = Waiting
      BY <2>3 DEF Clocks
    <3>2. PICK u \in 1..Slots :
            /\ packtimes[u].bsn = nodes[i].seqnum /\ packtimes[u].on
            /\ \A v \in 1..Slots : packtimes[v].bsn = nodes[i].seqnum /\ v # u =>
                 u < v /\ ~packtimes[v].on
      BY <2>3, <3>1 DEF Clocks
    <3>3. t = u BY <3>1, <3>2
    <3>4. s \in 1..Slots /\ packtimes[s].bsn = num /\ s <= t BY <2>2 DEF SlotsOf
    <3>5. t < s BY <3>1, <3>2, <3>3, <3>4
    <3> QED BY <3>4, <3>5
  <2>5. \A t \in 1..Slots : /\ packtimes'[t].bsn = packtimes[t].bsn
                            /\ packtimes[t].bsn # num => packtimes'[t].on = packtimes[t].on
                            /\ packtimes[t].bsn = num => ~packtimes'[t].on
    <3> SUFFICES ASSUME NEW t \in 1..Slots
                 PROVE  /\ packtimes'[t].bsn = packtimes[t].bsn
                        /\ packtimes[t].bsn # num => packtimes'[t].on = packtimes[t].on
                        /\ packtimes[t].bsn = num => ~packtimes'[t].on
      OBVIOUS
    <3>1. packtimes[t] \in Slot /\ packtimes[t].on \in BOOLEAN BY <1>1 DEF Slot
    <3>2. s \in 1..Slots /\ packtimes[s].bsn = num BY <2>2 DEF SlotsOf
    <3>3. CASE t = s
      <4>1. packtimes'[t] = [packtimes[t] EXCEPT !.on = FALSE] BY <3>3, <3>2, <2>2, <1>1
      <4>2. packtimes'[t].bsn = packtimes[t].bsn /\ packtimes'[t].on = FALSE BY <4>1, <3>1 DEF Slot
      <4> QED BY <4>2, <3>2, <3>3
    <3>4. CASE t # s
      <4>1. packtimes'[t] = packtimes[t] BY <3>4, <2>2, <1>1
      <4> QED BY <4>1, <3>4, <2>4
    <3> QED BY <3>3, <3>4
  <2> DEFINE pt == packtimes'
             ms == Marked(nodes, Numbered(num), Acked)
  <2>6. Clocks(ms, pt) BY <1>0, <2>3, <2>5, StopKeeps
  <2>7. CASE Numbered(num) # {}
    <3>1. CheckWindow(ms, dend, isEmpty) BY <1>6, <2>7 DEF RecvACK
    <3>2. /\ ms \in Seq(Node) /\ Len(ms) = Len(nodes)
          /\ \A i \in 1..Len(nodes) : /\ ms[i].size = nodes[i].size
                                      /\ ms[i].data = nodes[i].data
                                      /\ ms[i].seqnum = nodes[i].seqnum
      BY <1>1, MarkedFacts
    <3>3. Tiles(ms, acked, packseq) /\ Len(ms) < packseq
      <4> HIDE DEF ms
      <4> QED BY <1>1, <3>2, SameTiles
    <3> HIDE DEF ms, pt
    <3>4. Clocks(nodes', pt) BY <1>1, <1>2, <2>6, <3>1, <3>2, <3>3, WindowClocks
    <3> QED BY <3>4 DEF pt
  <2>8. CASE Numbered(num) = {}
    <3>1. nodes' = nodes BY <1>6, <2>8 DEF RecvACK
    <3>2. \A t \in 1..Slots : packtimes[t].on => packtimes[t].bsn # num
      <4> SUFFICES ASSUME NEW t \in 1..Slots, packtimes[t].on, packtimes[t].bsn = num PROVE FALSE OBVIOUS
      <4>1. PICK i \in 1..Len(nodes) : nodes[i].seqnum = num BY <2>3 DEF Clocks
      <4> QED BY <4>1, <2>8 DEF Numbered
    <3>3. \A t \in 1..Slots : pt[t].bsn = packtimes[t].bsn /\ (pt[t].on <=> packtimes[t].on)
      BY <2>5, <3>2
    <3> HIDE DEF pt
    <3>4. ASSUME NEW i \in 1..Len(nodes), nodes[i].ack = Waiting
          PROVE  \E u \in 1..Slots :
                   /\ pt[u].bsn = nodes[i].seqnum /\ pt[u].on
                   /\ \A t \in 1..Slots : pt[t].bsn = nodes[i].seqnum /\ t # u => u < t /\ ~pt[t].on
      <4>1. PICK u \in 1..Slots :
              /\ packtimes[u].bsn = nodes[i].seqnum /\ packtimes[u].on
              /\ \A t \in 1..Slots : packtimes[t].bsn = nodes[i].seqnum /\ t # u => u < t /\ ~packtimes[t].on
        BY <2>3, <3>4 DEF Clocks
      <4> QED BY <4>1, <3>3
    <3>5. ASSUME NEW t \in 1..Slots, pt[t].on
          PROVE  \E i \in 1..Len(nodes) : nodes[i].seqnum = pt[t].bsn /\ nodes[i].ack = Waiting
      <4>1. packtimes[t].on /\ pt[t].bsn = packtimes[t].bsn BY <3>3, <3>5
      <4> QED BY <4>1, <2>3 DEF Clocks
    <3>6. Clocks(nodes, pt) BY <3>4, <3>5 DEF Clocks
    <3> QED BY <3>1, <3>6 DEF pt
  <2> QED BY <2>7, <2>8
<1>7. ASSUME NEW num \in 1..packseq-1, RecvACKCrash(num) PROVE FALSE BY <1>7 DEF RecvACKCrash
<1>8. ASSUME NEW bsn \in 1..packseq-1, TimerExpire(bsn) PROVE Clocks(nodes', packtimes')
  <2>1. /\ nodes' = Marked(nodes, Numbered(bsn), Unsent) /\ fault = "none"
        /\ packtimes' = [i \in 1..Slots |->
                           IF packtimes[i].bsn = bsn THEN [packtimes[i] EXCEPT !.on = FALSE]
                           ELSE packtimes[i]]
    BY <1>8 DEF TimerExpire, Running
  <2>2. \A t \in 1..Slots : /\ packtimes'[t].bsn = packtimes[t].bsn
                            /\ packtimes[t].bsn # bsn => packtimes'[t].on = packtimes[t].on
                            /\ packtimes[t].bsn = bsn => ~packtimes'[t].on
    <3> SUFFICES ASSUME NEW t \in 1..Slots
                 PROVE  /\ packtimes'[t].bsn = packtimes[t].bsn
                        /\ packtimes[t].bsn # bsn => packtimes'[t].on = packtimes[t].on
                        /\ packtimes[t].bsn = bsn => ~packtimes'[t].on
      OBVIOUS
    <3>1. packtimes[t] \in Slot BY <1>1
    <3> QED BY <3>1, <2>1 DEF Slot
  <2>3. Clocks(nodes, packtimes) BY <2>1, <1>3
  <2> DEFINE pt == packtimes'
  <2>4. Clocks(Marked(nodes, Numbered(bsn), Unsent), pt) BY <1>0, <2>2, <2>3, StopKeeps
  <2> QED BY <2>1, <2>4
<1>9. ASSUME SendWindow PROVE Clocks(nodes', packtimes')
  <2>1. fault = "none" BY <1>9 DEF SendWindow, Running
  <2> QED BY <1>0, <1>3, <1>9, <2>1, SendClocks
<1>10. ASSUME UNCHANGED vars PROVE Clocks(nodes', packtimes')
  <2>1. UNCHANGED <<nodes, packtimes, fault>> BY <1>10 DEF vars, bufVars
  <2> QED BY <2>1, <1>3
<1> QED BY <1>4, <1>5, <1>6, <1>7, <1>8, <1>9, <1>10 DEF Next

(* Each packet in flight has exactly one running clock and no entry before *)
(* that one carries its number, so the search of recvACK stops the right   *)
(* one; no clock runs for a packet that is not in flight (recvACK,         *)
(* timerExpire, sendWindow, checkWindow).                                  *)
THEOREM ClocksMatchFlight == Spec => []OneClockPerPacketInFlight
<1>1. ClockInv => OneClockPerPacketInFlight BY DEF ClockInv
<1> QED BY <1>1, InitClocks, NextClocks, PTL DEF Spec

--------------------------------------------------------------------------------

(* Whole packets.  When ftpc's chunks are full up to the last one and only *)
(* full packets are acknowledged, packet num is the bytes from             *)
(* (num-1)*Mss on, whatever was released or cut in between.                *)
Multiple(x) == \E q \in Int : x = q * Mss

FullButLast(ns) == \A i \in 1..Len(ns)-1 : ns[i].size = Mss

(* Full packets hold Mss bytes each. *)
LEMMA FullOffsets ==
  ASSUME NEW ns \in Seq(Node), NEW k \in 0..Len(ns), \A i \in 1..k : ns[i].size = Mss
  PROVE  Offsets(ns)[k] = k * Mss
<1> DEFINE O == Offsets(ns)
           Bad == {j \in 0..k : O[j] # j * Mss}
<1>0. Len(ns) \in Nat /\ k \in Nat /\ k <= Len(ns) BY OffsetsStep
<1>1. O[0] = 0 /\ \A j \in 1..Len(ns) : O[j] = O[j-1] + ns[j].size BY OffsetsStep
<1> SUFFICES ASSUME Bad # {} PROVE FALSE
  <2>1. k \in 0..k BY <1>0
  <2> QED BY <2>1
<1>2. Bad \in SUBSET Nat BY <1>0
<1> HIDE DEF O
<1>3. PICK j \in Bad : \A m \in Bad : j <= m
  <2> HIDE DEF Bad
  <2> QED BY <1>2, NatMin
<1>4. j \in 0..k /\ O[j] # j * Mss BY <1>3
<1>5. j # 0
  <2>1. 0 * Mss = 0 BY Sizes
  <2> QED BY <2>1, <1>1, <1>4
<1>6. j \in 1..Len(ns) /\ j \in 1..k /\ j - 1 \in 0..k BY <1>0, <1>4, <1>5
<1>7. O[j-1] = (j-1) * Mss
  <2>1. ~(j <= j - 1) BY <1>6
  <2>2. j - 1 \notin Bad BY <2>1, <1>3
  <2> QED BY <2>2, <1>6
<1>8. O[j] = (j-1) * Mss + Mss BY <1>1, <1>6, <1>7
<1>9. (j-1) * Mss + Mss = j * Mss BY <1>6, Sizes
<1> QED BY <1>4, <1>8, <1>9

(* The place of packet i of the list in the stream, and its size. *)
LEMMA PlaceOf ==
  ASSUME CoverInv, ~misread, acked = (packseq - Len(nodes) - 1) * Mss, FullButLast(nodes),
         Multiple(WinSize), NEW i \in 1..Len(nodes)
  PROVE  /\ acked + Offsets(nodes)[i-1] = (nodes[i].seqnum - 1) * Mss
         /\ nodes[i].size = Least(Mss, written - (nodes[i].seqnum - 1) * Mss)
<1>0. IInv BY DEF CoverInv
<1>1. /\ nodes \in Seq(Node) /\ Len(nodes) \in Nat /\ Tiles(nodes, acked, packseq)
      /\ packseq \in Nat /\ acked \in Nat
  BY <1>0, IInvFacts
<1> DEFINE n == Len(nodes)
           O == Offsets(nodes)
           s == nodes[i].seqnum
           z == nodes[i].size
           o == O[i-1]
<1>2. i - 1 \in 0..n /\ i \in 0..n /\ i \in Int /\ n \in 0..n BY <1>1
<1>3. s = packseq - n + i - 1 BY <1>1 DEF Tiles
<1>4. o = (i-1) * Mss
  <2>1. \A j \in 1..i-1 : nodes[j].size = Mss BY <1>1 DEF FullButLast
  <2> QED BY <1>1, <1>2, <2>1, FullOffsets
<1>5. O[i] = o + z /\ z \in 1..Mss /\ O[i] \in Nat /\ O[n] \in Nat /\ o \in Nat
  BY <1>1, <1>2, OffsetsStep
<1>6. O[n] = Least(written - acked, WinSize) /\ written \in Nat BY CoverFacts
<1> DEFINE f == (s - 1) * Mss
<1>7. acked + o = f /\ f \in Int
  <2>1. s - 1 = (packseq - n - 1) + (i - 1) BY <1>1, <1>2, <1>3
  <2>2. \A x, y \in Int : (x + y) * Mss = x * Mss + y * Mss BY Sizes
  <2>3. packseq - n - 1 \in Int /\ i - 1 \in Int BY <1>1, <1>2
  <2>4. f = (packseq - n - 1) * Mss + (i - 1) * Mss BY <2>1, <2>2, <2>3
  <2>5. f \in Int BY <2>3, <2>4, Sizes
  <2> QED BY <1>4, <2>4, <2>5
<1>8. z = Least(Mss, written - f)
  <2>1. CASE i < n
    <3>1. z = Mss BY <2>1, <1>1 DEF FullButLast
    <3>2. O[i] < O[n] BY <2>1, <1>1, <1>2, OffsetsStrict
    <3> DEFINE on == O[n]
               oi == O[i]
    <3>3. oi < on /\ oi = o + z /\ oi \in Nat /\ on \in Nat /\ on = Least(written - acked, WinSize)
      BY <3>2, <1>5, <1>6
    <3> HIDE DEF on, oi, o, z, f, s
    <3>4. Mss < written - f BY <3>1, <3>3, <1>1, <1>5, <1>6, <1>7, Sizes DEF Least
    <3> QED BY <3>1, <3>4, <1>6, <1>7, Sizes DEF Least
  <2>2. CASE i = n
    <3>1. PICK q \in Int : WinSize = q * Mss BY DEF Multiple
    <3> DEFINE on == O[n]
    <3>2. on = o + z /\ on = Least(written - acked, WinSize) BY <2>2, <1>5, <1>6
    <3>3. WinSize - o = (q - (i-1)) * Mss BY <3>1, <1>2, <1>4, Sizes
    <3> DEFINE r == q - (i-1)
    <3>4. r \in Int /\ WinSize - o = r * Mss BY <3>1, <3>3, <1>2
    <3> HIDE DEF on, o, z, f, s, r
    <3>5. CASE written - acked < WinSize
      <4>1. z = written - f BY <3>2, <3>5, <1>1, <1>5, <1>6, <1>7, Sizes DEF Least
      <4> QED BY <4>1, <1>5, <1>6, <1>7, Sizes DEF Least
    <3>6. CASE ~(written - acked < WinSize)
      <4>1. z = r * Mss BY <3>2, <3>4, <3>6, <1>1, <1>5, <1>6, Sizes DEF Least
      <4>2. r = 1
        <5>1. CASE r >= 2
          <6>1. r * Mss >= 2 * Mss BY <5>1, <3>4, Sizes
          <6> QED BY <6>1, <4>1, <1>5, Sizes
        <5>2. CASE r <= 0
          <6>1. r * Mss <= 0 BY <5>2, <3>4, Sizes
          <6> QED BY <6>1, <4>1, <1>5, Sizes
        <5> QED BY <5>1, <5>2, <3>4
      <4>3. z = Mss BY <4>1, <4>2, Sizes
      <4>4. written - f >= z BY <3>2, <3>6, <1>1, <1>5, <1>6, <1>7, Sizes DEF Least
      <4> QED BY <4>3, <4>4, <1>6, <1>7, Sizes DEF Least
    <3> QED BY <3>5, <3>6
  <2> QED BY <2>1, <2>2, <1>1, <1>2
<1> QED BY <1>7, <1>8

(* What checkWindow makes of the list ns: the first k packets go, fr comes *)
(* behind the others.                                                      *)
IsWindow(ns, k, fr) ==
  /\ k \in 0..Len(ns) /\ Len(fr) \in Nat
  /\ packseq' = packseq + Len(fr) /\ acked' = acked + Offsets(ns)[k]
  /\ Len(nodes') = Len(ns) - k + Len(fr)
  /\ \A i \in 1..Len(ns)-k : nodes'[i] = ns[k+i]
  /\ \A i \in Len(ns)-k+1..Len(ns)-k+Len(fr) : nodes'[i] = fr[i - (Len(ns)-k)]
  /\ \A j \in 1..Len(fr) : fr[j].ack = Unsent
  /\ \A j \in 1..Len(fr)-1 : fr[j].size = Mss
  /\ Offsets(nodes')[Len(nodes')] = Offsets(ns)[Len(ns)] - Offsets(ns)[k] + Offsets(fr)[Len(fr)]

(* The list after checkWindow is what is left of it and the new packets.   *)
LEMMA WindowIs ==
  ASSUME NEW ns \in Seq(Node), NEW end \in 0..BufSize, NEW empty \in BOOLEAN,
         packseq \in Nat, acked \in Nat, dstart = Wrap(acked),
         Tiles(ns, acked, packseq), Len(ns) < packseq,
         CheckWindow(ns, end, empty)
  PROVE  \E fr \in Seq(Node) : IsWindow(ns, AckedPrefix(ns), fr)
<1> DEFINE k == AckedPrefix(ns)
           n == Len(ns)
<1>2. PICK fr \in Seq(Node) : /\ nodes' = SubSeq(ns, k+1, n) \o fr
                              /\ packseq' = packseq + Len(fr)
                              /\ \A j \in 1..Len(fr) : fr[j].ack = Unsent
                              /\ \A j \in 1..Len(fr)-1 : fr[j].size = Mss
  BY CheckWindowTiles
<1>3. acked' = acked + Offsets(ns)[k] BY CheckWindowTiles
<1>4. k \in 0..n /\ n \in Nat /\ Len(fr) \in Nat BY AckedPrefixFacts
<1> DEFINE all == SubSeq(ns, k+1, n) \o fr
           r   == n - k
           m   == Len(fr)
<1> HIDE DEF k
<1>a. k \in 0..Len(ns) BY <1>4
<1>5. /\ Len(all) = Len(ns) - k + Len(fr)
      /\ \A i \in 1..Len(ns)-k : all[i] = ns[k+i]
      /\ \A i \in Len(ns)-k+1..Len(ns)-k+Len(fr) : all[i] = fr[i - (Len(ns)-k)]
  BY <1>a, RestOf, SMTT(30)
<1>6. Offsets(all)[Len(all)] = Offsets(ns)[n] - Offsets(ns)[k] + Offsets(fr)[m]
  <2>1. \A i \in r..r+m : Offsets(all)[i] = Offsets(ns)[n] - Offsets(ns)[k] + Offsets(fr)[i-r]
    BY <1>a, OffsetsOfRest
  <2> DEFINE x == Len(all)
  <2>2. x \in r..r+m /\ x - r = m BY <1>4, <1>5
  <2> HIDE DEF all, r, m, n, x
  <2>3. Offsets(all)[x] = Offsets(ns)[n] - Offsets(ns)[k] + Offsets(fr)[x-r] BY <2>1, <2>2
  <2> QED BY <2>2, <2>3 DEF x
<1>7. nodes' = all BY <1>2
<1> HIDE DEF all
<1>8. IsWindow(ns, k, fr) BY <1>2, <1>3, <1>4, <1>5, <1>6, <1>7 DEF IsWindow
<1> QED BY <1>8 DEF k

(* checkWindow, when the acknowledged packets are full and their numbers   *)
(* are in T: what it releases is k whole packets with numbers in T.        *)
LEMMA WholeRelease ==
  ASSUME IInv, NEW T, NEW ns \in Seq(Node), Len(ns) = Len(nodes), Tiles(ns, acked, packseq),
         \A i \in 1..Len(ns) : ns[i].ack = Acked => ns[i].seqnum \in T,
         \A i \in 1..AckedPrefix(ns) : ns[i].size = Mss,
         acked = (packseq - Len(nodes) - 1) * Mss,
         \A s \in 1..packseq-Len(nodes)-1 : s \in T,
         NEW end \in 0..BufSize, NEW empty \in BOOLEAN, CheckWindow(ns, end, empty)
  PROVE  /\ acked' = (packseq' - Len(nodes') - 1) * Mss
         /\ \A s \in 1..packseq'-Len(nodes')-1 : s \in T
         /\ \A i \in 1..Len(nodes') : nodes'[i].ack = Acked => nodes'[i].seqnum \in T
         /\ packseq' - Len(nodes') = packseq - Len(nodes) + AckedPrefix(ns)
<1> DEFINE k == AckedPrefix(ns)
           n == Len(ns)
<1>1. /\ packseq \in Nat /\ acked \in Nat /\ dstart = Wrap(acked) /\ Len(ns) < packseq BY IInvFacts
<1>2. PICK fr \in Seq(Node) : IsWindow(ns, k, fr) BY <1>1, WindowIs
<1>3. \A i \in 1..k : ns[i].ack = Acked BY AckedPrefixFacts
<1>4. /\ k \in 0..n /\ n \in Nat /\ Len(fr) \in Nat
      /\ packseq' = packseq + Len(fr) /\ acked' = acked + Offsets(ns)[k]
      /\ \A j \in 1..Len(fr) : fr[j].ack = Unsent
  BY <1>2 DEF IsWindow
<1>5. /\ Len(nodes') = n - k + Len(fr)
      /\ \A i \in 1..n-k : nodes'[i] = ns[k+i]
      /\ \A i \in n-k+1..n-k+Len(fr) : nodes'[i] = fr[i - (n-k)]
  BY <1>2 DEF IsWindow
<1> HIDE DEF k
<1>6. packseq' - Len(nodes') = packseq - n + k /\ packseq' - Len(nodes') - 1 = packseq - n - 1 + k
  BY <1>1, <1>4, <1>5
<1>7. acked' = (packseq' - Len(nodes') - 1) * Mss
  <2>1. \A i \in 1..k : ns[i].size = Mss BY DEF k
  <2>2. Offsets(ns)[k] = k * Mss BY <1>4, <2>1, FullOffsets
  <2>3. (packseq - n - 1) * Mss + k * Mss = (packseq - n - 1 + k) * Mss BY <1>1, <1>4, Sizes
  <2> QED BY <1>4, <1>6, <2>2, <2>3
<1>8. ASSUME NEW s \in 1..packseq'-Len(nodes')-1 PROVE s \in T
  <2>1. CASE s <= packseq - n - 1 BY <2>1, <1>1, <1>4
  <2>2. CASE ~(s <= packseq - n - 1)
    <3> DEFINE i == s - (packseq - n - 1)
    <3>1. i \in 1..k /\ i \in 1..n /\ packseq - n + i - 1 = s BY <2>2, <1>1, <1>4, <1>6, <1>8
    <3>2. ns[i].seqnum = s BY <3>1 DEF Tiles
    <3> QED BY <3>1, <3>2, <1>3
  <2> QED BY <2>1, <2>2
<1>9. ASSUME NEW i \in 1..Len(nodes'), nodes'[i].ack = Acked PROVE nodes'[i].seqnum \in T
  <2>1. CASE i <= n - k
    <3>1. k + i \in 1..n /\ i \in 1..n-k BY <2>1, <1>4
    <3> QED BY <3>1, <1>5, <1>9
  <2>2. CASE ~(i <= n - k)
    <3>1. i \in n-k+1..n-k+Len(fr) /\ i - (n-k) \in 1..Len(fr) BY <2>2, <1>4, <1>5
    <3>2. nodes'[i].ack = Unsent BY <3>1, <1>4, <1>5
    <3> QED BY <3>2, <1>9 DEF Unsent, Acked
  <2> QED BY <2>1, <2>2
<1> QED BY <1>6, <1>7, <1>8, <1>9 DEF k

(* It cuts full packets behind full ones; behind one that is not full, and *)
(* so was the last of the stream, there is nothing to cut.                 *)
LEMMA FullCuts ==
  ASSUME IInv, NEW ns \in Seq(Node), Len(ns) = Len(nodes), Tiles(ns, acked, packseq), FullButLast(ns),
         NEW end \in 0..BufSize, NEW empty \in BOOLEAN, CheckWindow(ns, end, empty),
         \/ Offsets(nodes')[Len(nodes')] = Offsets(ns)[Len(ns)] - Offsets(ns)[AckedPrefix(ns)]
         \/ \A i \in 1..Len(ns) : ns[i].size = Mss
  PROVE  FullButLast(nodes')
<1> DEFINE k == AckedPrefix(ns)
           n == Len(ns)
<1>1. /\ packseq \in Nat /\ acked \in Nat /\ dstart = Wrap(acked) /\ Len(ns) < packseq BY IInvFacts
<1>2. PICK fr \in Seq(Node) : IsWindow(ns, k, fr) BY <1>1, WindowIs
<1>4. /\ k \in 0..n /\ n \in Nat /\ Len(fr) \in Nat
      /\ \A j \in 1..Len(fr)-1 : fr[j].size = Mss
  BY <1>2 DEF IsWindow
<1>5. /\ Len(nodes') = n - k + Len(fr)
      /\ \A i \in 1..n-k : nodes'[i] = ns[k+i]
      /\ \A i \in n-k+1..n-k+Len(fr) : nodes'[i] = fr[i - (n-k)]
  BY <1>2 DEF IsWindow
<1>6. (\A i \in 1..n : ns[i].size = Mss) \/ Len(fr) = 0
  <2> SUFFICES ASSUME ~ \A i \in 1..n : ns[i].size = Mss, Len(fr) > 0 PROVE FALSE BY <1>4
  <2> DEFINE m == Len(fr)
  <2>1. Offsets(nodes')[Len(nodes')] = Offsets(ns)[n] - Offsets(ns)[k] + Offsets(fr)[m]
    BY <1>2 DEF IsWindow
  <2>2. Offsets(fr)[m] > 0 /\ Offsets(fr)[m] \in Nat
    <3>1. 0 \in 0..m /\ 0 < m BY <1>4
    <3>2. Offsets(fr)[0] < Offsets(fr)[m] BY <3>1, OffsetsStrict
    <3> QED BY <3>2, OffsetsStep
  <2>3. Offsets(ns)[n] \in Nat /\ Offsets(ns)[k] \in Nat BY <1>4, OffsetsStep
  <2>4. Offsets(nodes')[Len(nodes')] = Offsets(ns)[n] - Offsets(ns)[k] OBVIOUS
  <2> HIDE DEF m, k, n
  <2> QED BY <2>1, <2>2, <2>3, <2>4
<1> HIDE DEF k
<1>7. ASSUME NEW i \in 1..Len(nodes')-1 PROVE nodes'[i].size = Mss
  <2>1. CASE i <= n - k
    <3>1. i \in 1..n-k /\ nodes'[i] = ns[k+i] BY <2>1, <1>4, <1>5
    <3>2. CASE Len(fr) = 0
      <4>1. k + i \in 1..n-1 BY <3>1, <3>2, <1>4, <1>5
      <4> QED BY <4>1, <3>1 DEF FullButLast
    <3>3. CASE Len(fr) # 0
      <4>1. k + i \in 1..n BY <3>1, <1>4
      <4> QED BY <4>1, <3>1, <3>3, <1>6
    <3> QED BY <3>2, <3>3
  <2>2. CASE ~(i <= n - k)
    <3>1. i \in n-k+1..n-k+Len(fr) /\ i - (n-k) \in 1..Len(fr)-1 BY <2>2, <1>4, <1>5
    <3> QED BY <3>1, <1>4, <1>5
  <2> QED BY <2>1, <2>2
<1> QED BY <1>7 DEF FullButLast

(* Behind the last packet there is nothing left of the stream, or it is    *)
(* full like the others.                                                   *)
LEMMA AllFullOrDone ==
  ASSUME CoverInv, ~misread, acked = (packseq - Len(nodes) - 1) * Mss, FullButLast(nodes),
         Multiple(WinSize)
  PROVE  /\ \/ \A i \in 1..Len(nodes) : nodes[i].size = Mss
            \/ Offsets(nodes)[Len(nodes)] = written - acked
         /\ Multiple(written) => \A i \in 1..Len(nodes) : nodes[i].size = Mss
<1>0. IInv BY DEF CoverInv
<1>1. nodes \in Seq(Node) /\ Len(nodes) \in Nat /\ acked \in Nat /\ packseq \in Nat /\ Tiles(nodes, acked, packseq)
  BY <1>0, IInvFacts
<1>2. written \in Nat BY CoverFacts
<1> DEFINE n == Len(nodes)
<1> SUFFICES ASSUME NEW i \in 1..n, nodes[i].size # Mss
             PROVE  Offsets(nodes)[n] = written - acked /\ ~Multiple(written)
  OBVIOUS
<1>3. i = n BY <1>1 DEF FullButLast
<1> DEFINE s == nodes[i].seqnum
           f == (s - 1) * Mss
           z == nodes[i].size
           o == Offsets(nodes)[i-1]
           e == Offsets(nodes)[i]
<1>4. acked + o = f /\ z = Least(Mss, written - f) BY PlaceOf
<1>5. e = o + z /\ z \in 1..Mss /\ o \in Nat /\ z # Mss
  <2>1. i - 1 \in 0..n BY <1>1
  <2> QED BY <2>1, <1>1, OffsetsStep
<1>6. s - 1 \in Int BY <1>1 DEF Tiles
<1>7. e = Offsets(nodes)[n] BY <1>3
<1> HIDE DEF o, e, z
<1>8. f \in Int BY <1>1, <1>4, <1>5
<1>a. f = (s - 1) * Mss OBVIOUS
<1> HIDE DEF f, s
<1>9. z = written - f BY <1>2, <1>4, <1>5, <1>8, Sizes DEF Least
<1>10. e = written - acked
  <2>1. z \in Int /\ o \in Int BY <1>5, Sizes
  <2>2. acked + o = f BY <1>4
  <2>3. acked \in Int /\ written \in Int BY <1>1, <1>2
  <2>4. o + z = written - acked BY ONLY <2>1, <2>2, <2>3, <1>8, <1>9
  <2> QED BY <2>4, <1>5
<1>11. ~Multiple(written)
  <2> SUFFICES ASSUME NEW q \in Int, written = q * Mss PROVE FALSE BY DEF Multiple
  <2> DEFINE r == q - (s - 1)
  <2>1. r \in Int /\ z = r * Mss
    <3>1. q * Mss - (s - 1) * Mss = (q - (s - 1)) * Mss BY <1>6, Sizes
    <3> QED BY <3>1, <1>6, <1>9, <1>a
  <2> HIDE DEF r
  <2>2. CASE r >= 1
    <3>1. r * Mss >= Mss BY <2>1, <2>2, Sizes
    <3> QED BY <3>1, <2>1, <1>5, Sizes
  <2>3. CASE r <= 0
    <3>1. r * Mss <= 0 BY <2>1, <2>3, Sizes
    <3> QED BY <3>1, <2>1, <1>5, Sizes
  <2> QED BY <2>1, <2>2, <2>3
<1> QED BY <1>7, <1>10, <1>11

(* A packet of the stream: bytes that have been written, none beyond the   *)
(* window.                                                                 *)
PacketOf(num, z) == [seq |-> num, payload |-> [j \in 1..z |-> (num - 1) * Mss + j - 1]]

IsPacket(p) ==
  /\ \E z \in 1..Mss : p = PacketOf(p.seq, z) /\ (p.seq - 1) * Mss + z <= written
  /\ (p.seq - 1) * Mss < acked + WinSize

(* A ring that has been misread is empty, takes nothing more, and the      *)
(* packets cut from it are none that were sent.                            *)
PhantomsOnly ==
  /\ acked = written /\ SpaceLeft(dstart, dend, isEmpty) = 0
  /\ \A i \in 1..Len(nodes) : \A p \in sent : nodes[i].seqnum # p.seq

(* The ring and the numbers in T, which the peer has acknowledged: what    *)
(* has been released are whole packets with numbers in T.                  *)
InStep(T) ==
  /\ acked = (packseq - Len(nodes) - 1) * Mss
  /\ \A s \in 1..packseq-Len(nodes)-1 : s \in T
  /\ \A i \in 1..Len(nodes) : nodes[i].ack = Acked => nodes[i].seqnum \in T
  /\ IF misread THEN PhantomsOnly ELSE FullButLast(nodes)
  /\ \A p \in sent : IsPacket(p)

(* What was a packet stays one. *)
LEMMA PacketsStay ==
  ASSUME IInv, IInv', written <= written', acked <= acked', sent' = sent,
         \A p \in sent : IsPacket(p)
  PROVE  \A p \in sent' : IsPacket(p)'
<1> SUFFICES ASSUME NEW p \in sent PROVE IsPacket(p)' OBVIOUS
<1>1. /\ written \in Nat /\ acked \in Nat /\ written' \in Nat /\ acked' \in Nat /\ p.seq \in Nat
  <2>1. written \in Nat /\ acked \in Nat /\ p.seq \in Nat BY IInvFacts, Sizes
  <2>2. written' \in 0..MaxStream /\ acked' \in Nat BY DEF IInv, TypeOK
  <2> QED BY <2>1, <2>2, Sizes
<1>2. PICK z \in 1..Mss : p = PacketOf(p.seq, z) /\ (p.seq - 1) * Mss + z <= written BY DEF IsPacket
<1>3. (p.seq - 1) * Mss < acked + WinSize BY DEF IsPacket
<1> DEFINE f == (p.seq - 1) * Mss
<1>4. f \in Int BY <1>1, Sizes
<1>5. f + z <= written /\ f < acked + WinSize BY <1>2, <1>3
<1>6. f + z <= written' /\ f < acked' + WinSize
  <2> HIDE DEF f
  <2>1. z \in Int /\ WinSize \in Int BY Sizes
  <2>2. written <= written' /\ acked <= acked' OBVIOUS
  <2>3. \A w, a, x, y \in Int : f + z <= w /\ w <= x /\ f < a + WinSize /\ a <= y =>
                                  f + z <= x /\ f < y + WinSize
    BY <1>4, <2>1
  <2> QED BY <1>1, <1>5, <2>2, <2>3
<1>7. \E y \in 1..Mss : p = PacketOf(p.seq, y) /\ (p.seq - 1) * Mss + y <= written'
  BY <1>2, <1>6
<1> QED BY <1>6, <1>7 DEF IsPacket, PacketOf

(* checkWindow gives new packets new numbers. *)
LEMMA NumbersKept ==
  ASSUME IInv, IInv', packseq - Len(nodes) <= packseq' - Len(nodes'), NEW i \in 1..Len(nodes')
  PROVE  \/ nodes'[i].seqnum >= packseq
         \/ \E j \in 1..Len(nodes) : nodes'[i].seqnum = nodes[j].seqnum
<1>1. packseq \in Nat /\ Len(nodes) \in Nat /\ Tiles(nodes, acked, packseq) /\ Len(nodes) < packseq BY IInvFacts
<1>2. packseq' \in Nat /\ Len(nodes') \in Nat /\ Tiles(nodes', acked', packseq')
  BY IInvFacts, TilingIsTilesNext DEF IInv, TypeOK
<1> DEFINE s == packseq' - Len(nodes') + i - 1
           j == s - packseq + Len(nodes) + 1
<1>3. nodes'[i].seqnum = s /\ s \in Int BY <1>2 DEF Tiles
<1>4. CASE ~(s >= packseq)
  <2>1. j \in 1..Len(nodes) /\ packseq - Len(nodes) + j - 1 = s BY <1>1, <1>2, <1>4
  <2>2. nodes[j].seqnum = s BY <2>1, <1>1 DEF Tiles
  <2> QED BY <2>1, <2>2, <1>3
<1> QED BY <1>3, <1>4

(* The cuts stay where they are when nothing is stored, or what is stored  *)
(* begins a packet.                                                        *)
LEMMA CutsStayFull ==
  ASSUME CoverInv, CoverInv', ~misread, ~misread', NEW T, InStep(T), Multiple(WinSize),
         NEW ns \in Seq(Node), Len(ns) = Len(nodes), Tiles(ns, acked, packseq),
         \A i \in 1..Len(nodes) : ns[i].size = nodes[i].size,
         NEW end \in 0..BufSize, NEW empty \in BOOLEAN, CheckWindow(ns, end, empty),
         written' = written \/ Multiple(written)
  PROVE  FullButLast(nodes')
<1>0. IInv BY DEF CoverInv
<1>1. /\ packseq \in Nat /\ acked \in Nat /\ dstart = Wrap(acked) /\ Len(ns) < packseq
      /\ nodes \in Seq(Node) /\ Len(nodes) \in Nat
  BY <1>0, IInvFacts
<1>2. FullButLast(nodes) /\ acked = (packseq - Len(nodes) - 1) * Mss BY DEF InStep
<1>3. FullButLast(ns) BY <1>1, <1>2 DEF FullButLast
<1>4. /\ \/ \A i \in 1..Len(nodes) : nodes[i].size = Mss
         \/ Offsets(nodes)[Len(nodes)] = written - acked
      /\ Multiple(written) => \A i \in 1..Len(nodes) : nodes[i].size = Mss
  BY <1>2, AllFullOrDone
<1>5. CASE \A i \in 1..Len(nodes) : nodes[i].size = Mss
  <2>1. \A i \in 1..Len(ns) : ns[i].size = Mss BY <1>5
  <2> QED BY <2>1, <1>0, <1>3, FullCuts
<1>6. CASE written' = written /\ Offsets(nodes)[Len(nodes)] = written - acked
  <2> DEFINE k == AckedPrefix(ns)
             g == Offsets(ns)[k]
             t == Offsets(ns)[Len(ns)]
             u == Offsets(nodes')[Len(nodes')]
  <2>1. Offsets(ns) = Offsets(nodes) BY <1>1, OffsetsSameSizes
  <2>2. k \in 0..Len(ns) /\ Len(ns) \in 0..Len(ns) BY <1>1, AckedPrefixFacts
  <2>3. g \in Nat /\ t \in Nat BY <2>2, OffsetsStep
  <2>4. acked' = acked + g BY <1>1, CheckWindowTiles
  <2>5. t = Least(written - acked, WinSize) /\ written \in Nat BY <2>1, CoverFacts
  <2>6. u = Least(written' - acked', WinSize)
    <3>1. (~misread => Offsets(nodes)[Len(nodes)] = Least(written - acked, WinSize))' BY CoverFacts, PTL
    <3> QED BY <3>1 DEF Offsets
  <2>7. t = written - acked BY <2>1, <1>6
  <2> HIDE DEF k, g, t, u
  <2>8. t <= WinSize BY <2>5, <2>7, <2>3, <1>1, Sizes DEF Least
  <2>9. u = t - g
    <3>1. written' - acked' = t - g BY <2>7, <2>4, <1>6, <1>1, <2>3, <2>5
    <3> QED BY <3>1, <2>3, <2>6, <2>8, Sizes DEF Least
  <2>10. Offsets(nodes')[Len(nodes')] = Offsets(ns)[Len(ns)] - Offsets(ns)[AckedPrefix(ns)]
    BY <2>9 DEF u, t, g, k
  <2> QED BY <2>10, <1>0, <1>3, FullCuts
<1> QED BY <1>4, <1>5, <1>6

(* A full ring is full whatever the flag says. *)
LEMMA NoSpace ==
  ASSUME NEW start \in Address, NEW end \in 0..BufSize, NEW empty, SpaceLeft(start, end, empty) = 0
  PROVE  SpaceLeft(start, end, FALSE) = 0
<1>1. start \in Int /\ end \in Int /\ BufSize \in Nat \ {0} BY Sizes DEF Address
<1>2. CASE end < start BY <1>1, <1>2 DEF SpaceLeft
<1>3. CASE start < end BY <1>1, <1>3 DEF SpaceLeft
<1>4. CASE start = end
  <2>1. SpaceLeft(start, end, FALSE) = 0 BY <1>1, <1>4 DEF SpaceLeft
  <2> QED BY <2>1
<1>5. end < start \/ start < end \/ start = end BY <1>1
<1> QED BY <1>2, <1>3, <1>4, <1>5

(* A step of checkWindow that releases nothing. *)
LEMMA AddStep ==
  ASSUME IInv, IInv', NEW T, InStep(T), NEW end \in 0..BufSize, NEW empty \in BOOLEAN,
         CheckWindow(nodes, end, empty), written <= written', sent' = sent,
         IF misread' THEN acked = written' /\ SpaceLeft(dstart', dend', isEmpty') = 0
                           /\ (misread \/ Len(nodes) = 0)
                     ELSE FullButLast(nodes')
  PROVE  InStep(T)'
<1>1. /\ packseq \in Nat /\ acked \in Nat /\ dstart = Wrap(acked) /\ nodes \in Seq(Node)
      /\ Tiles(nodes, acked, packseq) /\ Len(nodes) < packseq /\ Len(nodes) \in Nat
  BY IInvFacts
<1>2. AckedPrefix(nodes) = 0 BY NothingReleased
<1>3. /\ acked = (packseq - Len(nodes) - 1) * Mss
      /\ \A s \in 1..packseq-Len(nodes)-1 : s \in T
      /\ \A i \in 1..Len(nodes) : nodes[i].ack = Acked => nodes[i].seqnum \in T
      /\ misread => PhantomsOnly
      /\ \A p \in sent : IsPacket(p)
  BY DEF InStep
<1>4. \A i \in 1..AckedPrefix(nodes) : nodes[i].size = Mss BY <1>2
<1>5. /\ acked' = (packseq' - Len(nodes') - 1) * Mss
      /\ \A s \in 1..packseq'-Len(nodes')-1 : s \in T
      /\ \A i \in 1..Len(nodes') : nodes'[i].ack = Acked => nodes'[i].seqnum \in T
      /\ packseq' - Len(nodes') = packseq - Len(nodes) + AckedPrefix(nodes)
  BY <1>1, <1>3, <1>4, WholeRelease
<1>6. acked' = acked
  <2>1. packseq' - Len(nodes') = packseq - Len(nodes) BY <1>1, <1>2, <1>5
  <2> QED BY <2>1, <1>3, <1>5
<1>7. ASSUME misread' PROVE PhantomsOnly'
  <2>1. ASSUME NEW i \in 1..Len(nodes'), NEW p \in sent PROVE nodes'[i].seqnum # p.seq
    <3>1. p.seq \in 1..packseq-1 BY IInvFacts
    <3>2. packseq - Len(nodes) <= packseq' - Len(nodes') BY <1>1, <1>2, <1>5
    <3>3. \/ nodes'[i].seqnum >= packseq
          \/ \E j \in 1..Len(nodes) : nodes'[i].seqnum = nodes[j].seqnum
      BY <3>2, NumbersKept
    <3>4. CASE nodes'[i].seqnum >= packseq BY <3>1, <3>4, <1>1
    <3>5. CASE \E j \in 1..Len(nodes) : nodes'[i].seqnum = nodes[j].seqnum
      <4>1. PICK j \in 1..Len(nodes) : nodes'[i].seqnum = nodes[j].seqnum BY <3>5
      <4>2. misread BY <4>1, <1>1, <1>7
      <4> QED BY <4>1, <4>2, <1>3 DEF PhantomsOnly
    <3> QED BY <3>3, <3>4, <3>5
  <2>2. acked' = written' /\ SpaceLeft(dstart', dend', isEmpty') = 0 BY <1>6, <1>7
  <2> QED BY <2>1, <2>2 DEF PhantomsOnly, SpaceLeft
<1>8. ~misread' => FullButLast(nodes') OBVIOUS
<1>9. \A p \in sent' : IsPacket(p)' BY <1>1, <1>3, <1>6, PacketsStay
<1> QED BY <1>5, <1>7, <1>8, <1>9 DEF InStep, FullButLast

(* addData behind whole packets, or of no bytes.                           *)
LEMMA AddDataInStep ==
  ASSUME CoverInv, CoverInv', NEW T, InStep(T), Multiple(WinSize), NEW size \in Chunks, AddData(size),
         size > 0 => Multiple(written)
  PROVE  InStep(T)'
<1>0. IInv /\ IInv' BY DEF CoverInv
<1>1. /\ SpaceLeft(dstart, dend, isEmpty) >= size
      /\ dend' = IF BufSize - dend >= size THEN dend + size ELSE size - (BufSize - dend)
      /\ written' = written + size /\ sent' = sent
      /\ misread' = (misread \/ (size = 0 /\ acked = written))
      /\ CheckWindow(nodes, dend', FALSE)
  BY DEF AddData
<1>2. /\ packseq \in Nat /\ acked \in Nat /\ dstart = Wrap(acked) /\ dstart \in Address
      /\ nodes \in Seq(Node) /\ Len(nodes) \in Nat /\ misread \in BOOLEAN /\ isEmpty \in BOOLEAN
      /\ Tiles(nodes, acked, packseq) /\ Len(nodes) < packseq
      /\ written \in Nat /\ written \in Int
  BY <1>0, IInvFacts, Sizes
<1>3. dend \in 0..BufSize /\ dend' \in 0..BufSize
  <2>1. dend' \in 0..BufSize BY <1>0 DEF IInv, TypeOK
  <2> QED BY <2>1, <1>0, IInvFacts
<1>4. size \in Nat /\ written <= written' BY <1>1, <1>2, Sizes
<1>5. ASSUME misread'
      PROVE  /\ acked = written' /\ SpaceLeft(dstart', dend', isEmpty') = 0
             /\ misread \/ Len(nodes) = 0
  <2>1. /\ size = 0 /\ acked = written /\ SpaceLeft(dstart, dend, FALSE) = 0
        /\ misread \/ Len(nodes) = 0
    <3>1. CASE misread
      <4>1. acked = written /\ SpaceLeft(dstart, dend, isEmpty) = 0 BY <3>1 DEF InStep, PhantomsOnly
      <4>2. size = 0 BY <4>1, <1>1, <1>4
      <4> QED BY <4>1, <4>2, <3>1, <1>2, <1>3, NoSpace
    <3>2. CASE ~misread
      <4>1. size = 0 /\ acked = written BY <1>1, <1>5, <3>2
      <4>2. /\ Wrap(dend) = Wrap(written)
            /\ SpaceLeft(dstart, dend, isEmpty) = BufSize - (written - acked)
            /\ Offsets(nodes)[Len(nodes)] = Least(written - acked, WinSize)
        BY <3>2, CoverFacts
      <4>3. Len(nodes) = 0
        <5>1. Offsets(nodes)[Len(nodes)] = 0 BY <4>1, <4>2, <1>2, Sizes DEF Least
        <5>2. CASE Len(nodes) > 0
          <6>1. 0 \in 0..Len(nodes) /\ 0 < Len(nodes) BY <5>2, <1>2
          <6>2. Offsets(nodes)[0] < Offsets(nodes)[Len(nodes)] BY <6>1, <1>2, OffsetsStrict
          <6>3. Offsets(nodes)[0] = 0 BY <1>2, OffsetsStep
          <6> QED BY <6>2, <6>3, <5>1
        <5> QED BY <5>2, <1>2
      <4>4. SpaceLeft(dstart, dend, isEmpty) = BufSize BY <4>1, <4>2, <1>2, Sizes
      <4>5. dstart = dend
        <5>1. dstart \in 0..BufSize-1 /\ dend \in Int /\ BufSize \in Int BY <1>2, <1>3, Sizes DEF Address
        <5>2. ~(dend < dstart) BY <5>1, <4>4, <1>3 DEF SpaceLeft
        <5>3. ~(dstart < dend) BY <5>1, <4>4, <1>3 DEF SpaceLeft
        <5> QED BY <5>1, <5>2, <5>3
      <4>6. SpaceLeft(dstart, dend, FALSE) = 0
        <5>1. dend \in Int /\ ~(dend < dend) BY <1>3, Sizes
        <5> QED BY <5>1, <4>5 DEF SpaceLeft
      <4> QED BY <4>1, <4>3, <4>6
    <3> QED BY <3>1, <3>2
  <2>2. written' = written BY <2>1, <1>1, <1>2
  <2>3. dend' = dend
    <3>1. BufSize - dend >= 0 /\ dend + 0 = dend BY <1>3, Sizes
    <3> QED BY <3>1, <2>1, <1>1
  <2>4. AckedPrefix(nodes) = 0 BY <1>0, NothingReleased
  <2>5. Offsets(nodes)[0] = 0 BY <1>2, OffsetsStep
  <2>6. acked' = acked
    <3>1. acked' = acked + Offsets(nodes)[AckedPrefix(nodes)] BY <1>1, <1>2, <1>3, CheckWindowTiles
    <3> QED BY <3>1, <2>4, <2>5, <1>2
  <2>7. dstart' = dstart
    <3>1. dstart' = Wrap(acked') BY <1>1, <1>2, <1>3, CheckWindowTiles
    <3> QED BY <3>1, <2>6, <1>2
  <2>8. ~isEmpty'
    <3>1. isEmpty' = StillEmpty(dstart', dend', FALSE \/ (AckedPrefix(nodes) > 0 /\ AckedPrefix(nodes) = Len(nodes)))
      BY <1>1, <1>2, <1>3, CheckWindowTiles
    <3>2. ~(AckedPrefix(nodes) > 0) BY <2>4
    <3> QED BY <3>1, <3>2, Zenon DEF StillEmpty
  <2>9. isEmpty' = FALSE
    <3>1. isEmpty' \in BOOLEAN BY <1>0 DEF IInv, TypeOK
    <3> QED BY <3>1, <2>8
  <2> QED BY <2>1, <2>2, <2>3, <2>7, <2>9
<1>6. ASSUME ~misread' PROVE FullButLast(nodes')
  <2>1. ~misread BY <1>6, <1>1
  <2>2. written' = written \/ Multiple(written) BY <1>1, <1>2, <1>4
  <2> QED BY <2>1, <2>2, <1>1, <1>2, <1>3, <1>6, CutsStayFull
<1> QED BY <1>0, <1>1, <1>3, <1>4, <1>5, <1>6, AddStep

(* addData that finds no room.                                             *)
LEMMA AddDataFullInStep ==
  ASSUME CoverInv, CoverInv', NEW T, InStep(T), Multiple(WinSize), NEW size \in Chunks, AddDataFull(size)
  PROVE  InStep(T)'
<1>0. IInv /\ IInv' BY DEF CoverInv
<1> DEFINE e == StillEmpty(dstart, dend, isEmpty)
<1>1. /\ UNCHANGED <<dend, written, misread, sent>> /\ CheckWindow(nodes, dend, e)
  BY DEF AddDataFull
<1>2. /\ packseq \in Nat /\ acked \in Nat /\ dstart = Wrap(acked) /\ dstart \in Address
      /\ nodes \in Seq(Node) /\ Len(nodes) \in Nat /\ dend \in 0..BufSize
      /\ Tiles(nodes, acked, packseq) /\ Len(nodes) < packseq
      /\ written \in Nat
  BY <1>0, IInvFacts, Sizes
<1>3. e \in BOOLEAN BY DEF StillEmpty
<1>4. ASSUME misread'
      PROVE  /\ acked = written' /\ SpaceLeft(dstart', dend', isEmpty') = 0
             /\ misread \/ Len(nodes) = 0
  <2>1. misread /\ acked = written /\ SpaceLeft(dstart, dend, isEmpty) = 0
    BY <1>1, <1>4 DEF InStep, PhantomsOnly
  <2>2. AckedPrefix(nodes) = 0 BY <1>0, NothingReleased
  <2>3. Offsets(nodes)[0] = 0 BY <1>2, OffsetsStep
  <2>4. SpaceLeft(dstart, dend, e) = 0 BY <2>1, <1>2, StillEmptySame
  <2> HIDE DEF e
  <2>5. acked' = acked
    <3>1. acked' = acked + Offsets(nodes)[AckedPrefix(nodes)] BY <1>1, <1>2, <1>3, CheckWindowTiles
    <3> QED BY <3>1, <2>2, <2>3, <1>2
  <2>6. dstart' = dstart
    <3>1. dstart' = Wrap(acked') BY <1>1, <1>2, <1>3, CheckWindowTiles
    <3> QED BY <3>1, <2>5, <1>2
  <2>7. isEmpty' = StillEmpty(dstart, dend, e)
    <3>1. isEmpty' = StillEmpty(dstart', dend, e \/ (AckedPrefix(nodes) > 0 /\ AckedPrefix(nodes) = Len(nodes)))
      BY <1>1, <1>2, <1>3, CheckWindowTiles
    <3>2. ~(AckedPrefix(nodes) > 0) BY <2>2
    <3>3. (e \/ (AckedPrefix(nodes) > 0 /\ AckedPrefix(nodes) = Len(nodes))) = e BY <3>2, <1>3
    <3> QED BY <3>1, <3>3, <2>6
  <2>8. SpaceLeft(dstart, dend, isEmpty') = 0 BY <2>4, <2>7, <1>2, StillEmptySame
  <2> QED BY <2>1, <2>6, <2>8, <1>1
<1>5. ASSUME ~misread' PROVE FullButLast(nodes')
  <2>1. ~misread BY <1>5, <1>1
  <2> HIDE DEF e
  <2> QED BY <2>1, <1>1, <1>2, <1>3, <1>5, CutsStayFull
<1>6. written <= written' BY <1>1, <1>2
<1> HIDE DEF e
<1> QED BY <1>0, <1>1, <1>2, <1>3, <1>4, <1>5, <1>6, AddStep

(* A step that at most marks packets, none as acknowledged, and sends      *)
(* packets of the stream.                                                  *)
LEMMA MarkStep ==
  ASSUME IInv, NEW T, InStep(T), UNCHANGED <<dstart, dend, isEmpty, packseq, acked, written, misread>>,
         \/ UNCHANGED nodes
         \/ \E I : \E a \in {Unsent, Waiting} : nodes' = Marked(nodes, I, a),
         misread => sent' = sent, \A p \in sent' : IsPacket(p)
  PROVE  InStep(T)'
<1>1. nodes \in Seq(Node) BY IInvFacts
<1>2. /\ Len(nodes') = Len(nodes)
      /\ \A i \in 1..Len(nodes) : /\ nodes'[i].size = nodes[i].size
                                  /\ nodes'[i].seqnum = nodes[i].seqnum
                                  /\ nodes'[i].ack = Acked => nodes[i].ack = Acked
  <2>1. CASE \E I : \E a \in {Unsent, Waiting} : nodes' = Marked(nodes, I, a)
    <3>1. PICK I, a : a \in {Unsent, Waiting} /\ nodes' = Marked(nodes, I, a) BY <2>1
    <3>2. a # Acked /\ a \in {Unsent, Waiting, Acked} BY <3>1 DEF Unsent, Waiting, Acked
    <3> QED BY <3>1, <3>2, <1>1, MarkedFacts
  <2> QED BY <2>1
<1>3. /\ acked = (packseq - Len(nodes) - 1) * Mss
      /\ \A s \in 1..packseq-Len(nodes)-1 : s \in T
      /\ \A i \in 1..Len(nodes) : nodes[i].ack = Acked => nodes[i].seqnum \in T
      /\ misread => PhantomsOnly
      /\ ~misread => FullButLast(nodes)
  BY DEF InStep
<1>4. misread' => PhantomsOnly'
  <2> SUFFICES ASSUME misread' PROVE PhantomsOnly' OBVIOUS
  <2>1. PhantomsOnly /\ sent' = sent BY <1>3
  <2>2. acked' = written' /\ SpaceLeft(dstart', dend', isEmpty') = 0 BY <2>1 DEF PhantomsOnly
  <2>3. \A i \in 1..Len(nodes') : \A p \in sent' : nodes'[i].seqnum # p.seq BY <2>1, <1>2 DEF PhantomsOnly
  <2> QED BY <2>2, <2>3 DEF PhantomsOnly, SpaceLeft
<1>5. ~misread' => FullButLast(nodes') BY <1>2, <1>3 DEF FullButLast
<1>6. \A p \in sent' : IsPacket(p)' BY DEF IsPacket, PacketOf
<1> QED BY <1>2, <1>3, <1>4, <1>5, <1>6 DEF InStep, FullButLast

(* timerExpire marks a packet and touches nothing else of the window.      *)
LEMMA TimerExpireInStep ==
  ASSUME IInv, NEW T, InStep(T), NEW num, TimerExpire(num)
  PROVE  InStep(T)'
<1>1. /\ UNCHANGED <<dstart, dend, isEmpty, packseq, acked, written, misread, sent>>
      /\ nodes' = Marked(nodes, Numbered(num), Unsent)
  BY DEF TimerExpire, history
<1>2. \A p \in sent' : IsPacket(p) BY <1>1 DEF InStep
<1> QED BY <1>1, <1>2, MarkStep

(* A recvACK that kills the process leaves the window as it was.           *)
LEMMA CrashInStep ==
  ASSUME IInv, NEW T, InStep(T), NEW num, RecvACKCrash(num)
  PROVE  InStep(T)'
<1>1. UNCHANGED <<dstart, dend, isEmpty, nodes, packseq, acked, written, misread, sent>>
  BY DEF RecvACKCrash, history
<1>2. \A p \in sent' : IsPacket(p) BY <1>1 DEF InStep
<1> QED BY <1>1, <1>2, MarkStep

(* What a listed packet is when it is sent.                                *)
LEMMA ListedIsPacket ==
  ASSUME StreamInv, NEW T, InStep(T), Multiple(WinSize), ~misread, fault = "none",
         NEW i \in 1..Len(nodes)
  PROVE  IsPacket([seq |-> nodes[i].seqnum, payload |-> Payload(nodes[i])])
<1>0. KeptInv /\ CoverInv /\ IInv BY DEF StreamInv, KeptInv, CoverInv
<1>1. PICK first : CutAt(first, nodes, acked, packseq) BY DEF StreamInv
<1>2. /\ nodes \in Seq(Node) /\ packseq \in Nat \ {0} /\ Len(nodes) \in Nat /\ Len(nodes) < packseq
      /\ Tiles(nodes, acked, packseq) /\ acked \in Nat
  BY <1>0, IInvFacts
<1> DEFINE n == Len(nodes)
           O == Offsets(nodes)
           s == nodes[i].seqnum
           z == nodes[i].size
           f == (s - 1) * Mss
           p == [seq |-> s, payload |-> Payload(nodes[i])]
<1>3. i - 1 \in 0..n /\ i \in 0..n /\ n \in 0..n /\ i <= n BY <1>2
<1>4. /\ O[i-1] \in Nat /\ O[i] \in Nat /\ O[n] \in Nat /\ O[i] = O[i-1] + z /\ z \in 1..Mss
      /\ O[i] <= O[n]
  BY <1>2, <1>3, OffsetsStep, OffsetsMonotonic
<1>5. acked + O[i-1] = f
  <2>1. acked = (packseq - Len(nodes) - 1) * Mss /\ FullButLast(nodes) BY DEF InStep
  <2> QED BY <2>1, <1>0, PlaceOf
<1>6. s \in 1..packseq-1 /\ p = Piece(first, s) BY <1>0, <1>1, PayloadIsPiece
<1>7. s = packseq - n + (i - 1) /\ s + 1 = packseq - n + i BY <1>2 DEF Tiles
<1>8. first[s] = acked + O[i-1] /\ first[s+1] = acked + O[i] BY <1>1, <1>3, <1>7 DEF CutAt
<1>9. O[n] = Least(written - acked, WinSize) /\ written \in Nat BY <1>0, CoverFacts
<1> DEFINE o1 == O[i-1]
           o2 == O[i]
           on == O[n]
<1>10. /\ o1 \in Nat /\ o2 \in Nat /\ on \in Nat /\ o2 = o1 + z /\ o2 <= on /\ acked + o1 = f
       /\ on = Least(written - acked, WinSize) /\ first[s] = f /\ first[s+1] = acked + o2
       /\ z \in Nat /\ z > 0 /\ acked \in Nat
  BY <1>2, <1>4, <1>5, <1>8, <1>9, Sizes
<1> HIDE DEF o1, o2, on, O, n, s, f, z
<1>11. first[s+1] - first[s] = z /\ f \in Int
  <2>1. f \in Int BY <1>10
  <2>2. acked + o2 - f = z BY <1>10, <2>1
  <2> QED BY <1>10, <2>1, <2>2
<1>12. f + z <= written
  <2>1. acked + on <= written BY <1>9, <1>10, Sizes DEF Least
  <2>2. f + z = acked + o2 BY <1>10
  <2> QED BY <2>1, <2>2, <1>9, <1>10
<1>13. f < acked + WinSize
  <2>1. on <= WinSize BY <1>9, <1>10, Sizes DEF Least
  <2> QED BY <2>1, <1>10, Sizes
<1>14. Piece(first, s) = [seq |-> s, payload |-> [j \in 1..z |-> f + j - 1]] BY <1>10, <1>11 DEF Piece
<1>15. p = [seq |-> s, payload |-> [j \in 1..z |-> f + j - 1]]
  <2> HIDE DEF p
  <2> QED BY <1>6, <1>14
<1>16. p = PacketOf(s, z) BY <1>15 DEF PacketOf, f
<1>17. p.seq = s OBVIOUS
<1>18. f + z <= written /\ f < acked + WinSize BY <1>12, <1>13
<1> HIDE DEF p
<1>19. IsPacket(p)
  <2>1. (p.seq - 1) * Mss = f BY <1>17 DEF f
  <2>2. z \in 1..Mss BY <1>4
  <2> QED BY <2>1, <2>2, <1>16, <1>17, <1>18 DEF IsPacket
<1> QED BY <1>19 DEF p, s

(* sendWindow of a ring that has not been misread.                         *)
LEMMA SendInStep ==
  ASSUME StreamInv, NEW T, InStep(T), Multiple(WinSize), ~misread, SendWindow
  PROVE  InStep(T)'
<1>0. IInv BY DEF StreamInv, KeptInv, CoverInv
<1>1. /\ sent' = sent \cup {[seq |-> nodes[i].seqnum, payload |-> Payload(nodes[i])] : i \in Outgoing}
      /\ nodes' = Marked(nodes, Outgoing, Waiting) /\ fault = "none"
      /\ UNCHANGED <<dstart, dend, isEmpty, packseq, acked, written, misread>>
  BY DEF SendWindow, Running
<1>2. ASSUME NEW p \in sent' PROVE IsPacket(p)
  <2>1. CASE p \in sent BY <2>1 DEF InStep
  <2>2. CASE p \notin sent
    <3>1. PICK i \in Outgoing : p = [seq |-> nodes[i].seqnum, payload |-> Payload(nodes[i])]
      BY <1>1, <1>2, <2>2
    <3>2. i \in 1..Len(nodes) BY DEF Outgoing
    <3> QED BY <1>1, <3>1, <3>2, ListedIsPacket
  <2> QED BY <2>1, <2>2
<1> QED BY <1>0, <1>1, <1>2, MarkStep

(* recvACK of a number in T, when all numbers in T are those of whole      *)
(* packets.                                                                *)
LEMMA RecvACKInStep ==
  ASSUME CoverInv, CoverInv', NEW T, InStep(T), Multiple(WinSize), NEW num \in T, RecvACK(num),
         \A s \in T : s \in Nat /\ s * Mss <= written
  PROVE  InStep(T)'
<1>0. IInv /\ IInv' BY DEF CoverInv
<1>1. /\ UNCHANGED <<dend, written, sent>> /\ \E p \in sent : p.seq = num
  BY DEF RecvACK
<1>2. /\ packseq \in Nat /\ acked \in Nat /\ dstart = Wrap(acked) /\ dstart \in Address
      /\ nodes \in Seq(Node) /\ Len(nodes) \in Nat /\ dend \in 0..BufSize /\ isEmpty \in BOOLEAN
      /\ Tiles(nodes, acked, packseq) /\ Len(nodes) < packseq
      /\ written \in Nat
  BY <1>0, IInvFacts, Sizes
<1>3. \A p \in sent' : IsPacket(p) BY <1>1 DEF InStep
<1>4. CASE Numbered(num) = {}
  <2>1. UNCHANGED <<dstart, isEmpty, nodes, packseq, acked, misread>> BY <1>4 DEF RecvACK
  <2> QED BY <2>1, <1>0, <1>1, <1>3, MarkStep
<1>5. CASE Numbered(num) # {}
  <2> DEFINE ns == Marked(nodes, Numbered(num), Acked)
             k  == AckedPrefix(ns)
  <2>1. /\ CheckWindow(ns, dend, isEmpty)
        /\ misread' = (misread \/ (acked' = written /\ dend = BufSize))
    BY <1>5 DEF RecvACK
  <2>2. PICK x \in 1..Len(nodes) : nodes[x].seqnum = num BY <1>5 DEF Numbered
  <2>3. ~misread BY <2>2, <1>1 DEF InStep, PhantomsOnly
  <2>4. /\ acked = (packseq - Len(nodes) - 1) * Mss
        /\ \A s \in 1..packseq-Len(nodes)-1 : s \in T
        /\ \A i \in 1..Len(nodes) : nodes[i].ack = Acked => nodes[i].seqnum \in T
        /\ FullButLast(nodes)
    BY <2>3 DEF InStep
  <2>5. /\ ns \in Seq(Node) /\ Len(ns) = Len(nodes)
        /\ \A i \in 1..Len(nodes) :
             /\ ns[i].size = nodes[i].size /\ ns[i].data = nodes[i].data
             /\ ns[i].seqnum = nodes[i].seqnum
             /\ ns[i].ack = IF i \in Numbered(num) THEN Acked ELSE nodes[i].ack
    <3>1. Acked \in {Unsent, Waiting, Acked} OBVIOUS
    <3> QED BY <3>1, <1>2, MarkedFacts
  <2> HIDE DEF ns
  <2>6. Tiles(ns, acked, packseq)
    <3>1. /\ nodes \in Seq(Node) /\ ns \in Seq(Node) /\ Len(ns) = Len(nodes)
          /\ Tiles(nodes, acked, packseq)
          /\ \A i \in 1..Len(nodes) :
               /\ ns[i].size = nodes[i].size /\ ns[i].data = nodes[i].data
               /\ ns[i].seqnum = nodes[i].seqnum
      BY <1>2, <2>5
    <3> QED BY <3>1, SameTiles
  <2>7. ASSUME NEW i \in 1..Len(ns), ns[i].ack = Acked PROVE ns[i].seqnum \in T
    <3>1. i \in 1..Len(nodes) BY <2>5
    <3>2. CASE i \in Numbered(num) BY <3>1, <3>2, <2>5 DEF Numbered
    <3>3. CASE i \notin Numbered(num) BY <3>1, <3>3, <2>4, <2>5, <2>7
    <3> QED BY <3>2, <3>3
  <2>8. k \in 0..Len(ns) /\ \A i \in 1..k : ns[i].ack = Acked BY <2>5, AckedPrefixFacts
  <2> HIDE DEF k
  <2>9. ASSUME NEW i \in 1..k PROVE ns[i].size = Mss
    <3>1. i \in 1..Len(ns) /\ i \in 1..Len(nodes) BY <2>5, <2>8, <1>2
    <3>2. ns[i].seqnum \in T BY <3>1, <2>7, <2>8
    <3> DEFINE s == nodes[i].seqnum
    <3>3. s \in T /\ ns[i].size = nodes[i].size BY <3>1, <3>2, <2>5
    <3>4. nodes[i].size = Least(Mss, written - (s - 1) * Mss) BY <3>1, <2>3, <2>4, PlaceOf
    <3>5. s \in Nat /\ s * Mss <= written BY <3>3
    <3> HIDE DEF s
    <3>6. (s - 1) * Mss = s * Mss - Mss /\ s * Mss \in Int BY <3>5, Sizes
    <3>7. ~(written - (s - 1) * Mss < Mss) BY <3>5, <3>6, <1>2, Sizes
    <3>8. Least(Mss, written - (s - 1) * Mss) = Mss
      <4> DEFINE d == written - (s - 1) * Mss
      <4>1. d \in Int /\ ~(d < Mss) BY <3>6, <3>7, <1>2, Sizes
      <4> HIDE DEF d
      <4>2. Least(Mss, d) = Mss BY <4>1, Sizes DEF Least
      <4> QED BY <4>2 DEF d
    <3> QED BY <3>3, <3>4, <3>8
  <2>10. /\ acked' = (packseq' - Len(nodes') - 1) * Mss
         /\ \A s \in 1..packseq'-Len(nodes')-1 : s \in T
         /\ \A i \in 1..Len(nodes') : nodes'[i].ack = Acked => nodes'[i].seqnum \in T
         /\ packseq' - Len(nodes') = packseq - Len(nodes) + k
    <3>1. \A i \in 1..AckedPrefix(ns) : ns[i].size = Mss BY <2>9 DEF k
    <3>2. \A i \in 1..Len(ns) : ns[i].ack = Acked => ns[i].seqnum \in T BY <2>7
    <3>3. Len(ns) = Len(nodes) /\ ns \in Seq(Node) BY <2>5
    <3> QED BY <3>1, <3>2, <3>3, <1>0, <1>2, <2>1, <2>4, <2>6, WholeRelease DEF k
  <2>11. acked' = acked + Offsets(ns)[k]
    BY <2>1, <2>5, <2>6, <1>2, CheckWindowTiles DEF k
  <2>12. Offsets(ns)[k] \in Nat BY <2>5, <2>8, OffsetsStep
  <2>13. \A p \in sent' : IsPacket(p)'
    <3>1. written <= written' /\ acked <= acked' BY <1>1, <1>2, <2>11, <2>12
    <3>2. \A p \in sent : IsPacket(p) BY <1>1, <1>3
    <3> QED BY <1>0, <1>1, <3>1, <3>2, PacketsStay
  <2>14. ASSUME ~misread' PROVE FullButLast(nodes')
    <3>1. /\ Len(ns) = Len(nodes) /\ ns \in Seq(Node)
          /\ \A i \in 1..Len(nodes) : ns[i].size = nodes[i].size
      BY <2>5
    <3> QED BY <3>1, <1>1, <1>2, <2>1, <2>3, <2>6, <2>14, CutsStayFull
  <2>15. ASSUME misread' PROVE PhantomsOnly'
    <3>1. acked' = written /\ dend = BufSize BY <2>1, <2>3, <2>15
    <3>2. Wrap(dend) = Wrap(written) /\ Offsets(nodes)[Len(nodes)] = Least(written - acked, WinSize)
      BY <2>3, CoverFacts
    <3>3. k = Len(ns)
      <4> DEFINE g == Offsets(ns)[k]
                 t == Offsets(ns)[Len(ns)]
      <4>1. Offsets(ns) = Offsets(nodes) BY <1>2, <2>5, OffsetsSameSizes
      <4>2. t = Least(written - acked, WinSize) BY <4>1, <2>5, <3>2
      <4>3. g = written - acked BY <2>11, <2>12, <3>1, <1>2
      <4>4. t \in Nat /\ g \in Nat BY <2>5, <2>12, OffsetsStep
      <4>5. k < Len(ns) => g < t BY <2>5, <2>8, OffsetsStrict
      <4> HIDE DEF g, t
      <4>6. ~(g < t) BY <4>2, <4>3, <4>4, Sizes DEF Least
      <4>7. Len(ns) \in Nat BY <2>5, <1>2
      <4> QED BY <4>5, <4>6, <4>7, <2>8
    <3>4. dstart' = 0
      <4>1. dstart' = Wrap(acked') BY <2>1, <2>5, <2>6, <1>2, CheckWindowTiles
      <4>2. Wrap(BufSize) = 0
        <5>1. Wrap(0 + BufSize) = Wrap(0) /\ 0 \in Int BY OneLap
        <5>2. 0 \in Address BY Sizes DEF Address
        <5>3. Wrap(0) = 0 BY <5>2, WrapFacts
        <5>4. 0 + BufSize = BufSize BY Sizes
        <5> QED BY <5>1, <5>3, <5>4
      <4> QED BY <4>1, <4>2, <3>1, <3>2
    <3>5. SpaceLeft(dstart', dend', isEmpty') = 0
      <4>1. dend' = BufSize /\ 0 < BufSize /\ ~(BufSize < 0) /\ BufSize - (BufSize - 0) = 0
        BY <1>1, <3>1, Sizes
      <4> QED BY <4>1, <3>4 DEF SpaceLeft
    <3>6. ASSUME NEW i \in 1..Len(nodes'), NEW p \in sent PROVE nodes'[i].seqnum # p.seq
      <4>1. p.seq \in 1..packseq-1 BY <1>0, IInvFacts
      <4>2. packseq' \in Nat /\ Len(nodes') \in Nat /\ Tiles(nodes', acked', packseq')
        BY <1>0, IInvFacts, TilingIsTilesNext DEF IInv, TypeOK
      <4>3. nodes'[i].seqnum = packseq' - Len(nodes') + i - 1 BY <4>2 DEF Tiles
      <4>4. packseq' - Len(nodes') = packseq
        <5>1. k = Len(nodes) BY <3>3, <2>5
        <5> QED BY <5>1, <2>10, <1>2
      <4>5. nodes'[i].seqnum >= packseq BY <4>2, <4>3, <4>4, <1>2
      <4> QED BY <4>1, <4>5, <1>2
    <3>7. acked' = written' BY <3>1, <1>1
    <3> QED BY <3>5, <3>6, <3>7, <1>1 DEF PhantomsOnly, SpaceLeft
  <2> QED BY <2>10, <2>13, <2>14, <2>15 DEF InStep, FullButLast
<1> QED BY <1>4, <1>5

(* More numbers may be acknowledged than the client knows of.              *)
LEMMA MoreInStep == ASSUME NEW T, InStep(T), NEW U, T \subseteq U PROVE InStep(U)
BY DEF InStep

(* An empty ring is in step with any acknowledgements.                     *)
LEMMA InitInStep == ASSUME Init, NEW T PROVE InStep(T)
<1>1. nodes = <<>> /\ packseq = 1 /\ acked = 0 /\ sent = {} /\ misread = FALSE BY DEF Init
<1>2. Len(nodes) = 0 BY <1>1
<1>3. 0 * Mss = 0 BY Sizes
<1>4. packseq - Len(nodes) - 1 = 0
  <2>1. packseq = 1 BY <1>1
  <2> QED BY <2>1, <1>2
<1>5. 1..0 = {} /\ 1..0-1 = {} OBVIOUS
<1> QED BY <1>1, <1>2, <1>3, <1>4, <1>5 DEF InStep, FullButLast

(* Neither what is written, nor what is released, nor the end of the       *)
(* window ever goes back.                                                  *)
LEMMA WindowGoesOn ==
  ASSUME IInv, IInv', Next
  PROVE  /\ written <= written' /\ acked <= acked'
         /\ acked + Offsets(nodes)[Len(nodes)] <= acked' + Offsets(nodes')[Len(nodes')]
<1>0. /\ nodes \in Seq(Node) /\ packseq \in Nat \ {0} /\ acked \in Nat /\ written \in Nat
      /\ dstart = Wrap(acked) /\ Tiles(nodes, acked, packseq) /\ Len(nodes) < packseq
      /\ dend \in 0..BufSize /\ isEmpty \in BOOLEAN
  <2>1. written \in Nat BY IInvFacts, Sizes
  <2> QED BY <2>1, IInvFacts
<1>1. dend' \in 0..BufSize BY DEF IInv, TypeOK
<1> DEFINE total == Offsets(nodes)[Len(nodes)]
<1>2. total \in Nat BY <1>0, OffsetsStep
<1>3. ASSUME NEW ns \in Seq(Node), Len(ns) = Len(nodes), Tiles(ns, acked, packseq),
             Offsets(ns) = Offsets(nodes), NEW end \in 0..BufSize, NEW empty \in BOOLEAN,
             CheckWindow(ns, end, empty)
      PROVE  acked <= acked' /\ acked + total <= acked' + Offsets(nodes')[Len(nodes')]
  <2> DEFINE gone == Offsets(ns)[AckedPrefix(ns)]
             left == Offsets(ns)[Len(ns)] - gone
             want == Wanted(Wrap(acked + gone), end, empty \/ (AckedPrefix(ns) > 0 /\ AckedPrefix(ns) = Len(ns)))
  <2>1. /\ gone \in Nat /\ left \in Nat /\ want \in 0..WinSize /\ acked' = acked + gone
        /\ Offsets(nodes')[Len(nodes')] = IF left < want THEN want ELSE left
    BY <1>0, <1>3, CheckWindowTiles
  <2>2. left = total - gone BY <1>3
  <2>3. WinSize \in Nat BY Sizes
  <2> HIDE DEF gone, left, want, total
  <2> QED BY <1>0, <1>2, <2>1, <2>2, <2>3
<1>4. ASSUME acked' = acked, nodes' \in Seq(Node), Len(nodes') = Len(nodes),
             \A i \in 1..Len(nodes) : nodes'[i].size = nodes[i].size
      PROVE  acked <= acked' /\ acked + total <= acked' + Offsets(nodes')[Len(nodes')]
  <2>1. Offsets(nodes') = Offsets(nodes) BY <1>0, <1>4, OffsetsSameSizes
  <2> HIDE DEF total
  <2>2. Offsets(nodes')[Len(nodes')] = total BY <1>4, <2>1 DEF total
  <2> QED BY <1>0, <1>2, <1>4, <2>2
<1>5. ASSUME NEW I, NEW a \in {Unsent, Waiting, Acked}, NEW ns, ns = Marked(nodes, I, a)
      PROVE  /\ ns \in Seq(Node) /\ Len(ns) = Len(nodes) /\ Tiles(ns, acked, packseq)
             /\ Offsets(ns) = Offsets(nodes) /\ \A i \in 1..Len(nodes) : ns[i].size = nodes[i].size
  <2>1. /\ ns \in Seq(Node) /\ Len(ns) = Len(nodes)
        /\ \A i \in 1..Len(nodes) : /\ ns[i].size = nodes[i].size /\ ns[i].data = nodes[i].data
                                    /\ ns[i].seqnum = nodes[i].seqnum
    BY <1>0, <1>5, MarkedFacts
  <2> QED BY <1>0, <2>1, SameTiles
<1>6. Unsent \in {Unsent, Waiting, Acked} /\ Waiting \in {Unsent, Waiting, Acked} /\ Acked \in {Unsent, Waiting, Acked}
  OBVIOUS
<1> HIDE DEF total
<1>7. ASSUME NEW size \in Chunks, AddData(size)
      PROVE  written <= written' /\ acked <= acked' /\ acked + total <= acked' + Offsets(nodes')[Len(nodes')]
  <2>1. CheckWindow(nodes, dend', FALSE) /\ written' = written + size BY <1>7 DEF AddData
  <2>2. size \in Nat BY Sizes
  <2>3. written <= written' BY <1>0, <2>1, <2>2
  <2> QED BY <1>0, <1>1, <1>3, <2>1, <2>3
<1>8. ASSUME NEW size \in Chunks, AddDataFull(size)
      PROVE  written <= written' /\ acked <= acked' /\ acked + total <= acked' + Offsets(nodes')[Len(nodes')]
  <2>1. CheckWindow(nodes, dend, StillEmpty(dstart, dend, isEmpty)) /\ written' = written
    BY <1>8 DEF AddDataFull
  <2>2. StillEmpty(dstart, dend, isEmpty) \in BOOLEAN BY DEF StillEmpty
  <2> QED BY <1>0, <1>3, <2>1, <2>2
<1>9. ASSUME NEW num, RecvACK(num)
      PROVE  written <= written' /\ acked <= acked' /\ acked + total <= acked' + Offsets(nodes')[Len(nodes')]
  <2>1. written' = written BY <1>9 DEF RecvACK
  <2>2. CASE Numbered(num) # {}
    <3>1. CheckWindow(Marked(nodes, Numbered(num), Acked), dend, isEmpty) BY <1>9, <2>2 DEF RecvACK
    <3>2. PICK ns : ns = Marked(nodes, Numbered(num), Acked) OBVIOUS
    <3>3. /\ ns \in Seq(Node) /\ Len(ns) = Len(nodes) /\ Tiles(ns, acked, packseq)
          /\ Offsets(ns) = Offsets(nodes)
      BY <1>5, <1>6, <3>2
    <3>4. CheckWindow(ns, dend, isEmpty) BY <3>1, <3>2
    <3> QED BY <1>0, <1>3, <2>1, <3>3, <3>4
  <2>3. CASE Numbered(num) = {}
    <3>1. UNCHANGED <<nodes, acked>> BY <1>9, <2>3 DEF RecvACK
    <3> QED BY <1>0, <1>4, <2>1, <3>1
  <2> QED BY <2>2, <2>3
<1>10. ASSUME NEW num, RecvACKCrash(num)
       PROVE  written <= written' /\ acked <= acked' /\ acked + total <= acked' + Offsets(nodes')[Len(nodes')]
  <2>1. UNCHANGED <<nodes, acked, written>> BY <1>10 DEF RecvACKCrash, history
  <2> QED BY <1>0, <1>4, <2>1
<1>11. ASSUME NEW bsn, TimerExpire(bsn)
       PROVE  written <= written' /\ acked <= acked' /\ acked + total <= acked' + Offsets(nodes')[Len(nodes')]
  <2>1. nodes' = Marked(nodes, Numbered(bsn), Unsent) /\ UNCHANGED <<acked, written>>
    BY <1>11 DEF TimerExpire, history
  <2> QED BY <1>0, <1>4, <1>5, <1>6, <2>1
<1>12. ASSUME SendWindow
       PROVE  written <= written' /\ acked <= acked' /\ acked + total <= acked' + Offsets(nodes')[Len(nodes')]
  <2>1. nodes' = Marked(nodes, Outgoing, Waiting) /\ UNCHANGED <<acked, written>> BY <1>12 DEF SendWindow
  <2> QED BY <1>0, <1>4, <1>5, <1>6, <2>1
<1> QED BY <1>7, <1>8, <1>9, <1>10, <1>11, <1>12 DEF Next, total

================================================================================
