----------------------------- MODULE CBufferStream -----------------------------
(* What the send buffer keeps of the stream, proved for every size: as     *)
(* long as spaceLeft has not misread the ring, the packets cover exactly   *)
(* the stored bytes, and a stored byte stays until it is acknowledged.     *)
EXTENDS CBufferProofs

(* The ring's two ends and its free space say which bytes are stored. *)
RingOK ==
  ~misread =>
    /\ written - acked \in 0..BufSize
    /\ Wrap(dend) = Wrap(written)
    /\ SpaceLeft(dstart, dend, isEmpty) = BufSize - (written - acked)

(* The inductive invariant: the packets cannot be shown to cover the       *)
(* stored bytes unless spaceLeft is known to count them.                   *)
CoverInv == IInv /\ RingOK /\ WindowCoversStream

--------------------------------------------------------------------------------

(* Integers with one address are whole laps apart. *)
LEMMA WholeLaps ==
  ASSUME NEW x \in Int, NEW y \in Int, Wrap(x) = Wrap(y)
  PROVE  \E q \in Int : x - y = BufSize * q
<1> DEFINE p == x \div BufSize
           r == x % BufSize
           u == y \div BufSize
           v == y % BufSize
<1>1. p \in Int /\ r \in Int /\ x = BufSize * p + r BY Sizes, DivMod
<1>2. u \in Int /\ v \in Int /\ y = BufSize * u + v BY Sizes, DivMod
<1>3. r = v BY DEF Wrap
<1> HIDE DEF p, r, u, v
<1>4. x - y = BufSize * (p - u) BY <1>1, <1>2, <1>3, Sizes
<1> QED BY <1>1, <1>2, <1>4

(* Less than a lap that is whole laps is none. *)
LEMMA NoWholeLap ==
  ASSUME NEW d \in Int, d < BufSize, d >= 0, \E q \in Int : d = BufSize * q
  PROVE  d = 0
<1>1. PICK q \in Int : d = BufSize * q OBVIOUS
<1>2. CASE q >= 1
  <2>1. BufSize * q >= BufSize BY <1>2, Sizes
  <2> QED BY <2>1, <1>1, Sizes
<1>3. CASE q <= -1
  <2>1. BufSize * q <= -BufSize BY <1>3, Sizes
  <2> QED BY <2>1, <1>1, Sizes
<1>4. CASE q = 0 BY <1>4, <1>1, Sizes
<1> QED BY <1>2, <1>3, <1>4

(* Less than a lap apart, one address is one byte. *)
LEMMA SameAddressSameByte ==
  ASSUME NEW w \in Nat, NEW a \in Nat, w - a \in 0..BufSize, w - a < BufSize, Wrap(w) = Wrap(a)
  PROVE  w = a
<1> DEFINE d == w - a
<1>1. d \in Int /\ d < BufSize /\ d >= 0 BY Sizes
<1>2. w \in Int /\ a \in Int OBVIOUS
<1>3. \E q \in Int : d = BufSize * q BY <1>2, WholeLaps
<1> HIDE DEF d
<1>4. d = 0 BY <1>1, <1>3, NoWholeLap
<1> QED BY <1>2, <1>4 DEF d

(* A lap more or less does not change the address. *)
LEMMA OneLap == ASSUME NEW x \in Int PROVE Wrap(x - BufSize) = Wrap(x) /\ Wrap(x + BufSize) = Wrap(x)
<1> DEFINE p == x \div BufSize
           r == x % BufSize
<1>1. p \in Int /\ r \in 0..BufSize-1 /\ x = BufSize * p + r BY Sizes, DivMod
<1>2. Wrap(x) = r BY DEF Wrap
<1> HIDE DEF p, r
<1>3. x - BufSize = BufSize * (p - 1) + r /\ x + BufSize = BufSize * (p + 1) + r BY <1>1, Sizes
<1>4. p - 1 \in Int /\ p + 1 \in Int /\ x - BufSize \in Int /\ x + BufSize \in Int BY <1>1, Sizes
<1>5. (x - BufSize) % BufSize = r BY <1>1, <1>3, <1>4, Sizes, ModUnique
<1>6. (x + BufSize) % BufSize = r BY <1>1, <1>3, <1>4, Sizes, ModUnique
<1> QED BY <1>2, <1>5, <1>6 DEF Wrap

(* spaceLeft() counts the free bytes, if isEmpty is set exactly when the   *)
(* ring is empty and its ends are at one address.                          *)
LEMMA SpaceLeftCounts ==
  ASSUME NEW a \in Nat, NEW w \in Nat, w - a \in 0..BufSize,
         NEW start \in Address, NEW end \in 0..BufSize, NEW empty \in BOOLEAN,
         start = Wrap(a), Wrap(end) = Wrap(w),
         w = a <=> (empty /\ start = end)
  PROVE  SpaceLeft(start, end, empty) = BufSize - (w - a)
<1>1. /\ start \in Int /\ end \in Int /\ a \in Int /\ w \in Int
      /\ BufSize \in Nat \ {0} /\ start < BufSize /\ start >= 0
  BY Sizes DEF Address
<1>2. Wrap(start) = Wrap(a) BY WrapFacts
<1>a. \E p \in Int : a - start = BufSize * p BY <1>1, <1>2, WholeLaps, Zenon
<1>b. \E p \in Int : w - end = BufSize * p
  <2>1. Wrap(w) = Wrap(end) OBVIOUS
  <2> QED BY <1>1, <2>1, WholeLaps, Zenon
<1>3. PICK q1 \in Int : a - start = BufSize * q1 BY <1>a
<1>4. PICK q2 \in Int : w - end = BufSize * q2 BY <1>b
<1> DEFINE q == q2 - q1
           d == w - a
           e == end - start
<1>5. q \in Int /\ d - e = BufSize * q /\ d \in 0..BufSize /\ e \in 1-BufSize..BufSize
  <2>1. BufSize * (q2 - q1) = BufSize * q2 - BufSize * q1 BY <1>1
  <2>2. BufSize * q2 \in Int /\ BufSize * q1 \in Int BY <1>1
  <2> QED BY <1>1, <1>3, <1>4, <2>1, <2>2
<1> HIDE DEF q
<1>6. q \in {-1, 0, 1}
  <2>1. CASE q >= 2
    <3>1. BufSize * q >= BufSize * 2 BY <1>1, <1>5, <2>1
    <3> QED BY <3>1, <1>1, <1>5
  <2>2. CASE q <= -2
    <3>1. BufSize * q <= BufSize * (-2) BY <1>1, <1>5, <2>2
    <3> QED BY <3>1, <1>1, <1>5
  <2> QED BY <2>1, <2>2, <1>5
<1> HIDE DEF d, e
<1>7. d - e = -BufSize \/ d = e \/ d - e = BufSize
  <2>1. CASE q = -1 BY <2>1, <1>5, <1>1
  <2>2. CASE q = 0 BY <2>2, <1>5, <1>1
  <2>3. CASE q = 1 BY <2>3, <1>5, <1>1
  <2> QED BY <2>1, <2>2, <2>3, <1>6
<1>8. CASE end < start
  <2>1. d = BufSize + e BY <1>1, <1>5, <1>7, <1>8 DEF e
  <2>2. SpaceLeft(start, end, empty) = start - end BY <1>1, <1>8 DEF SpaceLeft
  <2> QED BY <2>1, <2>2, <1>1 DEF d, e
<1>9. CASE start < end
  <2>1. d = e \/ (d = 0 /\ e = BufSize) BY <1>1, <1>5, <1>7, <1>9 DEF e
  <2>2. d # 0 BY <1>1, <1>9 DEF d
  <2>3. SpaceLeft(start, end, empty) = BufSize - (end - start) BY <1>9, <1>1 DEF SpaceLeft
  <2> QED BY <2>1, <2>2, <2>3, <1>1 DEF d, e
<1>10. CASE start = end
  <2>1. d = 0 \/ d = BufSize BY <1>1, <1>5, <1>7, <1>10 DEF e
  <2>2. SpaceLeft(start, end, empty) = IF empty THEN BufSize ELSE 0 BY <1>10, <1>1 DEF SpaceLeft
  <2>3. CASE empty
    <3>1. w = a BY <2>3, <1>10
    <3> QED BY <3>1, <2>2, <2>3, <1>1 DEF d
  <2>4. CASE ~empty
    <3>1. w # a BY <2>4
    <3>2. d # 0 BY <3>1, <1>1 DEF d
    <3> QED BY <3>2, <2>1, <2>2, <2>4, <1>1 DEF d
  <2> QED BY <2>3, <2>4
<1> QED BY <1>1, <1>8, <1>9, <1>10

(* StillEmpty() does not change what spaceLeft() counts. *)
LEMMA StillEmptySame ==
  ASSUME NEW start \in Address, NEW end \in 0..BufSize, NEW empty
  PROVE  SpaceLeft(start, end, StillEmpty(start, end, empty)) = SpaceLeft(start, end, empty)
<1>1. start \in Int /\ end \in Int BY Sizes DEF Address
<1>2. CASE start = end
  <2>1. StillEmpty(start, end, empty) <=> empty BY <1>2 DEF StillEmpty
  <2> QED BY <2>1, <1>1, <1>2 DEF SpaceLeft
<1>3. CASE start # end
  <2>1. end < start \/ start < end BY <1>1, <1>3
  <2> QED BY <2>1, <1>1 DEF SpaceLeft
<1> QED BY <1>2, <1>3

(* More packets, more bytes. *)
LEMMA OffsetsStrict ==
  ASSUME NEW ns \in Seq(Node), NEW k \in 0..Len(ns), k < Len(ns)
  PROVE  Offsets(ns)[k] < Offsets(ns)[Len(ns)]
<1>1. k + 1 \in 1..Len(ns) /\ (k+1)-1 = k /\ Len(ns) \in 0..Len(ns) /\ k+1 \in 0..Len(ns) /\ k+1 <= Len(ns)
  OBVIOUS
<1>2. Offsets(ns)[k+1] = Offsets(ns)[k] + ns[k+1].size /\ ns[k+1].size \in 1..Mss
  BY <1>1, OffsetsStep
<1>3. Offsets(ns)[k+1] <= Offsets(ns)[Len(ns)] BY <1>1, OffsetsMonotonic
<1>4. /\ Offsets(ns)[k] \in Nat /\ Offsets(ns)[k+1] \in Nat /\ Offsets(ns)[Len(ns)] \in Nat
  BY <1>1, OffsetsStep
<1> QED BY <1>2, <1>3, <1>4, Sizes

--------------------------------------------------------------------------------

(* What CoverInv says while the ring is not misread. *)
LEMMA CoverFacts ==
  ASSUME CoverInv, ~misread
  PROVE  /\ written \in Nat /\ acked \in Nat
         /\ written - acked \in 0..BufSize
         /\ Wrap(dend) = Wrap(written)
         /\ SpaceLeft(dstart, dend, isEmpty) = BufSize - (written - acked)
         /\ Offsets(nodes)[Len(nodes)] = Least(written - acked, WinSize)
<1>1. IInv /\ RingOK /\ WindowCoversStream BY DEF CoverInv
<1>2. written \in Nat /\ acked \in Nat BY <1>1, IInvFacts, Sizes
<1>3. nodes \in Seq(Node) BY <1>1, IInvFacts
<1> DEFINE b == Offsets(nodes)[Len(nodes)]
<1>4. b \in Nat BY <1>3, OffsetsStep
<1>5. acked + b = Least(written, acked + WinSize) BY <1>1 DEF WindowCoversStream, WindowBytes
<1> HIDE DEF b
<1>6. b = Least(written - acked, WinSize) BY <1>2, <1>4, <1>5, Sizes DEF Least
<1> QED BY <1>1, <1>2, <1>6 DEF RingOK, b

(* The newest covered byte, counted from the window's start and from the   *)
(* stream's.                                                               *)
LEMMA LeastShift ==
  ASSUME NEW a \in Nat, NEW w \in Nat
  PROVE  a + Least(w - a, WinSize) = Least(w, a + WinSize)
  BY Sizes DEF Least

(* The invariant's two new parts from the same facts of the next state. *)
LEMMA CoverNext ==
  ASSUME IInv', ~misread' => /\ written' - acked' \in 0..BufSize
                             /\ Wrap(dend') = Wrap(written')
                             /\ SpaceLeft(dstart', dend', isEmpty') = BufSize - (written' - acked')
                             /\ Offsets(nodes')[Len(nodes')] = Least(written' - acked', WinSize)
  PROVE  CoverInv'
<1>1. RingOK' BY DEF RingOK, Wrap, SpaceLeft
<1>2. WindowCoversStream'
  <2> SUFFICES ASSUME ~misread' PROVE acked' + WindowBytes' = Least(written', acked' + WinSize)
    BY DEF WindowCoversStream, Least
  <2>1. WindowBytes' = Offsets(nodes')[Len(nodes')] BY DEF WindowBytes, Offsets
  <2>2. WindowBytes' = Least(written' - acked', WinSize) BY <2>1
  <2>3. written' \in Nat /\ acked' \in Nat
    <3>1. written' \in 0..MaxStream /\ acked' \in Nat BY DEF IInv, TypeOK
    <3> QED BY <3>1, Sizes
  <2>4. acked' + Least(written' - acked', WinSize) = Least(written', acked' + WinSize)
    BY <2>3, LeastShift
  <2> QED BY <2>2, <2>4
<1> QED BY <1>1, <1>2 DEF CoverInv

(* checkWindow releases nothing while the first packet is not              *)
(* acknowledged.                                                           *)
LEMMA NothingReleased == ASSUME IInv PROVE AckedPrefix(nodes) = 0
<1>1. nodes \in Seq(Node) /\ Len(nodes) \in Nat BY IInvFacts
<1>2. FrontUnacked BY DEF IInv
<1> DEFINE k == AckedPrefix(nodes)
<1>3. k \in 0..Len(nodes) /\ \A i \in 1..k : nodes[i].ack = Acked BY <1>1, AckedPrefixFacts
<1> HIDE DEF k
<1>4. k = 0
  <2> SUFFICES ASSUME k # 0 PROVE FALSE OBVIOUS
  <2>1. 1 \in 1..k /\ Len(nodes) > 0 BY <1>1, <1>3
  <2> QED BY <2>1, <1>2, <1>3 DEF FrontUnacked
<1> QED BY <1>4 DEF k

(* So addData's checkWindow only adds packets. *)
LEMMA CheckWindowAdds ==
  ASSUME CoverInv, ~misread, NEW end \in 0..BufSize, NEW empty \in BOOLEAN,
         CheckWindow(nodes, end, empty), NEW w \in Nat, written <= w,
         SpaceLeft(dstart, end, empty) = BufSize - (w - acked)
  PROVE  /\ acked' = acked /\ dstart' = dstart
         /\ isEmpty' = StillEmpty(dstart, end, empty)
         /\ SpaceLeft(dstart', end, isEmpty') = BufSize - (w - acked)
         /\ Offsets(nodes')[Len(nodes')] = Least(w - acked, WinSize)
<1> DEFINE k     == AckedPrefix(nodes)
           gone  == Offsets(nodes)[k]
           left  == Offsets(nodes)[Len(nodes)] - gone
           empt  == empty \/ (k > 0 /\ k = Len(nodes))
           want  == Wanted(Wrap(acked + gone), end, empt)
<1>0. IInv BY DEF CoverInv
<1>1. /\ acked' = acked + gone /\ dstart' = Wrap(acked')
      /\ isEmpty' = StillEmpty(dstart', end, empt)
      /\ Offsets(nodes')[Len(nodes')] = IF left < want THEN want ELSE left
  BY <1>0, IInvFacts, CheckWindowTiles
<1>2. k = 0 BY <1>0, NothingReleased
<1>3. gone = 0 BY <1>0, <1>2, IInvFacts, OffsetsStep
<1>4. empt = empty BY <1>2
<1> DEFINE b == Offsets(nodes)[Len(nodes)]
<1>5. b \in Nat BY <1>0, IInvFacts, OffsetsStep
<1>6. left = b - gone OBVIOUS
<1> HIDE DEF k, gone, left, empt, b
<1>7. left = b BY <1>3, <1>5, <1>6
<1>8. acked' = acked /\ dstart' = dstart /\ Wrap(acked + gone) = dstart
  <2>1. acked \in Nat /\ dstart = Wrap(acked) BY <1>0, IInvFacts
  <2>2. acked + gone = acked BY <2>1, <1>3
  <2> QED BY <2>1, <2>2, <1>1
<1>9. want = Least(w - acked, WinSize)
  <2>1. want = Least(BufSize - SpaceLeft(dstart, end, empty), WinSize) BY <1>4, <1>8 DEF Wanted
  <2>2. acked \in Nat BY <1>0, IInvFacts
  <2>3. BufSize - (BufSize - (w - acked)) = w - acked BY <2>2, Sizes
  <2> QED BY <2>1, <2>3
<1>10. b = Least(written - acked, WinSize) BY CoverFacts DEF b
<1> HIDE DEF want
<1>11. Offsets(nodes')[Len(nodes')] = Least(w - acked, WinSize)
  <2>1. written \in Nat /\ acked \in Nat BY CoverFacts
  <2>2. ~(left < want) => left = want BY <2>1, <1>7, <1>9, <1>10, Sizes DEF Least
  <2> QED BY <2>2, <1>1, <1>9
<1>12. isEmpty' = StillEmpty(dstart, end, empty) BY <1>1, <1>4, <1>8
<1>13. SpaceLeft(dstart', end, isEmpty') = BufSize - (w - acked)
  <2>1. dstart \in Address BY <1>0, IInvFacts
  <2> QED BY <2>1, <1>8, <1>12, StillEmptySame
<1> QED BY <1>8, <1>11, <1>12, <1>13

(* addData keeps CoverInv: the chunk it stores is counted ...              *)
LEMMA AddDataCovers == ASSUME CoverInv, NEW size \in Chunks, AddData(size) PROVE CoverInv'
<1>0. IInv /\ IInv' BY AddDataKeeps DEF CoverInv
<1> SUFFICES ASSUME ~misread'
             PROVE  /\ written' - acked' \in 0..BufSize
                    /\ Wrap(dend') = Wrap(written')
                    /\ SpaceLeft(dstart', dend', isEmpty') = BufSize - (written' - acked')
                    /\ Offsets(nodes')[Len(nodes')] = Least(written' - acked', WinSize)
  BY <1>0, CoverNext
<1>1. ~misread /\ ~(size = 0 /\ acked = written) BY DEF AddData
<1>2. /\ SpaceLeft(dstart, dend, isEmpty) >= size
      /\ dend' = IF BufSize - dend >= size THEN dend + size ELSE size - (BufSize - dend)
      /\ written' = written + size
      /\ CheckWindow(nodes, dend', FALSE)
  BY DEF AddData
<1>3. size \in 0..Mss /\ size \in Nat BY Sizes
<1>4. /\ written \in Nat /\ acked \in Nat /\ written - acked \in 0..BufSize
      /\ Wrap(dend) = Wrap(written)
      /\ SpaceLeft(dstart, dend, isEmpty) = BufSize - (written - acked)
  BY <1>1, CoverFacts
<1>5. dend \in 0..BufSize /\ dend' \in 0..BufSize /\ dend \in Int /\ dend + size \in Int
  <2>1. dend \in 0..BufSize BY <1>0, IInvFacts, Zenon
  <2>2. dend' \in 0..BufSize BY <1>0 DEF IInv, TypeOK
  <2> QED BY <2>1, <2>2, <1>3, Sizes
<1>6. written' \in Nat /\ written <= written' /\ written' - acked \in 0..BufSize
  BY <1>2, <1>3, <1>4, Sizes
<1>7. Wrap(dend') = Wrap(written')
  <2>1. Wrap(dend + size) = Wrap(written + size)
    <3>1. Wrap(Wrap(dend) + size) = Wrap(dend + size) BY <1>3, <1>5, WrapFacts
    <3>2. Wrap(Wrap(written) + size) = Wrap(written + size) BY <1>3, <1>4, WrapFacts
    <3> QED BY <3>1, <3>2, <1>4
  <2>2. CASE BufSize - dend >= size BY <2>1, <2>2, <1>2
  <2>3. CASE ~(BufSize - dend >= size)
    <3>1. dend' = (dend + size) - BufSize BY <2>3, <1>2, <1>3, <1>5, Sizes
    <3>2. Wrap((dend + size) - BufSize) = Wrap(dend + size) BY <1>5, OneLap
    <3> QED BY <3>1, <3>2, <2>1, <1>2
  <2> QED BY <2>2, <2>3
<1>8. SpaceLeft(dstart, dend', FALSE) = BufSize - (written' - acked)
  <2>1. written' # acked BY <1>1, <1>2, <1>3, <1>4, Sizes
  <2>2. dstart \in Address /\ dstart = Wrap(acked) BY <1>0, IInvFacts
  <2> QED BY <2>1, <2>2, <1>4, <1>5, <1>6, <1>7, SpaceLeftCounts
<1>9. /\ acked' = acked
      /\ SpaceLeft(dstart', dend', isEmpty') = BufSize - (written' - acked)
      /\ Offsets(nodes')[Len(nodes')] = Least(written' - acked, WinSize)
  BY <1>1, <1>2, <1>5, <1>6, <1>8, CheckWindowAdds
<1> QED BY <1>6, <1>7, <1>9

(* ... and one it turns away changes nothing.                              *)
LEMMA AddDataFullCovers == ASSUME CoverInv, NEW size \in Chunks, AddDataFull(size) PROVE CoverInv'
<1>0. IInv /\ IInv' BY AddDataFullKeeps DEF CoverInv
<1> SUFFICES ASSUME ~misread'
             PROVE  /\ written' - acked' \in 0..BufSize
                    /\ Wrap(dend') = Wrap(written')
                    /\ SpaceLeft(dstart', dend', isEmpty') = BufSize - (written' - acked')
                    /\ Offsets(nodes')[Len(nodes')] = Least(written' - acked', WinSize)
  BY <1>0, CoverNext
<1> DEFINE empty == StillEmpty(dstart, dend, isEmpty)
<1>1. ~misread /\ dend' = dend /\ written' = written /\ CheckWindow(nodes, dend, empty)
  BY DEF AddDataFull
<1>2. empty \in BOOLEAN BY DEF StillEmpty
<1>3. dstart \in Address /\ dend \in 0..BufSize BY <1>0, IInvFacts
<1>4. SpaceLeft(dstart, dend, empty) = BufSize - (written - acked)
  BY <1>1, <1>3, CoverFacts, StillEmptySame
<1> HIDE DEF empty
<1>5. written \in Nat /\ written <= written BY <1>1, CoverFacts
<1>6. /\ acked' = acked
      /\ SpaceLeft(dstart', dend, isEmpty') = BufSize - (written - acked)
      /\ Offsets(nodes')[Len(nodes')] = Least(written - acked, WinSize)
  BY <1>1, <1>2, <1>3, <1>4, <1>5, CheckWindowAdds
<1> QED BY <1>1, <1>6, CoverFacts

(* recvACK keeps CoverInv: what it releases was stored, and a ring it      *)
(* empties is known to be empty, unless dend is at BufSize.                *)
LEMMA RecvACKCovers == ASSUME CoverInv, NEW num, RecvACK(num) PROVE CoverInv'
<1>0. IInv /\ IInv' BY RecvACKKeeps DEF CoverInv
<1> SUFFICES ASSUME ~misread'
             PROVE  /\ written' - acked' \in 0..BufSize
                    /\ Wrap(dend') = Wrap(written')
                    /\ SpaceLeft(dstart', dend', isEmpty') = BufSize - (written' - acked')
                    /\ Offsets(nodes')[Len(nodes')] = Least(written' - acked', WinSize)
  BY <1>0, CoverNext
<1>1. dend' = dend /\ written' = written BY DEF RecvACK
<1>2. CASE Numbered(num) = {}
  <2>1. UNCHANGED <<dstart, isEmpty, nodes, acked, misread>> BY <1>2 DEF RecvACK
  <2>2. ~misread BY <2>1
  <2> QED BY <1>1, <2>1, <2>2, CoverFacts
<1>3. CASE Numbered(num) # {}
  <2> DEFINE ns    == Marked(nodes, Numbered(num), Acked)
             k     == AckedPrefix(ns)
             gone  == Offsets(ns)[k]
             b     == Offsets(ns)[Len(ns)]
             left  == b - gone
             empt  == isEmpty \/ (k > 0 /\ k = Len(ns))
             want  == Wanted(Wrap(acked + gone), dend, empt)
  <2>1. CheckWindow(ns, dend, isEmpty) /\ misread' = (misread \/ (acked' = written /\ dend = BufSize))
    BY <1>3 DEF RecvACK
  <2>2. ~misread /\ ~(acked' = written /\ dend = BufSize) BY <2>1
  <2>3. /\ ns \in Seq(Node) /\ Len(ns) = Len(nodes)
        /\ \A i \in 1..Len(nodes) : /\ ns[i].size = nodes[i].size
                                    /\ ns[i].data = nodes[i].data
                                    /\ ns[i].seqnum = nodes[i].seqnum
    BY <1>0, IInvFacts, MarkedFacts
  <2> HIDE DEF ns
  <2>4. Tiles(ns, acked, packseq) /\ Offsets(ns) = Offsets(nodes)
    BY <1>0, <2>3, IInvFacts, SameTiles
  <2>5. /\ gone \in Nat /\ want \in 0..WinSize
        /\ acked' = acked + gone /\ dstart' = Wrap(acked') /\ dstart' \in Address
        /\ isEmpty' = StillEmpty(dstart', dend, empt)
        /\ Offsets(nodes')[Len(nodes')] = IF left < want THEN want ELSE left
    BY <1>0, <2>1, <2>3, <2>4, IInvFacts, CheckWindowTiles
  <2>6. /\ written \in Nat /\ acked \in Nat /\ written - acked \in 0..BufSize
        /\ Wrap(dend) = Wrap(written)
        /\ SpaceLeft(dstart, dend, isEmpty) = BufSize - (written - acked)
        /\ b = Least(written - acked, WinSize)
    BY <2>2, <2>3, <2>4, CoverFacts
  <2>7. k \in 0..Len(ns) /\ Len(ns) \in Nat /\ Len(ns) > 0
    <3>1. Numbered(num) \subseteq 1..Len(nodes) BY DEF Numbered
    <3>2. Len(nodes) \in Nat BY <1>0, IInvFacts
    <3>3. Len(nodes) > 0 BY <1>3, <3>1, <3>2
    <3> QED BY <2>3, <3>2, <3>3, AckedPrefixFacts
  <2>8. /\ b \in Nat /\ b > 0 /\ gone <= b
        /\ k = 0 => gone = 0
        /\ k # Len(ns) => gone < b
    <3>1. Len(ns) \in 0..Len(ns) /\ 0 \in 0..Len(ns) /\ 0 < Len(ns) BY <2>7
    <3>2. Offsets(ns)[0] = 0 /\ b \in Nat BY <2>3, OffsetsStep
    <3>3. b > 0 BY <2>3, <3>1, <3>2, OffsetsStrict
    <3>4. k # Len(ns) => gone < b
      <4>1. k # Len(ns) => k < Len(ns) BY <2>7
      <4> QED BY <2>3, <2>7, <4>1, OffsetsStrict
    <3>5. k = Len(ns) => gone = b OBVIOUS
    <3>6. gone <= b BY <3>2, <3>4, <3>5, <2>5
    <3>7. k = 0 => gone = 0 BY <3>2
    <3> QED BY <3>2, <3>3, <3>4, <3>6, <3>7
  <2>9. k = Len(ns) => gone = b OBVIOUS
  <2>10. k > 0 /\ k = Len(ns) <=> k = Len(ns) BY <2>7
  <2>11. left = b - gone /\ empt = (isEmpty \/ (k > 0 /\ k = Len(ns))) OBVIOUS
  <2>12. want = Least(BufSize - SpaceLeft(dstart', dend, empt), WinSize) BY <2>5 DEF Wanted
  <2> HIDE DEF k, gone, b, left, empt, want
  <2>13. ~isEmpty
    <3> SUFFICES ASSUME isEmpty PROVE FALSE OBVIOUS
    <3>1. dstart = dend BY <1>0 DEF IInv, EmptyAtOneAddress
    <3>2. dstart \in Int BY <1>0, IInvFacts DEF Address
    <3>3. SpaceLeft(dstart, dend, isEmpty) = BufSize BY <3>1, <3>2 DEF SpaceLeft
    <3>a. BufSize = BufSize - (written - acked) BY <3>3, <2>6
    <3>4. written - acked = 0 BY <3>a, <2>6, Sizes
    <3> QED BY <3>4, <2>6, <2>8, Sizes DEF Least
  <2>14. gone > 0 => written - acked' < BufSize
    BY <2>5, <2>6, <2>8, Sizes
  <2>15. written - acked' \in 0..BufSize /\ acked' \in Nat
    BY <2>5, <2>6, <2>8, Sizes DEF Least
  <2>16. dend \in 0..BufSize BY <1>0, IInvFacts
  <2>17. written = acked' <=> (empt /\ dstart' = dend)
    <3>1. ASSUME written = acked' PROVE empt /\ dstart' = dend
      <4>1. gone = written - acked BY <3>1, <2>5, <2>6
      <4>2. gone = b BY <4>1, <2>6, <2>8, Sizes DEF Least
      <4>3. k = Len(ns) BY <4>2, <2>5, <2>8
      <4>4. dend \in Address BY <3>1, <2>2, <2>16, Sizes DEF Address
      <4>5. dstart' = dend BY <3>1, <4>4, <2>5, <2>6, WrapFacts
      <4> QED BY <4>3, <4>5, <2>10, <2>11
    <3>2. ASSUME empt, dstart' = dend PROVE written = acked'
      <4>1. k = Len(ns) BY <3>2, <2>11, <2>13
      <4>2. gone = b /\ gone > 0 BY <4>1, <2>8, <2>9
      <4>3. Wrap(dend) = dend BY <3>2, <2>5, WrapFacts
      <4>4. Wrap(written) = Wrap(acked') BY <3>2, <4>3, <2>5, <2>6
      <4>5. written - acked' < BufSize BY <4>2, <2>14
      <4> QED BY <4>4, <4>5, <2>6, <2>15, SameAddressSameByte
    <3> QED BY <3>1, <3>2
  <2>18. empt \in BOOLEAN BY <2>11
  <2>19. SpaceLeft(dstart', dend, empt) = BufSize - (written - acked')
    BY <2>5, <2>6, <2>15, <2>16, <2>17, <2>18, SpaceLeftCounts
  <2>20. SpaceLeft(dstart', dend, isEmpty') = BufSize - (written - acked')
    BY <2>5, <2>16, <2>19, StillEmptySame
  <2>21. want = Least(written - acked', WinSize)
    <3>1. BufSize - (BufSize - (written - acked')) = written - acked' BY <2>15, <2>6, Sizes
    <3> QED BY <3>1, <2>12, <2>19
  <2>22. ~(left < want) => left = want
    BY <2>5, <2>6, <2>8, <2>11, <2>21, Sizes DEF Least
  <2>23. Offsets(nodes')[Len(nodes')] = Least(written - acked', WinSize)
    BY <2>5, <2>21, <2>22
  <2> QED BY <1>1, <2>6, <2>15, <2>20, <2>23
<1> QED BY <1>2, <1>3

(* The other steps leave the bytes and the packets' sizes alone. *)
LEMMA OthersCover ==
  ASSUME CoverInv, IInv', UNCHANGED <<dstart, dend, isEmpty, written, acked, misread>>,
         \/ UNCHANGED nodes
         \/ \E I : \E a \in {Unsent, Waiting} : nodes' = Marked(nodes, I, a)
  PROVE  CoverInv'
<1>1. IInv BY DEF CoverInv
<1>2. Offsets(nodes')[Len(nodes')] = Offsets(nodes)[Len(nodes)]
  <2>1. CASE UNCHANGED nodes BY <2>1
  <2>2. CASE \E I : \E a \in {Unsent, Waiting} : nodes' = Marked(nodes, I, a)
    <3>1. PICK I : \E a \in {Unsent, Waiting} : nodes' = Marked(nodes, I, a) BY <2>2
    <3>2. PICK a \in {Unsent, Waiting} : nodes' = Marked(nodes, I, a) BY <3>1
    <3>3. /\ nodes' \in Seq(Node) /\ Len(nodes') = Len(nodes)
          /\ \A i \in 1..Len(nodes) : nodes'[i].size = nodes[i].size
      BY <1>1, <3>2, IInvFacts, MarkedFacts
    <3>4. Offsets(nodes') = Offsets(nodes) BY <1>1, <3>3, IInvFacts, OffsetsSameSizes
    <3> QED BY <3>3, <3>4
  <2> QED BY <2>1, <2>2
<1>3. ~misread' => /\ written' - acked' \in 0..BufSize
                   /\ Wrap(dend') = Wrap(written')
                   /\ SpaceLeft(dstart', dend', isEmpty') = BufSize - (written' - acked')
                   /\ Offsets(nodes')[Len(nodes')] = Least(written' - acked', WinSize)
  BY <1>2, CoverFacts
<1> QED BY <1>3, CoverNext

(* CoverInv holds initially: the ring is empty and known to be. *)
LEMMA InitCover == Init => CoverInv
<1> SUFFICES ASSUME Init PROVE CoverInv OBVIOUS
<1>1. IInv BY InitIInv
<1>2. written = 0 /\ acked = 0 /\ dstart = 0 /\ dend = 0 /\ isEmpty /\ nodes = <<>> BY DEF Init
<1>3. SpaceLeft(dstart, dend, isEmpty) = BufSize BY <1>2 DEF SpaceLeft
<1>4. WindowBytes = 0 BY <1>2, EmptyList DEF WindowBytes
<1>5. RingOK
  <2>1. Wrap(dend) = Wrap(written) BY <1>2
  <2>2. written - acked = 0 BY <1>2
  <2>3. BufSize - 0 = BufSize /\ 0 \in 0..BufSize BY Sizes
  <2> QED BY <1>3, <2>1, <2>2, <2>3 DEF RingOK
<1>6. WindowCoversStream BY <1>2, <1>4, Sizes DEF WindowCoversStream, Least
<1> QED BY <1>1, <1>5, <1>6 DEF CoverInv

(* Every step keeps it. *)
LEMMA NextCover == CoverInv /\ [Next]_vars => CoverInv'
<1> SUFFICES ASSUME CoverInv, [Next]_vars PROVE CoverInv' OBVIOUS
<1>0. IInv /\ IInv' BY NextIInv DEF CoverInv
<1>1. ASSUME NEW size \in Chunks, AddData(size) PROVE CoverInv' BY <1>1, AddDataCovers
<1>2. ASSUME NEW size \in Chunks, AddDataFull(size) PROVE CoverInv' BY <1>2, AddDataFullCovers
<1>3. ASSUME NEW num \in 1..packseq-1, RecvACK(num) PROVE CoverInv' BY <1>3, RecvACKCovers
<1>4. ASSUME NEW num \in 1..packseq-1, RecvACKCrash(num) PROVE CoverInv'
  <2>1. UNCHANGED <<dstart, dend, isEmpty, written, acked, misread, nodes>>
    BY <1>4 DEF RecvACKCrash, history
  <2> QED BY <1>0, <2>1, OthersCover
<1>5. ASSUME NEW bsn \in 1..packseq-1, TimerExpire(bsn) PROVE CoverInv'
  <2>1. /\ UNCHANGED <<dstart, dend, isEmpty, written, acked, misread>>
        /\ nodes' = Marked(nodes, Numbered(bsn), Unsent)
    BY <1>5 DEF TimerExpire, history
  <2> QED BY <1>0, <2>1, OthersCover
<1>6. CASE SendWindow
  <2>1. /\ UNCHANGED <<dstart, dend, isEmpty, written, acked, misread>>
        /\ nodes' = Marked(nodes, Outgoing, Waiting)
    BY <1>6 DEF SendWindow
  <2> QED BY <1>0, <2>1, OthersCover
<1>7. CASE UNCHANGED vars
  <2>1. UNCHANGED <<dstart, dend, isEmpty, written, acked, misread, nodes>>
    BY <1>7 DEF vars, bufVars, history
  <2> QED BY <1>0, <2>1, OthersCover
<1> QED BY <1>1, <1>2, <1>3, <1>4, <1>5, <1>6, <1>7 DEF Next

(* As long as spaceLeft has not misread the ring, the packets cover the    *)
(* stored bytes exactly, up to WinSize (checkWindow, spaceLeft).           *)
THEOREM Covering == Spec => []WindowCoversStream
<1>1. CoverInv => WindowCoversStream BY DEF CoverInv
<1> QED BY <1>1, InitCover, NextCover, PTL DEF Spec

--------------------------------------------------------------------------------

(* No unacknowledged byte is overwritten. *)
KeptInv == CoverInv /\ UnackedBytesKept

(* The distance of byte q's cell from dend is its distance from the next   *)
(* byte of the stream.                                                     *)
LEMMA DistanceFromEnd ==
  ASSUME NEW q \in Int, NEW w \in Int, NEW end \in Int, Wrap(end) = Wrap(w)
  PROVE  Wrap(Wrap(q) - end) = Wrap(q - w)
<1> DEFINE x == q - end
           y == q - w
<1>1. x \in Int /\ y \in Int OBVIOUS
<1>2. Wrap(Wrap(q) - end) = Wrap(x)
  <2>1. Wrap(q) - end = Wrap(q) + (-end) /\ -end \in Int /\ q + (-end) = q - end BY WrapFacts
  <2>2. Wrap(Wrap(q) + (-end)) = Wrap(q + (-end)) BY <2>1, WrapFacts
  <2> QED BY <2>1, <2>2
<1>3. \E l \in Int : w - end = BufSize * l
  <2>1. Wrap(w) = Wrap(end) OBVIOUS
  <2> QED BY <2>1, WholeLaps, Zenon
<1>4. PICK l \in Int : w - end = BufSize * l BY <1>3
<1>5. x = y + BufSize * l BY <1>4, Sizes
<1> HIDE DEF x, y
<1>6. Wrap(x) = Wrap(y)
  <2> DEFINE p == y \div BufSize
             r == y % BufSize
  <2>1. p \in Int /\ r \in 0..BufSize-1 /\ y = BufSize * p + r BY <1>1, Sizes, DivMod
  <2>2. Wrap(y) = r BY DEF Wrap
  <2> HIDE DEF p, r
  <2>3. x = BufSize * (p + l) + r BY <1>5, <2>1, Sizes
  <2>4. p + l \in Int BY <2>1
  <2>5. x % BufSize = r BY <1>1, <2>1, <2>3, <2>4, Sizes, ModUnique
  <2> QED BY <2>2, <2>5 DEF Wrap
<1> QED BY <1>2, <1>6 DEF y

(* A byte that is stored lies where addData does not write ...             *)
LEMMA OldCellKept ==
  ASSUME NEW q \in Nat, NEW w \in Nat, NEW a \in Nat, a <= q, q < w, w - a <= BufSize,
         NEW end \in 0..BufSize, Wrap(end) = Wrap(w),
         NEW size \in Nat, size <= BufSize - (w - a)
  PROVE  ~(Wrap(Wrap(q) - end) < size)
<1>1. end \in Int /\ q \in Int /\ w \in Int /\ BufSize \in Nat \ {0} BY Sizes
<1>2. Wrap(Wrap(q) - end) = Wrap(q - w) BY <1>1, DistanceFromEnd
<1>3. (q - w) + BufSize \in Address /\ (q - w) \in Int BY <1>1 DEF Address
<1>4. Wrap(q - w) = (q - w) + BufSize
  <2>1. Wrap((q - w) + BufSize) = Wrap(q - w) BY <1>3, OneLap
  <2>2. Wrap((q - w) + BufSize) = (q - w) + BufSize BY <1>3, WrapFacts
  <2> QED BY <2>1, <2>2
<1> QED BY <1>1, <1>2, <1>4

(* ... and the cells it writes get the bytes that belong there.            *)
LEMMA NewCellRight ==
  ASSUME NEW q \in Nat, NEW w \in Nat, w <= q, NEW size \in Nat, q < w + size, size <= BufSize,
         NEW end \in 0..BufSize, Wrap(end) = Wrap(w)
  PROVE  Wrap(Wrap(q) - end) = q - w /\ q - w < size
<1>1. end \in Int /\ q \in Int /\ w \in Int BY Sizes
<1>2. Wrap(Wrap(q) - end) = Wrap(q - w) BY <1>1, DistanceFromEnd
<1>3. q - w \in Address /\ q - w < size BY Sizes DEF Address
<1> QED BY <1>2, <1>3, WrapFacts

(* KeptInv holds initially: nothing is stored. *)
LEMMA InitKept == Init => KeptInv
<1> SUFFICES ASSUME Init PROVE KeptInv OBVIOUS
<1>1. CoverInv BY InitCover
<1>2. written = 0 /\ acked = 0 BY DEF Init
<1>3. acked..written-1 = {} /\ written - acked \in 0..BufSize BY <1>2, Sizes
<1>4. UnackedBytesKept BY <1>3 DEF UnackedBytesKept
<1> QED BY <1>1, <1>4 DEF KeptInv

(* A step that does not write to the ring keeps what is there. *)
LEMMA NoWriteKeeps ==
  ASSUME KeptInv, CoverInv', UNCHANGED <<cirbuffer, written>>, misread => misread',
         fault # "none" => fault' # "none", acked <= acked'
  PROVE  UnackedBytesKept'
<1>1. CoverInv /\ UnackedBytesKept BY DEF KeptInv
<1> SUFFICES ASSUME ~misread', fault' = "none"
             PROVE  /\ written' - acked' \in 0..BufSize
                    /\ \A q \in acked'..written'-1 : cirbuffer'[Wrap(q)] = q
  BY DEF UnackedBytesKept, Wrap
<1>2. ~misread /\ fault = "none" OBVIOUS
<1>3. \A q \in acked..written-1 : cirbuffer[Wrap(q)] = q BY <1>1, <1>2 DEF UnackedBytesKept
<1>4. written' - acked' \in 0..BufSize BY DEF CoverInv, RingOK
<1>5. written \in Nat /\ acked \in Nat BY <1>1, <1>2, CoverFacts
<1>6. acked' \in Nat BY DEF CoverInv, IInv, TypeOK
<1>7. acked'..written'-1 \subseteq acked..written-1 BY <1>5, <1>6
<1> QED BY <1>3, <1>4, <1>7

(* addData writes to free cells only.                                      *)
LEMMA AddDataKeepsBytes ==
  ASSUME KeptInv, CoverInv', NEW size \in Chunks, AddData(size)
  PROVE  UnackedBytesKept'
<1>1. CoverInv /\ UnackedBytesKept /\ IInv BY DEF KeptInv, CoverInv
<1> SUFFICES ASSUME ~misread', fault' = "none"
             PROVE  /\ written' - acked' \in 0..BufSize
                    /\ \A q \in acked'..written'-1 : cirbuffer'[Wrap(q)] = q
  BY DEF UnackedBytesKept, Wrap
<1>2. /\ ~misread /\ fault = "none" /\ written' = written + size
      /\ SpaceLeft(dstart, dend, isEmpty) >= size
      /\ cirbuffer' = [a \in Address |-> LET d == Wrap(a - dend)
                                         IN  IF d < size THEN written + d ELSE cirbuffer[a]]
      /\ CheckWindow(nodes, dend', FALSE)
  BY DEF AddData
<1>3. /\ written \in Nat /\ acked \in Nat /\ written - acked \in 0..BufSize
      /\ Wrap(dend) = Wrap(written)
      /\ SpaceLeft(dstart, dend, isEmpty) = BufSize - (written - acked)
  BY <1>1, <1>2, CoverFacts
<1>4. size \in Nat /\ size <= BufSize /\ size <= BufSize - (written - acked)
  <2>1. size \in 0..Mss BY Sizes
  <2> QED BY <1>2, <1>3, <2>1, Sizes
<1>5. dend \in 0..BufSize BY <1>1, IInvFacts
<1>6. acked' \in Nat /\ acked <= acked'
  <2>1. acked' = acked + Offsets(nodes)[AckedPrefix(nodes)] BY <1>2 DEF CheckWindow
  <2>2. Offsets(nodes)[AckedPrefix(nodes)] \in Nat
    BY <1>1, IInvFacts, AckedPrefixFacts, OffsetsStep
  <2> QED BY <1>3, <2>1, <2>2
<1>7. ASSUME NEW q \in acked'..written'-1 PROVE cirbuffer'[Wrap(q)] = q
  <2>1. q \in Nat /\ acked <= q /\ q < written + size BY <1>2, <1>3, <1>4, <1>6
  <2>2. Wrap(q) \in Address BY <2>1, WrapFacts
  <2>3. cirbuffer'[Wrap(q)] = IF Wrap(Wrap(q) - dend) < size
                              THEN written + Wrap(Wrap(q) - dend) ELSE cirbuffer[Wrap(q)]
    BY <1>2, <2>2
  <2>4. CASE q < written
    <3>1. ~(Wrap(Wrap(q) - dend) < size)
      <4>1. written - acked <= BufSize BY <1>3, Sizes
      <4> QED BY <4>1, <1>3, <1>4, <1>5, <2>1, <2>4, OldCellKept
    <3>2. cirbuffer[Wrap(q)] = q BY <1>1, <1>2, <1>3, <2>1, <2>4 DEF UnackedBytesKept
    <3> QED BY <2>3, <3>1, <3>2
  <2>5. CASE ~(q < written)
    <3>1. Wrap(Wrap(q) - dend) = q - written /\ q - written < size
      <4>1. written <= q BY <1>3, <2>1, <2>5
      <4> QED BY <4>1, <1>3, <1>4, <1>5, <2>1, NewCellRight
    <3>2. written + (q - written) = q BY <1>3, <2>1
    <3> QED BY <2>3, <3>1, <3>2
  <2> QED BY <2>4, <2>5
<1>8. written' - acked' \in 0..BufSize BY DEF CoverInv, RingOK
<1> QED BY <1>7, <1>8

(* Every step keeps KeptInv. *)
LEMMA NextKept == KeptInv /\ [Next]_vars => KeptInv'
<1> SUFFICES ASSUME KeptInv, [Next]_vars PROVE KeptInv' OBVIOUS
<1>0. CoverInv /\ CoverInv' /\ IInv BY NextCover DEF KeptInv, CoverInv
<1>1. ASSUME NEW size \in Chunks, AddData(size) PROVE UnackedBytesKept'
  BY <1>0, <1>1, AddDataKeepsBytes
<1> DEFINE Grows == acked' = acked \/ \E ns \in Seq(Node) : acked' = acked + Offsets(ns)[AckedPrefix(ns)]
<1>2. Grows => acked <= acked'
  <2>1. acked \in Nat BY <1>0, IInvFacts
  <2>2. \A ns \in Seq(Node) : Offsets(ns)[AckedPrefix(ns)] \in Nat BY AckedPrefixFacts, OffsetsStep
  <2> QED BY <2>1, <2>2
<1>3. ASSUME NEW size \in Chunks, AddDataFull(size) PROVE UnackedBytesKept'
  <2>1. UNCHANGED <<cirbuffer, written, misread, fault>> BY <1>3 DEF AddDataFull
  <2>2. acked' = acked + Offsets(nodes)[AckedPrefix(nodes)] BY <1>3 DEF AddDataFull, CheckWindow
  <2>3. Grows BY <1>0, <2>2, IInvFacts
  <2> QED BY <1>0, <1>2, <2>1, <2>3, NoWriteKeeps
<1>4. ASSUME NEW num \in 1..packseq-1, RecvACK(num) PROVE UnackedBytesKept'
  <2>1. UNCHANGED <<cirbuffer, written>> /\ fault = "none" BY <1>4 DEF RecvACK, Running
  <2>2. misread => misread' BY <1>4 DEF RecvACK
  <2>3. Grows
    <3>1. CASE Numbered(num) = {} BY <1>4, <3>1 DEF RecvACK
    <3>2. CASE Numbered(num) # {}
      <4> DEFINE ns == Marked(nodes, Numbered(num), Acked)
      <4>1. acked' = acked + Offsets(ns)[AckedPrefix(ns)] BY <1>4, <3>2 DEF RecvACK, CheckWindow
      <4>2. ns \in Seq(Node) BY <1>0, IInvFacts, MarkedFacts
      <4> QED BY <4>1, <4>2
    <3> QED BY <3>1, <3>2
  <2> QED BY <1>0, <1>2, <2>1, <2>2, <2>3, NoWriteKeeps
<1>5. ASSUME NEW num \in 1..packseq-1, RecvACKCrash(num) PROVE UnackedBytesKept'
  BY <1>5 DEF RecvACKCrash, UnackedBytesKept
<1>6. ASSUME NEW bsn \in 1..packseq-1, TimerExpire(bsn) PROVE UnackedBytesKept'
  <2>1. UNCHANGED <<cirbuffer, written, misread, fault, acked>> BY <1>6 DEF TimerExpire, history
  <2> QED BY <1>0, <1>2, <2>1, NoWriteKeeps
<1>7. ASSUME SendWindow PROVE UnackedBytesKept'
  <2>1. UNCHANGED <<cirbuffer, written, misread, acked>> /\ fault = "none"
    BY <1>7 DEF SendWindow, Running
  <2> QED BY <1>0, <1>2, <2>1, NoWriteKeeps
<1>8. ASSUME UNCHANGED vars PROVE UnackedBytesKept'
  <2>1. UNCHANGED <<cirbuffer, written, misread, fault, acked>> BY <1>8 DEF vars, bufVars, history
  <2> QED BY <1>0, <1>2, <2>1, NoWriteKeeps
<1>9. UnackedBytesKept' BY <1>1, <1>3, <1>4, <1>5, <1>6, <1>7, <1>8 DEF Next
<1> QED BY <1>0, <1>9 DEF KeptInv

(* A byte stays in its cell until it is acknowledged, as long as spaceLeft *)
(* has not misread the ring: addData, wrapping or not, never writes over a *)
(* byte that a retransmission may still need.                              *)
THEOREM BytesKept == Spec => []UnackedBytesKept
<1>1. KeptInv => UnackedBytesKept BY DEF KeptInv
<1> QED BY <1>1, InitKept, NextKept, PTL DEF Spec

================================================================================
