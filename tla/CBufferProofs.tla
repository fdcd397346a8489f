----------------------------- MODULE CBufferProofs -----------------------------
(* The invariants of the send buffer, proved for every size of the ring,   *)
(* of the window, of a packet and of the round-trip table.                 *)
EXTENDS CBufferLemmas

(* Fewer packets are listed than numbers were given out. *)
FewerThanNumbers == Len(nodes) < packseq

(* The first packet of the list is never acknowledged: checkWindow runs    *)
(* after every acknowledgement and releases it, so only recvACK moves the  *)
(* window.                                                                 *)
FrontUnacked == Len(nodes) > 0 => nodes[1].ack # Acked

(* isEmpty is set only while the ring's two ends are at one address. *)
EmptyAtOneAddress == isEmpty => dstart = dend

(* The invariant that is inductive: the type of a packet number in sent    *)
(* needs the numbers of the listed packets, and those need the tiling.     *)
IInv ==
  /\ TypeOK
  /\ WindowTilesRing
  /\ FewerThanNumbers
  /\ FrontUnacked
  /\ EmptyAtOneAddress

(* The two ways the tiling is written. *)
LEMMA TilingIsTiles ==
  WindowTilesRing <=> dstart = Wrap(acked) /\ Tiles(nodes, acked, packseq) /\ WindowBytes <= WinSize
  BY DEF WindowTilesRing, Tiles

(* The same in the next state. *)
LEMMA TilingIsTilesNext ==
  WindowTilesRing' <=> dstart' = Wrap(acked') /\ Tiles(nodes', acked', packseq') /\ WindowBytes' <= WinSize
  BY DEF WindowTilesRing, Tiles, Wrap, Offsets, WindowBytes

(* No packet, no byte. *)
LEMMA EmptyList == Offsets(<<>>)[Len(<<>>)] = 0
<1>1. <<>> \in Seq(Node) /\ Len(<<>>) = 0 OBVIOUS
<1> QED BY <1>1, OffsetsStep

(* IInv holds initially. *)
LEMMA InitIInv == Init => IInv
<1> SUFFICES ASSUME Init PROVE IInv OBVIOUS
<1> USE DEF Init
<1>1. TypeOK
  <2>1. cirbuffer \in [Address -> Nat \cup {NoByte}] BY DEF NoByte
  <2>2. dstart \in Address /\ dend \in 0..BufSize /\ isEmpty \in BOOLEAN BY Sizes DEF Address
  <2>3. nodes \in Seq(Node) /\ packseq \in Nat \ {0} OBVIOUS
  <2>4. packtimes \in [1..Slots -> Slot] BY DEF Slot
  <2>5. written \in 0..MaxStream /\ acked \in Nat BY Sizes
  <2>6. misread \in BOOLEAN OBVIOUS
  <2>7. fault = "none" /\ sent = {} OBVIOUS
  <2> HIDE DEF Init
  <2> QED BY <2>1, <2>2, <2>3, <2>4, <2>5, <2>6, <2>7 DEF TypeOK
<1>2. WindowTilesRing
  <2>1. 0 \in Address BY Sizes DEF Address
  <2>2. dstart = Wrap(acked) BY <2>1, WrapFacts
  <2>3. WindowBytes <= WinSize BY EmptyList, Sizes DEF WindowBytes
  <2> QED BY <2>2, <2>3 DEF WindowTilesRing
<1>3. FewerThanNumbers /\ FrontUnacked /\ EmptyAtOneAddress BY DEF FewerThanNumbers, FrontUnacked, EmptyAtOneAddress
<1> QED BY <1>1, <1>2, <1>3 DEF IInv

(* checkWindow re-establishes the invariant's part about the list.         *)
LEMMA CheckWindowKeeps ==
  ASSUME NEW ns \in Seq(Node), NEW end \in 0..BufSize, NEW empty \in BOOLEAN,
         packseq \in Nat \ {0}, acked \in Nat, dstart = Wrap(acked),
         Tiles(ns, acked, packseq), Len(ns) < packseq, Offsets(ns)[Len(ns)] <= WinSize,
         CheckWindow(ns, end, empty)
  PROVE  /\ dstart' \in Address /\ isEmpty' \in BOOLEAN /\ nodes' \in Seq(Node)
         /\ packseq' \in Nat \ {0} /\ packseq <= packseq' /\ acked' \in Nat
         /\ WindowTilesRing' /\ FewerThanNumbers' /\ FrontUnacked'
         /\ isEmpty' => dstart' = end
<1> DEFINE k     == AckedPrefix(ns)
           gone  == Offsets(ns)[k]
           left  == Offsets(ns)[Len(ns)] - gone
           empt  == empty \/ (k > 0 /\ k = Len(ns))
           want  == Wanted(Wrap(acked + gone), end, empt)
<1>1. /\ gone \in Nat /\ left \in Nat /\ want \in 0..WinSize
      /\ acked' = acked + gone
      /\ dstart' = Wrap(acked') /\ dstart' \in Address
      /\ isEmpty' = StillEmpty(dstart', end, empt)
      /\ nodes' \in Seq(Node)
      /\ packseq' \in Nat /\ packseq <= packseq' /\ Len(nodes') < packseq'
      /\ Tiles(nodes', acked', packseq')
      /\ Offsets(nodes')[Len(nodes')] = IF left < want THEN want ELSE left
      /\ Len(nodes') > 0 => nodes'[1].ack # Acked
  BY CheckWindowTiles
<1>2. left <= WinSize
  <2> DEFINE all == Offsets(ns)[Len(ns)]
  <2>1. all \in Nat /\ all <= WinSize BY OffsetsStep
  <2>2. left = all - gone OBVIOUS
  <2> HIDE DEF all, left, gone
  <2> QED BY <1>1, <2>1, <2>2, Sizes
<1> HIDE DEF gone, left, empt, want
<1>3. WindowBytes' <= WinSize
  <2>1. WindowBytes' = Offsets(nodes')[Len(nodes')] BY DEF WindowBytes, Offsets
  <2> QED BY <1>1, <1>2, <2>1, Sizes
<1>4. WindowTilesRing' BY <1>1, <1>3, TilingIsTilesNext
<1>5. FewerThanNumbers' /\ FrontUnacked' BY <1>1 DEF FewerThanNumbers, FrontUnacked
<1>6. isEmpty' \in BOOLEAN /\ (isEmpty' => dstart' = end) BY <1>1 DEF StillEmpty
<1>7. packseq' \in Nat \ {0} /\ acked' \in Nat BY <1>1
<1> QED BY <1>1, <1>4, <1>5, <1>6, <1>7

(* A list that differs from ns in the packets' ack fields only tiles the   *)
(* ring as ns does.                                                        *)
LEMMA SameTiles ==
  ASSUME NEW ns \in Seq(Node), NEW ms \in Seq(Node), Len(ms) = Len(ns),
         \A i \in 1..Len(ns) : /\ ms[i].size = ns[i].size
                               /\ ms[i].data = ns[i].data
                               /\ ms[i].seqnum = ns[i].seqnum,
         NEW base, NEW ps, Tiles(ns, base, ps)
  PROVE  Tiles(ms, base, ps) /\ Offsets(ms) = Offsets(ns)
<1>1. Offsets(ms) = Offsets(ns) BY OffsetsSameSizes
<1> QED BY <1>1 DEF Tiles

(* Setting the ack field of some packets changes nothing else.             *)
LEMMA MarkedFacts ==
  ASSUME NEW ns \in Seq(Node), NEW I, NEW a \in {Unsent, Waiting, Acked}
  PROVE  LET ms == Marked(ns, I, a)
         IN  /\ ms \in Seq(Node) /\ Len(ms) = Len(ns)
             /\ \A i \in 1..Len(ns) :
                  /\ ms[i].size = ns[i].size /\ ms[i].data = ns[i].data
                  /\ ms[i].seqnum = ns[i].seqnum
                  /\ ms[i].ack = IF i \in I THEN a ELSE ns[i].ack
<1> DEFINE ms == Marked(ns, I, a)
<1>1. \A i \in 1..Len(ns) : ns[i] \in Node OBVIOUS
<1>2. Len(ns) \in Nat OBVIOUS
<1>3. ASSUME NEW i \in 1..Len(ns)
      PROVE  /\ ms[i] \in Node
             /\ ms[i].size = ns[i].size /\ ms[i].data = ns[i].data
             /\ ms[i].seqnum = ns[i].seqnum
             /\ ms[i].ack = IF i \in I THEN a ELSE ns[i].ack
  <2>1. ns[i] \in Node BY <1>1
  <2>2. ms[i] = IF i \in I THEN [ns[i] EXCEPT !.ack = a] ELSE ns[i] BY DEF Marked
  <2> QED BY <2>1, <2>2 DEF Node
<1>4. ms \in Seq(Node) /\ Len(ms) = Len(ns)
  BY <1>2, <1>3 DEF Marked
<1> QED BY <1>3, <1>4

(* What TypeOK and the tiling say, in the form the lemmas above ask for.   *)
LEMMA IInvFacts ==
  ASSUME IInv
  PROVE  /\ cirbuffer \in [Address -> Nat \cup {NoByte}]
         /\ dstart \in Address /\ dend \in 0..BufSize /\ isEmpty \in BOOLEAN
         /\ nodes \in Seq(Node) /\ packseq \in Nat \ {0} /\ Len(nodes) \in Nat
         /\ packtimes \in [1..Slots -> Slot]
         /\ written \in 0..MaxStream /\ acked \in Nat /\ misread \in BOOLEAN
         /\ \A p \in sent : p.seq \in 1..packseq-1
         /\ dstart = Wrap(acked) /\ Tiles(nodes, acked, packseq) /\ Len(nodes) < packseq
         /\ Offsets(nodes)[Len(nodes)] <= WinSize
<1>1. TypeOK /\ WindowTilesRing /\ FewerThanNumbers BY DEF IInv
<1>2. Tiles(nodes, acked, packseq) BY <1>1, TilingIsTiles
<1>3. Len(nodes) \in Nat
  <2>1. nodes \in Seq(Node) BY <1>1 DEF TypeOK
  <2> QED BY <2>1
<1> QED BY <1>1, <1>2, <1>3 DEF TypeOK, WindowTilesRing, WindowBytes, FewerThanNumbers

(* The ack field of some packets changes, checkWindow does not run.        *)
LEMMA MarkKeeps ==
  ASSUME IInv, NEW I, NEW a \in {Unsent, Waiting}, nodes' = Marked(nodes, I, a),
         UNCHANGED <<dstart, packseq, acked>>
  PROVE  nodes' \in Seq(Node) /\ WindowTilesRing' /\ FewerThanNumbers' /\ FrontUnacked'
<1>1. /\ nodes' \in Seq(Node) /\ Len(nodes') = Len(nodes)
      /\ \A i \in 1..Len(nodes) :
           /\ nodes'[i].size = nodes[i].size /\ nodes'[i].data = nodes[i].data
           /\ nodes'[i].seqnum = nodes[i].seqnum
           /\ nodes'[i].ack = IF i \in I THEN a ELSE nodes[i].ack
  BY IInvFacts, MarkedFacts
<1>2. Tiles(nodes', acked, packseq) /\ Offsets(nodes') = Offsets(nodes)
  BY <1>1, IInvFacts, SameTiles
<1>3. WindowTilesRing'
  <2>1. WindowBytes' = Offsets(nodes')[Len(nodes')] BY DEF WindowBytes, Offsets
  <2>2. WindowBytes' <= WinSize BY <2>1, <1>1, <1>2, IInvFacts
  <2>3. dstart' = Wrap(acked') BY IInvFacts
  <2> QED BY <1>2, <2>2, <2>3, TilingIsTilesNext
<1>4. FewerThanNumbers' BY <1>1, IInvFacts DEF FewerThanNumbers
<1>5. FrontUnacked'
  <2> SUFFICES ASSUME Len(nodes') > 0 PROVE nodes'[1].ack # Acked BY DEF FrontUnacked
  <2>1. 1 \in 1..Len(nodes) /\ Len(nodes) > 0 BY <1>1, IInvFacts
  <2>2. nodes[1].ack # Acked BY <2>1 DEF IInv, FrontUnacked
  <2> QED BY <1>1, <2>1, <2>2 DEF Unsent, Waiting, Acked
<1> QED BY <1>1, <1>3, <1>4, <1>5

(* A packet number in sent stays below the next number.                    *)
LEMMA SentNumbersKept ==
  ASSUME IInv, packseq' \in Nat, packseq <= packseq', UNCHANGED sent
  PROVE  (\A p \in sent : p.seq \in 1..packseq-1)'
<1> SUFFICES ASSUME NEW p \in sent PROVE p.seq \in 1..packseq'-1 OBVIOUS
<1>1. p.seq \in 1..packseq-1 /\ packseq \in Nat BY IInvFacts
<1> QED BY <1>1

(* addData keeps the invariant, whether it stores the chunk ...            *)
LEMMA AddDataKeeps == ASSUME IInv, NEW size \in Chunks, AddData(size) PROVE IInv'
<1>0. size \in 0..Mss /\ size \in Nat BY Sizes
<1>1. dend' \in 0..BufSize
  <2>1. dend' = IF BufSize - dend >= size THEN dend + size ELSE size - (BufSize - dend)
    BY DEF AddData
  <2> QED BY <1>0, <2>1, IInvFacts, Sizes
<1>2. CheckWindow(nodes, dend', FALSE) BY DEF AddData
<1>3. /\ dstart' \in Address /\ isEmpty' \in BOOLEAN /\ nodes' \in Seq(Node)
      /\ packseq' \in Nat \ {0} /\ packseq <= packseq' /\ acked' \in Nat
      /\ WindowTilesRing' /\ FewerThanNumbers' /\ FrontUnacked'
      /\ isEmpty' => dstart' = dend'
  BY <1>1, <1>2, IInvFacts, CheckWindowKeeps
<1>4. cirbuffer' \in [Address -> Nat \cup {NoByte}]
  <2>1. cirbuffer' = [a \in Address |->
                        LET d == Wrap(a - dend)
                        IN  IF d < size THEN written + d ELSE cirbuffer[a]]
    BY DEF AddData
  <2>2. ASSUME NEW a \in Address PROVE cirbuffer'[a] \in Nat \cup {NoByte}
    <3>1. a - dend \in Int BY IInvFacts DEF Address
    <3>2. Wrap(a - dend) \in Nat BY <3>1, WrapFacts, Sizes DEF Address
    <3>3. written + Wrap(a - dend) \in Nat BY <3>2, IInvFacts, Sizes
    <3>4. cirbuffer[a] \in Nat \cup {NoByte} BY IInvFacts
    <3> QED BY <2>1, <3>3, <3>4
  <2> QED BY <2>1, <2>2
<1>5. written' \in 0..MaxStream
  <2>1. written' = written + size /\ written + size <= MaxStream BY DEF AddData
  <2> QED BY <1>0, <2>1, IInvFacts, Sizes
<1>6. misread' \in BOOLEAN BY DEF AddData
<1>7. UNCHANGED <<packtimes, fault, sent>> BY DEF AddData
<1>8. (\A p \in sent : p.seq \in 1..packseq-1)' BY <1>3, <1>7, SentNumbersKept
<1>9. fault' \in {"none", "stray", "crashed"} BY <1>7 DEF IInv, TypeOK
<1>10. packtimes' \in [1..Slots -> Slot] BY <1>7, IInvFacts
<1>11. TypeOK' BY <1>1, <1>3, <1>4, <1>5, <1>6, <1>8, <1>9, <1>10 DEF TypeOK, Address
<1> QED BY <1>3, <1>11 DEF IInv, EmptyAtOneAddress

(* ... or turns it away.                                                   *)
LEMMA AddDataFullKeeps == ASSUME IInv, NEW size \in Chunks, AddDataFull(size) PROVE IInv'
<1>1. CheckWindow(nodes, dend, StillEmpty(dstart, dend, isEmpty)) BY DEF AddDataFull
<1>2. StillEmpty(dstart, dend, isEmpty) \in BOOLEAN BY DEF StillEmpty
<1>3. /\ dstart' \in Address /\ isEmpty' \in BOOLEAN /\ nodes' \in Seq(Node)
      /\ packseq' \in Nat \ {0} /\ packseq <= packseq' /\ acked' \in Nat
      /\ WindowTilesRing' /\ FewerThanNumbers' /\ FrontUnacked'
      /\ isEmpty' => dstart' = dend
  BY <1>1, <1>2, IInvFacts, CheckWindowKeeps
<1>4. UNCHANGED <<cirbuffer, dend, packtimes, fault, written, misread, sent>> BY DEF AddDataFull
<1>5. (\A p \in sent : p.seq \in 1..packseq-1)' BY <1>3, <1>4, SentNumbersKept
<1>6. TypeOK' BY <1>3, <1>4, <1>5 DEF IInv, TypeOK, Address
<1> QED BY <1>3, <1>4, <1>6 DEF IInv, EmptyAtOneAddress

(* recvACK keeps the invariant, whatever its search of packtimes hits ...  *)
LEMMA RecvACKKeeps == ASSUME IInv, NEW num, RecvACK(num) PROVE IInv'
<1>1. packtimes' \in [1..Slots -> Slot] /\ fault' \in {"none", "stray", "crashed"}
  <2>1. CASE \E i \in SlotsOf(num) : packtimes' = [packtimes EXCEPT ![i].on = FALSE] /\ UNCHANGED fault
    <3>1. PICK i \in SlotsOf(num) : packtimes' = [packtimes EXCEPT ![i].on = FALSE] BY <2>1
    <3>2. i \in 1..Slots BY DEF SlotsOf
    <3>3. packtimes \in [1..Slots -> Slot] BY IInvFacts
    <3>4. packtimes' \in [1..Slots -> Slot] BY <3>1, <3>2, <3>3 DEF Slot
    <3>5. fault' \in {"none", "stray", "crashed"} BY <2>1 DEF IInv, TypeOK
    <3> QED BY <3>4, <3>5
  <2>2. CASE fault' = "stray" /\ UNCHANGED packtimes BY <2>2, IInvFacts
  <2> QED BY <2>1, <2>2 DEF RecvACK, StopClock
<1>2. UNCHANGED <<cirbuffer, dend, written, sent>> BY DEF RecvACK
<1>3. CASE Numbered(num) # {}
  <2> DEFINE ns == Marked(nodes, Numbered(num), Acked)
  <2>1. CheckWindow(ns, dend, isEmpty) /\ misread' = (misread \/ (acked' = written /\ dend = BufSize))
    BY <1>3 DEF RecvACK
  <2>2. /\ ns \in Seq(Node) /\ Len(ns) = Len(nodes)
        /\ \A i \in 1..Len(nodes) : /\ ns[i].size = nodes[i].size
                                    /\ ns[i].data = nodes[i].data
                                    /\ ns[i].seqnum = nodes[i].seqnum
    BY IInvFacts, MarkedFacts
  <2> HIDE DEF ns
  <2>3. Tiles(ns, acked, packseq) /\ Offsets(ns) = Offsets(nodes)
    BY <2>2, IInvFacts, SameTiles
  <2>4. /\ dstart' \in Address /\ isEmpty' \in BOOLEAN /\ nodes' \in Seq(Node)
        /\ packseq' \in Nat \ {0} /\ packseq <= packseq' /\ acked' \in Nat
        /\ WindowTilesRing' /\ FewerThanNumbers' /\ FrontUnacked'
        /\ isEmpty' => dstart' = dend
    BY <2>1, <2>2, <2>3, IInvFacts, CheckWindowKeeps
  <2>5. (\A p \in sent : p.seq \in 1..packseq-1)' BY <1>2, <2>4, SentNumbersKept
  <2>6. misread' \in BOOLEAN BY <2>1
  <2>7. TypeOK' BY <1>1, <1>2, <2>4, <2>5, <2>6 DEF IInv, TypeOK, Address
  <2> QED BY <1>2, <2>4, <2>7 DEF IInv, EmptyAtOneAddress
<1>4. CASE Numbered(num) = {}
  <2>1. UNCHANGED <<dstart, isEmpty, nodes, packseq, acked, misread>> BY <1>4 DEF RecvACK
  <2>2. TypeOK' BY <1>1, <1>2, <2>1 DEF IInv, TypeOK, Address
  <2>3. WindowTilesRing' BY <2>1 DEF IInv, WindowTilesRing, Wrap, Offsets, WindowBytes
  <2> QED BY <1>2, <2>1, <2>2, <2>3 DEF IInv, FewerThanNumbers, FrontUnacked, EmptyAtOneAddress
<1> QED BY <1>3, <1>4

(* ... also when the search kills the process.                             *)
LEMMA RecvACKCrashKeeps == ASSUME IInv, NEW num, RecvACKCrash(num) PROVE IInv'
<1>1. /\ UNCHANGED <<cirbuffer, dstart, dend, isEmpty, nodes, packseq, packtimes, written, acked, misread, sent>>
      /\ fault' = "crashed"
  BY DEF RecvACKCrash, history
<1>2. TypeOK' BY <1>1 DEF IInv, TypeOK, Address
<1>3. WindowTilesRing' BY <1>1 DEF IInv, WindowTilesRing, Wrap, Offsets, WindowBytes
<1> QED BY <1>1, <1>2, <1>3 DEF IInv, FewerThanNumbers, FrontUnacked, EmptyAtOneAddress

(* timerExpire keeps the invariant.                                        *)
LEMMA TimerExpireKeeps == ASSUME IInv, NEW bsn, TimerExpire(bsn) PROVE IInv'
<1>1. /\ nodes' = Marked(nodes, Numbered(bsn), Unsent)
      /\ packtimes' = [i \in 1..Slots |->
                         IF packtimes[i].bsn = bsn THEN [packtimes[i] EXCEPT !.on = FALSE]
                         ELSE packtimes[i]]
      /\ UNCHANGED <<cirbuffer, dstart, dend, isEmpty, packseq, fault, written, acked, misread, sent>>
  BY DEF TimerExpire, history
<1>2. nodes' \in Seq(Node) /\ WindowTilesRing' /\ FewerThanNumbers' /\ FrontUnacked'
  BY <1>1, MarkKeeps
<1>3. packtimes' \in [1..Slots -> Slot]
  <2>1. packtimes \in [1..Slots -> Slot] BY IInvFacts
  <2>2. ASSUME NEW i \in 1..Slots PROVE packtimes'[i] \in Slot
    <3>1. packtimes[i] \in Slot BY <2>1
    <3> QED BY <1>1, <3>1 DEF Slot
  <2> QED BY <1>1, <2>2
<1>4. TypeOK' BY <1>1, <1>2, <1>3 DEF IInv, TypeOK, Address
<1> QED BY <1>1, <1>2, <1>4 DEF IInv, EmptyAtOneAddress

(* sendWindow keeps the invariant.                                         *)
LEMMA SendWindowKeeps == ASSUME IInv, SendWindow PROVE IInv'
<1>1. /\ nodes' = Marked(nodes, Outgoing, Waiting)
      /\ UNCHANGED <<cirbuffer, dstart, dend, isEmpty, packseq, written, acked, misread>>
  BY DEF SendWindow
<1>2. nodes' \in Seq(Node) /\ WindowTilesRing' /\ FewerThanNumbers' /\ FrontUnacked'
  BY <1>1, MarkKeeps
<1>3. \A i \in Outgoing : nodes[i].seqnum \in 1..packseq-1
  <2> SUFFICES ASSUME NEW i \in Outgoing PROVE nodes[i].seqnum \in 1..packseq-1 OBVIOUS
  <2>1. i \in 1..Len(nodes) BY DEF Outgoing
  <2>2. nodes[i].seqnum = packseq - Len(nodes) + i - 1 BY <2>1, IInvFacts DEF Tiles
  <2> QED BY <2>1, <2>2, IInvFacts
<1>4. \A p \in sent' : p.seq \in 1..packseq-1
  <2>1. sent' = sent \cup {[seq |-> nodes[i].seqnum, payload |-> Payload(nodes[i])] : i \in Outgoing}
    BY DEF SendWindow
  <2> QED BY <1>3, <2>1, IInvFacts
<1>5. packtimes' \in [1..Slots -> Slot]
  <2>1. packtimes' = [s \in 1..Slots |->
           IF \E i \in Outgoing : GetsEntry(i, s)
           THEN [bsn |-> nodes[CHOOSE i \in Outgoing : GetsEntry(i, s)].seqnum, on |-> TRUE]
           ELSE packtimes[s]]
    BY DEF SendWindow
  <2>2. packtimes \in [1..Slots -> Slot] BY IInvFacts
  <2>3. ASSUME NEW s \in 1..Slots PROVE packtimes'[s] \in Slot
    <3>1. CASE \E i \in Outgoing : GetsEntry(i, s)
      <4> DEFINE c == CHOOSE i \in Outgoing : GetsEntry(i, s)
      <4>1. c \in Outgoing BY <3>1
      <4>2. packtimes'[s] = [bsn |-> nodes[c].seqnum, on |-> TRUE] BY <2>1, <3>1
      <4> HIDE DEF c
      <4>3. nodes[c].seqnum \in Nat BY <1>3, <4>1, IInvFacts
      <4> QED BY <4>2, <4>3 DEF Slot
    <3>2. CASE ~ \E i \in Outgoing : GetsEntry(i, s) BY <2>1, <2>2, <3>2
    <3> QED BY <3>1, <3>2
  <2> QED BY <2>1, <2>3
<1>6. fault' \in {"none", "stray", "crashed"} BY DEF SendWindow, IInv, TypeOK
<1>7. TypeOK' BY <1>1, <1>2, <1>4, <1>5, <1>6 DEF IInv, TypeOK, Address
<1> QED BY <1>1, <1>2, <1>7 DEF IInv, EmptyAtOneAddress

(* Every step keeps the invariant.                                         *)
LEMMA NextIInv == IInv /\ [Next]_vars => IInv'
<1> SUFFICES ASSUME IInv, [Next]_vars PROVE IInv' OBVIOUS
<1>1. ASSUME NEW size \in Chunks, AddData(size) PROVE IInv' BY <1>1, AddDataKeeps
<1>2. ASSUME NEW size \in Chunks, AddDataFull(size) PROVE IInv' BY <1>2, AddDataFullKeeps
<1>3. ASSUME NEW num \in 1..packseq-1, RecvACK(num) PROVE IInv' BY <1>3, RecvACKKeeps
<1>4. ASSUME NEW num \in 1..packseq-1, RecvACKCrash(num) PROVE IInv' BY <1>4, RecvACKCrashKeeps
<1>5. ASSUME NEW bsn \in 1..packseq-1, TimerExpire(bsn) PROVE IInv' BY <1>5, TimerExpireKeeps
<1>6. CASE SendWindow BY <1>6, SendWindowKeeps
<1>7. CASE UNCHANGED vars
  <2>1. UNCHANGED <<cirbuffer, dstart, dend, isEmpty, nodes, packseq, packtimes, fault,
                    written, acked, misread, sent>>
    BY <1>7 DEF vars, bufVars, history
  <2>2. TypeOK' BY <2>1 DEF IInv, TypeOK, Address
  <2>3. WindowTilesRing' BY <2>1 DEF IInv, WindowTilesRing, Wrap, Offsets, WindowBytes
  <2> QED BY <2>1, <2>2, <2>3 DEF IInv, FewerThanNumbers, FrontUnacked, EmptyAtOneAddress
<1> QED BY <1>1, <1>2, <1>3, <1>4, <1>5, <1>6, <1>7 DEF Next

(* IInv holds in every reachable state, for every value of the constants.  *)
THEOREM Inductive == Spec => []IInv
  BY InitIInv, NextIInv, PTL DEF Spec

(* Every variable of the send buffer keeps its type, addresses stay in the *)
(* ring, packets are neither empty nor longer than Mss, and only numbers   *)
(* that were given out are ever sent.                                      *)
THEOREM TypeCorrect == Spec => []TypeOK
<1>1. IInv => TypeOK BY DEF IInv
<1> QED BY <1>1, Inductive, PTL

(* The listed packets always tile the ring from the first unacknowledged   *)
(* byte on, carry the last numbers given out, and hold at most WinSize     *)
(* bytes: what checkWindow must keep across the end of the ring, for every *)
(* order of writes, acknowledgements, timeouts and sends.                  *)
THEOREM Tiling == Spec => []WindowTilesRing
<1>1. IInv => WindowTilesRing BY DEF IInv
<1> QED BY <1>1, Inductive, PTL

================================================================================
