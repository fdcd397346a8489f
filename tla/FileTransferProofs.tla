-------------------------- MODULE FileTransferProofs ---------------------------
(* The whole transfer, for every size of the buffers, the window, the      *)
(* packets and the files: what ftps writes is what ftpc has read, no byte  *)
(* is forgotten before it has arrived, and the two daemons are a sliding   *)
(* window.                                                                 *)
EXTENDS FileTransfer, TLAPS

(* What is known of the two buffers. *)
K == INSTANCE CBufferSent WITH
       BufSize <- ClientSize, Chunks <- 0..Mss, MaxStream <- HeaderSize + Largest(Files),
       dstart <- cstart, fault <- cfault

B == INSTANCE SBufferProofs WITH
       Window <- WinSize \div Mss, Requests <- (1..HeaderSize) \cup {Request}, OldCopies <- FALSE,
       dstart <- sstart, fault <- sfault

(* The client's buffer in FileTransfer is the one of CBufferSent.          *)
LEMMA ClientIs ==
  /\ C!Init => K!Init
  /\ \A x, y : C!Least(x, y) = K!Least(x, y)
  /\ C!Outgoing = K!Outgoing
  /\ \A nd : C!Payload(nd) = K!Payload(nd)
  /\ C!WindowBytes = K!Offsets(nodes)[Len(nodes)]
  /\ \A x : C!Wrap(x) = K!Wrap(x)
<1>1. C!Init => K!Init BY DEF C!Init, K!Init, C!Address, K!Address, C!NoByte, K!NoByte
<1>2. \A x, y : C!Least(x, y) = K!Least(x, y) BY DEF C!Least, K!Least
<1>3. C!Outgoing = K!Outgoing BY DEF C!Outgoing, K!Outgoing, C!Unsent, K!Unsent
<1>4. \A nd : C!Payload(nd) = K!Payload(nd) BY DEF C!Payload, K!Payload, C!Wrap, K!Wrap
<1>5. C!WindowBytes = K!Offsets(nodes)[Len(nodes)] BY DEF C!WindowBytes, C!Offsets, K!Offsets
<1>6. \A x : C!Wrap(x) = K!Wrap(x) BY DEF C!Wrap, K!Wrap
<1> QED BY <1>1, <1>2, <1>3, <1>4, <1>5, <1>6

(* addData, the chunk stored, is the same operation there and here.        *)
LEMMA ClientAddData == ASSUME NEW size, C!AddData(size) PROVE K!AddData(size)
BY DEF C!AddData, K!AddData, C!Running, K!Running, C!SpaceLeft, K!SpaceLeft, C!Address, K!Address,
       C!Wrap, K!Wrap, C!CheckWindow, K!CheckWindow, C!Offsets, K!Offsets,
       C!AckedPrefix, K!AckedPrefix, C!Least, K!Least, C!Fresh, K!Fresh,
       C!StillEmpty, K!StillEmpty, C!Acked, K!Acked, C!Unsent, K!Unsent

(* So is addData that turns a chunk away.                                  *)
LEMMA ClientAddDataFull == ASSUME NEW size, C!AddDataFull(size) PROVE K!AddDataFull(size)
BY DEF C!AddDataFull, K!AddDataFull, C!Running, K!Running, C!SpaceLeft, K!SpaceLeft,
       C!Wrap, K!Wrap, C!CheckWindow, K!CheckWindow, C!Offsets, K!Offsets,
       C!AckedPrefix, K!AckedPrefix, C!Least, K!Least, C!Fresh, K!Fresh,
       C!StillEmpty, K!StillEmpty, C!Acked, K!Acked, C!Unsent, K!Unsent

(* So is recvACK ...                                                       *)
LEMMA ClientRecvACK == ASSUME NEW num, C!RecvACK(num) PROVE K!RecvACK(num)
BY DEF C!RecvACK, K!RecvACK, C!Running, K!Running, C!StopClock, K!StopClock, C!SlotsOf, K!SlotsOf,
       C!Numbered, K!Numbered, C!Marked, K!Marked, C!SpaceLeft, K!SpaceLeft,
       C!Wrap, K!Wrap, C!CheckWindow, K!CheckWindow, C!Offsets, K!Offsets,
       C!AckedPrefix, K!AckedPrefix, C!Least, K!Least, C!Fresh, K!Fresh,
       C!StillEmpty, K!StillEmpty, C!Acked, K!Acked, C!Unsent, K!Unsent

(* ... and the one that kills the process.                                 *)
LEMMA ClientCrash == ASSUME NEW num, C!RecvACKCrash(num) PROVE K!RecvACKCrash(num)
BY DEF C!RecvACKCrash, K!RecvACKCrash, C!Running, K!Running, C!SlotsOf, K!SlotsOf, C!history, K!history

(* So is timerExpire.                                                      *)
LEMMA ClientExpire == ASSUME NEW num, C!TimerExpire(num) PROVE K!TimerExpire(num)
BY DEF C!TimerExpire, K!TimerExpire, C!Running, K!Running, C!Numbered, K!Numbered, C!Marked, K!Marked,
       C!Unsent, K!Unsent, C!history, K!history

(* So is sendWindow.                                                       *)
LEMMA ClientSend == ASSUME C!SendWindow PROVE K!SendWindow
BY DEF C!SendWindow, K!SendWindow, C!Running, K!Running, C!Outgoing, K!Outgoing,
       C!Payload, K!Payload, C!Wrap, K!Wrap, C!Marked, K!Marked, C!Unsent, K!Unsent,
       C!Waiting, K!Waiting, C!GetsEntry, K!GetsEntry, C!SendRank, K!SendRank, C!FreeRank, K!FreeRank,
       C!Cardinality, K!Cardinality

(* The server's buffer in FileTransfer is the one of SBufferProofs.        *)
LEMMA ServerMax == S!MaxInt = B!MaxInt
BY SMT DEF S!MaxInt, B!MaxInt

(* mergeList joins the same nodes there and here.                          *)
LEMMA ServerMerge == ASSUME NEW l, NEW start PROVE S!MergeList(l, start) = B!MergeList(l, start)
BY ServerMax DEF S!MergeList, B!MergeList, S!MergeNext, B!MergeNext, S!Joins, B!Joins, S!Joined, B!Joined,
       S!Consecutive, B!Consecutive, S!SpareHoles, B!SpareHoles,
       S!Front, B!Front, S!Last, B!Last

(* mergeList hangs on the same lists there and here.                       *)
LEMMA ServerHangs == ASSUME NEW l, NEW start PROVE S!MergeHangs(l, start) <=> B!MergeHangs(l, start)
<1>1. \A a, b : S!Joins(a, b, start) <=> B!Joins(a, b, start)
  BY DEF S!Joins, B!Joins, S!Consecutive, B!Consecutive, S!SpareHoles, B!SpareHoles
<1>2. \A q : S!Last(q) = B!Last(q) /\ S!Front(q) = B!Front(q) BY DEF S!Last, B!Last, S!Front, B!Front
<1>3. S!MergeList(l, start) = B!MergeList(l, start) BY ServerMerge
<1>4. S!MergeList(S!Front(l), start) = B!MergeList(B!Front(l), start) BY <1>2, ServerMerge
<1> QED BY <1>1, <1>2, <1>3, <1>4 DEF S!MergeHangs, B!MergeHangs

(* A hole is filled the same way.                                          *)
LEMMA ServerFill ==
  ASSUME NEW h, NEW s
  PROVE  S!Fill(h, s) = B!Fill(h, s) /\ (S!Known(h, s) <=> B!Known(h, s))
BY DEF S!Fill, B!Fill, S!Wrapped, B!Wrapped, S!Hole, B!Hole, S!Filled, B!Filled, S!BufSize, B!BufSize,
       S!Known, B!Known

(* The traversal of addData stops at the same node.                        *)
LEMMA ServerHit == ASSUME NEW l, NEW s PROVE S!FirstHit(l, s) = B!FirstHit(l, s)
<1>1. \A nd : S!Takes(nd, s) <=> B!Takes(nd, s) BY ServerFill DEF S!Takes, B!Takes
<1>2. \A nd : S!Known(nd, s) <=> B!Known(nd, s) BY ServerFill
<1> DEFINE InS      == {i \in 1..Len(l) : S!Known(l[i], s) \/ S!Takes(l[i], s)}
           InB      == {i \in 1..Len(l) : B!Known(l[i], s) \/ B!Takes(l[i], s)}
           First(H) == IF H = {} THEN 0 ELSE CHOOSE i \in H : \A j \in H : i <= j
<1>3. InS = InB BY <1>1, <1>2
<1>4. S!FirstHit(l, s) = First(InS) BY DEF S!FirstHit
<1>5. B!FirstHit(l, s) = First(InB) BY DEF B!FirstHit
<1> HIDE DEF InS, InB, First
<1> QED BY <1>3, <1>4, <1>5

(* The operators on single nodes are the same.                             *)
LEMMA ServerNode ==
  /\ \A parts : S!NewNode(parts) = B!NewNode(parts)
  /\ \A nd : S!Copyable(nd) <=> B!Copyable(nd)
  /\ \A nd, payload : S!Store(nd, payload) = B!Store(nd, payload)
  /\ \A nd, n : S!Get(nd, n) = B!Get(nd, n)
  /\ \A l : S!UsedUp(l) = B!UsedUp(l)
  /\ \A nd : S!NextNeeded(nd) = B!NextNeeded(nd)
  /\ \A nd, size : S!PartLeft(nd, size) = B!PartLeft(nd, size)
  /\ S!BufSize = B!BufSize
  /\ \A s : S!InRange(s) <=> B!InRange(s)
<1>1. \A parts : S!NewNode(parts) = B!NewNode(parts) BY DEF S!NewNode, B!NewNode, S!ToSet, B!ToSet
<1>2. \A nd : S!Copyable(nd) <=> B!Copyable(nd) BY DEF S!Copyable, B!Copyable, S!BufSize, B!BufSize
<1>3. \A nd, payload : S!Store(nd, payload) = B!Store(nd, payload)
  BY DEF S!Store, B!Store, S!Address, B!Address, S!BufSize, B!BufSize
<1>4. \A nd, n : S!Get(nd, n) = B!Get(nd, n) BY DEF S!Get, B!Get, S!BufSize, B!BufSize
<1>5. \A l : S!UsedUp(l) = B!UsedUp(l) BY DEF S!UsedUp, B!UsedUp
<1>6. \A nd : S!NextNeeded(nd) = B!NextNeeded(nd) BY DEF S!NextNeeded, B!NextNeeded
<1>7. \A nd, size : S!PartLeft(nd, size) = B!PartLeft(nd, size) BY DEF S!PartLeft, B!PartLeft
<1>8. S!BufSize = B!BufSize BY DEF S!BufSize, B!BufSize
<1>9. \A s : S!InRange(s) <=> B!InRange(s) BY DEF S!InRange, B!InRange
<1> QED BY <1>1, <1>2, <1>3, <1>4, <1>5, <1>6, <1>7, <1>8, <1>9

(* So addData of a packet that is known is the same operation ...          *)
LEMMA ServerKnown == ASSUME NEW s, S!AddDataKnown(s) PROVE B!AddDataKnown(s)
<1> DEFINE l == S!MergeList(list, sstart)
           i == S!FirstHit(l, s)
<1>1. l = B!MergeList(list, sstart) BY ServerMerge
<1>2. i = B!FirstHit(l, s) BY ServerHit
<1>3. S!Known(l[i], s) <=> B!Known(l[i], s) BY ServerFill
<1>4. S!InRange(s) <=> B!InRange(s) BY ServerNode
<1>5. /\ S!Running /\ i # 0 /\ S!Known(l[i], s) /\ (S!InRange(s) \/ i = 1)
      /\ list' = l /\ answered' = answered \cup {s}
      /\ UNCHANGED <<buffer, sstart, sfault, readPos, lastRead>>
  BY DEF S!AddDataKnown
<1> HIDE DEF l, i
<1>6. i = B!FirstHit(B!MergeList(list, sstart), s) BY <1>1, <1>2
<1> QED BY <1>1, <1>3, <1>4, <1>5, <1>6 DEF B!AddDataKnown, S!Running, B!Running

(* ... as is that of a packet that is refused ...                          *)
LEMMA ServerRefused == ASSUME NEW s, S!AddDataRefused(s) PROVE B!AddDataRefused(s)
<1> DEFINE l == S!MergeList(list, sstart)
           i == S!FirstHit(l, s)
<1>1. l = B!MergeList(list, sstart) BY ServerMerge
<1>2. i = B!FirstHit(l, s) BY ServerHit
<1>3. S!Known(l[1], s) <=> B!Known(l[1], s) BY ServerFill
<1>4. S!InRange(s) <=> B!InRange(s) BY ServerNode
<1>5. /\ S!Running /\ (i = 0 \/ (~S!InRange(s) /\ ~(i = 1 /\ S!Known(l[1], s))))
      /\ list' = l
      /\ UNCHANGED <<buffer, sstart, sfault, answered, readPos, lastRead>>
  BY DEF S!AddDataRefused
<1> HIDE DEF l, i
<1>6. i = B!FirstHit(B!MergeList(list, sstart), s) BY <1>1, <1>2
<1> QED BY <1>1, <1>3, <1>4, <1>5, <1>6 DEF B!AddDataRefused, S!Running, B!Running

(* ... and that of a packet a hole takes.                                  *)
LEMMA ServerFits == ASSUME NEW s, NEW payload, S!AddDataFits(s, payload) PROVE B!AddDataFits(s, payload)
<1> DEFINE l == S!MergeList(list, sstart)
           i == S!FirstHit(l, s)
           parts == S!Fill(l[i], s)
           nd == S!NewNode(parts)
           new == SubSeq(l, 1, i-1) \o parts \o SubSeq(l, i+1, Len(l))
<1>1. l = B!MergeList(list, sstart) BY ServerMerge
<1>2. i = B!FirstHit(l, s) BY ServerHit
<1>3. parts = B!Fill(l[i], s) BY ServerFill
<1>4. nd = B!NewNode(parts) BY ServerNode
<1>5. S!MergeHangs(new, sstart) <=> B!MergeHangs(new, sstart) BY ServerHangs
<1>6. S!MergeList(new, sstart) = B!MergeList(new, sstart) BY ServerMerge
<1>7. /\ S!InRange(s) <=> B!InRange(s)
      /\ S!Copyable(nd) <=> B!Copyable(nd)
      /\ S!Store(nd, payload) = B!Store(nd, payload)
  BY ServerNode
<1>8. /\ S!Running /\ i # 0 /\ ~l[i].filled /\ S!InRange(s)
      /\ IF S!Copyable(nd) /\ ~S!MergeHangs(new, sstart)
         THEN /\ list' = S!MergeList(new, sstart)
              /\ buffer' = S!Store(nd, payload)
              /\ answered' = answered \cup {s}
              /\ UNCHANGED <<sstart, sfault, readPos, lastRead>>
         ELSE /\ sfault' = IF S!Copyable(nd) THEN "hung" ELSE "crashed"
              /\ UNCHANGED <<buffer, sstart, list, answered, readPos, lastRead>>
  BY DEF S!AddDataFits
<1> HIDE DEF nd, parts
<1>9. new = SubSeq(l, 1, i-1) \o parts \o SubSeq(l, i+1, Len(l)) OBVIOUS
<1> HIDE DEF new, i, l
<1>10. /\ B!Running /\ i # 0 /\ ~l[i].filled /\ B!InRange(s)
       /\ IF B!Copyable(nd) /\ ~B!MergeHangs(new, sstart)
          THEN /\ list' = B!MergeList(new, sstart)
               /\ buffer' = B!Store(nd, payload)
               /\ answered' = answered \cup {s}
               /\ UNCHANGED <<sstart, sfault, readPos, lastRead>>
          ELSE /\ sfault' = IF B!Copyable(nd) THEN "hung" ELSE "crashed"
               /\ UNCHANGED <<buffer, sstart, list, answered, readPos, lastRead>>
  BY <1>5, <1>6, <1>7, <1>8 DEF S!Running, B!Running
<1>11. B!AddDataFits(s, payload) <=>
         LET ll    == B!MergeList(list, sstart)
             ii    == B!FirstHit(ll, s)
             pp    == B!Fill(ll[ii], s)
             nn    == B!NewNode(pp)
             ww    == SubSeq(ll, 1, ii-1) \o pp \o SubSeq(ll, ii+1, Len(ll))
         IN  /\ B!Running /\ ii # 0 /\ ~ll[ii].filled /\ B!InRange(s)
             /\ IF B!Copyable(nn) /\ ~B!MergeHangs(ww, sstart)
                THEN /\ list' = B!MergeList(ww, sstart)
                     /\ buffer' = B!Store(nn, payload)
                     /\ answered' = answered \cup {s}
                     /\ UNCHANGED <<sstart, sfault, readPos, lastRead>>
                ELSE /\ sfault' = IF B!Copyable(nn) THEN "hung" ELSE "crashed"
                     /\ UNCHANGED <<buffer, sstart, list, answered, readPos, lastRead>>
  BY DEF B!AddDataFits
<1> QED BY <1>1, <1>2, <1>3, <1>4, <1>9, <1>10, <1>11

(* requestData of a whole node is the same operation ...                   *)
LEMMA ServerWhole == ASSUME NEW size, S!RequestWhole(size) PROVE B!RequestWhole(size)
<1> DEFINE nd    == list[1]
           start == S!NextNeeded(nd)
           new   == S!UsedUp(list)
<1>1. start = B!NextNeeded(nd) /\ new = B!UsedUp(list) /\ S!Get(nd, nd.size) = B!Get(nd, nd.size)
  BY ServerNode
<1>2. (S!Copyable(nd) <=> B!Copyable(nd)) BY ServerNode
<1>3. S!MergeList(new, start) = B!MergeList(new, start) BY ServerMerge
<1>4. S!MergeHangs(new, start) <=> B!MergeHangs(new, start) BY ServerHangs
<1>5. S!Servable <=> B!Servable BY DEF S!Servable, B!Servable, S!Running, B!Running
<1>6. /\ S!Servable /\ nd.size <= size
      /\ IF S!Copyable(nd) /\ ~S!MergeHangs(new, start)
         THEN /\ sstart' = start
              /\ list' = S!MergeList(new, start)
              /\ lastRead' = S!Get(nd, nd.size)
              /\ readPos' = readPos + nd.size
              /\ UNCHANGED sfault
         ELSE /\ sfault' = IF S!Copyable(nd) THEN "hung" ELSE "crashed"
              /\ UNCHANGED <<sstart, list, lastRead, readPos>>
      /\ UNCHANGED <<buffer, answered>>
  BY DEF S!RequestWhole
<1> HIDE DEF new, start
<1> QED BY <1>1, <1>2, <1>3, <1>4, <1>5, <1>6 DEF B!RequestWhole

(* ... as is that of a part of one.                                        *)
LEMMA ServerPart == ASSUME NEW size, S!RequestPart(size) PROVE B!RequestPart(size)
BY DEF S!RequestPart, B!RequestPart, S!Servable, B!Servable, S!Running, B!Running, S!BufSize, B!BufSize,
       S!Copyable, B!Copyable, S!PartLeft, B!PartLeft, S!Get, B!Get

(* The two buffers begin alike.                                            *)
LEMMA ServerInit == S!Init => B!Init
BY DEF S!Init, B!Init, S!Address, B!Address, S!NoByte, B!NoByte, S!Hole, B!Hole, S!BufSize, B!BufSize

--------------------------------------------------------------------------------

(* The messages in the network: acknowledgements of packets the server has *)
(* taken, and packets the client has sent.                                 *)
IsAnswer(m) == m = ACK(m.seq) /\ m.seq \in answered
NetOK == \A m \in net : IsAnswer(m) \/ \E p \in sent : m = Packet(p)

(* The server has taken whole packets of what ftpc has written, and ftps   *)
(* has read only such.                                                     *)
AnsweredOK ==
  /\ \A s \in answered : s * Mss <= written
  /\ \A s \in 1..sstart-1 : s \in answered

(* Only the last chunk of the stream is not a whole packet.                *)
FtpcOK ==
  /\ fileSize \in Files /\ eof \in BOOLEAN
  /\ written <= StreamSize /\ (eof \/ K!Multiple(written))

(* What ftps has written to its file is all it has read but the header.    *)
FtpsOK ==
  /\ request \in 0..HeaderSize /\ file \in Seq(Int)
  /\ request > 0 => file = <<>>
  /\ readPos = HeaderSize - request + Len(file)
  /\ \A i \in 1..Len(file) : file[i] = HeaderSize + i - 1

(* The invariant of a transfer that is not spoilt: those of the two        *)
(* buffers, and what ties them together.                                   *)
TransferInv ==
  /\ K!StreamInv /\ K!InStep(answered) /\ B!BufferInv
  /\ NetOK /\ AnsweredOK /\ FtpcOK /\ FtpsOK /\ disturbed \in BOOLEAN

(* The inductive invariant.  spoilt never turns false again, so a transfer *)
(* that is not spoilt has never been.                                      *)
PromiseInv ==
  /\ fileSize \in Files /\ eof \in BOOLEAN /\ disturbed \in BOOLEAN /\ spoilt \in BOOLEAN
  /\ ~spoilt => TransferInv

(* What the constants allow.                                               *)
LEMMA FileSizes ==
  /\ Largest(Files) \in Nat \ {0}
  /\ \A n \in Files : n \in Nat \ {0} /\ n <= Largest(Files)
<1>1. Files \subseteq Nat \ {0} /\ \E m \in Files : \A n \in Files : n <= m BY TransferAssumption
<1>2. Largest(Files) \in Files /\ \A n \in Files : n <= Largest(Files) BY <1>1 DEF Largest
<1> QED BY <1>1, <1>2

(* The client's sizes are those its buffer assumes, and the window is a    *)
(* whole number of packets.                                                *)
LEMMA ClientSizes == K!SizesAssumption /\ K!Multiple(WinSize)
<1>1. /\ ClientSize \in Nat /\ Mss \in Nat \ {0} /\ Slots \in Nat \ {0} /\ HeaderSize \in 1..Mss-1
      /\ WinSize \in Mss..ClientSize-1
  BY TransferAssumption
<1>2. HeaderSize + Largest(Files) \in Nat BY <1>1, FileSizes
<1>3. WinSize \in Nat /\ Mss <= WinSize /\ WinSize < ClientSize BY <1>1
<1>4. K!SizesAssumption BY <1>1, <1>2, <1>3 DEF K!SizesAssumption
<1>5. K!Multiple(WinSize)
  <2>1. WinSize \div Mss \in Int /\ WinSize = Mss * (WinSize \div Mss) + (WinSize % Mss)
    BY <1>1, <1>3, <1>4, K!DivMod
  <2>2. WinSize % Mss = 0 BY TransferAssumption
  <2>3. PICK q \in Int : WinSize = Mss * q
    <3>1. \A x \in Int : x + 0 = x OBVIOUS
    <3>2. Mss * (WinSize \div Mss) \in Int BY <1>1, <2>1
    <3> QED BY <2>1, <2>2, <3>1, <3>2
  <2>4. WinSize = q * Mss BY <2>3, <1>1
  <2> QED BY <2>4 DEF K!Multiple
<1> QED BY <1>4, <1>5

(* The server's sizes are those its buffer assumes: a window fits in it,   *)
(* with room to spare.                                                     *)
LEMMA ServerSizes == B!BufferAssumption
<1>1. /\ Mss \in Nat \ {0} /\ HeaderSize \in 1..Mss-1 /\ Request \in Nat \ {0}
      /\ Packets \in Nat /\ WinSize \div Mss < Packets /\ MaxSeq \in 0..MaxInt-1
  BY TransferAssumption
<1>2. WinSize \div Mss \in 1..Packets-1
  <2> DEFINE w == WinSize \div Mss
  <2>1. WinSize \in Nat /\ Mss <= WinSize BY ClientSizes DEF K!SizesAssumption
  <2>2. w \in Int /\ WinSize = Mss * w + (WinSize % Mss) /\ WinSize % Mss = 0
    BY <1>1, <2>1, ClientSizes, TransferAssumption, K!DivMod
  <2> HIDE DEF w
  <2>3. WinSize = Mss * w
    <3>1. Mss * w \in Int BY <1>1, <2>2
    <3> QED BY <2>2, <3>1
  <2>4. w >= 1
    <3> SUFFICES ASSUME w <= 0 PROVE FALSE BY <2>2
    <3>1. Mss * w <= 0 BY <1>1, <2>2
    <3> QED BY <3>1, <2>1, <2>3, <1>1
  <2>5. w \in 1..Packets-1 BY <1>1, <2>2, <2>4 DEF w
  <2> QED BY <2>5 DEF w
<1>3. (1..HeaderSize) \cup {Request} \subseteq Nat \ {0} BY <1>1
<1>4. Packets \in Nat \ {0} BY <1>1, <1>2
<1>5. MaxSeq \in 0..B!MaxInt-1
  <2>1. B!MaxInt = MaxInt BY SMT DEF B!MaxInt, MaxInt
  <2>2. MaxSeq \in 0..MaxInt-1 BY <1>1
  <2> QED BY <2>1, <2>2
<1> QED BY <1>1, <1>2, <1>3, <1>4, <1>5 DEF B!BufferAssumption

--------------------------------------------------------------------------------

(* The client's buffer is left alone by the server and the network; the    *)
(* server may acknowledge more than before.                                *)
LEMMA ClientStill ==
  ASSUME K!StreamInv, K!InStep(answered), UNCHANGED clientVars, answered \subseteq answered'
  PROVE  K!StreamInv' /\ K!InStep(answered)'
<1>1. K!SizesAssumption BY ClientSizes
<1>2. UNCHANGED K!vars BY DEF clientVars, K!vars, K!bufVars, K!history
<1>3. K!StreamInv' BY <1>1, <1>2, K!NextStream
<1>4. PICK T : T = answered' OBVIOUS
<1>5. K!InStep(T) BY <1>1, <1>4, K!MoreInStep
<1>6. K!InStep(T)'
  <2>1. K!IInv BY DEF K!StreamInv, K!KeptInv, K!CoverInv
  <2>2. \A p \in sent' : K!IsPacket(p)
    <3>1. sent' = sent BY DEF clientVars
    <3> QED BY <3>1, <1>5 DEF K!InStep
  <2>3. UNCHANGED <<cstart, dend, isEmpty, packseq, acked, written, misread, nodes, sent>>
    BY DEF clientVars
  <2> QED BY <1>1, <1>5, <2>1, <2>2, <2>3, K!MarkStep
<1>7. K!InStep(answered)' BY <1>4, <1>6 DEF K!InStep
<1> QED BY <1>3, <1>7

(* The server's buffer is left alone by the client, ftpc and the network.  *)
LEMMA ServerStill == ASSUME B!BufferInv, UNCHANGED serverVars PROVE B!BufferInv'
<1>1. B!BufferAssumption BY ServerSizes
<1>2. UNCHANGED B!vars BY DEF serverVars, B!vars, B!bufVars
<1> QED BY <1>1, <1>2, B!NextInv

(* The transfer begins as it should.                                       *)
LEMMA InitTransfer == Init => TransferInv
<1> SUFFICES ASSUME Init PROVE TransferInv OBVIOUS
<1>1. K!SizesAssumption /\ B!BufferAssumption BY ClientSizes, ServerSizes
<1>2. K!Init /\ B!Init BY ClientIs, ServerInit DEF Init
<1>3. K!StreamInv /\ K!InStep(answered)
  <2>1. PICK T : T = answered OBVIOUS
  <2>2. K!InStep(T) BY <1>1, <1>2, K!InitInStep
  <2> QED BY <1>1, <1>2, <2>1, <2>2, K!InitStream
<1>4. B!BufferInv BY <1>1, <1>2, B!InitInv
<1>5. /\ written = 0 /\ sent = {} /\ answered = {} /\ readPos = 0 /\ sstart = 1
      /\ net = {} /\ request = HeaderSize /\ file = <<>> /\ fileSize \in Files /\ eof = FALSE
      /\ disturbed = FALSE
  BY <1>2 DEF Init, K!Init, B!Init
<1>6. NetOK /\ AnsweredOK BY <1>5 DEF NetOK, AnsweredOK
<1>7. FtpcOK
  <2>1. HeaderSize \in Nat /\ fileSize \in Nat BY <1>5, FileSizes, TransferAssumption
  <2>2. 0 <= StreamSize BY <2>1 DEF StreamSize
  <2>3. K!Multiple(0)
    <3>1. 0 = 0 * Mss BY TransferAssumption
    <3> QED BY <3>1 DEF K!Multiple
  <2> QED BY <1>5, <2>2, <2>3 DEF FtpcOK
<1>8. FtpsOK
  <2>1. HeaderSize \in Nat BY TransferAssumption
  <2>2. file \in Seq(Int) /\ Len(file) = 0 BY <1>5
  <2>3. readPos = HeaderSize - request + Len(file) BY <1>5, <2>1, <2>2
  <2> QED BY <1>5, <2>1, <2>2, <2>3 DEF FtpsOK
<1> QED BY <1>3, <1>4, <1>5, <1>6, <1>7, <1>8 DEF TransferInv

(* What the two buffers' invariants say of the variables they share.       *)
LEMMA TransferFacts ==
  ASSUME TransferInv
  PROVE  /\ written \in Nat /\ acked \in Nat /\ packseq \in Nat /\ misread \in BOOLEAN
         /\ MaxSeq \in Nat /\ answered \subseteq 1..MaxSeq /\ readPos \in Nat /\ sstart \in Nat
         /\ Mss \in Nat \ {0} /\ HeaderSize \in Nat /\ fileSize \in Nat \ {0} /\ StreamSize \in Nat
         /\ \A p \in sent : p.seq \in 1..packseq-1
<1>1. K!SizesAssumption /\ B!BufferAssumption BY ClientSizes, ServerSizes
<1>2. K!IInv BY DEF TransferInv, K!StreamInv, K!KeptInv, K!CoverInv
<1>3. /\ written \in 0..HeaderSize + Largest(Files) /\ acked \in Nat /\ packseq \in Nat /\ misread \in BOOLEAN
      /\ \A p \in sent : p.seq \in 1..packseq-1
  BY <1>1, <1>2, K!IInvFacts
<1>4. HeaderSize + Largest(Files) \in Nat BY <1>1 DEF K!SizesAssumption
<1>5. answered \subseteq 1..MaxSeq /\ readPos \in Nat /\ sstart \in 1..MaxSeq+1
  BY DEF TransferInv, B!BufferInv, B!TypeOK
<1>6. Mss \in Nat \ {0} /\ HeaderSize \in Nat /\ MaxSeq \in Nat BY TransferAssumption
<1>7. fileSize \in Nat \ {0} BY FileSizes DEF TransferInv, FtpcOK
<1>8. StreamSize \in Nat BY <1>6, <1>7 DEF StreamSize
<1> QED BY <1>3, <1>4, <1>5, <1>6, <1>7, <1>8

(* A step of the client's side: the server and ftps rest, and only packets *)
(* that have been sent are new in the network.                             *)
LEMMA ClientSide ==
  ASSUME TransferInv, K!StreamInv', K!InStep(answered)', FtpcOK',
         UNCHANGED <<serverVars, ftpsVars>>, disturbed' \in BOOLEAN, written <= written', sent \subseteq sent',
         \A m \in net' : m \in net \/ \E p \in sent' : m = Packet(p)
  PROVE  TransferInv'
<1>1. B!BufferInv' BY ServerStill DEF TransferInv
<1>2. UNCHANGED <<answered, sstart, readPos, request, file>> BY DEF serverVars, ftpsVars
<1>3. NetOK'
  <2> SUFFICES ASSUME NEW m \in net' PROVE (m = ACK(m.seq) /\ m.seq \in answered) \/ \E p \in sent' : m = Packet(p)
    BY <1>2 DEF NetOK, IsAnswer, ACK, Packet
  <2>1. CASE \E p \in sent' : m = Packet(p) BY <2>1
  <2>2. CASE m \in net
    <3>1. (m = ACK(m.seq) /\ m.seq \in answered) \/ \E p \in sent : m = Packet(p)
      BY <2>2 DEF TransferInv, NetOK, IsAnswer
    <3> QED BY <3>1
  <2> QED BY <2>1, <2>2
<1>4. AnsweredOK'
  <2>1. \A s \in answered : s * Mss <= written BY DEF TransferInv, AnsweredOK
  <2>2. \A s \in 1..sstart-1 : s \in answered BY DEF TransferInv, AnsweredOK
  <2>3. ASSUME NEW s \in answered PROVE s * Mss <= written'
    <3>1. s \in Int /\ Mss \in Int /\ written \in Int BY TransferFacts
    <3>2. written' \in Int
      <4>1. K!IInv' BY DEF K!StreamInv, K!KeptInv, K!CoverInv
      <4>2. written' \in 0..HeaderSize + Largest(Files) BY <4>1 DEF K!IInv, K!TypeOK
      <4> QED BY <4>2
    <3>3. PICK x \in Int : x = s * Mss BY <3>1
    <3>4. x <= written BY <3>3, <2>1
    <3>5. x <= written' BY <3>1, <3>2, <3>4
    <3> QED BY <3>3, <3>5
  <2>4. \A s \in answered' : s * Mss <= written' BY <1>2, <2>3
  <2>5. \A s \in 1..sstart'-1 : s \in answered' BY <1>2, <2>2
  <2> QED BY <2>4, <2>5 DEF AnsweredOK
<1>5. FtpsOK'
  <2>1. FtpsOK BY DEF TransferInv
  <2> QED BY <1>2, <2>1 DEF FtpsOK
<1> QED BY <1>1, <1>3, <1>4, <1>5 DEF TransferInv

(* A step of the client's buffer from the invariants keeps its invariant.  *)
LEMMA ClientNext ==
  ASSUME K!StreamInv,
         \/ \E size \in 0..Mss : K!AddData(size) \/ K!AddDataFull(size)
         \/ \E num \in 1..packseq-1 : K!RecvACK(num) \/ K!RecvACKCrash(num) \/ K!TimerExpire(num)
         \/ K!SendWindow
  PROVE  K!StreamInv' /\ K!IInv /\ K!IInv' /\ K!CoverInv /\ K!CoverInv'
<1>1. K!SizesAssumption BY ClientSizes
<1>2. K!Next BY DEF K!Next
<1>3. K!StreamInv' BY <1>1, <1>2, K!NextStream
<1> QED BY <1>3 DEF K!StreamInv, K!KeptInv, K!CoverInv

(* The next chunk is full, but the last one.                               *)
LEMMA ChunkSizes ==
  ASSUME TransferInv
  PROVE  /\ ChunkSize = K!Least(Mss, StreamSize - written) /\ ChunkSize \in 0..Mss
         /\ written + ChunkSize <= StreamSize
         /\ ~eof => K!Multiple(written)
         /\ ChunkSize = Mss => (K!Multiple(written) => K!Multiple(written + ChunkSize))
<1>1. written \in Nat /\ StreamSize \in Nat /\ Mss \in Nat BY TransferFacts
<1>2. written <= StreamSize /\ (eof \/ K!Multiple(written)) BY DEF TransferInv, FtpcOK
<1>3. ChunkSize = IF Mss < StreamSize - written THEN Mss ELSE StreamSize - written
  BY DEF ChunkSize, C!Least
<1>4. ChunkSize = K!Least(Mss, StreamSize - written) BY <1>3 DEF K!Least
<1>5. ChunkSize \in 0..Mss /\ written + ChunkSize <= StreamSize
  <2> HIDE DEF ChunkSize, StreamSize
  <2> QED BY <1>1, <1>2, <1>3
<1>6. ASSUME ChunkSize = Mss, K!Multiple(written) PROVE K!Multiple(written + ChunkSize)
  <2>1. PICK q \in Int : written = q * Mss BY <1>6 DEF K!Multiple
  <2>2. written + ChunkSize = (q + 1) * Mss /\ q + 1 \in Int
    <3>1. (q + 1) * Mss = q * Mss + Mss BY <1>1
    <3> QED BY <1>6, <2>1, <3>1
  <2> QED BY <2>2 DEF K!Multiple
<1> QED BY <1>2, <1>4, <1>5, <1>6

(* ftpc hands a chunk over, the last one perhaps a short one ...           *)
LEMMA SendChunkKeeps == ASSUME TransferInv, SendChunk PROVE TransferInv'
<1> PICK size : size = ChunkSize OBVIOUS
<1>0. K!SizesAssumption /\ K!Multiple(WinSize) BY ClientSizes
<1>1. /\ ~eof /\ C!AddData(size) /\ eof' = (size < Mss)
      /\ UNCHANGED <<serverVars, net, fileSize, ftpsVars, disturbed, spoilt>>
  BY DEF SendChunk
<1>2. /\ size \in 0..Mss /\ written + size <= StreamSize /\ K!Multiple(written)
      /\ size = Mss => K!Multiple(written + size)
  BY <1>1, ChunkSizes
<1>3. K!AddData(size) BY <1>1, ClientAddData
<1>4. K!StreamInv /\ K!InStep(answered) /\ disturbed \in BOOLEAN /\ fileSize \in Files BY DEF TransferInv, FtpcOK
<1>5. K!StreamInv' /\ K!CoverInv /\ K!CoverInv' BY <1>2, <1>3, <1>4, ClientNext
<1>6. K!InStep(answered)'
  <2>1. PICK T : T = answered OBVIOUS
  <2>2. K!InStep(T) BY <1>4, <2>1
  <2>3. K!InStep(T)' BY <1>0, <1>2, <1>3, <1>5, <2>2, K!AddDataInStep
  <2>4. answered' = T BY <1>1, <2>1 DEF serverVars
  <2> QED BY <2>3, <2>4 DEF K!InStep
<1>7. written' = written + size /\ sent' = sent BY <1>3 DEF K!AddData
<1>8. FtpcOK'
  <2>1. StreamSize' = StreamSize BY <1>1 DEF StreamSize
  <2>2. written' <= StreamSize' BY <1>2, <1>7, <2>1
  <2>3. eof' \in BOOLEAN BY <1>1
  <2>4. CASE size < Mss
    <3>1. eof' BY <1>1, <2>4
    <3> QED BY <1>1, <1>4, <2>2, <2>3, <3>1 DEF FtpcOK
  <2>5. CASE ~(size < Mss)
    <3>1. size = Mss
      <4>1. Mss \in Nat BY TransferFacts
      <4> QED BY <1>2, <2>5, <4>1
    <3>2. K!Multiple(written)' BY <1>2, <1>7, <3>1 DEF K!Multiple
    <3> QED BY <1>1, <1>4, <2>2, <2>3, <3>2 DEF FtpcOK
  <2> QED BY <2>4, <2>5
<1>9. written <= written'
  <2>1. written \in Nat /\ Mss \in Nat BY TransferFacts
  <2> QED BY <1>2, <1>7, <2>1
<1> QED BY <1>1, <1>4, <1>5, <1>6, <1>7, <1>8, <1>9, ClientSide

(* ... or waits with it.                                                   *)
LEMMA ChunkWaitsKeeps == ASSUME TransferInv, ChunkWaits PROVE TransferInv'
<1> PICK size : size = ChunkSize OBVIOUS
<1>0. K!SizesAssumption /\ K!Multiple(WinSize) BY ClientSizes
<1>1. /\ C!AddDataFull(size)
      /\ UNCHANGED <<serverVars, net, ftpcVars, ftpsVars, disturbed, spoilt>>
  BY DEF ChunkWaits
<1>2. size \in 0..Mss BY ChunkSizes
<1>3. K!AddDataFull(size) BY <1>1, ClientAddDataFull
<1>4. K!StreamInv /\ K!InStep(answered) /\ disturbed \in BOOLEAN /\ FtpcOK BY DEF TransferInv
<1>5. K!StreamInv' /\ K!CoverInv /\ K!CoverInv' BY <1>2, <1>3, <1>4, ClientNext
<1>6. K!InStep(answered)'
  <2>1. PICK T : T = answered OBVIOUS
  <2>2. K!InStep(T) BY <1>4, <2>1
  <2>3. K!InStep(T)' BY <1>0, <1>2, <1>3, <1>5, <2>2, K!AddDataFullInStep
  <2>4. answered' = T BY <1>1, <2>1 DEF serverVars
  <2> QED BY <2>3, <2>4 DEF K!InStep
<1>7. written' = written /\ sent' = sent BY <1>3 DEF K!AddDataFull
<1>8. FtpcOK' BY <1>1, <1>4, <1>7 DEF FtpcOK, StreamSize, ftpcVars, K!Multiple
<1>9. written <= written' BY <1>7, TransferFacts
<1> QED BY <1>1, <1>4, <1>5, <1>6, <1>7, <1>8, <1>9, ClientSide

(* What sendWindow puts on the network are packets of the stream, as long  *)
(* as the ring is not misread.                                             *)
LEMMA TransmitKeeps == ASSUME TransferInv, Transmit, ~spoilt' PROVE TransferInv'
<1>0. K!SizesAssumption /\ K!Multiple(WinSize) BY ClientSizes
<1>1. /\ ~misread /\ C!SendWindow
      /\ net' = net \cup {Packet([seq |-> nodes[i].seqnum, payload |-> C!Payload(nodes[i])]) : i \in C!Outgoing}
      /\ UNCHANGED <<serverVars, ftpcVars, ftpsVars, disturbed>>
  BY DEF Transmit
<1>3. K!SendWindow BY <1>1, ClientSend
<1>4. K!StreamInv /\ K!InStep(answered) /\ disturbed \in BOOLEAN /\ FtpcOK BY DEF TransferInv
<1>5. K!StreamInv' BY <1>3, <1>4, ClientNext
<1>6. K!InStep(answered)'
  <2>1. PICK T : T = answered OBVIOUS
  <2>2. K!InStep(T) BY <1>4, <2>1
  <2>3. K!InStep(T)' BY <1>0, <1>1, <1>3, <1>4, <2>2, K!SendInStep
  <2>4. answered' = T BY <1>1, <2>1 DEF serverVars
  <2> QED BY <2>3, <2>4 DEF K!InStep
<1>7. /\ written' = written
      /\ sent' = sent \cup {[seq |-> nodes[i].seqnum, payload |-> K!Payload(nodes[i])] : i \in K!Outgoing}
  BY <1>3 DEF K!SendWindow
<1>8. FtpcOK' BY <1>1, <1>4, <1>7 DEF FtpcOK, StreamSize, ftpcVars, K!Multiple
<1>9. written <= written' BY <1>7, TransferFacts
<1>10. ASSUME NEW m \in net' PROVE m \in net \/ \E p \in sent' : m = Packet(p)
  <2>1. SUFFICES ASSUME m \notin net PROVE \E p \in sent' : m = Packet(p) OBVIOUS
  <2>2. PICK i \in C!Outgoing :
          m = Packet([seq |-> nodes[i].seqnum, payload |-> C!Payload(nodes[i])])
    BY <1>1, <1>10, <2>1
  <2>3. i \in K!Outgoing /\ C!Payload(nodes[i]) = K!Payload(nodes[i]) BY ClientIs
  <2> QED BY <1>7, <2>2, <2>3
<1>11. disturbed' \in BOOLEAN BY <1>1, <1>4
<1>12. sent \subseteq sent' BY <1>7
<1> QED BY <1>1, <1>5, <1>6, <1>8, <1>9, <1>10, <1>11, <1>12, ClientSide

(* A notice of expiry.                                                     *)
LEMMA ExpireKeeps == ASSUME TransferInv, NEW num, Expire(num) PROVE TransferInv'
<1>0. K!SizesAssumption BY ClientSizes
<1>1. C!TimerExpire(num) /\ UNCHANGED <<serverVars, net, ftpcVars, ftpsVars>> BY DEF Expire
<1>3. K!TimerExpire(num) BY <1>1, ClientExpire
<1>4. K!StreamInv /\ K!InStep(answered) /\ disturbed \in BOOLEAN /\ FtpcOK BY DEF TransferInv
<1>2. num \in 1..packseq-1
  <2>1. num \in {p.seq : p \in sent} BY <1>3 DEF K!TimerExpire
  <2> QED BY <2>1, TransferFacts
<1>5. K!StreamInv' /\ K!IInv BY <1>2, <1>3, <1>4, ClientNext
<1>6. K!InStep(answered)'
  <2>1. PICK T : T = answered OBVIOUS
  <2>2. K!InStep(T) BY <1>4, <2>1
  <2>3. K!InStep(T)' BY <1>0, <1>3, <1>5, <2>2, K!TimerExpireInStep
  <2>4. answered' = T BY <1>1, <2>1 DEF serverVars
  <2> QED BY <2>3, <2>4 DEF K!InStep
<1>7. written' = written /\ sent' = sent BY <1>3 DEF K!TimerExpire, K!history
<1>8. FtpcOK' BY <1>1, <1>4, <1>7 DEF FtpcOK, StreamSize, ftpcVars, K!Multiple
<1>9. written <= written' BY <1>7, TransferFacts
<1>10. disturbed' \in BOOLEAN BY DEF Expire
<1>11. net' = net /\ UNCHANGED <<serverVars, ftpsVars>> BY <1>1
<1> QED BY <1>5, <1>6, <1>7, <1>8, <1>9, <1>10, <1>11, ClientSide

(* An acknowledgement in the network is one of a packet the server has.    *)
LEMMA ReceiveACKKeeps == ASSUME TransferInv, NEW num, ReceiveACK(num) PROVE TransferInv'
<1>0. K!SizesAssumption /\ K!Multiple(WinSize) BY ClientSizes
<1>1. /\ ACK(num) \in net /\ net' = net \ {ACK(num)}
      /\ UNCHANGED <<serverVars, ftpcVars, ftpsVars, disturbed, spoilt>>
      /\ C!RecvACK(num) \/ C!RecvACKCrash(num)
  BY DEF ReceiveACK
<1>3. K!RecvACK(num) \/ K!RecvACKCrash(num) BY <1>1, ClientRecvACK, ClientCrash
<1>4. /\ K!StreamInv /\ K!InStep(answered) /\ disturbed \in BOOLEAN /\ FtpcOK
      /\ NetOK /\ AnsweredOK
  BY DEF TransferInv
<1>2. num \in 1..packseq-1
  <2>1. num \in {p.seq : p \in sent} BY <1>3 DEF K!RecvACK, K!RecvACKCrash
  <2> QED BY <2>1, TransferFacts
<1>5. K!StreamInv' /\ K!IInv /\ K!CoverInv /\ K!CoverInv' BY <1>2, <1>3, <1>4, ClientNext
<1>55. num \in answered
  <2>1. ACK(num).kind = "ACK" /\ ACK(num).seq = num BY DEF ACK
  <2>2. \A p : Packet(p).kind = "packet" BY DEF Packet
  <2>3. ~ \E p \in sent : ACK(num) = Packet(p) BY <2>1, <2>2
  <2> QED BY <1>1, <1>4, <2>1, <2>3 DEF NetOK, IsAnswer
<1>6. K!InStep(answered)'
  <2>1. PICK T : T = answered OBVIOUS
  <2>2. K!InStep(T) /\ num \in T BY <1>4, <1>55, <2>1
  <2>3. \A s \in T : s \in Nat /\ s * Mss <= written
    <3>1. \A s \in T : s \in Nat BY <2>1, TransferFacts
    <3> QED BY <1>4, <2>1, <3>1 DEF AnsweredOK
  <2>4. CASE K!RecvACK(num)
    <3>1. K!InStep(T)' BY <1>0, <1>5, <2>2, <2>3, <2>4, K!RecvACKInStep
    <3>2. answered' = T BY <1>1, <2>1 DEF serverVars
    <3> QED BY <3>1, <3>2 DEF K!InStep
  <2>5. CASE K!RecvACKCrash(num)
    <3>1. K!InStep(T)' BY <1>0, <1>5, <2>2, <2>5, K!CrashInStep
    <3>2. answered' = T BY <1>1, <2>1 DEF serverVars
    <3> QED BY <3>1, <3>2 DEF K!InStep
  <2> QED BY <1>3, <2>4, <2>5
<1>7. written' = written /\ sent' = sent BY <1>3 DEF K!RecvACK, K!RecvACKCrash, K!history
<1>8. FtpcOK' BY <1>1, <1>4, <1>7 DEF FtpcOK, StreamSize, ftpcVars, K!Multiple
<1>9. written <= written' BY <1>7, TransferFacts
<1>10. disturbed' \in BOOLEAN BY <1>1, <1>4
<1>11. net' \subseteq net /\ sent \subseteq sent' BY <1>1, <1>7
<1> QED BY <1>1, <1>5, <1>6, <1>8, <1>9, <1>10, <1>11, ClientSide

(* A step of the server's side, or of the network: the client and ftpc     *)
(* rest, and only acknowledgements of packets the server has taken are new *)
(* in the network.                                                         *)
LEMMA ServerSide ==
  ASSUME TransferInv, B!BufferInv', FtpsOK', UNCHANGED <<clientVars, ftpcVars>>, disturbed' \in BOOLEAN,
         answered \subseteq answered', \A s \in answered' : s \in answered \/ s * Mss <= written,
         \A s \in 1..sstart'-1 : s < sstart \/ s \in answered',
         \A m \in net' : m \in net \/ (m = ACK(m.seq) /\ m.seq \in answered')
  PROVE  TransferInv'
<1>1. K!StreamInv' /\ K!InStep(answered)' BY ClientStill DEF TransferInv
<1>2. UNCHANGED <<written, sent, fileSize, eof>> BY DEF clientVars, ftpcVars
<1>3. NetOK'
  <2> SUFFICES ASSUME NEW m \in net' PROVE (m = ACK(m.seq) /\ m.seq \in answered') \/ \E p \in sent : m = Packet(p)
    BY <1>2 DEF NetOK, IsAnswer, ACK, Packet
  <2>1. CASE m \in net
    <3>1. (m = ACK(m.seq) /\ m.seq \in answered) \/ \E p \in sent : m = Packet(p)
      BY <2>1 DEF TransferInv, NetOK, IsAnswer
    <3> QED BY <3>1
  <2> QED BY <2>1
<1>4. AnsweredOK'
  <2>1. \A s \in answered : s * Mss <= written BY DEF TransferInv, AnsweredOK
  <2>2. \A s \in 1..sstart-1 : s \in answered BY DEF TransferInv, AnsweredOK
  <2>3. \A s \in answered' : s * Mss <= written' BY <1>2, <2>1
  <2>4. \A s \in 1..sstart'-1 : s \in answered'
    <3> SUFFICES ASSUME NEW s \in 1..sstart'-1 PROVE s \in answered' OBVIOUS
    <3>1. CASE s < sstart
      <4>1. s \in 1..sstart-1
        <5>1. sstart \in Nat /\ s \in Int /\ 1 <= s BY TransferFacts
        <5> QED BY <3>1, <5>1
      <4> QED BY <2>2, <4>1
    <3> QED BY <3>1
  <2> QED BY <2>3, <2>4 DEF AnsweredOK
<1>5. FtpcOK'
  <2>1. FtpcOK BY DEF TransferInv
  <2> QED BY <1>2, <2>1 DEF FtpcOK, StreamSize, K!Multiple
<1> QED BY <1>1, <1>3, <1>4, <1>5 DEF TransferInv

(* A message is lost.                                                      *)
LEMMA LoseKeeps == ASSUME TransferInv, Lose PROVE TransferInv'
<1>1. PICK m \in net : net' = net \ {m} /\ disturbed' = (disturbed \/ m.kind = "ACK") BY DEF Lose
<1>2. UNCHANGED <<clientVars, serverVars, ftpcVars, ftpsVars>> BY DEF Lose
<1>3. B!BufferInv' BY <1>2, ServerStill DEF TransferInv
<1>4. UNCHANGED <<answered, sstart, readPos, request, file>> BY <1>2 DEF serverVars, ftpsVars
<1>5. FtpsOK'
  <2>1. FtpsOK BY DEF TransferInv
  <2> QED BY <1>4, <2>1 DEF FtpsOK
<1>6. disturbed' \in BOOLEAN BY <1>1
<1>7. \A s \in 1..sstart'-1 : s < sstart \/ s \in answered'
  <2>1. sstart \in Nat BY TransferFacts
  <2> QED BY <1>4, <2>1
<1>8. \A x \in net' : x \in net BY <1>1
<1> QED BY <1>2, <1>3, <1>4, <1>5, <1>6, <1>7, <1>8, ServerSide

(* A packet in the network is one of the stream.                           *)
LEMMA PacketInNet ==
  ASSUME TransferInv, NEW p \in net, p.kind = "packet"
  PROVE  /\ p.seq \in Nat /\ Len(p.payload) \in 1..Mss
         /\ Len(p.payload) = Mss => p.payload = B!Bytes(p.seq) /\ p.seq * Mss <= written
<1>1. \A m : ACK(m).kind = "ACK" BY DEF ACK
<1>2. ~IsAnswer(p)
  <2> SUFFICES ASSUME p = ACK(p.seq) PROVE FALSE BY DEF IsAnswer
  <2>1. ACK(p.seq).kind = "ACK" BY <1>1
  <2> QED BY <2>1
<1>3. PICK pp \in sent : p = Packet(pp) BY <1>2 DEF TransferInv, NetOK
<1>4. p.seq = pp.seq /\ p.payload = pp.payload BY <1>3 DEF Packet
<1>5. K!IsPacket(pp) BY DEF TransferInv, K!InStep
<1>6. PICK z \in 1..Mss : pp = K!PacketOf(pp.seq, z) /\ (pp.seq - 1) * Mss + z <= written
  BY <1>5 DEF K!IsPacket
<1>7. pp.payload = [j \in 1..z |-> (pp.seq - 1) * Mss + j - 1] BY <1>6 DEF K!PacketOf
<1>8. Mss \in Nat /\ pp.seq \in Nat /\ packseq \in Nat
  <2>1. Mss \in Nat /\ packseq \in Nat /\ pp.seq \in 1..packseq-1 BY TransferFacts
  <2> QED BY <2>1
<1>9. Len(pp.payload) = z
  <2>1. z \in Nat BY <1>8
  <2> HIDE DEF K!PacketOf
  <2>2. \A f : Len([j \in 1..z |-> f + j - 1]) = z BY <2>1
  <2>3. PICK f : f = (pp.seq - 1) * Mss OBVIOUS
  <2> QED BY <1>7, <2>2, <2>3
<1>10. ASSUME z = Mss PROVE p.payload = B!Bytes(p.seq) /\ p.seq * Mss <= written
  <2>1. p.payload = B!Bytes(p.seq) BY <1>4, <1>7, <1>10 DEF B!Bytes
  <2>2. (pp.seq - 1) * Mss + Mss = pp.seq * Mss BY <1>8
  <2> QED BY <1>4, <1>6, <1>10, <2>1, <2>2
<1> QED BY <1>4, <1>8, <1>9, <1>10

(* The server takes a full packet, knows it already, or refuses it.        *)
LEMMA StoreKeeps ==
  ASSUME TransferInv, NEW num \in 1..MaxSeq, ~spoilt', NEW p \in net, p.kind = "packet", p.seq = num,
         NEW rest, rest \subseteq net, StoreFull(p, rest), UNCHANGED <<clientVars, ftpcVars, ftpsVars, disturbed>>
  PROVE  TransferInv'
<1>0. B!BufferAssumption /\ ~FALSE BY ServerSizes
<1>1. B!BufferInv /\ disturbed \in BOOLEAN /\ FtpsOK BY DEF TransferInv
<1>2. Len(p.payload) = Mss BY DEF StoreFull
<1>3. p.payload = B!Bytes(num) /\ num * Mss <= written BY <1>2, PacketInNet
<1>4. /\ B!BufferInv' /\ UNCHANGED <<sstart, readPos>>
      /\ answered' = answered \/ answered' = answered \cup {num}
      /\ net' \subseteq rest \/ (net' = rest \cup {ACK(num)} /\ num \in answered')
  <2>1. CASE S!AddDataKnown(num) /\ net' = rest \cup {ACK(num)}
    <3>1. B!AddDataKnown(num) BY <2>1, ServerKnown
    <3>2. B!BufferInv' BY <1>0, <1>1, <3>1, B!KnownKeeps
    <3>3. answered' = answered \cup {num} /\ UNCHANGED <<sstart, readPos>>
      BY <3>1 DEF B!AddDataKnown
    <3> QED BY <2>1, <3>2, <3>3
  <2>2. CASE /\ S!AddDataFits(num, p.payload) /\ spoilt' = (spoilt \/ num < sstart)
             /\ net' = IF sfault' = "none" THEN rest \cup {ACK(num)} ELSE rest
    <3>1. B!AddDataFits(num, B!Bytes(num)) BY <1>3, <2>2, ServerFits
    <3>5. num >= sstart
      <4>1. sstart \in Nat /\ MaxSeq \in Nat BY TransferFacts
      <4>2. num \in Nat BY <4>1
      <4>3. spoilt' = (spoilt \/ num < sstart) BY ONLY <2>2
      <4>4. ~(num < sstart) BY ONLY <4>3, ~spoilt'
      <4> QED BY ONLY <4>1, <4>2, <4>4
    <3>2. B!BufferInv' BY <1>0, <1>1, <3>1, <3>5, B!FitsKeeps
    <3>3. /\ UNCHANGED <<sstart, readPos>>
          /\ answered' = answered \cup {num} \/ (answered' = answered /\ sfault' # "none")
      BY <3>1 DEF B!AddDataFits
    <3>4. net' = rest \/ (net' = rest \cup {ACK(num)} /\ sfault' = "none") BY <2>2
    <3> QED BY <3>2, <3>3, <3>4
  <2>3. CASE S!AddDataRefused(num) /\ net' = rest
    <3>1. B!AddDataRefused(num) BY <2>3, ServerRefused
    <3>2. B!BufferInv' BY <1>0, <1>1, <3>1, B!RefusedKeeps
    <3>3. answered' = answered /\ UNCHANGED <<sstart, readPos>>
      BY <3>1 DEF B!AddDataRefused
    <3> QED BY <2>3, <3>2, <3>3
  <2> QED BY <2>1, <2>2, <2>3 DEF StoreFull
<1>5. FtpsOK' BY <1>1, <1>4 DEF FtpsOK, ftpsVars
<1>6. answered \subseteq answered' /\ \A s \in answered' : s \in answered \/ s * Mss <= written
  BY <1>3, <1>4
<1>7. \A s \in 1..sstart'-1 : s < sstart \/ s \in answered'
  <2>1. sstart \in Nat BY TransferFacts
  <2> QED BY <1>4, <2>1
<1>8. \A m \in net' : m \in net \/ (m = ACK(m.seq) /\ m.seq \in answered')
  <2>1. ACK(num).seq = num BY DEF ACK
  <2> QED BY <1>4, <2>1
<1> QED BY <1>1, <1>4, <1>5, <1>6, <1>7, <1>8, ServerSide

(* A short packet changes nothing in the buffer, though it may kill the    *)
(* process.                                                                *)
LEMMA DropKeeps ==
  ASSUME TransferInv, NEW p, NEW rest, rest \subseteq net, DropShort(p, rest),
         UNCHANGED <<clientVars, ftpcVars, ftpsVars, disturbed>>
  PROVE  TransferInv'
<1>1. B!BufferInv /\ disturbed \in BOOLEAN /\ FtpsOK BY DEF TransferInv
<1>2. sfault' \in {"none", "crashed"} /\ net' = rest BY DEF DropShort
<1>3. UNCHANGED <<buffer, sstart, list, answered, readPos, lastRead>> BY DEF DropShort
<1>4. B!TypeOK'
  <2>1. B!TypeOK BY <1>1 DEF B!BufferInv
  <2> QED BY <1>2, <1>3, <2>1 DEF B!TypeOK, B!Address, B!BufSize, B!NoByte, B!CirNode
<1>5. B!ListInv' /\ B!ReadIsTheStream'
  <2>1. B!ListInv /\ B!ReadIsTheStream BY <1>1 DEF B!BufferInv
  <2> QED BY <1>3, <2>1 DEF B!ListInv, B!ReadIsTheStream, B!ListOK, B!NodeOK, B!Holds, B!NoJoin, B!ReadUpTo
<1>6. B!BufferInv' BY <1>4, <1>5 DEF B!BufferInv
<1>7. FtpsOK' BY <1>1, <1>3 DEF FtpsOK, ftpsVars
<1>8. \A s \in 1..sstart'-1 : s < sstart \/ s \in answered'
  <2>1. sstart \in Nat BY TransferFacts
  <2> QED BY <1>3, <2>1
<1> QED BY <1>1, <1>2, <1>3, <1>6, <1>7, <1>8, ServerSide

(* A packet comes.                                                         *)
LEMMA ReceiveKeeps == ASSUME TransferInv, NEW num \in 1..MaxSeq, Receive(num), ~spoilt' PROVE TransferInv'
<1>1. UNCHANGED <<clientVars, ftpcVars, ftpsVars, disturbed>> BY DEF Receive
<1>2. PICK p \in net : /\ p.kind = "packet" /\ p.seq = num
                       /\ StoreFull(p, net \ {p}) \/ DropShort(p, net \ {p})
  BY DEF Receive
<1>3. net \ {p} \subseteq net OBVIOUS
<1> QED BY <1>1, <1>2, <1>3, StoreKeeps, DropKeeps

(* What ftps is given is the next bytes of the stream, at least one, as    *)
(* many as it has asked for at most; or the process fails.                 *)
LEMMA AskReads ==
  ASSUME TransferInv, NEW size \in (1..HeaderSize) \cup {Request}, Ask(size)
  PROVE  /\ B!BufferInv' /\ UNCHANGED <<buffer, answered>>
         /\ \A s \in 1..sstart'-1 : s < sstart \/ s \in answered'
         /\ Got \in Seq(Nat) /\ Len(Got) \in 0..size /\ readPos' = readPos + Len(Got)
         /\ \A j \in 1..Len(Got) : Got[j] = readPos + j - 1
         /\ readPos' = readPos \/ Len(Got) >= 1
<1>0. B!BufferAssumption /\ ~FALSE BY ServerSizes
<1>1. B!BufferInv BY DEF TransferInv
<1>2. B!RequestWhole(size) \/ B!RequestPart(size) BY ServerWhole, ServerPart DEF Ask
<1>3. B!BufferInv' BY <1>0, <1>1, <1>2, B!WholeKeeps, B!PartKeeps
<1>4. /\ UNCHANGED <<buffer, answered>>
      /\ sfault' = "none" => Len(lastRead') \in 1..size /\ readPos' = readPos + Len(lastRead')
      /\ sfault' # "none" => readPos' = readPos
      /\ \A s \in 1..sstart'-1 : s < sstart \/ s \in answered
  BY <1>0, <1>1, <1>2, B!ReadsOn
<1>5. readPos \in Nat /\ size \in Nat /\ HeaderSize \in Nat
  <2>1. readPos \in Nat /\ HeaderSize \in Nat /\ Request \in Nat BY TransferFacts, TransferAssumption
  <2> QED BY <2>1
<1>6. CASE sfault' = "none"
  <2>1. Got = lastRead' BY <1>6 DEF Got
  <2>2. lastRead' \in Seq(Nat) BY <1>3 DEF B!BufferInv, B!TypeOK
  <2>3. \A j \in 1..Len(lastRead') : lastRead'[j] = readPos' - Len(lastRead') + j - 1
    BY <1>3 DEF B!BufferInv, B!ReadIsTheStream
  <2>4. readPos' - Len(lastRead') = readPos
    <3>1. Len(lastRead') \in Nat BY <2>2
    <3> QED BY <1>4, <1>5, <1>6, <3>1
  <2>5. \A j \in 1..Len(lastRead') : lastRead'[j] = readPos + j - 1 BY <2>3, <2>4
  <2>6. Len(lastRead') \in 0..size /\ Len(lastRead') >= 1 /\ readPos' = readPos + Len(lastRead')
    BY <1>4, <1>5, <1>6
  <2> QED BY <1>3, <1>4, <2>1, <2>2, <2>5, <2>6
<1>7. CASE sfault' # "none"
  <2>1. Got = <<>> /\ readPos' = readPos BY <1>4, <1>7 DEF Got
  <2>2. Got \in Seq(Nat) /\ Len(Got) = 0 BY <2>1
  <2>3. readPos' = readPos + Len(Got) /\ Len(Got) \in 0..size BY <1>5, <2>1, <2>2
  <2>4. 1..Len(Got) = {} BY <2>2
  <2> QED BY <1>3, <1>4, <2>1, <2>2, <2>3, <2>4
<1> QED BY <1>6, <1>7

(* A read of ftps: the rest is as the buffer's invariant has it.           *)
LEMMA ReadSide ==
  ASSUME TransferInv, NEW size \in (1..HeaderSize) \cup {Request}, Ask(size),
         FtpsOK', UNCHANGED <<clientVars, ftpcVars, net, disturbed>>
  PROVE  TransferInv'
<1>1. disturbed \in BOOLEAN BY DEF TransferInv
<1>2. B!BufferInv' /\ answered' = answered /\ \A s \in 1..sstart'-1 : s < sstart \/ s \in answered'
  BY AskReads
<1> QED BY <1>1, <1>2, ServerSide

(* ftps reads of the header ...                                            *)
LEMMA ReadHeaderKeeps == ASSUME TransferInv, ReadHeader PROVE TransferInv'
<1>1. /\ request > 0 /\ Ask(request) /\ request' = request - Len(Got)
      /\ UNCHANGED <<clientVars, net, ftpcVars, file, disturbed, spoilt>>
  BY DEF ReadHeader
<1>2. FtpsOK BY DEF TransferInv
<1>3. HeaderSize \in Nat /\ readPos \in Nat BY TransferFacts
<1>4. request \in 1..HeaderSize BY <1>1, <1>2, <1>3 DEF FtpsOK
<1>5. Len(Got) \in 0..request /\ readPos' = readPos + Len(Got) BY <1>1, <1>4, AskReads
<1>6. FtpsOK'
  <2>1. file = <<>> /\ file' = file BY <1>1, <1>2 DEF FtpsOK
  <2>2. Len(file) = 0 BY <2>1
  <2>3. readPos = HeaderSize - request + Len(file) BY <1>2 DEF FtpsOK
  <2> PICK g : g = Len(Got) OBVIOUS
  <2>4. g \in 0..request /\ request' = request - g /\ readPos' = readPos + g BY <1>1, <1>5
  <2>5. request' \in 0..HeaderSize /\ readPos' = HeaderSize - request' + Len(file)
    BY <1>3, <1>4, <2>2, <2>3, <2>4
  <2> QED BY <1>2, <2>1, <2>5 DEF FtpsOK
<1> QED BY <1>1, <1>4, <1>6, ReadSide

(* ... and of the file, which it writes down.                              *)
LEMMA ReadFileKeeps == ASSUME TransferInv, ReadFile PROVE TransferInv'
<1>1. /\ request = 0 /\ Ask(Request) /\ file' = file \o Got
      /\ UNCHANGED <<clientVars, net, ftpcVars, request, disturbed, spoilt>>
  BY DEF ReadFile
<1>2. FtpsOK BY DEF TransferInv
<1>3. HeaderSize \in Nat /\ readPos \in Nat BY TransferFacts
<1>4. /\ Got \in Seq(Nat) /\ readPos' = readPos + Len(Got)
      /\ \A j \in 1..Len(Got) : Got[j] = readPos + j - 1
  BY <1>1, AskReads
<1>5. FtpsOK'
  <2>1. file \in Seq(Int) /\ readPos = HeaderSize + Len(file)
    <3>1. file \in Seq(Int) /\ readPos = HeaderSize - request + Len(file) BY <1>2 DEF FtpsOK
    <3> QED BY <1>1, <1>3, <3>1
  <2>2. \A i \in 1..Len(file) : file[i] = HeaderSize + i - 1 BY <1>2 DEF FtpsOK
  <2> PICK got \in Seq(Int) : got = Got
    <3>1. Got \in Seq(Int) BY <1>4
    <3> QED BY <3>1
  <2>3. /\ readPos' = readPos + Len(got) /\ \A j \in 1..Len(got) : got[j] = readPos + j - 1
        /\ file' = file \o got
    BY <1>1, <1>4
  <2>4. file' \in Seq(Int) /\ Len(file') = Len(file) + Len(got) BY <2>1, <2>3
  <2>5. ASSUME NEW i \in 1..Len(file') PROVE file'[i] = HeaderSize + i - 1
    <3>1. Len(file) \in Nat /\ Len(got) \in Nat BY <2>1
    <3>2. CASE i <= Len(file)
      <4>1. i \in 1..Len(file) /\ file'[i] = file[i] BY <2>1, <2>3, <2>4, <3>1, <3>2
      <4> QED BY <2>2, <4>1
    <3>3. CASE i > Len(file)
      <4>1. i - Len(file) \in 1..Len(got) /\ file'[i] = got[i - Len(file)]
        BY <2>1, <2>3, <2>4, <3>1, <3>3
      <4>2. got[i - Len(file)] = readPos + (i - Len(file)) - 1 BY <2>3, <4>1
      <4>3. readPos + (i - Len(file)) - 1 = HeaderSize + i - 1
        <5>1. i \in Int BY <2>4, <3>1
        <5> QED BY <1>3, <2>1, <3>1, <5>1
      <4> QED BY <4>1, <4>2, <4>3
    <3>4. i \in Int BY <2>4, <3>1
    <3> QED BY <3>1, <3>2, <3>3, <3>4
  <2>6. readPos' = HeaderSize - request' + Len(file')
    <3>1. Len(file) \in Nat /\ Len(got) \in Nat /\ request' = 0 BY <1>1, <2>1
    <3> QED BY <1>3, <2>1, <2>3, <2>4, <3>1
  <2>7. request' \in 0..HeaderSize /\ request' = 0 BY <1>1, <1>3
  <2>8. (request' > 0 => file' = <<>>) BY <2>7
  <2> QED BY <2>4, <2>5, <2>6, <2>7, <2>8 DEF FtpsOK
<1>6. Request \in (1..HeaderSize) \cup {Request} OBVIOUS
<1> QED BY <1>1, <1>5, <1>6, ReadSide

(* Every step keeps the invariant, unless it spoils the transfer.          *)
LEMMA NextTransfer == ASSUME TransferInv, [Next]_vars, ~spoilt' PROVE TransferInv'
<1>1. CASE UNCHANGED vars
  <2>1. UNCHANGED <<clientVars, serverVars, net, ftpcVars, ftpsVars, disturbed>> BY <1>1 DEF vars
  <2>2. disturbed \in BOOLEAN /\ FtpcOK /\ UNCHANGED written BY <2>1 DEF TransferInv, clientVars
  <2>3. answered' = answered BY <2>1 DEF serverVars
  <2>4. K!StreamInv' /\ K!InStep(answered)' BY <2>1, <2>3, ClientStill DEF TransferInv
  <2>5. FtpcOK' BY <2>1, <2>2 DEF FtpcOK, StreamSize, ftpcVars, K!Multiple
  <2>6. written <= written' /\ sent' = sent BY <2>1, <2>2, TransferFacts DEF clientVars
  <2> QED BY <2>1, <2>2, <2>4, <2>5, <2>6, ClientSide
<1>2. CASE SendChunk BY <1>2, SendChunkKeeps
<1>3. CASE ChunkWaits BY <1>3, ChunkWaitsKeeps
<1>4. CASE Transmit BY <1>4, TransmitKeeps
<1>5. ASSUME NEW num \in 1..MaxSeq, Expire(num) PROVE TransferInv' BY <1>5, ExpireKeeps
<1>6. ASSUME NEW num \in 1..MaxSeq, ReceiveACK(num) PROVE TransferInv' BY <1>6, ReceiveACKKeeps
<1>7. ASSUME NEW num \in 1..MaxSeq, Receive(num) PROVE TransferInv' BY <1>7, ReceiveKeeps
<1>8. CASE Lose BY <1>8, LoseKeeps
<1>9. CASE ReadHeader BY <1>9, ReadHeaderKeeps
<1>10. CASE ReadFile BY <1>10, ReadFileKeeps
<1> QED BY <1>1, <1>2, <1>3, <1>4, <1>5, <1>6, <1>7, <1>8, <1>9, <1>10 DEF Next

(* spoilt is set and never taken back, and the file's size never changes.  *)
LEMMA SpoiltStays ==
  ASSUME fileSize \in Files, eof \in BOOLEAN, disturbed \in BOOLEAN, spoilt \in BOOLEAN,
         [Next]_vars
  PROVE  /\ fileSize' \in Files /\ eof' \in BOOLEAN /\ disturbed' \in BOOLEAN /\ spoilt' \in BOOLEAN
         /\ spoilt => spoilt'
<1>1. CASE UNCHANGED vars BY <1>1 DEF vars, ftpcVars
<1>2. CASE SendChunk BY <1>2 DEF SendChunk
<1>3. CASE ChunkWaits BY <1>3 DEF ChunkWaits, ftpcVars
<1>4. CASE Transmit BY <1>4 DEF Transmit, ftpcVars
<1>5. ASSUME NEW num \in 1..MaxSeq, Expire(num)
      PROVE  UNCHANGED <<ftpcVars, spoilt>> /\ disturbed' \in BOOLEAN
  BY <1>5 DEF Expire
<1>6. ASSUME NEW num \in 1..MaxSeq, ReceiveACK(num) PROVE UNCHANGED <<ftpcVars, disturbed, spoilt>>
  BY <1>6 DEF ReceiveACK
<1>7. ASSUME NEW num \in 1..MaxSeq, Receive(num)
      PROVE  /\ UNCHANGED <<ftpcVars, disturbed>>
             /\ spoilt' \in BOOLEAN /\ (spoilt => spoilt')
  <2>1. PICK p \in net : StoreFull(p, net \ {p}) \/ DropShort(p, net \ {p}) BY <1>7 DEF Receive
  <2>2. spoilt' = spoilt \/ spoilt' = (spoilt \/ p.seq < sstart) BY <2>1 DEF StoreFull, DropShort
  <2> QED BY <1>7, <2>2 DEF Receive
<1>8. CASE Lose BY <1>8 DEF Lose, ftpcVars
<1>9. CASE ReadHeader BY <1>9 DEF ReadHeader, ftpcVars
<1>10. CASE ReadFile BY <1>10 DEF ReadFile, ftpcVars
<1> QED BY <1>1, <1>2, <1>3, <1>4, <1>5, <1>6, <1>7, <1>8, <1>9, <1>10 DEF Next, ftpcVars

(* So it holds until the transfer is spoilt.                               *)
LEMMA PromiseInvHolds == Spec => []PromiseInv
<1>1. Init => PromiseInv BY InitTransfer DEF PromiseInv, Init
<1>2. ASSUME PromiseInv, [Next]_vars PROVE PromiseInv'
  <2>1. /\ fileSize' \in Files /\ eof' \in BOOLEAN /\ disturbed' \in BOOLEAN /\ spoilt' \in BOOLEAN
        /\ spoilt => spoilt'
    BY <1>2, SpoiltStays DEF PromiseInv
  <2>2. ASSUME ~spoilt' PROVE TransferInv'
    <3>1. TransferInv BY <1>2, <2>1, <2>2 DEF PromiseInv
    <3> QED BY <1>2, <2>2, <3>1, NextTransfer
  <2> QED BY <2>1, <2>2 DEF PromiseInv
<1> QED BY <1>1, <1>2, PTL DEF Spec

--------------------------------------------------------------------------------

(* The packets the server has taken begin with those ftps has read from,   *)
(* and ftps has read nothing that ftpc has not written.                    *)
LEMMA ReadIsTaken ==
  ASSUME TransferInv
  PROVE  /\ readPos <= written
         /\ \E t \in Nat : readPos <= t * Mss /\ \A s \in 1..t : s \in answered
<1>0. B!BufferAssumption BY ServerSizes
<1>1. written \in Nat /\ readPos \in Nat /\ Mss \in Nat \ {0} /\ sstart \in Nat BY TransferFacts
<1>2. PICK t \in Nat : readPos <= t * Mss /\ sstart <= t + 1 /\ \A s \in sstart..t : s \in answered
  BY <1>0, B!ReadIsAnswered DEF TransferInv
<1>3. \A s \in 1..t : s \in answered
  <2>1. \A s \in 1..sstart-1 : s \in answered BY DEF TransferInv, AnsweredOK
  <2>2. \A s \in 1..t : s \in 1..sstart-1 \/ s \in sstart..t BY <1>1
  <2> QED BY <1>2, <2>1, <2>2
<1>4. t * Mss <= written
  <2>1. CASE t = 0
    <3>1. 0 * Mss = 0 BY <1>1
    <3> QED BY <1>1, <2>1, <3>1
  <2>2. CASE t # 0
    <3>1. t \in 1..t BY <2>2
    <3> QED BY <1>3, <3>1 DEF TransferInv, AnsweredOK
  <2> QED BY <2>1, <2>2
<1>5. readPos <= written
  <2>1. PICK x \in Int : x = t * Mss BY <1>1
  <2> QED BY <1>1, <1>2, <1>4, <2>1
<1> QED BY <1>2, <1>3, <1>5

(* The network holds nothing but packets the client has sent and           *)
(* acknowledgements of packets the server has taken, and the two ends of   *)
(* the transfer have the types they should have, until the transfer is     *)
(* spoilt.                                                                 *)
THEOREM TransferTypeCorrect == Spec => []TypeOK
<1>1. PromiseInv => TypeOK
  <2> SUFFICES ASSUME PromiseInv, ~spoilt, TransferInv PROVE TypeOK BY DEF PromiseInv, TypeOK
  <2>1. ASSUME NEW m \in net
        PROVE  IF m.kind = "ACK" THEN m.seq \in answered
               ELSE [seq |-> m.seq, payload |-> m.payload] \in sent
    <3>1. CASE m = ACK(m.seq) /\ m.seq \in answered
      <4>1. ACK(m.seq).kind = "ACK" BY DEF ACK
      <4>2. m.kind = "ACK" BY <3>1, <4>1
      <4> QED BY <3>1, <4>2
    <3>2. CASE \E p \in sent : m = Packet(p)
      <4>1. PICK p \in sent : m = Packet(p) BY <3>2
      <4>2. m.kind = "packet" /\ m.seq = p.seq /\ m.payload = p.payload BY <4>1 DEF Packet
      <4>3. K!IsPacket(p) BY DEF TransferInv, K!InStep
      <4>4. PICK x, y : p = [seq |-> x, payload |-> y] BY <4>3 DEF K!IsPacket, K!PacketOf
      <4>5. [seq |-> m.seq, payload |-> m.payload] = p BY <4>2, <4>4
      <4> QED BY <4>2, <4>5
    <3> QED BY <3>1, <3>2 DEF TransferInv, NetOK, IsAnswer
  <2>2. request \in 0..HeaderSize /\ file \in Seq(Int) BY DEF TransferInv, FtpsOK
  <2>3. fileSize \in Files /\ eof \in BOOLEAN /\ disturbed \in BOOLEAN /\ spoilt \in BOOLEAN
    BY DEF PromiseInv
  <2> QED BY <2>1, <2>2, <2>3 DEF TypeOK
<1> QED BY <1>1, PromiseInvHolds, PTL

(* What ftps has written is ftpc's file, byte by byte, as far as it has    *)
(* come, and no more, whatever was lost, sent again or came in another     *)
(* order, for files and buffers of any size - until the client daemon      *)
(* sends from a ring it misreads, or the server daemon stores a packet     *)
(* that ftps has read already.  Only these two can break it.               *)
THEOREM FileCopied == Spec => []FileIsCopied
<1>1. PromiseInv => FileIsCopied
  <2> SUFFICES ASSUME ~spoilt, TransferInv PROVE FileIsCopied BY DEF PromiseInv, FileIsCopied
  <2>1. /\ request \in 0..HeaderSize /\ file \in Seq(Int) /\ (request > 0 => file = <<>>)
        /\ readPos = HeaderSize - request + Len(file)
        /\ \A i \in 1..Len(file) : file[i] = HeaderSize + i - 1
    BY DEF TransferInv, FtpsOK
  <2>2. readPos \in Nat /\ written \in Nat /\ HeaderSize \in Nat /\ fileSize \in Nat BY TransferFacts
  <2>3. written <= HeaderSize + fileSize BY DEF TransferInv, FtpcOK, StreamSize
  <2>4. readPos <= written BY ReadIsTaken
  <2>5. Len(file) \in Nat BY <2>1
  <2>6. Len(file) <= fileSize
    <3>1. CASE request > 0
      <4>1. Len(file) = 0 BY <2>1, <3>1
      <4> QED BY <2>2, <4>1
    <3>2. CASE request = 0
      <4>1. HeaderSize + Len(file) <= HeaderSize + fileSize BY <2>1, <2>2, <2>3, <2>4, <2>5, <3>2
      <4> QED BY <2>2, <2>5, <4>1
    <3> QED BY <2>1, <2>2, <3>1, <3>2
  <2> QED BY <2>1, <2>6 DEF FileIsCopied
<1> QED BY <1>1, PromiseInvHolds, PTL

(* The packet a byte is in.                                                *)
LEMMA PacketOfByte ==
  ASSUME NEW q \in Nat, NEW n \in Int, q < n * Mss
  PROVE  \E s \in 1..n : q \in (s-1)*Mss..s*Mss-1
<1>1. Mss \in Nat \ {0} BY TransferAssumption
<1> DEFINE d == q \div Mss
<1>2. d \in Int /\ q % Mss \in 0..Mss-1 /\ q = Mss * d + (q % Mss) BY <1>1, ClientSizes, K!DivMod
<1> HIDE DEF d
<1>3. PICK r \in 0..Mss-1 : q = Mss * d + r BY <1>2
<1>4. d >= 0
  <2> SUFFICES ASSUME d <= -1 PROVE FALSE BY <1>2
  <2>1. Mss * d <= -Mss BY <1>1, <1>2
  <2>2. Mss * d \in Int BY <1>1, <1>2
  <2> QED BY <1>1, <1>3, <2>1, <2>2
<1>5. d < n
  <2> SUFFICES ASSUME n <= d PROVE FALSE BY <1>2
  <2>1. n * Mss <= Mss * d BY <1>1, <1>2
  <2>2. n * Mss \in Int /\ Mss * d \in Int BY <1>1, <1>2
  <2> QED BY <1>1, <1>3, <2>1, <2>2
<1>6. PICK s \in 1..n : s = d + 1 BY <1>2, <1>4, <1>5
<1>7. (s - 1) * Mss = Mss * d /\ s * Mss = Mss * d + Mss /\ Mss * d \in Int
  <2>1. s \in Int /\ d = s - 1 BY <1>2, <1>6
  <2>2. (s - 1) * Mss = Mss * (s - 1) /\ s * Mss = Mss * (s - 1) + Mss /\ Mss * (s - 1) \in Int
    BY <1>1, <2>1
  <2> QED BY <2>1, <2>2
<1>8. q \in (s-1)*Mss..s*Mss-1
  <2>1. PICK x \in Int : x = Mss * d BY <1>7
  <2>2. (s - 1) * Mss = x /\ s * Mss = x + Mss BY <1>7, <2>1
  <2>3. q = x + r BY <1>3, <2>1
  <2>4. \A f, t \in Int : f = x /\ t = x + Mss => q \in f..t-1 BY <1>1, <2>3
  <2>5. x + Mss \in Int BY <1>1
  <2> QED BY <2>2, <2>4, <2>5
<1> QED BY <1>8

(* Every byte ftpc has handed over is, until ftps has it, in one of the    *)
(* two buffers, at the place where it will be read: the client daemon      *)
(* forgets nothing that the server daemon lacks, until the transfer is     *)
(* spoilt.                                                                 *)
THEOREM NothingForgotten == Spec => []NoByteForgotten
<1>1. PromiseInv => NoByteForgotten
  <2> SUFFICES ASSUME TransferInv, cfault = "none", NEW q \in 0..written-1, ~(q < readPos), ~InRing(q)
               PROVE  InBuffer(q)
    BY DEF PromiseInv, NoByteForgotten
  <2>1. /\ written \in Nat /\ acked \in Nat /\ readPos \in Nat /\ packseq \in Nat
        /\ MaxSeq \in Nat /\ answered \subseteq 1..MaxSeq
    BY TransferFacts
  <2>2. q \in Nat /\ q < written /\ q >= readPos BY <2>1
  <2>3. q < acked
    <3> SUFFICES ASSUME q >= acked PROVE FALSE BY <2>1, <2>2
    <3>1. CASE misread
      <4>1. acked = written BY <3>1 DEF TransferInv, K!InStep, K!PhantomsOnly
      <4> QED BY <2>1, <2>2, <4>1
    <3>2. CASE ~misread
      <4>1. \A x \in acked..written-1 : cirbuffer[K!Wrap(x)] = x
        BY <3>2 DEF TransferInv, K!StreamInv, K!KeptInv, K!UnackedBytesKept
      <4>2. q \in acked..written-1 BY <2>1, <2>2
      <4>3. cirbuffer[C!Wrap(q)] = q BY <4>1, <4>2, ClientIs
      <4> QED BY <4>3 DEF InRing
    <3> QED BY <3>1, <3>2
  <2>4. /\ acked = (packseq - Len(nodes) - 1) * Mss
        /\ \A s \in 1..packseq-Len(nodes)-1 : s \in answered
    BY DEF TransferInv, K!InStep
  <2>5. packseq - Len(nodes) - 1 \in Int
    <3>1. K!SizesAssumption /\ K!IInv BY ClientSizes DEF TransferInv, K!StreamInv, K!KeptInv, K!CoverInv
    <3>2. Len(nodes) \in Nat BY <3>1, K!IInvFacts
    <3> QED BY <2>1, <3>2
  <2>6. PICK s \in 1..packseq-Len(nodes)-1 : q \in (s-1)*Mss..s*Mss-1
    BY <2>2, <2>3, <2>4, <2>5, PacketOfByte
  <2>7. s \in answered BY <2>4
  <2>8. PICK i \in 1..Len(list) :
          /\ list[i].filled
          /\ q - (list[i].lastSeq * Mss - list[i].size) \in 0..list[i].size-1
          /\ buffer[(list[i].data + (q - (list[i].lastSeq * Mss - list[i].size))) % B!BufSize] = q
    BY <2>2, <2>6, <2>7, ServerSizes, B!KeptAt DEF TransferInv
  <2>9. S!BufSize = B!BufSize BY ServerNode
  <2> QED BY <2>8, <2>9 DEF InBuffer
<1> QED BY <1>1, PromiseInvHolds, PTL

--------------------------------------------------------------------------------

(* The sliding window the two daemons show together. *)
Offered == Largest({written, acked + C!WindowBytes})

(* What the window does as long as it is not spoilt. *)
Slide == Sliding!Offer \/ Sliding!Accept \/ Sliding!Release \/ Sliding!Deliver

(* The larger of two numbers.                                              *)
LEMMA LargestOfTwo ==
  ASSUME NEW a \in Int, NEW b \in Int
  PROVE  Largest({a, b}) \in {a, b} /\ a <= Largest({a, b}) /\ b <= Largest({a, b})
<1>1. \E m \in {a, b} : \A n \in {a, b} : n <= m
  <2>1. CASE a <= b BY <2>1
  <2>2. CASE ~(a <= b) BY <2>2
  <2> QED BY <2>1, <2>2
<1>2. Largest({a, b}) \in {a, b} /\ \A n \in {a, b} : n <= Largest({a, b}) BY <1>1 DEF Largest
<1> QED BY <1>2

(* Whole packets fill whole packets.                                       *)
LEMMA CeilingOfWhole ==
  ASSUME NEW n \in Int, NEW x \in Int, x <= n * Mss
  PROVE  (x + Mss - 1) \div Mss \in Int /\ (x + Mss - 1) \div Mss <= n
<1>1. Mss \in Nat \ {0} BY TransferAssumption
<1> DEFINE y == x + Mss - 1
           d == y \div Mss
<1>2. y \in Int BY <1>1
<1>3. d \in Int /\ y % Mss \in 0..Mss-1 /\ y = Mss * d + (y % Mss) BY <1>1, <1>2, ClientSizes, K!DivMod
<1>4. y < n * Mss + Mss
  <2>1. PICK z \in Int : z = n * Mss BY <1>1
  <2> QED BY <1>1, <2>1
<1> HIDE DEF d, y
<1>5. PICK r \in 0..Mss-1 : y = Mss * d + r BY <1>3
<1>6. d <= n
  <2> SUFFICES ASSUME n + 1 <= d PROVE FALSE BY <1>3
  <2>1. (n + 1) * Mss <= Mss * d BY <1>1, <1>3
  <2>2. (n + 1) * Mss = n * Mss + Mss /\ n * Mss \in Int /\ Mss * d \in Int BY <1>1, <1>3
  <2>3. PICK u \in Int, v \in Int : u = n * Mss /\ v = Mss * d BY <2>2
  <2>4. u + Mss <= v /\ y < u + Mss /\ y = v + r BY <1>4, <1>5, <2>1, <2>2, <2>3
  <2> QED BY <1>1, <2>3, <2>4
<1> QED BY <1>3, <1>6 DEF d, y

(* When all packets up to n have been taken, so have all bytes up to x.    *)
LEMMA AllArrived ==
  ASSUME NEW n \in Int, NEW x \in Int, x <= n * Mss, \A s \in 1..n : s \in answered
  PROVE  Sliding!Arrived(x)
<1>1. (x + Mss - 1) \div Mss \in Int /\ (x + Mss - 1) \div Mss <= n BY CeilingOfWhole
<1>2. PICK d \in Int : d = (x + Mss - 1) \div Mss BY <1>1
<1>3. \A s \in 1..d : s \in answered BY <1>1, <1>2
<1> QED BY <1>2, <1>3 DEF Sliding!Arrived

(* The types of what the sliding window shows.                             *)
WindowTyped ==
  /\ written \in Int /\ acked \in Int /\ acked + C!WindowBytes \in Int
  /\ Offered \in Int /\ written <= Offered

(* They follow from the invariant.                                         *)
LEMMA WindowTypes == TransferInv => WindowTyped
<1> SUFFICES ASSUME TransferInv PROVE WindowTyped OBVIOUS
<1>0. K!SizesAssumption /\ K!IInv BY ClientSizes DEF TransferInv, K!StreamInv, K!KeptInv, K!CoverInv
<1>1. written \in Int /\ acked \in Int BY TransferFacts
<1>2. nodes \in Seq(K!Node) BY <1>0, K!IInvFacts
<1>3. K!Offsets(nodes)[Len(nodes)] \in Int BY <1>0, <1>2, K!OffsetsStep
<1>4. C!WindowBytes \in Int BY <1>3, ClientIs
<1>5. acked + C!WindowBytes \in Int BY <1>1, <1>4
<1> QED BY <1>1, <1>5, LargestOfTwo DEF Offered, WindowTyped

(* A step of the client's side offers more, or releases what has arrived,  *)
(* or shows nothing.                                                       *)
LEMMA ClientSlides ==
  ASSUME TransferInv, TransferInv', UNCHANGED <<answered, readPos>>,
         written <= written', acked <= acked', acked + C!WindowBytes <= (acked + C!WindowBytes)'
  PROVE  [Slide]_<<Offered, answered, acked, readPos>>
<1>1. /\ written \in Int /\ acked \in Int /\ acked + C!WindowBytes \in Int
  BY WindowTypes DEF WindowTyped
<1>2. /\ written' \in Int /\ acked' \in Int /\ (acked + C!WindowBytes)' \in Int
      /\ Offered' \in Int
  <2>1. WindowTyped' BY WindowTypes, PTL
  <2> QED BY <2>1 DEF WindowTyped
<1>3. Offered <= Offered'
  <2> PICK b, c : b = acked + C!WindowBytes /\ c = (acked + C!WindowBytes)' OBVIOUS
  <2>1. b \in Int /\ c \in Int /\ b <= c BY <1>1, <1>2
  <2>2. Offered = Largest({written, b}) /\ Offered' = Largest({written', c}) BY DEF Offered, Largest
  <2>3. Offered \in {written, b} BY <1>1, <2>1, <2>2, LargestOfTwo
  <2>4. written' <= Offered' /\ c <= Offered' BY <1>2, <2>1, <2>2, LargestOfTwo
  <2> QED BY <1>1, <1>2, <2>1, <2>3, <2>4
<1>4. CASE acked < acked'
  <2>1. acked' = (packseq' - Len(nodes') - 1) * Mss /\ \A s \in 1..packseq'-Len(nodes')-1 : s \in answered'
    BY DEF TransferInv, K!InStep
  <2>2. packseq' - Len(nodes') - 1 \in Int
    <3>1. K!IInv' BY DEF TransferInv, K!StreamInv, K!KeptInv, K!CoverInv
    <3>2. nodes' \in Seq(K!Node)' /\ packseq' \in Nat BY <3>1 DEF K!IInv, K!TypeOK
    <3>3. Len(nodes') \in Nat BY <3>2
    <3> QED BY <3>2, <3>3
  <2>3. PICK n \in Int : acked' = n * Mss /\ \A s \in 1..n : s \in answered BY <2>1, <2>2
  <2>4. acked' <= n * Mss BY <1>2, <2>3
  <2>5. Sliding!Arrived(acked') BY <1>2, <2>3, <2>4, AllArrived
  <2>6. Sliding!Release BY <1>1, <1>2, <1>3, <1>4, <2>5 DEF Sliding!Release, Offered
  <2> QED BY <2>6 DEF Slide
<1>5. CASE acked' = acked
  <2>1. CASE Offered' = Offered BY <1>5, <2>1
  <2>2. CASE Offered' # Offered
    <3>1. Offered' > Offered BY <1>2, <1>3, <2>2, WindowTypes DEF WindowTyped
    <3>2. Sliding!Offer BY <1>5, <3>1 DEF Sliding!Offer, Offered
    <3> QED BY <3>2 DEF Slide
  <2> QED BY <2>1, <2>2
<1> QED BY <1>1, <1>2, <1>4, <1>5

(* The client's buffer takes steps of its own only.                        *)
LEMMA ClientGoesOn ==
  ASSUME TransferInv, TransferInv', UNCHANGED <<answered, readPos>>,
         \/ \E size \in 0..Mss : K!AddData(size) \/ K!AddDataFull(size)
         \/ \E num \in 1..packseq-1 : K!RecvACK(num) \/ K!RecvACKCrash(num) \/ K!TimerExpire(num)
         \/ K!SendWindow
  PROVE  [Slide]_<<Offered, answered, acked, readPos>>
<1>1. K!SizesAssumption BY ClientSizes
<1>2. K!Next BY DEF K!Next
<1>3. K!IInv /\ K!IInv' BY DEF TransferInv, K!StreamInv, K!KeptInv, K!CoverInv
<1>4. /\ written <= written' /\ acked <= acked'
      /\ acked + K!Offsets(nodes)[Len(nodes)] <= acked' + K!Offsets(nodes')[Len(nodes')]
  BY <1>1, <1>2, <1>3, K!WindowGoesOn
<1>5. C!WindowBytes = K!Offsets(nodes)[Len(nodes)] BY ClientIs
<1>6. C!WindowBytes' = K!Offsets(nodes')[Len(nodes')] BY DEF C!WindowBytes, C!Offsets, K!Offsets
<1>7. acked + C!WindowBytes <= (acked + C!WindowBytes)' BY <1>4, <1>5, <1>6
<1> QED BY <1>4, <1>7, ClientSlides

(* The server takes a packet from within the window, or shows nothing.     *)
LEMMA ServerSlides ==
  ASSUME TransferInv, NEW num \in 1..MaxSeq, Receive(num)
  PROVE  [Slide]_<<Offered, answered, acked, readPos>>
<1>1. UNCHANGED clientVars BY DEF Receive
<1>2. acked' = acked /\ Offered' = Offered
  BY <1>1 DEF clientVars, Offered, Largest, C!WindowBytes, C!Offsets
<1>3. PICK p \in net : /\ p.kind = "packet" /\ p.seq = num
                       /\ StoreFull(p, net \ {p}) \/ DropShort(p, net \ {p})
  BY DEF Receive
<1>4. /\ readPos' = readPos
      /\ answered' = answered \/ (answered' = answered \cup {num} /\ Len(p.payload) = Mss)
  <2>1. CASE DropShort(p, net \ {p}) BY <2>1 DEF DropShort
  <2>2. CASE StoreFull(p, net \ {p})
    <3>1. Len(p.payload) = Mss BY <2>2 DEF StoreFull
    <3>2. S!AddDataKnown(num) \/ S!AddDataFits(num, p.payload) \/ S!AddDataRefused(num)
      BY <1>3, <2>2 DEF StoreFull
    <3>3. CASE S!AddDataKnown(num) BY <3>1, <3>3 DEF S!AddDataKnown
    <3>4. CASE S!AddDataFits(num, p.payload)
      <4>1. B!AddDataFits(num, p.payload) BY <3>4, ServerFits
      <4> QED BY <3>1, <4>1 DEF B!AddDataFits
    <3>5. CASE S!AddDataRefused(num) BY <3>5 DEF S!AddDataRefused
    <3> QED BY <3>2, <3>3, <3>4, <3>5
  <2> QED BY <1>3, <2>1, <2>2
<1>5. CASE answered' = answered BY <1>2, <1>4, <1>5
<1>6. CASE answered' # answered
  <2>1. answered' = answered \cup {num} /\ Len(p.payload) = Mss /\ num \in answered' \ answered
    BY <1>4, <1>6
  <2>2. num * Mss <= written BY <1>3, <2>1, PacketInNet
  <2>3. num * Mss <= Offered
    <3>1. PICK x \in Int : x = num * Mss
      <4>1. Mss \in Int /\ num \in Int BY TransferFacts
      <4> QED BY <4>1
    <3>2. written \in Int /\ Offered \in Int /\ written <= Offered BY WindowTypes DEF WindowTyped
    <3> QED BY <2>2, <3>1, <3>2
  <2>4. (num - 1) * Mss < acked + WinSize
    <3>1. ~IsAnswer(p)
      <4>1. ACK(p.seq).kind = "ACK" BY DEF ACK
      <4> QED BY <1>3, <4>1 DEF IsAnswer
    <3>2. PICK pp \in sent : p = Packet(pp) BY <3>1 DEF TransferInv, NetOK
    <3>3. pp.seq = num BY <1>3, <3>2 DEF Packet
    <3>4. K!IsPacket(pp) BY DEF TransferInv, K!InStep
    <3> QED BY <3>3, <3>4 DEF K!IsPacket
  <2>5. Sliding!Accept BY <1>2, <1>4, <2>1, <2>3, <2>4 DEF Sliding!Accept, Offered
  <2> QED BY <2>5 DEF Slide
<1> QED BY <1>5, <1>6

(* What has been read, is in packets that have been taken.                 *)
Taken == \E t \in Nat : readPos <= t * Mss /\ \A s \in 1..t : s \in answered

(* ftps has read from packets the server has taken.                        *)
LEMMA ReadTaken == TransferInv => Taken
BY ReadIsTaken DEF Taken

(* ftps is given what has arrived with all before it.                      *)
LEMMA ReadSlides ==
  ASSUME TransferInv, TransferInv', NEW size \in (1..HeaderSize) \cup {Request}, Ask(size), UNCHANGED clientVars
  PROVE  [Slide]_<<Offered, answered, acked, readPos>>
<1>1. acked' = acked /\ Offered' = Offered BY DEF clientVars, Offered, Largest, C!WindowBytes, C!Offsets
<1>2. answered' = answered /\ readPos' = readPos + Len(Got) /\ (readPos' = readPos \/ Len(Got) >= 1)
      /\ Len(Got) \in Nat
  <2>1. Got \in Seq(Nat) BY AskReads
  <2> QED BY <2>1, AskReads
<1>3. CASE readPos' = readPos BY <1>1, <1>2, <1>3
<1>4. CASE readPos' # readPos
  <2>1. readPos \in Nat BY TransferFacts
  <2>2. readPos' > readPos
    <3>1. PICK g : g = Len(Got) OBVIOUS
    <3> QED BY <1>2, <1>4, <2>1, <3>1
  <2>3. readPos' \in Int
    <3>1. PICK g : g = Len(Got) OBVIOUS
    <3> QED BY <1>2, <2>1, <3>1
  <2>4. PICK t \in Nat : readPos' <= t * Mss /\ \A s \in 1..t : s \in answered'
    <3>1. Taken' BY ReadTaken, PTL
    <3> QED BY <3>1 DEF Taken
  <2>5. Sliding!Arrived(readPos') BY <1>2, <2>3, <2>4, AllArrived
  <2>6. Sliding!Deliver BY <1>1, <1>2, <2>2, <2>5 DEF Sliding!Deliver, Offered
  <2> QED BY <2>6 DEF Slide
<1> QED BY <1>3, <1>4

(* The window starts with nothing offered.                                 *)
LEMMA WindowStarts == ASSUME Init PROVE Sliding!Init
<1>1. K!Init /\ B!Init BY ClientIs, ServerInit DEF Init
<1>2. /\ written = 0 /\ acked = 0 /\ nodes = <<>> /\ answered = {} /\ readPos = 0
      /\ spoilt = FALSE
  BY <1>1 DEF Init, K!Init, B!Init
<1>3. K!Offsets(nodes)[Len(nodes)] = 0 BY <1>2, ClientSizes, K!EmptyList
<1>4. acked + C!WindowBytes = 0 BY <1>2, <1>3, ClientIs
<1>5. Largest({0, 0}) = 0 BY LargestOfTwo
<1>6. Offered = 0 BY <1>2, <1>4, <1>5 DEF Offered
<1> QED BY <1>2, <1>6 DEF Sliding!Init, Offered

(* Every step of a transfer that is not spoilt is one of the window, or    *)
(* shows nothing.                                                          *)
LEMMA NextSlides ==
  ASSUME TransferInv, TransferInv', [Next]_vars
  PROVE  [Slide]_<<Offered, answered, acked, readPos>>
<1>1. CASE UNCHANGED vars
  BY <1>1 DEF vars, clientVars, serverVars, Offered, Largest, C!WindowBytes, C!Offsets
<1>2. CASE SendChunk
  <2>1. PICK size \in 0..Mss : size = ChunkSize BY ChunkSizes
  <2>2. C!AddData(size) /\ UNCHANGED <<answered, readPos>> BY <1>2, <2>1 DEF SendChunk, serverVars
  <2>3. K!AddData(size) BY <2>2, ClientAddData
  <2> QED BY <2>2, <2>3, ClientGoesOn
<1>3. CASE ChunkWaits
  <2>1. PICK size \in 0..Mss : size = ChunkSize BY ChunkSizes
  <2>2. C!AddDataFull(size) /\ UNCHANGED <<answered, readPos>> BY <1>3, <2>1 DEF ChunkWaits, serverVars
  <2>3. K!AddDataFull(size) BY <2>2, ClientAddDataFull
  <2> QED BY <2>2, <2>3, ClientGoesOn
<1>4. CASE Transmit
  <2>1. C!SendWindow /\ UNCHANGED <<answered, readPos>> BY <1>4 DEF Transmit, serverVars
  <2>2. K!SendWindow BY <2>1, ClientSend
  <2> QED BY <2>1, <2>2, ClientGoesOn
<1>5. ASSUME NEW num \in 1..MaxSeq, Expire(num)
      PROVE  [Slide]_<<Offered, answered, acked, readPos>>
  <2>1. C!TimerExpire(num) /\ UNCHANGED <<answered, readPos>> BY <1>5 DEF Expire, serverVars
  <2>2. K!TimerExpire(num) BY <2>1, ClientExpire
  <2>3. num \in 1..packseq-1
    <3>1. num \in {p.seq : p \in sent} BY <2>2 DEF K!TimerExpire
    <3> QED BY <3>1, TransferFacts
  <2> QED BY <2>1, <2>2, <2>3, ClientGoesOn
<1>6. ASSUME NEW num \in 1..MaxSeq, ReceiveACK(num)
      PROVE  [Slide]_<<Offered, answered, acked, readPos>>
  <2>1. (C!RecvACK(num) \/ C!RecvACKCrash(num)) /\ UNCHANGED <<answered, readPos>>
    BY <1>6 DEF ReceiveACK, serverVars
  <2>2. K!RecvACK(num) \/ K!RecvACKCrash(num) BY <2>1, ClientRecvACK, ClientCrash
  <2>3. num \in 1..packseq-1
    <3>1. num \in {p.seq : p \in sent} BY <2>2 DEF K!RecvACK, K!RecvACKCrash
    <3> QED BY <3>1, TransferFacts
  <2> QED BY <2>1, <2>2, <2>3, ClientGoesOn
<1>7. ASSUME NEW num \in 1..MaxSeq, Receive(num)
      PROVE  [Slide]_<<Offered, answered, acked, readPos>>
  BY <1>7, ServerSlides
<1>8. CASE Lose
  BY <1>8 DEF Lose, clientVars, serverVars, Offered, Largest, C!WindowBytes, C!Offsets
<1>9. CASE ReadHeader
  <2>1. request > 0 /\ Ask(request) /\ UNCHANGED clientVars BY <1>9 DEF ReadHeader
  <2>2. request \in 1..HeaderSize
    <3>1. request \in 0..HeaderSize /\ HeaderSize \in Nat BY TransferFacts DEF TransferInv, FtpsOK
    <3> QED BY <2>1, <3>1
  <2> QED BY <2>1, <2>2, ReadSlides
<1>10. CASE ReadFile
  <2>1. Ask(Request) /\ UNCHANGED clientVars BY <1>10 DEF ReadFile
  <2> QED BY <2>1, ReadSlides
<1> QED BY <1>1, <1>2, <1>3, <1>4, <1>5, <1>6, <1>7, <1>8, <1>9, <1>10 DEF Next

(* Once it is spoilt, the window allows every step.                        *)
LEMMA SpoiltSlides ==
  ASSUME PromiseInv, PromiseInv', [Next]_vars
  PROVE  [Sliding!Next]_<<Offered, answered, acked, readPos, spoilt>>
<1>1. CASE spoilt' BY <1>1 DEF Sliding!Next
<1>2. CASE ~spoilt'
  <2>1. spoilt \in BOOLEAN /\ spoilt' \in BOOLEAN /\ (spoilt => spoilt') BY SpoiltStays DEF PromiseInv
  <2>2. spoilt = FALSE /\ spoilt' = FALSE BY <1>2, <2>1
  <2>3. TransferInv BY <2>2 DEF PromiseInv
  <2>4. TransferInv' BY <2>2 DEF PromiseInv
  <2>5. [Slide]_<<Offered, answered, acked, readPos>> BY <2>3, <2>4, NextSlides
  <2>6. CASE Slide BY <2>2, <2>6 DEF Slide, Sliding!Next, Sliding!Offer, Sliding!Accept, Sliding!Release, Sliding!Deliver
  <2>7. CASE UNCHANGED <<Offered, answered, acked, readPos>> BY <2>2, <2>7
  <2> QED BY <2>5, <2>6, <2>7
<1> QED BY <1>1, <1>2

(* The two daemons, with all that can happen in the network between them,  *)
(* are a sliding window: nothing is released, nor given to ftps, that has  *)
(* not arrived with all before it, and the server takes nothing from       *)
(* beyond the window - until the transfer is spoilt: from then on the      *)
(* window promises nothing.                                                *)
THEOREM TransferIsSlidingWindow == Spec => IsSlidingWindow
<1>1. Init => Sliding!Init BY WindowStarts
<1>2. PromiseInv /\ PromiseInv' /\ [Next]_vars =>
        [Sliding!Next]_<<Largest({written, acked + C!WindowBytes}), answered, acked, readPos, spoilt>>
  BY SpoiltSlides DEF Offered
<1> QED BY <1>1, <1>2, PromiseInvHolds, PTL DEF Spec, IsSlidingWindow, Sliding!Spec

================================================================================
