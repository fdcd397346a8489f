------------------------------ MODULE TcpdcProofs ------------------------------
(* The loop of tcpdc makes no call that CBuffer does not describe, so what *)
(* is proved of the send buffer holds in the daemon; and no chunk of ftpc  *)
(* is lost or stored twice.  For every size, of the sockets too.           *)
EXTENDS Tcpdc, CBufferSent

Chunk == [first : Int, size : Chunks]

(* What is in ftpc's socket, or kept, is a chunk ftpc may send. *)
ChunksAreChunks ==
  /\ hostSock \in Seq(Chunk) /\ produced \in Int
  /\ tempStored \in BOOLEAN /\ awaiting \in BOOLEAN
  /\ tempStored => bread \in Chunks

LoopInv == IInv /\ ChunksAreChunks /\ ChunkStoredOnce

(* A packet that was handed over has a number that was given out. *)
LEMMA SentWasNumbered ==
  ASSUME IInv, NEW num \in {p.seq : p \in sent} PROVE num \in 1..packseq-1
  BY DEF IInv, TypeOK

(* Each handler is one of CBuffer's calls, or leaves the buffer alone. *)
LEMMA HandlerIsCall == LoopInv /\ [LoopNext]_loopVars => [Next]_vars
<1> SUFFICES ASSUME LoopInv, [LoopNext]_loopVars PROVE [Next]_vars OBVIOUS
<1>1. CASE Select
  <2>1. UNCHANGED vars BY <1>1 DEF Select
  <2> QED BY <2>1
<1>2. CASE RetryChunk
  <2>1. bread \in Chunks BY <1>2 DEF RetryChunk, LoopInv, ChunksAreChunks
  <2>2. AddData(bread) \/ AddDataFull(bread) BY <1>2 DEF RetryChunk
  <2> QED BY <2>1, <2>2 DEF Next
<1>3. CASE ReadChunk
  <2> DEFINE size == Head(hostSock).size
  <2>a. hostSock # <<>> /\ hostSock \in Seq(Chunk)
    BY <1>3 DEF ReadChunk, LoopInv, ChunksAreChunks
  <2>b. Head(hostSock) \in Chunk BY <2>a
  <2>1. size \in Chunks BY <2>b DEF Chunk
  <2>2. AddData(size) \/ AddDataFull(size) BY <1>3 DEF ReadChunk
  <2> QED BY <2>1, <2>2 DEF Next
<1>4. CASE ReadACK
  <2> DEFINE num == Head(acks)
  <2>1. RecvACK(num) \/ RecvACKCrash(num) BY <1>4 DEF ReadACK
  <2>2. num \in {p.seq : p \in sent} BY <2>1 DEF RecvACK, RecvACKCrash
  <2>3. num \in 1..packseq-1 BY <2>2, SentWasNumbered DEF LoopInv
  <2> QED BY <2>1, <2>3 DEF Next
<1>5. CASE ReadNotice
  <2> DEFINE num == Head(notices)
  <2>1. TimerExpire(num) BY <1>5 DEF ReadNotice
  <2>2. num \in {p.seq : p \in sent} BY <2>1 DEF TimerExpire
  <2>3. num \in 1..packseq-1 BY <2>2, SentWasNumbered DEF LoopInv
  <2> QED BY <2>1, <2>3 DEF Next
<1>6. CASE Transmit BY <1>6 DEF Transmit, Next
<1>7. CASE \E size \in Chunks : SendChunk(size) BY <1>7 DEF SendChunk
<1>8. CASE Network BY <1>8 DEF Network, AckArrives, Lose
<1>9. CASE TpMessage BY <1>9 DEF TpMessage
<1>10. CASE \E b \in counting : TpExpire(b) BY <1>10 DEF TpExpire
<1>11. CASE UNCHANGED loopVars BY <1>11 DEF loopVars
<1> QED
  BY <1>1, <1>2, <1>3, <1>4, <1>5, <1>6, <1>7, <1>8, <1>9, <1>10, <1>11 DEF LoopNext, Turn

(* Only addData() takes bytes of the stream. *)
LEMMA WrittenOnlyByAddData ==
  ASSUME NEW num, \/ AddDataFull(num) \/ RecvACK(num) \/ RecvACKCrash(num) \/ TimerExpire(num)
                  \/ SendWindow \/ UNCHANGED vars
  PROVE  written' = written
  BY DEF AddDataFull, RecvACK, RecvACKCrash, TimerExpire, SendWindow, vars, history

(* The three situations of ftpc: its chunk is in the socket, is kept, or    *)
(* has been stored.                                                        *)
InSocket(chunk) ==
  /\ hostSock = <<chunk>> /\ awaiting = TRUE /\ tempStored = FALSE
  /\ chunk.first = written /\ produced = written + chunk.size

Kept ==
  /\ hostSock = <<>> /\ awaiting = TRUE /\ tempStored = TRUE
  /\ temp = written /\ produced = written + bread

Stored == hostSock = <<>> /\ awaiting = FALSE /\ tempStored = FALSE /\ produced = written

Situation == (\E chunk \in Chunk : InSocket(chunk)) \/ Kept \/ Stored

LEMMA OneElement ==
  ASSUME NEW S, NEW s \in Seq(S), s # <<>>, Len(s) <= 1
  PROVE  s = <<Head(s)>> /\ Head(s) \in S
<1>0. Len(s) \in Nat /\ Len(s) # 0 OBVIOUS
<1>1. Len(s) = 1 BY <1>0
<1> QED BY <1>1

LEMMA OneSituation ==
  ASSUME hostSock \in Seq(Chunk), tempStored \in BOOLEAN, awaiting \in BOOLEAN, ChunkStoredOnce
  PROVE  Situation
<1>1. CASE hostSock # <<>>
  <2> DEFINE chunk == Head(hostSock)
  <2>1. awaiting = TRUE BY <1>1 DEF ChunkStoredOnce
  <2>2. tempStored = FALSE
    <3>1. SUFFICES ASSUME tempStored = TRUE PROVE FALSE OBVIOUS
    <3>2. Len(hostSock) + 1 <= 1 BY <3>1, Zenon DEF ChunkStoredOnce
    <3> QED BY <3>2, <1>1
  <2>3. Len(hostSock) + 0 <= 1 BY <2>2, Zenon DEF ChunkStoredOnce
  <2>a. Len(hostSock) <= 1 BY <2>3
  <2>4. hostSock = <<chunk>> /\ chunk \in Chunk BY <1>1, <2>a, OneElement
  <2>5. chunk.first = written /\ produced = written + chunk.size BY <1>1 DEF ChunkStoredOnce
  <2>6. InSocket(chunk) BY <2>1, <2>2, <2>4, <2>5 DEF InSocket
  <2> QED BY <2>4, <2>6 DEF Situation
<1>2. CASE hostSock = <<>> /\ tempStored = TRUE
  <2>1. awaiting = TRUE BY <1>2, Zenon DEF ChunkStoredOnce
  <2>2. temp = written /\ produced = written + bread BY <1>2 DEF ChunkStoredOnce
  <2>3. Kept BY <1>2, <2>1, <2>2 DEF Kept
  <2> QED BY <2>3 DEF Situation
<1>3. CASE hostSock = <<>> /\ tempStored = FALSE
  <2>1. awaiting = FALSE BY <1>3 DEF ChunkStoredOnce
  <2>2. Stored BY <2>1, <1>3 DEF ChunkStoredOnce, Stored
  <2> QED BY <2>2 DEF Situation
<1> QED BY <1>1, <1>2, <1>3

LEMMA SituationIsFine == Situation => ChunkStoredOnce
<1>1. ASSUME NEW chunk \in Chunk, InSocket(chunk) PROVE ChunkStoredOnce
  <2>1. awaiting = (hostSock # <<>> \/ tempStored) BY <1>1 DEF InSocket
  <2>2. Len(hostSock) + (IF tempStored THEN 1 ELSE 0) <= 1 BY <1>1 DEF InSocket
  <2>3. Head(hostSock) = chunk BY <1>1 DEF InSocket
  <2> QED BY <1>1, <2>1, <2>2, <2>3 DEF InSocket, ChunkStoredOnce
<1>2. ASSUME Kept PROVE ChunkStoredOnce
  <2>1. awaiting = (hostSock # <<>> \/ tempStored) BY <1>2 DEF Kept
  <2>2. Len(hostSock) + (IF tempStored THEN 1 ELSE 0) <= 1 BY <1>2 DEF Kept
  <2> QED BY <1>2, <2>1, <2>2 DEF Kept, ChunkStoredOnce
<1>3. ASSUME Stored PROVE ChunkStoredOnce
  <2>1. awaiting = (hostSock # <<>> \/ tempStored) BY <1>3 DEF Stored
  <2>2. Len(hostSock) + (IF tempStored THEN 1 ELSE 0) <= 1 BY <1>3 DEF Stored
  <2> QED BY <1>3, <2>1, <2>2 DEF Stored, ChunkStoredOnce
<1> QED BY <1>1, <1>2, <1>3 DEF Situation

(* The chunk in the socket or kept stays the one that is to be stored. *)
LEMMA ChunksKept ==
  LoopInv /\ [LoopNext]_loopVars => ChunksAreChunks' /\ ChunkStoredOnce'
<1> SUFFICES ASSUME LoopInv, [LoopNext]_loopVars PROVE ChunksAreChunks' /\ ChunkStoredOnce'
  OBVIOUS
<1> USE DEF LoopInv
<1>0. written \in Int BY Sizes DEF IInv, TypeOK
<1>1. ASSUME UNCHANGED <<hostSock, awaiting, produced, tempStored, bread, temp, written>>
      PROVE  ChunksAreChunks' /\ ChunkStoredOnce'
  BY <1>1 DEF ChunksAreChunks, ChunkStoredOnce
<1>a. Situation BY OneSituation DEF ChunksAreChunks
<1>b. ASSUME Situation' PROVE ChunkStoredOnce' BY <1>b, SituationIsFine, PTL
<1>2. CASE RetryChunk
  <2>0. Kept BY <1>2, <1>a DEF RetryChunk, Situation, InSocket, Stored
  <2>1. CASE AddData(bread) /\ Reply
    <3>1. written' = written + bread BY <2>1 DEF AddData
    <3>2. UNCHANGED <<hostSock, produced, bread>> BY <1>2 DEF RetryChunk
    <3>3. tempStored' = FALSE /\ awaiting' = FALSE BY <2>1 DEF Reply
    <3>4. hostSock = <<>> /\ produced = written + bread BY <2>0 DEF Kept
    <3>5. Stored' BY <3>1, <3>2, <3>3, <3>4 DEF Stored
    <3>6. ChunksAreChunks' BY <3>2, <3>3 DEF ChunksAreChunks
    <3> QED BY <1>b, <3>5, <3>6 DEF Situation
  <2>2. CASE AddDataFull(bread) /\ Keep
    <3>1. written' = written BY <2>2, WrittenOnlyByAddData
    <3>2. UNCHANGED <<hostSock, produced, bread, temp, awaiting>>
      BY <1>2, <2>2 DEF RetryChunk, Keep
    <3>3. tempStored' = tempStored BY <2>0, <2>2 DEF Keep, Kept
    <3> QED BY <1>1, <3>1, <3>2, <3>3
  <2> QED BY <1>2, <2>1, <2>2 DEF RetryChunk
<1>3. CASE ReadChunk
  <2>0. hostSock # <<>> BY <1>3 DEF ReadChunk
  <2>1. PICK chunk \in Chunk : InSocket(chunk) BY <2>0, <1>a DEF Situation, Kept, Stored
  <2>2. hostSock = <<chunk>> BY <2>1 DEF InSocket
  <2>3. Head(hostSock) = chunk /\ Tail(hostSock) = <<>> BY <2>2
  <2>4. hostSock' = <<>> /\ bread' = chunk.size /\ temp' = chunk.first /\ produced' = produced
    BY <1>3, <2>3 DEF ReadChunk
  <2>5. chunk.first = written /\ produced = written + chunk.size /\ awaiting = TRUE
    BY <2>1 DEF InSocket
  <2>a. hostSock' \in Seq(Chunk) /\ produced' \in Int BY <2>4 DEF ChunksAreChunks
  <2>6. chunk.size \in Chunks BY DEF Chunk
  <2>7. (AddData(chunk.size) /\ Reply) \/ (AddDataFull(chunk.size) /\ Keep)
    BY <1>3, <2>3 DEF ReadChunk
  <2>8. CASE AddData(chunk.size) /\ Reply
    <3>1. written' = written + chunk.size BY <2>8 DEF AddData
    <3>2. tempStored' = FALSE /\ awaiting' = FALSE BY <2>8 DEF Reply
    <3>3. Stored' BY <2>4, <2>5, <3>1, <3>2 DEF Stored
    <3>4. ChunksAreChunks' BY <2>a, <3>2 DEF ChunksAreChunks
    <3> QED BY <1>b, <3>3, <3>4 DEF Situation
  <2>9. CASE AddDataFull(chunk.size) /\ Keep
    <3>1. written' = written BY <2>9, WrittenOnlyByAddData
    <3>2. tempStored' = TRUE /\ awaiting' = TRUE BY <2>9, <2>5 DEF Keep
    <3>3. Kept' BY <2>4, <2>5, <3>1, <3>2 DEF Kept
    <3>4. ChunksAreChunks' BY <2>a, <2>4, <2>6, <3>2 DEF ChunksAreChunks
    <3> QED BY <1>b, <3>3, <3>4 DEF Situation
  <2> QED BY <2>7, <2>8, <2>9
<1>4. CASE \E size \in Chunks : SendChunk(size)
  <2> PICK size \in Chunks : SendChunk(size) BY <1>4
  <2>1. /\ awaiting' = TRUE /\ produced' = produced + size
        /\ hostSock' = Append(hostSock, [first |-> produced, size |-> size])
        /\ UNCHANGED <<tempStored, bread, written>>
    BY DEF SendChunk, vars, history, turnVars
  <2>2. Stored
    <3>1. ~awaiting BY DEF SendChunk
    <3> QED BY <3>1, <1>a DEF Situation, InSocket, Kept
  <2>3. hostSock = <<>> /\ tempStored = FALSE /\ produced = written BY <2>2 DEF Stored
  <2>4. size \in Int BY Sizes
  <2>5. PICK chunk \in Chunk : chunk = [first |-> produced, size |-> size]
    BY <2>3, <1>0 DEF Chunk
  <2>6. hostSock' = <<chunk>> BY <2>1, <2>3, <2>5
  <2>7. chunk.first = written' /\ produced' = written' + chunk.size BY <2>1, <2>3, <2>5
  <2>8. tempStored' = FALSE BY <2>1, <2>3
  <2>9. Situation'
    <3>1. InSocket(chunk)' BY <2>1, <2>6, <2>7, <2>8 DEF InSocket
    <3> QED BY <3>1 DEF Situation
  <2>10. ChunksAreChunks'
    <3>1. produced' \in Int BY <1>0, <2>1, <2>3, <2>4
    <3>2. hostSock' \in Seq(Chunk) BY <2>6
    <3> QED BY <2>1, <2>8, <3>1, <3>2 DEF ChunksAreChunks
  <2> QED BY <1>b, <2>9, <2>10
<1>5. CASE Select BY <1>1, <1>5 DEF Select, vars, history, ftpcVars
<1>6. CASE ReadACK
  <2>1. written' = written BY <1>6, WrittenOnlyByAddData DEF ReadACK
  <2> QED BY <1>1, <1>6, <2>1 DEF ReadACK, ftpcVars
<1>7. CASE ReadNotice
  <2>1. written' = written BY <1>7, WrittenOnlyByAddData DEF ReadNotice
  <2> QED BY <1>1, <1>7, <2>1 DEF ReadNotice, ftpcVars
<1>8. CASE Transmit
  <2>1. written' = written BY <1>8, WrittenOnlyByAddData DEF Transmit
  <2> QED BY <1>1, <1>8, <2>1 DEF Transmit, ftpcVars
<1>9. CASE Network
  BY <1>1, <1>9 DEF Network, AckArrives, Lose, vars, history, turnVars, ftpcVars
<1>10. CASE TpMessage BY <1>1, <1>10 DEF TpMessage, vars, history, turnVars, ftpcVars
<1>11. CASE \E b \in counting : TpExpire(b)
  BY <1>1, <1>11 DEF TpExpire, vars, history, turnVars, ftpcVars
<1>12. CASE UNCHANGED loopVars
  BY <1>1, <1>12 DEF loopVars, vars, history, turnVars, ftpcVars
<1> QED
  BY <1>2, <1>3, <1>4, <1>5, <1>6, <1>7, <1>8, <1>9, <1>10, <1>11, <1>12 DEF LoopNext, Turn

LEMMA InitLoopInv == LoopInit => LoopInv
<1> SUFFICES ASSUME LoopInit PROVE LoopInv OBVIOUS
<1>1. IInv BY InitIInv DEF LoopInit
<1>2. ChunksAreChunks
  <2>1. tempStored = FALSE /\ awaiting = FALSE BY DEF LoopInit
  <2>2. hostSock = <<>> /\ produced = 0 BY DEF LoopInit
  <2>3. hostSock \in Seq(Chunk) /\ produced \in Int BY <2>2
  <2> QED BY <2>1, <2>3 DEF ChunksAreChunks
<1>3. ChunkStoredOnce
  <2>1. Stored BY DEF LoopInit, Init, Stored
  <2> QED BY <2>1, SituationIsFine DEF Situation
<1> QED BY <1>1, <1>2, <1>3 DEF LoopInv

LEMMA NextLoopInv == LoopInv /\ [LoopNext]_loopVars => LoopInv'
<1> SUFFICES ASSUME LoopInv, [LoopNext]_loopVars PROVE LoopInv' OBVIOUS
<1>1. IInv' BY HandlerIsCall, NextIInv DEF LoopInv
<1> QED BY <1>1, ChunksKept DEF LoopInv

THEOREM LoopInductive == LoopSpec => []LoopInv
  BY InitLoopInv, NextLoopInv, PTL DEF LoopSpec

(* The daemon implements the send buffer: whatever the order in which      *)
(* chunks, ACKs and notices of expiry come, each turn makes calls of       *)
(* CBuffer only, with arguments CBuffer provides for.                      *)
THEOREM Implements == LoopSpec => ImplementsBuffer
<1>1. LoopInit => Init BY DEF LoopInit
<1> QED BY <1>1, HandlerIsCall, LoopInductive, PTL DEF LoopSpec, Spec, ImplementsBuffer

(* No chunk of ftpc is lost, stored twice or out of order: a chunk that    *)
(* did not fit is kept until it does, and ftpc waits for it.               *)
THEOREM ChunksStored == LoopSpec => []ChunkStoredOnce
<1>1. LoopInv => ChunkStoredOnce BY DEF LoopInv
<1> QED BY <1>1, LoopInductive, PTL

(* In the daemon a byte stays in the ring until it is acknowledged. *)
THEOREM DaemonKeepsBytes == LoopSpec => []UnackedBytesKept
  BY Implements, BytesKept, PTL DEF ImplementsBuffer

(* In the daemon, too, the network is given the stream. *)
THEOREM DaemonSendsTheStream == LoopSpec => []SentIsTheStream
  BY Implements, StreamIsSent, PTL DEF ImplementsBuffer

--------------------------------------------------------------------------------

(* A turn comes to one of its stages: the last one is never left out. *)
LEMMA StageIsOne ==
  ASSUME NEW S, NEW stages \in Seq(S), stages # <<>>, stages[Len(stages)] = "send", NEW set, NEW stored
  PROVE  NextOf(stages, set, stored) \in S
<1> DEFINE ahead == {i \in 1..Len(stages) : Handles(stages[i], set, stored)}
           k == CHOOSE i \in ahead : \A j \in ahead : i <= j
<1>1. Len(stages) \in Nat /\ Len(stages) \in 1..Len(stages) OBVIOUS
<1>2. Handles(stages[Len(stages)], set, stored) BY DEF Handles
<1>3. Len(stages) \in ahead BY <1>1, <1>2
<1>4. \E i \in ahead : \A j \in ahead : i <= j
  <2>1. ahead \in SUBSET Nat BY <1>1
  <2> HIDE DEF ahead
  <2> QED BY <1>3, <2>1, NatMin
<1>5. k \in ahead BY <1>4
<1>6. k \in 1..Len(stages) BY <1>5
<1> HIDE DEF k
<1>7. stages[k] \in S BY <1>6
<1> QED BY <1>7 DEF NextOf, k

(* Numbers are only added. *)
LEMMA NumbersGrow ==
  ASSUME IInv, [Next]_vars
  PROVE  packseq \in Nat \ {0} /\ packseq' \in Nat \ {0} /\ packseq <= packseq'
<1>0. IInv' /\ packseq \in Nat \ {0} /\ packseq' \in Nat \ {0}
  <2>1. IInv' BY NextIInv
  <2> QED BY <2>1 DEF IInv, TypeOK
<1>1. /\ nodes \in Seq(Node) /\ acked \in Nat /\ dstart = Wrap(acked)
      /\ Tiles(nodes, acked, packseq) /\ Len(nodes) < packseq
  BY IInvFacts
<1>2. dend \in 0..BufSize /\ dend' \in 0..BufSize /\ isEmpty \in BOOLEAN
  BY <1>0 DEF IInv, TypeOK
<1>3. ASSUME NEW size \in Chunks, AddData(size) PROVE packseq <= packseq'
  <2>1. CheckWindow(nodes, dend', FALSE) BY <1>3 DEF AddData
  <2> QED BY <1>0, <1>1, <1>2, <2>1, CheckWindowTiles
<1>4. ASSUME NEW size \in Chunks, AddDataFull(size) PROVE packseq <= packseq'
  <2>1. CheckWindow(nodes, dend, StillEmpty(dstart, dend, isEmpty)) BY <1>4 DEF AddDataFull
  <2>2. StillEmpty(dstart, dend, isEmpty) \in BOOLEAN BY DEF StillEmpty
  <2> QED BY <1>0, <1>1, <1>2, <2>1, <2>2, CheckWindowTiles
<1>5. ASSUME NEW num \in 1..packseq-1, RecvACK(num) PROVE packseq <= packseq'
  <2> DEFINE ms == Marked(nodes, Numbered(num), Acked)
  <2>1. CASE Numbered(num) # {}
    <3>1. CheckWindow(ms, dend, isEmpty) BY <1>5, <2>1 DEF RecvACK
    <3>2. /\ ms \in Seq(Node) /\ Len(ms) = Len(nodes)
          /\ \A i \in 1..Len(nodes) : /\ ms[i].size = nodes[i].size
                                      /\ ms[i].data = nodes[i].data
                                      /\ ms[i].seqnum = nodes[i].seqnum
      BY <1>1, MarkedFacts
    <3> HIDE DEF ms
    <3>3. Tiles(ms, acked, packseq) /\ Len(ms) < packseq BY <1>1, <3>2, SameTiles
    <3> QED BY <1>0, <1>1, <1>2, <3>1, <3>2, <3>3, CheckWindowTiles
  <2>2. CASE Numbered(num) = {}
    <3>1. packseq' = packseq BY <1>5, <2>2 DEF RecvACK
    <3> QED BY <1>0, <3>1
  <2> QED BY <2>1, <2>2
<1>6. ASSUME packseq' = packseq PROVE packseq <= packseq' BY <1>0, <1>6
<1>7. ASSUME NEW num \in 1..packseq-1, RecvACKCrash(num) PROVE packseq' = packseq BY <1>7 DEF RecvACKCrash
<1>8. ASSUME NEW bsn \in 1..packseq-1, TimerExpire(bsn) PROVE packseq' = packseq BY <1>8 DEF TimerExpire
<1>9. SendWindow \/ UNCHANGED vars => packseq' = packseq BY DEF SendWindow, vars, bufVars
<1> QED BY <1>0, <1>3, <1>4, <1>5, <1>6, <1>7, <1>8, <1>9 DEF Next

(* What a message to tp can be, when the packets have numbers below ps. *)
Messages(ps) == [flag : {"start", "cancel"}, byteSeqNum : 1..ps-1]

(* The packets sendWindow() starts timers for, in order. *)
LEMMA StartsFacts ==
  ASSUME IInv
  PROVE  /\ Starts \in Seq(Messages(packseq))
         /\ \A n \in 1..Len(Starts) : \E i \in Outgoing : Starts[n] = Start(nodes[i].seqnum)
         /\ \A i \in Outgoing : \E n \in 1..Len(Starts) : Starts[n] = Start(nodes[i].seqnum)
         /\ \A m, n \in 1..Len(Starts) : Starts[m] = Starts[n] => m = n
<1> DEFINE c == Cardinality(Outgoing)
           l == Len(nodes)
           pick(n) == CHOOSE i \in Outgoing : SendRank(i) = n
<1>1. /\ nodes \in Seq(Node) /\ Tiles(nodes, acked, packseq) /\ packseq \in Nat \ {0}
      /\ l \in Nat /\ l < packseq /\ Outgoing \in SUBSET (1..l)
  BY IInvFacts DEF Outgoing
<1>2. \A i \in Outgoing : SendRank(i) = Upto(Outgoing, i) BY DEF SendRank, Upto
<1>3. /\ c \in Nat /\ c = Upto(Outgoing, l) /\ Upto(Outgoing, 0) = 0
      /\ \A x \in 0..l : Upto(Outgoing, x) \in Nat
  <2>1. /\ Upto(Outgoing, l) = c /\ Upto(Outgoing, 0) = 0
        /\ \A x \in 0..l : Upto(Outgoing, x) \in Nat
    BY <1>1, UptoStep
  <2>2. l \in 0..l BY <1>1
  <2> QED BY <2>1, <2>2
<1>4. \A n \in 1..c : \E i \in Outgoing : SendRank(i) = n
  <2>1. \A n \in 1..Upto(Outgoing, l) : \E i \in Outgoing : Upto(Outgoing, i) = n
    BY <1>1, UptoOnto
  <2> QED BY <2>1, <1>2, <1>3
<1>5. \A n \in 1..c : pick(n) \in Outgoing /\ SendRank(pick(n)) = n BY <1>4
<1> HIDE DEF c, pick, l
<1>6. \A i \in Outgoing : SendRank(i) \in 1..c
  <2> SUFFICES ASSUME NEW i \in Outgoing PROVE Upto(Outgoing, i) \in 1..c BY <1>2
  <2>1. i \in 0..l /\ 0 \in 0..l /\ l \in 0..l /\ 0 < i /\ (i < l \/ i = l) BY <1>1
  <2>2. Upto(Outgoing, i) \in Nat BY <2>1, <1>3
  <2>3. 0 < Upto(Outgoing, i)
    <3>1. Upto(Outgoing, 0) < Upto(Outgoing, i) BY <2>1, <1>1, UptoMonotonic
    <3> QED BY <3>1, <1>3
  <2>4. Upto(Outgoing, i) <= c
    <3>1. i < l => Upto(Outgoing, i) <= Upto(Outgoing, l) BY <2>1, <1>1, UptoMonotonic
    <3> QED BY <3>1, <2>1, <2>2, <1>3
  <2> QED BY <2>2, <2>3, <2>4, <1>3
<1>7. \A i, j \in Outgoing : SendRank(i) = SendRank(j) => i = j
  <2> SUFFICES ASSUME NEW i \in Outgoing, NEW j \in Outgoing, SendRank(i) = SendRank(j), i # j PROVE FALSE
    OBVIOUS
  <2>1. i \in 0..l /\ j \in 0..l /\ (i < j \/ j < i) BY <1>1
  <2>2. i < j => Upto(Outgoing, i) < Upto(Outgoing, j) BY <2>1, <1>1, UptoMonotonic
  <2>3. j < i => Upto(Outgoing, j) < Upto(Outgoing, i) BY <2>1, <1>1, UptoMonotonic
  <2>4. Upto(Outgoing, i) = Upto(Outgoing, j) /\ Upto(Outgoing, i) \in Nat BY <2>1, <1>2, <1>3
  <2> QED BY <2>1, <2>2, <2>3, <2>4
<1>8. \A i \in Outgoing : nodes[i].seqnum \in 1..packseq-1
  <2> SUFFICES ASSUME NEW i \in Outgoing PROVE nodes[i].seqnum \in 1..packseq-1 OBVIOUS
  <2>1. i \in 1..l BY <1>1
  <2>2. nodes[i].seqnum = packseq - l + i - 1 BY <1>1, <2>1 DEF Tiles, l
  <2> QED BY <2>1, <2>2, <1>1
<1>9. Starts = [n \in 1..c |-> Start(nodes[pick(n)].seqnum)] BY DEF Starts, c, pick
<1>10. \A n \in 1..c : Start(nodes[pick(n)].seqnum) \in Messages(packseq)
  BY <1>5, <1>8 DEF Start, Messages
<1>11. Starts \in [1..c -> Messages(packseq)] BY <1>9, <1>10
<1>12. Starts \in Seq(Messages(packseq)) /\ Len(Starts) = c BY <1>3, <1>11
<1>13. \A n \in 1..Len(Starts) : \E i \in Outgoing : Starts[n] = Start(nodes[i].seqnum)
  BY <1>5, <1>9, <1>12
<1>14. ASSUME NEW i \in Outgoing PROVE \E n \in 1..Len(Starts) : Starts[n] = Start(nodes[i].seqnum)
  <2> DEFINE n == SendRank(i)
  <2>1. n \in 1..c BY <1>6
  <2>2. pick(n) = i BY <2>1, <1>5, <1>7
  <2>3. Starts[n] = Start(nodes[i].seqnum) BY <2>1, <2>2, <1>9
  <2> HIDE DEF n
  <2> QED BY <2>1, <2>3, <1>12
<1>15. ASSUME NEW m \in 1..Len(Starts), NEW n \in 1..Len(Starts), Starts[m] = Starts[n] PROVE m = n
  <2>1. m \in 1..c /\ n \in 1..c BY <1>12
  <2>2. Start(nodes[pick(m)].seqnum) = Start(nodes[pick(n)].seqnum) BY <2>1, <1>9, <1>15
  <2>3. nodes[pick(m)].seqnum = nodes[pick(n)].seqnum BY <2>2 DEF Start
  <2>4. pick(m) \in 1..Len(nodes) /\ pick(n) \in 1..Len(nodes) BY <2>1, <1>1, <1>5 DEF l
  <2>5. packseq \in Nat BY <1>1
  <2>6. pick(m) = pick(n) BY <1>1, <2>3, <2>4, <2>5, NumbersDiffer
  <2> QED BY <2>1, <2>6, <1>5
<1> QED BY <1>12, <1>13, <1>14, <1>15

(* The notices of an expiry: each of the timers due, once. *)
LEMMA OrderFacts ==
  ASSUME NEW due, IsFiniteSet(due), NEW order \in Tp!SetToSeqs(due)
  PROVE  /\ order \in Seq(due) /\ Len(order) \in Nat
         /\ \A i, j \in 1..Len(order) : order[i] = order[j] => i = j
         /\ \A b \in due : \E i \in 1..Len(order) : order[i] = b
<1> DEFINE c == Cardinality(due)
<1>1. \A S : Tp!Cardinality(S) = Cardinality(S) BY DEF Cardinality, Tp!Cardinality
<1>2. order \in [1..c -> due] /\ \A i, j \in 1..c : i # j => order[i] # order[j]
  BY <1>1 DEF Tp!SetToSeqs
<1>3. c \in Nat BY FS_CardinalityType
<1>4. order \in Seq(due) /\ Len(order) = c BY <1>2, <1>3
<1>5. ASSUME NEW b \in due PROVE \E i \in 1..c : order[i] = b
  <2> SUFFICES ASSUME \A i \in 1..c : order[i] # b PROVE FALSE OBVIOUS
  <2>1. IsFiniteSet(due \ {b}) /\ Cardinality(due \ {b}) = c - 1 BY FS_RemoveElement
  <2>2. order \in [1..c -> due \ {b}] BY <1>2
  <2>3. IsFiniteSet(1..c) /\ Cardinality(1..c) = c
    <3>1. 1 \in Int /\ c \in Int BY <1>3
    <3>2. IsFiniteSet(1..c) /\ Cardinality(1..c) = IF 1 > c THEN 0 ELSE c - 1 + 1 BY <3>1, FS_Interval
    <3> QED BY <3>2, <1>3
  <2>4. order \in Injection(1..c, due \ {b})
    BY <2>2, <1>2 DEF Injection, IsInjective
  <2> HIDE DEF c
  <2>5. Cardinality(1..c) <= Cardinality(due \ {b}) BY <2>1, <2>4, FS_Injection
  <2> QED BY <2>1, <2>3, <2>5, <1>3
<1> QED BY <1>2, <1>3, <1>4, <1>5

--------------------------------------------------------------------------------

(* The inductive invariant for the types. *)
LoopTypeInv == LoopInv /\ LoopTypeOK

(* A longer range of numbers takes in what the shorter one held. *)
LEMMA NumbersStay ==
  ASSUME LoopTypeOK, packseq \in Nat, NEW ps \in Nat, packseq <= ps
  PROVE  /\ 1..packseq-1 \subseteq 1..ps-1
         /\ transit \subseteq 1..ps-1 /\ acks \in Seq(1..ps-1) /\ inbox \in Seq(Messages(ps))
         /\ counting \subseteq 1..ps-1 /\ notices \in Seq(1..ps-1)
<1>1. 1..packseq-1 \subseteq 1..ps-1 OBVIOUS
<1>2. Messages(packseq) \subseteq Messages(ps) BY <1>1 DEF Messages
<1>3. inbox \in Seq(Messages(packseq)) BY DEF LoopTypeOK, Messages
<1> DEFINE A == 1..packseq-1
           B == 1..ps-1
           M == Messages(packseq)
           N == Messages(ps)
<1>4. /\ A \subseteq B /\ M \subseteq N /\ inbox \in Seq(M)
      /\ transit \subseteq A /\ acks \in Seq(A) /\ counting \subseteq A /\ notices \in Seq(A)
  BY <1>1, <1>2, <1>3 DEF LoopTypeOK
<1> HIDE DEF A, B, M, N
<1>5. transit \subseteq B /\ counting \subseteq B /\ acks \in Seq(B) /\ inbox \in Seq(N) /\ notices \in Seq(B)
  BY <1>4
<1> QED BY <1>1, <1>5 DEF A, B, M, N

(* A sequence over a set is one over a larger set. *)
LEMMA WiderSeq == ASSUME NEW S, NEW T, S \subseteq T, NEW s \in Seq(S) PROVE s \in Seq(T)
  OBVIOUS

(* The number before one that is not 0. *)
LEMMA BeforeIt == ASSUME NEW n \in Nat \ {0} PROVE n - 1 \in Nat
  OBVIOUS

(* Timers expire, in some order: what is counted for afterwards. *)
LEMMA ExpireType ==
  ASSUME NEW after, NEW n \in Nat, after \subseteq 1..n, notices \in Seq(1..n), Tp!Expire(after)
  PROVE  counting' \subseteq 1..n /\ notices' \in Seq(1..n)
<1>1. PICK due \in SUBSET after : \E order \in Tp!SetToSeqs(due) :
              counting' = after \ due /\ notices' = notices \o order
  BY DEF Tp!Expire
<1>2. PICK order \in Tp!SetToSeqs(due) : counting' = after \ due /\ notices' = notices \o order
  BY <1>1
<1>3. IsFiniteSet(due)
  <2>1. IsFiniteSet(1..n) BY FS_Interval
  <2>2. due \subseteq 1..n OBVIOUS
  <2> QED BY <2>1, <2>2, FS_Subset
<1>4. order \in Seq(due) BY <1>3, OrderFacts
<1> DEFINE R == 1..n
<1>5. due \subseteq R /\ notices \in Seq(R) OBVIOUS
<1> HIDE DEF R
<1>6. order \in Seq(R) BY <1>4, <1>5, WiderSeq
<1>7. notices \o order \in Seq(R) BY <1>5, <1>6
<1> QED BY <1>2, <1>7 DEF R

(* Every variable of the daemon keeps its type. *)
LEMMA NextLoopType == LoopTypeInv /\ [LoopNext]_loopVars => LoopTypeInv'
<1> SUFFICES ASSUME LoopTypeInv, [LoopNext]_loopVars PROVE LoopTypeOK'
  BY NextLoopInv DEF LoopTypeInv
<1>0. /\ LoopInv /\ LoopTypeOK /\ IInv /\ ChunksAreChunks /\ LoopInv' /\ ChunksAreChunks'
      /\ [Next]_vars
  BY NextLoopInv, HandlerIsCall DEF LoopTypeInv, LoopInv
<1>1. packseq \in Nat \ {0} /\ packseq' \in Nat \ {0} /\ packseq <= packseq' BY <1>0, NumbersGrow
<1> DEFINE ps == packseq'
           Range1 == 1..ps-1
<1>2. /\ transit \subseteq Range1 /\ acks \in Seq(Range1) /\ inbox \in Seq(Messages(ps))
      /\ counting \subseteq Range1 /\ notices \in Seq(Range1)
      /\ 1..packseq-1 \subseteq Range1
  BY <1>0, <1>1, NumbersStay
<1>3. /\ pc \in {"select", "stored", "host", "remote", "timer", "send"}
      /\ ready \subseteq {"host", "remote", "timer"}
      /\ tempStored \in BOOLEAN /\ bread \in 0..Mss /\ temp \in 0..MaxStream
      /\ hostSock \in Seq([first : 0..MaxStream, size : 0..Mss])
      /\ awaiting \in BOOLEAN /\ produced \in 0..MaxStream
  BY <1>0 DEF LoopTypeOK
<1>4. ASSUME /\ pc' \in {"select", "stored", "host", "remote", "timer", "send"}
             /\ ready' \subseteq {"host", "remote", "timer"}
             /\ tempStored' \in BOOLEAN /\ bread' \in 0..Mss /\ temp' \in 0..MaxStream,
             /\ hostSock' \in Seq([first : 0..MaxStream, size : 0..Mss])
             /\ awaiting' \in BOOLEAN /\ produced' \in 0..MaxStream,
             /\ transit' \subseteq Range1 /\ acks' \in Seq(Range1) /\ inbox' \in Seq(Messages(ps))
             /\ counting' \subseteq Range1 /\ notices' \in Seq(Range1)
      PROVE  LoopTypeOK'
  BY <1>4 DEF LoopTypeOK, Messages
<1> DEFINE Stages == {"select", "stored", "host", "remote", "timer", "send"}
<1>5. \A set, stored : /\ NextOf(<<"stored", "host", "remote", "timer", "send">>, set, stored) \in Stages
                       /\ NextOf(<<"host", "remote", "timer", "send">>, set, stored) \in Stages
                       /\ NextOf(<<"remote", "timer", "send">>, set, stored) \in Stages
                       /\ NextOf(<<"timer", "send">>, set, stored) \in Stages
  <2>1. /\ <<"stored", "host", "remote", "timer", "send">> \in Seq(Stages)
        /\ <<"host", "remote", "timer", "send">> \in Seq(Stages)
        /\ <<"remote", "timer", "send">> \in Seq(Stages)
        /\ <<"timer", "send">> \in Seq(Stages)
    OBVIOUS
  <2> HIDE DEF Stages
  <2> QED BY <2>1, StageIsOne
<1>6. CASE Select
  <2>1. ready' \subseteq {"host", "remote", "timer"} BY <1>6 DEF Select
  <2>2. pc' \in Stages BY <1>5, <1>6 DEF Select
  <2>3. UNCHANGED <<tempStored, bread, temp, hostSock, awaiting, produced, transit, acks, inbox, counting, notices>>
    BY <1>6 DEF Select, ftpcVars, netVars, tpVars
  <2> QED BY <2>1, <2>2, <2>3, <1>2, <1>3, <1>4
<1>7. CASE RetryChunk
  <2>1. UNCHANGED <<ready, bread, temp, hostSock, produced, transit, acks, inbox, counting, notices>>
    BY <1>7 DEF RetryChunk, netVars, tpVars
  <2>2. pc' \in Stages BY <1>5, <1>7 DEF RetryChunk
  <2>3. tempStored' \in BOOLEAN /\ awaiting' \in BOOLEAN BY <1>0 DEF ChunksAreChunks
  <2> QED BY <2>1, <2>2, <2>3, <1>2, <1>3, <1>4
<1>8. CASE ReadChunk
  <2> DEFINE chunk == Head(hostSock)
             C == [first : 0..MaxStream, size : 0..Mss]
  <2>1. /\ hostSock # <<>> /\ bread' = chunk.size /\ temp' = chunk.first /\ hostSock' = Tail(hostSock)
        /\ UNCHANGED <<ready, produced, transit, acks, inbox, counting, notices>>
    BY <1>8 DEF ReadChunk, netVars, tpVars
  <2>2. chunk \in C /\ Tail(hostSock) \in Seq(C)
    <3>1. hostSock \in Seq(C) BY <1>3
    <3> HIDE DEF C
    <3> QED BY <3>1, <2>1
  <2>3. chunk.size \in 0..Mss /\ chunk.first \in 0..MaxStream BY <2>2
  <2>4. pc' \in Stages BY <1>5, <1>8 DEF ReadChunk
  <2>5. tempStored' \in BOOLEAN /\ awaiting' \in BOOLEAN BY <1>0 DEF ChunksAreChunks
  <2> QED BY <2>1, <2>2, <2>3, <2>4, <2>5, <1>2, <1>3, <1>4
<1>9. CASE ReadACK
  <2> DEFINE num == Head(acks)
  <2>1. /\ acks # <<>> /\ acks' = Tail(acks)
        /\ inbox' = inbox \/ inbox' = Append(inbox, Cancel(num))
        /\ UNCHANGED <<ready, tempStored, bread, temp, hostSock, awaiting, produced, transit, counting, notices>>
    BY <1>9 DEF ReadACK, ftpcVars
  <2>2. num \in Range1 /\ acks' \in Seq(Range1)
    <3> HIDE DEF Range1
    <3> QED BY <2>1, <1>2
  <2>3. Cancel(num) \in Messages(ps) BY <2>2 DEF Cancel, Messages
  <2>4. inbox' \in Seq(Messages(ps)) BY <2>1, <2>3, <1>2, SMTT(30)
  <2>5. pc' \in Stages BY <1>5, <1>9 DEF ReadACK
  <2> QED BY <2>1, <2>2, <2>4, <2>5, <1>2, <1>3, <1>4
<1>10. CASE ReadNotice
  <2>1. /\ notices # <<>> /\ notices' = Tail(notices) /\ counting' = counting /\ pc' = "send"
        /\ UNCHANGED <<ready, tempStored, bread, temp, hostSock, awaiting, produced, transit, acks, inbox>>
    BY <1>10 DEF ReadNotice, Tp!Read, ftpcVars, netVars
  <2>2. notices' \in Seq(Range1)
    <3> HIDE DEF Range1
    <3> QED BY <2>1, <1>2
  <2> QED BY <2>1, <2>2, <1>2, <1>3, <1>4
<1>11. CASE Transmit
  <2>1. /\ pc' = "select"
        /\ UNCHANGED <<ready, tempStored, bread, temp, hostSock, awaiting, produced, acks, counting, notices>>
        /\ \/ /\ transit' = transit \cup {nodes[i].seqnum : i \in Outgoing}
              /\ inbox' = inbox \o Starts
           \/ UNCHANGED <<transit, inbox>>
    BY <1>11 DEF Transmit, ftpcVars
  <2>2. Starts \in Seq(Messages(packseq)) BY <1>0, StartsFacts
  <2>3. Messages(packseq) \subseteq Messages(ps) BY <1>2 DEF Messages
  <2>4. Starts \in Seq(Messages(ps)) BY <2>2, <2>3
  <2>5. inbox \o Starts \in Seq(Messages(ps)) BY <2>4, <1>2
  <2>6. inbox' \in Seq(Messages(ps)) BY <2>1, <2>5, <1>2
  <2>7. {nodes[i].seqnum : i \in Outgoing} \subseteq Range1
    <3> SUFFICES ASSUME NEW i \in Outgoing PROVE nodes[i].seqnum \in Range1 OBVIOUS
    <3>1. PICK n \in 1..Len(Starts) : Starts[n] = Start(nodes[i].seqnum) BY <1>0, StartsFacts
    <3>2. Starts[n] \in Messages(ps) BY <2>4
    <3> QED BY <3>1, <3>2 DEF Start, Messages
  <2>8. transit' \subseteq Range1 BY <2>1, <2>7, <1>2
  <2> QED BY <2>1, <2>6, <2>8, <1>2, <1>3, <1>4
<1>12. CASE \E size \in Chunks : SendChunk(size)
  <2>1. PICK size \in Chunks : SendChunk(size) BY <1>12
  <2> DEFINE C == [first : 0..MaxStream, size : 0..Mss]
             chunk == [first |-> produced, size |-> size]
  <2>2. /\ produced + size <= MaxStream /\ hostSock' = Append(hostSock, chunk)
        /\ awaiting' = TRUE /\ produced' = produced + size
        /\ UNCHANGED <<pc, ready, tempStored, bread, temp, transit, acks, inbox, counting, notices>>
    BY <2>1 DEF SendChunk, turnVars, netVars, tpVars
  <2>3. size \in 0..Mss /\ MaxStream \in Nat /\ Mss \in Nat BY Sizes
  <2>4. produced' \in 0..MaxStream BY <2>2, <2>3, <1>3
  <2>5. chunk \in C /\ hostSock \in Seq(C) BY <2>3, <1>3
  <2>6. hostSock' \in Seq(C)
    <3> HIDE DEF C, chunk
    <3> QED BY <2>2, <2>5
  <2> QED BY <2>2, <2>4, <2>6, <1>2, <1>3, <1>4
<1>13. CASE Network
  <2>1. PICK num \in transit : AckArrives(num) \/ Lose(num) BY <1>13 DEF Network
  <2>2. /\ transit' = transit \ {num} /\ (acks' = acks \/ acks' = Append(acks, num))
        /\ UNCHANGED <<pc, ready, tempStored, bread, temp, hostSock, awaiting, produced, inbox, counting, notices>>
    BY <2>1 DEF AckArrives, Lose, turnVars, ftpcVars, tpVars
  <2>3. acks' \in Seq(Range1)
    <3>1. num \in Range1 /\ acks \in Seq(Range1) BY <1>2
    <3> HIDE DEF Range1
    <3>2. Append(acks, num) \in Seq(Range1) BY <3>1
    <3> QED BY <3>1, <3>2, <2>2
  <2> QED BY <2>2, <2>3, <1>2, <1>3, <1>4
<1>14. CASE TpMessage
  <2> DEFINE m == Head(inbox)
             c == m.byteSeqNum
  <2>1. /\ inbox # <<>> /\ inbox' = Tail(inbox)
        /\ IF m.flag = "start" THEN Tp!Start(c) ELSE Tp!Cancel(c)
        /\ UNCHANGED <<pc, ready, tempStored, bread, temp, hostSock, awaiting, produced, transit, acks>>
    BY <1>14 DEF TpMessage, turnVars, ftpcVars, netVars
  <2>2. m \in Messages(ps) /\ inbox' \in Seq(Messages(ps)) BY <2>1, <1>2
  <2>3. c \in Range1 BY <2>2 DEF Messages
  <2>4. PICK after : Tp!Expire(after) /\ after \subseteq Range1
    <3>1. CASE m.flag = "start"
      <4>1. Tp!Expire(counting \cup {c}) BY <2>1, <3>1 DEF Tp!Start
      <4> QED BY <4>1, <2>3, <1>2
    <3>2. CASE m.flag # "start"
      <4>1. Tp!Expire(counting \ {c}) BY <2>1, <3>2 DEF Tp!Cancel
      <4> QED BY <4>1, <1>2
    <3> QED BY <3>1, <3>2
  <2>5. ps - 1 \in Nat BY <1>1, BeforeIt
  <2>6. counting' \subseteq Range1 /\ notices' \in Seq(Range1) BY <2>4, <2>5, <1>2, ExpireType
  <2> QED BY <2>1, <2>2, <2>6, <1>2, <1>3, <1>4
<1>15. CASE \E b \in counting : TpExpire(b)
  <2>1. /\ Tp!Expire(counting)
        /\ UNCHANGED <<pc, ready, tempStored, bread, temp, hostSock, awaiting, produced, transit, acks, inbox>>
    BY <1>15 DEF TpExpire, turnVars, ftpcVars, netVars
  <2>2. ps - 1 \in Nat BY <1>1, BeforeIt
  <2>3. counting' \subseteq Range1 /\ notices' \in Seq(Range1) BY <2>1, <2>2, <1>2, ExpireType
  <2> QED BY <2>1, <2>3, <1>2, <1>3, <1>4
<1>16. CASE UNCHANGED loopVars
  <2>1. UNCHANGED <<pc, ready, tempStored, bread, temp, hostSock, awaiting, produced, transit, acks, inbox, counting, notices>>
    BY <1>16 DEF loopVars, turnVars, ftpcVars, netVars, tpVars
  <2> QED BY <2>1, <1>2, <1>3, <1>4
<1> QED
  BY <1>6, <1>7, <1>8, <1>9, <1>10, <1>11, <1>12, <1>13, <1>14, <1>15, <1>16 DEF LoopNext, Turn

(* The daemon starts with variables of these types. *)
LEMMA InitLoopType == LoopInit => LoopTypeInv
<1> SUFFICES ASSUME LoopInit PROVE LoopTypeOK BY InitLoopInv DEF LoopTypeInv
<1>1. MaxStream \in Nat /\ Mss \in Nat /\ 0 \in 0..MaxStream /\ 0 \in 0..Mss BY Sizes
<1>2. /\ pc = "select" /\ ready = {} /\ tempStored = FALSE /\ bread = 0 /\ temp = 0
      /\ hostSock = <<>> /\ awaiting = FALSE /\ produced = 0
  BY DEF LoopInit
<1>3. transit = {} /\ acks = <<>> /\ inbox = <<>> /\ counting = {} /\ notices = <<>>
  BY DEF LoopInit
<1>4. /\ transit \subseteq 1..packseq-1 /\ acks \in Seq(1..packseq-1)
      /\ inbox \in Seq([flag : {"start", "cancel"}, byteSeqNum : 1..packseq-1])
      /\ counting \subseteq 1..packseq-1 /\ notices \in Seq(1..packseq-1)
  BY <1>3
<1>5. hostSock \in Seq([first : 0..MaxStream, size : 0..Mss]) BY <1>2
<1> QED BY <1>1, <1>2, <1>4, <1>5 DEF LoopTypeOK

(* The daemon's variables keep their types: no ACK, message or notice ever *)
(* names a packet that was not numbered, whatever was delayed or repeated. *)
THEOREM LoopTypeCorrect == LoopSpec => []LoopTypeOK
<1>1. LoopTypeInv => LoopTypeOK BY DEF LoopTypeInv
<1> QED BY <1>1, InitLoopType, NextLoopType, PTL DEF LoopSpec

--------------------------------------------------------------------------------

(* Some message of in starts b; none cancels it; one starts it and none    *)
(* behind that one cancels it.                                             *)
Starting(in, b) == \E i \in 1..Len(in) : in[i] = Start(b)
NoCancel(in, b) == \A i \in 1..Len(in) : in[i] # Cancel(b)
StartLast(in, b) ==
  \E i \in 1..Len(in) : in[i] = Start(b) /\ \A j \in i+1..Len(in) : in[j] # Cancel(b)

(* No two messages start the same timer. *)
StartsDiffer(in) ==
  \A i, j \in 1..Len(in) : \A b : in[i] = Start(b) /\ in[j] = Start(b) => i = j

(* Some notice of n is about b; no two are about the same timer. *)
Noticed(n, b) == \E i \in 1..Len(n) : n[i] = b
NoticesDiffer(n) == \A i, j \in 1..Len(n) : n[i] = n[j] => i = j

(* The two kinds of messages, and whom they are about. *)
LEMMA MessagesDiffer ==
  \A b, c : /\ Start(b) # Cancel(c)
            /\ Start(b) = Start(c) => b = c
            /\ Cancel(b) = Cancel(c) => b = c
<1> SUFFICES ASSUME NEW b, NEW c
             PROVE  /\ Start(b) # Cancel(c)
                    /\ Start(b) = Start(c) => b = c
                    /\ Cancel(b) = Cancel(c) => b = c
  OBVIOUS
<1>1. Start(b).flag = "start" /\ Start(b).byteSeqNum = b /\ Start(c).byteSeqNum = c BY DEF Start
<1>2. Cancel(c).flag = "cancel" /\ Cancel(b).byteSeqNum = b /\ Cancel(c).byteSeqNum = c BY DEF Cancel
<1>3. "start" # "cancel" OBVIOUS
<1>4. Start(b) # Cancel(c) BY <1>1, <1>2, <1>3
<1>5. Start(b) = Start(c) => b = c BY <1>1
<1>6. Cancel(b) = Cancel(c) => b = c BY <1>2
<1> QED BY <1>4, <1>5, <1>6

(* The daemon sends the messages st. *)
LEMMA MessagesSent ==
  ASSUME NEW M, NEW in \in Seq(M), NEW st \in Seq(M)
  PROVE  /\ \A b : /\ Starting(in \o st, b) => Starting(in, b) \/ Starting(st, b)
                   /\ NoCancel(in, b) /\ NoCancel(st, b) => NoCancel(in \o st, b)
                   /\ StartLast(in, b) /\ NoCancel(st, b) => StartLast(in \o st, b)
                   /\ StartLast(st, b) => StartLast(in \o st, b)
         /\ StartsDiffer(in) /\ StartsDiffer(st) /\ (\A b : Starting(st, b) => ~Starting(in, b))
              => StartsDiffer(in \o st)
<1> DEFINE s == in \o st
           m == Len(in)
           k == Len(st)
<1>1. m \in Nat /\ k \in Nat /\ s \in Seq(M) /\ Len(s) = m + k OBVIOUS
<1>2. \A i \in 1..m : s[i] = in[i] BY <1>1
<1>3. \A i \in m+1..m+k : s[i] = st[i-m] BY <1>1
<1> HIDE DEF s
<1>4. Len(s) = m + k /\ m = Len(in) /\ k = Len(st) /\ m \in Nat /\ k \in Nat BY <1>1
<1> HIDE DEF m, k
<1>5. \A i \in 1..Len(s) : i \in 1..m \/ (i \in m+1..m+k /\ i - m \in 1..k) BY <1>4
<1>6. \A i \in 1..k : m + i \in 1..Len(s) /\ m + i \in m+1..m+k /\ (m + i) - m = i BY <1>4
<1>7. \A i \in 1..m : i \in 1..Len(s) BY <1>4
<1>8. ASSUME NEW b
      PROVE  /\ Starting(s, b) => Starting(in, b) \/ Starting(st, b)
             /\ NoCancel(in, b) /\ NoCancel(st, b) => NoCancel(s, b)
             /\ StartLast(in, b) /\ NoCancel(st, b) => StartLast(s, b)
             /\ StartLast(st, b) => StartLast(s, b)
  <2>1. Starting(s, b) => Starting(in, b) \/ Starting(st, b)
    BY <1>2, <1>3, <1>4, <1>5 DEF Starting
  <2>2. NoCancel(in, b) /\ NoCancel(st, b) => NoCancel(s, b)
    BY <1>2, <1>3, <1>4, <1>5 DEF NoCancel
  <2>3. ASSUME StartLast(in, b), NoCancel(st, b) PROVE StartLast(s, b)
    <3>1. PICK i \in 1..m : in[i] = Start(b) /\ \A j \in i+1..m : in[j] # Cancel(b)
      BY <2>3, <1>4 DEF StartLast
    <3>2. ASSUME NEW j \in i+1..Len(s) PROVE s[j] # Cancel(b)
      <4>1. j \in 1..Len(s) /\ (j \in 1..m => j \in i+1..m) BY <1>4
      <4>2. CASE j \in 1..m BY <4>1, <4>2, <3>1, <1>2
      <4>3. CASE j \in m+1..m+k /\ j - m \in 1..k BY <4>3, <2>3, <1>3, <1>4 DEF NoCancel
      <4> QED BY <4>1, <4>2, <4>3, <1>5
    <3>3. i \in 1..Len(s) /\ s[i] = Start(b) BY <3>1, <1>2, <1>7
    <3> QED BY <3>2, <3>3 DEF StartLast
  <2>4. ASSUME StartLast(st, b) PROVE StartLast(s, b)
    <3>1. PICK i \in 1..k : st[i] = Start(b) /\ \A j \in i+1..k : st[j] # Cancel(b)
      BY <2>4, <1>4 DEF StartLast
    <3>2. ASSUME NEW j \in (m+i)+1..Len(s) PROVE s[j] # Cancel(b)
      <4>1. j \in m+1..m+k /\ j - m \in i+1..k BY <1>4
      <4> QED BY <4>1, <3>1, <1>3
    <3>3. m + i \in 1..Len(s) /\ s[m+i] = Start(b)
      <4>1. m + i \in 1..Len(s) /\ m + i \in m+1..m+k /\ (m + i) - m = i BY <1>6
      <4>2. s[m+i] = st[(m+i)-m] BY <4>1, <1>3
      <4> QED BY <4>1, <4>2, <3>1
    <3> QED BY <3>2, <3>3 DEF StartLast
  <2> QED BY <2>1, <2>2, <2>3, <2>4
<1>9. ASSUME StartsDiffer(in), StartsDiffer(st), \A b : Starting(st, b) => ~Starting(in, b)
      PROVE  StartsDiffer(s)
  <2> SUFFICES ASSUME NEW i \in 1..Len(s), NEW j \in 1..Len(s), NEW b, s[i] = Start(b), s[j] = Start(b)
               PROVE  i = j
    BY DEF StartsDiffer
  <2>1. CASE i \in 1..m /\ j \in 1..m BY <2>1, <1>2, <1>4, <1>9 DEF StartsDiffer
  <2>2. CASE i \in 1..m /\ j - m \in 1..k /\ j \in m+1..m+k
    BY <2>2, <1>2, <1>3, <1>4, <1>9 DEF Starting
  <2>3. CASE j \in 1..m /\ i - m \in 1..k /\ i \in m+1..m+k
    BY <2>3, <1>2, <1>3, <1>4, <1>9 DEF Starting
  <2>4. CASE i - m \in 1..k /\ i \in m+1..m+k /\ j - m \in 1..k /\ j \in m+1..m+k
    <3>1. st[i-m] = Start(b) /\ st[j-m] = Start(b) BY <2>4, <1>3
    <3>2. i - m = j - m BY <3>1, <2>4, <1>4, <1>9 DEF StartsDiffer
    <3> QED BY <3>2, <1>4
  <2> QED BY <2>1, <2>2, <2>3, <2>4, <1>5
<1> QED BY <1>8, <1>9 DEF s

(* tp takes the oldest message. *)
LEMMA MessageTaken ==
  ASSUME NEW M, NEW in \in Seq(M), in # <<>>
  PROVE  /\ StartsDiffer(in) => StartsDiffer(Tail(in))
         /\ \A b : /\ Starting(Tail(in), b) => Starting(in, b)
                   /\ Head(in) = Start(b) => Starting(in, b)
                   /\ StartsDiffer(in) /\ Head(in) = Start(b) => ~Starting(Tail(in), b)
                   /\ StartLast(in, b) => \/ StartLast(Tail(in), b)
                                          \/ Head(in) = Start(b) /\ NoCancel(Tail(in), b)
                   /\ NoCancel(in, b) => NoCancel(Tail(in), b) /\ Head(in) # Cancel(b)
<1> DEFINE t == Tail(in)
           h == Head(in)
<1>1. Len(in) \in Nat /\ Len(in) > 0 /\ 1 \in 1..Len(in) /\ h = in[1] OBVIOUS
<1>2. t \in Seq(M) /\ Len(t) = Len(in) - 1 OBVIOUS
<1>3. \A i \in 1..Len(t) : i+1 \in 1..Len(in) /\ i+1 # 1 /\ t[i] = in[i+1] BY <1>1, <1>2
<1>4. \A i \in 1..Len(in) : i # 1 => i-1 \in 1..Len(t) /\ t[i-1] = in[i]
  <2> SUFFICES ASSUME NEW i \in 1..Len(in), i # 1 PROVE i-1 \in 1..Len(t) /\ t[i-1] = in[i] OBVIOUS
  <2>1. i - 1 \in 1..Len(t) /\ (i-1)+1 = i BY <1>1, <1>2
  <2> QED BY <2>1, <1>3
<1> HIDE DEF t, h
<1>5. ASSUME StartsDiffer(in) PROVE StartsDiffer(t)
  <2> SUFFICES ASSUME NEW i \in 1..Len(t), NEW j \in 1..Len(t), NEW b, t[i] = Start(b), t[j] = Start(b)
               PROVE  i = j
    BY DEF StartsDiffer
  <2>1. i + 1 = j + 1 BY <1>3, <1>5 DEF StartsDiffer
  <2> QED BY <2>1, <1>2
<1>6. ASSUME NEW b
      PROVE  /\ Starting(t, b) => Starting(in, b)
             /\ h = Start(b) => Starting(in, b)
             /\ StartsDiffer(in) /\ h = Start(b) => ~Starting(t, b)
             /\ StartLast(in, b) => StartLast(t, b) \/ (h = Start(b) /\ NoCancel(t, b))
             /\ NoCancel(in, b) => NoCancel(t, b) /\ h # Cancel(b)
  <2>1. Starting(t, b) => Starting(in, b) BY <1>3 DEF Starting
  <2>2. h = Start(b) => Starting(in, b) BY <1>1 DEF Starting
  <2>3. ASSUME StartsDiffer(in), h = Start(b), Starting(t, b) PROVE FALSE
    <3>1. PICK i \in 1..Len(t) : t[i] = Start(b) BY <2>3 DEF Starting
    <3>2. i + 1 \in 1..Len(in) /\ i + 1 # 1 /\ in[i+1] = Start(b) BY <3>1, <1>3
    <3>3. in[1] = Start(b) BY <2>3, <1>1
    <3> HIDE DEF Start
    <3> QED BY <3>2, <3>3, <2>3, <1>1 DEF StartsDiffer
  <2>4. NoCancel(in, b) => NoCancel(t, b) /\ h # Cancel(b) BY <1>1, <1>3 DEF NoCancel
  <2>5. ASSUME StartLast(in, b) PROVE StartLast(t, b) \/ (h = Start(b) /\ NoCancel(t, b))
    <3>1. PICK i \in 1..Len(in) : in[i] = Start(b) /\ \A j \in i+1..Len(in) : in[j] # Cancel(b)
      BY <2>5 DEF StartLast
    <3>2. CASE i = 1
      <4>1. \A j \in 1..Len(t) : j+1 \in i+1..Len(in) /\ t[j] = in[j+1] BY <3>2, <1>1, <1>2, <1>3
      <4> QED BY <4>1, <3>1, <3>2, <1>1 DEF NoCancel
    <3>3. CASE i # 1
      <4>1. i - 1 \in 1..Len(t) /\ t[i-1] = Start(b) BY <3>1, <3>3, <1>4
      <4>2. \A j \in (i-1)+1..Len(t) : j+1 \in i+1..Len(in) /\ t[j] = in[j+1] BY <3>3, <1>1, <1>2, <1>3
      <4>3. \A j \in (i-1)+1..Len(t) : t[j] # Cancel(b) BY <4>2, <3>1
      <4> QED BY <4>1, <4>3 DEF StartLast
    <3> QED BY <3>2, <3>3
  <2> QED BY <2>1, <2>2, <2>3, <2>4, <2>5
<1> QED BY <1>5, <1>6 DEF t, h

(* tp sends the notices of order; the daemon reads the oldest one. *)
LEMMA NoticesSent ==
  ASSUME NEW S, NEW n \in Seq(S), NEW order \in Seq(S)
  PROVE  /\ \A b : Noticed(n \o order, b) <=> Noticed(n, b) \/ Noticed(order, b)
         /\ NoticesDiffer(n) /\ NoticesDiffer(order) /\ (\A b : Noticed(order, b) => ~Noticed(n, b))
              => NoticesDiffer(n \o order)
<1> DEFINE s == n \o order
           m == Len(n)
           k == Len(order)
<1>1. m \in Nat /\ k \in Nat /\ Len(s) = m + k OBVIOUS
<1>2. \A i \in 1..m : s[i] = n[i] BY <1>1
<1>3. \A i \in m+1..m+k : s[i] = order[i-m] BY <1>1
<1> HIDE DEF s
<1>4. Len(s) = m + k /\ m = Len(n) /\ k = Len(order) /\ m \in Nat /\ k \in Nat BY <1>1
<1> HIDE DEF m, k
<1>5. \A i \in 1..Len(s) : i \in 1..m \/ (i \in m+1..m+k /\ i - m \in 1..k) BY <1>4
<1>6. \A i \in 1..k : m + i \in 1..Len(s) /\ s[m+i] = order[i]
  <2> SUFFICES ASSUME NEW i \in 1..k PROVE m + i \in 1..Len(s) /\ s[m+i] = order[i] OBVIOUS
  <2>1. m + i \in 1..Len(s) /\ m + i \in m+1..m+k /\ (m + i) - m = i BY <1>4
  <2> QED BY <2>1, <1>3
<1>7. \A i \in 1..m : i \in 1..Len(s) BY <1>4
<1>8. ASSUME NEW b PROVE Noticed(s, b) <=> Noticed(n, b) \/ Noticed(order, b)
  <2>1. Noticed(s, b) => Noticed(n, b) \/ Noticed(order, b) BY <1>2, <1>3, <1>4, <1>5 DEF Noticed
  <2>2. Noticed(n, b) => Noticed(s, b) BY <1>2, <1>4, <1>7 DEF Noticed
  <2>3. Noticed(order, b) => Noticed(s, b) BY <1>4, <1>6 DEF Noticed
  <2> QED BY <2>1, <2>2, <2>3
<1>9. ASSUME NoticesDiffer(n), NoticesDiffer(order), \A b : Noticed(order, b) => ~Noticed(n, b)
      PROVE  NoticesDiffer(s)
  <2> SUFFICES ASSUME NEW i \in 1..Len(s), NEW j \in 1..Len(s), s[i] = s[j] PROVE i = j
    BY DEF NoticesDiffer
  <2>1. CASE i \in 1..m /\ j \in 1..m BY <2>1, <1>2, <1>4, <1>9 DEF NoticesDiffer
  <2>2. CASE i \in 1..m /\ j - m \in 1..k /\ j \in m+1..m+k
    BY <2>2, <1>2, <1>3, <1>4, <1>9 DEF Noticed
  <2>3. CASE j \in 1..m /\ i - m \in 1..k /\ i \in m+1..m+k
    BY <2>3, <1>2, <1>3, <1>4, <1>9 DEF Noticed
  <2>4. CASE i - m \in 1..k /\ i \in m+1..m+k /\ j - m \in 1..k /\ j \in m+1..m+k
    <3>1. order[i-m] = order[j-m] BY <2>4, <1>3
    <3>2. i - m = j - m BY <3>1, <2>4, <1>4, <1>9 DEF NoticesDiffer
    <3> QED BY <3>2, <1>4
  <2> QED BY <2>1, <2>2, <2>3, <2>4, <1>5
<1> QED BY <1>8, <1>9 DEF s

(* The daemon reads the oldest notice: its timer has none then. *)
LEMMA NoticeTaken ==
  ASSUME NEW S, NEW n \in Seq(S), n # <<>>, NoticesDiffer(n)
  PROVE  /\ Noticed(n, Head(n)) /\ ~Noticed(Tail(n), Head(n)) /\ NoticesDiffer(Tail(n))
         /\ \A b : b # Head(n) => (Noticed(Tail(n), b) <=> Noticed(n, b))
<1> DEFINE t == Tail(n)
           h == Head(n)
<1>1. Len(n) \in Nat /\ Len(n) > 0 /\ 1 \in 1..Len(n) /\ h = n[1] /\ Len(t) = Len(n) - 1 OBVIOUS
<1>2. \A i \in 1..Len(t) : i+1 \in 1..Len(n) /\ i+1 # 1 /\ t[i] = n[i+1] BY <1>1
<1>3. \A i \in 1..Len(n) : i # 1 => i-1 \in 1..Len(t) /\ t[i-1] = n[i]
  <2> SUFFICES ASSUME NEW i \in 1..Len(n), i # 1 PROVE i-1 \in 1..Len(t) /\ t[i-1] = n[i] OBVIOUS
  <2>1. i - 1 \in 1..Len(t) /\ (i-1)+1 = i BY <1>1
  <2> QED BY <2>1, <1>2
<1> HIDE DEF t, h
<1>4. Noticed(n, h) BY <1>1 DEF Noticed
<1>5. ~Noticed(t, h) BY <1>1, <1>2 DEF Noticed, NoticesDiffer
<1>6. NoticesDiffer(t)
  <2> SUFFICES ASSUME NEW i \in 1..Len(t), NEW j \in 1..Len(t), t[i] = t[j] PROVE i = j
    BY DEF NoticesDiffer
  <2>1. i + 1 = j + 1 BY <1>2 DEF NoticesDiffer
  <2> QED BY <2>1, <1>1
<1>7. \A b : b # h => (Noticed(t, b) <=> Noticed(n, b)) BY <1>1, <1>2, <1>3 DEF Noticed
<1> QED BY <1>4, <1>5, <1>6, <1>7 DEF t, h

--------------------------------------------------------------------------------

(* Where a timer can be: c tp counts for, in are the messages on their way *)
(* to tp, n its notices.                                                   *)
Placed(c, in, n, b) == b \in c \/ Noticed(n, b) \/ Starting(in, b)

(* It is in one of these only, and there once. *)
OnePlace(c, in, n) ==
  /\ NoticesDiffer(n) /\ StartsDiffer(in)
  /\ \A b : Starting(in, b) => b \notin c /\ ~Noticed(n, b)
  /\ \A b \in c : ~Noticed(n, b)

(* It is in such a place, and no cancellation still to be read will take   *)
(* it from there.                                                          *)
Safe(c, in, n, b) == StartLast(in, b) \/ ((b \in c \/ Noticed(n, b)) /\ NoCancel(in, b))

(* A packet in flight has a safe timer, one that is to be sent has none.   *)
(* Of an acknowledged one nothing is said: its timer may still expire.     *)
ListTimed(ns, c, in, n) ==
  \A i \in 1..Len(ns) :
    /\ ns[i].ack = Waiting => Safe(c, in, n, ns[i].seqnum)
    /\ ns[i].ack = Unsent  => ~Placed(c, in, n, ns[i].seqnum)

(* The inductive invariant.  OnePlace speaks of all timers, those of       *)
(* packets that were released long ago too: their notices still come.      *)
TimedInv ==
  /\ LoopTypeInv
  /\ fault = "none" => /\ OnePlace(counting, inbox, notices)
                       /\ ListTimed(nodes, counting, inbox, notices)

(* Only a packet that has its number can have a timer. *)
LEMMA PlacedWasNumbered ==
  ASSUME LoopTypeOK, NEW b, Placed(counting, inbox, notices, b) PROVE b \in 1..packseq-1
<1>1. /\ inbox \in Seq(Messages(packseq)) /\ counting \subseteq 1..packseq-1
      /\ notices \in Seq(1..packseq-1)
  BY DEF LoopTypeOK, Messages
<1> DEFINE R == 1..packseq-1
           M == Messages(packseq)
<1>2. \A m \in M : m.byteSeqNum \in R BY DEF Messages
<1> HIDE DEF M
<1>3. CASE Starting(inbox, b)
  <2>1. PICK i \in 1..Len(inbox) : inbox[i] = Start(b) BY <1>3 DEF Starting
  <2>2. inbox[i] \in M BY <1>1 DEF M
  <2>3. Start(b).byteSeqNum = b BY DEF Start
  <2> QED BY <2>1, <2>2, <2>3, <1>2
<1>4. CASE Noticed(notices, b)
  <2>1. PICK i \in 1..Len(notices) : notices[i] = b BY <1>4 DEF Noticed
  <2>2. notices \in Seq(R) BY <1>1
  <2> HIDE DEF R
  <2>3. notices[i] \in R BY <2>2
  <2> QED BY <2>1, <2>3 DEF R
<1>5. CASE b \in counting BY <1>1, <1>5
<1> QED BY <1>3, <1>4, <1>5 DEF Placed

(* checkWindow keeps packets as they were or cuts new ones, whose numbers  *)
(* no timer has had.                                                       *)
LEMMA WindowTimed ==
  ASSUME NEW ns \in Seq(Node), NEW end \in 0..BufSize, NEW empty \in BOOLEAN,
         packseq \in Nat \ {0}, acked \in Nat, dstart = Wrap(acked),
         Tiles(ns, acked, packseq), Len(ns) < packseq,
         CheckWindow(ns, end, empty), NEW c, NEW in, NEW n, ListTimed(ns, c, in, n),
         \A b : Placed(c, in, n, b) => b \in 1..packseq-1
  PROVE  ListTimed(nodes', c, in, n)
<1> DEFINE k == AckedPrefix(ns)
           l == Len(ns)
           r == l - k
<1>1. PICK fr \in Seq(Node) : /\ nodes' = SubSeq(ns, k+1, l) \o fr
                              /\ packseq' = packseq + Len(fr)
                              /\ \A j \in 1..Len(fr) : fr[j].ack = Unsent
  BY CheckWindowTiles
<1>2. Tiles(nodes', acked', packseq') BY CheckWindowTiles
<1>3. k \in 0..l /\ l \in Nat /\ Len(fr) \in Nat BY AckedPrefixFacts
<1> DEFINE all == SubSeq(ns, k+1, l) \o fr
           m == Len(fr)
<1> HIDE DEF k
<1>a. k \in 0..Len(ns) BY <1>3
<1>b. /\ Len(all) = Len(ns) - k + Len(fr)
      /\ \A i \in 1..Len(ns)-k : all[i] = ns[k+i]
      /\ \A i \in Len(ns)-k+1..Len(ns)-k+Len(fr) : all[i] = fr[i - (Len(ns)-k)]
  BY <1>a, RestOf, SMTT(30)
<1> HIDE DEF all
<1>4. /\ Len(all) = r + m
      /\ \A i \in 1..r : all[i] = ns[k+i]
      /\ \A i \in r+1..r+m : all[i] = fr[i-r]
  BY <1>b
<1>5. l = Len(ns) /\ m = Len(fr) /\ l \in Nat /\ m \in Nat /\ k \in 0..l BY <1>3
<1>6. nodes' = all BY <1>1 DEF all, k
<1>7. \A i \in 1..Len(all) : all[i].seqnum = packseq + m - Len(all) + i - 1
  <2>1. \A i \in 1..Len(nodes') : nodes'[i].seqnum = packseq' - Len(nodes') + i - 1
    BY <1>2 DEF Tiles
  <2>2. packseq' = packseq + m BY <1>1
  <2> HIDE DEF m
  <2>3. \A i \in 1..Len(all) : all[i].seqnum = packseq' - Len(all) + i - 1 BY <2>1, <1>6, Zenon
  <2> SUFFICES ASSUME NEW i \in 1..Len(all)
               PROVE  all[i].seqnum = packseq + m - Len(all) + i - 1
    OBVIOUS
  <2>4. all[i].seqnum = packseq' - Len(all) + i - 1 BY <2>3
  <2>5. packseq \in Nat /\ packseq' \in Nat /\ m \in Nat /\ Len(all) \in Int /\ i \in Int
    BY <2>2, <1>4, <1>5 DEF m
  <2> QED BY <2>2, <2>4, <2>5
<1> HIDE DEF l, m
<1> SUFFICES ASSUME NEW i \in 1..Len(all)
             PROVE  /\ all[i].ack = Waiting => Safe(c, in, n, all[i].seqnum)
                    /\ all[i].ack = Unsent  => ~Placed(c, in, n, all[i].seqnum)
  BY <1>6 DEF ListTimed
<1>8. CASE i <= r
  <2>1. i \in 1..r /\ k + i \in 1..Len(ns) BY <1>8, <1>4, <1>5
  <2>2. all[i] = ns[k+i] BY <2>1, <1>4
  <2>3. PICK h \in 1..Len(ns) : all[i] = ns[h] BY <2>1, <2>2
  <2> QED BY <2>3 DEF ListTimed
<1>9. CASE ~(i <= r)
  <2>1. i \in r+1..r+m /\ i - r \in 1..m BY <1>9, <1>4, <1>5
  <2>2. all[i].ack = Unsent BY <2>1, <1>1, <1>4 DEF m
  <2>3. all[i].seqnum = packseq + m - Len(all) + i - 1 BY <1>7
  <2>4. ~(all[i].seqnum \in 1..packseq-1)
    <3> DEFINE q == Len(all)
    <3>1. q = r + m /\ r \in Nat BY <1>4, <1>5
    <3>2. packseq + m - q + i - 1 = packseq - r + i - 1 BY <3>1, <2>1, <1>5
    <3>3. all[i].seqnum = packseq - r + i - 1 BY <2>3, <3>2
    <3> HIDE DEF q, r
    <3>4. packseq - r + i - 1 >= packseq BY <3>1, <2>1
    <3> QED BY <3>1, <3>3, <3>4
  <2> QED BY <2>2, <2>4 DEF Unsent, Waiting
<1> QED BY <1>8, <1>9

(* Timers expire, in some order: each moves from one place to another. *)
LEMMA ExpireKeeps ==
  ASSUME NEW after, NEW hi \in Nat, after \subseteq 1..hi, notices \in Seq(1..hi), Tp!Expire(after),
         NEW in, OnePlace(after, in, notices)
  PROVE  /\ OnePlace(counting', in, notices')
         /\ \A b : /\ Placed(counting', in, notices', b) => Placed(after, in, notices, b)
                   /\ Safe(after, in, notices, b) => Safe(counting', in, notices', b)
<1>1. PICK due \in SUBSET after : \E order \in Tp!SetToSeqs(due) :
              counting' = after \ due /\ notices' = notices \o order
  BY DEF Tp!Expire
<1>2. PICK order \in Tp!SetToSeqs(due) : counting' = after \ due /\ notices' = notices \o order
  BY <1>1
<1>3. IsFiniteSet(due)
  <2>1. IsFiniteSet(1..hi) BY FS_Interval
  <2>2. due \subseteq 1..hi OBVIOUS
  <2> QED BY <2>1, <2>2, FS_Subset
<1>4. /\ order \in Seq(due) /\ Len(order) \in Nat
      /\ \A i, j \in 1..Len(order) : order[i] = order[j] => i = j
      /\ \A b \in due : \E i \in 1..Len(order) : order[i] = b
  BY <1>3, OrderFacts
<1>5. order \in Seq(1..hi)
  <2>1. due \subseteq 1..hi OBVIOUS
  <2> QED BY <2>1, <1>4, WiderSeq
<1>6. \A b : Noticed(order, b) <=> b \in due
  <2>1. \A i \in 1..Len(order) : order[i] \in due BY <1>4
  <2> QED BY <2>1, <1>4 DEF Noticed
<1>7. NoticesDiffer(order) BY <1>4 DEF NoticesDiffer
<1>8. \A b : Noticed(notices', b) <=> Noticed(notices, b) \/ b \in due
  <2>1. \A b : Noticed(notices \o order, b) <=> Noticed(notices, b) \/ Noticed(order, b)
    BY <1>5, NoticesSent
  <2> QED BY <2>1, <1>2, <1>6
<1>9. NoticesDiffer(notices')
  <2>1. \A b : Noticed(order, b) => ~Noticed(notices, b) BY <1>6 DEF OnePlace
  <2>2. NoticesDiffer(notices) BY DEF OnePlace
  <2>3. NoticesDiffer(notices \o order) BY <2>1, <2>2, <1>5, <1>7, NoticesSent
  <2> QED BY <2>3, <1>2
<1>10. OnePlace(counting', in, notices') BY <1>2, <1>8, <1>9 DEF OnePlace
<1>11. ASSUME NEW b
       PROVE  /\ Placed(counting', in, notices', b) => Placed(after, in, notices, b)
              /\ Safe(after, in, notices, b) => Safe(counting', in, notices', b)
  BY <1>2, <1>8 DEF Placed, Safe
<1> QED BY <1>10, <1>11

(* tp handles a message or a timer expires. *)
LEMMA TpKeeps ==
  ASSUME LoopTypeOK, packseq \in Nat \ {0}, OnePlace(counting, inbox, notices),
         TpMessage \/ \E b \in counting : TpExpire(b)
  PROVE  /\ OnePlace(counting', inbox', notices')
         /\ \A b : /\ Placed(counting', inbox', notices', b) => Placed(counting, inbox, notices, b)
                   /\ Safe(counting, inbox, notices, b) => Safe(counting', inbox', notices', b)
<1> DEFINE hi == packseq - 1
<1>1. /\ inbox \in Seq(Messages(packseq)) /\ counting \subseteq 1..hi
      /\ notices \in Seq(1..hi) /\ hi \in Nat
  BY BeforeIt DEF LoopTypeOK, Messages
<1> HIDE DEF hi
<1>2. CASE \E b \in counting : TpExpire(b)
  <2>1. Tp!Expire(counting) /\ inbox' = inbox BY <1>2 DEF TpExpire
  <2>2. /\ OnePlace(counting', inbox, notices')
        /\ \A b : /\ Placed(counting', inbox, notices', b) => Placed(counting, inbox, notices, b)
                  /\ Safe(counting, inbox, notices, b) => Safe(counting', inbox, notices', b)
    BY <1>1, <2>1, ExpireKeeps
  <2> QED BY <2>1, <2>2
<1>3. CASE TpMessage
  <2> DEFINE m == Head(inbox)
             t == Tail(inbox)
             c == m.byteSeqNum
  <2>1. /\ inbox # <<>> /\ inbox' = t
        /\ IF m.flag = "start" THEN Tp!Start(c) ELSE Tp!Cancel(c)
    BY <1>3 DEF TpMessage
  <2>2. m \in Messages(packseq) BY <2>1, <1>1
  <2>3. c \in 1..hi /\ (m = Start(c) \/ m = Cancel(c)) /\ (m.flag = "start" <=> m = Start(c))
    <3>1. m \in [flag : {"start", "cancel"}, byteSeqNum : 1..hi] BY <2>2 DEF Messages, hi
    <3> HIDE DEF m
    <3>2. m = [flag |-> m.flag, byteSeqNum |-> m.byteSeqNum] /\ m.flag \in {"start", "cancel"}
      BY <3>1
    <3>3. m.flag = "start" => m = Start(c) BY <3>2 DEF Start
    <3>4. m.flag # "start" => m = Cancel(c) BY <3>2 DEF Cancel
    <3>5. m = Start(c) => m.flag = "start" BY DEF Start
    <3> QED BY <3>1, <3>3, <3>4, <3>5
  <2>4. /\ StartsDiffer(inbox) => StartsDiffer(t)
        /\ \A b : /\ Starting(t, b) => Starting(inbox, b)
                  /\ m = Start(b) => Starting(inbox, b)
                  /\ StartsDiffer(inbox) /\ m = Start(b) => ~Starting(t, b)
                  /\ StartLast(inbox, b) => \/ StartLast(t, b)
                                            \/ m = Start(b) /\ NoCancel(t, b)
                  /\ NoCancel(inbox, b) => NoCancel(t, b) /\ m # Cancel(b)
    BY <2>1, <1>1, MessageTaken
  <2> HIDE DEF m, t, c
  <2>5. PICK after : /\ Tp!Expire(after)
                     /\ \/ m = Start(c) /\ after = counting \cup {c}
                        \/ m = Cancel(c) /\ after = counting \ {c}
    BY <2>1, <2>3 DEF Tp!Start, Tp!Cancel
  <2>6. OnePlace(after, t, notices)
    <3>1. CASE m = Start(c) /\ after = counting \cup {c}
      <4>1. Starting(inbox, c) /\ ~Starting(t, c) BY <3>1, <2>4 DEF OnePlace
      <4> QED BY <4>1, <3>1, <2>4 DEF OnePlace
    <3>2. CASE m = Cancel(c) /\ after = counting \ {c}
      BY <3>2, <2>4 DEF OnePlace
    <3> QED BY <2>5, <3>1, <3>2
  <2>7. ASSUME NEW b
        PROVE  /\ Placed(after, t, notices, b) => Placed(counting, inbox, notices, b)
               /\ Safe(counting, inbox, notices, b) => Safe(after, t, notices, b)
    <3>1. CASE m = Start(c) /\ after = counting \cup {c}
      <4>1. Starting(inbox, c) BY <3>1, <2>4
      <4>2. Placed(after, t, notices, b) => Placed(counting, inbox, notices, b)
        BY <4>1, <3>1, <2>4 DEF Placed
      <4>3. m = Start(b) => b \in after BY <3>1, MessagesDiffer
      <4> QED BY <4>2, <4>3, <3>1, <2>4 DEF Safe
    <3>2. CASE m = Cancel(c) /\ after = counting \ {c}
      <4>1. m # Start(b) BY <3>2, MessagesDiffer
      <4>2. NoCancel(inbox, b) => b # c BY <3>2, <2>4
      <4>3. Placed(after, t, notices, b) => Placed(counting, inbox, notices, b)
        BY <3>2, <2>4 DEF Placed
      <4> QED BY <4>1, <4>2, <4>3, <3>2, <2>4 DEF Safe
    <3> QED BY <2>5, <3>1, <3>2
  <2>8. after \subseteq 1..hi BY <2>5, <2>3, <1>1
  <2>9. /\ OnePlace(counting', t, notices')
        /\ \A b : /\ Placed(counting', t, notices', b) => Placed(after, t, notices, b)
                  /\ Safe(after, t, notices, b) => Safe(counting', t, notices', b)
    BY <1>1, <2>5, <2>6, <2>8, ExpireKeeps
  <2> QED BY <2>1, <2>7, <2>9
<1> QED BY <1>2, <1>3

(* An ACK is read: its packet is taken out of the list, its timer          *)
(* cancelled.                                                              *)
LEMMA AckTimed ==
  ASSUME LoopTypeInv, OnePlace(counting, inbox, notices), ListTimed(nodes, counting, inbox, notices),
         NEW num \in 1..packseq-1, RecvACK(num), inbox' = Append(inbox, Cancel(num)),
         UNCHANGED <<counting, notices>>
  PROVE  /\ OnePlace(counting', inbox', notices')
         /\ ListTimed(nodes', counting', inbox', notices')
<1> DEFINE ms == Marked(nodes, Numbered(num), Acked)
           st == <<Cancel(num)>>
           in == inbox \o st
<1>1. LoopTypeOK /\ IInv BY DEF LoopTypeInv, LoopInv
<1>2. /\ nodes \in Seq(Node) /\ Tiles(nodes, acked, packseq) /\ packseq \in Nat \ {0}
      /\ Len(nodes) < packseq /\ acked \in Nat /\ dstart = Wrap(acked)
      /\ dend \in 0..BufSize /\ isEmpty \in BOOLEAN
  BY <1>1, IInvFacts
<1>3. inbox \in Seq(Messages(packseq)) BY <1>1 DEF LoopTypeOK, Messages
<1>4. Cancel(num) \in Messages(packseq) BY DEF Cancel, Messages
<1>5. st \in Seq(Messages(packseq)) /\ Len(st) = 1 /\ st[1] = Cancel(num) /\ inbox' = in
  <2> DEFINE M == Messages(packseq)
             m == Cancel(num)
  <2>1. m \in M /\ inbox \in Seq(M) BY <1>3, <1>4
  <2> HIDE DEF M, m
  <2>2. <<m>> \in Seq(M) /\ Len(<<m>>) = 1 /\ <<m>>[1] = m /\ Append(inbox, m) = inbox \o <<m>> BY <2>1
  <2> QED BY <2>2 DEF m, M
<1>6. \A b : ~Starting(st, b) /\ (b # num => NoCancel(st, b))
  BY <1>5, MessagesDiffer DEF Starting, NoCancel
<1>7. StartsDiffer(st) BY <1>6 DEF StartsDiffer, Starting
<1> HIDE DEF st
<1>8. /\ \A b : /\ Starting(in, b) => Starting(inbox, b)
                /\ b # num /\ NoCancel(inbox, b) => NoCancel(in, b)
                /\ b # num /\ StartLast(inbox, b) => StartLast(in, b)
      /\ StartsDiffer(in)
  <2>1. StartsDiffer(inbox) BY DEF OnePlace
  <2> QED BY <1>3, <1>5, <1>6, <1>7, <2>1, MessagesSent
<1> HIDE DEF in
<1>9. OnePlace(counting, in, notices) BY <1>8 DEF OnePlace
<1>10. /\ ms \in Seq(Node) /\ Len(ms) = Len(nodes)
       /\ \A i \in 1..Len(nodes) :
            /\ ms[i].size = nodes[i].size /\ ms[i].data = nodes[i].data
            /\ ms[i].seqnum = nodes[i].seqnum
            /\ ms[i].ack = IF i \in Numbered(num) THEN Acked ELSE nodes[i].ack
  BY <1>2, MarkedFacts
<1> HIDE DEF ms
<1>11. ASSUME NEW i \in 1..Len(nodes), i \notin Numbered(num)
       PROVE  /\ nodes[i].ack = Waiting => Safe(counting, in, notices, nodes[i].seqnum)
              /\ nodes[i].ack = Unsent  => ~Placed(counting, in, notices, nodes[i].seqnum)
  <2>1. nodes[i].seqnum # num BY <1>11 DEF Numbered
  <2>2. /\ nodes[i].ack = Waiting => Safe(counting, inbox, notices, nodes[i].seqnum)
        /\ nodes[i].ack = Unsent  => ~Placed(counting, inbox, notices, nodes[i].seqnum)
    BY DEF ListTimed
  <2> QED BY <1>8, <2>1, <2>2 DEF Safe, Placed
<1>12. ListTimed(ms, counting, in, notices)
  BY <1>10, <1>11 DEF ListTimed, Acked, Waiting, Unsent
<1>13. ListTimed(nodes', counting, in, notices)
  <2>1. CASE Numbered(num) # {}
    <3>1. CheckWindow(ms, dend, isEmpty) BY <2>1 DEF RecvACK, ms
    <3>2. Tiles(ms, acked, packseq) /\ Len(ms) < packseq BY <1>2, <1>10, SameTiles
    <3>3. \A b : Placed(counting, in, notices, b) => b \in 1..packseq-1
      <4>1. \A b : Placed(counting, in, notices, b) => Placed(counting, inbox, notices, b)
        BY <1>8 DEF Placed
      <4> QED BY <4>1, <1>1, PlacedWasNumbered
    <3> QED BY <1>2, <1>10, <1>12, <3>1, <3>2, <3>3, WindowTimed
  <2>2. CASE Numbered(num) = {}
    <3>1. nodes' = nodes BY <2>2 DEF RecvACK
    <3> QED BY <2>2, <3>1, <1>11 DEF ListTimed
  <2> QED BY <2>1, <2>2
<1> QED BY <1>5, <1>9, <1>13

(* A notice is read: its packet is to be sent again, its timer is gone. *)
LEMMA NoticeTimed ==
  ASSUME LoopTypeInv, OnePlace(counting, inbox, notices), ListTimed(nodes, counting, inbox, notices),
         ReadNotice
  PROVE  /\ OnePlace(counting', inbox', notices')
         /\ ListTimed(nodes', counting', inbox', notices')
<1> DEFINE num == Head(notices)
           I   == Numbered(num)
           t   == Tail(notices)
<1>1. /\ nodes \in Seq(Node) /\ notices \in Seq(1..packseq-1)
  BY IInvFacts DEF LoopTypeInv, LoopInv, LoopTypeOK
<1>2. /\ notices # <<>> /\ notices' = t /\ counting' = counting /\ inbox' = inbox
      /\ nodes' = Marked(nodes, I, Unsent)
  BY DEF ReadNotice, Tp!Read, TimerExpire
<1>3. /\ Len(nodes') = Len(nodes)
      /\ \A i \in 1..Len(nodes) : /\ nodes'[i].seqnum = nodes[i].seqnum
                                  /\ nodes'[i].ack = IF i \in I THEN Unsent ELSE nodes[i].ack
  BY <1>1, <1>2, MarkedFacts
<1>4. /\ Noticed(notices, num) /\ ~Noticed(t, num) /\ NoticesDiffer(t)
      /\ \A b : b # num => (Noticed(t, b) <=> Noticed(notices, b))
  <2>1. NoticesDiffer(notices) BY DEF OnePlace
  <2> QED BY <1>1, <1>2, <2>1, NoticeTaken
<1>5. \A i \in 1..Len(nodes) : i \in I <=> nodes[i].seqnum = num BY DEF Numbered
<1> HIDE DEF num, I, t
<1>6. \A b : Noticed(t, b) => Noticed(notices, b) BY <1>4
<1>7. OnePlace(counting, inbox, t) BY <1>4, <1>6 DEF OnePlace
<1>8. ~Placed(counting, inbox, t, num) BY <1>4 DEF OnePlace, Placed
<1>9. ASSUME NEW b, b # num
      PROVE  /\ Placed(counting, inbox, t, b) => Placed(counting, inbox, notices, b)
             /\ Safe(counting, inbox, notices, b) => Safe(counting, inbox, t, b)
  BY <1>4, <1>9 DEF Placed, Safe
<1>10. ASSUME NEW i \in 1..Len(nodes)
       PROVE  /\ nodes'[i].ack = Waiting => Safe(counting, inbox, t, nodes'[i].seqnum)
              /\ nodes'[i].ack = Unsent  => ~Placed(counting, inbox, t, nodes'[i].seqnum)
  <2>1. CASE i \in I
    <3>1. nodes'[i].seqnum = num /\ nodes'[i].ack = Unsent BY <2>1, <1>3, <1>5
    <3> QED BY <3>1, <1>8 DEF Unsent, Waiting
  <2>2. CASE i \notin I
    <3>1. /\ nodes'[i].seqnum = nodes[i].seqnum /\ nodes'[i].ack = nodes[i].ack
          /\ nodes[i].seqnum # num
      BY <2>2, <1>3, <1>5
    <3>2. /\ nodes[i].ack = Waiting => Safe(counting, inbox, notices, nodes[i].seqnum)
          /\ nodes[i].ack = Unsent  => ~Placed(counting, inbox, notices, nodes[i].seqnum)
      BY DEF ListTimed
    <3> QED BY <3>1, <3>2, <1>9
  <2> QED BY <2>1, <2>2
<1> QED BY <1>2, <1>3, <1>7, <1>10 DEF ListTimed

(* Marking nodes as sent changes their state only. *)
LEMMA SentNodes ==
  ASSUME NEW ns \in Seq(Node), NEW I, NEW ms, ms = Marked(ns, I, Waiting)
  PROVE  /\ Len(ms) = Len(ns)
         /\ \A i \in 1..Len(ns) : /\ ms[i].seqnum = ns[i].seqnum
                                 /\ ms[i].ack = IF i \in I THEN Waiting ELSE ns[i].ack
<1>1. Waiting \in {Unsent, Waiting, Acked} OBVIOUS
<1>2. /\ Len(Marked(ns, I, Waiting)) = Len(ns)
      /\ \A i \in 1..Len(ns) :
           /\ Marked(ns, I, Waiting)[i].seqnum = ns[i].seqnum
           /\ Marked(ns, I, Waiting)[i].ack = IF i \in I THEN Waiting ELSE ns[i].ack
  BY <1>1, MarkedFacts
<1> QED BY <1>2

(* What is Unsent is sent, and a timer started for each packet. *)
LEMMA TransmitTimed ==
  ASSUME LoopTypeInv, OnePlace(counting, inbox, notices), ListTimed(nodes, counting, inbox, notices),
         SendWindow, inbox' = inbox \o Starts, UNCHANGED <<counting, notices>>
  PROVE  /\ OnePlace(counting', inbox', notices')
         /\ ListTimed(nodes', counting', inbox', notices')
<1> DEFINE in == inbox \o Starts
           M  == Messages(packseq)
<1>1. nodes \in Seq(Node) /\ inbox \in Seq(M) /\ IInv
  BY IInvFacts DEF LoopTypeInv, LoopInv, LoopTypeOK, Messages
<1>2. /\ Starts \in Seq(M)
      /\ \A n \in 1..Len(Starts) : \E i \in Outgoing : Starts[n] = Start(nodes[i].seqnum)
      /\ \A i \in Outgoing : \E n \in 1..Len(Starts) : Starts[n] = Start(nodes[i].seqnum)
      /\ \A m, n \in 1..Len(Starts) : Starts[m] = Starts[n] => m = n
  BY <1>1, StartsFacts
<1>3. nodes' = Marked(nodes, Outgoing, Waiting) BY DEF SendWindow
<1>4. /\ Len(nodes') = Len(nodes)
      /\ \A i \in 1..Len(nodes) : /\ nodes'[i].seqnum = nodes[i].seqnum
                                  /\ nodes'[i].ack = IF i \in Outgoing THEN Waiting ELSE nodes[i].ack
  BY <1>1, <1>3, SentNodes, SMTT(30)
<1> HIDE DEF M
<1>5. \A b : NoCancel(Starts, b) BY <1>2, MessagesDiffer DEF NoCancel
<1>6. StartsDiffer(Starts) BY <1>2 DEF StartsDiffer
<1>7. ASSUME NEW b, Starting(Starts, b) PROVE ~Placed(counting, inbox, notices, b)
  <2>1. PICK n \in 1..Len(Starts) : Starts[n] = Start(b) BY <1>7 DEF Starting
  <2>2. PICK i \in Outgoing : Starts[n] = Start(nodes[i].seqnum) BY <1>2
  <2>3. nodes[i].seqnum = b BY <2>1, <2>2, MessagesDiffer
  <2>4. i \in 1..Len(nodes) /\ nodes[i].ack = Unsent BY DEF Outgoing
  <2> QED BY <2>3, <2>4 DEF ListTimed
<1>8. ASSUME NEW i \in Outgoing PROVE StartLast(Starts, nodes[i].seqnum)
  <2>1. PICK n \in 1..Len(Starts) : Starts[n] = Start(nodes[i].seqnum) BY <1>2
  <2>2. \A j \in n+1..Len(Starts) : j \in 1..Len(Starts)
    <3>1. Len(Starts) \in Nat BY <1>2
    <3> QED BY <3>1
  <2>3. \A j \in n+1..Len(Starts) : Starts[j] # Cancel(nodes[i].seqnum) BY <2>2, <1>5 DEF NoCancel
  <2> QED BY <2>1, <2>3 DEF StartLast
<1>9. /\ \A b : /\ Starting(in, b) => Starting(inbox, b) \/ Starting(Starts, b)
                /\ NoCancel(inbox, b) => NoCancel(in, b)
                /\ StartLast(inbox, b) => StartLast(in, b)
                /\ StartLast(Starts, b) => StartLast(in, b)
      /\ StartsDiffer(in)
  <2>1. StartsDiffer(inbox) BY DEF OnePlace
  <2>2. \A b : Starting(Starts, b) => ~Starting(inbox, b) BY <1>7 DEF Placed
  <2> QED BY <1>1, <1>2, <1>5, <1>6, <2>1, <2>2, MessagesSent
<1> HIDE DEF in
<1>10. OnePlace(counting, in, notices) BY <1>7, <1>9 DEF OnePlace, Placed
<1>11. ASSUME NEW i \in 1..Len(nodes)
       PROVE  \/ nodes'[i].ack = Waiting /\ Safe(counting, in, notices, nodes'[i].seqnum)
              \/ nodes'[i].ack \notin {Waiting, Unsent}
  <2>1. nodes'[i].seqnum = nodes[i].seqnum /\ nodes'[i].ack = (IF i \in Outgoing THEN Waiting ELSE nodes[i].ack)
    BY <1>4
  <2>2. CASE i \in Outgoing BY <2>1, <2>2, <1>8, <1>9 DEF Safe
  <2>3. CASE i \notin Outgoing
    <3>1. nodes[i].ack # Unsent BY <2>3 DEF Outgoing
    <3>2. nodes[i].ack = Waiting => Safe(counting, inbox, notices, nodes[i].seqnum) BY DEF ListTimed
    <3>3. nodes[i].ack = Waiting => Safe(counting, in, notices, nodes[i].seqnum) BY <3>2, <1>9 DEF Safe
    <3> QED BY <2>1, <2>3, <3>1, <3>3
  <2> QED BY <2>2, <2>3
<1>12. ListTimed(nodes', counting, in, notices) BY <1>4, <1>11 DEF ListTimed, Waiting, Unsent
<1>13. inbox' = in BY DEF in
<1> QED BY <1>10, <1>12, <1>13

(* A chunk is stored, or does not fit: checkWindow only. *)
LEMMA ChunkTimed ==
  ASSUME LoopTypeInv, OnePlace(counting, inbox, notices), ListTimed(nodes, counting, inbox, notices),
         NEW size \in Chunks, AddData(size) \/ AddDataFull(size), UNCHANGED <<counting, inbox, notices>>
  PROVE  /\ OnePlace(counting', inbox', notices')
         /\ ListTimed(nodes', counting', inbox', notices')
<1>1. IInv /\ LoopTypeOK BY DEF LoopTypeInv, LoopInv
<1>2. /\ nodes \in Seq(Node) /\ Tiles(nodes, acked, packseq) /\ packseq \in Nat \ {0}
      /\ Len(nodes) < packseq /\ acked \in Nat /\ dstart = Wrap(acked)
      /\ dend \in 0..BufSize /\ isEmpty \in BOOLEAN
  BY <1>1, IInvFacts
<1>3. \A b : Placed(counting, inbox, notices, b) => b \in 1..packseq-1 BY <1>1, PlacedWasNumbered
<1>4. CASE AddData(size)
  <2>1. CheckWindow(nodes, dend', FALSE) BY <1>4 DEF AddData
  <2>2. dend' \in 0..BufSize
    <3>1. [Next]_vars BY <1>4 DEF Next
    <3>2. IInv' BY <1>1, <3>1, NextIInv
    <3> QED BY <3>2 DEF IInv, TypeOK
  <2>3. ListTimed(nodes', counting, inbox, notices) BY <1>2, <1>3, <2>1, <2>2, WindowTimed
  <2> QED BY <2>3
<1>5. CASE AddDataFull(size)
  <2>1. CheckWindow(nodes, dend, StillEmpty(dstart, dend, isEmpty)) BY <1>5 DEF AddDataFull
  <2>2. StillEmpty(dstart, dend, isEmpty) \in BOOLEAN BY DEF StillEmpty
  <2>3. ListTimed(nodes', counting, inbox, notices) BY <1>2, <1>3, <2>1, <2>2, WindowTimed
  <2> QED BY <2>3
<1> QED BY <1>4, <1>5

(* Nothing starts with a timer. *)
LEMMA InitTimed == LoopInit => TimedInv
<1> SUFFICES ASSUME LoopInit PROVE TimedInv OBVIOUS
<1>1. LoopTypeInv BY InitLoopType
<1>2. inbox = <<>> /\ notices = <<>> /\ counting = {} /\ nodes = <<>> BY DEF LoopInit, Init
<1>3. Len(inbox) = 0 /\ Len(notices) = 0 /\ Len(nodes) = 0 BY <1>2
<1>4. \A i \in 1..0 : FALSE OBVIOUS
<1>5. OnePlace(counting, inbox, notices)
  BY <1>2, <1>3, <1>4 DEF OnePlace, NoticesDiffer, StartsDiffer, Starting
<1>6. ListTimed(nodes, counting, inbox, notices) BY <1>3, <1>4 DEF ListTimed
<1> QED BY <1>1, <1>5, <1>6 DEF TimedInv

(* No step of the daemon, of tp or of the network leaves a packet in       *)
(* flight without its timer.                                               *)
LEMMA NextTimed == TimedInv /\ [LoopNext]_loopVars => TimedInv'
<1> SUFFICES ASSUME TimedInv, [LoopNext]_loopVars, fault' = "none"
             PROVE  /\ OnePlace(counting', inbox', notices')
                    /\ ListTimed(nodes', counting', inbox', notices')
  <2>1. TimedInv /\ [LoopNext]_loopVars => LoopTypeInv' BY NextLoopType DEF TimedInv
  <2>2. OnePlace(counting, inbox, notices)' <=> OnePlace(counting', inbox', notices')
    BY DEF OnePlace, NoticesDiffer, StartsDiffer, Starting, Noticed, Start
  <2>3. ListTimed(nodes, counting, inbox, notices)' <=> ListTimed(nodes', counting', inbox', notices')
    BY DEF ListTimed, Safe, Placed, StartLast, NoCancel, Starting, Noticed, Start, Cancel
  <2> QED BY <2>1, <2>2, <2>3 DEF TimedInv
<1>1. LoopTypeInv /\ LoopTypeOK /\ LoopInv /\ IInv /\ ChunksAreChunks
  BY DEF TimedInv, LoopTypeInv, LoopInv
<1>2. packseq \in Nat \ {0} BY <1>1, IInvFacts
<1>3. ASSUME fault = "none"
      PROVE  OnePlace(counting, inbox, notices) /\ ListTimed(nodes, counting, inbox, notices)
  BY <1>3 DEF TimedInv
<1>4. ASSUME UNCHANGED <<fault, nodes, counting, inbox, notices>>
      PROVE  /\ OnePlace(counting', inbox', notices')
             /\ ListTimed(nodes', counting', inbox', notices')
  BY <1>3, <1>4
<1>5. CASE RetryChunk
  <2>1. bread \in Chunks BY <1>1, <1>5 DEF RetryChunk, ChunksAreChunks
  <2>2. fault = "none" /\ (AddData(bread) \/ AddDataFull(bread)) /\ UNCHANGED <<counting, inbox, notices>>
    BY <1>5 DEF RetryChunk, AddData, AddDataFull, Running, tpVars
  <2> QED BY <1>1, <1>3, <2>1, <2>2, ChunkTimed
<1>6. CASE ReadChunk
  <2> DEFINE size == Head(hostSock).size
  <2>1. size \in Chunks
    <3>1. hostSock \in Seq(Chunk) /\ hostSock # <<>> BY <1>1, <1>6 DEF ReadChunk, ChunksAreChunks
    <3>2. Head(hostSock) \in Chunk BY <3>1
    <3> QED BY <3>2 DEF Chunk
  <2>2. fault = "none" /\ (AddData(size) \/ AddDataFull(size)) /\ UNCHANGED <<counting, inbox, notices>>
    BY <1>6 DEF ReadChunk, AddData, AddDataFull, Running, tpVars
  <2> HIDE DEF size
  <2> QED BY <1>1, <1>3, <2>1, <2>2, ChunkTimed
<1>7. CASE ReadACK
  <2> DEFINE num == Head(acks)
  <2>1. acks # <<>> /\ acks \in Seq(1..packseq-1) BY <1>1, <1>7 DEF ReadACK, LoopTypeOK
  <2>2. num \in 1..packseq-1
    <3> DEFINE R == 1..packseq-1
    <3>1. acks \in Seq(R) BY <2>1
    <3> HIDE DEF R
    <3>2. num \in R BY <2>1, <3>1
    <3> QED BY <3>2 DEF R
  <2>3. RecvACK(num) /\ inbox' = Append(inbox, Cancel(num)) /\ UNCHANGED <<counting, notices>>
    BY <1>7 DEF ReadACK, RecvACKCrash
  <2>4. fault = "none" BY <2>3 DEF RecvACK, Running
  <2> HIDE DEF num
  <2> QED BY <1>1, <1>3, <2>2, <2>3, <2>4, AckTimed
<1>8. CASE ReadNotice
  <2>1. fault = "none" BY <1>8 DEF ReadNotice, TimerExpire, Running
  <2> QED BY <1>1, <1>3, <1>8, <2>1, NoticeTimed
<1>9. CASE Transmit
  <2>1. CASE SendWindow /\ inbox' = inbox \o Starts
    <3>1. fault = "none" /\ UNCHANGED <<counting, notices>> BY <1>9, <2>1 DEF Transmit, SendWindow, Running
    <3> QED BY <1>1, <1>3, <2>1, <3>1, TransmitTimed
  <2>2. CASE UNCHANGED <<vars, inbox>>
    <3>1. UNCHANGED <<fault, nodes, counting, inbox, notices>> BY <1>9, <2>2 DEF Transmit, vars, bufVars
    <3> QED BY <3>1, <1>4
  <2> QED BY <1>9, <2>1, <2>2 DEF Transmit
<1>10. CASE TpMessage \/ \E b \in counting : TpExpire(b)
  <2>1. fault' = fault /\ nodes' = nodes BY <1>10 DEF TpMessage, TpExpire, vars, bufVars
  <2>2. OnePlace(counting, inbox, notices) /\ ListTimed(nodes, counting, inbox, notices) BY <1>3, <2>1
  <2>3. /\ OnePlace(counting', inbox', notices')
        /\ \A b : /\ Placed(counting', inbox', notices', b) => Placed(counting, inbox, notices, b)
                  /\ Safe(counting, inbox, notices, b) => Safe(counting', inbox', notices', b)
    BY <1>1, <1>2, <1>10, <2>2, TpKeeps
  <2>4. ListTimed(nodes, counting', inbox', notices') BY <2>2, <2>3 DEF ListTimed
  <2> QED BY <2>1, <2>3, <2>4
<1>11. CASE Select
  BY <1>4, <1>11 DEF Select, vars, bufVars, tpVars
<1>12. ASSUME NEW size \in Chunks, SendChunk(size)
       PROVE  /\ OnePlace(counting', inbox', notices')
              /\ ListTimed(nodes', counting', inbox', notices')
  BY <1>4, <1>12 DEF SendChunk, vars, bufVars, tpVars
<1>13. CASE Network
  BY <1>4, <1>13 DEF Network, AckArrives, Lose, vars, bufVars, tpVars
<1>14. CASE UNCHANGED loopVars
  BY <1>4, <1>14 DEF loopVars, vars, bufVars, tpVars
<1> QED
  BY <1>5, <1>6, <1>7, <1>8, <1>9, <1>10, <1>11, <1>12, <1>13, <1>14 DEF LoopNext, Turn

--------------------------------------------------------------------------------

(* A set with at most one member has 0 or 1 of them. *)
LEMMA AtMostOneMember ==
  ASSUME NEW S, \A x, y \in S : x = y
  PROVE  Cardinality(S) = IF S = {} THEN 0 ELSE 1
<1>1. CASE S = {} BY <1>1, FS_EmptySet
<1>2. CASE S # {}
  <2>1. PICK x : x \in S BY <1>2
  <2>2. S = {x} BY <2>1
  <2> QED BY <1>2, <2>2, FS_Singleton
<1> QED BY <1>1, <1>2

(* The places counted, as InFlightIsTimed does. *)
LEMMA PlacesCounted ==
  ASSUME OnePlace(counting, inbox, notices), NEW b
  PROVE  /\ Places(b) <= 1
         /\ Places(b) = 1 <=> Placed(counting, inbox, notices, b)
         /\ Places(b) = 0 <=> ~Placed(counting, inbox, notices, b)
<1> DEFINE starts  == {i \in 1..Len(inbox) : inbox[i] = Start(b)}
           expired == {i \in 1..Len(notices) : notices[i] = b}
<1>1. Cardinality(starts) = IF Starting(inbox, b) THEN 1 ELSE 0
  <2>1. \A x, y \in starts : x = y BY DEF OnePlace, StartsDiffer
  <2>2. starts = {} <=> ~Starting(inbox, b) BY DEF Starting
  <2> HIDE DEF starts
  <2> QED BY <2>1, <2>2, AtMostOneMember
<1>2. Cardinality(expired) = IF Noticed(notices, b) THEN 1 ELSE 0
  <2>1. \A x, y \in expired : x = y BY DEF OnePlace, NoticesDiffer
  <2>2. expired = {} <=> ~Noticed(notices, b) BY DEF Noticed
  <2> HIDE DEF expired
  <2> QED BY <2>1, <2>2, AtMostOneMember
<1>3. /\ Starting(inbox, b) => b \notin counting /\ ~Noticed(notices, b)
      /\ b \in counting => ~Noticed(notices, b)
  BY DEF OnePlace
<1>4. Places(b) = (IF b \in counting THEN 1 ELSE 0) + Cardinality(starts) + Cardinality(expired)
  BY DEF Places
<1> HIDE DEF starts, expired
<1>5. CASE b \in counting BY <1>1, <1>2, <1>3, <1>4, <1>5 DEF Placed
<1>6. CASE b \notin counting
  <2>1. CASE Starting(inbox, b) BY <1>1, <1>2, <1>3, <1>4, <1>6, <2>1 DEF Placed
  <2>2. CASE ~Starting(inbox, b) BY <1>1, <1>2, <1>4, <1>6, <2>2 DEF Placed
  <2> QED BY <2>1, <2>2
<1> QED BY <1>5, <1>6

(* A safe timer is in its place, and no cancellation is coming for it. *)
LEMMA SafeMeansTimed ==
  ASSUME inbox \in Seq(Messages(packseq)), NEW b, Safe(counting, inbox, notices, b)
  PROVE  Placed(counting, inbox, notices, b) /\ ~CancelComing(b)
<1>1. Len(inbox) \in Nat OBVIOUS
<1>2. CASE StartLast(inbox, b)
  <2>1. PICK i \in 1..Len(inbox) : inbox[i] = Start(b) /\ \A j \in i+1..Len(inbox) : inbox[j] # Cancel(b)
    BY <1>2 DEF StartLast
  <2>2. Starting(inbox, b) BY <2>1 DEF Starting
  <2>3. ASSUME NEW k \in 1..Len(inbox), inbox[k] = Cancel(b)
        PROVE  \E j \in k..Len(inbox) : inbox[j] = Start(b)
    <3>1. ~(k \in i+1..Len(inbox)) BY <2>1, <2>3
    <3>2. i \in k..Len(inbox) BY <3>1, <1>1
    <3> QED BY <2>1, <3>2
  <2> QED BY <2>2, <2>3 DEF Placed, CancelComing
<1>3. CASE (b \in counting \/ Noticed(notices, b)) /\ NoCancel(inbox, b)
  BY <1>3 DEF Placed, CancelComing, NoCancel
<1> QED BY <1>2, <1>3 DEF Safe

(* However ACKs, cancellations, expiries and notices cross, no packet is   *)
(* left in flight without a timer that will send it again, and none ever   *)
(* has two.                                                                *)
THEOREM FlightIsTimed == LoopSpec => []InFlightIsTimed
<1>1. TimedInv => InFlightIsTimed
  <2> SUFFICES ASSUME TimedInv, fault = "none", NEW i \in 1..Len(nodes)
               PROVE  LET b == nodes[i].seqnum
                      IN  CASE nodes[i].ack = Waiting -> Places(b) = 1 /\ ~CancelComing(b)
                            [] nodes[i].ack = Unsent  -> Places(b) = 0
                            [] OTHER                  -> Places(b) <= 1
    BY DEF InFlightIsTimed
  <2> DEFINE b == nodes[i].seqnum
  <2>1. OnePlace(counting, inbox, notices) /\ ListTimed(nodes, counting, inbox, notices)
    BY DEF TimedInv
  <2>2. inbox \in Seq(Messages(packseq)) BY DEF TimedInv, LoopTypeInv, LoopTypeOK, Messages
  <2>3. /\ Places(b) <= 1
        /\ Places(b) = 1 <=> Placed(counting, inbox, notices, b)
        /\ Places(b) = 0 <=> ~Placed(counting, inbox, notices, b)
    BY <2>1, PlacesCounted
  <2>4. /\ nodes[i].ack = Waiting => Safe(counting, inbox, notices, b)
        /\ nodes[i].ack = Unsent  => ~Placed(counting, inbox, notices, b)
    BY <2>1 DEF ListTimed
  <2>5. nodes[i].ack = Waiting => Placed(counting, inbox, notices, b) /\ ~CancelComing(b)
    BY <2>2, <2>4, SafeMeansTimed
  <2>6. nodes[i].ack = Waiting => nodes[i].ack # Unsent BY DEF Waiting, Unsent
  <2> HIDE DEF b
  <2>7. CASE nodes[i].ack = Waiting BY <2>3, <2>5, <2>6, <2>7 DEF b
  <2>8. CASE nodes[i].ack = Unsent BY <2>3, <2>4, <2>6, <2>8 DEF b
  <2>9. CASE nodes[i].ack # Waiting /\ nodes[i].ack # Unsent BY <2>3, <2>9 DEF b
  <2> QED BY <2>7, <2>8, <2>9
<1> QED BY <1>1, InitTimed, NextTimed, PTL DEF LoopSpec

================================================================================
