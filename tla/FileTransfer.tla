------------------------------ MODULE FileTransfer -----------------------------
(***************************************************************************)
(* The whole transfer: ftpc, the client daemon with its send buffer        *)
(* (CBuffer), the network, the server daemon with its reassembly buffer    *)
(* (SBuffer), ftps.  The payload of a packet is what CBuffer read from its *)
(* ring, and SBuffer stores that payload.                                  *)
(*                                                                         *)
(* The file is the stream from HeaderSize on; in front of it ftpc puts a   *)
(* header with size and name.  Tcpdc shows that the daemon's loop makes    *)
(* the calls of CBuffer only; here they come in any order.                 *)
(***************************************************************************)
EXTENDS Integers, Sequences, FiniteSets, SequencesExt

CONSTANTS
  ClientSize, WinSize, Mss, Slots,   \* the client daemon (see CBuffer)
  Packets,    \* the server daemon's buffer (see SBuffer)
  HeaderSize, \* bytes in front of the file        (24)
  Request,    \* bytes ftps asks for at a time     (25)
  Files,      \* sizes of the file
  MaxSeq      \* BOUND: numbers of packets that may arrive

MaxInt == 1000000            \* 2147483647 in the code (see SBuffer)

ASSUME TransferAssumption ==
  /\ ClientSize \in Nat /\ Mss \in Nat \ {0} /\ Slots \in Nat \ {0}
  /\ WinSize \in Mss..ClientSize-1 /\ WinSize % Mss = 0
  /\ Packets \in Nat /\ WinSize \div Mss < Packets
  /\ HeaderSize \in 1..Mss-1 /\ Request \in Nat \ {0}
  /\ Files \subseteq Nat \ {0} /\ \E m \in Files : \A n \in Files : n <= m
  /\ MaxSeq \in 0..MaxInt-1

VARIABLES
  cirbuffer, cstart, dend, isEmpty, nodes, packseq, packtimes, cfault,
  written, acked, misread, sent                          \* client daemon
VARIABLES
  buffer, sstart, list, sfault,
  answered, readPos, lastRead                   \* server daemon
VARIABLES
  net,        \* the network: packets to the server, ACKs to the client
  fileSize,   \* the size of the file
  eof,        \* ftpc has sent the chunk that ended the file
  request,    \* ftps: bytes of the header still to come
  file,       \* ftps: what it has written to its file
  disturbed,  \* history: an ACK was lost, or a notice of expiry came after it
  spoilt      \* history: a packet nobody wrote was sent, or a packet stored
              \* that ftps has read already

clientVars == <<cirbuffer, cstart, dend, isEmpty, nodes, packseq, packtimes, cfault,
                written, acked, misread, sent>>
serverVars == <<buffer, sstart, list, sfault, answered, readPos, lastRead>>
ftpcVars   == <<fileSize, eof>>
ftpsVars   == <<request, file>>
vars       == <<clientVars, serverVars, net, ftpcVars, ftpsVars, disturbed, spoilt>>

Largest(S) == CHOOSE m \in S : \A n \in S : n <= m

C == INSTANCE CBuffer WITH
       BufSize <- ClientSize, Chunks <- 0..Mss, MaxStream <- HeaderSize + Largest(Files),
       dstart <- cstart, fault <- cfault

(* Copies of packets ftps has read may come. *)
S == INSTANCE SBuffer WITH
       Window <- WinSize \div Mss, Requests <- (1..HeaderSize) \cup {Request}, OldCopies <- TRUE,
       dstart <- sstart, fault <- sfault

StreamSize == HeaderSize + fileSize

Packet(p) == [kind |-> "packet", seq |-> p.seq, payload |-> p.payload]

(* A name with the suffix _ and a word is a mutant: the definition below it *)
(* with one slip.  No specification uses it; it shows which property would *)
(* notice the slip.                                                        *)

(* Mutant: the ACK names the packet that is expected next. *)
ACK_next(num) == [kind |-> "ACK", seq |-> num + 1, payload |-> <<>>]

ACK(num) == [kind |-> "ACK", seq |-> num, payload |-> <<>>]

--------------------------------------------------------------------------------

Init ==
  /\ C!Init /\ S!Init
  /\ net = {}
  /\ fileSize \in Files /\ eof = FALSE
  /\ request = HeaderSize /\ file = <<>>
  /\ disturbed = FALSE /\ spoilt = FALSE

(* Mutant: the header is not counted in the stream. *)
ChunkSize_noHeader == C!Least(Mss, fileSize - written)

(* fread(): the next chunk; the first one begins with the header. *)
ChunkSize == C!Least(Mss, StreamSize - written)

(* What an action leaves alone comes right after its guard: TLC, which       *)
(* evaluates the actions of Fairness for every step, then knows at once    *)
(* that a step is another's.                                               *)

(* sendFile(): one chunk at a time, each stored before the next is read.   *)
(* feof() is true after a read that fell short only: a stream that ends    *)
(* with a full chunk is followed by a chunk of no bytes.                   *)
SendChunk ==
  /\ ~eof
  /\ UNCHANGED <<net, fileSize, ftpsVars, disturbed, spoilt, serverVars>>
  /\ C!AddData(ChunkSize)
  /\ eof' = (ChunkSize < Mss)

ChunkWaits ==
  /\ ~eof
  /\ C!AddDataFull(ChunkSize)
  /\ UNCHANGED <<serverVars, net, ftpcVars, ftpsVars, disturbed, spoilt>>

(* sendWindow().  Whatever is cut from a misread ring is a packet nobody   *)
(* wrote; it is sent like any other.                                       *)
Transmit ==
  /\ UNCHANGED <<ftpsVars, ftpcVars, disturbed, serverVars>>
  /\ C!SendWindow
  /\ net' = net \cup {Packet([seq |-> nodes[i].seqnum, payload |-> C!Payload(nodes[i])]) : i \in C!Outgoing}
  /\ spoilt' = (spoilt \/ misread)

(* A notice of expiry comes.  When it comes after the ACK, the packet is   *)
(* sent once more.                                                         *)
InState(num, ack) == \E i \in 1..Len(nodes) : nodes[i].seqnum = num /\ nodes[i].ack = ack

Expire(num) ==
  /\ C!TimerExpire(num)
  /\ disturbed' = (disturbed \/ InState(num, C!Acked))
  /\ UNCHANGED <<serverVars, net, ftpcVars, ftpsVars, spoilt>>

(* An ACK comes. *)
ReceiveACK(num) ==
  /\ ACK(num) \in net
  /\ net' = net \ {ACK(num)}
  /\ UNCHANGED <<ftpsVars, ftpcVars, disturbed, spoilt, serverVars>>
  /\ C!RecvACK(num) \/ C!RecvACKCrash(num)

(* remoteisset() for an intact full packet: it is acknowledged when        *)
(* addData() returns 1.                                                    *)
StoreFull(p, rest) ==
  /\ Len(p.payload) = Mss
  /\ \/ /\ S!AddDataFits(p.seq, p.payload)
        /\ net' = IF sfault' = "none" THEN rest \cup {ACK(p.seq)} ELSE rest
        /\ spoilt' = (spoilt \/ p.seq < sstart)
     \/ /\ S!AddDataKnown(p.seq)
        /\ net' = rest \cup {ACK(p.seq)}
        /\ UNCHANGED spoilt
     \/ /\ S!AddDataRefused(p.seq)
        /\ net' = rest
        /\ UNCHANGED spoilt

(* Mutant: a short packet is acknowledged although it is not stored. *)
DropShort_acks(p, rest) ==
  /\ Len(p.payload) < Mss
  /\ sfault' = "none"
  /\ net' = rest \cup {ACK(p.seq)}
  /\ UNCHANGED <<buffer, sstart, list, answered, readPos, lastRead, spoilt>>

(* remoteisset() for a shorter packet: no packet of the datagram has been  *)
(* looked at, tempbuf was never set, and the checksum is computed over     *)
(* memory in front of wherever it points.  It does not match, or the       *)
(* access is outside of the process' memory.                               *)
DropShort(p, rest) ==
  /\ Len(p.payload) < Mss
  /\ sfault' \in {"none", "crashed"}
  /\ net' = rest
  /\ UNCHANGED <<buffer, sstart, list, answered, readPos, lastRead, spoilt>>

(* A packet comes, in any order; a copy of it comes after a retransmission, *)
(* also when ftps has read the packet already.                             *)
Receive(num) ==
  \E p \in net :
    /\ p.kind = "packet" /\ p.seq = num
    /\ UNCHANGED <<ftpsVars, ftpcVars, disturbed, clientVars>>
    /\ StoreFull(p, net \ {p}) \/ DropShort(p, net \ {p})

(* A message is lost.  A garbled packet, whose checksum tcpds finds wrong,  *)
(* has no other effect.                                                    *)
Lose ==
  /\ \E m \in net : net' = net \ {m} /\ disturbed' = (disturbed \/ m.kind = "ACK")
  /\ UNCHANGED <<clientVars, serverVars, ftpcVars, ftpsVars, spoilt>>

(* ftps asks for the rest of the header, then for Request bytes at a time, *)
(* also when fewer are missing, and gets what there is.  An empty datagram *)
(* changes nothing: ftps asks again.                                       *)
Asks == request > 0 \/ Len(file) < fileSize

Ask(size) == S!RequestWhole(size) \/ S!RequestPart(size)

Got == IF sfault' = "none" THEN lastRead' ELSE <<>>

ReadHeader ==
  /\ request > 0
  /\ UNCHANGED <<net, ftpcVars, file, disturbed, spoilt, clientVars>>
  /\ Ask(request)
  /\ request' = request - Len(Got)

ReadFile ==
  /\ request = 0 /\ Asks
  /\ UNCHANGED <<net, ftpcVars, request, disturbed, spoilt, clientVars>>
  /\ Ask(Request)
  /\ file' = file \o Got

Failed == cfault # "none" \/ sfault # "none"

(* Nothing is claimed about what happens after a failure: all stops. *)
Next ==
  /\ ~Failed
  /\ \/ SendChunk \/ ChunkWaits \/ Transmit
     \/ \E num \in 1..MaxSeq : Expire(num) \/ ReceiveACK(num) \/ Receive(num)
     \/ Lose
     \/ ReadHeader \/ ReadFile

Spec == Init /\ [][Next]_vars

(* Fairness is assumed as long as nothing has failed and no ACK was lost or *)
(* late: no property promises anything after that.                         *)
Undisturbed == ~Failed /\ ~disturbed

(* When actions can happen then: their ENABLED written out, TLC takes very  *)
(* long to find it.                                                        *)
CanSendChunk    == Undisturbed /\ ~eof /\ C!SpaceLeft(cstart, dend, isEmpty) >= ChunkSize
CanTransmit     == Undisturbed /\ C!Outgoing # {}
CanReadFile     == Undisturbed /\ request = 0 /\ Asks /\ S!Servable
CanReceive(num) == Undisturbed /\ \E p \in net : p.kind = "packet" /\ p.seq = num
CanReceiveACK   == Undisturbed /\ \E m \in net : m.kind = "ACK"

SomeACK == \E num \in 1..MaxSeq : ReceiveACK(num)

(* The processes go on and read what is in their sockets (weak fairness);  *)
(* the packet ftps needs next, when it is sent again and again, arrives    *)
(* (strong fairness of the network).  Of the timers nothing is assumed     *)
(* here: see NoneOvertaken.                                                *)
Fairness ==
  /\ WF_vars(Undisturbed /\ ReadHeader)
  /\ <>[]CanSendChunk => []<><<Undisturbed /\ SendChunk>>_vars
  /\ <>[]CanTransmit => []<><<Undisturbed /\ Transmit>>_vars
  /\ <>[]CanReadFile => []<><<Undisturbed /\ ReadFile>>_vars
  /\ <>[]CanReceiveACK => []<><<Undisturbed /\ SomeACK>>_vars
  /\ []<>CanReceive(sstart) => []<><<Undisturbed /\ Receive(sstart)>>_vars

FairSpec == Spec /\ Fairness

--------------------------------------------------------------------------------

(* What is on its way was sent, or answers a packet the server has; the    *)
(* two ends are of their types.                                            *)
TypeOK ==
  /\ fileSize \in Files /\ eof \in BOOLEAN /\ disturbed \in BOOLEAN /\ spoilt \in BOOLEAN
  /\ ~spoilt =>
       /\ \A m \in net : IF m.kind = "ACK" THEN m.seq \in answered
                           ELSE [seq |-> m.seq, payload |-> m.payload] \in sent
       /\ request \in 0..HeaderSize /\ file \in Seq(Int)

(* ftps' file is ftpc's file, byte by byte, as far as it has come, the     *)
(* header taken off; and it is no longer (ftpc, both daemons, ftps).  It   *)
(* is as long as no packet nobody wrote was sent and none stored that ftps *)
(* had read: what can happen then is in the README.                        *)
FileIsCopied ==
  ~spoilt =>
    /\ Len(file) <= fileSize
    /\ \A i \in 1..Len(file) : file[i] = HeaderSize + i - 1

(* Every byte ftpc has handed over is, until ftps has it, in the ring of   *)
(* the client daemon or in the buffer of the server daemon, at the place   *)
(* where it will be read: the client forgets nothing the server lacks.     *)
(* The same condition.                                                     *)
InRing(q) == q >= acked /\ cirbuffer[C!Wrap(q)] = q

InBuffer(q) ==
  \E i \in 1..Len(list) :
    /\ list[i].filled
    /\ LET j == q - (list[i].lastSeq * Mss - list[i].size)
       IN  j \in 0..list[i].size-1 /\ buffer[(list[i].data + j) % S!BufSize] = q

NoByteForgotten ==
  ~spoilt /\ cfault = "none" => \A q \in 0..written-1 : q < readPos \/ InBuffer(q) \/ InRing(q)

(* The two daemons are a sliding window over the stream: the client        *)
(* releases and ftps gets only what has arrived with all before it, and    *)
(* the server takes nothing from beyond the window.  The same condition.   *)
Sliding == INSTANCE SlidingWindow WITH
             offered   <- Largest({written, acked + C!WindowBytes}),
             accepted  <- answered,
             released  <- acked,
             delivered <- readPos

IsSlidingWindow == Sliding!Spec

Received == request = 0 /\ Len(file) >= fileSize

(* What can stop a transfer: an ACK is lost, or crosses the notice of its  *)
(* packet; a process fails; before the end of the file the ring is         *)
(* misread, or an old copy stored; the server's buffer has no room for the *)
(* packet ftps needs next.                                                 *)
Upset == disturbed \/ Failed \/ ((misread \/ spoilt) /\ ~eof) \/ S!Blocked

(* For the runs: in a state that is both spoilt and Upset, and in all that  *)
(* can follow, no property of this module claims anything, and TLC need    *)
(* not go on.                                                              *)
Undecided == ~(spoilt /\ Upset)

(* The timer of a packet in flight expires at last.  tp does not promise   *)
(* it - it may overtake a timer for ever -, so it is a condition of the    *)
(* properties and no part of Fairness.                                     *)
NoneOvertaken == \A num \in 1..MaxSeq : []<>~InState(num, C!Waiting)

(* A file that fills its last packet arrives, whatever packets are lost    *)
(* and in whatever order they come, unless one of those things happens.    *)
WholePacketsArrive ==
  NoneOvertaken /\ StreamSize % Mss = 0 => <>(Received \/ Upset)

(* Every file arrives.  (The code breaks this one: see the README.) *)
FilesArrive == NoneOvertaken => <>(Received \/ Upset)

================================================================================
