--------------------------------- MODULE Tcpdc ---------------------------------
(***************************************************************************)
(* The client daemon: the loop of tcpdc.c around the send buffer.          *)
(*                                                                         *)
(* CBuffer says what the four calls do; this module says when tcpdc makes  *)
(* them.  One turn looks at its three sockets once (select), then tries    *)
(* the chunk that did not fit last time, reads one chunk of ftpc, one ACK, *)
(* one notice of tp, and transmits what is Unsent - each in a step of its  *)
(* own, so that datagrams may come in between.  The timer process appears  *)
(* as what it promises (TimerSet), the network and the peer as ACKs for    *)
(* packets that were handed over and not lost.                             *)
(***************************************************************************)
EXTENDS CBuffer

CONSTANT
  InboxMax    \* BOUND: messages tp may have left unread when a turn begins

VARIABLES
  pc,         \* the handler the turn has come to
  ready,      \* "read_fd": the sockets that had data when select() looked
  tempStored, \* a chunk that did not fit is kept
  bread,      \* the size of the chunk read last
  temp,       \* the stream index of its first byte: the contents of "temp"
  hostSock,   \* the chunk ftpc has sent, if it was not read yet
  awaiting,   \* ftpc waits for the reply '1' to its chunk
  produced,   \* bytes ftpc has read from its file
  transit,    \* packets in the network whose ACK can still come
  acks,       \* ACKs in tcpdc's socket
  inbox,      \* start and cancel messages in tp's socket
  counting,   \* the packets tp counts for
  notices     \* notices in tcpdc's socket

turnVars == <<pc, ready, tempStored, bread, temp>>
ftpcVars == <<hostSock, awaiting, produced>>
netVars  == <<transit, acks>>
tpVars   == <<inbox, counting, notices>>
loopVars == <<vars, turnVars, ftpcVars, netVars, tpVars>>

Tp == INSTANCE TimerSet WITH Timers <- Nat

Start(b)  == [flag |-> "start", byteSeqNum |-> b]
Cancel(b) == [flag |-> "cancel", byteSeqNum |-> b]

--------------------------------------------------------------------------------

LoopInit ==
  /\ Init
  /\ pc = "select" /\ ready = {}
  /\ tempStored = FALSE /\ bread = 0 /\ temp = 0
  /\ hostSock = <<>> /\ awaiting = FALSE /\ produced = 0
  /\ transit = {} /\ acks = <<>>
  /\ inbox = <<>> /\ counting = {} /\ notices = <<>>

(* A name with the suffix _ and a word is a mutant: the definition below it *)
(* with one slip.  No specification uses it; it shows which property would *)
(* notice the slip.                                                        *)

(* Mutant: the kept chunk is looked at when a new one arrives only. *)
Handles_onChunkOnly(stage, set, stored) ==
  CASE stage = "stored" -> stored /\ "host" \in set
    [] stage = "host"   -> "host" \in set /\ ~stored
    [] stage = "send"   -> TRUE
    [] OTHER            -> stage \in set

(* Whether the turn has anything to do at a stage: the conditions of lines *)
(* 107, 123, 149 and 162.                                                  *)
Handles(stage, set, stored) ==
  CASE stage = "stored" -> stored
    [] stage = "host"   -> "host" \in set /\ ~stored
    [] stage = "send"   -> TRUE
    [] OTHER            -> stage \in set

(* The next of stages with something to do. *)
NextOf(stages, set, stored) ==
  LET ahead == {i \in 1..Len(stages) : Handles(stages[i], set, stored)}
  IN  stages[CHOOSE i \in ahead : \A j \in ahead : i <= j]

(* select(): which sockets have something to read.  It returns after one   *)
(* millisecond at the latest, with or without data.                        *)
Select ==
  /\ Running /\ pc = "select"
  /\ Len(inbox) <= InboxMax
  /\ ready' = (IF hostSock # <<>> THEN {"host"} ELSE {})
              \cup (IF acks # <<>> THEN {"remote"} ELSE {})
              \cup (IF notices # <<>> THEN {"timer"} ELSE {})
  /\ pc' = NextOf(<<"stored", "host", "remote", "timer", "send">>, ready', tempStored)
  /\ UNCHANGED <<vars, tempStored, bread, temp, ftpcVars, netVars, tpVars>>

(* addData() returned 1: reply '1' to ftpc. *)
Reply == tempStored' = FALSE /\ awaiting' = FALSE

(* Mutant: the chunk that does not fit is dropped. *)
Keep_forgotten == tempStored' = FALSE /\ UNCHANGED awaiting

(* addData() returned 0: keep the chunk, ftpc goes on waiting. *)
Keep == tempStored' = TRUE /\ UNCHANGED awaiting

(* The chunk kept from an earlier turn is tried again. *)
RetryChunk ==
  /\ pc = "stored" /\ tempStored
  /\ (AddData(bread) /\ Reply) \/ (AddDataFull(bread) /\ Keep)
  /\ pc' = NextOf(<<"host", "remote", "timer", "send">>, ready, tempStored')
  /\ UNCHANGED <<ready, bread, temp, hostSock, produced, netVars, tpVars>>

(* A chunk of ftpc is read into temp. *)
ReadChunk ==
  /\ pc = "host" /\ hostSock # <<>>
  /\ LET chunk == Head(hostSock)
     IN  /\ bread' = chunk.size /\ temp' = chunk.first
         /\ hostSock' = Tail(hostSock)
         /\ (AddData(chunk.size) /\ Reply) \/ (AddDataFull(chunk.size) /\ Keep)
  /\ pc' = NextOf(<<"remote", "timer", "send">>, ready, tempStored')
  /\ UNCHANGED <<ready, produced, netVars, tpVars>>

(* An ACK: recvACK() with its canceltimer(), unless it crashed before. *)
ReadACK ==
  /\ pc = "remote" /\ acks # <<>>
  /\ LET num == Head(acks)
     IN  \/ /\ RecvACK(num)
            /\ inbox' = Append(inbox, Cancel(num))
         \/ /\ RecvACKCrash(num)
            /\ UNCHANGED inbox
  /\ acks' = Tail(acks)
  /\ pc' = NextOf(<<"timer", "send">>, ready, tempStored)
  /\ UNCHANGED <<ready, tempStored, bread, temp, ftpcVars, transit, counting, notices>>

(* Mutant: the entry of packtimes is not freed. *)
ReadNotice_ackOnly ==
  /\ pc = "timer" /\ notices # <<>>
  /\ Running /\ nodes' = Marked(nodes, Numbered(Head(notices)), Unsent)
  /\ Tp!Read
  /\ pc' = "send"
  /\ UNCHANGED <<cirbuffer, dstart, dend, isEmpty, packseq, packtimes, fault, history,
                 ready, tempStored, bread, temp, ftpcVars, netVars, inbox>>

(* A notice of tp. *)
ReadNotice ==
  /\ pc = "timer" /\ notices # <<>>
  /\ TimerExpire(Head(notices))
  /\ Tp!Read
  /\ pc' = "send"
  /\ UNCHANGED <<ready, tempStored, bread, temp, ftpcVars, netVars, inbox>>

(* Mutant: the number the next packet will get. *)
Starts_nextNumber ==
  [n \in 1..Cardinality(Outgoing) |->
     Start(nodes[CHOOSE i \in Outgoing : SendRank(i) = n].seqnum + 1)]

(* The start messages sendWindow() sends: one for each packet, in order. *)
Starts ==
  [n \in 1..Cardinality(Outgoing) |->
     Start(nodes[CHOOSE i \in Outgoing : SendRank(i) = n].seqnum)]

(* Mutant: the start messages overtake the cancellations. *)
Transmit_startsFirst ==
  /\ pc = "send"
  /\ \/ /\ SendWindow
        /\ transit' = transit \cup {nodes[i].seqnum : i \in Outgoing}
        /\ inbox' = Starts \o inbox
     \/ /\ Running /\ Outgoing = {}
        /\ UNCHANGED <<vars, transit, inbox>>
  /\ pc' = "select"
  /\ UNCHANGED <<ready, tempStored, bread, temp, ftpcVars, acks, counting, notices>>

(* sendWindow() at the end of the turn. *)
Transmit ==
  /\ pc = "send"
  /\ \/ /\ SendWindow
        /\ transit' = transit \cup {nodes[i].seqnum : i \in Outgoing}
        /\ inbox' = inbox \o Starts
     \/ /\ Running /\ Outgoing = {}
        /\ UNCHANGED <<vars, transit, inbox>>
  /\ pc' = "select"
  /\ UNCHANGED <<ready, tempStored, bread, temp, ftpcVars, acks, counting, notices>>

Turn == Select \/ RetryChunk \/ ReadChunk \/ ReadACK \/ ReadNotice \/ Transmit

(* ftpc sends its next chunk: it waits for the reply to the one before. *)
SendChunk(size) ==
  /\ ~awaiting
  /\ produced + size <= MaxStream
  /\ hostSock' = Append(hostSock, [first |-> produced, size |-> size])
  /\ awaiting' = TRUE
  /\ produced' = produced + size
  /\ UNCHANGED <<vars, turnVars, netVars, tpVars>>

(* The peer acknowledges packet num; sent again, it earns another ACK.     *)
(* (BOUND: no two ACKs of one packet wait in the socket at the same time.) *)
AckArrives(num) ==
  /\ num \in transit /\ \A i \in 1..Len(acks) : acks[i] # num
  /\ acks' = Append(acks, num)
  /\ transit' = transit \ {num}
  /\ UNCHANGED <<vars, turnVars, ftpcVars, tpVars>>

(* Packet num or its ACK is lost. *)
Lose(num) ==
  /\ num \in transit
  /\ transit' = transit \ {num}
  /\ UNCHANGED <<vars, turnVars, ftpcVars, acks, tpVars>>

Network == \E num \in transit : AckArrives(num) \/ Lose(num)

(* tp handles its next message; timers may expire in the same turn. *)
TpMessage ==
  /\ inbox # <<>>
  /\ LET m == Head(inbox)
     IN  IF m.flag = "start" THEN Tp!Start(m.byteSeqNum) ELSE Tp!Cancel(m.byteSeqNum)
  /\ inbox' = Tail(inbox)
  /\ UNCHANGED <<vars, turnVars, ftpcVars, netVars>>

(* The timer of packet b expires, others may in the same turn. *)
TpExpire(b) ==
  /\ b \in counting
  /\ Tp!Expire(counting)
  /\ b \notin counting'
  /\ UNCHANGED <<vars, turnVars, ftpcVars, netVars, inbox>>

LoopNext ==
  \/ Turn
  \/ \E size \in Chunks : SendChunk(size)
  \/ Network
  \/ TpMessage \/ \E b \in counting : TpExpire(b)

LoopSpec == LoopInit /\ [][LoopNext]_loopVars

(* ENABLED Turn, written out: TLC takes long to find it. *)
CanTurn == Running /\ (pc = "select" => Len(inbox) <= InboxMax)

(* The loop of tcpdc never stops, and tp handles its messages (weak        *)
(* fairness).  Nothing is assumed of the network, of the peer, or of the   *)
(* order in which tp's timers expire.                                      *)
LoopFairness ==
  /\ <>[]CanTurn => []<><<Turn>>_loopVars
  /\ WF_loopVars(TpMessage)

FairLoopSpec == LoopSpec /\ LoopFairness

--------------------------------------------------------------------------------

Places(b) ==
  (IF b \in counting THEN 1 ELSE 0)
  + Cardinality({i \in 1..Len(inbox) : inbox[i] = Start(b)})
  + Cardinality({i \in 1..Len(notices) : notices[i] = b})

(* A cancel message for b is on its way, and nothing behind it starts b. *)
CancelComing(b) ==
  \E i \in 1..Len(inbox) : inbox[i] = Cancel(b) /\ \A j \in i..Len(inbox) : inbox[j] # Start(b)

LoopTypeOK ==
  /\ pc \in {"select", "stored", "host", "remote", "timer", "send"}
  /\ ready \subseteq {"host", "remote", "timer"}
  /\ tempStored \in BOOLEAN /\ bread \in 0..Mss /\ temp \in 0..MaxStream
  /\ hostSock \in Seq([first : 0..MaxStream, size : 0..Mss])
  /\ awaiting \in BOOLEAN /\ produced \in 0..MaxStream
  /\ transit \subseteq 1..packseq-1 /\ acks \in Seq(1..packseq-1)
  /\ inbox \in Seq([flag : {"start", "cancel"}, byteSeqNum : 1..packseq-1])
  /\ counting \subseteq 1..packseq-1 /\ notices \in Seq(1..packseq-1)

(* A packet in flight has exactly one timer that is going to wake it up:   *)
(* being started, counting, or expired with the notice on its way - and no *)
(* cancellation will take it away.  A packet that is to be sent has none,  *)
(* so starting one never doubles it.  However ACKs, cancellations and      *)
(* notices cross, no packet is left to wait without a timer (sendWindow,   *)
(* recvACK, timerExpire).                                                  *)
InFlightIsTimed ==
  \A i \in 1..Len(nodes) :
    LET b == nodes[i].seqnum
    IN  fault = "none" =>
          CASE nodes[i].ack = Waiting -> Places(b) = 1 /\ ~CancelComing(b)
            [] nodes[i].ack = Unsent  -> Places(b) = 0
            [] OTHER                  -> Places(b) <= 1

(* Every chunk of ftpc is stored once and in order: what ftpc has produced *)
(* is what is stored plus the one chunk that is in its socket or kept, the *)
(* bytes addData() will copy are the next ones of the stream, and ftpc     *)
(* waits exactly while there is such a chunk.                              *)
ChunkStoredOnce ==
  /\ awaiting = (hostSock # <<>> \/ tempStored)
  /\ Len(hostSock) + (IF tempStored THEN 1 ELSE 0) <= 1
  /\ hostSock # <<>> =>
       Head(hostSock).first = written /\ produced = written + Head(hostSock).size
  /\ tempStored =>
       temp = written /\ produced = written + bread
  /\ ~awaiting => produced = written

(* The numbers of the packets when each chunk fills one. *)
WholePackets == 1..MaxStream \div Mss

(* The timer of a packet expires at last.  tp does not promise it - it may *)
(* overtake a timer for ever -, so it is a condition of the property below *)
(* and no part of LoopFairness.                                            *)
NoneOvertaken == \A num \in WholePackets : []<>(num \notin counting)

InState(num, ack) == \E i \in 1..Len(nodes) : nodes[i].seqnum = num /\ nodes[i].ack = ack

(* Packet num is sent again and again, and no ACK of it comes any more.    *)
Unheard(num) ==
  /\ []<>InState(num, Unsent) /\ []<>InState(num, Waiting)
  /\ <>[](\A i \in 1..Len(acks) : acks[i] # num)

(* Every chunk is answered in the end, the one that did not fit too, or    *)
(* tcpdc goes on for ever sending some packet that nobody acknowledges:    *)
(* whatever is lost, the loop never stops trying, and an ACK that comes    *)
(* moves the window.  Unless the process runs off packtimes or misreads    *)
(* its ring first.                                                         *)
ChunkIsAnswered ==
  NoneOvertaken =>
    \/ []<>(~awaiting \/ ~Running \/ misread)
    \/ \E num \in WholePackets : Unheard(num)

(* Whatever a turn does is one of the calls CBuffer describes, or nothing  *)
(* the buffer sees: what holds of CBuffer holds of the daemon.             *)
ImplementsBuffer == Spec

================================================================================
