-------------------------------- MODULE CBuffer --------------------------------
(***************************************************************************)
(* The send buffer of the client daemon: cbuffer.c.                        *)
(*                                                                         *)
(* A ring of BufSize bytes holds what ftpc wrote and the peer has not      *)
(* acknowledged yet.  The first WinSize bytes of it are cut into packets   *)
(* of at most Mss bytes, kept in a linked list (head->next, here the       *)
(* sequence nodes).  A table of Slots entries remembers when each packet   *)
(* was handed to the network.                                              *)
(*                                                                         *)
(* A byte is abstracted to its index in the stream ftpc writes, so a cell  *)
(* of the ring says WHICH byte of the stream it holds.  tcpdc calls the    *)
(* four operations from one thread; here they come in any order.           *)
(***************************************************************************)
EXTENDS Integers, Sequences, FiniteSets

CONSTANTS
  BufSize,    \* bytes in the ring                      (64000 in the code)
  WinSize,    \* bytes that may be outstanding          (20000)
  Mss,        \* bytes in a full packet                 (1000)
  Slots,      \* entries of packtimes                   (20)
  Chunks,     \* the sizes ftpc may pass to addData     (0..1000)
  MaxStream   \* BOUND: how many bytes ftpc writes

ASSUME SizesAssumption ==
  /\ BufSize \in Nat /\ WinSize \in Nat /\ Mss \in Nat \ {0}
  /\ Mss <= WinSize /\ WinSize < BufSize
  /\ Slots \in Nat \ {0}
  /\ Chunks \subseteq 0..Mss
  /\ MaxStream \in Nat

VARIABLES
  cirbuffer,  \* the ring: address -> stream index of the byte stored there
  dstart,     \* address of the oldest unacknowledged byte
  dend,       \* address one past the newest byte, BufSize included
  isEmpty,    \* tells an empty ring from a full one when dstart = dend
  nodes,      \* the packet list, oldest first
  packseq,    \* the next sequence number
  packtimes,  \* the round-trip table
  fault       \* "none", or how a search ran past the end of packtimes

(* History: nothing below is read by the code. *)
VARIABLES
  written,    \* bytes of the stream stored so far
  acked,      \* bytes released from the front of the window so far
  misread,    \* spaceLeft has taken an empty ring for a full one
  sent        \* every packet handed to the network: [seq, payload]

bufVars == <<cirbuffer, dstart, dend, isEmpty, nodes, packseq, packtimes, fault>>
history == <<written, acked, misread, sent>>
vars    == <<bufVars, history>>

Address == 0..BufSize-1
NoByte  == -1              \* a zeroed cell, or one a stray store destroyed
Unsent  == 0               \* the values of packNode.ack
Waiting == 1
Acked   == 2

Node == [seqnum : Nat, data : Address, size : 1..Mss, ack : {Unsent, Waiting, Acked}]
Slot == [bsn : Nat, on : BOOLEAN]

(* The address x bytes from the start of the ring. *)
Wrap(x) == x % BufSize

Least(a, b) == IF a < b THEN a ELSE b

--------------------------------------------------------------------------------

(* A name with the suffix _ and a word is a mutant: the definition below it *)
(* with one slip.  No specification uses it; it shows which property would *)
(* notice the slip.                                                        *)

(* Mutant: no flag that tells an empty ring from a full one. *)
SpaceLeft_noFlag(start, end, empty) ==
  IF end < start THEN start - end ELSE BufSize - (end - start)

(* spaceLeft(): the free bytes.  Its side effect on isEmpty is StillEmpty. *)
SpaceLeft(start, end, empty) ==
  CASE end < start -> start - end
    [] start < end -> BufSize - (end - start)
    [] OTHER       -> IF empty THEN BufSize ELSE 0

StillEmpty(start, end, empty) == empty /\ start = end

(* Offsets(ns)[i]: how many bytes the first i packets of ns hold. *)
Offsets(ns) ==
  LET off[i \in 0..Len(ns)] == IF i = 0 THEN 0 ELSE off[i-1] + ns[i].size
  IN  off

(* Mutant: the acknowledged packets are counted wherever they stand. *)
AckedPrefix_anywhere(ns) == Cardinality({i \in 1..Len(ns) : ns[i].ack = Acked})

(* How many packets at the front of ns are acknowledged. *)
AckedPrefix(ns) ==
  CHOOSE k \in 0..Len(ns) :
    /\ \A i \in 1..k : ns[i].ack = Acked
    /\ k < Len(ns) => ns[k+1].ack # Acked

(* Mutants: addresses not reduced; ++packseq for packseq++; the last packet *)
(* as long as the others.                                                  *)
Fresh_noWrap(from, gap) ==
  [j \in 1..(IF gap > 0 THEN (gap + Mss - 1) \div Mss ELSE 0) |->
     [seqnum |-> packseq + j - 1, data |-> from + (j-1) * Mss,
      size |-> Least(Mss, gap - (j-1) * Mss), ack |-> Unsent]]

Fresh_preIncrement(from, gap) ==
  [j \in 1..(IF gap > 0 THEN (gap + Mss - 1) \div Mss ELSE 0) |->
     [seqnum |-> packseq + j, data |-> Wrap(from + (j-1) * Mss),
      size |-> Least(Mss, gap - (j-1) * Mss), ack |-> Unsent]]

Fresh_allFull(from, gap) ==
  [j \in 1..(IF gap > 0 THEN (gap + Mss - 1) \div Mss ELSE 0) |->
     [seqnum |-> packseq + j - 1, data |-> Wrap(from + (j-1) * Mss),
      size |-> Mss, ack |-> Unsent]]

(* The packets that cut gap further bytes, from address from on. *)
Fresh(from, gap) ==
  [j \in 1..(IF gap > 0 THEN (gap + Mss - 1) \div Mss ELSE 0) |->
     [seqnum |-> packseq + j - 1,
      data   |-> Wrap(from + (j-1) * Mss),
      size   |-> Least(Mss, gap - (j-1) * Mss),
      ack    |-> Unsent]]

(* checkWindow(): release the acknowledged front of the list ns, then cut  *)
(* packets until the list covers min(bytes in the ring, WinSize) bytes.    *)
CheckWindow(ns, end, empty) ==
  LET off     == Offsets(ns)
      k       == AckedPrefix(ns)
      rest    == SubSeq(ns, k + 1, Len(ns))
      start   == Wrap(dstart + off[k])
      drained == k > 0 /\ k = Len(ns)
      used    == BufSize - SpaceLeft(start, end, empty \/ drained)
      windowend    == Wrap(start + Least(used, WinSize))
      disttowindow == Wrap(windowend - start)
      gap     == disttowindow - (off[Len(ns)] - off[k])
      from    == IF rest = <<>> THEN start
                 ELSE Wrap(rest[Len(rest)].data + rest[Len(rest)].size)
      fresh   == Fresh(from, gap)
  IN  /\ dstart'  = start
      /\ isEmpty' = StillEmpty(start, end, empty \/ drained)
      /\ nodes'   = rest \o fresh
      /\ packseq' = packseq + Len(fresh)
      /\ acked'   = acked + off[k]

--------------------------------------------------------------------------------

Init ==
  /\ cirbuffer = [a \in Address |-> NoByte]
  /\ dstart = 0 /\ dend = 0 /\ isEmpty = TRUE
  /\ nodes = <<>> /\ packseq = 1
  /\ packtimes = [i \in 1..Slots |-> [bsn |-> 0, on |-> FALSE]]
  /\ fault = "none"
  /\ written = 0 /\ acked = 0 /\ misread = FALSE /\ sent = {}

(* A search of packtimes that finds nothing reads on past the table, which *)
(* is undefined.  In the code as built the ring lies behind the table: the *)
(* search ends at some word that happens to match and the store destroys   *)
(* it ("stray"), or it leaves the mapped memory and the process is killed  *)
(* ("crashed").  The model claims nothing about what such a process does   *)
(* next: it stops.                                                         *)
Running == fault = "none"

(* addData() when the chunk fits: copy it at dend, in two parts when it    *)
(* runs over the end of the ring.  dend is not reduced when it lands on    *)
(* BufSize exactly, and a chunk of 0 bytes also clears isEmpty.            *)
AddData(size) ==
  /\ Running
  /\ written + size <= MaxStream
  /\ SpaceLeft(dstart, dend, isEmpty) >= size
  /\ cirbuffer' = [a \in Address |->
                     LET d == Wrap(a - dend)
                     IN  IF d < size THEN written + d ELSE cirbuffer[a]]
  /\ dend' = IF BufSize - dend >= size THEN dend + size ELSE size - (BufSize - dend)
  /\ written' = written + size
  /\ misread' = (misread \/ (size = 0 /\ acked = written))
  /\ CheckWindow(nodes, dend', FALSE)
  /\ UNCHANGED <<packtimes, fault, sent>>

(* addData() when the chunk does not fit: it returns 0, after checkWindow. *)
AddDataFull(size) ==
  /\ Running
  /\ written + size <= MaxStream
  /\ SpaceLeft(dstart, dend, isEmpty) < size
  /\ CheckWindow(nodes, dend, StillEmpty(dstart, dend, isEmpty))
  /\ UNCHANGED <<cirbuffer, dend, packtimes, fault, written, misread, sent>>

(* The packets of the list with number num, and the list with the ack      *)
(* field of the packets in I set to a.                                     *)
Numbered(num) == {i \in 1..Len(nodes) : nodes[i].seqnum = num}

Marked(ns, I, a) == [i \in 1..Len(ns) |-> IF i \in I THEN [ns[i] EXCEPT !.ack = a] ELSE ns[i]]

SlotsOf(num) == {i \in 1..Slots : packtimes[i].bsn = num}

StopClock(num) ==
  \/ \E i \in SlotsOf(num) :
       /\ \A j \in SlotsOf(num) : i <= j
       /\ packtimes' = [packtimes EXCEPT ![i].on = FALSE]
       /\ UNCHANGED fault
  \/ /\ SlotsOf(num) = {}
     /\ fault' = "stray"
     /\ UNCHANGED packtimes

(* recvACK(): num is any packet the peer may have seen; the network can    *)
(* repeat an acknowledgement, and a retransmission earns another one.      *)
RecvACK(num) ==
  /\ Running
  /\ num \in {p.seq : p \in sent}
  /\ acked <= MaxStream
  /\ StopClock(num)
  /\ IF Numbered(num) # {}
     THEN /\ CheckWindow(Marked(nodes, Numbered(num), Acked), dend, isEmpty)
          /\ misread' = (misread \/ (acked' = written /\ dend = BufSize))
     ELSE UNCHANGED <<dstart, isEmpty, nodes, packseq, acked, misread>>
  /\ UNCHANGED <<cirbuffer, dend, written, sent>>

(* recvACK() when its search for num leaves the mapped memory. *)
RecvACKCrash(num) ==
  /\ Running
  /\ num \in {p.seq : p \in sent}
  /\ SlotsOf(num) = {}
  /\ fault' = "crashed"
  /\ UNCHANGED <<cirbuffer, dstart, dend, isEmpty, nodes, packseq, packtimes, history>>

(* Mutant: the entry of packtimes stays taken. *)
TimerExpire_keepClock(bsn) ==
  /\ Running
  /\ bsn \in {p.seq : p \in sent}
  /\ nodes' = Marked(nodes, Numbered(bsn), Unsent)
  /\ UNCHANGED <<cirbuffer, dstart, dend, isEmpty, packseq, packtimes, fault, history>>

(* timerExpire(): bsn is any packet a timer was ever started for: a notice *)
(* may be on its way while the acknowledgement is handled.                 *)
TimerExpire(bsn) ==
  /\ Running
  /\ bsn \in {p.seq : p \in sent}
  /\ nodes' = Marked(nodes, Numbered(bsn), Unsent)
  /\ packtimes' = [i \in 1..Slots |->
                     IF packtimes[i].bsn = bsn THEN [packtimes[i] EXCEPT !.on = FALSE]
                     ELSE packtimes[i]]
  /\ UNCHANGED <<cirbuffer, dstart, dend, isEmpty, packseq, fault, history>>

(* Mutant: the second half of a packet that wraps is read from dstart. *)
Payload_wrongHalf(nd) ==
  [j \in 1..nd.size |-> cirbuffer[IF nd.data + j - 1 < BufSize THEN nd.data + j - 1 ELSE dstart]]

(* requestData(): the bytes of a packet, read from the ring. *)
Payload(nd) == [j \in 1..nd.size |-> cirbuffer[Wrap(nd.data + j - 1)]]

(* The packets sendWindow() will transmit. *)
Outgoing == {i \in 1..Len(nodes) : nodes[i].ack = Unsent}

(* It goes through them in list order and gives each the first entry of    *)
(* packtimes that is free by then: the n-th packet gets the n-th free one. *)
SendRank(i) == Cardinality({j \in Outgoing : j <= i})
FreeRank(s) == Cardinality({t \in 1..s : ~packtimes[t].on})
GetsEntry(i, s) == ~packtimes[s].on /\ SendRank(i) = FreeRank(s)

(* sendWindow(): transmit every packet that is Unsent.                     *)
SendWindow ==
  /\ Running
  /\ Outgoing # {}
  /\ sent' = sent \cup {[seq |-> nodes[i].seqnum, payload |-> Payload(nodes[i])] : i \in Outgoing}
  /\ nodes' = Marked(nodes, Outgoing, Waiting)
  /\ packtimes' = [s \in 1..Slots |->
                     IF \E i \in Outgoing : GetsEntry(i, s)
                     THEN [bsn |-> nodes[CHOOSE i \in Outgoing : GetsEntry(i, s)].seqnum, on |-> TRUE]
                     ELSE packtimes[s]]
  /\ fault' = IF Cardinality(Outgoing) <= FreeRank(Slots) THEN fault ELSE "stray"
  /\ UNCHANGED <<cirbuffer, dstart, dend, isEmpty, packseq, written, acked, misread>>

Next ==
  \/ \E size \in Chunks : AddData(size)
  \/ \E size \in Chunks : AddDataFull(size)
  \/ \E num \in 1..packseq-1 : RecvACK(num)
  \/ \E num \in 1..packseq-1 : RecvACKCrash(num)
  \/ \E bsn \in 1..packseq-1 : TimerExpire(bsn)
  \/ SendWindow

Spec == Init /\ [][Next]_vars

--------------------------------------------------------------------------------

TypeOK ==
  /\ cirbuffer \in [Address -> Nat \cup {NoByte}]
  /\ dstart \in Address /\ dend \in 0..BufSize /\ isEmpty \in BOOLEAN
  /\ nodes \in Seq(Node) /\ packseq \in Nat \ {0}
  /\ packtimes \in [1..Slots -> Slot]
  /\ fault \in {"none", "stray", "crashed"}
  /\ written \in 0..MaxStream /\ acked \in Nat /\ misread \in BOOLEAN
  /\ \A p \in sent : p.seq \in 1..packseq-1

WindowBytes == Offsets(nodes)[Len(nodes)]

(* The packets tile the ring: they start at dstart, each begins where the  *)
(* one before ends, also across the end of the ring, and their numbers are *)
(* the last ones given out.  Releasing packets and cutting new ones never  *)
(* loses or repeats a byte between two of them (checkWindow).              *)
WindowTilesRing ==
  /\ dstart = Wrap(acked)
  /\ \A i \in 1..Len(nodes) :
       /\ nodes[i].data = Wrap(acked + Offsets(nodes)[i-1])
       /\ nodes[i].seqnum = packseq - Len(nodes) + i - 1
  /\ WindowBytes <= WinSize

(* As long as spaceLeft has not misread the ring, the packets cover the    *)
(* stored bytes exactly, up to WinSize: never a byte ftpc did not write,   *)
(* and never one less than the window allows (checkWindow, spaceLeft).     *)
WindowCoversStream ==
  ~misread => acked + WindowBytes = Least(written, acked + WinSize)

(* A byte stays in its cell until it is acknowledged: addData never writes *)
(* over a byte that a retransmission may still need.                       *)
UnackedBytesKept ==
  ~misread /\ fault = "none" =>
    /\ written - acked \in 0..BufSize
    /\ \A q \in acked..written-1 : cirbuffer[Wrap(q)] = q

(* What the network was given is the stream: packet 1 begins with byte 0,  *)
(* a packet begins with the byte after the last one of the packet numbered *)
(* before it, and sending a packet again sends the same bytes, whatever    *)
(* was released or stored in between (requestData, sendWindow).            *)
SentIsTheStream ==
  ~misread /\ fault = "none" =>
    \A a, b \in sent :
      /\ \A j \in 1..Len(a.payload) : a.payload[j] = a.payload[1] + j - 1
      /\ a.seq = 1 => a.payload[1] = 0
      /\ a.seq = b.seq => a = b
      /\ a.seq + 1 = b.seq => b.payload[1] = a.payload[Len(a.payload)] + 1

(* Each packet in flight holds exactly one running entry of packtimes, no  *)
(* entry before it carries its number (so recvACK's search stops the right *)
(* clock, old numbers left behind by earlier packets notwithstanding), and *)
(* no clock runs for a packet that is not in flight.                       *)
OneClockPerPacketInFlight ==
  fault = "none" =>
    /\ \A i \in 1..Len(nodes) : nodes[i].ack = Waiting =>
         \E s \in SlotsOf(nodes[i].seqnum) :
           /\ packtimes[s].on
           /\ \A t \in SlotsOf(nodes[i].seqnum) \ {s} : s < t /\ ~packtimes[t].on
    /\ \A s \in 1..Slots : packtimes[s].on =>
         \E i \in 1..Len(nodes) : nodes[i].seqnum = packtimes[s].bsn /\ nodes[i].ack = Waiting

(* No packet is ever cut from bytes that ftpc did not write.  (The code    *)
(* breaks this one: see the README.)                                       *)
NoPhantomPackets == acked + WindowBytes <= written

================================================================================
