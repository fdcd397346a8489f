-------------------------------- MODULE SBuffer --------------------------------
(***************************************************************************)
(* The reassembly buffer of the server daemon: sbuffer.c, with the two     *)
(* handlers of tcpds.c that use it (remoteisset for a packet from the      *)
(* network, hostisset for a request of ftps).                              *)
(*                                                                         *)
(* BufSize bytes are divided among the nodes of a circular list; a node is *)
(* either filled with a run of packets or a hole waiting for one.  The     *)
(* list is the sequence of its nodes from head on.  A byte is abstracted   *)
(* to its index in the stream: packet s carries the Mss bytes from         *)
(* (s-1)*Mss on (tcpds accepts full packets only).  FileTransfer uses the  *)
(* same actions with the payload the client daemon really sent.            *)
(***************************************************************************)
EXTENDS Integers, Sequences, FiniteSets, SequencesExt

CONSTANTS
  Packets,    \* packets that fit in the buffer                    (64)
  Mss,        \* bytes of a packet                                 (1000)
  Window,     \* packets the sender may have outstanding           (20)
  Requests,   \* how many bytes ftps may ask for                   (24 and 25)
  MaxSeq,     \* BOUND: packets the sender sends
  OldCopies   \* whether the network delivers copies of packets ftps has read

BufSize == Packets * Mss
MaxInt  == 1000000           \* 2147483647 in the code: above every sequence number

ASSUME BufferAssumption ==
  /\ Packets \in Nat \ {0} /\ Mss \in Nat \ {0} /\ Window \in 1..Packets-1
  /\ Requests \subseteq Nat \ {0} /\ OldCopies \in BOOLEAN
  /\ MaxSeq \in 0..MaxInt-1

VARIABLES
  buffer,     \* address -> stream index of the byte stored there
  dstart,     \* the packet ftps needs next
  list,       \* the circular list, head first
  fault       \* "none", or what undefined behaviour did to the process

(* History. *)
VARIABLES
  answered,   \* packets for which addData has returned 1 (tcpds sends an ACK)
  readPos,    \* bytes handed to ftps so far
  lastRead    \* the bytes handed over last

bufVars == <<buffer, dstart, list, fault>>
vars    == <<bufVars, answered, readPos, lastRead>>

Address == 0..BufSize-1
NoByte  == -1
CirNode == [firstSeq : Nat, lastSeq : Nat, data : Int, size : Int, filled : BOOLEAN]

Bytes(seqnum) == [j \in 1..Mss |-> (seqnum - 1) * Mss + j - 1]

--------------------------------------------------------------------------------

(* The two reasons for which mergeList() joins node a with node b after it: *)
(* their packets follow each other, or both are holes ftps does not wait at. *)
Consecutive(a, b) == a.lastSeq = b.firstSeq - 1 /\ a.filled = b.filled
SpareHoles(a, b, start) ==
  ~a.filled /\ ~b.filled /\ start # a.firstSeq /\ start # b.firstSeq

(* A name with the suffix _ and a word is a mutant: the definition below it *)
(* with one slip.  No specification uses it; it shows which property would *)
(* notice the slip.                                                        *)

(* Mutant: the size of the joined node is not added. *)
Joined_oldSize(a, b) ==
  [a EXCEPT !.lastSeq = IF Consecutive(a, b) THEN b.lastSeq ELSE MaxInt]

Joined(a, b) ==
  [a EXCEPT !.lastSeq = IF Consecutive(a, b) THEN b.lastSeq ELSE MaxInt,
            !.size = a.size + b.size]

(* One round of the loop of mergeList(): node b after the nodes done.  *)
Joins(a, b, start) == Consecutive(a, b) \/ SpareHoles(a, b, start)
MergeNext(done, b, start) ==
  IF Joins(Last(done), b, start)
  THEN Append(Front(done), Joined(Last(done), b))
  ELSE Append(done, b)

(* Mutant: "if" for "while": a node takes in one other only. *)
MergeList_once(l, start) ==
  LET merged[i \in 1..Len(l)] ==
        IF i = 1 THEN <<l[1]>>
        ELSE IF Last(merged[i-1]) \in ToSet(l)
        THEN MergeNext(merged[i-1], l[i], start)
        ELSE Append(merged[i-1], l[i])
  IN  merged[Len(l)]

(* mergeList() *)
MergeList(l, start) ==
  LET merged[i \in 1..Len(l)] ==
        IF i = 1 THEN <<l[1]>> ELSE MergeNext(merged[i-1], l[i], start)
  IN  merged[Len(l)]

(* The loop of mergeList() looks for the node before head.  When it joins  *)
(* head itself to that node it never finds it.                             *)
MergeHangs(l, start) ==
  LET m == MergeList(l, start)
      a == Last(m)
  IN  /\ Len(l) > 1
      /\ m # Append(MergeList(Front(l), start), Last(l))
      /\ Joins(a, m[1], start)

--------------------------------------------------------------------------------

(* addData() with size = Mss. *)

Filled(seqnum, data) ==
  [firstSeq |-> seqnum, lastSeq |-> seqnum, data |-> data, size |-> Mss, filled |-> TRUE]

Hole(first, last, data, size) ==
  [firstSeq |-> first, lastSeq |-> last, data |-> data, size |-> size, filled |-> FALSE]

Wrapped(a) == IF a > BufSize THEN a - BufSize ELSE a

(* Mutant: the hole that is left begins where the packet does. *)
Fill_sameData(h, seqnum) ==
  LET before == (seqnum - h.firstSeq) * Mss
      dataA  == Wrapped(h.data + before)
  IN  CASE h.firstSeq = seqnum /\ Mss < h.size ->
             <<Filled(seqnum, h.data),
               Hole(seqnum + 1, h.lastSeq, h.data, h.size - Mss)>>
        [] h.firstSeq = seqnum /\ Mss = h.size ->
             <<Filled(seqnum, h.data)>>
        [] h.firstSeq < seqnum /\ seqnum < h.lastSeq ->
             <<Hole(h.firstSeq, seqnum - 1, h.data, before),
               Filled(seqnum, dataA),
               Hole(seqnum + 1, h.lastSeq, dataA, h.size - (before + Mss))>>
        [] h.firstSeq < seqnum /\ seqnum = h.lastSeq ->
             <<Hole(h.firstSeq, seqnum - 1, h.data, h.size - Mss),
               Filled(seqnum, Wrapped(h.data + h.size - Mss))>>
        [] OTHER -> <<>>

(* Mutant: a hole of exactly one packet does not take it. *)
Fill_notExactly(h, seqnum) ==
  LET before == (seqnum - h.firstSeq) * Mss
      dataA  == Wrapped(h.data + before)
  IN  CASE h.firstSeq = seqnum /\ Mss < h.size ->
             <<Filled(seqnum, h.data),
               Hole(seqnum + 1, h.lastSeq, h.data + Mss, h.size - Mss)>>
        [] h.firstSeq < seqnum /\ seqnum < h.lastSeq ->
             <<Hole(h.firstSeq, seqnum - 1, h.data, before),
               Filled(seqnum, dataA),
               Hole(seqnum + 1, h.lastSeq, Wrapped(dataA + Mss), h.size - (before + Mss))>>
        [] h.firstSeq < seqnum /\ seqnum = h.lastSeq ->
             <<Hole(h.firstSeq, seqnum - 1, h.data, h.size - Mss),
               Filled(seqnum, Wrapped(h.data + h.size - Mss))>>
        [] OTHER -> <<>>

(* The nodes that replace hole h when packet seqnum goes into it; <<>> when *)
(* h does not take it.                                                     *)
Fill(h, seqnum) ==
  LET before == (seqnum - h.firstSeq) * Mss
      dataA  == Wrapped(h.data + before)
  IN  CASE h.firstSeq = seqnum /\ Mss < h.size ->
             <<Filled(seqnum, h.data),
               Hole(seqnum + 1, h.lastSeq, h.data + Mss, h.size - Mss)>>
        [] h.firstSeq = seqnum /\ Mss = h.size ->
             <<Filled(seqnum, h.data)>>
        [] h.firstSeq < seqnum /\ seqnum < h.lastSeq ->
             <<Hole(h.firstSeq, seqnum - 1, h.data, before),
               Filled(seqnum, dataA),
               Hole(seqnum + 1, h.lastSeq, Wrapped(dataA + Mss), h.size - (before + Mss))>>
        [] h.firstSeq < seqnum /\ seqnum = h.lastSeq ->
             <<Hole(h.firstSeq, seqnum - 1, h.data, h.size - Mss),
               Filled(seqnum, Wrapped(h.data + h.size - Mss))>>
        [] OTHER -> <<>>

(* Of the nodes Fill gives, the one for the packet. *)
NewNode(parts) == CHOOSE p \in ToSet(parts) : p.filled

(* The traversal stops at the first node that holds seqnum at its front or *)
(* is a hole that takes it.                                                *)
Known(nd, seqnum) == nd.filled /\ nd.firstSeq = seqnum
Takes(nd, seqnum) == ~nd.filled /\ Fill(nd, seqnum) # <<>>

FirstHit(l, seqnum) ==
  LET hits == {i \in 1..Len(l) : Known(l[i], seqnum) \/ Takes(l[i], seqnum)}
  IN  IF hits = {} THEN 0 ELSE CHOOSE i \in hits : \A j \in hits : i <= j

(* addData() gives up at once on a packet too far ahead. *)
InRange(seqnum) == seqnum <= dstart + Packets - 1

(* memcpy() is given BufSize - data as a length, and data itself as an     *)
(* offset: an address outside 0..BufSize is a wild copy.                   *)
Copyable(nd) == nd.data \in 0..BufSize

Store(nd, payload) ==
  [a \in Address |-> LET j == (a - nd.data) % BufSize
                     IN  IF j < Mss THEN payload[j+1] ELSE buffer[a]]

Init ==
  /\ buffer = [a \in Address |-> NoByte]
  /\ dstart = 1
  /\ list = <<Hole(1, Packets, 0, BufSize)>>
  /\ fault = "none"
  /\ answered = {}
  /\ readPos = 0 /\ lastRead = <<>>

Running == fault = "none"

(* What the network can bring: packets of the sender's window, which moves *)
(* with the acknowledgements, and copies of packets sent before.           *)
LeastUnanswered == CHOOSE s \in 1..MaxSeq+1 : s \notin answered /\ \A r \in 1..s-1 : r \in answered

InFlight(seqnum) ==
  /\ seqnum < LeastUnanswered + Window
  /\ OldCopies \/ seqnum >= dstart

(* addData() begins with mergeList().  That call never runs for ever: it   *)
(* finds nothing to join (NothingToMerge), the call before it has joined   *)
(* what there was.                                                         *)

(* remoteisset(): an intact packet arrives; it is acknowledged when        *)
(* addData() returns 1.                                                    *)
AddDataKnown(seqnum) ==
  LET l == MergeList(list, dstart)
      i == FirstHit(l, seqnum)
  IN  /\ Running
      /\ i # 0 /\ Known(l[i], seqnum) /\ (InRange(seqnum) \/ i = 1)
      /\ list' = l
      /\ answered' = answered \cup {seqnum}
      /\ UNCHANGED <<buffer, dstart, fault, readPos, lastRead>>

AddDataFits(seqnum, payload) ==
  LET l     == MergeList(list, dstart)
      i     == FirstHit(l, seqnum)
      parts == Fill(l[i], seqnum)
      nd    == NewNode(parts)
      new   == SubSeq(l, 1, i-1) \o parts \o SubSeq(l, i+1, Len(l))
  IN  /\ Running
      /\ i # 0 /\ ~l[i].filled /\ InRange(seqnum)
      /\ IF Copyable(nd) /\ ~MergeHangs(new, dstart)
         THEN /\ list' = MergeList(new, dstart)
              /\ buffer' = Store(nd, payload)
              /\ answered' = answered \cup {seqnum}
              /\ UNCHANGED <<dstart, fault, readPos, lastRead>>
         ELSE /\ fault' = IF Copyable(nd) THEN "hung" ELSE "crashed"
              /\ UNCHANGED <<buffer, dstart, list, answered, readPos, lastRead>>

(* addData() returns 0: out of range, or no node takes the packet.         *)
AddDataRefused(seqnum) ==
  LET l == MergeList(list, dstart)
      i == FirstHit(l, seqnum)
  IN  /\ Running
      /\ i = 0 \/ (~InRange(seqnum) /\ ~(i = 1 /\ Known(l[1], seqnum)))
      /\ list' = l
      /\ UNCHANGED <<buffer, dstart, fault, answered, readPos, lastRead>>

(* hostisset(): ftps asks for size bytes and gets what requestData() finds *)
(* at the head of the list.                                                *)
Servable == Running /\ list[1].filled /\ list[1].firstSeq = dstart

Get(nd, n) == [j \in 1..n |-> buffer[(nd.data + j - 1) % BufSize]]

(* Mutants: head stays where it is; a partial read that does not move on,  *)
(* or does not use up what it has read.                                    *)
UsedUp_headStays(l)  == [l EXCEPT ![1].filled = FALSE]
PartLeft_sameData(nd, size) == [nd EXCEPT !.size = @ - size]
PartLeft_sameSize(nd, size) == [nd EXCEPT !.data = @ + size]

(* After the whole node nd has been read: the packet ftps needs next, and  *)
(* the list, nd being a hole and the next node head.  After a part of it:  *)
(* the node.                                                               *)
NextNeeded(nd) == nd.lastSeq + 1
UsedUp(l)      == Append(Tail(l), [Head(l) EXCEPT !.filled = FALSE])
PartLeft(nd, size) == [nd EXCEPT !.data = @ + size, !.size = @ - size]

(* ftps asks for all that the node holds, or more. *)
RequestWhole(size) ==
  LET nd    == list[1]
      start == NextNeeded(nd)
      new   == UsedUp(list)
  IN  /\ Servable /\ nd.size <= size
      /\ IF Copyable(nd) /\ ~MergeHangs(new, start)
         THEN /\ dstart' = start
              /\ list' = MergeList(new, start)
              /\ lastRead' = Get(nd, nd.size)
              /\ readPos' = readPos + nd.size
              /\ UNCHANGED fault
         ELSE /\ fault' = IF Copyable(nd) THEN "hung" ELSE "crashed"
              /\ UNCHANGED <<dstart, list, lastRead, readPos>>
      /\ UNCHANGED <<buffer, answered>>

(* The node holds more than size bytes.  Whether it runs over the end of   *)
(* the buffer is decided for the whole node, not for the bytes asked for.  *)
RequestPart(size) ==
  LET nd    == list[1]
      wraps == nd.data + nd.size > BufSize
  IN  /\ Servable /\ nd.size > size
      /\ IF Copyable(nd) /\ (wraps => BufSize - nd.data <= size)
         THEN /\ list' = [list EXCEPT ![1] = PartLeft(@, size)]
              /\ lastRead' = Get(nd, size)
              /\ readPos' = readPos + size
              /\ UNCHANGED fault
         ELSE /\ fault' = "crashed"
              /\ UNCHANGED <<list, lastRead, readPos>>
      /\ UNCHANGED <<buffer, dstart, answered>>

(* requestData() finds nothing: ftps gets an empty datagram and asks again. *)
RequestNothing ==
  /\ Running /\ ~Servable
  /\ lastRead' = <<>>
  /\ UNCHANGED <<bufVars, answered, readPos>>

Next ==
  \/ \E seqnum \in 1..MaxSeq :
       /\ InFlight(seqnum)
       /\ \/ AddDataKnown(seqnum)
          \/ AddDataFits(seqnum, Bytes(seqnum))
          \/ AddDataRefused(seqnum)
  \/ \E size \in Requests : RequestWhole(size) \/ RequestPart(size)
  \/ RequestNothing

Spec == Init /\ [][Next]_vars

--------------------------------------------------------------------------------

TypeOK ==
  /\ buffer \in [Address -> Nat \cup {NoByte}]
  /\ dstart \in 1..MaxSeq+1
  /\ list \in Seq(CirNode) /\ list # <<>>
  /\ fault \in {"none", "crashed", "hung"}
  /\ answered \subseteq 1..MaxSeq
  /\ readPos \in Nat /\ lastRead \in Seq(Nat)

(* What ftps has been given is the stream: the bytes of every read follow  *)
(* those of the read before, whatever order and however often the packets  *)
(* came and however the reads cut them (requestData).                      *)
ReadIsTheStream ==
  \A j \in 1..Len(lastRead) : lastRead[j] = readPos - Len(lastRead) + j - 1

(* An acknowledged packet stays readable: until ftps has read it, each of  *)
(* its bytes is in the buffer, at its place in a filled node (tcpds told   *)
(* the sender to forget them).                                             *)
AnsweredIsKept ==
  \A s \in answered : \A q \in (s-1)*Mss .. s*Mss-1 :
    q >= readPos =>
      \E i \in 1..Len(list) :
        /\ list[i].filled /\ s \in list[i].firstSeq..list[i].lastSeq
        /\ buffer[(list[i].data + list[i].size - (list[i].lastSeq * Mss - q)) % BufSize] = q

(* When the packet ftps needs next has been acknowledged, ftps can read    *)
(* it: it is in the node at the head of the list.                          *)
NextIsServed == fault = "none" /\ dstart \in answered => Servable

(* No two filled nodes share a byte of the buffer. *)
Cells(nd) == {(nd.data + j) % BufSize : j \in 0..nd.size-1}
FilledNodesDisjoint ==
  \A i, j \in 1..Len(list) :
    i < j /\ list[i].filled /\ list[j].filled => Cells(list[i]) \cap Cells(list[j]) = {}

(* Between two calls there is nothing for mergeList() to join: one pass is *)
(* enough after every insertion and every read, and after a partial read   *)
(* none is needed.                                                         *)
NothingToMerge == MergeList(list, dstart) = list /\ ~MergeHangs(list, dstart)

(* Every traversal of the list ends, and every copy stays inside the       *)
(* buffer, also in the second lap.                                         *)
NeverFails == fault = "none"

(* No node of the list takes the packet ftps needs next: addData refuses   *)
(* it each time it comes.                                                  *)
Blocked == dstart \notin answered /\ FirstHit(MergeList(list, dstart), dstart) = 0

(* In the first lap of the buffer there is room for the packet ftps needs  *)
(* next, however holes were split and joined and however much of the       *)
(* nodes before it the reads have used up (addData, requestData).          *)
FirstLapIsAccepted == fault = "none" /\ dstart <= Packets => ~Blocked

(* There is room for it in every lap.  (The code breaks this one: see the  *)
(* README.)                                                                *)
NeededIsAccepted == fault = "none" => ~Blocked

(* A packet that tcpds has acknowledged and ftps has not read is           *)
(* recognised and acknowledged again when it comes again: the first        *)
(* acknowledgement may have been lost (addData, remoteisset).              *)
DuplicateIsAnswered ==
  fault = "none" => \A s \in answered : s >= dstart =>
    LET l == MergeList(list, dstart)
        i == FirstHit(l, s)
    IN  i # 0 /\ Known(l[i], s)

================================================================================
