# A TLA+ model of the file transfer over UDP

The repository transfers a file over an unreliable network: `ftpc` gives it to
the client daemon `tcpdc`, which sends it in numbered packets through the Troll
to the server daemon `tcpds`, which hands it to `ftps`. This directory models
the three data structures that carry the protocol - the send buffer, the timer
list and the reassembly buffer -, the loop of the client daemon around the first
two, and the whole transfer from `ftpc` to `ftps`; checks them with TLC; and
proves with TLAPS, for every size, the invariants of the send buffer, of the
timer process, of the client daemon, of the reassembly buffer and of the whole
transfer, and that the daemon, the timer process and the transfer implement their
abstract specifications.

Lines are lines of files under `src/`. `PROJECT.json` maps every definition to
the lines it stands for.

## 1. The system

```
 ftpc --chunk--> tcpdc --packet--> Troll --packet--> tcpds --bytes--> ftps
      <--'1'----   |   <---ACK----      <---ACK-----      <--size----
          start, cancel | ^ expired
                        v |
                        tp
```

| component | state it keeps | operations | talks to |
|---|---|---|---|
| send buffer, `cbuffer.c` | ring `cirbuffer` with `dstart`, `dend`, `isEmpty`; packet list; `packseq`; `packtimes` | `addData`, `sendWindow`, `recvACK`, `timerExpire`, and `checkWindow` inside them | called by `tcpdc`; sends packets and timer messages |
| timer process, `timerprocess.c` | delta list, last reading of the clock, timeout of `select` | start, cancel, quit; one turn of the loop | UDP messages from and to `tcpdc` |
| client daemon, `tcpdc.c` | a chunk that did not fit (`tempStored`) | one turn: chunk, ACKs, notices, then `sendWindow` | `ftpc`, Troll, `tp` |
| reassembly buffer, `sbuffer.c` | circular list of filled nodes and holes over one array; `dstart` | `addData`, `requestData`, `mergeList` inside them | called by `tcpds` |
| server daemon, `tcpds.c` | none of its own | a packet arrives (checksum, `addData`, ACK); a request of `ftps` arrives | Troll, `ftps` |
| `ftpc.c`, `ftps.c` | the file; bytes still to come | send a chunk and wait for '1'; ask for bytes until some come | the daemons |
| `tcpapi.c` | one global destination address | `SEND`, `RECV`, `setSendAddress`, ... | all |
| `crc32.c` | the table | checksum | the daemons |

Everything is single-threaded; what interleaves is the processes. The only
shared state is in the sockets.

**What is hard.**

* Arithmetic on two circular buffers: a packet across the end of the ring, a
  ring whose ends meet, the second lap.
* Orders nobody wrote a test for: acknowledgements out of order, a notice of
  expiry that crosses the acknowledgement, a cancellation that crosses the
  notice.
* Loss, repetition and reordering of packets and of acknowledgements.
* Limits: the ring is full, the round-trip table is full.
* Time: `tp` wakes up late; timers have equal times; deltas become negative.
* Reads by `ftps` that end inside a packet or inside a merged run.
* The end of the file: a last packet that is short, or full and followed by a
  chunk of no bytes.

**What makes each component correct.**

* Send buffer: packets tile the stored bytes without a gap or an overlap; a byte
  stays until it is acknowledged; sending a packet again sends the same bytes;
  the clock that is stopped is the clock of the packet acknowledged.
* Timer process: no timer is lost or doubled; each expires, near the time asked for.
* Reassembly buffer: what `ftps` reads is the stream; what was acknowledged
  stays readable; what is repeated is acknowledged again.
* Client daemon: no chunk is lost, stored twice or left without a reply; a packet
  in flight has exactly one timer.
* The whole: the file that arrives is the file that was sent; the client forgets
  nothing the server lacks; the file arrives if the network is fair.

Not all of this is so: section 4 lists where the code breaks it.

## 2. The modules

| module | what it is | code |
|---|---|---|
| `CBuffer` | state machine of the send buffer | `cbuffer.c`; the calls in `tcpdc.c:92-179` |
| `CBufferLemmas` | lemmas about the operators of `CBuffer` | |
| `CBufferProofs` | type correctness and tiling, proved | |
| `CBufferStream` | coverage of the stream and survival of its bytes, proved | |
| `CBufferSent` | what is sent is the stream, one clock per packet in flight, proved | |
| `TimerProcess` | state machine of `tp`, with its client | `timerprocess.c`; `cbuffer.c:40-91` |
| `TimerSet` | what a timer service promises, time left out | abstract specification of `TimerProcess` |
| `TimerProofs` | the delta list loses and doubles no timer, `tp` implements `TimerSet`, proved | |
| `SBuffer` | state machine of the reassembly buffer | `sbuffer.c`; `tcpds.c:102-192` |
| `SBufferProofs` | the reassembly buffer's safety properties but `FirstLapIsAccepted`, proved | |
| `Tcpdc` | the loop of the client daemon, over `CBuffer` and `TimerSet` | `tcpdc.c:92-179`; `ftpc.c:34-45` |
| `TcpdcProofs` | the daemon implements the send buffer, stores every chunk once and times every packet in flight, proved | |
| `FileTransfer` | `ftpc`, both buffers, the network and `ftps`, over `CBuffer` and `SBuffer` | `ftpc.c:18-50`, `tcpdc.c`, `tcpds.c:102-257`, `ftps.c:75-168` |
| `SlidingWindow` | what the two daemons promise together | abstract specification of `FileTransfer` |
| `FileTransferProofs` | the file is copied, no byte is forgotten, the two daemons are a sliding window, proved | |
| `MCCBuffer`, `MCTimerProcess`, `MCSBuffer`, `MCTcpdc`, `MCFileTransfer` | the modules as TLC runs them | |

`Tcpdc` extends `CBuffer` and instantiates `TimerSet` for `tp`; `TimerProcess` is
shown to implement the same `TimerSet`, so the daemon is checked against what the
timer process has been checked to promise. `FileTransfer` instantiates `CBuffer`
and `SBuffer`, not `Tcpdc`: that the loop makes only calls of `CBuffer` is proved
(`Implements`), so it lets them come in any order.

### CBuffer

`cirbuffer`, `dstart`, `dend`, `isEmpty`, `packseq`, `packtimes` are the
variables of the same names; `nodes` is the list behind `head`. A byte is
abstracted to its index in the stream that `ftpc` writes, so a ring cell says
which byte it holds and "the packet carries the right bytes" can be written
down. Four history variables are not read by any guard: `written`, `acked`
(released from the front), `sent` (every packet given to the network) and
`misread` (see below).

* `AddData`, `AddDataFull`: `addData` returning 1 and 0. Both end in
  `checkWindow`, as in the code.
* `RecvACK(num)`: for any number that was ever sent, any number of times.
  `StopClock` is the search of `packtimes`. When no entry matches, the search
  runs past the table, which is undefined: `fault` becomes `"stray"` (some word
  behind the table is hit and a store goes there) or, by `RecvACKCrash`,
  `"crashed"`. Nothing is claimed about a process after either; the model stops.
* `TimerExpire(bsn)`: for any number that was ever sent, at any time: notices
  cross acknowledgements.
* `SendWindow`: transmits what is `Unsent`; the n-th packet takes the n-th free
  entry of `packtimes`, and one too many is `"stray"`.
* `CheckWindow` is the operator shared by them: release the acknowledged front,
  compute the window, cut packets.

Two abstractions. `tcpdc` calls the operations in a fixed order within one turn;
here every order is allowed, which includes it. The round-trip estimate
(`timeComps`) is left out: its results are computed and printed and never used.

`misread` records that the ring was emptied while `dend` stood at `BufSize`, or
that a chunk of no bytes cleared `isEmpty` on an empty ring; from then on
`spaceLeft` takes the empty ring for a full one. The properties about the
contents hold up to that moment and say so; that it can happen is finding 1.

### TimerProcess

`list` is the delta list, `since` the ticks since `decrement` last read the
clock, `wait` the timeout in progress, `inbox` and `notices` the two sockets.
A tick is any multiple of a millisecond, which is what the code's clock counts.
`Turn` is one turn of the loop, from the return of `select` to the next call: at
most one message, then `decrement`, in that order. `InsertValue` keeps the
code's three cases (head, middle, end) with what they get wrong. `late` and
`Latency` say how long the operating system may leave `tp` ready without
running it. The client (`StartTimer`, `CancelTimer`, `TakeNotice`) is bound to
what `cbuffer.c` does: a timer is started for a packet that was never sent, in
ascending order, or whose notice has been handled; a cancellation may come at
any time and again. `Due` adds up in one function what the loop of `decrement`
does to the head, expiry by expiry, with the call of `removeValue` in it.

`TimerSet` knows a set of timers and a queue of notices. `ServiceSpec` says that
`TimerProcess` implements it with `counting <- Members(list)`: a start adds one
timer that is not in the set, a cancel removes at most that one, and notices go
out only for timers that leave the set, each once.

### SBuffer

`list` is the circular list from `head` on, each node with the packet numbers,
address, size and flag it has in the code. `mergeList` runs where the code runs
it: before and after an insertion and after a whole read. `AddDataKnown`,
`AddDataFits` and `AddDataRefused` are the three ways through `addData`;
`RequestWhole`, `RequestPart` and `RequestNothing` those through `requestData`.
A copy whose length or offset leaves the array makes `fault` `"crashed"`, a
`mergeList` that never finds `head` again makes it `"hung"`; both are final.
`InFlight` is the network: any packet of the sender's window of `Window`
packets, in any order, as often as it likes.

Packets are full ones here; the short last packet is in `FileTransfer`.

### Tcpdc

One turn of `receiveAndSend` in six steps: `Select` looks at the three sockets
once and leaves the answer in `ready` (the code's `read_fd`); `RetryChunk` tries
the chunk that did not fit last time; `ReadChunk`, `ReadACK` and `ReadNotice` read
one datagram each; `Transmit` is `sendWindow`. `pc` is the handler the turn has
come to; `NextOf` skips those with nothing to do (the conditions of lines 107,
123, 149, 162). Between any two steps the other processes act: `ftpc` sends its
next chunk once it has its reply (`SendChunk`), an ACK comes (`AckArrives`) or is
lost with its packet (`Lose`), `tp` handles a message (`TpMessage`) or lets timers
expire (`TpExpire`).

`temp` is the contents of the local array of line 101, which a later call reads
again. Nothing in between uses that part of the stack - `main` calls
`receiveAndSend` over and over and calls nothing else - so in the build the array
has kept its bytes; the model keeps them. A chunk's bytes are its first stream
index and its size. Stray ends and crashes of `CBuffer` end the run.

### FileTransfer

`SendChunk` is `sendFile` with the daemon's reply folded in: a chunk is sent when
it is stored (what waits in between is `Tcpdc`'s subject); the first chunk has the
header in front, and `feof` is true after a read that fell short only. `Transmit`
puts into `net` what `requestData` of `cbuffer.c` copies from the ring
(`CBuffer!Payload`), from a misread ring too, and `Receive` gives that payload to
`SBuffer`, also when it is a copy of a packet that `ftps` has read: both
buffers are checked against the same bytes. `StoreFull` and `DropShort` are the
two halves of `remoteisset`. In `DropShort` the pointer `tempbuf` was never set:
the checksum is taken over memory before wherever it points and does not match
(a match, one in 2^32, is left out), or the access kills the process.
`ReadHeader` and `ReadFile` are the two polling loops of `ftps`. A failure of
either buffer ends the run.

Two variables are history. `spoilt`: `sendWindow` was called with a misread ring
(finding 1, and the chunk of no bytes described after the findings), so that packets
nobody wrote may be on their way, or the server has stored a copy of a packet that `ftps` has read (finding 5). The file may be wrong
from then on, and the safety properties speak of the time before; the transfer
goes on all the same; section 4 says where it can lead. `disturbed`: an ACK
was lost, or a notice of expiry came after the ACK of its packet. After either the
packet is sent again although the server has it, and finding 4 says the server may
then never acknowledge it again. Safety is checked in those states too; only the
liveness properties stop there.

### Mutants

Definitions named `X_word` are not part of any specification. Each is the
definition `X` with one slip of the kind a programmer makes, and shows which
property notices it.

## 3. What TLC checks

| run | instance | shows |
|---|---|---|
| `cbuffer_window` | ring of 5, window 3, packets of 2, table of 2; chunks of 0, 1, 2 bytes; stream of 9 | all safety properties of `CBuffer` |
| `timer_list` | 4 timers of 1 or 3 ticks, one of them restarted any number of times, late by 1 tick, second of 2; fair | types, `EachTimerOnce`, refinement of `TimerSet`, `TimersEndWhenQuiet` |
| `sbuffer_reassembly` | 6 packets of 3 bytes, window 4, reads of 2 and 4, 9 packets | all safety properties of `SBuffer` |
| `tcpdc_loop` | ring of 5, window 4, packets of 2, table of 2, stream of 6; fair | types, `InFlightIsTimed`, `ChunkStoredOnce`, `ChunkIsAnswered`, refinement of `CBuffer` |
| `transfer` | client ring of 6, window 4, packets of 2, server's buffer of 3 packets, header of 1, reads of 2, files of 2 and 7 bytes; fair | types, `FileIsCopied`, `NoByteForgotten`, refinement of `SlidingWindow`, `WholePacketsArrive` |
| `cbuffer_phantom` | ring of 4, window 3, full packets only | finding 1 |
| `timer_overtaken` | 4 timers of 2 ticks | finding 2 |
| `sbuffer_failure` | 4 packets of 2 bytes, reads of 3 | finding 3 |
| `sbuffer_duplicate` | 4 packets of 2 bytes | finding 4 |
| `sbuffer_old_copy` | 4 packets of 2 bytes, old copies | finding 5 |
| `sbuffer_blocked` | 4 packets of 2 bytes, reads of 1 and 2 | finding 6 |
| `transfer_short` | as `transfer`, ring of 5, a file of 4 bytes; fair | finding 7 |

**Why these bounds are enough.** Ring of 5 and packets of 2: packets lie across
the end of the ring in some behaviours and end exactly at it in others (the real
64000 is a multiple of 1000, but chunks need not be, so packets cross there
too). A stream of 9 goes almost twice round it. Chunks of 0 and 1 make short
packets, so that more packets are in flight than the table has entries. Window
below ring: the window is the limit in some states, the stored bytes in others.
The proofs of section 5 remove the bounds on sizes from every safety property of
the passing runs but `FirstLapIsAccepted`; `MaxStream` and `MaxSeq` stay as parameters with any value.
Six packets of three bytes and nine packets in all: reads cut packets at two
places, holes are split three ways, and the second lap begins.

Insertion has a middle when three nodes are in the list, so `timer_list` has four
timers; with one of them restarted, nodes with negative deltas occur (a check
that no delta is negative fails there). When all four restart, the delta of an
overtaken node can fall without end: `Resent` says which timers may, and only
`timer_overtaken`, which ends at its counterexample, lets all of them. `Watched`
says for which timers the history counts ticks, `Overdue` ends that count once no
property needs it. Durations of 1 and 3 with a second of 2 make the loss of
fractions in `removeValue` visible.

In `tcpdc_loop` the ring holds two packets and a half of another, so the third
chunk does not fit and is kept; its packet crosses the end of the ring; each
packet can be lost, sent again and acknowledged twice. At most `InboxMax` messages
may be unread in `tp`'s socket when a turn begins (a turn adds up to three more),
and no two ACKs of one packet wait in the socket together.

In `transfer`, a file of 2 bytes needs two packets of which the second is short,
one of 7 bytes fills four; reads of 2 after a header of 1 cross every packet
border. Packets come in any order, are sent again, and come again after `ftps` has
read them; both rings hold three packets, so the fourth begins the second lap of
each. The end of the client's ring is the end of a packet, as it is with the code's
sizes (a packet across it is `cbuffer_window`'s and `tcpdc_loop`'s), so both findings
that stop a transfer there (1 and 6) can happen, and do. Packets numbered above
`MaxSeq`, which only a misread ring produces, are sent and never come.

`transfer` and `transfer_short` have `CONSTRAINT Undecided`: TLC does not go on from a
state that is spoilt and `Upset`. No safety property says anything of a spoilt
state or of those after it, and `<>(Received \/ Upset)` is fulfilled there, so
nothing that is claimed goes unchecked. What is only one of the two is kept: safety
is checked in disturbed transfers, and a transfer spoilt after the end of the file
must still arrive.

`MaxStream`, `MaxSeq`, `InboxMax`, `Latency`, `Overdue`, `Watched`, `Resent` and
`Kinds` are bounds of the model and are marked so where they are declared, as is
the bound in the guard of `AckArrives`.
`CHECK_DEADLOCK FALSE` is set where the system stops at the end of the stream or
after a fault: everywhere but in the timer runs.

**The properties.**

* `WindowTilesRing`, `WindowCoversStream`: what `checkWindow` must keep - after
  any order of acknowledgements the packets still follow each other without gap,
  and cover min(stored, window) bytes.
* `UnackedBytesKept`, `SentIsTheStream`: what makes retransmission work. The
  second compares all packets ever sent with each other, so it relates the state
  to arbitrarily old ones.
* `OneClockPerPacketInFlight`: `recvACK` stops the first entry with the number,
  and old entries keep their numbers; this says the first one is the right one.
* `EachTimerOnce`, `ServiceSpec`, `TimersEndWhenQuiet`: no timer is lost or doubled
  by the delta list, whatever crosses; `tp` is a `TimerSet`; the list drains.
* `ReadIsTheStream`, `AnsweredIsKept`, `NextIsServed`: the server's three
  promises. `FilledNodesDisjoint` and `NothingToMerge` are what `sbuffer.c`
  relies on between calls; the second justifies that the first `mergeList` of
  `addData` can never be the one that loops. `FirstLapIsAccepted`: while the packet
  `ftps` needs next is one of the first lap, the list has room for it, however
  it was split, merged and shrunk by reads. Later it need not (finding 6).
* `InFlightIsTimed` relates the packet list of `cbuffer.c` to what is in `tp`, in
  its socket and in the socket of the notices: a packet in flight has exactly one
  timer somewhere on that way, and no cancellation is behind it. It is why
  retransmission works at all: the order `canceltimer` before `starttimer`, in one
  socket, is what keeps an old cancellation from killing a new timer.
* `ChunkStoredOnce`: where the one unanswered chunk is, over calls that return
  without it being stored; `ChunkIsAnswered`: the wait of `ftpc` ends, or `tcpdc`
  goes on for ever sending some packet of which no ACK comes. With `tcpds` at
  the other end the second happens (finding 4); what the property says is that
  nothing else keeps `ftpc` waiting: no kept chunk is forgotten, no packet left
  unsent, no ACK without effect.
* `ImplementsBuffer`, `IsSlidingWindow`: refinements. The first says the order of
  calls in a turn is one `CBuffer` allows; the second that the client releases,
  and `ftps` gets, only what has arrived with everything before it.
* `FileIsCopied`, `NoByteForgotten`: the end-to-end promises; a byte is at `ftps`,
  or in one of the two rings at the place where it will be read.
  Both hold until the transfer is spoilt, as does the refinement.
* `WholePacketsArrive`: a file that fills its last packet arrives however often
  packets are lost, unless one of the things in `Upset` happens: an ACK is lost or
  crosses the notice of its packet (finding 4), a process fails (3), the ring is
  misread (1) or an old copy stored (5) before the file's end, the server's buffer
  has no room for the packet needed next (6). In `transfer` the file arrives in some
  behaviours, and in others it does not.

**Fairness.** Four runs assume some.

* `timer_list`: `Turn` when it is ready (the loop of `tp` never blocks longer than
  its timeout), `Tick` (time passes), `TakeNotice` (`tcpdc` polls its sockets every
  millisecond, `tcpdc.c:99`). Nothing is assumed of starts and cancellations;
  the property holds once the client sends no more messages.
* `tcpdc_loop`: weak fairness of the turn and of `tp` reading its messages. Nothing
  is assumed of the network or of the peer: that a packet is sent again and again
  in vain is a disjunct of the property (`Unheard`).
* `transfer`, `transfer_short`: weak fairness of each process and of an ACK
  that is in the network (its loss is an escape), strong fairness of the delivery
  of the packet `ftps` needs next: when it is sent again and again, it arrives. All
  of it only as long as nothing has failed and no ACK was lost or late
  (`Undisturbed`): after that the properties promise nothing, and nothing is assumed.

No run assumes that the timer of a packet in flight expires. `tp` does not promise
it: finding 2 shows that its list can overtake a timer for ever. `NoneOvertaken`
is therefore a condition in front of `ChunkIsAnswered`, `WholePacketsArrive` and
`FilesArrive`, and what happens without it is finding 2's.

Where a conjunct reads `<>[]Can... => []<><<...>>` it is weak fairness with ENABLED
written out as a state predicate, because TLC takes very long to evaluate ENABLED
of these actions. For `Tcpdc` TLC has compared the two in every state.

## 4. Findings

Each is a run that TLC ends with a counterexample, and was traced through the C
code by hand; 3 and 5 were also reproduced with a small driver of `sbuffer.c`.

1. `NoPhantomPackets` (`cbuffer.c:253,283`): when the last packet acknowledged
   ends exactly at byte 64000 of the ring, `dstart` wraps to 0 and `dend` stays
   64000. The empty ring then counts as full: twenty packets of old bytes are
   cut and sent, and no chunk fits any more.
2. `Deadline` (`timerprocess.c:93`): in the middle of the list the new node goes
   behind the one it was computed to precede. A timer can be overtaken again and
   again.
3. `NeverFails` (`sbuffer.c:105`): `mergeList` can join `head` itself into the
   node before it and then searches for `head` for ever. There is a second way:
   the wrap-around test of a partial read (`sbuffer.c:341`) uses the size of the
   node, not of the read, so that the second `memcpy` gets a negative length;
   with 3 packets of 3 bytes, window 2 and reads of 2 the same property ends there.
4. `DuplicateIsAnswered` (`sbuffer.c:150`): only the first packet of a merged run
   is recognised when it is repeated; the others get no second ACK.
5. `ReadIsTheStream` (`sbuffer.c:160`): a late copy of a packet that was read
   already is stored as new, over bytes that were not read yet.
6. `NeededIsAccepted` (`sbuffer.c:332`): 64 packets stored before `ftps` reads are
   one node, and then one hole for packets 1 to 64 while `ftps` needs 65. The
   reset that would open it is commented out (`sbuffer.c:126-130`): packet 65 is
   refused and sent again for ever. Reads that end inside a node take space from the list
   as well (`sbuffer.c:354`), and nothing gives it back.
7. `FilesArrive` (`tcpds.c:200`): a last packet shorter than the others comes in
   a datagram of its own and is looked for before it. It is never stored, never
   acknowledged and sent again for ever; only a file whose length, with the
   header, is a multiple of 1000 can arrive.

Not runs, but met while modelling:

* A file that fills its last packet is followed by a chunk of no bytes
  (`ftpc.c:34`). When all before it is acknowledged by then, that chunk clears
  `isEmpty` on an empty ring (`cbuffer.c:262`), which then counts as full: twenty
  packets of old bytes are cut, sent and stored, and the last request of `ftps`, for
  25 bytes where fewer are missing (`ftps.c:143`), brings some of them into the
  file. This is `spoilt` in `FileTransfer`: with a server's buffer of 8 packets and a
  file of 5 bytes TLC finds one that `ftps` makes longer.
* A timer with the same time as the head's delta is given delta 0 and expires in the
  same turn (`timerprocess.c:63`), as two packets sent in one turn of `tcpdc` have
  it; the delta of the head also counts from the last turn, not from now
  (`timerprocess.c:231`). The packet is sent once more, and nothing that is checked
  needs it not to be: `TimerSet` lets a timer end at any time.
* README line 116 gives flag 3 of a timer message as Quit; the `break` at
  `timerprocess.c:391` leaves the inner loop only and the process goes on, which is
  how `Turn` models it.

## 5. What is proved

Theorems hold for arbitrary constants, under the assumptions the modules state:

* send buffer and daemon: `SizesAssumption` - `Mss` positive, at most `WinSize`,
  `WinSize` below `BufSize`, `Slots` positive, chunks between 0 and `Mss` bytes;
  the code's values (1000, 20000, 64000, 20, 0..1000) satisfy it;
* `tp`: `TimerAssumption` - durations and timeouts are positive; nothing about how
  late `tp` runs or how many timers there are;
* reassembly buffer: `BufferAssumption` - sizes and requests are positive, the
  sender's window is smaller than the buffer (20 and 64 packets in the code), and
  numbers stay below `MaxInt`, the value with which the code marks the open end;
* the whole transfer: `TransferAssumption` - what the two buffers assume, with
  `WinSize` a multiple of `Mss` (20000 and 1000 in the code) and fewer packets in
  it than the server's buffer holds (20 and 64), a header that is not empty and
  shorter than a packet (24 bytes), files that are not empty and of which one is
  the longest.

| theorem | about | says |
|---|---|---|
| `TypeCorrect` | `CBuffer` | `Spec => []TypeOK` |
| `Tiling` | | `Spec => []WindowTilesRing` |
| `Covering` | | `Spec => []WindowCoversStream` |
| `BytesKept` | | `Spec => []UnackedBytesKept` |
| `StreamIsSent` | | `Spec => []SentIsTheStream` |
| `ClocksMatchFlight` | | `Spec => []OneClockPerPacketInFlight` |
| `TimerTypeCorrect` | `TimerProcess` | `Spec => []TypeOK` |
| `NoTimerLost` | | `Spec => []EachTimerOnce` |
| `TpImplementsService` | | `Spec => ServiceSpec`, the refinement of `TimerSet` |
| `Implements` | `Tcpdc` | `LoopSpec => ImplementsBuffer`, that is `CBuffer!Spec` |
| `ChunksStored` | | `LoopSpec => []ChunkStoredOnce` |
| `LoopTypeCorrect` | | `LoopSpec => []LoopTypeOK` |
| `FlightIsTimed` | | `LoopSpec => []InFlightIsTimed` |
| `DaemonKeepsBytes`, `DaemonSendsTheStream` | | `BytesKept` and `StreamIsSent` for the daemon |
| `BufferTypeCorrect` | `SBuffer` | `~OldCopies: Spec => []TypeOK` |
| `FtpsReadsTheStream` | | `~OldCopies: Spec => []ReadIsTheStream` |
| `NothingAnsweredIsLost` | | `~OldCopies: Spec => []AnsweredIsKept` |
| `NeededIsServed` | | `~OldCopies: Spec => []NextIsServed` |
| `FilledNodesApart` | | `~OldCopies: Spec => []FilledNodesDisjoint` |
| `OneMergeIsEnough` | | `~OldCopies: Spec => []NothingToMerge` |
| `FileCopied` | `FileTransfer` | `Spec => []FileIsCopied`, that is until `spoilt` |
| `NothingForgotten` | | `Spec => []NoByteForgotten`, until `spoilt` |
| `TransferIsSlidingWindow` | | `Spec => IsSlidingWindow`, the refinement of `SlidingWindow`, which allows everything after `spoilt` |
| `TransferTypeCorrect` | | `Spec => []TypeOK` |

The theorems about the reassembly buffer are about a network in which no copy of a
packet comes that `ftps` has read (`OldCopies = FALSE`, as in `sbuffer_reassembly`).
That they need it is finding 5: with such a copy `ReadIsTheStream` is false.

In the transfer such copies come, and packets cut from a misread ring are sent. The
theorems about it hold in each state in which `spoilt` is still false, that is
until the first call of `sendWindow` with a misread ring, or the first time that the
server stores a packet `ftps` has read. (A copy the server recognises or refuses
spoils nothing.) They say therefore that these two are the only ways in which
the file can become another one; that it does is finding 5, and the
chunk of no bytes described after the findings. Where a buffer
fails the model stops, and nothing is claimed of what comes after.

### Send buffer

None of the invariants is inductive alone.

* `IInv` (in `CBufferProofs`) is `TypeOK`, the tiling, `FewerThanNumbers` (the
  list is shorter than the numbers given out), `FrontUnacked` (the first packet
  is never acknowledged, because `checkWindow` follows every acknowledgement) and
  `EmptyAtOneAddress`. The types need the tiling: the number of a packet that is
  sent is bounded only because the list carries the last numbers in order.
* `CoverInv` (in `CBufferStream`) adds `RingOK`: while the ring is not misread,
  `spaceLeft` counts the free bytes and `dend` is the address of the next byte.
  `FrontUnacked` is what makes `addData`'s `checkWindow` release nothing. The
  step that needs care is an acknowledgement that empties the ring: the proof
  goes through exactly because that step sets `misread` when `dend` is at
  `BufSize`, which is where the code goes wrong.
* `KeptInv` adds `UnackedBytesKept`. A cell that `addData` writes is less than
  `size` ahead of `dend`; a stored byte is at least `spaceLeft` ahead of it.
* `StreamInv` (in `CBufferSent`) adds a function `first` that says where the
  stream is cut: packet `num` begins with byte `first[num]`. It exists
  (`\E first`) although no variable holds it, since a released packet is forgotten:
  `checkWindow` adds cuts behind the last one and moves none (`CheckWindowCuts`),
  and what is sent is the piece between two cuts, because its bytes are still in
  the ring (`PayloadIsPiece`, from `KeptInv`). `PiecesFit` draws
  `SentIsTheStream` from it: two packets with one number are the same piece, and
  each begins where the one numbered before it ends.
* `ClockInv` is `IInv` and the property itself. The step that needs care is
  `sendWindow`, where the n-th unsent packet takes the n-th free entry: the `Upto`
  lemmas show that counting is monotonic and hits every rank, so each packet gets
  one entry and no entry two packets (`EntriesGiven`).

### Timer process

`PlaceInv` says that of the places a timer can be in - the delta list, a start
message in the inbox, a notice - it is in at most one, in none before it is
started and after its notice is taken, and that a running one is in one which no
cancellation on its way can reach too late (`Safe`). The deltas do not occur in it: the lemmas `InsertPuts`,
`RemoveTakes` and `DecrementSplits` say of the three functions of
`timerprocess.c` only what they do to the numbers in the list - one more, one
less, a split into those that expired and those that stay -, and this for any
deltas, negative and misplaced ones included (finding 2 is about the deltas). The same lemmas give the refinement: `TimerStepIsService` maps a turn to
one step of `TimerSet`, where the message taken is a start or a cancel and the
timers that expired are notices in some order (`SplitIsExpire`, `FiredIsOrder`).

### Client daemon

* `LoopInv` (in `TcpdcProofs`) is `IInv`, `ChunksAreChunks` (what is in `ftpc`'s
  socket, or kept, has a size `ftpc` may send) and `ChunkStoredOnce`. `Implements`
  needs the invariant: the retry of a kept chunk is a call of `addData` with
  whatever is in `bread`, and an ACK is a call with whatever was transmitted. `ChunksStored`
  goes by the three situations of a chunk - in the socket, kept, stored -; each
  step keeps the situation or moves on to the next. `DaemonKeepsBytes` and
  `DaemonSendsTheStream` are carried over by the refinement: the step from the
  buffer to the daemon needs no second proof.
* `LoopTypeInv` is that with `LoopTypeOK`: every ACK, message to `tp` and notice
  names a packet that has been numbered.
* `TimedInv` adds, while the buffer has not failed, that a timer is in one place
  and that each packet in the list has the timer its state calls for, at a place no cancellation
  behind it can take away. Each handler moves one timer along the way list,
  message, `tp`, notice; `StartsFacts` and `OrderFacts` say what `sendWindow` puts into
  `tp`'s socket, and that the cancellations of a turn are in it before the starts.
  `tp` itself enters as `TimerSet` only, which `TpImplementsService` justifies.

### Reassembly buffer

`BufferInv` (in `SBufferProofs`) is `TypeOK`, `ReadIsTheStream` and `ListInv`, which says what the
circular list is between two calls (`ListOK`):

* the nodes from `dstart` on follow each other without a gap and with no two holes
  side by side; those `ftps` has read stand behind them, at the end of the list;
* a filled node holds packets from `dstart` to `dstart + Packets - 1` only, and
  ends at the address where its last packet belongs, modulo the buffer; only the
  head may have lost bytes to a read;
* a hole `ftps` has still to come to begins where its first packet belongs, and has room for
  exactly its packets unless its end is open;

and that no two neighbours can be joined, that the packets in filled nodes are
those acknowledged and not read, that `readPos` is the first byte of the head,
and that each of their bytes is in its cell.

The argument, one lemma each:

* `MergeKeeps`: any set of lists that one join keeps is kept by the whole of
  `mergeList`, with the least counterexample in place of an induction;
  `JoinKeepsList` shows that one join keeps `ListOK` and what the list holds.
  `NoJoinSame` and `NoJoinEnds`: on a list with nothing to join `mergeList` does
  nothing, and ends. So the first call in `addData` can neither move a node nor loop.
* `FillFits`: the packet and what is left of the hole on its sides fit in the
  place of the hole, in each of the four ways to split it; `SpliceOK` puts them
  into the list. `StoreGives`: the cells written are those of the packet and of no
  other packet in the buffer, since numbers `dstart` to `dstart + Packets - 1` are
  less than a lap apart.
* `UsedUpOK` and `PartLeftOK`: a whole read turns the head into a spent node
  behind the others, a part moves its first byte; `GetIsStream`: the bytes handed
  over are the next ones of the stream, wherever the node wraps.

The ways in which `sbuffer.c` fails (finding 3) are in the model and in the
theorems: a call that loops or copies with a bad length sets `fault` and changes
nothing else, and the invariant holds up to there.

### The whole transfer

`FileTransfer` is two state machines and a set of messages, so its invariant is
theirs and what ties them together. The inductive invariant is `PromiseInv` (in
`FileTransferProofs`): the types, and `TransferInv` as long as the transfer is not
spoilt. `SpoiltStays` says that `spoilt` is never taken back, so in a step after which
it is false `TransferInv` held before, and `NextTransfer` has to show only that
such a step keeps it. `TransferInv` is

* `StreamInv` of the client's buffer and `BufferInv` of the server's;
* `InStep(answered)` (in `CBufferSent`), which looks at the client's buffer with
  the server's numbers in mind. It says that packet `num` begins with byte
  `(num-1) * Mss`: a packet that was sent is whole, or ends the stream. And that
  what the client has released, or marked as acknowledged, the server has taken. Without it neither
  half would go through: `SBuffer` numbers bytes by packets, `CBuffer` cuts
  packets wherever the stored bytes end;
* `NetOK`: a packet in the network was sent, an ACK in it is of a packet that was
  taken; `AnsweredOK`: the server has taken only packets filled by what `ftpc`
  has written, and `ftps` read only such; `FtpcOK`: as long as the file has not
  ended what is written is a whole number of packets; `FtpsOK`: what `ftps` has
  written to its file is what it has read without the header.

`InStep` holds because `ftpc` sends full chunks up to the last and the window is
a multiple of `Mss`: `checkWindow` then cuts at multiples of `Mss` (`WindowGoesOn`
says where the window ends after each call). It is not claimed of packets cut
from a misread ring: those have no place in the stream, and sending them is
what spoils the transfer.

The buffers' own theorems are about `CBufferSent` and `SBufferProofs`, which
`FileTransferProofs` instantiates as `K` and `B`; the lemmas `Client...` and
`Server...` say that a call of the `C` or `S` of `FileTransfer` is a call of those.
Then `ClientSide` and `ServerSide` split each step: the client's steps leave the
server alone and put only packets that were sent into the network, the server's
steps leave the client alone. The step where both meet is `StoreKeeps`, a packet
that arrives: `PacketInNet` draws from `InStep` and `NetOK` that the payload of a
full packet is the bytes its number stands for, which is what `SBuffer` takes for
granted of the packets it is given; and a packet that a hole takes, while the transfer
is not spoilt, is one that `ftps` has not read, which `FitsKeeps` needs.

`FileCopied` is then `ReadIsTheStream` counted from the end of the header.
`NothingForgotten` puts the two halves together (`PacketOfByte`): a byte of a
packet the server has taken is at `ftps` or in the server's buffer
(`AnsweredIsKept`), any other one has not been released and is in the client's
ring (`UnackedBytesKept`). For the refinement `ClientSlides` maps a step of the client to
an offer or a release, `ServerSlides` the arrival of a packet to its acceptance,
`ReadSlides` a read to a delivery, everything else to a stutter, and (`SpoiltSlides`)
what comes after `spoilt` to the window's last disjunct; a release of
what has arrived with all before it is what `InStep` gives, and so is that no
packet taken lies beyond the window (`IsPacket`).

**Lemmas of general use.** `OffsetsIsSum` shows that the recursive function `Offsets` exists
and is the running sum (by the least counterexample, `NatMin`, since the
induction theorems of the library take an operator as parameter, which the
provers at hand cannot instantiate); `FollowsExists`, `MergingExists` and `JoinExists` do
the same for the recursive functions of the other modules. `OffsetsOfRest` says how the sum
changes when a front is dropped and packets are appended; `DivMod` to `WrapFacts` what reduction
modulo the ring does; `CutsFacts` and `FreshFacts` that cutting a gap gives full
packets and one rest; `RestTiles` and `CheckWindowTiles` that `checkWindow`
keeps the tiling; `SpaceLeftCounts` that `spaceLeft` tells full from empty;
`Laps...` and `SameAddress` what it means for two stream positions to share a cell.
Each action has one lemma per invariant.

**Only model-checked:**

* the liveness properties (`TimersEndWhenQuiet`, `ChunkIsAnswered`,
  `WholePacketsArrive`): fairness and ENABLED are out of the prover's reach;
* `FirstLapIsAccepted`: it needs an invariant about the sizes of all holes, spent ones
  included, which `ListOK` says nothing of.

## 6. Not modelled

* `timeComps` (printed only), `printList`, `getSize` (never called).
* What a cancel message overwrites: `tp` cuts only start messages into four numbers, so
  the last eight bytes of a cancel message go into `temp[4]` one behind the other, four of
  them past its end (`timerprocess.c:347-370`), and `canceltimer` sends 16 bytes of an
  allocation of 8 (`cbuffer.c:69-75`). The effect depends on the layout of the stack;
  the model takes one where it is nothing that is used again.
* What `temp` of `tcpdc.c:101` would hold if the stack were laid out anew in each
  call (section 2, Tcpdc).
* The Troll, beyond loss, delay, repetition and reordering.
* Garbled packets, but as lost ones: they fail the checksum and leave no trace but
  a log line. The packet number is outside the checksum (`tcpds.c:158,169`); a Troll that garbles
  it alone is not modelled.
* Several packets in one datagram (`tcpds.c:152`), several ACKs or notices in one
  (`tcpdc.c:153,166`): each sender puts one in.
* `crc32.c`: a pure function; the models tell only whether a packet is accepted.
* `tcpapi.c`: each caller sets the destination address right before it sends, in
  one thread.
* A crash and a restart of a process: nothing is kept on disk but the file of
  `ftps`, and no process looks for earlier state.
* Sequence numbers and times are integers without a width: 2^31 packets of 1000
  bytes are out of reach of a transfer.
* `timerDEMO.c` and `sbuffertest.c`: drivers with fixed inputs.

## 7. What could follow

1. `FileTransfer` over `Tcpdc` in place of `CBuffer`, with `TimerProcess` for `tp`:
   a check of what the proofs say about the composition, at the cost of a much
   larger state space.
2. A proof of `FirstLapIsAccepted`, from an invariant that counts the bytes the holes
   have lost to reads.
