------------------------------ MODULE TimerProcess -----------------------------
(***************************************************************************)
(* The timer process tp: timerprocess.c, and starttimer, canceltimer and   *)
(* timerquit of cbuffer.c through which tcpdc talks to it.                 *)
(*                                                                         *)
(* Running timers form a delta list: dtime counts from the node before,    *)
(* that of the head from the last call of decrement().  One turn of the    *)
(* main loop sleeps in select(), handles at most one message and then      *)
(* takes the time that has passed off the head.                            *)
(*                                                                         *)
(* Time is counted in ticks; a second is Second of them.  The clock reads  *)
(* whole milliseconds, so a tick stands for any multiple of one.           *)
(***************************************************************************)
EXTENDS Integers, Sequences, FiniteSets, SequencesExt

CONSTANTS
  Timers,     \* the byte sequence numbers timers are started for
  Durations,  \* the times asked for, in ticks (tcpdc always asks for 1 s)
  Second,     \* ticks in a second
  IdleWait,   \* how long select() sleeps when no timer runs (10 ms)
  Latency,    \* BOUND: how long the scheduler may leave tp ready but not run
  InboxMax,   \* BOUND: messages waiting in tp's socket
  Overdue,    \* BOUND: beyond this many ticks, late is late
  Watched,    \* BOUND: the timers whose ticks the history counts
  Resent,     \* BOUND: the timers that may be started again
  Kinds       \* BOUND: what the client does: start, cancel, quit

ASSUME TimerAssumption ==
  /\ Durations \subseteq Nat \ {0}
  /\ Second \in Nat \ {0} /\ IdleWait \in Nat \ {0}
  /\ Latency \in Nat /\ InboxMax \in Nat \ {0} /\ Overdue \in Nat
  /\ Resent \subseteq Timers /\ Watched \subseteq Timers /\ Kinds \subseteq {"start", "cancel", "quit"}

VARIABLES
  list,       \* the delta list, head first
  since,      \* ticks since decrement() last read the clock ("prev")
  wait,       \* the timeout of the select() in progress
  late,       \* ticks for which select() could have returned
  inbox,      \* messages in tp's socket
  notices     \* expiration notices in tcpdc's socket

(* History: what the client asked for. *)
VARIABLES
  asked,      \* timer -> its state at the client
  left        \* timer -> ticks that must still pass before it is due

tpVars == <<list, since, wait, late, inbox, notices>>
vars   == <<tpVars, asked, left>>

TimerNode == [byteSeqNum : Timers, dtime : Int]
Message   == [flag : {"start"}, byteSeqNum : Timers, time : Durations]
             \cup [flag : {"cancel"}, byteSeqNum : Timers]
             \cup [flag : {"quit"}]

Members(l) == {l[i].byteSeqNum : i \in 1..Len(l)}

--------------------------------------------------------------------------------

(* Elapsed(l)[i]: the deltas of the first i nodes, added up. *)
Elapsed(l) ==
  LET sum[i \in 0..Len(l)] == IF i = 0 THEN 0 ELSE sum[i-1] + l[i].dtime
  IN  sum

(* A name with the suffix _ and a word is a mutant: the definition below it *)
(* with one slip.  No specification uses it; it shows which property would *)
(* notice the slip.                                                        *)

(* Mutant: the new node takes the place of the one it should precede. *)
Splice_overwrite(l, p, node) == IF p > Len(l) THEN Append(l, node) ELSE [l EXCEPT ![p] = node]

(* A new node at position p of l, its delta taken off the node after it. *)
Splice(l, p, node) ==
  LET new == InsertAt(l, p, node)
  IN  IF p = Len(new) THEN new
      ELSE [new EXCEPT ![p+1].dtime = @ - node.dtime]

(* Where insertValue()'s traversal stops: the first node at which time is  *)
(* reached; past the last one when none does.                              *)
StopAt(l, time) ==
  LET reached == {i \in 1..Len(l) : Elapsed(l)[i] >= time}
  IN  IF reached = {} THEN Len(l) + 1
      ELSE CHOOSE i \in reached : \A j \in reached : i <= j

(* insertValue(): replace the head, append, or insert in the middle.  In   *)
(* the middle the code puts the new node AFTER the one it stopped at, yet  *)
(* with the delta it would have before it.  When the traversal runs off    *)
(* the end, the last delta is in elapse and is then added to it again.     *)
InsertValue(l, time, byteSeqNum) ==
  LET n       == Len(l)
      stop    == StopAt(l, time)
      elapse  == Elapsed(l)[stop - 1]
      node(d) == [byteSeqNum |-> byteSeqNum, dtime |-> d]
      append  == Append(l, node(time - (IF elapse = 0 THEN l[n].dtime ELSE elapse)))
  IN  CASE n = 0 -> <<node(time)>>
        [] n > 0 /\ time = l[1].dtime -> Splice(l, 1, node(0))
        [] n > 0 /\ time < l[1].dtime -> Splice(l, 1, node(time))
        [] n = 1 /\ time > l[1].dtime -> Append(l, node(time - l[1].dtime))
        [] n > 1 /\ time > l[1].dtime /\ stop < n -> Splice(l, stop + 1, node(time - elapse))
        [] OTHER -> IF elapse + l[n].dtime <= time THEN append
                    ELSE Splice(l, n, node(time - elapse))

(* The conversion of a delta in seconds to int: towards zero. *)
WholeSeconds(d) ==
  IF d >= 0 THEN Second * (d \div Second) ELSE -(Second * ((-d) \div Second))

(* Mutant: a search that finds nothing removes the node it ended at. *)
RemoveValue_orLast(l, byteSeqNum) ==
  LET found == {i \in 1..Len(l) : l[i].byteSeqNum = byteSeqNum}
  IN  IF l = <<>> THEN l
      ELSE RemoveAt(l, IF found = {} THEN Len(l) ELSE CHOOSE j \in found : TRUE)

(* removeValue(): the first node with the number goes; only the whole      *)
(* seconds of its delta are passed to the node after it.                   *)
RemoveValue(l, byteSeqNum) ==
  LET found == {i \in 1..Len(l) : l[i].byteSeqNum = byteSeqNum}
      i     == CHOOSE j \in found : \A k \in found : j <= k
  IN  IF found = {} THEN l
      ELSE IF i = Len(l) THEN SubSeq(l, 1, i - 1)
      ELSE RemoveAt([l EXCEPT ![i+1].dtime = @ + WholeSeconds(l[i].dtime)], i)

(* Due(l, dif)[k]: the dtime node k has when it becomes head, dif ticks     *)
(* having passed.  A head that expires late passes its negative rest on,   *)
(* and once more, in whole seconds, through removeValue().                 *)
Due(l, dif) ==
  LET due[k \in 1..Len(l)] == IF k = 1 THEN l[1].dtime - dif
                              ELSE l[k].dtime + due[k-1] + WholeSeconds(due[k-1])
  IN  due

(* The first k timers of l have expired; dtime is what the next one has.   *)
Expired(l, k, dtime) ==
  [rest  |-> IF k = Len(l) THEN <<>> ELSE [SubSeq(l, k + 1, Len(l)) EXCEPT ![1].dtime = dtime],
   fired |-> [j \in 1..k |-> l[j].byteSeqNum]]

(* Mutant: "head->next != NULL" for "head != NULL": the last timer stays. *)
Decrement_keepLast(l, dif) ==
  LET due == Due(l, dif)
      k   == IF Len(l) > 1 /\ due[1] <= 0 THEN 1 ELSE 0
  IN  IF l = <<>> THEN [rest |-> l, fired |-> <<>>]
      ELSE Expired(l, k, IF due[k+1] < 0 THEN 0 ELSE due[k+1])

(* decrement(): dif ticks have passed; the list that remains and the       *)
(* timers that expired, in order.  When the head has 0 left it expires     *)
(* alone; when it has less, so do those that are due behind it.            *)
Decrement(l, dif) ==
  LET n   == Len(l)
      due == Due(l, dif)
      k   == IF due[1] = 0 THEN 1
             ELSE CHOOSE j \in 0..n : /\ \A i \in 1..j : due[i] <= 0
                                      /\ j < n => due[j+1] > 0
  IN  IF l = <<>> THEN [rest |-> l, fired |-> <<>>]
      ELSE Expired(l, k, IF k < n THEN due[k+1] ELSE 0)

--------------------------------------------------------------------------------

Init ==
  /\ list = <<>> /\ since = 0 /\ wait = IdleWait /\ late = 0
  /\ inbox = <<>> /\ notices = <<>>
  /\ asked = [b \in Timers |-> "fresh"]
  /\ left = [b \in Timers |-> 0]

(* select() returns on a message, or when its timeout is over (at once if  *)
(* the timeout is negative, which it refuses).                             *)
Ready == inbox # <<>> \/ since >= wait

(* A select() that failed leaves the socket alone. *)
HasMessage == inbox # <<>> /\ wait >= 0

(* Mutant: the arguments of insertValue() swapped. *)
Handled_swapped ==
  IF ~HasMessage THEN list
  ELSE LET m == Head(inbox)
       IN  CASE m.flag = "start"  -> InsertValue(list, m.byteSeqNum, m.time)
             [] m.flag = "cancel" -> RemoveValue(list, m.byteSeqNum)
             [] m.flag = "quit"   -> list

(* The list after the message of this turn, if there is one. *)
Handled ==
  IF ~HasMessage THEN list
  ELSE LET m == Head(inbox)
       IN  CASE m.flag = "start"  -> InsertValue(list, m.time, m.byteSeqNum)
             [] m.flag = "cancel" -> RemoveValue(list, m.byteSeqNum)
             [] m.flag = "quit"   -> list    \* "break" leaves the inner loop only

(* One turn of the loop in main(), from the return of select() to the next *)
(* call.  A turn may insert a timer and expire it at once.                 *)
Turn ==
  /\ Ready
  /\ LET d == Decrement(Handled, since)
     IN  /\ list' = d.rest
         /\ notices' = notices \o d.fired
         /\ wait' = IF d.rest = <<>> THEN IdleWait ELSE d.rest[1].dtime
  /\ inbox' = IF HasMessage THEN Tail(inbox) ELSE inbox
  /\ since' = 0 /\ late' = 0
  /\ UNCHANGED <<asked, left>>

(* The client waits for b and no notice of b is on its way. *)
Pending(b) == asked[b] = "running" /\ b \notin Range(notices)

Tick ==
  /\ Ready => late < Latency
  /\ since' = since + 1
  /\ late' = IF Ready THEN late + 1 ELSE late
  /\ left' = [b \in Timers |-> IF b \in Watched /\ Pending(b) /\ left[b] > -Overdue THEN left[b] - 1 ELSE left[b]]
  /\ UNCHANGED <<list, wait, inbox, notices, asked>>

(* starttimer(): sendWindow() calls it for a packet that was never sent,   *)
(* those in ascending order, or whose notice timerExpire() has handled.    *)
StartTimer(b, time) ==
  /\ "start" \in Kinds
  /\ \/ asked[b] = "fresh" /\ \A c \in Timers : c < b => asked[c] # "fresh"
     \/ asked[b] = "notified" /\ b \in Resent
  /\ Len(inbox) < InboxMax
  /\ inbox' = Append(inbox, [flag |-> "start", byteSeqNum |-> b, time |-> time])
  /\ asked' = [asked EXCEPT ![b] = "running"]
  /\ left' = [left EXCEPT ![b] = IF b \in Watched THEN time ELSE 0]
  /\ UNCHANGED <<list, since, wait, late, notices>>

(* canceltimer(): recvACK() calls it on every acknowledgement, late and    *)
(* repeated ones included.                                                 *)
CancelTimer(b) ==
  /\ "cancel" \in Kinds
  /\ asked[b] # "fresh"
  /\ Len(inbox) < InboxMax
  /\ inbox' = Append(inbox, [flag |-> "cancel", byteSeqNum |-> b])
  /\ asked' = [asked EXCEPT ![b] = "cancelled"]
  /\ left' = [left EXCEPT ![b] = 0]
  /\ UNCHANGED <<list, since, wait, late, notices>>

(* timerquit(): the message is received and changes nothing. *)
TimerQuit ==
  /\ "quit" \in Kinds
  /\ Len(inbox) < InboxMax
  /\ inbox' = Append(inbox, [flag |-> "quit"])
  /\ UNCHANGED <<list, since, wait, late, notices, asked, left>>

(* tcpdc reads the next notice and calls timerExpire(). *)
TakeNotice ==
  /\ notices # <<>>
  /\ notices' = Tail(notices)
  /\ asked' = [asked EXCEPT ![Head(notices)] = "notified"]
  /\ left' = [left EXCEPT ![Head(notices)] = 0]
  /\ UNCHANGED <<list, since, wait, late, inbox>>

Client ==
  \/ \E b \in Timers, time \in Durations : StartTimer(b, time)
  \/ \E b \in Timers : CancelTimer(b)
  \/ TimerQuit
  \/ TakeNotice

Next == Turn \/ Tick \/ Client

Spec == Init /\ [][Next]_vars

(* Weak fairness: tp's loop runs, time passes, and tcpdc reads its socket. *)
(* (The first line is WF_vars(Turn), ENABLED Turn being Ready: TLC takes    *)
(* long to find that.)                                                     *)
Fairness ==
  /\ <>[]Ready => []<><<Turn>>_vars
  /\ WF_vars(Tick) /\ WF_vars(TakeNotice)

FairSpec == Spec /\ Fairness

--------------------------------------------------------------------------------

TypeOK ==
  /\ list \in Seq(TimerNode)
  /\ since \in Nat /\ wait \in Int /\ late \in 0..Latency
  /\ inbox \in Seq(Message) /\ Len(inbox) <= InboxMax
  /\ notices \in Seq(Timers)
  /\ asked \in [Timers -> {"fresh", "running", "cancelled", "notified"}]
  /\ left \in [Timers -> Int]

Messages(b, flags) ==
  {i \in 1..Len(inbox) : inbox[i].flag \in flags /\ inbox[i].flag # "quit" /\ inbox[i].byteSeqNum = b}

(* A timer is in one place only: at most one node of the list, start       *)
(* message or notice carries its number, and one it still waits for is in  *)
(* exactly one of them.  No insertion, cancellation or expiry, in whatever *)
(* order the messages cross the notices, loses or doubles a timer.         *)
EachTimerOnce ==
  \A b \in Timers :
    LET nodes   == {i \in 1..Len(list) : list[i].byteSeqNum = b}
        starts  == Messages(b, {"start"})
        expired == {i \in 1..Len(notices) : notices[i] = b}
        places  == Cardinality(nodes) + Cardinality(starts) + Cardinality(expired)
    IN  /\ places <= 1
        /\ asked[b] = "running" => places = 1

(* A timer that is late is not overtaken for ever: the wait past its due   *)
(* time stays below the longest time anybody asks for.                     *)
Deadline ==
  \A b \in Watched : asked[b] = "running" =>
    \E time \in Durations : left[b] >= -(time + Latency)

(* Once the client asks for nothing more, every timer expires that still   *)
(* runs: the list drains, nodes with overdue, negative deltas included.    *)
TimersEndWhenQuiet ==
  <>[][Len(inbox') <= Len(inbox)]_vars
    => <>[](\A b \in Timers : asked[b] # "running")

(* What tp promises with time left out. *)
Service == INSTANCE TimerSet WITH counting <- Members(list)

(* tp implements it: whatever the list looks like, a turn adds or removes  *)
(* what its message says, and notices go out for timers it counts only.    *)
ServiceSpec == Service!Spec

================================================================================
