-------------------------------- MODULE TimerSet -------------------------------
(* What a timer service promises, with time left out: it counts for a set  *)
(* of timers, starts and cancels them on request, and sends one notice for *)
(* every timer that it stops counting by itself.                           *)
EXTENDS Sequences, SequencesExt

CONSTANT Timers

VARIABLES
  counting,   \* the timers it counts for
  notices     \* the notices sent and not read yet, oldest first

Init == counting = {} /\ notices = <<>>

(* Of the timers in after, some expire, in some order. *)
Expire(after) ==
  \E due \in SUBSET after : \E order \in SetToSeqs(due) :
    /\ counting' = after \ due
    /\ notices' = notices \o order

Start(b)  == b \notin counting /\ Expire(counting \cup {b})
Cancel(b) == Expire(counting \ {b})

(* The client reads the oldest notice. *)
Read ==
  /\ notices # <<>>
  /\ notices' = Tail(notices)
  /\ UNCHANGED counting

Next ==
  \/ \E b \in Timers : Start(b) \/ Cancel(b)
  \/ Expire(counting)
  \/ Read

Spec == Init /\ [][Next]_<<counting, notices>>

================================================================================
