----------------------------- MODULE SlidingWindow -----------------------------
(***************************************************************************)
(* What the two daemons promise together, with buffers, packets in the     *)
(* network and timers left out: a window that slides over a stream cut     *)
(* into packets of Mss bytes.                                              *)
(***************************************************************************)
EXTENDS Integers

CONSTANTS
  Mss,        \* bytes in a packet
  WinSize     \* bytes that may be ahead of what is released

VARIABLES
  offered,    \* bytes the sender has taken
  accepted,   \* the numbers of the packets the receiver has taken
  released,   \* bytes the sender has forgotten
  delivered,  \* bytes the receiver has passed on
  spoilt      \* the network has brought what the promise does not provide for

Init == offered = 0 /\ accepted = {} /\ released = 0 /\ delivered = 0 /\ spoilt = FALSE

(* The first n bytes of the stream have been taken by the receiver. *)
Arrived(n) == \A s \in 1..(n + Mss - 1) \div Mss : s \in accepted

(* The sender takes bytes. *)
Offer ==
  /\ UNCHANGED <<accepted, released, delivered>>
  /\ offered' > offered

(* The receiver takes a packet, in any order within the window. *)
Accept ==
  /\ \E s \in accepted' \ accepted :
       /\ accepted' = accepted \cup {s}
       /\ s * Mss <= offered
       /\ (s - 1) * Mss < released + WinSize
  /\ UNCHANGED <<released, delivered, offered>>

(* The sender forgets bytes, only such as have arrived, with all before    *)
(* them; it may offer more in the same step.                               *)
Release ==
  /\ released' > released /\ Arrived(released')
  /\ offered' >= offered
  /\ UNCHANGED <<accepted, delivered>>

(* The receiver passes bytes on, in order. *)
Deliver ==
  /\ delivered' > delivered /\ Arrived(delivered')
  /\ UNCHANGED <<accepted, released, offered>>

(* After it is spoilt nothing is promised. *)
Next ==
  \/ ~spoilt /\ ~spoilt' /\ (Offer \/ Accept \/ Release \/ Deliver)
  \/ spoilt'

Spec == Init /\ [][Next]_<<offered, accepted, released, delivered, spoilt>>

================================================================================
