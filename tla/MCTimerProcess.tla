---------------------------- MODULE MCTimerProcess -----------------------------
(* Small instances of TimerProcess for TLC. *)
EXTENDS TimerProcess

================================================================================
