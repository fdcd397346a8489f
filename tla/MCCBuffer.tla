------------------------------- MODULE MCCBuffer -------------------------------
(* Small instances of CBuffer for TLC. *)
EXTENDS CBuffer

================================================================================
