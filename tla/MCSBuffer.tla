------------------------------- MODULE MCSBuffer -------------------------------
(* Small instances of SBuffer for TLC. *)
EXTENDS SBuffer

================================================================================
