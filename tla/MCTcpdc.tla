-------------------------------- MODULE MCTcpdc --------------------------------
(* A small instance of Tcpdc for TLC. *)
EXTENDS Tcpdc

================================================================================
