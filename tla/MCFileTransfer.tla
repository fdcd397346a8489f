---------------------------- MODULE MCFileTransfer -----------------------------
(* Small instances of FileTransfer for TLC. *)
EXTENDS FileTransfer

================================================================================
