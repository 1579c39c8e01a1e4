--------------------------- MODULE MCFileTransfer ---------------------------
(* The constants of the file transfer's model-checking runs.               *)
EXTENDS FileTransfer, TLC

CONSTANTS f0, f1, f2, f3

(* An empty file, one that ends inside a packet, one that ends with one,   *)
(* and one of three packets.                                               *)
MCSize == (f0 :> 0) @@ (f1 :> 2) @@ (f2 :> 6) @@ (f3 :> 8)
=============================================================================
