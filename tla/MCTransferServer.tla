-------------------------- MODULE MCTransferServer --------------------------
(* The constants of the simple file transfer's model-checking run: three   *)
(* clients, of whom one has nothing to send; a file that ends inside a     *)
(* block, of which the server has a longer one, and one that ends with one.*)
EXTENDS TransferServer, TLC

CONSTANTS c1, c2, c3, fa, fb

MCConns == {c1, c2, c3}
MCTold  == (c1 :> {fa}) @@ (c2 :> {fb}) @@ (c3 :> {None})
MCSize  == (fa :> 1) @@ (fb :> 2)
MCOldSize == (fa :> 4) @@ (fb :> 0)
=============================================================================
