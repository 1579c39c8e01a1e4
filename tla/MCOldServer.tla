---------------------------- MODULE MCOldServer ----------------------------
(* The constants of the first echo server's model-checking run: client.c,  *)
(* which closes what it has connected, and one that says something first.  *)
EXTENDS OldServer, TLC

CONSTANTS c1, c2

MCConns  == {c1, c2}
MCMaxSay == (c1 :> 0) @@ (c2 :> 1)
=============================================================================
