---------------------------- MODULE MCEpollServer ----------------------------
(* The constants of the epoll server's model-checking run: three clients   *)
(* for two descriptors; one sends more than the buffer holds, one a byte,  *)
(* one nothing.                                                            *)
EXTENDS EpollServer, TLC

CONSTANTS c1, c2, c3

MCConns  == {c1, c2, c3}
MCMaxSay == (c1 :> 3) @@ (c2 :> 1) @@ (c3 :> 0)
=============================================================================
