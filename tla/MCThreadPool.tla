---------------------------- MODULE MCThreadPool ----------------------------
(* The constants of the thread pool's model-checking run: three threads,   *)
(* so that one can serve, one wait and one be about to wait.               *)
EXTENDS ThreadPool

CONSTANTS w1, w2, w3

MCPool == {w1, w2, w3}
=============================================================================
