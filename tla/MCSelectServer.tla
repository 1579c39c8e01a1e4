--------------------------- MODULE MCSelectServer ---------------------------
(* The constants of the select server's model-checking run.                *)
EXTENDS SelectServer

CONSTANTS c1, c2, c3, c4

MCConns   == {c1, c2, c3, c4}
MCMaxSay  == [c \in MCConns |-> IF c = c1 THEN 2 ELSE IF c = c2 THEN 2 ELSE 0]
MCLeavers == {c1}
=============================================================================
