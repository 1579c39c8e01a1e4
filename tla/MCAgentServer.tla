--------------------------- MODULE MCAgentServer ---------------------------
(* The constants of the agents server's model-checking run: three clients, *)
(* of whom one says something before it leaves.                            *)
EXTENDS AgentServer

CONSTANTS c1, c2, c3

MCConns    == {c1, c2, c3}
MCSpeakers == {c1}
=============================================================================
