---------------------------- MODULE MCPollServer ----------------------------
(* The constants of the poll server's model-checking run: three clients    *)
(* for two entries, of whom two send something.                            *)
EXTENDS PollServer

CONSTANTS c1, c2, c3

MCConns    == {c1, c2, c3}
MCSpeakers == {c1, c2}
=============================================================================
