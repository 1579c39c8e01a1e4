--------------------------- MODULE MCFirstChatroom ---------------------------
(* The constants of the first chat room's model-checking run.              *)
EXTENDS FirstChatroom, TLC

MCLines == {[mark |-> "", word |-> Nobody]} \cup [mark : {"@"}, word : Users]

MCSymmetry == Permutations(Users)
=============================================================================
