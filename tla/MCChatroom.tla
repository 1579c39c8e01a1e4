----------------------------- MODULE MCChatroom -----------------------------
(* The constants of the chat room's model-checking runs.                   *)
EXTENDS Chatroom, TLC

Public   == [mark |-> "", word |-> Nobody]
NoBlank  == [mark |-> "@", word |-> Nobody]
Asks     == [mark |-> "#", word |-> Nobody]
Private  == [mark : {"@"}, word : Users]

AllLines == {Public, NoBlank, Asks} \cup Private
NoLines  == {}

UserSymmetry == Permutations(Users)
StaySymmetry == Permutations(Conns \ Leavers) \cup Permutations(Users)
=============================================================================
