---------------------------- MODULE TimedConnect ----------------------------
(***************************************************************************)
(* A client that connects with a timeout, client/client.c with             *)
(* socket_connect_timeout of common/tcp_client.c, and the kernels between  *)
(* it and a server that listens with socket_create of common/tcp_server.c. *)
(* The socket is made nonblocking for connect(), select() waits for it to  *)
(* become writable or for the time to pass, and SO_ERROR says how it went. *)
(***************************************************************************)
EXTENDS Integers, Sequences

CONSTANTS
  Conns,       \* the clients that may be run, one connection each
  Backlog,     \* what listen() lets wait for accept()
  MaxSay,      \* bound: MaxSay[c], how many texts client c sends: none if it
               \* is client.c, which closes the connection at once
  Unreached    \* bound: the clients whose network may be unreachable

ASSUME ConnectAssumption ==
  /\ Backlog \in Nat \ {0}
  /\ MaxSay \in [Conns -> Nat]
  /\ Unreached \subseteq Conns

VARIABLES
  alive,       \* the server listens
  backlog,     \* connections completed by the kernel, not yet accepted
  conn,        \* conn[c]: where c is in socket_connect_timeout, its result
  peer,        \* peer[c]: the state of the socket at c's end
  said,        \* said[c]: texts client c has sent
  unread,      \* unread[c]: those the server has not received
  rst          \* a reset from c's kernel: "none", "due" or "come"

connectVars == <<alive, backlog, conn, peer, said, unread, rst>>

ConnPcs    == {"none", "select", "late", "connected", "failed"}
PeerStates == {"none", "trying", "unreachable", "refused", "open", "reset", "closed"}

ConnectTypeOK ==
  /\ alive \in BOOLEAN
  /\ backlog \in Seq(Conns)
  /\ conn \in [Conns -> ConnPcs]
  /\ peer \in [Conns -> PeerStates]
  /\ said \in [Conns -> Nat]
  /\ unread \in [Conns -> Nat]
  /\ rst \in [Conns -> {"none", "due", "come"}]

ConnectInit ==
  /\ alive = TRUE
  /\ backlog = <<>>
  /\ conn = [c \in Conns |-> "none"]
  /\ peer = [c \in Conns |-> "none"]
  /\ said = [c \in Conns |-> 0]
  /\ unread = [c \in Conns |-> 0]
  /\ rst = [c \in Conns |-> "none"]

-----------------------------------------------------------------------------
(* The client.                                                             *)

(* connect() has its result at once, or will have it later.  A network     *)
(* that cannot be reached is a result at once, and select() is waited for  *)
(* all the same.                                                           *)
socket_connect_timeout(c) ==
  /\ conn[c] = "none"
  /\ \/ /\ alive /\ Len(backlog) < Backlog
        /\ conn' = [conn EXCEPT ![c] = "connected"]
        /\ peer' = [peer EXCEPT ![c] = "open"]
        /\ backlog' = Append(backlog, c)
     \/ /\ conn' = [conn EXCEPT ![c] = "select"]
        /\ peer' = [peer EXCEPT ![c] = "trying"]
        /\ UNCHANGED backlog
     \/ /\ c \in Unreached
        /\ conn' = [conn EXCEPT ![c] = "select"]
        /\ peer' = [peer EXCEPT ![c] = "unreachable"]
        /\ UNCHANGED backlog
  /\ UNCHANGED <<alive, said, unread, rst>>

(* select() returned 0, whatever happens before close().                   *)
TimesOut(c) ==
  /\ conn[c] = "select"
  /\ peer[c] = "trying"
  /\ conn' = [conn EXCEPT ![c] = "late"]
  /\ UNCHANGED <<alive, backlog, peer, said, unread, rst>>

(* Mutant: the socket is not closed when the time is up.                   *)
GiveUp_Leaks(c) ==
  /\ conn[c] = "late"
  /\ conn' = [conn EXCEPT ![c] = "failed"]
  /\ UNCHANGED <<alive, backlog, peer, said, unread, rst>>

(* close(), perhaps of a connection that has come about by now.            *)
GiveUp(c) ==
  /\ conn[c] = "late"
  /\ conn' = [conn EXCEPT ![c] = "failed"]
  /\ peer' = [peer EXCEPT ![c] = "closed"]
  /\ UNCHANGED <<alive, backlog, said, unread, rst>>

(* Mutant: a socket that is writable is taken for a connected one.         *)
Writable_NotAsked(c) ==
  /\ conn[c] = "select"
  /\ peer[c] # "trying"
  /\ conn' = [conn EXCEPT ![c] = "connected"]
  /\ UNCHANGED <<alive, backlog, peer, said, unread, rst>>

(* select() returned 1, and getsockopt() tells how connect() went: SO_ERROR*)
(* is 0 also when it had failed at once, for that error is not kept.       *)
Writable(c) ==
  /\ conn[c] = "select"
  /\ \/ /\ peer[c] \in {"open", "unreachable"}
        /\ conn' = [conn EXCEPT ![c] = "connected"]
        /\ UNCHANGED peer
     \/ /\ peer[c] \in {"refused", "reset"}
        /\ conn' = [conn EXCEPT ![c] = "failed"]
        /\ peer' = [peer EXCEPT ![c] = "closed"]
  /\ UNCHANGED <<alive, backlog, said, unread, rst>>

(* select() or getsockopt() failed: the socket is closed as it is.         *)
SelectFails(c) ==
  /\ conn[c] = "select"
  /\ conn' = [conn EXCEPT ![c] = "failed"]
  /\ peer' = [peer EXCEPT ![c] = "closed"]
  /\ UNCHANGED <<alive, backlog, said, unread, rst>>

(* What a client other than client.c does before it leaves.                *)
Say(c) ==
  /\ conn[c] = "connected"
  /\ peer[c] = "open"
  /\ said[c] < MaxSay[c]
  /\ said' = [said EXCEPT ![c] = @ + 1]
  /\ unread' = [unread EXCEPT ![c] = @ + 1]
  /\ UNCHANGED <<alive, backlog, conn, peer, rst>>

Leave(c) ==
  /\ conn[c] = "connected"
  /\ peer[c] # "closed"
  /\ peer' = [peer EXCEPT ![c] = "closed"]
  /\ UNCHANGED <<alive, backlog, conn, said, unread, rst>>

Client(c) == \/ socket_connect_timeout(c) \/ Writable(c) \/ TimesOut(c)
             \/ GiveUp(c) \/ SelectFails(c) \/ Say(c) \/ Leave(c)

-----------------------------------------------------------------------------
(* The kernels.                                                            *)

(* The handshake is over; with a full backlog it is put off.               *)
Establish(c) ==
  /\ peer[c] = "trying"
  /\ alive /\ Len(backlog) < Backlog
  /\ peer' = [peer EXCEPT ![c] = "open"]
  /\ backlog' = Append(backlog, c)
  /\ UNCHANGED <<alive, conn, said, unread, rst>>

Refuse(c) ==
  /\ peer[c] = "trying"
  /\ ~alive
  /\ peer' = [peer EXCEPT ![c] = "refused"]
  /\ UNCHANGED <<alive, backlog, conn, said, unread, rst>>

(* The reset that a text to a client that has left brings about.           *)
Reset(c) ==
  /\ rst[c] = "due"
  /\ rst' = [rst EXCEPT ![c] = "come"]
  /\ UNCHANGED <<alive, backlog, conn, peer, said, unread>>

Kernel(c) == Establish(c) \/ Refuse(c) \/ Reset(c)
=============================================================================
