------------------------------- MODULE ChatNet -------------------------------
(***************************************************************************)
(* The sockets between the chat server (chatroom/server/my_server.c) and   *)
(* its clients (chatroom/client/my_client.c), as the code of both uses     *)
(* them through common/my_chatroom.h.  The kernel is not part of the       *)
(* repository: a connection is a pair of message streams, the server's     *)
(* descriptor table maps descriptors to connections, and accept() hands    *)
(* out the lowest free descriptor, so a closed descriptor is reused.       *)
(*                                                                         *)
(* A struct Msg has a fixed size and is sent by one send(): a stream is a  *)
(* sequence of whole messages (recv() returning part of one is out of      *)
(* this model).  send() does not wait: socket buffers are not full.  What  *)
(* reaches a client is the flag of the first message, its reply, and the   *)
(* set of the messages it prints.                                          *)
(***************************************************************************)
EXTENDS Integers, Sequences

CONSTANTS
  Conns,       \* the connections that may be made, one per run of the client
  Users,       \* the names clients are configured with (MY_NAME)
  MaxFd,       \* descriptors 1 .. MaxFd are what accept() may return
  MaxSend,     \* bound: chat messages one client sends
  None,        \* no connection: the entry of a descriptor that is not open
  Stdin,       \* entry of descriptor 0, open but not a socket
  Nobody,      \* the empty name ""
  Server,      \* the name notices are sent under
  Recorded     \* bound: the kinds of messages the history got keeps

ASSUME NetAssumption ==
  /\ MaxFd \in Nat \ {0}
  /\ MaxSend \in Nat
  /\ None # Stdin
  /\ None \notin Conns
  /\ Stdin \notin Conns
  /\ Nobody # Server
  /\ Nobody \notin Users
  /\ Server \notin Users

VARIABLES
  alive,       \* the server process has not been killed
  backlog,     \* connections completed by the kernel, not yet accepted
  peer,        \* peer[c]: the client's end of c is open
  fdt,         \* the server's descriptor table
  up,          \* up[c]: messages from client to server not yet received
  reply,       \* reply[c]: the flag of the first message that reached c
  got,         \* history: the messages of a recorded kind that reached c
  rst          \* rst[c]: the client's kernel answered a message with a reset

netVars == <<alive, backlog, peer, fdt, up, reply, got, rst>>

Fds   == 0 .. MaxFd
Names == Users \cup {Nobody, Server}
Flags == 0 .. 4
NoReply == -1

(* struct Msg, its message text abstracted to what a reader can tell       *)
(* apart: a chat text is known by its author, its number and what it was   *)
(* typed as, a notice by the user it is about.                             *)
Texts  == [by : Conns, no : 1 .. MaxSend, flag : Flags, to : Names]
Bodies == ({"text"} \X Texts)
            \cup ({"online", "offline"} \X Names)
            \cup ({"welcome", "already", "list", "empty"} \X {Nobody})
Heads  == [from : Names, to : Names, flag : Flags]
Msg    == [head : Heads, body : Bodies]

Message(from, to, flag, body) ==
  [head |-> [from |-> from, to |-> to, flag |-> flag], body |-> body]

(* memset(&tmp, 0, sizeof(tmp)): what chat_recv returns when recv fails.   *)
ZeroMsg == Message(Nobody, Nobody, 0, <<"empty", Nobody>>)

-----------------------------------------------------------------------------
IsLowestFree(fd) == /\ fdt[fd] = None
                    /\ \A g \in Fds : fdt[g] = None => fd <= g

(* close(fd): whatever the descriptor stands for now; EBADF has no effect. *)
close(fd) == fdt' = [fdt EXCEPT ![fd] = None]

(* The server's end of c is still open.                                    *)
Serving(c) == /\ alive
              /\ \/ \E fd \in Fds : fdt[fd] = c
                 \/ \E i \in 1 .. Len(backlog) : backlog[i] = c

(* chat_send(m, fd) by the server, whose callers all ignore the result.    *)
(* A message sent to a client that has closed is answered with a reset;    *)
(* writing after the reset has arrived raises SIGPIPE, which the server    *)
(* neither ignores nor handles: the process ends.                          *)
chat_send(m, fd) ==
  \/ /\ fdt[fd] \notin Conns                       \* EBADF, ENOTSOCK
     /\ UNCHANGED <<alive, reply, got, rst>>
  \/ \E c \in Conns :
       /\ fdt[fd] = c
       /\ peer[c]
       /\ reply' = [reply EXCEPT ![c] = IF @ = NoReply THEN m.head.flag ELSE @]
       /\ got' = IF m.body[1] \in Recorded
                   THEN [got EXCEPT ![c] = @ \cup {m}]
                   ELSE got
       /\ UNCHANGED <<alive, rst>>
  \/ \E c \in Conns :
       /\ fdt[fd] = c
       /\ ~peer[c]
       /\ rst' = [rst EXCEPT ![c] = TRUE]
       /\ UNCHANGED <<alive, reply, got>>
  \/ \E c \in Conns :
       /\ fdt[fd] = c
       /\ rst[c]
       /\ alive' = FALSE
       /\ UNCHANGED <<reply, got, rst>>

(* chat_recv on connection c: the next message is taken from the stream,   *)
(* or recv returns 0 at its end, or -1 once the connection was reset.      *)
chat_recv(c) == /\ up[c] # <<>>
                /\ up' = [up EXCEPT ![c] = Tail(@)]

(* Mutant: the end of the stream, recv() = 0, is not taken for a failure.  *)
RecvFails_OnReset(c) == rst[c]

RecvFails(c) == rst[c] \/ (~peer[c] /\ up[c] = <<>>)

NetTypeOK ==
  /\ alive \in BOOLEAN
  /\ backlog \in Seq(Conns)
  /\ peer \in [Conns -> BOOLEAN]
  /\ fdt \in [Fds -> Conns \cup {None, Stdin}]
  /\ up \in [Conns -> Seq(Msg)]
  /\ reply \in [Conns -> Flags \cup {NoReply}]
  /\ got \in [Conns -> SUBSET Msg]
  /\ rst \in [Conns -> BOOLEAN]

NetInit ==
  /\ alive = TRUE
  /\ backlog = <<>>
  /\ peer = [c \in Conns |-> FALSE]
  /\ fdt = [fd \in Fds |-> IF fd = 0 THEN Stdin ELSE None]
  /\ up = [c \in Conns |-> <<>>]
  /\ reply = [c \in Conns |-> NoReply]
  /\ got = [c \in Conns |-> {}]
  /\ rst = [c \in Conns |-> FALSE]
=============================================================================
