------------------------------ MODULE Chatroom ------------------------------
(***************************************************************************)
(* The chat room: the server of chatroom/server/my_server.c and the        *)
(* clients of chatroom/client/my_client.c over their sockets.              *)
(***************************************************************************)
EXTENDS ChatServer, ChatClient

vars == <<netVars, serverVars, cli>>

Init == NetInit /\ ServerInit /\ ClientInit

Next == \/ ServerNext /\ UNCHANGED cli
        \/ ClientNext /\ UNCHANGED serverVars

Spec == Init /\ [][Next]_vars

(* The server's threads are scheduled; a client sends its login and reads  *)
(* the reply unless it leaves.  Nobody has to connect, to type or to leave.*)
Fairness ==
  /\ WF_vars(alive /\ Main /\ UNCHANGED cli)
  /\ \A w \in Conns : WF_vars(alive /\ work(w) /\ UNCHANGED cli)
  /\ \A f \in Fwds : WF_vars(alive /\ Forwarder(f) /\ UNCHANGED cli)
  /\ \A c \in Conns :
       WF_vars((SendLogin(c) \/ RecvReply(c)) /\ UNCHANGED serverVars)

FairSpec == Spec /\ Fairness

TypeOK == NetTypeOK /\ ServerTypeOK /\ ClientTypeOK

-----------------------------------------------------------------------------
(* main is at work on entry s: the worker for its user is not there yet.   *)
BeingAllocated(s) == main.pc \in {"fd", "name", "spawn"} /\ s = sub

-----------------------------------------------------------------------------
(* Safety of the user table.                                               *)

(* No user is online twice: the names of two online entries differ.  An    *)
(* entry main has put online but not named yet has a previous user's name. *)
(* (check_online and the three assignments of main, my_server.c:139-155.)  *)
UniqueNames ==
  \A s, t \in Slots :
    /\ client[s].online /\ ~BeingFilled(s)
    /\ client[t].online /\ ~BeingFilled(t)
    /\ client[s].name = client[t].name
    => s = t

(* main puts nobody into an entry a worker still stands for, although      *)
(* find_sub and the assignments that follow run beside logouts: as long as *)
(* every worker found its own entry in &sub (my_server.c:100-105, 152-155).*)
NoTakeover ==
  [][main.pc = "online" /\ main'.pc = "fd" /\ sub # -1 /\ intact
       => \A w \in Conns : InSession(w) => EntryOf(w) # sub]_vars

(* As long as every worker found its own entry in &sub (my_server.c:60 and *)
(* :156), each online entry has exactly one worker, created for the user   *)
(* the entry names, and its fd is that user's connection until the worker  *)
(* has closed it.                                                          *)
SessionOwned ==
  intact =>
    \A s \in Slots :
      client[s].online /\ ~BeingAllocated(s) =>
        \E w \in Conns :
          /\ {v \in Conns : InSession(v) /\ EntryOf(v) = s} = {w}
          /\ client[s].name = cli[w].me
          /\ fdt[client[s].fd] = w \/ thr[w].pc = "offline"

(* On the same condition a worker reads and closes the connection of its   *)
(* own user only, although descriptors are reused and close() and          *)
(* online = 0 are two steps (my_server.c:74-78).                           *)
OwnConnection ==
  intact =>
    \A w \in Conns :
      /\ thr[w].pc \in {"recv", "block", "store", "close"}
           => fdt[loc[w].fd] = w
      /\ thr[w].pc = "block" => loc[w].sock = w

-----------------------------------------------------------------------------
(* Delivery.                                                               *)

IsFor(m, d) ==
  \/ m.head.flag = 1 /\ cli[d].me = m.head.to
  \/ m.head.flag \in {0, 2} /\ cli[d].me # m.head.from
  \/ m.head.flag = 4 /\ cli[d].me = m.head.from

(* When msg_forward (my_server.c:26-57) has scanned the whole table,       *)
(* everyone it is for who was online when it began and is still connected  *)
(* has the message, whoever came or went meanwhile; a private message or a *)
(* list request that gets that far had no such addressee.                  *)
ForwardComplete ==
  intact =>
    \A t \in Threads :
      thr[t].pc = "scan" /\ thr[t].i >= ScanEnd =>
        \A d \in due[t] :
          peer[d] /\ IsFor(thr[t].msg, d) =>
            /\ thr[t].msg.head.flag \in {0, 2}
            /\ thr[t].msg.body[1] \in Recorded => thr[t].msg \in got[d]

(* Nobody's text is delivered under another user's name: a forwarder may   *)
(* read rmsg while it is overwritten (my_server.c:74 and :94), but then    *)
(* the name is still the worker's user, or empty after a failed recv.      *)
Attribution ==
  intact =>
    \A c \in Conns : \A m \in got[c] :
      m.body[1] = "text" => m.head.from \in {cli[m.body[2].by].me, Nobody}

-----------------------------------------------------------------------------
(* Liveness.                                                               *)

(* A client that connects is let in, refused or cut off in the end, though *)
(* main serves one login at a time (my_server.c:128-157), unless the       *)
(* server is killed or two workers have come to share a descriptor: then   *)
(* one may take the login message main waits for.                          *)
LoginAnswered ==
  \A c \in Conns :
    cli[c].pc = "login"
      ~> (cli[c].pc \in {"chat", "end"} \/ ~intact \/ ~alive)

(* User u is online but no client of that name is running.                 *)
Lingers(u) ==
  /\ \E s \in Slots : client[s].online /\ client[s].name = u
  /\ \A c \in Conns : cli[c].me = u => cli[c].pc \in {"start", "end"}

(* A user who has left does not stay online (my_server.c:75-78), so that   *)
(* the user can come back.                                                 *)
LogoutCleared ==
  \A u \in Users : Lingers(u) ~> (~Lingers(u) \/ ~intact \/ ~alive)
=============================================================================
