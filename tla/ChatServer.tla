----------------------------- MODULE ChatServer -----------------------------
(***************************************************************************)
(* The chat server, chatroom/server/my_server.c: the main thread accepts   *)
(* connections and logs users in, a worker thread per logged in user reads *)
(* what the user sends, and a forwarder thread per chat message delivers   *)
(* it.  All share the table of users; there is no lock.  One action is one *)
(* access to what the threads share: a field of the table, the variable    *)
(* sub of main, the buffer rmsg of a worker, a socket.                     *)
(***************************************************************************)
EXTENDS ChatNet, FiniteSets

CONSTANTS
  MaxClient,   \* MAX_CLIENT, the entries of the user table
  Fwds         \* bound: the forwarder threads there may ever be

ASSUME ServerAssumption ==
  /\ MaxClient \in Nat \ {0}
  /\ Fwds \cap Conns = {}
  /\ None \notin Fwds

VARIABLES
  main,        \* locals of main: pc, fd, conn, recvmsg.msg.from, loop index
  sub,         \* the cell &sub that main passes to every worker
  client,      \* the user table; entry -1 is the memory below it
  thr,         \* workers and forwarders: pc, message at hand, loop index
  loc,         \* locals of a worker: its sub, client_fd, the socket it reads
  rmsg,        \* the receive buffer on a worker's stack
  arg,         \* whose rmsg a forwarder was given a pointer to
  handed,      \* history: the entry main allocated for the worker's user
  intact,      \* history: so far every worker found the entry allocated for
               \* it in sub, and there always was a free one
  due          \* history: the clients online when a forward began

histVars == <<handed, intact, due>>
serverVars == <<main, sub, client, thr, loc, rmsg, arg, histVars>>

Slots   == 0 .. MaxClient - 1
Cells   == -1 .. MaxClient - 1
Threads == Conns \cup Fwds

MainPcs   == {"accept", "recv", "check", "refuse", "welcome", "find",
              "online", "fd", "name", "spawn"}
WorkerPcs == {"none", "start", "fd", "greet", "recv", "block", "store",
              "close", "offline", "bye", "scan", "send", "exit"}
FwdPcs    == {"none", "head", "body", "scan", "send", "exit"}

Goto(t, pc) == thr' = [thr EXCEPT ![t].pc = pc]

(* main's locals are dead when it is back at accept.                       *)
Accepting == [pc |-> "accept", fd |-> 0, conn |-> None, from |-> Nobody, i |-> 0]

-----------------------------------------------------------------------------
(* The main thread.                                                        *)

accept ==
  /\ main.pc = "accept"
  /\ backlog # <<>>
  /\ backlog' = Tail(backlog)
  /\ \E fd \in Fds :
       /\ IsLowestFree(fd)
       /\ fdt' = [fdt EXCEPT ![fd] = Head(backlog)]
       /\ main' = [main EXCEPT !.pc = "recv", !.fd = fd, !.conn = Head(backlog)]
  /\ UNCHANGED <<alive, peer, up, reply, got, rst>>
  /\ UNCHANGED <<sub, client, thr, loc, rmsg, arg, histVars>>

(* main waits for the login message of this one connection.                *)
RecvLogin ==
  /\ main.pc = "recv"
  /\ chat_recv(main.conn)
  /\ main' = [main EXCEPT !.pc = "check", !.i = 0,
                          !.from = Head(up[main.conn]).head.from]
  /\ UNCHANGED <<alive, backlog, peer, fdt, reply, got, rst>>
  /\ UNCHANGED <<sub, client, thr, loc, rmsg, arg, histVars>>

RecvLoginFails ==
  /\ main.pc = "recv"
  /\ RecvFails(main.conn)
  /\ close(main.fd)
  /\ main' = Accepting
  /\ UNCHANGED <<alive, backlog, peer, up, reply, got, rst>>
  /\ UNCHANGED <<sub, client, thr, loc, rmsg, arg, histVars>>

(* Mutant: strcmp tested without the "!".                                  *)
IsOnline_Inverted(s, n) == client[s].online /\ client[s].name # n

(* check_online, one iteration: entry s is a user of that name, online.    *)
IsOnline(s, n) == client[s].online /\ client[s].name = n

check_online ==
  /\ main.pc = "check"
  /\ \/ /\ main.i = MaxClient
        /\ main' = [main EXCEPT !.pc = "welcome", !.i = 0]
     \/ /\ main.i < MaxClient
        /\ IsOnline(main.i, main.from)
        /\ main' = [main EXCEPT !.pc = "refuse", !.i = 0]
     \/ /\ main.i < MaxClient
        /\ ~IsOnline(main.i, main.from)
        /\ main' = [main EXCEPT !.i = @ + 1]
  /\ UNCHANGED netVars
  /\ UNCHANGED <<sub, client, thr, loc, rmsg, arg, histVars>>

Already == Message(Nobody, Nobody, 3, <<"already", Nobody>>)
Welcome == Message(Nobody, Nobody, 2, <<"welcome", Nobody>>)

(* Mutant: the refused client is neither told nor cut off.                 *)
Refuse_Silently ==
  /\ main.pc = "refuse"
  /\ main' = Accepting
  /\ UNCHANGED netVars
  /\ UNCHANGED <<sub, client, thr, loc, rmsg, arg, histVars>>

Refuse ==
  /\ main.pc = "refuse"
  /\ chat_send(Already, main.fd)
  /\ close(main.fd)
  /\ main' = Accepting
  /\ UNCHANGED <<backlog, peer, up>>
  /\ UNCHANGED <<sub, client, thr, loc, rmsg, arg, histVars>>

Greet ==
  /\ main.pc = "welcome"
  /\ chat_send(Welcome, main.fd)
  /\ main' = [main EXCEPT !.pc = "find"]
  /\ UNCHANGED <<backlog, peer, fdt, up>>
  /\ UNCHANGED <<sub, client, thr, loc, rmsg, arg, histVars>>

(* Mutant: the test is missing.                                            *)
Free_Unchecked(s) == TRUE

Free(s) == ~client[s].online

(* find_sub, one iteration, and the assignment of its result to sub.       *)
find_sub ==
  /\ main.pc = "find"
  /\ \/ /\ main.i = MaxClient
        /\ sub' = -1
        /\ main' = [main EXCEPT !.pc = "online", !.i = 0]
     \/ /\ main.i < MaxClient
        /\ Free(main.i)
        /\ sub' = main.i
        /\ main' = [main EXCEPT !.pc = "online", !.i = 0]
     \/ /\ main.i < MaxClient
        /\ ~Free(main.i)
        /\ main' = [main EXCEPT !.i = @ + 1]
        /\ UNCHANGED sub
  /\ UNCHANGED netVars
  /\ UNCHANGED <<client, thr, loc, rmsg, arg, histVars>>

(* The three assignments to client[sub], each visible to the scans at      *)
(* once.  With sub = -1 they write below the table: into memory nobody     *)
(* scans, or the process crashes.                                          *)
SetOnline ==
  /\ main.pc = "online"
  /\ client' = [client EXCEPT ![sub].online = TRUE]
  /\ main' = [main EXCEPT !.pc = "fd"]
  /\ \/ UNCHANGED alive
     \/ sub = -1 /\ alive' = FALSE
  /\ UNCHANGED <<backlog, peer, fdt, up, reply, got, rst>>
  /\ UNCHANGED <<sub, thr, loc, rmsg, arg, histVars>>

SetFd ==
  /\ main.pc = "fd"
  /\ client' = [client EXCEPT ![sub].fd = main.fd]
  /\ main' = [main EXCEPT !.pc = "name"]
  /\ UNCHANGED netVars
  /\ UNCHANGED <<sub, thr, loc, rmsg, arg, histVars>>

SetName ==
  /\ main.pc = "name"
  /\ client' = [client EXCEPT ![sub].name = main.from]
  /\ main' = [main EXCEPT !.pc = "spawn"]
  /\ UNCHANGED netVars
  /\ UNCHANGED <<sub, thr, loc, rmsg, arg, histVars>>

(* pthread_create(.., work, &sub): the worker gets the address of sub.     *)
SpawnWorker ==
  /\ main.pc = "spawn"
  /\ Goto(main.conn, "start")
  /\ handed' = [handed EXCEPT ![main.conn] = sub]
  /\ main' = Accepting
  /\ UNCHANGED netVars
  /\ UNCHANGED <<sub, client, loc, rmsg, arg, intact, due>>

Main == \/ accept \/ RecvLogin \/ RecvLoginFails \/ check_online \/ Refuse
        \/ Greet \/ find_sub \/ SetOnline \/ SetFd \/ SetName \/ SpawnWorker

-----------------------------------------------------------------------------
(* msg_forward, run by a forwarder on a copy of a chat message and by a    *)
(* worker on its own notices.  The test of an entry and the use of its fd  *)
(* are separate reads.                                                     *)

Addressed(m, s) ==
  /\ client[s].online
  /\ \/ m.head.flag = 1 /\ client[s].name = m.head.to
     \/ m.head.flag \in {0, 2} /\ client[s].name # m.head.from
     \/ m.head.flag = 4 /\ client[s].name = m.head.from

(* A request for the online list is answered with a notice.                *)
Outgoing(m) ==
  IF m.head.flag = 4
    THEN Message(m.head.from, m.head.to, 2, <<"list", Nobody>>)
    ELSE m

(* Main has put entry s online and not named it yet.                       *)
BeingFilled(s) == main.pc \in {"fd", "name"} /\ s = sub

(* Which entry a worker stands for, as long as it has not given it up.     *)

InSession(w) ==
  \/ thr[w].pc \in {"start", "fd", "greet", "recv", "block", "store",
                    "close", "offline"}
  \/ thr[w].pc \in {"scan", "send"} /\ thr[w].ret = "recv"

EntryOf(w) == IF thr[w].pc = "start" THEN handed[w] ELSE loc[w].sub

(* The clients that have an entry of the table, online.                    *)
Online == {c \in Conns : /\ InSession(c)
                         /\ EntryOf(c) \in Slots
                         /\ client[EntryOf(c)].online}

(* Call msg_forward(m) in thread t, which goes on at pc afterwards.        *)
CallForward(t, m, pc) ==
  /\ thr' = [thr EXCEPT ![t] = [pc |-> "scan", msg |-> m, i |-> 0, ret |-> pc]]
  /\ due' = [due EXCEPT ![t] = Online]

Return(t) ==
  /\ thr' = [thr EXCEPT ![t] = [pc |-> @.ret, msg |-> ZeroMsg, i |-> 0, ret |-> "exit"]]
  /\ due' = [due EXCEPT ![t] = {}]

(* Mutant: the scan ends at the number of users online, as the loops of    *)
(* chatroom/server/server.c do.                                            *)
ScanEnd_Count == Cardinality({s \in Slots : client[s].online})

ScanEnd == MaxClient

ForwardTest(t) ==
  /\ thr[t].pc = "scan"
  /\ \/ /\ thr[t].i >= ScanEnd
        /\ Return(t)
     \/ /\ thr[t].i < ScanEnd
        /\ ~Addressed(thr[t].msg, thr[t].i)
        /\ thr' = [thr EXCEPT ![t].i = @ + 1]
        /\ UNCHANGED due
     \/ /\ thr[t].i < ScanEnd
        /\ Addressed(thr[t].msg, thr[t].i)
        /\ Goto(t, "send")
        /\ UNCHANGED due
  /\ UNCHANGED netVars
  /\ UNCHANGED <<main, sub, client, loc, rmsg, arg, handed, intact>>

ForwardSend(t) ==
  /\ thr[t].pc = "send"
  /\ chat_send(Outgoing(thr[t].msg), client[thr[t].i].fd)
  /\ IF thr[t].msg.head.flag \in {1, 4}
       THEN Return(t)
       ELSE /\ thr' = [thr EXCEPT ![t].pc = "scan", ![t].i = @ + 1]
            /\ UNCHANGED due
  /\ UNCHANGED <<backlog, peer, fdt, up>>
  /\ UNCHANGED <<main, sub, client, loc, rmsg, arg, handed, intact>>

msg_forward(t) == ForwardTest(t) \/ ForwardSend(t)

(* Mutant: the buffer is static, one for all workers.                      *)
Buffer_Static(w) == CHOOSE v \in Conns : TRUE

(* Each worker receives into a buffer of its own.                          *)
Buffer(w) == w

(* A forwarder first copies the message it was pointed to; the worker may  *)
(* be receiving the next one into the same buffer.  The routing fields     *)
(* come before the text.                                                   *)
CopyHead(f) ==
  /\ thr[f].pc = "head"
  /\ thr' = [thr EXCEPT ![f].pc = "body", ![f].msg.head = rmsg[arg[f]].head]
  /\ UNCHANGED netVars
  /\ UNCHANGED <<main, sub, client, loc, rmsg, arg, histVars>>

CopyBody(f) ==
  /\ thr[f].pc = "body"
  /\ CallForward(f, [thr[f].msg EXCEPT !.body = rmsg[arg[f]].body], "exit")
  /\ UNCHANGED netVars
  /\ UNCHANGED <<main, sub, client, loc, rmsg, arg, handed, intact>>

Forwarder(f) == CopyHead(f) \/ CopyBody(f) \/ msg_forward(f)

-----------------------------------------------------------------------------
(* A worker, the thread work(), named by the connection it was created     *)
(* for.  It learns which entry is its own by reading main's sub.           *)

NoLocals == [sub |-> 0, fd |-> 0, sock |-> None]

ReadSub(w) ==
  /\ thr[w].pc = "start"
  /\ loc' = [loc EXCEPT ![w].sub = sub]
  /\ intact' = (intact /\ sub = handed[w] /\ sub # -1)
  /\ Goto(w, "fd")
  /\ UNCHANGED netVars
  /\ UNCHANGED <<main, sub, client, rmsg, arg, handed, due>>

ReadFd(w) ==
  /\ thr[w].pc = "fd"
  /\ loc' = [loc EXCEPT ![w].fd = client[loc[w].sub].fd]
  /\ Goto(w, "greet")
  /\ UNCHANGED netVars
  /\ UNCHANGED <<main, sub, client, rmsg, arg, histVars>>

Notice(kind, w) ==
  Message(Server, Nobody, 2, <<kind, client[loc[w].sub].name>>)

LoginNotice(w) ==
  /\ thr[w].pc = "greet"
  /\ CallForward(w, Notice("online", w), "recv")
  /\ UNCHANGED netVars
  /\ UNCHANGED <<main, sub, client, loc, rmsg, arg, handed, intact>>

(* recv(client_fd) waits on the socket the descriptor stands for when it   *)
(* is called; a descriptor that is not an open socket fails at once.       *)
CallRecv(w) ==
  /\ thr[w].pc = "recv"
  /\ IF fdt[loc[w].fd] \in Conns
       THEN /\ loc' = [loc EXCEPT ![w].sock = fdt[loc[w].fd]]
            /\ Goto(w, "block")
            /\ UNCHANGED rmsg
       ELSE /\ thr' = [thr EXCEPT ![w].pc = "store", ![w].msg = ZeroMsg]
            /\ rmsg' = [rmsg EXCEPT ![Buffer(w)].head = ZeroMsg.head]
            /\ UNCHANGED loc
  /\ UNCHANGED netVars
  /\ UNCHANGED <<main, sub, client, arg, histVars>>

(* The assignment rmsg = chat_recv(..) overwrites the buffer a forwarder   *)
(* may still be reading, routing fields first, then the text.  When recv   *)
(* fails it is overwritten with zeros.                                     *)
RecvMsg(w) ==
  /\ thr[w].pc = "block"
  /\ chat_recv(loc[w].sock)
  /\ thr' = [thr EXCEPT ![w].pc = "store", ![w].msg = Head(up[loc[w].sock])]
  /\ loc' = [loc EXCEPT ![w].sock = None]
  /\ rmsg' = [rmsg EXCEPT ![Buffer(w)].head = Head(up[loc[w].sock]).head]
  /\ UNCHANGED <<alive, backlog, peer, fdt, reply, got, rst>>
  /\ UNCHANGED <<main, sub, client, arg, histVars>>

RecvEnd(w) ==
  /\ thr[w].pc = "block"
  /\ RecvFails(loc[w].sock)
  /\ thr' = [thr EXCEPT ![w].pc = "store", ![w].msg = ZeroMsg]
  /\ loc' = [loc EXCEPT ![w].sock = None]
  /\ rmsg' = [rmsg EXCEPT ![Buffer(w)].head = ZeroMsg.head]
  /\ UNCHANGED netVars
  /\ UNCHANGED <<main, sub, client, arg, histVars>>

IsIdle(f) == thr[f].pc = "none"

(* Public, private and list messages are handed to a new thread, other     *)
(* flags are ignored; a failed recv is a logout.                           *)
Dispatch(w) ==
  /\ thr[w].pc = "store"
  /\ rmsg' = [rmsg EXCEPT ![Buffer(w)].body = thr[w].msg.body]
  /\ \/ /\ thr[w].msg = ZeroMsg
        /\ Goto(w, "close")
        /\ UNCHANGED arg
     \/ /\ thr[w].msg # ZeroMsg
        /\ thr[w].msg.head.flag \in {0, 1, 4}
        /\ \E f \in Fwds :
             /\ IsIdle(f)
             /\ f = CHOOSE g \in Fwds : IsIdle(g)
             /\ thr' = [thr EXCEPT ![w].pc = "recv", ![w].msg = ZeroMsg,
                                   ![f].pc = "head"]
             /\ arg' = [arg EXCEPT ![f] = Buffer(w)]
     \/ /\ thr[w].msg # ZeroMsg
        /\ thr[w].msg.head.flag \notin {0, 1, 4}
        /\ thr' = [thr EXCEPT ![w].pc = "recv", ![w].msg = ZeroMsg]
        /\ UNCHANGED arg
  /\ UNCHANGED netVars
  /\ UNCHANGED <<main, sub, client, loc, histVars>>

CloseFd(w) ==
  /\ thr[w].pc = "close"
  /\ close(loc[w].fd)
  /\ Goto(w, "offline")
  /\ UNCHANGED <<alive, backlog, peer, up, reply, got, rst>>
  /\ UNCHANGED <<main, sub, client, loc, rmsg, arg, histVars>>

(* Mutant: the entry stays online.                                         *)
SetOffline_Forgotten(w) ==
  /\ thr[w].pc = "offline"
  /\ Goto(w, "bye")
  /\ UNCHANGED netVars
  /\ UNCHANGED <<main, sub, client, loc, rmsg, arg, histVars>>

(* Mutant: the descriptor is closed a second time.                         *)
SetOffline_ClosesAgain(w) ==
  /\ thr[w].pc = "offline"
  /\ client' = [client EXCEPT ![loc[w].sub].online = FALSE]
  /\ close(loc[w].fd)
  /\ Goto(w, "bye")
  /\ UNCHANGED <<alive, backlog, peer, up, reply, got, rst>>
  /\ UNCHANGED <<main, sub, loc, rmsg, arg, histVars>>

SetOffline(w) ==
  /\ thr[w].pc = "offline"
  /\ client' = [client EXCEPT ![loc[w].sub].online = FALSE]
  /\ Goto(w, "bye")
  /\ UNCHANGED netVars
  /\ UNCHANGED <<main, sub, loc, rmsg, arg, histVars>>

LogoutNotice(w) ==
  /\ thr[w].pc = "bye"
  /\ CallForward(w, Notice("offline", w), "exit")
  /\ loc' = [loc EXCEPT ![w] = NoLocals]           \* dead from here on
  /\ handed' = [handed EXCEPT ![w] = 0]
  /\ UNCHANGED netVars
  /\ UNCHANGED <<main, sub, client, rmsg, arg, intact>>

work(w) == \/ ReadSub(w) \/ ReadFd(w) \/ LoginNotice(w) \/ CallRecv(w)
           \/ RecvMsg(w) \/ RecvEnd(w) \/ Dispatch(w) \/ CloseFd(w)
           \/ SetOffline(w) \/ LogoutNotice(w) \/ msg_forward(w)

-----------------------------------------------------------------------------
(* A killed process takes no more steps.                                   *)
ServerNext ==
  /\ alive
  /\ \/ Main
     \/ \E w \in Conns : work(w)
     \/ \E f \in Fwds : Forwarder(f)

ServerInit ==
  /\ main = Accepting
  /\ sub = 0
  /\ client = [s \in Cells |-> [online |-> FALSE, fd |-> 0, name |-> Nobody]]
  /\ thr = [t \in Threads |-> [pc |-> "none", msg |-> ZeroMsg, i |-> 0, ret |-> "exit"]]
  /\ loc = [w \in Conns |-> NoLocals]
  /\ rmsg = [w \in Conns |-> ZeroMsg]
  /\ arg = [f \in Fwds |-> None]
  /\ handed = [w \in Conns |-> 0]
  /\ intact = TRUE
  /\ due = [t \in Threads |-> {}]

MainTypeOK ==
  main \in [pc : MainPcs, fd : Fds, conn : Conns \cup {None}, from : Names,
            i : 0 .. MaxClient]
TableTypeOK ==
  /\ sub \in Cells
  /\ client \in [Cells -> [online : BOOLEAN, fd : Fds, name : Names]]
ThreadTypeOK ==
  thr \in [Threads -> [pc : WorkerPcs \cup FwdPcs, msg : Msg, i : 0 .. MaxClient,
                      ret : {"recv", "exit"}]]
LocalTypeOK ==
  /\ loc \in [Conns -> [sub : Cells, fd : Fds, sock : Conns \cup {None}]]
  /\ rmsg \in [Conns -> Msg]
  /\ arg \in [Fwds -> Conns \cup {None}]
HistoryTypeOK ==
  /\ handed \in [Conns -> Cells]
  /\ intact \in BOOLEAN
  /\ due \in [Threads -> SUBSET Conns]

ServerTypeOK ==
  MainTypeOK /\ TableTypeOK /\ ThreadTypeOK /\ LocalTypeOK /\ HistoryTypeOK
=============================================================================
