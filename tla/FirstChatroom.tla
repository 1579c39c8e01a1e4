---------------------------- MODULE FirstChatroom ----------------------------
(***************************************************************************)
(* The first version of the chat room, chatroom/server/server.c with       *)
(* chatroom/client/client.c.  Here a worker delivers what it receives      *)
(* itself, in loops that end at sum, the number of users online, which     *)
(* main and the workers count up and down without a lock.  One action is   *)
(* one access to what the threads share; check_online is one action, as    *)
(* entries only go offline while main looks through them.                  *)
(*                                                                         *)
(* A message has no field for the addressee: head.to stands for the word   *)
(* after "@" in its text.                                                  *)
(***************************************************************************)
EXTENDS ChatClient, FiniteSets

CONSTANT MaxClient   \* MAX_CLIENT, the entries of the user table

ASSUME FirstAssumption ==
  /\ MaxClient \in Nat \ {0}
  /\ \A line \in Lines : line.mark = "" \/ (line.mark = "@" /\ line.word \in Users)

VARIABLES
  main,        \* locals of main: pc, fd, conn, recvmsg.msg.from, loop index,
               \* the value of sum it has read
  sub,         \* the cell &sub that main passes to every worker
  sum,         \* how many users are online
  client,      \* the user table; entry -1 is the memory below it
  thr,         \* workers: pc, sub, client_fd, the socket read, rmsg.msg, loop
               \* index, the value of sum read
  handed,      \* history: the entry main allocated for the worker's user
  intact,      \* history: so far every worker found the entry allocated for
               \* it in sub, and there always was a free one
  counted,     \* history: so far no two threads changed sum at once
  due          \* history: whom send_all has to reach: the users online when
               \* it began, if there was no gap in the table and while
               \* nobody logs out

serverVars == <<main, sub, sum, client, thr, handed, intact, counted, due>>
vars == <<netVars, serverVars, cli>>

Slots == 0 .. MaxClient - 1
Cells == -1 .. MaxClient - 1

MainPcs == {"accept", "recv", "check", "refuse", "welcome", "load", "store",
            "find", "online", "fd", "name", "spawn"}
WorkPcs == {"none", "start", "fd", "recv", "block", "all", "who", "send",
            "tell", "close", "offline", "load", "store", "exit"}

TypeOK ==
  /\ NetTypeOK
  /\ ClientTypeOK
  /\ main \in [pc : MainPcs, fd : Fds, conn : Conns \cup {None}, from : Names,
               i : 0 .. MaxClient, n : Int]
  /\ sub \in Cells
  /\ sum \in Int
  /\ client \in [Cells -> [online : BOOLEAN, name : Names, fd : Fds]]
  /\ thr \in [Conns -> [pc : WorkPcs, sub : Cells, fd : Fds, sock : Conns \cup {None},
                        msg : Msg, i : Nat, n : Int]]
  /\ \A w \in Conns : thr[w].pc = "send" => thr[w].i \in Slots
  /\ handed \in [Conns -> Cells]
  /\ intact \in BOOLEAN
  /\ counted \in BOOLEAN
  /\ due \in [Conns -> SUBSET Conns]

Accepting == [pc |-> "accept", fd |-> 0, conn |-> None, from |-> Nobody, i |-> 0, n |-> 0]
Idle      == [pc |-> "none", sub |-> 0, fd |-> 0, sock |-> None, msg |-> ZeroMsg,
              i |-> 0, n |-> 0]

Init ==
  /\ NetInit
  /\ ClientInit
  /\ main = Accepting
  /\ sub = 0
  /\ sum = 0
  /\ client = [s \in Cells |-> [online |-> FALSE, name |-> Nobody, fd |-> 0]]
  /\ thr = [w \in Conns |-> Idle]
  /\ handed = [w \in Conns |-> 0]
  /\ intact = TRUE
  /\ counted = TRUE
  /\ due = [w \in Conns |-> {}]

Online(s) == s \in Slots /\ client[s].online

-----------------------------------------------------------------------------
(* The main thread.                                                        *)

accept ==
  /\ main.pc = "accept"
  /\ backlog # <<>>
  /\ backlog' = Tail(backlog)
  /\ \E fd \in Fds :
       /\ IsLowestFree(fd)
       /\ fdt' = [fdt EXCEPT ![fd] = Head(backlog)]
       /\ main' = [main EXCEPT !.pc = "recv", !.fd = fd, !.conn = Head(backlog)]
  /\ UNCHANGED <<alive, peer, up, reply, got, rst, sub, sum, client, thr,
                 handed, intact, counted, due>>

RecvLogin ==
  /\ main.pc = "recv"
  /\ \/ /\ chat_recv(main.conn)
        /\ main' = [main EXCEPT !.pc = "check", !.from = Head(up[main.conn]).head.from]
        /\ UNCHANGED fdt
     \/ /\ RecvFails(main.conn)
        /\ close(main.fd)
        /\ main' = Accepting
        /\ UNCHANGED up
  /\ UNCHANGED <<alive, backlog, peer, reply, got, rst, sub, sum, client, thr,
                 handed, intact, counted, due>>

(* Mutant: strcmp without the "!", as in check_name.                       *)
NameIs_Inverted(s, name) == client[s].name # name

NameIs(s, name) == client[s].name = name

check_online ==
  /\ main.pc = "check"
  /\ main' = [main EXCEPT !.pc = IF \E s \in Slots : Online(s) /\ NameIs(s, main.from)
                                   THEN "refuse" ELSE "welcome"]
  /\ UNCHANGED <<netVars, sub, sum, client, thr, handed, intact, counted, due>>

Notice(from, flag, text) == Message(from, Nobody, flag, <<text, Nobody>>)

Refuse ==
  /\ main.pc = "refuse"
  /\ chat_send(Notice(Nobody, 3, "already"), main.fd)
  /\ close(main.fd)
  /\ main' = Accepting
  /\ UNCHANGED <<backlog, peer, up, sub, sum, client, thr, handed, intact, counted, due>>

(* Mutant: sum is counted up when the entry is there.                      *)
Then_CountLast(pc) ==
  CASE pc = "welcome" -> "find" [] pc = "find" -> "online" [] pc = "online" -> "fd"
    [] pc = "fd" -> "name" [] pc = "name" -> "load" [] pc = "load" -> "store"
    [] pc = "store" -> "spawn"

(* The order of main's steps from the welcome on.                          *)
Then(pc) ==
  CASE pc = "welcome" -> "load" [] pc = "load" -> "store" [] pc = "store" -> "find"
    [] pc = "find" -> "online" [] pc = "online" -> "fd" [] pc = "fd" -> "name"
    [] pc = "name" -> "spawn"

Greet ==
  /\ main.pc = "welcome"
  /\ chat_send(Notice(Nobody, 2, "welcome"), main.fd)
  /\ main' = [main EXCEPT !.pc = Then(@)]
  /\ UNCHANGED <<backlog, peer, fdt, up, sub, sum, client, thr, handed, intact, counted, due>>

(* sum++ reads and writes; so does the sum-- of each worker.               *)
CountUp ==
  /\ \/ /\ main.pc = "load"
        /\ main' = [main EXCEPT !.pc = Then(@), !.n = sum]
        /\ UNCHANGED <<sum, counted>>
     \/ /\ main.pc = "store"
        /\ sum' = main.n + 1
        /\ counted' = (counted /\ sum = main.n)
        /\ main' = [main EXCEPT !.pc = Then(@), !.n = 0]
  /\ UNCHANGED <<netVars, sub, client, thr, handed, intact, due>>

(* The result of find_sub when its loop ends at i.                         *)
Found(i) == IF i = MaxClient THEN -1 ELSE i

find_sub ==
  /\ main.pc = "find"
  /\ \/ /\ Online(main.i)
        /\ main' = [main EXCEPT !.i = @ + 1]
        /\ UNCHANGED <<sub, intact>>
     \/ /\ ~Online(main.i)
        /\ sub' = Found(main.i)
        /\ intact' = (intact /\ main.i < MaxClient)
        /\ main' = [main EXCEPT !.pc = Then(@), !.i = 0]
  /\ UNCHANGED <<netVars, sum, client, thr, handed, counted, due>>

(* client[sub] is filled in.  With sub = -1 memory below the table is      *)
(* written, which nobody scans, or the process crashes.                    *)
FillEntry ==
  /\ \/ /\ main.pc = "online"
        /\ client' = [client EXCEPT ![sub].online = TRUE]
        /\ alive' \in {TRUE, sub # -1}
     \/ /\ main.pc = "fd"
        /\ client' = [client EXCEPT ![sub].fd = main.fd]
        /\ UNCHANGED alive
     \/ /\ main.pc = "name"
        /\ client' = [client EXCEPT ![sub].name = main.from]
        /\ UNCHANGED alive
  /\ main' = [main EXCEPT !.pc = Then(@)]
  /\ UNCHANGED <<backlog, peer, fdt, up, reply, got, rst, sub, sum, thr,
                 handed, intact, counted, due>>

SpawnWorker ==
  /\ main.pc = "spawn"
  /\ thr' = [thr EXCEPT ![main.conn].pc = "start"]
  /\ handed' = [handed EXCEPT ![main.conn] = sub]
  /\ main' = Accepting
  /\ UNCHANGED <<netVars, sub, sum, client, intact, counted, due>>

Main == \/ accept \/ RecvLogin \/ check_online \/ Refuse \/ Greet \/ CountUp
        \/ find_sub \/ FillEntry \/ SpawnWorker

-----------------------------------------------------------------------------
(* The workers, each named by the connection it was created for.           *)

Goto(w, pc) == thr' = [thr EXCEPT ![w].pc = pc]

(* It learns its entry by reading main's sub.                              *)
ReadSub(w) ==
  /\ thr[w].pc = "start"
  /\ thr' = [thr EXCEPT ![w].pc = "fd", ![w].sub = sub]
  /\ intact' = (intact /\ sub = handed[w])
  /\ UNCHANGED <<netVars, main, sub, sum, client, handed, counted, due>>

ReadFd(w) ==
  /\ thr[w].pc = "fd"
  /\ thr' = [thr EXCEPT ![w].pc = "recv", ![w].fd = client[thr[w].sub].fd]
  /\ UNCHANGED <<netVars, main, sub, sum, client, handed, intact, counted, due>>

(* recv() waits on the socket the descriptor stands for when it is called. *)
CallRecv(w) ==
  /\ thr[w].pc = "recv"
  /\ IF fdt[thr[w].fd] \in Conns
       THEN thr' = [thr EXCEPT ![w].pc = "block", ![w].sock = fdt[thr[w].fd]]
       ELSE Goto(w, "close")
  /\ UNCHANGED <<netVars, main, sub, sum, client, handed, intact, counted, due>>

(* Main has put entry s online and not filled it in yet.                   *)
BeingFilled(s) == main.pc \in {"fd", "name"} /\ s = sub

(* The worker of entry s has closed its descriptor.                        *)
BeingLeft(s) == \E v \in Conns : thr[v].pc = "offline" /\ thr[v].sub = s

Members == {d \in Conns : \E s \in Slots : /\ Online(s) /\ ~BeingFilled(s) /\ ~BeingLeft(s)
                                          /\ fdt[client[s].fd] = d}
NoGap   == \A s, t \in Slots : Online(t) /\ s <= t => Online(s)

(* Public messages go to all, private ones to whom check_name finds, and   *)
(* the rest is ignored.                                                    *)
RecvMsg(w) ==
  /\ thr[w].pc = "block"
  /\ chat_recv(thr[w].sock)
  /\ LET m == Head(up[thr[w].sock])
     IN  /\ thr' = [thr EXCEPT ![w].sock = None, ![w].msg = m,
                               ![w].pc = CASE m.head.flag = 0 -> "all"
                                           [] m.head.flag = 1 -> "who"
                                           [] OTHER -> "recv"]
         /\ due' = [due EXCEPT ![w] = IF m.head.flag = 0 /\ NoGap THEN Members ELSE {}]
  /\ UNCHANGED <<alive, backlog, peer, fdt, reply, got, rst,
                 main, sub, sum, client, handed, intact, counted>>

RecvEnd(w) ==
  /\ thr[w].pc = "block"
  /\ RecvFails(thr[w].sock)
  /\ thr' = [thr EXCEPT ![w].pc = "close", ![w].sock = None]
  /\ UNCHANGED <<netVars, main, sub, sum, client, handed, intact, counted, due>>

(* The worker is through with its message.                                 *)
Served(w) == /\ thr' = [thr EXCEPT ![w].pc = "recv", ![w].msg = ZeroMsg, ![w].i = 0]
             /\ due' = [due EXCEPT ![w] = {}]

(* send_all tests one entry.  The memory behind the table reads as zero.   *)
send_all(w) ==
  /\ thr[w].pc = "all"
  /\ \/ /\ thr[w].i >= sum
        /\ Served(w)
     \/ /\ thr[w].i < sum
        /\ Online(thr[w].i)
        /\ Goto(w, "send")
        /\ UNCHANGED due
     \/ /\ thr[w].i < sum
        /\ ~Online(thr[w].i)
        /\ thr' = [thr EXCEPT ![w].i = @ + 1]
        /\ UNCHANGED due
  /\ UNCHANGED <<netVars, main, sub, sum, client, handed, intact, counted>>

(* check_name tests one entry: strcmp() is not 0 when the names differ.    *)
check_name(w) ==
  /\ thr[w].pc = "who"
  /\ \/ /\ thr[w].i = MaxClient
        /\ Goto(w, "tell")
     \/ /\ Online(thr[w].i)
        /\ client[thr[w].i].name # thr[w].msg.head.to
        /\ Goto(w, "send")
     \/ /\ thr[w].i \in Slots
        /\ ~Online(thr[w].i) \/ client[thr[w].i].name = thr[w].msg.head.to
        /\ thr' = [thr EXCEPT ![w].i = @ + 1]
  /\ UNCHANGED <<netVars, main, sub, sum, client, handed, intact, counted, due>>

SendOne(w) ==
  /\ thr[w].pc = "send"
  /\ chat_send(thr[w].msg, client[thr[w].i].fd)
  /\ IF thr[w].msg.head.flag = 0
       THEN /\ thr' = [thr EXCEPT ![w].pc = "all", ![w].i = @ + 1]
            /\ UNCHANGED due
       ELSE Served(w)
  /\ UNCHANGED <<backlog, peer, fdt, up, main, sub, sum, client, handed, intact, counted>>

(* "is offline", to the one who asked.                                     *)
TellOffline(w) ==
  /\ thr[w].pc = "tell"
  /\ chat_send(Notice(thr[w].msg.head.from, 2, "offline"), thr[w].fd)
  /\ Served(w)
  /\ UNCHANGED <<backlog, peer, fdt, up, main, sub, sum, client, handed, intact, counted>>

CloseFd(w) ==
  /\ thr[w].pc = "close"
  /\ close(thr[w].fd)
  /\ Goto(w, "offline")
  /\ UNCHANGED <<alive, backlog, peer, up, reply, got, rst,
                 main, sub, sum, client, handed, intact, counted, due>>

(* Mutant: sum is not counted down.                                        *)
SetOffline_Uncounted(w) ==
  /\ thr[w].pc = "offline"
  /\ client' = [client EXCEPT ![thr[w].sub].online = FALSE]
  /\ due' = [v \in Conns |-> {}]
  /\ thr' = [thr EXCEPT ![w] = [Idle EXCEPT !.pc = "exit"]]
  /\ UNCHANGED <<netVars, main, sub, sum, handed, intact, counted>>

SetOffline(w) ==
  /\ thr[w].pc = "offline"
  /\ client' = [client EXCEPT ![thr[w].sub].online = FALSE]
  /\ due' = [v \in Conns |-> {}]
  /\ Goto(w, "load")
  /\ UNCHANGED <<netVars, main, sub, sum, handed, intact, counted>>

CountDown(w) ==
  /\ \/ /\ thr[w].pc = "load"
        /\ thr' = [thr EXCEPT ![w].pc = "store", ![w].n = sum]
        /\ UNCHANGED <<sum, counted>>
     \/ /\ thr[w].pc = "store"
        /\ sum' = thr[w].n - 1
        /\ counted' = (counted /\ sum = thr[w].n)
        /\ thr' = [thr EXCEPT ![w] = [Idle EXCEPT !.pc = "exit"]]
  /\ UNCHANGED <<netVars, main, sub, client, handed, intact, due>>

work(w) == \/ ReadSub(w) \/ ReadFd(w) \/ CallRecv(w) \/ RecvMsg(w) \/ RecvEnd(w)
           \/ send_all(w) \/ check_name(w) \/ SendOne(w) \/ TellOffline(w)
           \/ CloseFd(w) \/ SetOffline(w) \/ CountDown(w)

ServerNext == alive /\ (Main \/ \E w \in Conns : work(w))

(* The client is that of the second version, as far as it goes: there is   *)
(* no list to ask for, and a line that starts with "@" is always private.  *)
Client == ClientNext /\ UNCHANGED serverVars

Next == (ServerNext /\ UNCHANGED cli) \/ Client

Spec == Init /\ [][Next]_vars

-----------------------------------------------------------------------------
(* Correctness.                                                            *)

(* No user is online twice, except for the name of a previous user in an   *)
(* entry main is filling in (server.c:92-100, 124-141).                    *)
UniqueNames ==
  \A s, t \in Slots :
    /\ Online(s) /\ ~BeingFilled(s)
    /\ Online(t) /\ ~BeingFilled(t)
    /\ client[s].name = client[t].name
    => s = t

(* As long as every worker found its own entry in &sub and no two threads  *)
(* changed sum at once, sum is the number of users online, and not less at *)
(* any moment of a login or a logout (server.c:53-54, 137-139).            *)
Leaving == Cardinality({w \in Conns : thr[w].pc \in {"load", "store"}})
Joining == IF main.pc \in {"find", "online"} THEN 1 ELSE 0

SumExact ==
  intact /\ counted =>
    sum = Cardinality({s \in Slots : Online(s)}) + Leaving + Joining

(* On these conditions a public message reaches everyone who is online     *)
(* when send_all begins, if there is then no gap in the table and nobody   *)
(* logs out before it ends, whoever logs in meanwhile (server.c:26-32,     *)
(* 137-139).  With a gap, or a logout, the loop ends before the last entry.*)
PublicReaches ==
  intact /\ counted =>
    \A w \in Conns :
      thr[w].pc = "all" /\ thr[w].i >= sum =>
        \A d \in due[w] : peer[d] => thr[w].msg \in got[d]
=============================================================================
