------------------------------ MODULE OldServer ------------------------------
(***************************************************************************)
(* The first echo server, server/backup/old_server.c: a table of clients   *)
(* in memory nobody has cleared, a thread per client that is given the     *)
(* address of main's variable sub and reads it again at its end.  Its      *)
(* clients connect as client/client.c does.                                *)
(*                                                                         *)
(* The texts echoed are only counted.                                      *)
(***************************************************************************)
EXTENDS TimedConnect, FiniteSets

CONSTANTS
  MaxFd,       \* descriptors 1 .. MaxFd are what accept() may return
  MaxClient,   \* MAXCLIENT
  Fit,         \* entries that fit into the memory of the table
  Strays,      \* bound: one thread for each time that accept() fails
  None         \* no connection: the entry of a descriptor that is not open

ASSUME OldServerAssumption ==
  /\ MaxFd \in Nat
  /\ MaxClient \in Nat
  /\ Fit \in 0 .. MaxClient
  /\ None \notin Conns /\ IsFiniteSet(Conns)
  /\ IsFiniteSet(Strays) /\ Strays \cap (Conns \cup {None}) = {}

VARIABLES
  fdt,         \* the server's descriptors
  flag,        \* client[i].flag, 0 when the entry is free
  cfd,         \* client[i].fd, 0 for -1
  sub,         \* main's variable
  main,        \* main: program counter, fd, index in find_sub, the thread next
  thread,      \* threads: program counter, fd, the entry to be given up
  intact       \* history: each thread has found its own descriptor so far

serverVars == <<fdt, flag, cfd, sub, main, thread, intact>>
vars       == <<connectVars, serverVars>>

Fds     == 1 .. MaxFd
Entries == 0 .. MaxClient - 1
Threads == Conns \cup Strays

MainPcs   == {"accept", "find", "enter", "create", "undefined"}
ThreadPcs == {"none", "start", "greet", "recv", "echo", "close", "sub", "flag", "ended"}

TypeOK ==
  /\ ConnectTypeOK
  /\ fdt \in [Fds -> Conns \cup {None}]
  /\ flag \in [Entries -> {0, 1}]
  /\ cfd \in [Entries -> 0 .. MaxFd]
  /\ sub \in Entries \cup {-1}
  /\ main \in [pc : MainPcs, fd : 0 .. MaxFd, i : 0 .. MaxClient, next : Threads \cup {None}]
  /\ thread \in [Threads -> [pc : ThreadPcs, fd : 0 .. MaxFd, at : Entries \cup {-1}]]
  /\ intact \in BOOLEAN

Accepting == [pc |-> "accept", fd |-> 0, i |-> 0, next |-> None]
NoThread  == [pc |-> "none", fd |-> 0, at |-> -1]

(* malloc() gives memory that may hold anything.                           *)
Init ==
  /\ ConnectInit
  /\ fdt = [n \in Fds |-> None]
  /\ flag \in [Entries -> {0, 1}]
  /\ cfd = [i \in Entries |-> 0]
  /\ sub = -1
  /\ main = Accepting
  /\ thread = [t \in Threads |-> NoThread]
  /\ intact = TRUE

(* The connection a descriptor stands for.                                 *)
ConnOf(n) == IF n = 0 THEN None ELSE fdt[n]

(* close(n): with SO_LINGER set to 0 the client gets a reset.              *)
close(n) ==
  /\ fdt' = [m \in Fds |-> IF m = n THEN None ELSE fdt[m]]
  /\ peer' = [c \in Conns |-> IF c = ConnOf(n) /\ peer[c] = "open" THEN "reset" ELSE peer[c]]

-----------------------------------------------------------------------------
(* main.                                                                   *)

Opens(n) == /\ fdt[n] = None
            /\ \A m \in Fds : fdt[m] = None => n <= m

accept ==
  /\ main.pc = "accept"
  /\ backlog # <<>>
  /\ thread[Head(backlog)].pc = "none"
  /\ \E n \in Fds :
       /\ Opens(n)
       /\ fdt' = [fdt EXCEPT ![n] = Head(backlog)]
       /\ main' = [pc |-> "find", fd |-> n, i |-> 0, next |-> Head(backlog)]
  /\ backlog' = Tail(backlog)
  /\ UNCHANGED <<alive, conn, peer, said, unread, rst, flag, cfd, sub, thread, intact>>

(* The program says so and goes on with fd -1.                             *)
AcceptFails ==
  /\ main.pc = "accept"
  /\ \E t \in Strays :
       /\ thread[t].pc = "none"
       /\ main' = [pc |-> "find", fd |-> 0, i |-> 0, next |-> t]
  /\ UNCHANGED <<connectVars, fdt, flag, cfd, sub, thread, intact>>

(* One entry after the other, while threads give theirs up.                *)
find_sub ==
  /\ main.pc = "find"
  /\ main.i \in Entries
  /\ IF flag[main.i] = 0
       THEN /\ sub' = main.i
            /\ main' = [main EXCEPT !.pc = IF main.i < Fit THEN "enter" ELSE "undefined"]
       ELSE /\ main' = [main EXCEPT !.i = @ + 1]
            /\ UNCHANGED sub
  /\ UNCHANGED <<connectVars, fdt, flag, cfd, thread, intact>>

(* What is told to a client that has left is answered with a reset; main   *)
(* never sends on a connection that has had one.                           *)
Full ==
  /\ main.pc = "find"
  /\ main.i = MaxClient
  /\ sub' = -1
  /\ close(main.fd)
  /\ main' = Accepting
  /\ UNCHANGED <<alive, backlog, conn, said, unread, rst, flag, cfd, thread, intact>>

(* client[sub].flag and .fd; a thread that looks in between sees no more.  *)
Enter ==
  /\ main.pc = "enter"
  /\ flag' = [flag EXCEPT ![sub] = 1]
  /\ cfd' = [cfd EXCEPT ![sub] = main.fd]
  /\ main' = [main EXCEPT !.pc = "create"]
  /\ UNCHANGED <<connectVars, fdt, sub, thread, intact>>

pthread_create ==
  /\ main.pc = "create"
  /\ thread' = [thread EXCEPT ![main.next] = [pc |-> "start", fd |-> 0, at |-> -1]]
  /\ main' = Accepting
  /\ UNCHANGED <<connectVars, fdt, flag, cfd, sub, intact>>

Main == accept \/ find_sub \/ Full \/ Enter \/ pthread_create

-----------------------------------------------------------------------------
(* work, in thread t.                                                      *)

(* client[*sub].fd, with what main has in sub by now.  With -1 it is read  *)
(* before the table, from zeroes: standard input, where send() fails too.  *)
Start(t) ==
  /\ thread[t].pc = "start"
  /\ LET n == IF sub = -1 THEN 0 ELSE cfd[sub]
     IN  /\ thread' = [thread EXCEPT ![t].pc = "greet", ![t].fd = n]
         /\ intact' = (intact /\ (t \in Conns => n # 0 /\ fdt[n] = t) /\ (t \in Strays => n = 0))
  /\ UNCHANGED <<connectVars, fdt, flag, cfd, sub, main>>

(* send() fails for a descriptor that is none.  A client that has left     *)
(* answers with a reset, and after that send() fails or raises SIGPIPE.    *)
send(t, next) ==
  LET c == ConnOf(thread[t].fd)
  IN  \/ /\ c \in Conns
         /\ rst[c] # "come"
         /\ rst' = [rst EXCEPT ![c] = IF peer[c] = "closed" THEN "due" ELSE @]
         /\ thread' = [thread EXCEPT ![t].pc = next]
         /\ UNCHANGED alive
      \/ /\ c \in Conns
         /\ rst[c] = "come"
         /\ alive' = FALSE
         /\ UNCHANGED <<rst, thread>>
      \/ /\ c \in Conns => rst[c] = "come"
         /\ thread' = [thread EXCEPT ![t].pc = "close"]
         /\ UNCHANGED <<alive, rst>>

Greet(t) ==
  /\ thread[t].pc = "greet"
  /\ send(t, "recv")
  /\ UNCHANGED <<backlog, conn, peer, said, unread, fdt, flag, cfd, sub, main, intact>>

(* recv() returns all that has come, or 0, or -1.                          *)
Recv(t) ==
  /\ thread[t].pc = "recv"
  /\ LET c == ConnOf(thread[t].fd)
     IN  \/ /\ c \in Conns
            /\ unread[c] > 0
            /\ unread' = [unread EXCEPT ![c] = 0]
            /\ thread' = [thread EXCEPT ![t].pc = "echo"]
         \/ /\ c \in Conns => rst[c] = "come" \/ (peer[c] = "closed" /\ unread[c] = 0)
            /\ thread' = [thread EXCEPT ![t].pc = "close"]
            /\ UNCHANGED unread
  /\ UNCHANGED <<alive, backlog, conn, peer, said, rst, fdt, flag, cfd, sub, main, intact>>

Echo(t) ==
  /\ thread[t].pc = "echo"
  /\ send(t, "recv")
  /\ UNCHANGED <<backlog, conn, peer, said, unread, fdt, flag, cfd, sub, main, intact>>

(* Mutant: an entry is given up with the descriptor, and again at the end. *)
Close_Frees(t) ==
  /\ thread[t].pc = "close"
  /\ close(thread[t].fd)
  /\ flag' = [i \in Entries |-> IF i = sub THEN 0 ELSE flag[i]]
  /\ thread' = [thread EXCEPT ![t].pc = "sub"]
  /\ UNCHANGED <<alive, backlog, conn, said, unread, rst, cfd, sub, main, intact>>

(* Whatever the descriptor stands for by now is closed.                    *)
Close(t) ==
  /\ thread[t].pc = "close"
  /\ close(thread[t].fd)
  /\ thread' = [thread EXCEPT ![t].pc = "sub"]
  /\ UNCHANGED <<alive, backlog, conn, said, unread, rst, flag, cfd, sub, main, intact>>

(* client[*sub].flag: the entry main has taken last, whoever it is for.    *)
ReadSub(t) ==
  /\ thread[t].pc = "sub"
  /\ thread' = [thread EXCEPT ![t].pc = "flag", ![t].at = sub]
  /\ UNCHANGED <<connectVars, fdt, flag, cfd, sub, main, intact>>

ClearFlag(t) ==
  /\ thread[t].pc = "flag"
  /\ flag' = [i \in Entries |-> IF i = thread[t].at THEN 0 ELSE flag[i]]
  /\ thread' = [thread EXCEPT ![t] = [NoThread EXCEPT !.pc = "ended"]]
  /\ UNCHANGED <<connectVars, fdt, cfd, sub, main, intact>>

work(t) == \/ Start(t) \/ Greet(t) \/ Recv(t) \/ Echo(t)
           \/ Close(t) \/ ReadSub(t) \/ ClearFlag(t)

Running == alive /\ main.pc # "undefined"

Next == \/ Running /\ (Main \/ AcceptFails \/ \E t \in Threads : work(t))
        \/ \E c \in Conns : (Client(c) \/ Kernel(c)) /\ UNCHANGED serverVars

Spec == Init /\ [][Next]_vars

(* The threads and the kernels run on, select() returns, and accept() does *)
(* not fail for ever while there are connections for it.                   *)
FairSpec ==
  /\ Spec
  /\ WF_vars(Running /\ Main)
  /\ SF_vars(Running /\ accept)
  /\ \A t \in Threads : WF_vars(Running /\ work(t))
  /\ \A c \in Conns :
       /\ WF_vars((Writable(c) \/ GiveUp(c)) /\ UNCHANGED serverVars)
       /\ WF_vars(Kernel(c) /\ UNCHANGED serverVars)

-----------------------------------------------------------------------------
(* Properties.                                                             *)

Live(t) == thread[t].pc \notin {"none", "ended"}

(* A thread gives up the entry main has taken last, not its own: entries   *)
(* of clients that are served become free, others stay taken for ever.     *)
(* Still there is a taken entry for every thread that runs and for the one *)
(* about to be started, so never more than MaxClient of them run.          *)
ThreadsFit ==
  Cardinality({t \in Threads : Live(t)}) + (IF main.pc = "create" THEN 1 ELSE 0)
    <= Cardinality({i \in Entries : flag[i] = 1})

(* A client told that it is connected had been connected, even if the time *)
(* was up or the server gone by then; unless its network was out of reach. *)
ConnectTruth ==
  \A c \in Conns \ Unreached : conn[c] = "connected" => peer[c] \in {"open", "reset", "closed"}

(* A connection that its client gave up, when the time was up or later, is *)
(* not kept by the server: it is accepted, found to be over, and closed;   *)
(* unless the server ended or a thread had been given another's descriptor.*)
GivenUp ==
  \A c \in Conns :
    (conn[c] = "failed" \/ peer[c] = "closed") ~>
       \/ (\A n \in Fds : fdt[n] # c) /\ (\A i \in DOMAIN backlog : backlog[i] # c)
       \/ ~Running \/ ~intact
=============================================================================
