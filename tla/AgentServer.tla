----------------------------- MODULE AgentServer -----------------------------
(***************************************************************************)
(* The server with a limited number of agents, sem/server.c.  main greets  *)
(* every client and starts a thread for it; the thread waits for one of    *)
(* MAX agents, counted by a System V semaphore, tells the client that it   *)
(* can speak, echoes what it says, and gives the agent back when the       *)
(* client has left.  main hands each thread the address of its own         *)
(* variable fd.                                                            *)
(*                                                                         *)
(* A thread is named by the connection it was created for.  What a client  *)
(* says is known by whether some of it is unread.                          *)
(***************************************************************************)
EXTENDS Integers, Sequences, FiniteSets

CONSTANTS
  Conns,       \* connections that may be made
  MaxFd,       \* descriptors 1 .. MaxFd are what accept() may return
  Agents,      \* MAX, the number of agents
  Speakers,    \* bound: the clients that may say something, once
  None         \* no connection: the entry of a descriptor that is not open

ASSUME AgentAssumption ==
  /\ IsFiniteSet(Conns)
  /\ MaxFd \in Nat
  /\ Agents \in Nat
  /\ Speakers \subseteq Conns
  /\ None \notin Conns

VARIABLES
  alive,       \* the process has not been killed, and main has not left
  backlog,     \* connections completed by the kernel, not yet accepted
  fdt,         \* the server's descriptor table
  peer,        \* "none" before, "open" while, "closed" after c is connected
  said,        \* said[c]: unread bytes: "none", "some", or "gone" once read
  rst,         \* rst[c]: the client's kernel answered with a reset
  main,        \* program counter of main and the connection it accepted
  fd,          \* the variable fd of main
  sem,         \* the value of the semaphore
  thr,         \* threads: program counter, new_fd, the socket recv() waits on
  told,        \* history: the clients that were told "You can say!"
  intact       \* history: so far each thread found its client's descriptor

vars == <<alive, backlog, fdt, peer, said, rst, main, fd, sem, thr, told, intact>>
clientVars == <<peer, said>>

Fds == 1 .. MaxFd
ThreadPcs == {"none", "start", "wait", "tell", "recv", "block", "post", "close", "exit"}

TypeOK ==
  /\ alive \in BOOLEAN
  /\ backlog \in Seq(Conns)
  /\ fdt \in [Fds -> Conns \cup {None}]
  /\ peer \in [Conns -> {"none", "open", "closed"}]
  /\ said \in [Conns -> {"none", "some", "gone"}]
  /\ rst \in [Conns -> BOOLEAN]
  /\ main \in [pc : {"accept", "greet", "create"}, conn : Conns \cup {None}]
  /\ fd \in Fds \cup {0}
  /\ sem \in 0 .. Agents
  /\ thr \in [Conns -> [pc : ThreadPcs, fd : Fds \cup {0}, sock : Conns \cup {None}]]
  /\ told \subseteq Conns
  /\ intact \in BOOLEAN

Init ==
  /\ alive = TRUE
  /\ backlog = <<>>
  /\ fdt = [n \in Fds |-> None]
  /\ peer = [c \in Conns |-> "none"]
  /\ said = [c \in Conns |-> "none"]
  /\ rst = [c \in Conns |-> FALSE]
  /\ main = [pc |-> "accept", conn |-> None]
  /\ fd = 0
  /\ sem = Agents
  /\ thr = [c \in Conns |-> [pc |-> "none", fd |-> 0, sock |-> None]]
  /\ told = {}
  /\ intact = TRUE

Goto(w, pc) == thr' = [thr EXCEPT ![w].pc = pc]

-----------------------------------------------------------------------------
(* Sockets.                                                                *)

(* send() to the connection of descriptor n; reached is what the call adds *)
(* to told.  After a reset the second send() raises SIGPIPE.               *)
send(n, reached) ==
  \/ /\ fdt[n] = None
     /\ UNCHANGED <<alive, rst, told>>
  \/ \E c \in Conns :
       /\ fdt[n] = c
       /\ \/ /\ peer[c] = "open"
             /\ told' = told \cup (reached \cap {c})
             /\ UNCHANGED <<alive, rst>>
          \/ /\ peer[c] = "closed"
             /\ rst' = [rst EXCEPT ![c] = TRUE]
             /\ UNCHANGED <<alive, told>>
          \/ /\ rst[c]
             /\ alive' = FALSE
             /\ UNCHANGED <<rst, told>>

-----------------------------------------------------------------------------
(* main.                                                                   *)

accept ==
  /\ main.pc = "accept"
  /\ backlog # <<>>
  /\ \E n \in Fds :
       /\ fdt[n] = None
       /\ \A m \in Fds : fdt[m] = None => n <= m
       /\ fdt' = [fdt EXCEPT ![n] = Head(backlog)]
       /\ fd' = n
  /\ backlog' = Tail(backlog)
  /\ main' = [pc |-> "greet", conn |-> Head(backlog)]
  /\ UNCHANGED <<alive, clientVars, rst, sem, thr, told, intact>>

(* Out of descriptors main ends the process.                               *)
AcceptFails ==
  /\ main.pc = "accept"
  /\ \A n \in Fds : fdt[n] # None
  /\ alive' = FALSE
  /\ UNCHANGED <<backlog, fdt, clientVars, rst, main, fd, sem, thr, told, intact>>

(* "You are HERE!"  Nothing is done when more than MAXSEQ have come.       *)
Greet ==
  /\ main.pc = "greet"
  /\ send(fd, {})
  /\ main' = [main EXCEPT !.pc = "create"]
  /\ UNCHANGED <<backlog, fdt, clientVars, fd, sem, thr, intact>>

CreateThread ==
  /\ main.pc = "create"
  /\ Goto(main.conn, "start")
  /\ main' = [pc |-> "accept", conn |-> None]
  /\ UNCHANGED <<alive, backlog, fdt, clientVars, rst, fd, sem, told, intact>>

Main == accept \/ AcceptFails \/ Greet \/ CreateThread

-----------------------------------------------------------------------------
(* work.                                                                   *)

(* new_fd is read through arg: main may have accepted another client by    *)
(* now.                                                                    *)
ReadFd(w) ==
  /\ thr[w].pc = "start"
  /\ thr' = [thr EXCEPT ![w].pc = "wait", ![w].fd = fd]
  /\ intact' = (intact /\ fd # 0 /\ fdt[fd] = w)
  /\ UNCHANGED <<alive, backlog, fdt, clientVars, rst, main, fd, sem, told>>

(* Mutant: the semaphore is taken without waiting (IPC_NOWAIT).            *)
semaphore_p_NoWait(w) ==
  /\ thr[w].pc = "wait"
  /\ sem' = IF sem > 0 THEN sem - 1 ELSE sem
  /\ Goto(w, "tell")
  /\ UNCHANGED <<alive, backlog, fdt, clientVars, rst, main, fd, told, intact>>

semaphore_p(w) ==
  /\ thr[w].pc = "wait"
  /\ sem > 0
  /\ sem' = sem - 1
  /\ Goto(w, "tell")
  /\ UNCHANGED <<alive, backlog, fdt, clientVars, rst, main, fd, told, intact>>

Tell(w) ==
  /\ thr[w].pc = "tell"
  /\ send(thr[w].fd, Conns)
  /\ Goto(w, "recv")
  /\ UNCHANGED <<backlog, fdt, clientVars, main, fd, sem, intact>>

(* recv() waits on what the descriptor stands for when it is called; it    *)
(* fails at once when that is nothing.                                     *)
CallRecv(w) ==
  /\ thr[w].pc = "recv"
  /\ thr' = IF fdt[thr[w].fd] = None
              THEN [thr EXCEPT ![w].pc = "post"]
              ELSE [thr EXCEPT ![w].pc = "block", ![w].sock = fdt[thr[w].fd]]
  /\ UNCHANGED <<alive, backlog, fdt, clientVars, rst, main, fd, sem, told, intact>>

Echo(w) ==
  /\ thr[w].pc = "block"
  /\ said[thr[w].sock] = "some"
  /\ said' = [said EXCEPT ![thr[w].sock] = "gone"]
  /\ thr' = [thr EXCEPT ![w].pc = "recv", ![w].sock = None]
  /\ send(thr[w].fd, {})
  /\ UNCHANGED <<backlog, fdt, peer, main, fd, sem, intact>>

RecvEnd(w) ==
  /\ thr[w].pc = "block"
  /\ rst[thr[w].sock] \/ (peer[thr[w].sock] = "closed" /\ said[thr[w].sock] # "some")
  /\ thr' = [thr EXCEPT ![w].pc = "post", ![w].sock = None]
  /\ UNCHANGED <<alive, backlog, fdt, clientVars, rst, main, fd, sem, told, intact>>

(* Mutant: the agent is not given back.                                    *)
semaphore_v_Forgotten(w) ==
  /\ thr[w].pc = "post"
  /\ Goto(w, "close")
  /\ UNCHANGED <<alive, backlog, fdt, clientVars, rst, main, fd, sem, told, intact>>

semaphore_v(w) ==
  /\ thr[w].pc = "post"
  /\ sem' = sem + 1
  /\ Goto(w, "close")
  /\ UNCHANGED <<alive, backlog, fdt, clientVars, rst, main, fd, told, intact>>

(* close(new_fd), whatever the descriptor stands for now.                  *)
Close(w) ==
  /\ thr[w].pc = "close"
  /\ fdt' = [fdt EXCEPT ![thr[w].fd] = None]
  /\ thr' = [thr EXCEPT ![w].pc = "exit", ![w].fd = 0]
  /\ UNCHANGED <<alive, backlog, clientVars, rst, main, fd, sem, told, intact>>

work(w) == \/ ReadFd(w) \/ semaphore_p(w) \/ Tell(w) \/ CallRecv(w) \/ Echo(w)
           \/ RecvEnd(w) \/ semaphore_v(w) \/ Close(w)

-----------------------------------------------------------------------------
(* Clients.                                                                *)

Connect(c) ==
  /\ alive
  /\ peer[c] = "none"
  /\ peer' = [peer EXCEPT ![c] = "open"]
  /\ backlog' = Append(backlog, c)
  /\ UNCHANGED <<alive, fdt, said, rst, main, fd, sem, thr, told, intact>>

Say(c) ==
  /\ c \in Speakers
  /\ peer[c] = "open"
  /\ said[c] = "none"
  /\ said' = [said EXCEPT ![c] = "some"]
  /\ UNCHANGED <<alive, backlog, fdt, peer, rst, main, fd, sem, thr, told, intact>>

Leave(c) ==
  /\ peer[c] = "open"
  /\ peer' = [peer EXCEPT ![c] = "closed"]
  /\ UNCHANGED <<alive, backlog, fdt, said, rst, main, fd, sem, thr, told, intact>>

Next == \/ alive /\ (Main \/ \E w \in Conns : work(w))
        \/ \E c \in Conns : Connect(c) \/ Say(c) \/ Leave(c)

Spec == Init /\ [][Next]_vars

(* Threads are scheduled, and the semaphore passes over no waiting thread  *)
(* for ever.                                                               *)
Fairness ==
  /\ WF_vars(alive /\ (accept \/ Greet \/ CreateThread))
  /\ \A w \in Conns : /\ WF_vars(alive /\ work(w))
                      /\ SF_vars(alive /\ semaphore_p(w))

FairSpec == Spec /\ Fairness

-----------------------------------------------------------------------------
(* Correctness.                                                            *)

(* The threads that have an agent.                                         *)
Holding == {w \in Conns : thr[w].pc \in {"tell", "recv", "block", "post"}}

(* Every agent is free or taken by one thread; none is lost on the way out *)
(* of the loop (lines 36, 42-47).                                          *)
Permits == sem + Cardinality(Holding) = Agents

(* The clients that were told to speak and are connected on both sides.    *)
Served == {c \in told : peer[c] = "open" /\ \E n \in Fds : fdt[n] = c}

(* At most MAX clients are served at a time (line 18), even though two     *)
(* threads may have come to share a descriptor, one of them may close it   *)
(* under the other, and its number may be given to another client.         *)
AtMostAgents == Cardinality(Served) <= Agents

(* If again and again nobody who was told to speak is still there, a       *)
(* thread does not wait for an agent for ever (lines 36-46).               *)
AgentComes ==
  []<>(\A c \in told : peer[c] # "open") =>
    \A w \in Conns : thr[w].pc = "wait" ~> (thr[w].pc # "wait" \/ ~intact \/ ~alive)
=============================================================================
