----------------------------- MODULE ThreadPool -----------------------------
(***************************************************************************)
(* The echo server with a pool of threads,                                 *)
(* server/backup/server_thread_pool.c.  main accepts connections and       *)
(* pushes their descriptors into a ring; the threads pop them and serve    *)
(* each connection until its client closes it.  A mutex guards the ring    *)
(* and a condition variable announces a push.                              *)
(*                                                                         *)
(* Of what do_echo() receives and sends the lines are counted.  Nothing    *)
(* looks at a connection before a thread serves it, so what its client     *)
(* does until then is taken to happen when it is served.                   *)
(***************************************************************************)
EXTENDS Integers, Sequences, FiniteSets

CONSTANTS
  Pool,        \* the threads, MAXTHREAD of them
  Sum,         \* entries of the ring: MAXTASK, queue.sum
  MaxOpened,   \* descriptors 1 .. MaxOpened are what accept() may return
  Talkers,     \* bound: the connections whose clients send lines
  MaxLines,    \* bound: lines sent that the server has not received
  MainThread,  \* main, when it owns the mutex
  Free         \* no owner of the mutex

ASSUME PoolAssumption ==
  /\ IsFiniteSet(Pool)
  /\ Sum \in Nat \ {0}
  /\ MaxOpened \in Nat
  /\ Talkers \subseteq 1 .. MaxOpened
  /\ MaxLines \in Nat
  /\ MainThread \notin Pool
  /\ Free \notin Pool
  /\ MainThread # Free

VARIABLES
  main,        \* main's program counter and the descriptor it pushes
  thread,      \* thread[w]: program counter and descriptor of thread w
  ring,        \* queue.fd
  head, tail,  \* queue.head, queue.tail
  mutex,       \* the owner of queue.mutex
  waiting,     \* the threads blocked in pthread_cond_wait
  opened,      \* descriptors accepted so far: do_echo closes none
  client,      \* client[n]: the client's end of the connection n
  lines,       \* lines[n]: lines the server has not received from it
  killed,      \* SIGPIPE has ended the process
  lost         \* history: the connections that were dropped by a full ring

ringVars == <<ring, head, tail, lost>>
echoVars == <<client, lines, killed>>
poolVars == <<main, thread, ringVars, mutex, waiting, opened, echoVars>>

Sockets   == 1 .. MaxOpened
Positions == 0 .. Sum - 1
MainPcs   == {"accept", "lock", "store", "advance", "signal", "unlock", "exit"}
ThreadPcs == {"lock", "test", "wait", "take", "advance", "unlock", "echo", "send"}

(* Connected, then with an answer that may be unread; closed, then with a  *)
(* reset on its way that answers what was sent to it; reset.               *)
ClientStates == {"open", "answered", "closed", "due", "reset"}

PoolTypeOK ==
  /\ main \in [pc : MainPcs, fd : Sockets \cup {0}]
  /\ thread \in [Pool -> [pc : ThreadPcs, fd : Sockets \cup {0}]]
  /\ ring \in [Positions -> Sockets \cup {0}]
  /\ head \in Positions
  /\ tail \in Positions
  /\ mutex \in Pool \cup {MainThread, Free}
  /\ waiting \subseteq Pool
  /\ opened \in 0 .. MaxOpened
  /\ client \in [Sockets -> ClientStates]
  /\ lines \in [Sockets -> Nat]
  /\ killed \in BOOLEAN
  /\ lost \subseteq Sockets \cup {0}

(* TaskQueueInit and the creation of the threads.                          *)
PoolInit ==
  /\ main = [pc |-> "accept", fd |-> 0]
  /\ thread = [w \in Pool |-> [pc |-> "lock", fd |-> 0]]
  /\ ring = [p \in Positions |-> 0]
  /\ head = 0
  /\ tail = 0
  /\ mutex = Free
  /\ waiting = {}
  /\ opened = 0
  /\ client = [n \in Sockets |-> "open"]
  /\ lines = [n \in Sockets |-> 0]
  /\ killed = FALSE
  /\ lost = {}

-----------------------------------------------------------------------------
(* ++p, and back to 0 at the end of the ring.                              *)
Advance(p) == IF p + 1 = Sum THEN 0 ELSE p + 1

(* Tasks in the ring, as the distance from head to tail tells.             *)
Pending == IF tail >= head THEN tail - head ELSE tail - head + Sum

(* The k-th of them, and their set.                                        *)
TaskAt(k) == ring[IF head + k - 1 < Sum THEN head + k - 1 ELSE head + k - 1 - Sum]
InRing    == {TaskAt(k) : k \in 1 .. Pending}

-----------------------------------------------------------------------------
(* main and TaskQueuePush.                                                 *)

Accept ==
  /\ main.pc = "accept"
  /\ opened < MaxOpened
  /\ opened' = opened + 1
  /\ main' = [pc |-> "lock", fd |-> opened + 1]
  /\ UNCHANGED <<thread, ringVars, mutex, waiting, echoVars>>

(* Out of descriptors accept fails, and main ends the process.             *)
AcceptEnds ==
  /\ main.pc = "accept"
  /\ opened = MaxOpened
  /\ main' = [main EXCEPT !.pc = "exit"]
  /\ UNCHANGED <<thread, ringVars, mutex, waiting, opened, echoVars>>

PushLock ==
  /\ main.pc = "lock"
  /\ mutex = Free
  /\ mutex' = MainThread
  /\ main' = [main EXCEPT !.pc = "store"]
  /\ UNCHANGED <<thread, ringVars, waiting, opened, echoVars>>

(* There is no test for a full ring.                                       *)
PushStore ==
  /\ main.pc = "store"
  /\ ring' = [ring EXCEPT ![tail] = main.fd]
  /\ main' = [main EXCEPT !.pc = "advance"]
  /\ UNCHANGED <<thread, head, tail, lost, mutex, waiting, opened, echoVars>>

(* Behind the last entry there is no room: head = tail says that the ring  *)
(* is empty, and what it holds is lost.                                    *)
PushAdvance ==
  /\ main.pc = "advance"
  /\ tail' = Advance(tail)
  /\ lost' = IF Advance(tail) = head THEN lost \cup InRing \cup {main.fd} ELSE lost
  /\ main' = [main EXCEPT !.pc = "signal"]
  /\ UNCHANGED <<thread, ring, head, mutex, waiting, opened, echoVars>>

(* Mutant: the push is not announced when tasks were waiting already.      *)
PushSignal_IfFirst ==
  /\ main.pc = "signal"
  /\ IF Pending = 1 /\ waiting # {}
       THEN \E w \in waiting : waiting' = waiting \ {w}
       ELSE UNCHANGED waiting
  /\ main' = [main EXCEPT !.pc = "unlock"]
  /\ UNCHANGED <<thread, ringVars, mutex, opened, echoVars>>

(* pthread_cond_signal: a thread that waits, if there is one, is woken.    *)
PushSignal ==
  /\ main.pc = "signal"
  /\ IF waiting # {}
       THEN \E w \in waiting : waiting' = waiting \ {w}
       ELSE UNCHANGED waiting
  /\ main' = [main EXCEPT !.pc = "unlock"]
  /\ UNCHANGED <<thread, ringVars, mutex, opened, echoVars>>

PushUnlock ==
  /\ main.pc = "unlock"
  /\ mutex' = Free
  /\ main' = [pc |-> "accept", fd |-> 0]
  /\ UNCHANGED <<thread, ringVars, waiting, opened, echoVars>>

MainNext == \/ Accept \/ AcceptEnds \/ PushLock \/ PushStore \/ PushAdvance
            \/ PushSignal \/ PushUnlock

-----------------------------------------------------------------------------
(* thread_run and TaskQueuePop.                                            *)

Goto(w, pc) == thread' = [thread EXCEPT ![w].pc = pc]

PopLock(w) ==
  /\ thread[w].pc = "lock"
  /\ mutex = Free
  /\ mutex' = w
  /\ Goto(w, "test")
  /\ UNCHANGED <<main, ringVars, waiting, opened, echoVars>>

PopWait(w) ==
  /\ thread[w].pc = "test"
  /\ tail = head
  /\ mutex' = Free
  /\ waiting' = waiting \cup {w}
  /\ Goto(w, "wait")
  /\ UNCHANGED <<main, ringVars, opened, echoVars>>

(* A wait may end without a signal; the loop tests again.                  *)
SpuriousWakeup(w) ==
  /\ w \in waiting
  /\ waiting' = waiting \ {w}
  /\ UNCHANGED <<main, thread, ringVars, mutex, opened, echoVars>>

(* Mutant: a thread woken up does not test again (if in place of while).   *)
PopWake_NoTest(w) ==
  /\ thread[w].pc = "wait"
  /\ w \notin waiting
  /\ mutex = Free
  /\ mutex' = w
  /\ Goto(w, "take")
  /\ UNCHANGED <<main, ringVars, waiting, opened, echoVars>>

(* Mutant: the wait is left without the mutex.                             *)
PopWake_Unlocked(w) ==
  /\ thread[w].pc = "wait"
  /\ w \notin waiting
  /\ Goto(w, "test")
  /\ UNCHANGED <<main, ringVars, mutex, waiting, opened, echoVars>>

PopWake(w) ==
  /\ thread[w].pc = "wait"
  /\ w \notin waiting
  /\ mutex = Free
  /\ mutex' = w
  /\ Goto(w, "test")
  /\ UNCHANGED <<main, ringVars, waiting, opened, echoVars>>

PopTest(w) ==
  /\ thread[w].pc = "test"
  /\ tail # head
  /\ Goto(w, "take")
  /\ UNCHANGED <<main, ringVars, mutex, waiting, opened, echoVars>>

PopTake(w) ==
  /\ thread[w].pc = "take"
  /\ thread' = [thread EXCEPT ![w].pc = "advance", ![w].fd = ring[head]]
  /\ UNCHANGED <<main, ringVars, mutex, waiting, opened, echoVars>>

PopAdvance(w) ==
  /\ thread[w].pc = "advance"
  /\ head' = Advance(head)
  /\ Goto(w, "unlock")
  /\ UNCHANGED <<main, ring, tail, lost, mutex, waiting, opened, echoVars>>

PopUnlock(w) ==
  /\ thread[w].pc = "unlock"
  /\ mutex' = Free
  /\ Goto(w, "echo")
  /\ UNCHANGED <<main, ringVars, waiting, opened, echoVars>>

TaskQueuePop(w) == \/ PopLock(w) \/ PopWait(w) \/ PopWake(w) \/ PopTest(w)
                   \/ PopTake(w) \/ PopAdvance(w) \/ PopUnlock(w)

(* do_echo: a line has been received to its end.  What came before a reset *)
(* may still be received.                                                  *)
EchoRecv(w) ==
  /\ thread[w].pc = "echo"
  /\ lines[thread[w].fd] > 0
  /\ lines' = [lines EXCEPT ![thread[w].fd] = @ - 1]
  /\ Goto(w, "send")
  /\ UNCHANGED <<main, ringVars, mutex, waiting, opened, client, killed>>

(* It is sent back, and answered with a reset by a client that has left.   *)
EchoSend(w) ==
  /\ thread[w].pc = "send"
  /\ client[thread[w].fd] # "reset"
  /\ client' = [client EXCEPT ![thread[w].fd] =
                  IF @ \in {"open", "answered"} THEN "answered" ELSE "due"]
  /\ Goto(w, "echo")
  /\ UNCHANGED <<main, ringVars, mutex, waiting, opened, lines, killed>>

(* After the reset send() fails, which nobody looks at, or raises SIGPIPE. *)
SendFails(w) ==
  /\ thread[w].pc = "send"
  /\ client[thread[w].fd] = "reset"
  /\ killed' \in BOOLEAN
  /\ Goto(w, "echo")
  /\ UNCHANGED <<main, ringVars, mutex, waiting, opened, client, lines>>

(* recv() fails or returns 0.  The connection stays open.                  *)
EchoEnds(w) ==
  /\ thread[w].pc = "echo"
  /\ \/ client[thread[w].fd] = "reset"
     \/ client[thread[w].fd] \in {"closed", "due"} /\ lines[thread[w].fd] = 0
  /\ thread' = [thread EXCEPT ![w] = [pc |-> "lock", fd |-> 0]]
  /\ UNCHANGED <<main, ringVars, mutex, waiting, opened, echoVars>>

do_echo(w) == EchoRecv(w) \/ EchoSend(w) \/ SendFails(w) \/ EchoEnds(w)

thread_run(w) == TaskQueuePop(w) \/ do_echo(w)

-----------------------------------------------------------------------------
(* The clients of the connections that are served.                         *)

ClientSays(n) ==
  /\ n \in Talkers
  /\ client[n] \in {"open", "answered"}
  /\ lines[n] < MaxLines
  /\ lines' = [lines EXCEPT ![n] = @ + 1]
  /\ UNCHANGED <<main, thread, ringVars, mutex, waiting, opened, client, killed>>

(* A client that leaves an answer unread leaves with a reset.              *)
ClientCloses(n) ==
  /\ \/ /\ client[n] \in {"open", "answered"}
        /\ client' = [client EXCEPT ![n] = "closed"]
     \/ /\ client[n] = "answered"
        /\ client' = [client EXCEPT ![n] = "reset"]
  /\ UNCHANGED <<main, thread, ringVars, mutex, waiting, opened, lines, killed>>

ResetComes(n) ==
  /\ client[n] = "due"
  /\ client' = [client EXCEPT ![n] = "reset"]
  /\ UNCHANGED <<main, thread, ringVars, mutex, waiting, opened, lines, killed>>

Busy(w) == thread[w].pc \in {"echo", "send"}

Peer(n) == /\ \E w \in Pool : Busy(w) /\ thread[w].fd = n
           /\ ClientSays(n) \/ ClientCloses(n) \/ ResetComes(n)

Running == ~killed /\ main.pc # "exit"

(* When the process has ended, no thread takes another step, and what      *)
(* becomes of the clients is left out.                                     *)
PoolNext ==
  /\ Running
  /\ \/ MainNext
     \/ \E w \in Pool : thread_run(w) \/ SpuriousWakeup(w)
     \/ \E n \in Sockets : Peer(n)

PoolSpec == PoolInit /\ [][PoolNext]_poolVars

(* The process's threads run, and no thread waits for the mutex for ever   *)
(* while it is released again and again.  Clients need not connect, talk   *)
(* or close, send() may wait for ever for one that does not read, and      *)
(* threads need not wake up without a signal.                              *)
Fairness ==
  /\ WF_poolVars(Running /\ (PushStore \/ PushAdvance \/ PushSignal \/ PushUnlock))
  /\ SF_poolVars(Running /\ PushLock)
  /\ \A w \in Pool :
       /\ WF_poolVars(Running /\ (TaskQueuePop(w) \/ EchoRecv(w) \/ SendFails(w) \/ EchoEnds(w)))
       /\ SF_poolVars(Running /\ (PopLock(w) \/ PopWake(w)))

PoolFairSpec == PoolSpec /\ Fairness

-----------------------------------------------------------------------------
(* Correctness.                                                            *)

MainInside      == main.pc \in {"store", "advance", "signal", "unlock"}
ThreadInside(w) == thread[w].pc \in {"test", "take", "advance", "unlock"}

(* The ring's fields are touched by the owner of the mutex only, main's    *)
(* push and a thread's pop never overlap (lines 60-68 and 72-82), and a    *)
(* thread that comes back from pthread_cond_wait owns the mutex again.     *)
Exclusive ==
  /\ MainInside => \A w \in Pool : ~ThreadInside(w)
  /\ \A v, w \in Pool : ThreadInside(v) /\ ThreadInside(w) => v = w

(* The threads that will look at the ring before they wait or serve.       *)
Awake == {w \in Pool \ waiting :
            thread[w].pc \in {"lock", "wait", "test", "take", "advance"}}

(* One signal per push (line 67) is enough: as long as a thread waits for  *)
(* the condition, there are threads awake, or about to be woken, for all   *)
(* the tasks in the ring.                                                  *)
NoLostWakeup ==
  waiting # {} =>
    Pending <= Cardinality(Awake) + (IF main.pc = "signal" THEN 1 ELSE 0)

(* The tasks in the ring, and what the threads have taken out of it.       *)
Tasks   == [k \in 1 .. Pending |-> TaskAt(k)]
Serving == [w \in Pool |->
             IF thread[w].pc \in {"unlock", "echo", "send"} THEN thread[w].fd ELSE 0]

Fifo == INSTANCE TaskFifo WITH
          Room <- Sum - 1, Idle <- 0, tasks <- Tasks, serving <- Serving, lost <- lost

(* The queue is a FIFO with room for one task less than the ring has       *)
(* entries: what main pushes is popped in that order, by one thread each,  *)
(* and a thread serves what it popped (lines 59-96).  There is no test for *)
(* a full ring: the task for which there is no room is lost, and with it   *)
(* all that wait; none is lost in any other way, nor comes back later.     *)
ImplementsFifo == Fifo!Spec

(* A connection that waits is served in the end, unless from some time on  *)
(* every thread is held by a client that stays, or the ring overflows while*)
(* it waits, or the process ends: main exits with no descriptor left (line *)
(* 123), or an answer to a client that has reset its connection raises     *)
(* SIGPIPE (line 35).                                                      *)
Served ==
  []<>(\E w \in Pool : ~Busy(w)) =>
    \A n \in Sockets :
      n \in InRing ~> \/ \E w \in Pool : Serving[w] = n
                      \/ n \in lost \/ killed \/ main.pc = "exit"
=============================================================================
