------------------------------ MODULE TaskFifo ------------------------------
(***************************************************************************)
(* What the task queue of server/backup/server_thread_pool.c does, told    *)
(* without its ring, mutex and condition: the connections main pushes are  *)
(* handed to the threads of the pool in order, each to one thread.  A push *)
(* for which there is no room loses all connections that wait, and only    *)
(* then is any lost.                                                       *)
(***************************************************************************)
EXTENDS Naturals, Sequences

CONSTANTS
  Sockets,  \* descriptors of connections
  Pool,     \* the threads
  Room,     \* how many connections may wait
  Idle      \* what a thread without a connection serves

VARIABLES
  tasks,    \* the connections that wait, oldest first
  serving,  \* serving[w]: the connection thread w has taken
  lost      \* the connections nobody will serve

Init == /\ tasks = <<>>
        /\ serving = [w \in Pool |-> Idle]
        /\ lost = {}

Waiting == {tasks[i] : i \in DOMAIN tasks}

(* A connection is pushed once: it neither waits, nor is it served or lost.*)
New(fd) == /\ \A w \in Pool : serving[w] # fd
           /\ fd \notin Waiting \cup lost

Push(fd) == /\ New(fd)
            /\ Len(tasks) < Room
            /\ tasks' = Append(tasks, fd)
            /\ UNCHANGED <<serving, lost>>

Overflow(fd) == /\ New(fd)
                /\ Len(tasks) = Room
                /\ tasks' = <<>>
                /\ lost' = lost \cup Waiting \cup {fd}
                /\ UNCHANGED serving

Pop(w) == /\ serving[w] = Idle
          /\ tasks # <<>>
          /\ serving' = [serving EXCEPT ![w] = Head(tasks)]
          /\ tasks' = Tail(tasks)
          /\ UNCHANGED lost

Finish(w) == /\ serving[w] # Idle
             /\ serving' = [serving EXCEPT ![w] = Idle]
             /\ UNCHANGED <<tasks, lost>>

Next == \/ \E fd \in Sockets : Push(fd) \/ Overflow(fd)
        \/ \E w \in Pool : Pop(w) \/ Finish(w)

Spec == Init /\ [][Next]_<<tasks, serving, lost>>
=============================================================================
