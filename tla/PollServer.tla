----------------------------- MODULE PollServer -----------------------------
(***************************************************************************)
(* The echo server that waits with poll(), server/server.c (of which       *)
(* server/backup/server_poll_io_multiplexing.c is a copy).  One thread     *)
(* polls a fixed array of descriptors, accepts at most one connection per  *)
(* round, and answers each ready one with what it sent, in capitals.       *)
(*                                                                         *)
(* Of the bytes only their number is kept; clients send text, without NUL. *)
(***************************************************************************)
EXTENDS Integers, Sequences, FiniteSets

CONSTANTS
  Conns,       \* connections that may be made
  MaxFd,       \* descriptors 1 .. MaxFd are what accept() may return
  PollSize,    \* POLLSIZE, the entries of event_set
  BuffSize,    \* BUFFSIZE
  Window,      \* what a client's end holds before the client reads it
  Speakers,    \* bound: the clients that send something
  MaxSay,      \* bound: how many bytes each sends
  Shortage,    \* whether accept() may fail for want of memory, or of
               \* descriptors in the whole system
  None         \* no connection: the entry of a descriptor that is not open

ASSUME PollAssumption ==
  /\ MaxFd \in Nat
  /\ PollSize \in Nat \ {0}
  /\ BuffSize \in Nat \ {0}
  /\ Window \in Nat
  /\ Speakers \subseteq Conns
  /\ MaxSay \in Nat
  /\ Shortage \in BOOLEAN
  /\ None \notin Conns

VARIABLES
  alive,       \* the process has not been killed
  backlog,     \* connections completed by the kernel, not yet accepted
  fdt,         \* the server's descriptor table
  peer,        \* "none" before, "open" while, "closed" after c is connected
  said,        \* said[c]: bytes client c has sent
  unread,      \* unread[c]: those the server has not received
  echo,        \* echo[c]: bytes sent to c it has not read
  echoed,      \* history: all bytes sent to c
  rst,         \* rst[c]: the client's kernel answered with a reset
  event_set,   \* event_set[i]: the descriptor of entry i, 0 for -1
  revents,     \* the entries the last poll() found ready, 0 the listener
  main,        \* program counter, retval, loop index, bytes in buff
  todo,        \* history: the ready entries this round has not looked at
  filled       \* history: the clients whose bytes have filled buff

vars == <<alive, backlog, fdt, peer, said, unread, echo, echoed, rst,
          event_set, revents, main, todo, filled>>

Fds     == 1 .. MaxFd
Entries == 1 .. PollSize - 1
MainPcs == {"poll", "accept", "scan", "send"}

TypeOK ==
  /\ alive \in BOOLEAN
  /\ backlog \in Seq(Conns)
  /\ fdt \in [Fds -> Conns \cup {None}]
  /\ peer \in [Conns -> {"none", "open", "closed"}]
  /\ said \in [Conns -> 0 .. MaxSay]
  /\ unread \in [Conns -> 0 .. MaxSay]
  /\ echo \in [Conns -> 0 .. Window]
  /\ echoed \in [Conns -> Nat]
  /\ rst \in [Conns -> BOOLEAN]
  /\ event_set \in [Entries -> Fds \cup {0}]
  /\ revents \subseteq {0} \cup Entries
  /\ main \in [pc : MainPcs, retval : 0 .. PollSize, i : 1 .. PollSize, n : 0 .. BuffSize + 1]
  /\ todo \subseteq Entries
  /\ filled \subseteq Conns

Init ==
  /\ alive = TRUE
  /\ backlog = <<>>
  /\ fdt = [n \in Fds |-> None]
  /\ peer = [c \in Conns |-> "none"]
  /\ said = [c \in Conns |-> 0]
  /\ unread = [c \in Conns |-> 0]
  /\ echo = [c \in Conns |-> 0]
  /\ echoed = [c \in Conns |-> 0]
  /\ rst = [c \in Conns |-> FALSE]
  /\ event_set = [i \in Entries |-> 0]
  /\ revents = {}
  /\ main = [pc |-> "poll", retval |-> 0, i |-> 1, n |-> 0]
  /\ todo = {}
  /\ filled = {}

Least(m, n) == IF m <= n THEN m ELSE n

clientVars == <<peer, said>>
echoVars   == <<echo, echoed>>

-----------------------------------------------------------------------------
(* The connection entry i is for.                                          *)
ConnOf(i) == fdt[event_set[i]]

(* recv() on c would return at once: bytes, 0 at the end, -1 after a reset,*)
(* which may leave the bytes before it to be received first.               *)
Ready(c) == unread[c] > 0 \/ peer[c] = "closed" \/ rst[c]

poll ==
  /\ main.pc = "poll"
  /\ LET found == {i \in Entries : event_set[i] # 0 /\ Ready(ConnOf(i))}
                    \cup (IF backlog # <<>> THEN {0} ELSE {})
     IN  /\ found # {}
         /\ revents' = found
         /\ todo' = found \ {0}
         /\ main' = [pc |-> IF 0 \in found THEN "accept" ELSE "scan",
                     retval |-> Cardinality(found), i |-> 1, n |-> 0]
  /\ UNCHANGED <<alive, backlog, fdt, clientVars, unread, echoVars, rst, event_set, filled>>

Opens(n) == /\ fdt[n] = None
            /\ \A m \in Fds : fdt[m] = None => n <= m

(* The listener was one of the retval entries that are ready.              *)
Scanning == [main EXCEPT !.pc = "scan", !.retval = @ - 1]

(* Mutant: the connection there is no entry for is not closed.             *)
accept_Full_Leaks ==
  /\ main.pc = "accept"
  /\ \E n \in Fds :
       /\ Opens(n)
       /\ fdt' = [fdt EXCEPT ![n] = Head(backlog)]
       /\ \/ \E i \in Entries :
               /\ event_set[i] = 0
               /\ \A j \in Entries : event_set[j] = 0 => i <= j
               /\ event_set' = [event_set EXCEPT ![i] = n]
          \/ /\ \A i \in Entries : event_set[i] # 0
             /\ UNCHANGED event_set
  /\ backlog' = Tail(backlog)
  /\ main' = Scanning
  /\ UNCHANGED <<alive, clientVars, unread, echoVars, rst, revents, todo, filled>>

(* The connection goes to the first unused entry, or is closed again.      *)
accept ==
  /\ main.pc = "accept"
  /\ \E n \in Fds :
       /\ Opens(n)
       /\ \/ \E i \in Entries :
               /\ event_set[i] = 0
               /\ \A j \in Entries : event_set[j] = 0 => i <= j
               /\ event_set' = [event_set EXCEPT ![i] = n]
               /\ fdt' = [fdt EXCEPT ![n] = Head(backlog)]
          \/ /\ \A i \in Entries : event_set[i] # 0
             /\ UNCHANGED <<event_set, fdt>>
  /\ backlog' = Tail(backlog)
  /\ main' = Scanning
  /\ UNCHANGED <<alive, clientVars, unread, echoVars, rst, revents, todo, filled>>

(* Out of descriptors: poll again, whatever else was ready.                *)
AcceptFails ==
  /\ main.pc = "accept"
  /\ Shortage \/ \A n \in Fds : fdt[n] # None
  /\ main' = [main EXCEPT !.pc = "poll", !.i = 1, !.retval = 0]
  /\ UNCHANGED <<alive, backlog, fdt, clientVars, unread, echoVars, rst, event_set,
                 revents, todo, filled>>

Polling == [pc |-> "poll", retval |-> 0, i |-> 1, n |-> 0]

(* Mutant: the round ends one entry early.                                 *)
After_Early(retval) ==
  IF retval <= 1 THEN Polling
  ELSE [pc |-> "scan", retval |-> retval, i |-> main.i + 1, n |-> 0]

(* Mutant: the round ends after the first entry in use.                    *)
After_First(retval) == Polling

(* What follows entry i: the round is over once retval entries were served.*)
After(retval) ==
  IF retval <= 0 THEN Polling
  ELSE [pc |-> "scan", retval |-> retval, i |-> main.i + 1, n |-> 0]

(* Entries that are not in use, or not ready, and the end of the array.    *)
Skip ==
  /\ main.pc = "scan"
  /\ \/ /\ main.i = PollSize
        /\ main' = Polling
     \/ /\ main.i \in Entries
        /\ event_set[main.i] = 0
        /\ main' = [main EXCEPT !.i = @ + 1]
     \/ /\ main.i \in Entries
        /\ event_set[main.i] # 0
        /\ main.i \notin revents
        /\ main' = After(main.retval)
  /\ UNCHANGED <<alive, backlog, fdt, clientVars, unread, echoVars, rst, event_set,
                 revents, todo, filled>>

IsServed(i) == main.pc = "scan" /\ main.i = i /\ event_set[i] # 0 /\ i \in revents

(* Mutant: what does not fit beside a NUL is dropped.                     *)
Recv_Short(i) ==
  /\ IsServed(i)
  /\ unread[ConnOf(i)] > 0
  /\ unread' = [unread EXCEPT ![ConnOf(i)] = 0]
  /\ main' = [main EXCEPT !.pc = "send", !.retval = @ - 1,
                          !.n = Least(unread[ConnOf(i)], BuffSize - 1)]
  /\ todo' = todo \ {i}
  /\ UNCHANGED <<alive, backlog, fdt, clientVars, echoVars, rst, event_set, revents, filled>>

(* recv() with bytes.  When they fill buff, no NUL follows them, and       *)
(* strlen() counts on into the memory behind it.                           *)
Recv(i) ==
  /\ IsServed(i)
  /\ unread[ConnOf(i)] > 0
  /\ LET k == Least(unread[ConnOf(i)], BuffSize)
     IN  /\ unread' = [unread EXCEPT ![ConnOf(i)] = @ - k]
         /\ \E n \in (IF k < BuffSize THEN {k} ELSE {k, k + 1}) :
              main' = [main EXCEPT !.pc = "send", !.retval = @ - 1, !.n = n]
         /\ filled' = IF k < BuffSize THEN filled ELSE filled \cup {ConnOf(i)}
  /\ todo' = todo \ {i}
  /\ UNCHANGED <<alive, backlog, fdt, clientVars, echoVars, rst, event_set, revents>>

(* recv() returned 0 or -1.                                                *)
Logout(i) ==
  /\ IsServed(i)
  /\ rst[ConnOf(i)] \/ (peer[ConnOf(i)] = "closed" /\ unread[ConnOf(i)] = 0)
  /\ fdt' = [fdt EXCEPT ![event_set[i]] = None]
  /\ event_set' = [event_set EXCEPT ![i] = 0]
  /\ main' = After(main.retval - 1)
  /\ todo' = todo \ {i}
  /\ UNCHANGED <<alive, backlog, clientVars, unread, echoVars, rst, revents, filled>>

(* send() waits until the client's end has room.  To a client that has     *)
(* left it is answered by a reset, and after a reset raises SIGPIPE.       *)
Send(i) ==
  /\ main.pc = "send"
  /\ main.i = i
  /\ main' = After(main.retval)
  /\ LET c == ConnOf(i)
     IN  \/ /\ peer[c] = "open"
            /\ echo[c] + main.n <= Window
            /\ echo' = [echo EXCEPT ![c] = @ + main.n]
            /\ echoed' = [echoed EXCEPT ![c] = @ + main.n]
            /\ UNCHANGED <<alive, rst>>
         \/ /\ peer[c] = "closed"
            /\ rst' = [rst EXCEPT ![c] = TRUE]
            /\ UNCHANGED <<alive, echoVars>>
         \/ /\ rst[c]
            /\ alive' = FALSE
            /\ UNCHANGED <<rst, echoVars>>
  /\ UNCHANGED <<backlog, fdt, clientVars, unread, event_set, revents, todo, filled>>

Main == \/ poll \/ accept \/ AcceptFails \/ Skip
        \/ \E i \in Entries : Recv(i) \/ Logout(i) \/ Send(i)

-----------------------------------------------------------------------------
(* Clients.                                                                *)

Connect(c) ==
  /\ alive
  /\ peer[c] = "none"
  /\ peer' = [peer EXCEPT ![c] = "open"]
  /\ backlog' = Append(backlog, c)
  /\ UNCHANGED <<alive, fdt, said, unread, echoVars, rst, event_set, revents, main, todo, filled>>

Say(c) ==
  /\ c \in Speakers
  /\ peer[c] = "open"
  /\ \E k \in 1 .. MaxSay - said[c] :
       /\ said' = [said EXCEPT ![c] = @ + k]
       /\ unread' = [unread EXCEPT ![c] = @ + k]
  /\ UNCHANGED <<alive, backlog, fdt, peer, echoVars, rst, event_set, revents, main, todo, filled>>

Collect(c) ==
  /\ echo[c] > 0
  /\ echo' = [echo EXCEPT ![c] = 0]
  /\ UNCHANGED <<alive, backlog, fdt, clientVars, unread, echoed, rst, event_set,
                 revents, main, todo, filled>>

Leave(c) ==
  /\ peer[c] = "open"
  /\ peer' = [peer EXCEPT ![c] = "closed"]
  /\ UNCHANGED <<alive, backlog, fdt, said, unread, echoVars, rst, event_set, revents,
                 main, todo, filled>>

Client(c) == Connect(c) \/ Say(c) \/ Collect(c) \/ Leave(c)

Next == \/ alive /\ Main
        \/ \E c \in Conns : Client(c)

Spec == Init /\ [][Next]_vars

(* The server is scheduled, and a shortage passes; clients need not do     *)
(* anything.                                                               *)
FairSpec == Spec /\ WF_vars(alive /\ Main) /\ SF_vars(alive /\ accept)

-----------------------------------------------------------------------------
(* Correctness.                                                            *)

(* A round ends only when every entry poll() found ready was served, also  *)
(* when a connection was accepted or refused in the same round: retval     *)
(* counts them (server.c:57, 76, 90).                                      *)
RoundComplete ==
  [][main.pc # "poll" /\ main'.pc = "poll" => main.pc = "accept" \/ todo' = {}]_vars

(* Entries in use and open connections are in step, a refused connection   *)
(* and a descriptor that is given to the next client included (lines       *)
(* 59-70, 85-86).                                                          *)
EntriesExact ==
  /\ \A n \in Fds : fdt[n] # None => \E i \in Entries : event_set[i] = n
  /\ \A i \in Entries : event_set[i] # 0 => ConnOf(i) # None
  /\ \A i, j \in Entries : event_set[i] = event_set[j] /\ event_set[i] # 0 => i = j

(* Bytes of client c in buff.                                              *)
InHand(c) == IF main.pc = "send" /\ ConnOf(main.i) = c THEN main.n ELSE 0

(* What a client sends is answered byte for byte, whoever else is served   *)
(* meanwhile, as long as it never fills the buffer (lines 77-83).          *)
EchoExact ==
  \A c \in Conns :
    peer[c] = "open" /\ c \notin filled => echoed[c] + InHand(c) + unread[c] = said[c]

(* There was no entry for c, and its connection was closed at once.        *)
Refused(c) == /\ \A n \in Fds : fdt[n] # c
              /\ \A i \in DOMAIN backlog : backlog[i] # c

(* If send() never waits for ever for a client that does not read, what a  *)
(* client sends is received in the end, unless it leaves, its connection   *)
(* is refused, or the server is killed (lines 45-92).                      *)
Received ==
  []<>(main.pc # "send") =>
    \A c \in Conns :
      unread[c] > 0
        ~> (unread[c] = 0 \/ peer[c] = "closed" \/ Refused(c) \/ ~alive)
=============================================================================
