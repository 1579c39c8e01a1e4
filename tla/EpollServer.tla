----------------------------- MODULE EpollServer -----------------------------
(***************************************************************************)
(* The echo server that waits with epoll,                                  *)
(* server/backup/server_epoll_io_multiplexing.c.  The listener is level-   *)
(* triggered; connections are nonblocking and edge-triggered: an event is  *)
(* reported once, and each one is answered by a single recv().             *)
(*                                                                         *)
(* Of the bytes only their number is kept; clients send text, without NUL. *)
(***************************************************************************)
EXTENDS Integers, Sequences, Functions

CONSTANTS
  Conns,       \* connections that may be made
  MaxFd,       \* descriptors 1 .. MaxFd are what accept() may return
  MaxEvents,   \* MAX_EVENTS
  BuffSize,    \* BUFFSIZE
  Window,      \* what a client's end holds before the client reads it
  MaxSay,      \* bound: MaxSay[c], how many bytes client c sends
  None         \* no connection: the entry of a descriptor that is not open

ASSUME EpollAssumption ==
  /\ MaxFd \in Nat
  /\ MaxEvents \in Nat \ {0}
  /\ BuffSize \in Nat \ {0}
  /\ Window \in Nat
  /\ MaxSay \in [Conns -> Nat]
  /\ None \notin Conns

VARIABLES
  alive,       \* the process has neither been killed nor called exit()
  backlog,     \* connections completed by the kernel, not yet accepted
  fdt,         \* the server's descriptors: those open are registered
  ready,       \* the kernel's ready list, 0 for the listener
  events,      \* what epoll_wait() reported and the loop has not looked at
  peer,        \* "none" before, "open" while, "closed" after c is connected
  said,        \* said[c]: bytes client c has sent
  unread,      \* unread[c]: those the server has not received
  echo,        \* echo[c]: bytes sent to c it has not read
  echoed,      \* history: all bytes sent to c
  rst,         \* a reset from c's kernel: "none", "due" or "come"
  filled,      \* history: clients whose bytes have filled buff
  short        \* history: clients that had no room for all of an answer

vars == <<alive, backlog, fdt, ready, events, peer, said, unread, echo, echoed,
          rst, filled, short>>

Fds      == 1 .. MaxFd
Listener == 0

TypeOK ==
  /\ alive \in BOOLEAN
  /\ backlog \in Seq(Conns)
  /\ fdt \in [Fds -> Conns \cup {None}]
  /\ ready \in Seq({Listener} \cup Fds) /\ IsInjective(ready)
  /\ events \in Seq({Listener} \cup Fds) /\ Len(events) <= MaxEvents
  /\ peer \in [Conns -> {"none", "open", "closed"}]
  /\ said \in [Conns -> Nat]
  /\ \A c \in Conns : said[c] <= MaxSay[c] /\ unread[c] \in 0 .. said[c]
  /\ unread \in [Conns -> Nat]
  /\ echo \in [Conns -> 0 .. Window]
  /\ echoed \in [Conns -> Nat]
  /\ rst \in [Conns -> {"none", "due", "come"}]
  /\ filled \subseteq Conns
  /\ short \subseteq Conns

Init ==
  /\ alive = TRUE
  /\ backlog = <<>>
  /\ fdt = [n \in Fds |-> None]
  /\ ready = <<>>
  /\ events = <<>>
  /\ peer = [c \in Conns |-> "none"]
  /\ said = [c \in Conns |-> 0]
  /\ unread = [c \in Conns |-> 0]
  /\ echo = [c \in Conns |-> 0]
  /\ echoed = [c \in Conns |-> 0]
  /\ rst = [c \in Conns |-> "none"]
  /\ filled = {}
  /\ short = {}

Least(m, n) == IF m <= n THEN m ELSE n

connVars   == <<peer, said, unread, echo, echoed, rst>>
historyVars == <<filled, short>>

-----------------------------------------------------------------------------
(* The kernel's side of epoll.                                             *)

(* recv() on c would return at once: bytes, 0 at the end, -1 after a reset.*)
Ready(c) == unread[c] > 0 \/ peer[c] = "closed" \/ rst[c] = "come"

(* What epoll_wait() finds when it asks descriptor f again.                *)
IsReady(f) == IF f = Listener THEN backlog # <<>> ELSE fdt[f] # None /\ Ready(fdt[f])

(* An event on f puts it on the ready list, unless it is there.            *)
Listed(list, f) == IF f \in Range(list) THEN list ELSE Append(list, f)

(* A descriptor that is deregistered is taken off the list.                *)
Unlisted(list, f) ==
  IF f \in Range(list)
    THEN LET i == CHOOSE j \in DOMAIN list : list[j] = f
         IN  SubSeq(list, 1, i - 1) \o SubSeq(list, i + 1, Len(list))
    ELSE list

(* An event on connection c: nothing is listed for one not accepted yet.   *)
Wake(c) ==
  ready' = IF \E n \in Fds : fdt[n] = c
             THEN Listed(ready, CHOOSE n \in Fds : fdt[n] = c)
             ELSE ready

(* Mutant: the listener is edge-triggered too.                             *)
AfterWait_Edge(rest) == rest

(* The listener is level-triggered and is listed again.                    *)
AfterWait(rest) == Append(rest, Listener)

(* The places of the n descriptors reported, in the order of the list: no  *)
(* one that is ready is passed over.                                       *)
Reported(place, n) ==
  /\ \A i, j \in 1 .. n : i < j => place[i] < place[j]
  /\ \A i \in 1 .. n : IsReady(ready[place[i]])
  /\ \A k \in DOMAIN ready :
       IsReady(ready[k]) => (\E i \in 1 .. n : place[i] = k) \/ (n = MaxEvents /\ k > place[n])

(* How much of the list is looked at: all, unless there is no room.        *)
Seen(place, n) ==
  IF \E k \in DOMAIN ready : k > place[n] /\ IsReady(ready[k]) THEN place[n] ELSE Len(ready)

epoll_wait ==
  /\ events = <<>>
  /\ \E n \in 1 .. Least(MaxEvents, Len(ready)) : \E place \in [1 .. n -> DOMAIN ready] :
       /\ Reported(place, n)
       /\ events' = [i \in 1 .. n |-> ready[place[i]]]
       /\ LET rest == SubSeq(ready, Seen(place, n) + 1, Len(ready))
          IN  ready' = IF Listener \in Range(events') THEN AfterWait(rest) ELSE rest
  /\ UNCHANGED <<alive, backlog, fdt, connVars, historyVars>>

-----------------------------------------------------------------------------
(* The loop over the events.                                               *)

Opens(n) == /\ fdt[n] = None
            /\ \A m \in Fds : fdt[m] = None => n <= m

(* Mutant: the event is used for two connections.                          *)
accept_Twice ==
  /\ events # <<>> /\ Head(events) = Listener
  /\ backlog # <<>>
  /\ \E n \in Fds :
       /\ Opens(n)
       /\ fdt' = [fdt EXCEPT ![n] = Head(backlog)]
       /\ ready' = IF Ready(Head(backlog)) THEN Listed(ready, n) ELSE ready
  /\ backlog' = Tail(backlog)
  /\ UNCHANGED <<alive, events, connVars, historyVars>>

(* EPOLL_CTL_ADD lists a descriptor that is ready by then.                 *)
accept ==
  /\ events # <<>> /\ Head(events) = Listener
  /\ backlog # <<>>
  /\ \E n \in Fds :
       /\ Opens(n)
       /\ fdt' = [fdt EXCEPT ![n] = Head(backlog)]
       /\ ready' = IF Ready(Head(backlog)) THEN Listed(ready, n) ELSE ready
  /\ backlog' = Tail(backlog)
  /\ events' = Tail(events)
  /\ UNCHANGED <<alive, connVars, historyVars>>

(* Out of descriptors: the program exits.                                  *)
AcceptFails ==
  /\ events # <<>> /\ Head(events) = Listener
  /\ \A n \in Fds : fdt[n] # None
  /\ alive' = FALSE
  /\ UNCHANGED <<backlog, fdt, ready, events, connVars, historyVars>>

IsServed(n) == n \in Fds /\ events # <<>> /\ Head(events) = n

(* What send() hands over of n bytes for c: what there is room for, the    *)
(* rest is not tried again.  A client that has left answers with a reset,  *)
(* and after the reset send() fails or raises SIGPIPE.                     *)
send(c, n) ==
  \/ /\ peer[c] = "open"
     /\ LET k == Least(n, Window - echo[c])
        IN  /\ echo' = [echo EXCEPT ![c] = @ + k]
            /\ echoed' = [echoed EXCEPT ![c] = @ + k]
            /\ short' = IF k < n THEN short \cup {c} ELSE short
     /\ UNCHANGED <<alive, rst>>
  \/ /\ peer[c] = "closed"
     /\ rst[c] # "come"
     /\ rst' = [rst EXCEPT ![c] = "due"]
     /\ UNCHANGED <<alive, echo, echoed, short>>
  \/ /\ rst[c] = "come"
     /\ alive' \in BOOLEAN
     /\ UNCHANGED <<rst, echo, echoed, short>>

(* Mutant: buff is not cleared, and what earlier bytes left is answered.   *)
RecvSend_NoMemset(n) ==
  /\ IsServed(n)
  /\ fdt[n] # None /\ unread[fdt[n]] > 0
  /\ LET c == fdt[n]
         k == Least(unread[c], BuffSize)
     IN  /\ unread' = [unread EXCEPT ![c] = @ - k]
         /\ filled' = IF k < BuffSize THEN filled ELSE filled \cup {c}
         /\ \E length \in k .. BuffSize : send(c, length)
  /\ events' = Tail(events)
  /\ UNCHANGED <<backlog, fdt, ready, peer, said>>

(* One recv() and one send().  When the bytes fill buff, no NUL follows    *)
(* them, and strlen() counts on into the memory behind it.                 *)
RecvSend(n) ==
  /\ IsServed(n)
  /\ fdt[n] # None /\ unread[fdt[n]] > 0
  /\ LET c == fdt[n]
         k == Least(unread[c], BuffSize)
     IN  /\ unread' = [unread EXCEPT ![c] = @ - k]
         /\ filled' = IF k < BuffSize THEN filled ELSE filled \cup {c}
         /\ \E length \in (IF k < BuffSize THEN {k} ELSE {k, k + 1}) : send(c, length)
  /\ events' = Tail(events)
  /\ UNCHANGED <<backlog, fdt, ready, peer, said>>

(* recv() returned 0 or -1, for whatever reason: there may just have been  *)
(* nothing to receive.  EPOLL_CTL_DEL and close().                         *)
Logout(n) ==
  /\ IsServed(n)
  /\ fdt[n] # None
  /\ unread[fdt[n]] = 0 \/ rst[fdt[n]] = "come"
  /\ fdt' = [fdt EXCEPT ![n] = None]
  /\ ready' = Unlisted(ready, n)
  /\ events' = Tail(events)
  /\ UNCHANGED <<alive, backlog, connVars, historyVars>>

Main == \/ epoll_wait \/ accept \/ AcceptFails
        \/ \E n \in Fds : RecvSend(n) \/ Logout(n)

-----------------------------------------------------------------------------
(* Clients, and the kernel at their end.                                   *)

Connect(c) ==
  /\ alive
  /\ peer[c] = "none"
  /\ peer' = [peer EXCEPT ![c] = "open"]
  /\ backlog' = Append(backlog, c)
  /\ ready' = Listed(ready, Listener)
  /\ UNCHANGED <<alive, fdt, events, said, unread, echo, echoed, rst, historyVars>>

(* Mutant: no event for bytes that come behind others.                     *)
Say_Merged(c) ==
  /\ peer[c] = "open"
  /\ \E k \in 1 .. MaxSay[c] - said[c] :
       /\ said' = [said EXCEPT ![c] = @ + k]
       /\ unread' = [unread EXCEPT ![c] = @ + k]
  /\ IF said[c] = 0 THEN Wake(c) ELSE UNCHANGED ready
  /\ UNCHANGED <<alive, backlog, fdt, events, peer, echo, echoed, rst, historyVars>>

Say(c) ==
  /\ peer[c] = "open"
  /\ \E k \in 1 .. MaxSay[c] - said[c] :
       /\ said' = [said EXCEPT ![c] = @ + k]
       /\ unread' = [unread EXCEPT ![c] = @ + k]
  /\ Wake(c)
  /\ UNCHANGED <<alive, backlog, fdt, events, peer, echo, echoed, rst, historyVars>>

Collect(c) ==
  /\ peer[c] = "open"
  /\ echo[c] > 0
  /\ echo' = [echo EXCEPT ![c] = 0]
  /\ UNCHANGED <<alive, backlog, fdt, ready, events, peer, said, unread, echoed, rst, historyVars>>

(* A client that leaves with answers unread resets the connection.         *)
Leave(c) ==
  /\ peer[c] = "open"
  /\ peer' = [peer EXCEPT ![c] = "closed"]
  /\ rst' = [rst EXCEPT ![c] = IF echo[c] > 0 THEN "come" ELSE @]
  /\ Wake(c)
  /\ UNCHANGED <<alive, backlog, fdt, events, said, unread, echo, echoed, historyVars>>

(* The reset that an answer to a client that has left brings about.        *)
Reset(c) ==
  /\ rst[c] = "due"
  /\ rst' = [rst EXCEPT ![c] = "come"]
  /\ Wake(c)
  /\ UNCHANGED <<alive, backlog, fdt, events, peer, said, unread, echo, echoed, historyVars>>

Client(c) == Connect(c) \/ Say(c) \/ Collect(c) \/ Leave(c) \/ Reset(c)

Next == \/ alive /\ Main
        \/ \E c \in Conns : Client(c)

Spec == Init /\ [][Next]_vars

(* The server is scheduled, and a reset that is due comes.  Clients need   *)
(* not do anything.                                                        *)
FairSpec == /\ Spec
            /\ WF_vars(alive /\ Main)
            /\ \A c \in Conns : WF_vars(Reset(c))

-----------------------------------------------------------------------------
(* Correctness.                                                            *)

(* Whatever epoll_wait() reported is still so when its turn comes, although*)
(* the loop accepts and closes in between and descriptors are used again:  *)
(* accept() does not wait, and no recv() fails for want of bytes, which    *)
(* would be taken for a logout (lines 50-80).                              *)
EventsFresh ==
  /\ IsInjective(events)
  /\ \A i \in DOMAIN events : IsReady(events[i])

(* The client did not leave with answers unread, which resets a connection *)
(* without an end.                                                         *)
TookAnswers(c) == peer[c] = "closed" => echo[c] = 0

(* One recv() for an event is enough for a client that never fills the     *)
(* buffer: what it has sent, and its end, which may come with the bytes    *)
(* before it in one event, are reported again, or the answer to it brings  *)
(* a reset that will be (lines 57, 67).                                    *)
NotForgotten ==
  \A n \in Fds :
    /\ fdt[n] # None
    /\ Ready(fdt[n])
    /\ fdt[n] \notin filled
    /\ TookAnswers(fdt[n])
    => n \in Range(ready) \cup Range(events) \/ rst[fdt[n]] = "due"

(* What a client sends is answered byte for byte, as long as it does not   *)
(* fill the buffer and reads what it gets (lines 66-72).                   *)
EchoExact ==
  \A c \in Conns :
    peer[c] = "open" /\ c \notin filled \cup short => echoed[c] + unread[c] = said[c]

(* The connection of a client that has left is accepted and closed in the  *)
(* end, although its end may never have an event of its own (lines 43,     *)
(* 74-78).                                                                 *)
DepartedClosed ==
  \A c \in Conns :
    peer[c] = "closed" /\ TookAnswers(c)
      ~> \/ ~alive \/ c \in filled
         \/ \A n \in Fds : fdt[n] # c /\ c \notin Range(backlog)
=============================================================================
