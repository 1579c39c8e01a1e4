---------------------------- MODULE SelectServer ----------------------------
(***************************************************************************)
(* The echo server that waits with select(),                               *)
(* server/backup/server_select_io_multiplexing.c.  Its sockets do not      *)
(* block: what a client sends is gathered in the buffer of its descriptor  *)
(* until it ends with an empty line, and is sent back, in capitals, as far *)
(* as the client's end has room, over as many rounds as that takes.        *)
(*                                                                         *)
(* A client's bytes are words: "end" is the empty line that ends a request *)
(* and "text" what comes before it.                                        *)
(***************************************************************************)
EXTENDS Integers, Sequences, FiniteSets

CONSTANTS
  Conns,       \* connections that may be made
  MaxFd,       \* descriptors 1 .. MaxFd are what accept() may return
  MaxClients,  \* MAX_CLIENTS, the length of the array buffer
  BuffSize,    \* BUFF_SIZE, in words
  Window,      \* what a client's end holds before the client reads it
  MaxSay,      \* bound: MaxSay[c] is how many words client c sends
  Leavers,     \* bound: the clients that may leave
  Shortage,    \* whether accept() may fail for want of memory, or of
               \* descriptors in the whole system
  None         \* no connection: the entry of a descriptor that is not open

ASSUME SelectAssumption ==
  /\ MaxFd \in Nat
  /\ MaxClients \in Nat
  /\ BuffSize \in Nat \ {0}
  /\ Window \in Nat \ {0}
  /\ MaxSay \in [Conns -> Nat]
  /\ Leavers \subseteq Conns
  /\ Shortage \in BOOLEAN
  /\ None \notin Conns

VARIABLES
  alive,       \* the process has neither returned nor been killed
  backlog,     \* connections completed by the kernel, not yet accepted
  fdt,         \* the server's descriptor table
  peer,        \* "none" before, "open" while, "closed" after c is connected
  rst,         \* rst[c]: the client's kernel has sent a reset
  said,        \* said[c]: the words client c has sent
  unread,      \* unread[c]: how many of them the server has not received
  echoed,      \* echoed[c]: the words sent to c
  held,        \* held[c]: how many of them c has not read
  buffer,      \* buffer[n]: fd, flag, send_index and the words up to
               \* recv_index of the Buffer of descriptor n
  rfds,        \* what select() found readable and is not yet served, 0 the
  wfds,        \* listener; the same for writable
  left,        \* history: left[c]: what c found in its buffer at its login
  overrun      \* history: the clients of whom words did not fit

vars == <<alive, backlog, fdt, peer, rst, said, unread, echoed, held,
          buffer, rfds, wfds, left, overrun>>

Fds     == 1 .. MaxFd
Buffers == {n \in Fds : n < MaxClients}
Word    == [from : Conns, no : Nat, word : {"text", "TEXT", "end"}]
Buffer  == [fd : Fds \cup {-1}, flag : {0, 1}, send_index : 0 .. BuffSize, buff : Seq(Word)]

TypeOK ==
  /\ alive \in BOOLEAN
  /\ backlog \in Seq(Conns)
  /\ fdt \in [Fds -> Conns \cup {None}]
  /\ peer \in [Conns -> {"none", "open", "closed"}]
  /\ rst \in [Conns -> BOOLEAN]
  /\ said \in [Conns -> Seq(Word)]
  /\ unread \in [Conns -> Nat]
  /\ \A c \in Conns : unread[c] \in 0 .. Len(said[c]) /\ Len(said[c]) <= MaxSay[c]
  /\ echoed \in [Conns -> Seq(Word)]
  /\ held \in [Conns -> 0 .. Window]
  /\ buffer \in [Buffers -> Buffer]
  /\ \A n \in Buffers : /\ Len(buffer[n].buff) <= BuffSize
                        /\ buffer[n].send_index <= Len(buffer[n].buff)
  /\ rfds \subseteq {0} \cup Buffers
  /\ wfds \subseteq Buffers
  /\ left \in [Conns -> Seq(Word)]
  /\ overrun \subseteq Conns

AllocBuffer == [fd |-> -1, flag |-> 0, send_index |-> 0, buff |-> <<>>]

Init ==
  /\ alive = TRUE
  /\ backlog = <<>>
  /\ fdt = [n \in Fds |-> None]
  /\ peer = [c \in Conns |-> "none"]
  /\ rst = [c \in Conns |-> FALSE]
  /\ said = [c \in Conns |-> <<>>]
  /\ unread = [c \in Conns |-> 0]
  /\ echoed = [c \in Conns |-> <<>>]
  /\ held = [c \in Conns |-> 0]
  /\ buffer = [n \in Buffers |-> AllocBuffer]
  /\ rfds = {}
  /\ wfds = {}
  /\ left = [c \in Conns |-> <<>>]
  /\ overrun = {}

Least(m, n) == IF m <= n THEN m ELSE n
Last(s)     == s[Len(s)]
First(s, k) == SubSeq(s, 1, Least(k, Len(s)))
From(s, k)  == SubSeq(s, k + 1, Len(s))

echoVars   == <<echoed, held>>
historyVars == <<left, overrun>>

-----------------------------------------------------------------------------
ch_char(w) == IF w.word = "text" THEN [w EXCEPT !.word = "TEXT"] ELSE w

Capitals(s) == [k \in DOMAIN s |-> ch_char(s[k])]

(* The words of c the server has not received, and those not sent back.    *)
Unreceived(c) == From(said[c], Len(said[c]) - unread[c])
Unsent(n)     == From(buffer[n].buff, buffer[n].send_index)

(* recv() on c would return at once: words, 0 at the end, -1 after a reset.*)
Readable(c) == unread[c] > 0 \/ peer[c] = "closed" \/ rst[c]
Writable(c) == held[c] < Window \/ peer[c] = "closed" \/ rst[c]

select ==
  /\ rfds \cup wfds = {}
  /\ LET used == {n \in Buffers : buffer[n].fd = n}
     IN  /\ rfds' = {n \in used : Readable(fdt[n])}
                       \cup (IF backlog # <<>> THEN {0} ELSE {})
         /\ wfds' = {n \in used : buffer[n].flag = 1 /\ Writable(fdt[n])}
  /\ rfds' \cup wfds' # {}
  /\ UNCHANGED <<alive, backlog, fdt, peer, rst, said, unread, echoVars, buffer, historyVars>>

Opens(n) == /\ fdt[n] = None
            /\ \A m \in Fds : fdt[m] = None => n <= m

(* The connection gets the buffer of its descriptor, as the last one left  *)
(* it.  The test lets descriptor MaxClients through, which has none: what  *)
(* is read behind the array ends the process or says "in use".             *)
accept ==
  /\ 0 \in rfds
  /\ \E n \in Fds :
       /\ Opens(n)
       /\ \/ /\ n > MaxClients
             /\ UNCHANGED <<alive, fdt, buffer, left>>
          \/ /\ n = MaxClients
             /\ fdt' = [fdt EXCEPT ![n] = Head(backlog)]
             /\ alive' \in BOOLEAN
             /\ UNCHANGED <<buffer, left>>
          \/ /\ n < MaxClients
             /\ fdt' = [fdt EXCEPT ![n] = Head(backlog)]
             /\ buffer[n].fd = -1
             /\ buffer' = [buffer EXCEPT ![n].fd = n]
             /\ left' = [left EXCEPT ![Head(backlog)] = Unsent(n)]
             /\ UNCHANGED alive
  /\ backlog' = Tail(backlog)
  /\ rfds' = rfds \ {0}
  /\ UNCHANGED <<peer, rst, said, unread, echoVars, wfds, overrun>>

(* main() returns when accept() fails.                                     *)
AcceptFails ==
  /\ 0 \in rfds
  /\ Shortage \/ \A n \in Fds : fdt[n] # None
  /\ alive' = FALSE
  /\ UNCHANGED <<backlog, fdt, peer, rst, said, unread, echoVars, buffer, rfds, wfds, historyVars>>

(* The scan goes through the descriptors upwards, after the listener.      *)
IsTurn(n) == /\ n \in rfds \cup wfds
             /\ \A m \in rfds \cup wfds : n <= m

(* Mutant: only a request that came alone is seen.                         *)
Mark_Alone(n, now) == IF buffer[n].buff = <<>> /\ Last(now).word = "end" THEN 1 ELSE buffer[n].flag

(* The mark of buffer n when it holds the words now.                       *)
Mark(n, now) == IF Last(now).word = "end" THEN 1 ELSE buffer[n].flag

(* One recv() of RecvToBuffer: what does not fit is dropped, and flag says *)
(* that what is in the buffer now ends with an empty line.                 *)
RecvToBuffer(n) ==
  LET c   == fdt[n]
      got == First(Unreceived(c), BuffSize)
      now == buffer[n].buff \o Capitals(First(got, BuffSize - Len(buffer[n].buff)))
  IN  /\ IsTurn(n)
      /\ n \in rfds
      /\ unread[c] > 0
      /\ unread' = [unread EXCEPT ![c] = @ - Len(got)]
      /\ buffer' = [buffer EXCEPT ![n].buff = now, ![n].flag = Mark(n, now)]
      /\ overrun' = IF Len(buffer[n].buff) + Len(got) > BuffSize THEN overrun \cup {c}
                                                                 ELSE overrun
      /\ UNCHANGED <<alive, backlog, fdt, peer, rst, said, echoVars, rfds, wfds, left>>

(* It ends with EAGAIN when the client has sent no more.                   *)
RecvDone(n) ==
  /\ IsTurn(n)
  /\ n \in rfds
  /\ ~Readable(fdt[n])
  /\ rfds' = rfds \ {n}
  /\ UNCHANGED <<alive, backlog, fdt, peer, rst, said, unread, echoVars, buffer, wfds, historyVars>>

(* Mutant: the buffer remains in use.                                      *)
Closed_KeepsFd(n) ==
  /\ fdt' = [fdt EXCEPT ![n] = None]
  /\ rfds' = rfds \ {n}
  /\ wfds' = wfds \ {n}
  /\ UNCHANGED buffer

Closed(n) ==
  /\ buffer' = [buffer EXCEPT ![n].fd = -1]
  /\ fdt' = [fdt EXCEPT ![n] = None]
  /\ rfds' = rfds \ {n}
  /\ wfds' = wfds \ {n}

(* recv() returned 0 or -1: the rest of the buffer stays as it is.         *)
Logout(n) ==
  /\ IsTurn(n)
  /\ n \in rfds
  /\ unread[fdt[n]] = 0
  /\ Readable(fdt[n])
  /\ Closed(n)
  /\ UNCHANGED <<alive, backlog, peer, rst, said, unread, echoVars, historyVars>>

IsSent(n) == IsTurn(n) /\ n \notin rfds

(* Mutant: the mark is not taken back.                                     *)
Sent_KeepsMark(n, k) ==
  IF buffer[n].send_index + k < Len(buffer[n].buff)
  THEN /\ buffer' = [buffer EXCEPT ![n].send_index = @ + k]
       /\ UNCHANGED wfds
  ELSE /\ buffer' = [buffer EXCEPT ![n].send_index = 0, ![n].buff = <<>>]
       /\ wfds' = wfds \ {n}

(* Mutant: the first send() is the last.                                   *)
Sent_Once(n, k) ==
  /\ buffer' = [buffer EXCEPT ![n].send_index = 0, ![n].buff = <<>>, ![n].flag = 0]
  /\ wfds' = wfds \ {n}

(* k words went out.  Were they the last, the buffer is empty again.       *)
Sent(n, k) ==
  IF buffer[n].send_index + k < Len(buffer[n].buff)
  THEN /\ buffer' = [buffer EXCEPT ![n].send_index = @ + k]
       /\ UNCHANGED wfds
  ELSE /\ buffer' = [buffer EXCEPT ![n].send_index = 0, ![n].buff = <<>>, ![n].flag = 0]
       /\ wfds' = wfds \ {n}

(* One send() of SendFromBuffer: as much as the client's end has room for. *)
(* To a client that has left it is answered by a reset.                    *)
SendFromBuffer(n) ==
  LET c == fdt[n]
  IN  /\ IsSent(n)
      /\ ~rst[c]
      /\ \/ /\ peer[c] = "open"
            /\ held[c] < Window
            /\ LET out == First(Unsent(n), Window - held[c])
               IN  /\ echoed' = [echoed EXCEPT ![c] = @ \o out]
                   /\ held' = [held EXCEPT ![c] = @ + Len(out)]
                   /\ Sent(n, Len(out))
            /\ UNCHANGED rst
         \/ /\ peer[c] = "closed"
            /\ rst' = [rst EXCEPT ![c] = TRUE]
            /\ Sent(n, Len(Unsent(n)))
            /\ UNCHANGED echoVars
      /\ UNCHANGED <<alive, backlog, fdt, peer, said, unread, rfds, historyVars>>

(* EAGAIN: the rest goes out in a later round.                             *)
SendAgain(n) ==
  /\ IsSent(n)
  /\ ~Writable(fdt[n])
  /\ wfds' = wfds \ {n}
  /\ UNCHANGED <<alive, backlog, fdt, peer, rst, said, unread, echoVars, buffer, rfds, historyVars>>

(* After a reset send() fails, or raises SIGPIPE.                          *)
SendFails(n) ==
  /\ IsSent(n)
  /\ rst[fdt[n]]
  /\ \/ /\ Closed(n)
        /\ UNCHANGED alive
     \/ /\ alive' = FALSE
        /\ UNCHANGED <<fdt, buffer, rfds, wfds>>
  /\ UNCHANGED <<backlog, peer, rst, said, unread, echoVars, historyVars>>

Main == \/ select \/ accept \/ AcceptFails
        \/ \E n \in Buffers : \/ RecvToBuffer(n) \/ RecvDone(n) \/ Logout(n)
                              \/ SendFromBuffer(n) \/ SendAgain(n) \/ SendFails(n)

-----------------------------------------------------------------------------
(* Clients.                                                                *)

Connect(c) ==
  /\ peer[c] = "none"
  /\ peer' = [peer EXCEPT ![c] = "open"]
  /\ backlog' = Append(backlog, c)
  /\ UNCHANGED <<alive, fdt, rst, said, unread, echoVars, buffer, rfds, wfds, historyVars>>

Say(c) ==
  /\ peer[c] = "open"
  /\ Len(said[c]) < MaxSay[c]
  /\ \E w \in {"text", "end"} :
       said' = [said EXCEPT ![c] = Append(@, [from |-> c, no |-> Len(@) + 1, word |-> w])]
  /\ unread' = [unread EXCEPT ![c] = @ + 1]
  /\ UNCHANGED <<alive, backlog, fdt, peer, rst, echoVars, buffer, rfds, wfds, historyVars>>

Collect(c) ==
  /\ peer[c] = "open"
  /\ held[c] > 0
  /\ held' = [held EXCEPT ![c] = 0]
  /\ UNCHANGED <<alive, backlog, fdt, peer, rst, said, unread, echoed, buffer,
                 rfds, wfds, historyVars>>

(* A client that has not read everything leaves with a reset.              *)
Leave(c) ==
  /\ c \in Leavers
  /\ peer[c] = "open"
  /\ peer' = [peer EXCEPT ![c] = "closed"]
  /\ rst' = [rst EXCEPT ![c] = held[c] > 0]
  /\ UNCHANGED <<alive, backlog, fdt, said, unread, echoVars, buffer, rfds, wfds, historyVars>>

Client(c) == Connect(c) \/ Say(c) \/ Collect(c) \/ Leave(c)

(* What happens after the server has ended is left out.                    *)
Next == alive /\ (Main \/ \E c \in Conns : Client(c))

Spec == Init /\ [][Next]_vars

(* The server is scheduled; clients need not do anything.                  *)
FairSpec == Spec /\ WF_vars(alive /\ Main)

-----------------------------------------------------------------------------
(* Correctness.                                                            *)

(* Each buffer is in step with the connection of its descriptor, also when *)
(* select() had reported it in the round that closed it.                   *)
BuffersExact ==
  /\ \A n \in Buffers : buffer[n].fd = IF fdt[n] = None THEN -1 ELSE n
  /\ rfds \cup wfds \subseteq {0} \cup {n \in Buffers : fdt[n] # None}

(* What a client is sent, what its buffer holds for it and what it sent    *)
(* and the server has not received are, in this order and in capitals, the *)
(* words it sent, behind those it found in the buffer: nothing is sent     *)
(* twice, skipped or changed places when a send() takes only a part and    *)
(* more arrives before the rest goes out, as long as all fits (53-75,      *)
(* 77-93, 154-156, 172-175).                                               *)
StreamExact ==
  \A n \in Buffers : LET c == fdt[n] IN
    c # None /\ c \notin overrun /\ peer[c] = "open" =>
      echoed[c] \o Unsent(n) \o Capitals(Unreceived(c)) = left[c] \o Capitals(said[c])

(* A buffer marked for sending holds a whole request and something still   *)
(* to be sent, and one that is not is not partly sent: a mark that         *)
(* outlives its request would have select() return for ever (58-64,        *)
(* 79-92, 132-134).                                                        *)
MarkExact ==
  \A n \in Buffers :
    IF buffer[n].flag = 1
    THEN /\ \E k \in DOMAIN buffer[n].buff : buffer[n].buff[k].word = "end"
         /\ Unsent(n) # <<>>
    ELSE buffer[n].send_index = 0

(* The client's last words so far complete a request.                      *)
Complete(c) == said[c] # <<>> /\ Last(said[c]).word = "end"

(* There is no buffer for c: it was refused, or its descriptor has none.   *)
Unserved(c) == /\ \A n \in Buffers : fdt[n] # c
               /\ \A i \in DOMAIN backlog : backlog[i] # c

(* A client that stays gets all its requests back, or has to read          *)
(* something first, unless they overran the buffer, it is not served or    *)
(* the server has ended: no request is forgotten when its end arrives with the *)
(* next one's beginning, after a partial send, or in a round that serves   *)
(* others (120-177).                                                       *)
Answered ==
  \A c \in {d \in Conns \ Leavers : MaxSay[d] > 0} :
    Complete(c) ~> \/ ~Complete(c) \/ held[c] = Window \/ c \in overrun
                   \/ Unserved(c) \/ ~alive
                   \/ echoed[c] = left[c] \o Capitals(said[c])
=============================================================================
