--------------------------- MODULE TransferServer ---------------------------
(***************************************************************************)
(* The simple file transfer: transfer/transfer_server.c, which gives each  *)
(* connection a thread and hands it the address of main's sockfd, and its  *)
(* client, transfer/transfer_client.c, which sends a name, then contents,  *)
(* with nothing in between to tell them apart.                             *)
(*                                                                         *)
(* A unit stands for some bytes.  <<c, 0>> is the name client c sends, and *)
(* <<c, 1>>, <<c, 2>>, .. are the contents of its file.                    *)
(***************************************************************************)
EXTENDS Integers, Sequences

CONSTANTS
  Conns,       \* the clients that may be run, one connection each
  Names,       \* the names of files
  Told,        \* Told[c]: the names client c may be told to send, or None
  Size,        \* Size[f]: how long a file of this name is at a client
  OldSize,     \* OldSize[f]: its length at the server before
  NameRoom,    \* units of filename, the name included
  BuffSize,    \* BUFF_SIZE
  MaxFd,       \* descriptors 1 .. MaxFd are what the server may be given
  Faulty,      \* bound: the clients that may be killed, or whose connection
               \* may break, or whose file finds the disk full
  None         \* no connection, no name, what padding is made of

ASSUME TransferAssumption ==
  /\ Told \in [Conns -> SUBSET (Names \cup {None})]
  /\ Size \in [Names -> Nat]
  /\ OldSize \in [Names -> Nat]
  /\ NameRoom \in Nat \ {0}
  /\ BuffSize \in Nat \ {0}
  /\ MaxFd \in Nat
  /\ Faulty \subseteq Conns
  /\ None \notin Conns \cup Names
  /\ Conns \cap Names = {}

VARIABLES
  alive,       \* the server has not called exit()
  backlog,     \* connections completed by the kernel, not yet accepted
  fdt,         \* the server's descriptors: a connection, an open file, None
  sockfd,      \* main's variable, 0 for -1
  main,        \* the connection main starts a thread for, None at accept()
  peer,        \* "none" before, "open" while, "closed" after c is connected
  name,        \* the file client c was told to send; None if it cannot
  sends,       \* sends[c]: calls of send() client c has made
  stream,      \* stream[c]: units the server has not received
  thread,      \* the thread started for c: program counter, its locals
  disk,        \* disk[f]: the file f at the server
  taken,       \* history: what was received with the name
  intact       \* history: each thread has found its own descriptor so far

vars == <<alive, backlog, fdt, sockfd, main, peer, name, sends, stream,
          thread, disk, taken, intact>>

Fds   == 1 .. MaxFd
Pad   == <<None, 0>>
Units == {Pad} \cup (Conns \X Nat)

Live == {"start", "name", "open", "copy"}
Pcs  == {"none", "done", "cut", "failed"} \cup Live

TypeOK ==
  /\ alive \in BOOLEAN
  /\ backlog \in Seq(Conns)
  /\ fdt \in [Fds -> Conns \cup Names \cup {None}]
  /\ sockfd \in 0 .. MaxFd
  /\ main \in Conns \cup {None}
  /\ peer \in [Conns -> {"none", "open", "closed"}]
  /\ name \in [Conns -> Names \cup {None}]
  /\ sends \in [Conns -> Nat]
  /\ stream \in [Conns -> Seq(Units)]
  /\ thread \in [Conns -> [pc : Pcs, fd : 0 .. MaxFd, filename : Names \cup {None},
                           fp : 0 .. MaxFd, at : Nat]]
  /\ disk \in [Names -> Seq(Units)]
  /\ taken \in [Conns -> Seq(Units)]
  /\ intact \in BOOLEAN

Init ==
  /\ alive = TRUE
  /\ backlog = <<>>
  /\ fdt = [n \in Fds |-> None]
  /\ sockfd = 0
  /\ main = None
  /\ peer = [c \in Conns |-> "none"]
  /\ name = [c \in Conns |-> None]
  /\ sends = [c \in Conns |-> 0]
  /\ stream = [c \in Conns |-> <<>>]
  /\ thread = [c \in Conns |-> [pc |-> "none", fd |-> 0, filename |-> None, fp |-> 0, at |-> 0]]
  /\ disk = [f \in Names |-> [k \in 1 .. OldSize[f] |-> Pad]]
  /\ taken = [c \in Conns |-> <<>>]
  /\ intact = TRUE

Least(m, n) == IF m <= n THEN m ELSE n

clientVars == <<peer, name, sends>>
mainVars   == <<backlog, sockfd, main>>
fileVars   == <<stream, disk, taken>>

-----------------------------------------------------------------------------
(* main.                                                                   *)

Opens(n) == /\ fdt[n] = None
            /\ \A m \in Fds : fdt[m] = None => n <= m

accept ==
  /\ main = None
  /\ backlog # <<>>
  /\ \E n \in Fds :
       /\ Opens(n)
       /\ fdt' = [fdt EXCEPT ![n] = Head(backlog)]
       /\ sockfd' = n
  /\ main' = Head(backlog)
  /\ backlog' = Tail(backlog)
  /\ UNCHANGED <<alive, clientVars, thread, fileVars, intact>>

(* Out of descriptors: sockfd is -1 while main tries again.                *)
AcceptFails ==
  /\ main = None
  /\ \A n \in Fds : fdt[n] # None
  /\ sockfd' = 0
  /\ UNCHANGED <<alive, backlog, fdt, main, clientVars, thread, fileVars, intact>>

pthread_create ==
  /\ main # None
  /\ thread' = [thread EXCEPT ![main].pc = "start"]
  /\ main' = None
  /\ UNCHANGED <<alive, backlog, fdt, sockfd, clientVars, fileVars, intact>>

Main == accept \/ AcceptFails \/ pthread_create

-----------------------------------------------------------------------------
(* receive_file, in the thread started for c.                              *)

(* The thread reads main's variable, whatever main has put there since.    *)
Start(c) ==
  /\ thread[c].pc = "start"
  /\ thread' = [thread EXCEPT ![c].pc = "name", ![c].fd = sockfd]
  /\ intact' = (intact /\ sockfd # 0 /\ fdt[sockfd] = c)
  /\ UNCHANGED <<alive, fdt, mainVars, clientVars, fileVars>>

(* What the thread's descriptor stands for now.                            *)
Socket(c) == IF thread[c].fd = 0 THEN None ELSE fdt[thread[c].fd]

(* Mutant: the thread waits for a name that will not come.                 *)
RecvName_Waits(c) ==
  /\ thread[c].pc = "name"
  /\ Socket(c) \in Conns
  /\ LET s == stream[Socket(c)]
     IN  \E k \in 1 .. Least(NameRoom, Len(s)) :
           /\ stream' = [stream EXCEPT ![Socket(c)] = SubSeq(s, k + 1, Len(s))]
           /\ taken' = [taken EXCEPT ![c] = SubSeq(s, 1, k)]
           /\ thread' = [thread EXCEPT ![c].pc = "open", ![c].filename = name[Socket(c)]]
  /\ UNCHANGED <<alive, fdt, mainVars, clientVars, disk, intact>>

(* What filename says when it begins with this unit of connection x:       *)
(* contents taken for a name make open() find or create a file, in the     *)
(* model one that has a name already; zeros are no name.                   *)
Named(x, unit) == IF unit = <<x, 0>> THEN {name[x]}
                  ELSE IF unit = Pad THEN {None} ELSE Names

(* The first recv() returns what has come, with the name at its beginning  *)
(* unless another thread has taken it.                                     *)
RecvName(c) ==
  /\ thread[c].pc = "name"
  /\ Socket(c) \in Conns
  /\ LET s == stream[Socket(c)]
     IN  \/ \E k \in 1 .. Least(NameRoom, Len(s)) :
              /\ stream' = [stream EXCEPT ![Socket(c)] = SubSeq(s, k + 1, Len(s))]
              /\ taken' = [taken EXCEPT ![c] = SubSeq(s, 1, k)]
              /\ \E f \in Named(Socket(c), s[1]) :
                   thread' = [thread EXCEPT ![c].pc = "open", ![c].filename = f]
         \/ /\ s = <<>>
            /\ peer[Socket(c)] = "closed"
            /\ thread' = [thread EXCEPT ![c].pc = "open", ![c].filename = None]
            /\ UNCHANGED <<stream, taken>>
  /\ UNCHANGED <<alive, fdt, mainVars, clientVars, disk, intact>>

(* A connection that breaks, and a descriptor that is none or no socket,   *)
(* end the server, with all its threads.                                   *)
RecvFails(c) ==
  /\ thread[c].pc = "name"
  /\ Socket(c) \notin Conns \/ Socket(c) \in Faulty
  /\ alive' = FALSE
  /\ UNCHANGED <<fdt, mainVars, clientVars, thread, fileVars, intact>>

(* The file is opened as it is, at its beginning.                          *)
Open(c) ==
  /\ thread[c].pc = "open"
  /\ thread[c].filename # None
  /\ \E m \in Fds :
       /\ Opens(m)
       /\ fdt' = [fdt EXCEPT ![m] = thread[c].filename]
       /\ thread' = [thread EXCEPT ![c].pc = "copy", ![c].fp = m]
  /\ UNCHANGED <<alive, mainVars, clientVars, fileVars, intact>>

(* No name, or no descriptor: the thread returns and leaves sockfd open.   *)
OpenFails(c) ==
  /\ thread[c].pc = "open"
  /\ \/ thread[c].filename = None
     \/ \A m \in Fds : fdt[m] # None
  /\ thread' = [thread EXCEPT ![c].pc = "failed"]
  /\ UNCHANGED <<alive, fdt, mainVars, clientVars, fileVars, intact>>

(* Mutant: every block is written behind the end of the file.              *)
Written_Append(file, at, units) == file \o units

(* The file after units were written at position at.                       *)
Written(file, at, units) ==
  SubSeq(file, 1, at) \o units \o SubSeq(file, at + Len(units) + 1, Len(file))

(* read() and write() of the k next units.                                 *)
Copy(c) ==
  /\ thread[c].pc = "copy"
  /\ Socket(c) \in Conns
  /\ LET s == stream[Socket(c)]
         f == thread[c].filename
     IN  \E k \in 1 .. Least(BuffSize, Len(s)) :
           /\ stream' = [stream EXCEPT ![Socket(c)] = SubSeq(s, k + 1, Len(s))]
           /\ disk' = [disk EXCEPT ![f] = Written(@, thread[c].at, SubSeq(s, 1, k))]
           /\ thread' = [thread EXCEPT ![c].at = @ + k]
  /\ UNCHANGED <<alive, fdt, mainVars, clientVars, taken, intact>>

(* The disk is full: the thread returns and leaves both descriptors open.  *)
WriteFails(c) ==
  /\ thread[c].pc = "copy"
  /\ Socket(c) \in Faulty
  /\ LET s == stream[Socket(c)]
         f == thread[c].filename
     IN  \E k \in 1 .. Least(BuffSize, Len(s)), j \in 0 .. BuffSize - 1 :
           /\ j < k
           /\ stream' = [stream EXCEPT ![Socket(c)] = SubSeq(s, k + 1, Len(s))]
           /\ disk' = [disk EXCEPT ![f] = Written(@, thread[c].at, SubSeq(s, 1, j))]
           /\ thread' = [thread EXCEPT ![c].pc = "failed"]
  /\ UNCHANGED <<alive, fdt, mainVars, clientVars, taken, intact>>

(* Mutant: the file is left open.                                          *)
Finish_KeepsFile(c) ==
  /\ thread[c].pc = "copy"
  /\ Socket(c) \in Conns => stream[Socket(c)] = <<>> /\ peer[Socket(c)] = "closed"
  /\ fdt' = [n \in Fds |-> IF n = thread[c].fd THEN None ELSE fdt[n]]
  /\ thread' = [thread EXCEPT ![c].pc = "done"]
  /\ UNCHANGED <<alive, mainVars, clientVars, fileVars, intact>>

(* read() returned 0, or -1: the connection broke, or the descriptor is    *)
(* not open any more.  The program takes all of these for the end.         *)
Finish(c) ==
  /\ thread[c].pc = "copy"
  /\ \/ /\ Socket(c) \in Conns => stream[Socket(c)] = <<>> /\ peer[Socket(c)] = "closed"
        /\ thread' = [thread EXCEPT ![c].pc = "done"]
     \/ /\ Socket(c) \in Faulty
        /\ thread' = [thread EXCEPT ![c].pc = "cut"]
  /\ fdt' = [n \in Fds |-> IF n \in {thread[c].fp, thread[c].fd} THEN None ELSE fdt[n]]
  /\ UNCHANGED <<alive, mainVars, clientVars, fileVars, intact>>

receive_file(c) == \/ Start(c) \/ RecvName(c) \/ RecvFails(c)
                   \/ Open(c) \/ OpenFails(c)
                   \/ Copy(c) \/ WriteFails(c) \/ Finish(c)

-----------------------------------------------------------------------------
(* The client.                                                             *)

(* The user names a file; one that cannot be opened, or a path without a   *)
(* slash, is noticed when the connection is there.                         *)
Connect(c) ==
  /\ peer[c] = "none"
  /\ peer' = [peer EXCEPT ![c] = "open"]
  /\ \E f \in Told[c] : name' = [name EXCEPT ![c] = f]
  /\ backlog' = Append(backlog, c)
  /\ UNCHANGED <<alive, fdt, sockfd, main, sends, thread, fileVars, intact>>

(* Block i of the file: always a whole buffer, padded with zeros.          *)
Block(c, i) ==
  [k \in 1 .. BuffSize |-> IF i * BuffSize + k <= Size[name[c]]
                             THEN <<c, i * BuffSize + k>> ELSE Pad]

(* The first send() is of the name, the others are of a block each.        *)
Sending(c) == IF sends[c] = 0 THEN <<<<c, 0>>>> ELSE Block(c, sends[c] - 1)

HasMore(c) == name[c] # None /\ (sends[c] = 0 \/ (sends[c] - 1) * BuffSize < Size[name[c]])

Send(c) ==
  /\ peer[c] = "open"
  /\ HasMore(c)
  /\ stream' = [stream EXCEPT ![c] = @ \o Sending(c)]
  /\ sends' = [sends EXCEPT ![c] = @ + 1]
  /\ UNCHANGED <<alive, fdt, mainVars, peer, name, thread, disk, taken, intact>>

(* The client is done, finds no file to send, or is killed.                *)
Leave(c) ==
  /\ peer[c] = "open"
  /\ ~HasMore(c) \/ c \in Faulty
  /\ peer' = [peer EXCEPT ![c] = "closed"]
  /\ UNCHANGED <<alive, fdt, mainVars, name, sends, thread, fileVars, intact>>

Client(c) == Connect(c) \/ Send(c) \/ Leave(c)

(* When the server has ended, what its clients still do is left out.       *)
Next == alive /\ (Main \/ \E c \in Conns : receive_file(c) \/ Client(c))

Spec == Init /\ [][Next]_vars

(* Threads are scheduled; faults need not happen, and users need not run   *)
(* clients.                                                                *)
FairSpec ==
  /\ Spec
  /\ WF_vars(alive /\ pthread_create)
  /\ \A c \in Conns :
       /\ WF_vars(alive /\ (Start(c) \/ RecvName(c) \/ Open(c) \/ OpenFails(c)
                              \/ Copy(c) \/ Finish(c)))

-----------------------------------------------------------------------------
(* Correctness, as long as each thread has found its own descriptor.       *)

(* What client c has sent.                                                 *)
Sent(c) ==
  [k \in 1 .. IF sends[c] = 0 THEN 0 ELSE 1 + (sends[c] - 1) * BuffSize |->
     IF k <= Size[name[c]] + 1 THEN <<c, k - 1>> ELSE Pad]

(* No other thread has been told the name of c's file.                     *)
Sole(c) == \A d \in Conns \ {c} : thread[d].filename # thread[c].filename

(* The bytes a client sends are, in order and each once, those that came   *)
(* with its name, then the beginning of its file, then those still to come,*)
(* of which there are none when the thread has finished: as far as it was  *)
(* written, what the file held before does not show through.  It says      *)
(* nothing of the tail of a longer old file, which open() does not cut off *)
(* (transfer_server.c:84-108, transfer_client.c:72-87).                    *)
Stored ==
  intact =>
    \A c \in Conns :
      thread[c].pc \in {"copy", "done"} /\ Sole(c) =>
        /\ taken[c] \o SubSeq(disk[thread[c].filename], 1, thread[c].at) \o stream[c] = Sent(c)
        /\ thread[c].pc = "done" => stream[c] = <<>>

(* A connection is open for the thread that serves it, or because that     *)
(* thread gave up, and so is a file: no descriptor is used after it was    *)
(* closed or stands for something else by then, and none stays behind after*)
(* a transfer that was not given up (transfer_server.c:64, 91-108).        *)
DescriptorsExact ==
  intact =>
    /\ \A n \in Fds :
         /\ fdt[n] \in Conns =>
              \/ fdt[n] = main
              \/ thread[fdt[n]].pc = "start"
              \/ thread[fdt[n]].pc \in Live \cup {"failed"} /\ thread[fdt[n]].fd = n
         /\ fdt[n] \in Names =>
              \E c \in Conns : thread[c].pc \in {"copy", "failed"} /\ thread[c].fp = n
    /\ \A c \in Conns :
         /\ thread[c].pc \in {"name", "open", "copy"} => Socket(c) = c
         /\ thread[c].pc = "copy" => fdt[thread[c].fp] = thread[c].filename

(* The thread of a client that has left comes to its end, although it does *)
(* not know how much there is to receive (transfer_server.c:84, 98).       *)
Completed ==
  \A c \in Conns :
    peer[c] = "closed" /\ thread[c].pc # "none"
      ~> thread[c].pc \notin Live \/ ~intact \/ ~alive
=============================================================================
