---------------------------- MODULE FileTransfer ----------------------------
(***************************************************************************)
(* File transfer in packets of a fixed size: transfer/Example/sender.c and *)
(* transfer/Example/receiver.c, which forks a child for every connection.  *)
(* The stream between them keeps no packet boundaries: recv() returns any  *)
(* part of what has arrived, and the receiver cuts and joins.              *)
(*                                                                         *)
(* One sender and its child are modelled in full, of the other connections *)
(* what the receiver's parent process does for them.                       *)
(*                                                                         *)
(* A unit stands for a number of bytes.  A packet is one unit of header    *)
(* (size and name) and PacketSize - 1 units of payload.  Unit <<f, 0>> is  *)
(* the header of file f, <<f, 1>>, <<f, 2>>, .. are its contents.          *)
(***************************************************************************)
EXTENDS Integers, Sequences, FiniteSets

CONSTANTS
  Files,       \* the files the user may name in a "send" command
  Size,        \* Size[f]: their lengths
  PacketSize,  \* sizeof(struct FileMsg)
  Capacity,    \* what the connection holds, sent and not yet received
  MaxSends,    \* bound: "send" commands the user types
  LinkFails,   \* bound: whether the connection may break
  NoFile,      \* where padding and uninitialised memory come from
  Own,         \* the connection of the sender that is modelled
  Others,      \* bound: other connections the receiver may get
  Unforked,    \* bound: the connections for which fork() may fail
  NoConn       \* no connection

ASSUME TransferAssumption ==
  /\ Size \in [Files -> Nat]
  /\ PacketSize \in Nat \ {0, 1}
  /\ Capacity \in Nat \ {0}
  /\ MaxSends \in Nat
  /\ LinkFails \in BOOLEAN
  /\ NoFile \notin Files
  /\ Own \notin Others /\ IsFiniteSet(Others)
  /\ NoConn \notin {Own} \cup Others

VARIABLES
  sender,      \* program counter, the file at hand, bytes of it read, commands
  out,         \* what is left of the packet that is being sent
  stream,      \* what the connection holds
  child,       \* the receiver: program counter, offset, whether cnt # 0
  packet,      \* the packet it puts together
  pre,         \* packet_pre: the beginning of the next one, flag bytes of it
  written,     \* the file it has written, size bytes
  first,       \* history: the first file that was not empty
  fd,          \* the parent: the connection it has accepted and not closed
  kid,         \* kid[k]: the process forked for connection k
  sigchld,     \* SIGCHLD: whether one is pending, whether one is being handled
  ended        \* history: the receiver has seen the end of the stream

parentVars == <<fd, kid, sigchld>>
fileVars == <<sender, out, stream, child, packet, pre, written, first, parentVars, ended>>

Kids == {Own} \cup Others

Junk    == <<NoFile, 0>>
Payload == PacketSize - 1
Places  == 1 .. PacketSize
Units   == {Junk} \cup {u \in Files \X Nat : u[2] <= Size[u[1]]}

SenderPcs == {"command", "read", "send", "dead"}
ChildPcs  == {"join", "recv", "write", "done", "spoiled", "crashed"}
KidStates == {"none", "failed", "running", "zombie", "reaped"}

FileTypeOK ==
  /\ sender \in [pc : SenderPcs, file : Files \cup {NoFile}, at : Nat, typed : 0 .. MaxSends]
  /\ sender.pc \in {"read", "send"} => sender.file \in Files /\ sender.at <= Size[sender.file]
  /\ out \in Seq(Units) /\ Len(out) <= PacketSize
  /\ stream \in Seq(Units) /\ Len(stream) <= Capacity
  /\ child \in [pc : ChildPcs, offset : 0 .. Payload, opened : BOOLEAN]
  /\ packet \in [Places -> Units]
  /\ pre \in Seq(Units) /\ Len(pre) <= Payload
  /\ written \in Seq(Units)
  /\ first \in Files \cup {NoFile}
  /\ fd \in Kids \cup {NoConn}
  /\ kid \in [Kids -> KidStates]
  /\ sigchld \in [pending : BOOLEAN, handled : BOOLEAN]
  /\ ended \in BOOLEAN

FileInit ==
  /\ sender = [pc |-> "command", file |-> NoFile, at |-> 0, typed |-> 0]
  /\ out = <<>>
  /\ stream = <<>>
  /\ child = [pc |-> "join", offset |-> 0, opened |-> FALSE]
  /\ packet = [p \in Places |-> Junk]
  /\ pre = <<>>
  /\ written = <<>>
  /\ first = NoFile
  /\ fd = NoConn
  /\ kid = [k \in Kids |-> "none"]
  /\ sigchld = [pending |-> FALSE, handled |-> FALSE]
  /\ ended = FALSE

childVars == <<child, packet, pre, written, ended>>
receiverVars == <<childVars, parentVars>>

Least(m, n) == IF m <= n THEN m ELSE n

(* The child has closed its end, or is no more.                            *)
ChildEnded == child.pc \in {"done", "spoiled", "crashed"}

(* So has the parent, or the kernel for it, what it has of connection k.   *)
ParentClosed(k) == kid[k] \notin {"none", "failed"} /\ fd # k

(* The connection is closed when no process has it open.                   *)
Closed == ChildEnded /\ ParentClosed(Own)

-----------------------------------------------------------------------------
(* The sender.                                                             *)

(* A line that is no "send" command, or names no file, has no effect.      *)
Command(f) ==
  /\ sender.pc = "command"
  /\ sender.typed < MaxSends
  /\ sender' = [pc |-> "read", file |-> f, at |-> 0, typed |-> sender.typed + 1]
  /\ UNCHANGED <<out, stream, first, receiverVars>>

(* One packet, from position at of file f; the end of the last one is      *)
(* whatever the buffer holds.                                              *)
Packet(f, at) ==
  [p \in Places |-> IF p = 1 THEN <<f, 0>>
                    ELSE IF at + p - 1 <= Size[f] THEN <<f, at + p - 1>>
                    ELSE Junk]

Read ==
  /\ sender.pc = "read"
  /\ IF sender.at < Size[sender.file]
       THEN /\ out' = Packet(sender.file, sender.at)
            /\ sender' = [sender EXCEPT !.pc = "send",
                            !.at = Least(@ + Payload, Size[sender.file])]
            /\ first' = IF first = NoFile THEN sender.file ELSE first
       ELSE /\ sender' = [sender EXCEPT !.pc = "command"]
            /\ UNCHANGED <<out, first>>
  /\ UNCHANGED <<stream, receiverVars>>

(* send() waits until it has handed over all of the packet.                *)
Send ==
  /\ sender.pc = "send"
  /\ ~Closed
  /\ \E k \in 1 .. Len(out) :
       /\ Len(stream) + k <= Capacity
       /\ stream' = stream \o SubSeq(out, 1, k)
       /\ out' = SubSeq(out, k + 1, Len(out))
       /\ sender' = [sender EXCEPT !.pc = IF k = Len(out) THEN "read" ELSE "send"]
  /\ UNCHANGED <<first, receiverVars>>

(* What is sent to a receiver that has closed is lost; once its kernel has *)
(* answered, send() raises SIGPIPE, which ends the sender.                 *)
SendClosed ==
  /\ sender.pc = "send"
  /\ Closed
  /\ out' = <<>>
  /\ \E pc \in {"read", "dead"} : sender' = [sender EXCEPT !.pc = pc]
  /\ UNCHANGED <<stream, first, receiverVars>>

(* The loop of the sender has no exit: it ends when it is killed.          *)
Kill ==
  /\ sender.pc # "dead"
  /\ sender' = [sender EXCEPT !.pc = "dead"]
  /\ out' = <<>>
  /\ UNCHANGED <<stream, first, receiverVars>>

-----------------------------------------------------------------------------
(* The receiver, child_do.                                                 *)

(* Mutant: flag is reset before it is used.                                *)
Join_Drops ==
  /\ child.pc = "join"
  /\ child' = [child EXCEPT !.pc = "recv"]
  /\ pre' = <<>>
  /\ UNCHANGED <<sender, out, stream, packet, written, first, ended>>

(* Begin the next packet with what came with the one before.               *)
Join ==
  /\ child.pc = "join"
  /\ packet' = [p \in Places |-> IF p <= Len(pre) THEN pre[p] ELSE packet[p]]
  /\ child' = [child EXCEPT !.pc = "recv", !.offset = IF pre # <<>> THEN Len(pre) ELSE @]
  /\ pre' = <<>>
  /\ UNCHANGED <<sender, out, stream, written, first, ended>>

(* memcpy of the n first of these bytes into the packet, at offset.        *)
Filled(bytes, n) ==
  [p \in Places |-> IF p > child.offset /\ p <= child.offset + n
                      THEN bytes[p - child.offset] ELSE packet[p]]

(* Of the k units received, those that belong to the next packet.          *)
Sticky(k) == SubSeq(stream, PacketSize - child.offset + 1, k)

(* recv() returns k of the units that have arrived: not enough for the     *)
(* packet, just enough, or more.                                           *)
ChildRecv ==
  /\ child.pc = "recv"
  /\ \E k \in 1 .. Least(PacketSize, Len(stream)) :
       LET rest == PacketSize - child.offset
       IN  /\ stream' = SubSeq(stream, k + 1, Len(stream))
           /\ packet' = Filled(stream, Least(k, rest))
           /\ pre' = IF k > rest THEN Sticky(k) ELSE pre
           /\ child' = IF k < rest
                         THEN [child EXCEPT !.offset = @ + k]
                         ELSE [child EXCEPT !.offset = 0, !.pc = "write"]
  /\ UNCHANGED <<sender, out, written, first, ended>>

(* The end of the stream ends the inner loop as a full packet does.        *)
RecvEnd ==
  /\ child.pc = "recv"
  /\ stream = <<>>
  /\ sender.pc = "dead"
  /\ child' = [child EXCEPT !.pc = "write"]
  /\ ended' = TRUE
  /\ UNCHANGED <<sender, out, stream, packet, pre, written, first>>

(* recv_size is unsigned, so -1 is a huge number of bytes to copy.         *)
RecvFails ==
  /\ LinkFails
  /\ child.pc = "recv"
  /\ child' = [child EXCEPT !.pc = "crashed"]
  /\ UNCHANGED <<sender, out, stream, packet, pre, written, first, ended>>

(* Mutant: always a whole payload.                                         *)
Amount_Payload(f) == Payload

(* How much of the packet belongs to file f: packet.size - size is taken   *)
(* unsigned.                                                               *)
Amount(f) ==
  LET rest == Size[f] - Len(written)
  IN  IF rest >= Payload \/ rest < 0 THEN Payload ELSE rest

Write ==
  /\ child.pc = "write"
  /\ \E f \in Files :
       /\ packet[1] = <<f, 0>>
       /\ written' = written \o SubSeq(packet, 2, Amount(f) + 1)
       /\ child' = [child EXCEPT !.opened = TRUE,
                       !.pc = IF Len(written) + Amount(f) >= Size[f] THEN "done" ELSE "join"]
  /\ UNCHANGED <<sender, out, stream, packet, pre, first, ended>>

(* fopen fails, and fclose(NULL) crashes.                                  *)
OpenFails ==
  /\ child.pc = "write"
  /\ ~child.opened
  /\ child' = [child EXCEPT !.pc = "crashed"]
  /\ UNCHANGED <<sender, out, stream, packet, pre, written, first, ended>>

(* Without a header in its place the name and the size are what the memory *)
(* happens to hold: some file of some length is written, or none.          *)
WriteJunk ==
  /\ child.pc = "write"
  /\ \A f \in Files : packet[1] # <<f, 0>>
  /\ child' = [child EXCEPT !.pc = "spoiled"]
  /\ UNCHANGED <<sender, out, stream, packet, pre, written, first, ended>>

child_do == \/ Join \/ ChildRecv \/ RecvEnd \/ RecvFails
            \/ Write \/ OpenFails \/ WriteJunk

-----------------------------------------------------------------------------
(* The receiver, main and signal_process: a signal interrupts main, and    *)
(* another one waits until it has been handled.                            *)

Interrupted == sigchld.handled

(* main takes the connections as they come; accept() that fails is called  *)
(* again.                                                                  *)
ParentAccept(k) ==
  /\ ~Interrupted
  /\ fd = NoConn
  /\ kid[k] = "none"
  /\ fd' = k
  /\ UNCHANGED <<sender, out, stream, first, childVars, kid, sigchld>>

fork(k) ==
  /\ ~Interrupted
  /\ fd = k
  /\ kid[k] = "none"
  /\ kid' = [kid EXCEPT ![k] = "running"]
  /\ UNCHANGED <<sender, out, stream, first, childVars, fd, sigchld>>

(* main goes on and leaves the connection open.                            *)
ForkFails(k) ==
  /\ ~Interrupted
  /\ k \in Unforked
  /\ fd = k
  /\ kid[k] = "none"
  /\ kid' = [kid EXCEPT ![k] = "failed"]
  /\ fd' = NoConn
  /\ UNCHANGED <<sender, out, stream, first, childVars, sigchld>>

(* Mutant: the parent closes the connection once the child has ended.      *)
ParentClose_Late(k) ==
  /\ ~Interrupted
  /\ fd = k
  /\ kid[k] = "reaped"
  /\ fd' = NoConn
  /\ UNCHANGED <<sender, out, stream, first, childVars, kid, sigchld>>

ParentClose(k) ==
  /\ ~Interrupted
  /\ fd = k
  /\ kid[k] # "none"
  /\ fd' = NoConn
  /\ UNCHANGED <<sender, out, stream, first, childVars, kid, sigchld>>

(* The end of a child.  A signal that is pending already is not counted.   *)
exit(k) ==
  /\ kid[k] = "running"
  /\ k = Own => ChildEnded
  /\ kid' = [kid EXCEPT ![k] = "zombie"]
  /\ sigchld' = [sigchld EXCEPT !.pending = TRUE]
  /\ UNCHANGED <<sender, out, stream, first, childVars, fd>>

signal_process ==
  /\ ~Interrupted
  /\ sigchld.pending
  /\ sigchld' = [pending |-> FALSE, handled |-> TRUE]
  /\ UNCHANGED <<sender, out, stream, first, childVars, fd, kid>>

(* Mutant: the handler waits for all children there are.                   *)
wait_All ==
  /\ Interrupted
  /\ kid' = [k \in Kids |-> IF kid[k] = "zombie" THEN "reaped" ELSE kid[k]]
  /\ sigchld' = [sigchld EXCEPT !.handled = \E k \in Kids : kid[k] = "running"]
  /\ UNCHANGED <<sender, out, stream, first, childVars, fd>>

(* wait(NULL) reaps one child, and would wait for one if none had ended.   *)
wait ==
  /\ Interrupted
  /\ \E k \in Kids :
       /\ kid[k] = "zombie"
       /\ kid' = [kid EXCEPT ![k] = "reaped"]
  /\ sigchld' = [sigchld EXCEPT !.handled = FALSE]
  /\ UNCHANGED <<sender, out, stream, first, childVars, fd>>

-----------------------------------------------------------------------------
Sender == Read \/ Send \/ SendClosed

Child == kid[Own] = "running" /\ child_do /\ UNCHANGED parentVars

FileNext ==
  \/ (\E f \in Files : Command(f)) \/ Sender \/ Kill
  \/ Child
  \/ \E k \in Kids : ParentAccept(k) \/ fork(k) \/ ForkFails(k) \/ ParentClose(k) \/ exit(k)
  \/ signal_process \/ wait

FileSpec == FileInit /\ [][FileNext]_fileVars

(* All processes are scheduled.  Nobody has to type a command, and faults  *)
(* need not happen.                                                        *)
Fairness ==
  /\ WF_fileVars(Sender)
  /\ WF_fileVars(kid[Own] = "running" /\ UNCHANGED parentVars
             /\ (Join \/ ChildRecv \/ RecvEnd \/ Write \/ WriteJunk))
  /\ WF_fileVars(ParentAccept(Own) \/ signal_process \/ wait \/ \E k \in Kids : fork(k) \/ ParentClose(k))

FileFairSpec == FileSpec /\ Fairness

-----------------------------------------------------------------------------
(* Correctness.                                                            *)

(* However the stream is cut, what the receiver has written is a beginning *)
(* of the first file, and the whole of it when it stops, without padding,  *)
(* as long as the stream does not end before (receiver.c:28-78).           *)
Faithful ==
  ~ended =>
    /\ child.pc # "spoiled"
    /\ Len(written) <= (IF first = NoFile THEN 0 ELSE Size[first])
    /\ \A k \in DOMAIN written : written[k] = <<first, k>>
    /\ child.pc = "done" => Len(written) = Size[first]

(* What is sent is received unless a process ends or none was forked: the  *)
(* receiver never waits for bytes it has in packet_pre, or for padding     *)
(* (receiver.c:34).                                                        *)
Delivered ==
  first # NoFile ~> (Closed \/ sender.pc = "dead" \/ kid[Own] = "failed")

(* Neither waits for the other for ever, unless no child could be forked   *)
(* and the parent keeps the connection (receiver.c:106): the sender leaves *)
(* send(), for the receiver reads or has closed, in both processes         *)
(* (sender.c:57-60); the receiver stops when the sender is gone, although  *)
(* it does not look for the end of the stream (receiver.c:34, 73).         *)
BothStop ==
  /\ sender.pc = "send" ~> (sender.pc \in {"command", "dead"} \/ kid[Own] = "failed")
  /\ sender.pc = "dead" ~> (Closed \/ kid[Own] = "failed")

(* Signals get lost when children end at once, and their zombies stay; but *)
(* there is never a signal without one, so the handler never holds up the  *)
(* parent in wait() until some transfer is over (receiver.c:19).           *)
WaitReturns ==
  (IF sigchld.pending THEN 1 ELSE 0) + (IF sigchld.handled THEN 1 ELSE 0)
    <= Cardinality({k \in Kids : kid[k] = "zombie"})
=============================================================================
