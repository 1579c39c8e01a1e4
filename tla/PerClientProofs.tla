-------------------------- MODULE PerClientProofs ---------------------------
(***************************************************************************)
(* Proofs about two programs that start a process or a thread for every    *)
(* connection. They have no name in common, and neither part uses the      *)
(* other.                                                                  *)
(*                                                                         *)
(* The file transfer with reassembly (FileTransfer), for any files,        *)
(* packets, connections and capacity: the handler of SIGCHLD never waits,  *)
(* and what is put together from the stream is the file that was sent.     *)
(*                                                                         *)
(* The first echo server (OldServer), for any number of clients, entries   *)
(* and descriptors: its types, that the table has a taken entry for every  *)
(* thread, although threads give up each other's entries, and that a       *)
(* client told it is connected had been.                                   *)
(***************************************************************************)
EXTENDS FileTransfer, OldServer, FiniteSetTheorems, SequenceTheorems, TLAPS

-----------------------------------------------------------------------------
(***************************************************************************)
(* The file transfer with reassembly.                                      *)
(***************************************************************************)

(* The children that have ended and were not reaped.                       *)
Zombies == {k \in Kids : kid[k] = "zombie"}

(* What the parent's part of the types says.                               *)
ParentTypes ==
  /\ fd \in Kids \cup {NoConn}
  /\ kid \in [Kids -> KidStates]
  /\ sigchld \in [pending : BOOLEAN, handled : BOOLEAN]

(* Signals not handled to the end, at most one of each kind.               *)
Signals ==
  (IF sigchld.pending THEN 1 ELSE 0) + (IF sigchld.handled THEN 1 ELSE 0)

ReaperInv == ParentTypes /\ WaitReturns

LEMMA ZombiesFinite == IsFiniteSet(Zombies) /\ Cardinality(Zombies) \in Nat
<1>1. IsFiniteSet(Kids)
  BY FS_Singleton, FS_Union, TransferAssumption DEF Kids
<1> QED BY <1>1, FS_Subset, FS_CardinalityType DEF Zombies

LEMMA WaitReturnsIs == WaitReturns <=> Signals <= Cardinality(Zombies)
BY DEF WaitReturns, Signals, Zombies

(* A step that disturbs neither zombies nor signals.                       *)
LEMMA ReaperSame ==
  ASSUME WaitReturns, Zombies' = Zombies, sigchld' = sigchld
  PROVE  WaitReturns'
BY DEF WaitReturns, Zombies

(* A child that ends makes a zombie and at most one signal more.           *)
LEMMA ExitStep ==
  ASSUME ReaperInv, NEW k \in Kids, exit(k)
  PROVE  ReaperInv'
<1> USE DEF ReaperInv
<1>1. ParentTypes'
  BY DEF ParentTypes, exit, KidStates
<1>2. k \notin Zombies /\ Zombies' = Zombies \cup {k}
  BY DEF exit, Zombies, ParentTypes
<1>3. Cardinality(Zombies') = Cardinality(Zombies) + 1
  BY <1>2, ZombiesFinite, FS_AddElement
<1>4. Signals \in Nat /\ Signals' \in Nat /\ Signals' <= Signals + 1
  BY DEF exit, Signals, ParentTypes
<1>5. Signals <= Cardinality(Zombies)
  BY WaitReturnsIs
<1>6. Signals' <= Cardinality(Zombies')
  BY <1>3, <1>4, <1>5, ZombiesFinite
<1> QED BY <1>1, <1>6 DEF WaitReturns, Signals, Zombies

(* A signal that is handled is pending no more, and there is its zombie.   *)
LEMMA HandlerStep ==
  ASSUME ReaperInv, signal_process \/ wait
  PROVE  ReaperInv'
<1> USE DEF ReaperInv
<1>1. CASE signal_process
  <2>1. ParentTypes' /\ Zombies' = Zombies
    BY <1>1 DEF ParentTypes, signal_process, Zombies
  <2>2. Signals' = Signals
    BY <1>1 DEF ParentTypes, signal_process, Interrupted, Signals
  <2> QED BY <2>1, <2>2 DEF WaitReturns, Signals, Zombies
<1>2. CASE wait
  <2>1. PICK k \in Kids : kid[k] = "zombie" /\ kid' = [kid EXCEPT ![k] = "reaped"]
    BY <1>2 DEF wait
  <2>2. ParentTypes'
    BY <1>2, <2>1 DEF ParentTypes, wait, KidStates
  <2>3. k \in Zombies /\ Zombies' = Zombies \ {k}
    BY <2>1 DEF Zombies, ParentTypes
  <2>4. Cardinality(Zombies') = Cardinality(Zombies) - 1
    BY <2>3, ZombiesFinite, FS_RemoveElement
  <2>5. Signals \in Nat /\ Signals' = Signals - 1
    BY <1>2 DEF wait, Interrupted, Signals, ParentTypes
  <2>6. Signals <= Cardinality(Zombies)
    BY WaitReturnsIs
  <2>7. Signals' <= Cardinality(Zombies')
    BY <2>4, <2>5, <2>6, ZombiesFinite
  <2> QED BY <2>2, <2>7 DEF WaitReturns, Signals, Zombies
<1> QED BY <1>1, <1>2

LEMMA StepReaper ==
  ASSUME ReaperInv, [FileNext]_fileVars
  PROVE  ReaperInv'
<1> USE DEF ReaperInv
<1>1. ASSUME UNCHANGED parentVars PROVE ReaperInv'
  BY <1>1 DEF parentVars, ParentTypes, WaitReturns, Zombies
<1>2. ASSUME NEW f \in Files, Command(f) PROVE ReaperInv'
  BY <1>1, <1>2 DEF Command, receiverVars
<1>3. CASE Sender \/ Kill
  BY <1>1, <1>3 DEF Sender, Read, Send, SendClosed, Kill, receiverVars
<1>4. CASE Child
  BY <1>1, <1>4 DEF Child
<1>5. ASSUME NEW k \in Kids, ParentAccept(k) \/ ParentClose(k) PROVE ReaperInv'
  <2>1. ParentTypes' /\ kid' = kid /\ sigchld' = sigchld
    BY <1>5 DEF ParentAccept, ParentClose, ParentTypes
  <2> QED BY <2>1, ReaperSame DEF Zombies
<1>6. ASSUME NEW k \in Kids, fork(k) \/ ForkFails(k) PROVE ReaperInv'
  <2>1. ParentTypes' /\ Zombies' = Zombies /\ sigchld' = sigchld
    BY <1>6 DEF fork, ForkFails, ParentTypes, Zombies, KidStates
  <2> QED BY <2>1, ReaperSame
<1>7. ASSUME NEW k \in Kids, exit(k) PROVE ReaperInv'
  BY <1>7, ExitStep
<1>8. CASE signal_process \/ wait
  BY <1>8, HandlerStep
<1>9. CASE UNCHANGED fileVars
  BY <1>1, <1>9 DEF fileVars
<1> QED BY <1>2, <1>3, <1>4, <1>5, <1>6, <1>7, <1>8, <1>9 DEF FileNext

LEMMA InitReaper == FileInit => ReaperInv
<1> SUFFICES ASSUME FileInit PROVE ReaperInv
  OBVIOUS
<1>1. Zombies = {} /\ Signals = 0
  BY DEF FileInit, Zombies, Signals
<1>2. WaitReturns
  BY <1>1, FS_EmptySet DEF WaitReturns, Zombies, Signals
<1> QED BY <1>2 DEF FileInit, ReaperInv, ParentTypes, KidStates

(* The handler of SIGCHLD, which waits for any child, finds one that has   *)
(* ended whenever it runs, although signals that come while one is pending *)
(* are lost (receiver.c:19).                                               *)
THEOREM HandlerNeverWaits == FileSpec => []WaitReturns
<1>1. ReaperInv => WaitReturns
  BY DEF ReaperInv
<1> QED BY <1>1, InitReaper, StepReaper, PTL DEF FileSpec
-----------------------------------------------------------------------------
(* The bytes on their way.  Cut as they are into the packet that is put    *)
(* together, packet_pre, the stream and the rest of the packet that is     *)
(* being sent, they are one line, which receiving only cuts elsewhere.     *)

(* What the types say but for the parent's part.                           *)
SenderTypes ==
  /\ sender \in [pc : SenderPcs, file : Files \cup {NoFile}, at : Nat, typed : 0 .. MaxSends]
  /\ sender.pc \in {"read", "send"} => sender.file \in Files /\ sender.at <= Size[sender.file]
  /\ first \in Files \cup {NoFile}

LineTypes ==
  /\ out \in Seq(Units) /\ Len(out) <= PacketSize
  /\ stream \in Seq(Units) /\ Len(stream) <= Capacity

ChildTypes ==
  /\ child \in [pc : ChildPcs, offset : 0 .. Payload, opened : BOOLEAN]
  /\ packet \in [Places -> Units]
  /\ pre \in Seq(Units) /\ Len(pre) <= Payload
  /\ written \in Seq(Units)
  /\ ended \in BOOLEAN

FlowTypes == SenderTypes /\ LineTypes /\ ChildTypes

(* How much of the packet has been put together.                           *)
Fill == IF child.pc = "write" THEN PacketSize
        ELSE IF child.pc = "recv" THEN child.offset ELSE 0

Length == Fill + Len(pre) + Len(stream) + Len(out)

At(i) ==
  IF i <= Fill THEN packet[i]
  ELSE IF i <= Fill + Len(pre) THEN pre[i - Fill]
  ELSE IF i <= Fill + Len(pre) + Len(stream) THEN stream[i - Fill - Len(pre)]
  ELSE out[i - Fill - Len(pre) - Len(stream)]

(* With j packets written, the line is the packets of the first file from  *)
(* there on, as far as that file goes.                                     *)
Aligned(j) ==
  \A q \in Nat, p \in Places :
    q * PacketSize + p <= Length /\ (j + q) * Payload < Size[first] =>
      At(q * PacketSize + p) = Packet(first, (j + q) * Payload)[p]

(* n packets after the j written, the sender is in its first run through   *)
(* the file, or past its end.                                              *)
Sending(j, n) ==
  /\ sender.pc \in {"read", "send"}
  /\ sender.file = first
  /\ Length = n * PacketSize
  /\ sender.at = Least((j + n) * Payload, Size[first])

Past(j, n) == n * PacketSize <= Length /\ Size[first] <= (j + n) * Payload

Ahead(j) == sender.pc = "dead" \/ \E n \in Nat : Sending(j, n) \/ Past(j, n)

Progress ==
  IF first = NoFile THEN Length = 0 /\ written = <<>>
  ELSE \E j \in Nat : /\ Len(written) = j * Payload
                      /\ j * Payload < Size[first]
                      /\ Aligned(j)
                      /\ Ahead(j)

Going == child.pc \in {"join", "recv", "write"}

SenderShape ==
  /\ sender.pc # "send" => out = <<>>
  /\ first = NoFile => sender.pc # "send" /\ (sender.pc = "read" => sender.at = 0)

ChildShape ==
  /\ child.pc = "recv" => pre = <<>>
  /\ ~ended /\ child.pc \in {"join", "write"} => child.offset = 0
  /\ ~ended /\ child.pc = "done" => first # NoFile

FileInv ==
  /\ FlowTypes /\ SenderShape /\ ChildShape
  /\ Faithful
  /\ ~ended /\ Going => Progress

-----------------------------------------------------------------------------
(* Arithmetic of packets, and what cutting and joining sequences gives.    *)

LEMMA NextPacket ==
  ASSUME NEW P \in Nat, NEW q \in Nat
  PROVE  (q + 1) * P = q * P + P /\ q * P \in Nat
OBVIOUS

LEMMA PacketsOrdered ==
  ASSUME NEW P \in Nat, NEW q \in Nat, NEW n \in Nat, q <= n
  PROVE  q * P <= n * P
OBVIOUS

(* A place of packet q that is not in the first n packets.                 *)
LEMMA PacketAfter ==
  ASSUME NEW P \in Nat \ {0}, NEW q \in Nat, NEW n \in Nat, NEW p \in 1 .. P,
         q * P + p > n * P
  PROVE  q >= n
OBVIOUS

LEMMA PacketBefore ==
  ASSUME NEW P \in Nat \ {0}, NEW q \in Nat, NEW n \in Nat, NEW p \in 1 .. P,
         q * P + p <= n * P + P
  PROVE  q <= n
OBVIOUS

LEMMA Cut ==
  ASSUME NEW S, NEW s \in Seq(S), NEW a \in 1 .. Len(s) + 1, NEW b \in 0 .. Len(s), a <= b + 1
  PROVE  /\ SubSeq(s, a, b) \in Seq(S)
         /\ Len(SubSeq(s, a, b)) = b - a + 1
         /\ \A i \in 1 .. b - a + 1 : SubSeq(s, a, b)[i] = s[i + a - 1]
OBVIOUS

LEMMA RestOf ==
  ASSUME NEW S, NEW s \in Seq(S), NEW k \in 0 .. Len(s)
  PROVE  /\ SubSeq(s, k + 1, Len(s)) \in Seq(S)
         /\ Len(SubSeq(s, k + 1, Len(s))) = Len(s) - k
         /\ \A i \in 1 .. Len(s) - k : SubSeq(s, k + 1, Len(s))[i] = s[i + k]
OBVIOUS

LEMMA Joined ==
  ASSUME NEW S, NEW s \in Seq(S), NEW t \in Seq(S)
  PROVE  /\ s \o t \in Seq(S)
         /\ Len(s \o t) = Len(s) + Len(t)
         /\ \A i \in 1 .. Len(s) + Len(t) :
              (s \o t)[i] = IF i <= Len(s) THEN s[i] ELSE t[i - Len(s)]
OBVIOUS

LEMMA Sizes ==
  /\ PacketSize \in Nat \ {0, 1} /\ Payload \in Nat \ {0} /\ PacketSize = Payload + 1
  /\ Places = 1 .. PacketSize
  /\ \A f \in Files : Size[f] \in Nat
  /\ NoFile \notin Files
BY TransferAssumption DEF Payload, Places

(* The lengths of the parts of the line.                                   *)
LEMMA PartsAre ==
  ASSUME FlowTypes
  PROVE  /\ Fill \in Nat /\ Len(pre) \in Nat /\ Len(stream) \in Nat /\ Len(out) \in Nat
         /\ Length \in Nat
<1>1. Len(pre) \in Nat /\ Len(stream) \in Nat /\ Len(out) \in Nat
  BY DEF FlowTypes, LineTypes, ChildTypes
<1>2. child.offset \in Nat
  BY Sizes DEF FlowTypes, ChildTypes
<1>3. Fill \in Nat
  BY <1>2, Sizes DEF Fill
<1> QED BY <1>1, <1>3 DEF Length

LEMMA PacketIs ==
  ASSUME NEW f \in Files, NEW at \in Nat, at <= Size[f]
  PROVE  /\ Packet(f, at) \in Seq(Units) /\ Len(Packet(f, at)) = PacketSize
         /\ Packet(f, at)[1] = <<f, 0>>
         /\ \A p \in Places : p > 1 /\ at + p - 1 <= Size[f] =>
              Packet(f, at)[p] = <<f, at + p - 1>>
<1>1. \A p \in Places : Packet(f, at)[p] \in Units
  <2> SUFFICES ASSUME NEW p \in Places PROVE Packet(f, at)[p] \in Units
    OBVIOUS
  <2>1. CASE p = 1
    BY <2>1, Sizes DEF Packet, Units
  <2>2. CASE p # 1 /\ at + p - 1 <= Size[f]
    <3>1. at + p - 1 \in Nat
      BY <2>2, Sizes
    <3>2. Packet(f, at)[p] = <<f, at + p - 1>>
      BY <2>2, <3>1 DEF Packet
    <3> QED BY <2>2, <3>1, <3>2 DEF Units
  <2>3. CASE p # 1 /\ ~(at + p - 1 <= Size[f])
    BY <2>3 DEF Packet, Units
  <2> QED BY <2>1, <2>2, <2>3
<1>2. Packet(f, at) = [p \in 1 .. PacketSize |-> Packet(f, at)[p]]
  BY Sizes DEF Packet
<1>3. Packet(f, at) \in Seq(Units) /\ Len(Packet(f, at)) = PacketSize
  <2>1. Packet(f, at) \in [1 .. PacketSize -> Units]
    BY <1>1, <1>2, Sizes
  <2> QED BY <2>1, Sizes
<1>4. Packet(f, at)[1] = <<f, 0>>
  BY Sizes DEF Packet
<1>5. \A p \in Places : p > 1 /\ at + p - 1 <= Size[f] => Packet(f, at)[p] = <<f, at + p - 1>>
  BY Sizes DEF Packet
<1> QED BY <1>3, <1>4, <1>5
-----------------------------------------------------------------------------
(* What keeps the progress.                                                *)

(* The line is the same, however it is cut.                                *)
SameLine == Length' = Length /\ \A i \in 1 .. Length : At(i)' = At(i)

(* The sender is where it was in its run, or was past the end.             *)
SameRun ==
  /\ sender.pc = "dead" => sender'.pc = "dead"
  /\ sender.pc \in {"read", "send"} =>
       /\ sender'.pc \in {"read", "send"}
       /\ sender'.file = sender.file /\ sender'.at = sender.at

LEMMA PlaceIs ==
  ASSUME NEW q \in Nat, NEW p \in Places
  PROVE  q * PacketSize + p \in Nat \ {0} /\ q * PacketSize \in Nat
<1>1. q * PacketSize \in Nat
  BY NextPacket, Sizes
<1>2. p \in Nat \ {0}
  BY Sizes
<1> QED BY <1>1, <1>2

LEMMA AlignedKept ==
  ASSUME FlowTypes, SameLine, first' = first, NEW j \in Nat, Aligned(j)
  PROVE  Aligned(j)'
<1> SUFFICES ASSUME NEW q \in Nat, NEW p \in Places, q * PacketSize + p <= Length',
                    (j + q) * Payload < Size[first]
             PROVE  At(q * PacketSize + p)' = Packet(first, (j + q) * Payload)[p]
  BY DEF Aligned, Packet
<1>0. q * PacketSize + p \in Nat \ {0} /\ Length \in Nat
  BY PlaceIs, PartsAre
<1>1. q * PacketSize + p \in 1 .. Length
  BY <1>0 DEF SameLine
<1>2. At(q * PacketSize + p)' = At(q * PacketSize + p)
  BY <1>1 DEF SameLine
<1>3. q * PacketSize + p <= Length
  BY DEF SameLine
<1>4. At(q * PacketSize + p) = Packet(first, (j + q) * Payload)[p]
  BY <1>3 DEF Aligned
<1> QED BY <1>2, <1>4

LEMMA ProgressKept ==
  ASSUME FlowTypes, Progress, SameLine, SameRun, first' = first, written' = written
  PROVE  Progress'
<1>1. CASE first = NoFile
  BY <1>1 DEF Progress, SameLine
<1>2. CASE first # NoFile
  <2>1. PICK j \in Nat : /\ Len(written) = j * Payload /\ j * Payload < Size[first]
                         /\ Aligned(j) /\ Ahead(j)
    BY <1>2 DEF Progress
  <2>2. Aligned(j)'
    BY <2>1, AlignedKept
  <2>3. Ahead(j)'
    BY <2>1 DEF Ahead, Sending, Past, SameLine, SameRun
  <2> QED BY <1>2, <2>1, <2>2, <2>3 DEF Progress
<1> QED BY <1>1, <1>2

(* The sender ends, with it what it had not handed over.                   *)
LEMMA ProgressKilled ==
  ASSUME FlowTypes, Progress, sender'.pc = "dead", out' = <<>>,
         UNCHANGED <<stream, child, packet, pre, written, first>>
  PROVE  Progress'
<1>1. /\ Fill' = Fill /\ pre' = pre /\ stream' = stream /\ packet' = packet
      /\ Len(out') = 0
  BY DEF Fill
<1>2. Length' = Fill + Len(pre) + Len(stream) /\ Length' <= Length /\ Length' \in Nat
  BY <1>1, PartsAre DEF Length
<1>3. CASE first = NoFile
  BY <1>2, <1>3, PartsAre DEF Progress
<1>4. CASE first # NoFile
  <2>1. PICK j \in Nat : /\ Len(written) = j * Payload /\ j * Payload < Size[first]
                         /\ Aligned(j)
    BY <1>4 DEF Progress
  <2>2. Aligned(j)'
    <3> SUFFICES ASSUME NEW q \in Nat, NEW p \in Places, q * PacketSize + p <= Length',
                        (j + q) * Payload < Size[first]
                 PROVE  At(q * PacketSize + p)' = Packet(first, (j + q) * Payload)[p]
      BY DEF Aligned, Packet
    <3> DEFINE i == q * PacketSize + p
    <3>1. i \in Nat /\ i <= Fill + Len(pre) + Len(stream)
      BY <1>2, PlaceIs
    <3>2. i <= Length
      BY <1>2, <3>1, PartsAre
    <3>3. At(i) = Packet(first, (j + q) * Payload)[p]
      BY <2>1, <3>2 DEF Aligned
    <3> HIDE DEF i
    <3>4. At(i)' = At(i)
      BY <1>1, <3>1, PartsAre DEF At
    <3> QED BY <3>3, <3>4 DEF i
  <2>3. Ahead(j)'
    BY DEF Ahead
  <2> QED BY <1>4, <2>1, <2>2, <2>3 DEF Progress
<1> QED BY <1>3, <1>4

(* A packet more on the line.                                              *)
LEMMA LineLonger ==
  ASSUME FlowTypes, out = <<>>, NEW f \in Files, NEW at \in Nat, at <= Size[f],
         out' = Packet(f, at), UNCHANGED <<stream, child, packet, pre>>
  PROVE  /\ Length' = Length + PacketSize
         /\ \A i \in 1 .. Length : At(i)' = At(i)
         /\ \A i \in Nat, p \in Places : i = Length + p => At(i)' = Packet(f, at)[p]
<1>1. Len(out) = 0 /\ Len(out') = PacketSize
  BY PacketIs
<1>2. Fill' = Fill /\ Fill \in Nat /\ Len(pre) \in Nat /\ Len(stream) \in Nat
  BY PartsAre DEF Fill
<1>3. Length = Fill + Len(pre) + Len(stream)
  BY <1>1, <1>2 DEF Length
<1>4. Length' = Length + PacketSize
  BY <1>1, <1>2, <1>3, Sizes DEF Length
<1>5. ASSUME NEW i \in 1 .. Length PROVE At(i)' = At(i)
  BY <1>2, <1>3 DEF At
<1>6. ASSUME NEW i \in Nat, NEW p \in Places, i = Length + p
      PROVE  At(i)' = Packet(f, at)[p]
  <2>1. p \in Nat \ {0}
    BY Sizes
  <2>2. ~(i <= Fill) /\ ~(i <= Fill + Len(pre)) /\ ~(i <= Fill + Len(pre) + Len(stream))
    BY <1>2, <1>3, <1>6, <2>1
  <2>3. i - Fill - Len(pre) - Len(stream) = p
    BY <1>2, <1>3, <1>6, <2>1
  <2>4. At(i)' = out'[i - Fill - Len(pre) - Len(stream)]
    BY <1>2, <2>2 DEF At
  <2> QED BY <2>3, <2>4
<1> QED BY <1>4, <1>5, <1>6

(* Beyond the first packet's length a place is one of the packet added.    *)
LEMMA AlignedLonger ==
  ASSUME FlowTypes, NEW j \in Nat, NEW n \in Nat, Aligned(j), first' = first,
         Length' = Length + PacketSize, \A i \in 1 .. Length : At(i)' = At(i),
         \/ /\ Length = n * PacketSize
            /\ \A i \in Nat, p \in Places : i = Length + p =>
                 At(i)' = Packet(first, (j + n) * Payload)[p]
         \/ Past(j, n), first \in Files
  PROVE  Aligned(j)'
<1> SUFFICES ASSUME NEW q \in Nat, NEW p \in Places, q * PacketSize + p <= Length',
                    (j + q) * Payload < Size[first]
             PROVE  At(q * PacketSize + p)' = Packet(first, (j + q) * Payload)[p]
  BY DEF Aligned, Packet
<1>0. q * PacketSize + p \in Nat \ {0} /\ Length \in Nat
  BY PlaceIs, PartsAre
<1>1. CASE q * PacketSize + p <= Length
  <2>1. At(q * PacketSize + p) = Packet(first, (j + q) * Payload)[p]
    BY <1>1 DEF Aligned
  <2>2. q * PacketSize + p \in 1 .. Length
    BY <1>0, <1>1
  <2> QED BY <2>1, <2>2
<1>2. CASE q * PacketSize + p > Length
  <2>1. CASE /\ Length = n * PacketSize
             /\ \A i \in Nat, m \in Places : i = Length + m =>
                  At(i)' = Packet(first, (j + n) * Payload)[m]
    <3>1. q >= n
      BY <1>2, <2>1, PacketAfter, Sizes
    <3>2. q <= n
      BY <2>1, PacketBefore, Sizes
    <3>3. q = n
      BY <3>1, <3>2
    <3>4. q * PacketSize + p = Length + p
      BY <2>1, <3>3
    <3> QED BY <1>0, <2>1, <3>3, <3>4
  <2>2. CASE Past(j, n)
    <3>1. n * PacketSize \in Nat /\ n * PacketSize <= Length
      BY <2>2, NextPacket, Sizes DEF Past
    <3>2. q * PacketSize + p > n * PacketSize
      BY <1>0, <1>2, <3>1
    <3>3. q >= n
      BY <3>2, PacketAfter, Sizes
    <3>4. (j + n) * Payload <= (j + q) * Payload
      BY <3>3, PacketsOrdered, Sizes
    <3>5. (j + n) * Payload \in Nat /\ (j + q) * Payload \in Nat /\ Size[first] \in Nat
      BY NextPacket, Sizes
    <3>6. Size[first] <= (j + n) * Payload
      BY <2>2 DEF Past
    <3> QED BY <3>4, <3>5, <3>6
  <2> QED BY <2>1, <2>2
<1> QED BY <1>0, <1>1, <1>2
-----------------------------------------------------------------------------
(* The sender's steps.                                                     *)

LEMMA LineStays ==
  ASSUME UNCHANGED <<child, packet, pre, stream, out>>
  PROVE  SameLine
BY DEF SameLine, Length, At, Fill

(* What the child has is the same.                                         *)
LEMMA ChildStays ==
  ASSUME FileInv, UNCHANGED childVars, first' = first
  PROVE  ChildTypes' /\ ChildShape' /\ Faithful' /\ written' = written /\ ended' = ended
<1>1. UNCHANGED <<child, packet, pre, written, ended, first>>
  BY DEF childVars
<1> QED BY <1>1 DEF FileInv, FlowTypes, ChildTypes, ChildShape, Faithful

LEMMA CommandFile ==
  ASSUME FileInv, NEW f \in Files, Command(f)
  PROVE  FileInv'
<1>1. /\ sender.pc = "command" /\ sender.typed < MaxSends
      /\ sender' = [pc |-> "read", file |-> f, at |-> 0, typed |-> sender.typed + 1]
      /\ UNCHANGED <<out, stream, first, childVars>>
  BY DEF Command, receiverVars
<1>2. SenderTypes /\ LineTypes /\ FlowTypes /\ SenderShape
  BY DEF FileInv, FlowTypes
<1>3. SenderTypes'
  <2>1. sender.typed + 1 \in 0 .. MaxSends
    BY <1>1, <1>2, TransferAssumption DEF SenderTypes
  <2> QED BY <1>1, <1>2, <2>1, Sizes DEF SenderTypes, SenderPcs
<1>4. LineTypes' /\ SenderShape'
  BY <1>1, <1>2 DEF LineTypes, SenderShape
<1>5. ChildTypes' /\ ChildShape' /\ Faithful' /\ written' = written /\ ended' = ended
  BY <1>1, ChildStays
<1>6. SameLine /\ SameRun /\ child' = child
  BY <1>1, LineStays DEF childVars, SameRun
<1>7. ~ended' /\ Going' => Progress'
  BY <1>1, <1>2, <1>5, <1>6, ProgressKept DEF FileInv, Going
<1> QED BY <1>3, <1>4, <1>5, <1>7 DEF FileInv, FlowTypes

LEMMA SendLine ==
  ASSUME FileInv, Send
  PROVE  LineTypes' /\ SameLine /\ (sender'.pc = "read" => out' = <<>>)
<1>1. PICK k \in 1 .. Len(out) :
        /\ Len(stream) + k <= Capacity
        /\ stream' = stream \o SubSeq(out, 1, k)
        /\ out' = SubSeq(out, k + 1, Len(out))
        /\ sender' = [sender EXCEPT !.pc = IF k = Len(out) THEN "read" ELSE "send"]
  BY DEF Send
<1>2. UNCHANGED <<child, packet, pre>>
  BY DEF Send, receiverVars, childVars
<1>3. /\ out \in Seq(Units) /\ Len(out) <= PacketSize /\ Len(out) \in Nat
      /\ stream \in Seq(Units) /\ Len(stream) \in Nat /\ Len(pre) \in Nat
      /\ Fill \in Nat /\ Fill' = Fill
      /\ sender \in [pc : SenderPcs, file : Files \cup {NoFile}, at : Nat, typed : 0 .. MaxSends]
  BY <1>2, PartsAre DEF FileInv, FlowTypes, LineTypes, SenderTypes, Fill
<1>4. /\ SubSeq(out, 1, k) \in Seq(Units) /\ Len(SubSeq(out, 1, k)) = k
      /\ \A i \in 1 .. k : SubSeq(out, 1, k)[i] = out[i]
  <2>1. 1 \in 1 .. Len(out) + 1 /\ k \in 0 .. Len(out) /\ 1 <= k + 1 /\ k - 1 + 1 = k
    BY <1>3
  <2>2. \A i \in 1 .. k : i + 1 - 1 = i
    OBVIOUS
  <2> QED BY <1>3, <2>1, <2>2, Cut
<1>5. /\ out' \in Seq(Units) /\ Len(out') = Len(out) - k
      /\ \A i \in 1 .. Len(out) - k : out'[i] = out[i + k]
  <2>1. k \in 0 .. Len(out)
    OBVIOUS
  <2> QED BY <1>1, <1>3, <2>1, RestOf
<1>6. /\ stream' \in Seq(Units) /\ Len(stream') = Len(stream) + k
      /\ \A i \in 1 .. Len(stream) : stream'[i] = stream[i]
      /\ \A i \in 1 .. k : stream'[Len(stream) + i] = out[i]
  <2> DEFINE s == SubSeq(out, 1, k)
  <2>1. /\ stream' \in Seq(Units) /\ Len(stream') = Len(stream) + Len(s)
        /\ \A i \in 1 .. Len(stream) + Len(s) :
             stream'[i] = IF i <= Len(stream) THEN stream[i] ELSE s[i - Len(stream)]
    BY <1>1, <1>3, <1>4, Joined
  <2>2. Len(s) = k /\ \A i \in 1 .. k : s[i] = out[i]
    BY <1>4
  <2> HIDE DEF s
  <2>3. ASSUME NEW i \in 1 .. k PROVE stream'[Len(stream) + i] = out[i]
    <3>1. /\ Len(stream) + i \in 1 .. Len(stream) + Len(s) /\ ~(Len(stream) + i <= Len(stream))
          /\ Len(stream) + i - Len(stream) = i
      BY <1>3, <2>2
    <3> QED BY <2>1, <2>2, <3>1
  <2>4. ASSUME NEW i \in 1 .. Len(stream) PROVE stream'[i] = stream[i]
    <3>1. i \in 1 .. Len(stream) + Len(s) /\ i <= Len(stream)
      BY <1>3, <2>2
    <3> QED BY <2>1, <3>1
  <2> QED BY <2>1, <2>2, <2>3, <2>4
<1>7. LineTypes'
  <2>1. Len(out') <= PacketSize
    BY <1>3, <1>5, Sizes
  <2>2. Len(stream') <= Capacity
    BY <1>1, <1>6
  <2> QED BY <1>5, <1>6, <2>1, <2>2 DEF LineTypes
<1>8. Length' = Length
  BY <1>2, <1>3, <1>5, <1>6 DEF Length
<1>9. ASSUME NEW i \in 1 .. Length PROVE At(i)' = At(i)
  <2> DEFINE m == i - Fill - Len(pre)
  <2>1. CASE i <= Fill + Len(pre) + Len(stream)
    <3>1. CASE i <= Fill + Len(pre)
      BY <1>2, <1>3, <3>1 DEF At
    <3>2. CASE ~(i <= Fill + Len(pre))
      <4>1. m \in 1 .. Len(stream) /\ ~(i <= Fill)
        BY <1>3, <2>1, <3>2
      <4>2. At(i) = stream[m]
        BY <2>1, <3>2, <4>1 DEF At
      <4>3. i <= Fill + Len(pre) + Len(stream')
        BY <1>3, <1>6, <2>1
      <4>4. At(i)' = stream'[m]
        BY <1>2, <1>3, <3>2, <4>1, <4>3 DEF At
      <4> HIDE DEF m
      <4> QED BY <1>6, <4>1, <4>2, <4>4
    <3> QED BY <3>1, <3>2
  <2>2. CASE ~(i <= Fill + Len(pre) + Len(stream))
    <3> DEFINE o == m - Len(stream)
    <3>0. ~(i <= Fill) /\ ~(i <= Fill + Len(pre))
      BY <1>3, <2>2
    <3>1. o \in 1 .. Len(out)
      BY <1>3, <2>2 DEF Length
    <3>2. At(i) = out[o]
      BY <2>2, <3>0 DEF At
    <3>3. CASE o <= k
      <4>1. i <= Fill + Len(pre) + Len(stream') /\ m = Len(stream) + o
        BY <1>3, <1>6, <3>3
      <4>2. At(i)' = stream'[m]
        BY <1>2, <1>3, <3>0, <4>1 DEF At
      <4> HIDE DEF m, o
      <4>3. o \in 1 .. k
        BY <3>1, <3>3
      <4> QED BY <1>6, <3>2, <4>1, <4>2, <4>3
    <3>4. CASE o > k
      <4>1. /\ ~(i <= Fill + Len(pre) + Len(stream')) /\ o - k \in 1 .. Len(out) - k
            /\ m - Len(stream') = o - k /\ o - k + k = o
        BY <1>3, <1>6, <3>1, <3>4
      <4>2. At(i)' = out'[m - Len(stream')]
        BY <1>2, <1>3, <3>0, <4>1 DEF At
      <4> HIDE DEF m, o
      <4> QED BY <1>5, <3>2, <4>1, <4>2
    <3> QED BY <3>1, <3>3, <3>4
  <2> QED BY <2>1, <2>2
<1>10. sender'.pc = "read" => out' = <<>>
  <2>1. ASSUME sender'.pc = "read" PROVE out' = <<>>
    <3>1. k = Len(out)
      BY <1>1, <1>3, <2>1
    <3>2. Len(out') = 0
      BY <1>3, <1>5, <3>1
    <3> QED BY <1>5, <3>2
  <2> QED BY <2>1
<1> QED BY <1>7, <1>8, <1>9, <1>10 DEF SameLine

LEMMA SendFile ==
  ASSUME FileInv, Send
  PROVE  FileInv'
<1>1. /\ sender.pc = "send" /\ UNCHANGED <<first, childVars>>
      /\ \E pc \in {"read", "send"} : sender' = [sender EXCEPT !.pc = pc]
  BY DEF Send, receiverVars
<1>2. LineTypes' /\ SameLine /\ (sender'.pc = "read" => out' = <<>>)
  BY SendLine
<1>3. SenderTypes /\ SenderShape /\ FlowTypes
  BY DEF FileInv, FlowTypes
<1>4. /\ sender'.pc \in {"read", "send"} /\ sender'.file = sender.file /\ sender'.at = sender.at
      /\ sender' \in [pc : SenderPcs, file : Files \cup {NoFile}, at : Nat, typed : 0 .. MaxSends]
  BY <1>1, <1>3 DEF SenderTypes, SenderPcs
<1>5. SenderTypes'
  BY <1>1, <1>3, <1>4 DEF SenderTypes
<1>6. SenderShape'
  BY <1>1, <1>2, <1>3, <1>4 DEF SenderShape
<1>7. ChildTypes' /\ ChildShape' /\ Faithful' /\ written' = written /\ ended' = ended
  BY <1>1, ChildStays
<1>8. SameRun
  BY <1>1, <1>4 DEF SameRun
<1>9. ~ended' /\ Going' => Progress'
  <2>1. child' = child
    BY <1>1 DEF childVars
  <2> QED BY <1>1, <1>2, <1>3, <1>7, <1>8, <2>1, ProgressKept DEF FileInv, Going
<1> QED BY <1>2, <1>5, <1>6, <1>7, <1>9 DEF FileInv, FlowTypes

LEMMA EmptyOut == <<>> \in Seq(Units) /\ Len(<<>>) = 0
OBVIOUS

(* The receiver is gone, or the sender is.                                 *)
LEMMA StopFile ==
  ASSUME FileInv, SendClosed \/ Kill
  PROVE  FileInv'
<1>1. /\ out' = <<>> /\ UNCHANGED <<stream, first, childVars>>
      /\ \E pc \in {"read", "dead"} : sender' = [sender EXCEPT !.pc = pc]
      /\ SendClosed => sender.pc = "send" /\ ~Going
      /\ Kill => sender' = [sender EXCEPT !.pc = "dead"]
  BY DEF SendClosed, Kill, receiverVars, Closed, ChildEnded, Going
<1>2. SenderTypes /\ SenderShape /\ FlowTypes /\ LineTypes
  BY DEF FileInv, FlowTypes
<1>3. SenderTypes'
  <2>1. sender' \in [pc : SenderPcs, file : Files \cup {NoFile}, at : Nat, typed : 0 .. MaxSends]
    BY <1>1, <1>2 DEF SenderTypes, SenderPcs
  <2>2. sender'.pc = "read" => sender.pc = "send"
    BY <1>1, <1>2 DEF SenderTypes
  <2>3. sender'.file = sender.file /\ sender'.at = sender.at
    BY <1>1, <1>2 DEF SenderTypes
  <2>4. sender'.pc # "send"
    BY <1>1, <1>2 DEF SenderTypes
  <2> QED BY <1>1, <1>2, <2>1, <2>2, <2>3, <2>4 DEF SenderTypes
<1>4. LineTypes'
  BY <1>1, <1>2, EmptyOut, Sizes DEF LineTypes
<1>5. SenderShape'
  <2>1. sender'.pc # "send" /\ (sender'.pc = "read" => sender.pc = "send")
    BY <1>1, <1>2 DEF SenderTypes
  <2> QED BY <1>1, <1>2, <2>1 DEF SenderShape
<1>6. ChildTypes' /\ ChildShape' /\ Faithful' /\ written' = written /\ ended' = ended
  BY <1>1, ChildStays
<1>7. ~ended' /\ Going' => Progress'
  <2>1. child' = child /\ packet' = packet /\ pre' = pre /\ stream' = stream /\ first' = first
    BY <1>1 DEF childVars
  <2>2. Going' <=> Going
    BY <2>1 DEF Going
  <2>3. CASE SendClosed
    BY <1>1, <2>2, <2>3
  <2>4. CASE Kill
    <3>1. sender'.pc = "dead"
      BY <1>1, <1>2, <2>4 DEF SenderTypes
    <3>2. Progress => Progress'
      BY <1>1, <1>2, <1>6, <2>1, <3>1, ProgressKilled
    <3> QED BY <1>6, <2>2, <3>2 DEF FileInv
  <2> QED BY <2>3, <2>4
<1> QED BY <1>3, <1>4, <1>5, <1>6, <1>7 DEF FileInv, FlowTypes

(* The first packet of the first file.                                     *)
LEMMA ProgressFirst ==
  ASSUME FlowTypes, Progress, first = NoFile, first' \in Files, written' = written,
         Length' = Length + PacketSize,
         \A i \in Nat, p \in Places : i = Length + p => At(i)' = Packet(first', 0)[p],
         sender'.pc = "send", sender'.file = first', sender'.at = Least(Payload, Size[first']),
         0 < Size[first']
  PROVE  Progress'
<1>1. Length = 0 /\ written = <<>> /\ Length' = PacketSize
  BY Sizes DEF Progress
<1>2. \A q \in Nat : 0 + q = q
  OBVIOUS
<1>3. 0 * Payload = 0 /\ 0 * PacketSize = 0 /\ 1 * PacketSize = PacketSize
      /\ (0 + 1) * Payload = Payload /\ (0 + 0) * Payload = 0
  BY Sizes
<1>4. Aligned(0)'
  <2> SUFFICES ASSUME NEW q \in Nat, NEW p \in Places, q * PacketSize + p <= Length'
               PROVE  At(q * PacketSize + p)' = Packet(first', (0 + q) * Payload)[p]
    BY DEF Aligned, Packet
  <2>1. q * PacketSize + p <= 0 * PacketSize + PacketSize
    BY <1>1, <1>3, Sizes
  <2>2. q = 0
    <3>1. q <= 0
      BY <2>1, PacketBefore, Sizes
    <3> QED BY <3>1
  <2>3. q * PacketSize + p = Length + p /\ q * PacketSize + p \in Nat
    BY <1>1, <1>3, <2>2, Sizes
  <2>4. (0 + q) * Payload = 0
    BY <1>3, <2>2
  <2> QED BY <2>3, <2>4
<1>5. Sending(0, 1)'
  <2>1. Length' = 1 * PacketSize
    BY <1>1, <1>3
  <2>2. sender'.at = Least((0 + 1) * Payload, Size[first'])
    BY <1>3
  <2> QED BY <2>1, <2>2 DEF Sending, Least
<1>6. Ahead(0)'
  BY <1>5 DEF Ahead
<1>7. Len(written') = 0 * Payload /\ 0 * Payload < Size[first']
  BY <1>1, <1>3
<1>8. first' # NoFile
  BY Sizes
<1> QED BY <1>4, <1>6, <1>7, <1>8 DEF Progress

(* A further packet, of this file or another one.                          *)
LEMMA ProgressRead ==
  ASSUME FlowTypes, Progress, first \in Files, first' = first, written' = written,
         Length' = Length + PacketSize, \A i \in 1 .. Length : At(i)' = At(i),
         NEW f \in Files, NEW at \in Nat,
         sender.pc = "read", sender.file = f, sender.at = at, at < Size[f],
         \A i \in Nat, p \in Places : i = Length + p => At(i)' = Packet(f, at)[p],
         sender'.pc = "send", sender'.file = f, sender'.at = Least(at + Payload, Size[f])
  PROVE  Progress'
<1>1. PICK j \in Nat : /\ Len(written) = j * Payload /\ j * Payload < Size[first]
                       /\ Aligned(j) /\ Ahead(j)
  BY Sizes DEF Progress
<1>2. PICK n \in Nat : Sending(j, n) \/ Past(j, n)
  BY <1>1 DEF Ahead
<1>3. /\ n * PacketSize \in Nat /\ (n + 1) * PacketSize = n * PacketSize + PacketSize
      /\ (j + n) * Payload \in Nat /\ (j + (n + 1)) * Payload = (j + n) * Payload + Payload
      /\ Size[first] \in Nat /\ Length \in Nat
  <2>1. j + (n + 1) = (j + n) + 1 /\ j + n \in Nat
    OBVIOUS
  <2>2. n * PacketSize \in Nat /\ (n + 1) * PacketSize = n * PacketSize + PacketSize
    BY NextPacket, Sizes
  <2>3. (j + n) * Payload \in Nat /\ ((j + n) + 1) * Payload = (j + n) * Payload + Payload
    BY <2>1, NextPacket, Sizes
  <2> QED BY <2>1, <2>2, <2>3, Sizes, PartsAre
<1>4. CASE Sending(j, n)
  <2>1. f = first /\ Length = n * PacketSize /\ at = Least((j + n) * Payload, Size[first])
    BY <1>4 DEF Sending, Least
  <2>2. at = (j + n) * Payload
    BY <1>3, <2>1 DEF Least
  <2>3. Aligned(j)'
    BY <1>1, <2>1, <2>2, AlignedLonger
  <2>4. Sending(j, n + 1)'
    <3>1. Length' = (n + 1) * PacketSize
      BY <1>3, <2>1
    <3>2. sender'.at = Least((j + (n + 1)) * Payload, Size[first'])
      BY <1>3, <2>1, <2>2
    <3> QED BY <2>1, <3>1, <3>2 DEF Sending, Least
  <2>5. Ahead(j)'
    BY <2>4 DEF Ahead
  <2> QED BY <1>1, <2>3, <2>5, Sizes DEF Progress
<1>5. CASE Past(j, n)
  <2>1. Aligned(j)'
    BY <1>1, <1>5, AlignedLonger
  <2>2. Past(j, n)'
    BY <1>3, <1>5, Sizes DEF Past
  <2>3. Ahead(j)'
    BY <2>2 DEF Ahead
  <2> QED BY <1>1, <2>1, <2>3, Sizes DEF Progress
<1> QED BY <1>2, <1>4, <1>5
LEMMA ReadFile ==
  ASSUME FileInv, Read
  PROVE  FileInv'
<1>1. SenderTypes /\ SenderShape /\ FlowTypes /\ LineTypes
  BY DEF FileInv, FlowTypes
<1>2. sender.pc = "read" /\ out = <<>> /\ UNCHANGED <<stream, childVars>>
  BY <1>1 DEF Read, receiverVars, SenderShape
<1>3. PICK f \in Files : f = sender.file
  BY <1>1, <1>2 DEF SenderTypes
<1>4. PICK at \in Nat : at = sender.at /\ at <= Size[f]
  BY <1>1, <1>2, <1>3 DEF SenderTypes
<1>5. CASE at < Size[f]
  <2>1. /\ out' = Packet(f, at)
        /\ sender' = [sender EXCEPT !.pc = "send", !.at = Least(at + Payload, Size[f])]
        /\ first' = IF first = NoFile THEN f ELSE first
    BY <1>3, <1>4, <1>5 DEF Read
  <2>2. UNCHANGED <<stream, child, packet, pre, written, ended>>
    BY <1>2 DEF childVars
  <2>3. Least(at + Payload, Size[f]) \in Nat /\ Least(at + Payload, Size[f]) <= Size[f]
    BY Sizes DEF Least
  <2>4. /\ sender'.pc = "send" /\ sender'.file = f /\ sender'.at = Least(at + Payload, Size[f])
        /\ sender' \in [pc : SenderPcs, file : Files \cup {NoFile}, at : Nat, typed : 0 .. MaxSends]
    BY <1>1, <1>3, <2>1, <2>3 DEF SenderTypes, SenderPcs
  <2>5. first' \in Files /\ first' # NoFile
    BY <1>1, <2>1, Sizes DEF SenderTypes
  <2>6. SenderTypes'
    BY <2>3, <2>4, <2>5 DEF SenderTypes
  <2>7. LineTypes' /\ SenderShape'
    <3>1. out' \in Seq(Units) /\ Len(out') = PacketSize
      BY <2>1, <1>4, PacketIs
    <3> QED BY <1>1, <2>2, <2>4, <2>5, <3>1, Sizes DEF LineTypes, SenderShape
  <2>8. ChildTypes' /\ ChildShape'
    BY <2>2, <2>5 DEF FileInv, FlowTypes, ChildTypes, ChildShape
  <2>9. Faithful'
    <3>1. CASE first # NoFile
      <4>1. first' = first
        BY <2>1, <3>1
      <4> QED BY <2>2, <4>1 DEF FileInv, Faithful
    <3>2. CASE first = NoFile /\ ~ended
      <4>1. Len(written) <= 0 /\ child.pc # "spoiled" /\ child.pc # "done" /\ written \in Seq(Units)
        BY <3>2 DEF FileInv, Faithful, ChildShape, FlowTypes, ChildTypes
      <4>2. written = <<>>
        BY <4>1
      <4>3. Len(written') = 0 /\ Len(written') <= Size[first'] /\ DOMAIN written' = {}
        BY <2>2, <2>5, <4>2, Sizes
      <4>4. child'.pc # "spoiled" /\ child'.pc # "done"
        BY <2>2, <4>1
      <4> QED BY <2>5, <4>3, <4>4 DEF Faithful
    <3>3. CASE ended
      BY <2>2, <3>3 DEF Faithful
    <3> QED BY <3>1, <3>2, <3>3
  <2>10. ~ended' /\ Going' => Progress'
    <3> SUFFICES ASSUME ~ended, Going PROVE Progress'
      BY <2>2 DEF Going
    <3>1. Progress
      BY DEF FileInv
    <3>2. /\ Length' = Length + PacketSize
          /\ \A i \in 1 .. Length : At(i)' = At(i)
          /\ \A i \in Nat, p \in Places : i = Length + p => At(i)' = Packet(f, at)[p]
      BY <1>1, <1>2, <1>4, <2>1, <2>2, LineLonger
    <3>3. CASE first = NoFile
      <4>1. at = 0 /\ first' = f
        BY <1>1, <1>2, <1>4, <2>1, <3>3 DEF SenderShape
      <4>2. 0 + Payload = Payload
        BY Sizes
      <4>3. \A i \in Nat, p \in Places : i = Length + p => At(i)' = Packet(first', 0)[p]
        BY <3>2, <4>1
      <4> QED BY <1>1, <1>5, <2>2, <2>4, <3>1, <3>2, <3>3, <4>1, <4>2, <4>3, ProgressFirst
    <3>4. CASE first # NoFile
      <4>1. first \in Files /\ first' = first
        BY <1>1, <2>1, <3>4 DEF SenderTypes
      <4> QED BY <1>1, <1>2, <1>3, <1>4, <1>5, <2>2, <2>4, <3>1, <3>2, <4>1, ProgressRead
    <3> QED BY <3>3, <3>4
  <2> QED BY <2>6, <2>7, <2>8, <2>9, <2>10 DEF FileInv, FlowTypes
<1>6. CASE ~(at < Size[f])
  <2>1. sender' = [sender EXCEPT !.pc = "command"] /\ UNCHANGED <<out, first>>
    BY <1>3, <1>4, <1>6 DEF Read
  <2>2. /\ sender'.pc = "command"
        /\ sender' \in [pc : SenderPcs, file : Files \cup {NoFile}, at : Nat, typed : 0 .. MaxSends]
    BY <1>1, <2>1 DEF SenderTypes, SenderPcs
  <2>3. SenderTypes' /\ LineTypes' /\ SenderShape'
    BY <1>1, <1>2, <2>1, <2>2 DEF SenderTypes, LineTypes, SenderShape
  <2>4. ChildTypes' /\ ChildShape' /\ Faithful' /\ written' = written /\ ended' = ended
    BY <1>2, <2>1, ChildStays
  <2>5. child' = child /\ SameLine
    BY <1>2, <2>1, LineStays DEF childVars
  <2>6. ~ended' /\ Going' => Progress'
    <3> SUFFICES ASSUME ~ended, Going PROVE Progress'
      BY <2>4, <2>5 DEF Going
    <3>1. Progress
      BY DEF FileInv
    <3>2. CASE first = NoFile
      BY <2>1, <2>4, <2>5, <3>1, <3>2 DEF Progress, SameLine
    <3>3. CASE first # NoFile
      <4>1. PICK j \in Nat : /\ Len(written) = j * Payload /\ j * Payload < Size[first]
                             /\ Aligned(j) /\ Ahead(j)
        BY <3>1, <3>3 DEF Progress
      <4>2. Aligned(j)'
        BY <1>1, <2>1, <2>5, <4>1, AlignedKept
      <4>3. PICK n \in Nat : Sending(j, n) \/ Past(j, n)
        BY <1>2, <4>1 DEF Ahead
      <4>4. Past(j, n)
        <5>1. CASE Sending(j, n)
          <6>1. f = first /\ Length = n * PacketSize /\ at = Least((j + n) * Payload, Size[first])
            BY <1>3, <1>4, <5>1 DEF Sending
          <6>2. (j + n) * Payload \in Nat /\ Size[f] \in Nat /\ n * PacketSize \in Nat
            BY NextPacket, Sizes
          <6>3. Size[first] <= (j + n) * Payload /\ n * PacketSize <= Length
            BY <1>6, <6>1, <6>2 DEF Least
          <6> QED BY <6>3 DEF Past
        <5> QED BY <4>3, <5>1
      <4>5. Past(j, n)'
        BY <2>1, <2>5, <4>4 DEF Past, SameLine
      <4> QED BY <2>1, <2>4, <3>3, <4>1, <4>2, <4>5 DEF Progress, Ahead
    <3> QED BY <3>2, <3>3
  <2> QED BY <2>3, <2>4, <2>6 DEF FileInv, FlowTypes
<1> QED BY <1>5, <1>6

-----------------------------------------------------------------------------
(* The child's steps.                                                      *)

(* What the sender has is the same.                                        *)
LEMMA SenderStays ==
  ASSUME FileInv, UNCHANGED <<sender, out, first>>
  PROVE  SenderTypes' /\ SenderShape' /\ SameRun
BY DEF FileInv, FlowTypes, SenderTypes, SenderShape, SameRun

LEMMA JoinFile ==
  ASSUME FileInv, Join
  PROVE  FileInv'
<1>1. /\ child.pc = "join" /\ UNCHANGED <<sender, out, stream, written, first, ended>>
      /\ packet' = [p \in Places |-> IF p <= Len(pre) THEN pre[p] ELSE packet[p]]
      /\ child' = [child EXCEPT !.pc = "recv", !.offset = IF pre # <<>> THEN Len(pre) ELSE @]
      /\ pre' = <<>>
  BY DEF Join
<1>2. FlowTypes /\ LineTypes /\ ChildTypes /\ pre \in Seq(Units) /\ Len(pre) \in 0 .. Payload
  BY DEF FileInv, FlowTypes, ChildTypes
<1>3. SenderTypes' /\ SenderShape' /\ SameRun
  BY <1>1, SenderStays
<1>4. LineTypes'
  BY <1>1, <1>2 DEF LineTypes
<1>5. child' \in [pc : ChildPcs, offset : 0 .. Payload, opened : BOOLEAN] /\ child'.pc = "recv"
      /\ (~ended => child'.offset = Len(pre))
  <2>1. child \in [pc : ChildPcs, offset : 0 .. Payload, opened : BOOLEAN]
    BY <1>2 DEF ChildTypes
  <2>2. ~ended => child.offset = 0
    BY <1>1 DEF FileInv, ChildShape
  <2>3. pre = <<>> => Len(pre) = 0
    BY <1>2
  <2> QED BY <1>1, <1>2, <2>1, <2>2, <2>3 DEF ChildPcs
<1>6. packet' \in [Places -> Units]
  <2>1. \A p \in Places : p <= Len(pre) => p \in 1 .. Len(pre)
    BY <1>2, Sizes
  <2>2. \A p \in 1 .. Len(pre) : pre[p] \in Units
    BY <1>2
  <2> QED BY <1>1, <1>2, <2>1, <2>2 DEF ChildTypes
<1>7. ChildTypes'
  BY <1>1, <1>2, <1>5, <1>6, EmptyOut, Sizes DEF ChildTypes
<1>8. ChildShape' /\ Faithful'
  <2>1. ChildShape'
    BY <1>1, <1>5 DEF ChildShape
  <2>2. Faithful'
    BY <1>1, <1>5 DEF FileInv, Faithful
  <2> QED BY <2>1, <2>2
<1>9. ~ended' /\ Going' => Progress'
  <2> SUFFICES ASSUME ~ended PROVE Progress'
    BY <1>1
  <2>1. Progress
    BY <1>1 DEF FileInv, Going
  <2>2. Fill = 0 /\ Fill' = Len(pre) /\ Len(pre') = 0 /\ stream' = stream /\ out' = out
    BY <1>1, <1>5 DEF Fill
  <2>3. Length' = Length
    BY <1>2, <2>2, PartsAre DEF Length
  <2>4. ASSUME NEW i \in 1 .. Length PROVE At(i)' = At(i)
    <3>1. CASE i <= Len(pre)
      <4>1. i \in Places
        BY <1>2, <3>1, Sizes
      <4>2. packet'[i] = pre[i]
        BY <1>1, <3>1, <4>1
      <4>3. ~(i <= Fill) /\ i <= Fill + Len(pre) /\ i - Fill = i
        BY <1>2, <2>2, <3>1
      <4>4. At(i) = pre[i]
        BY <4>3 DEF At
      <4>5. At(i)' = packet'[i]
        BY <2>2, <3>1 DEF At
      <4> QED BY <4>2, <4>4, <4>5
    <3>2. CASE ~(i <= Len(pre))
      <4>1. /\ ~(i <= Fill) /\ ~(i <= Fill + Len(pre)) /\ ~(i <= Fill') /\ ~(i <= Fill' + Len(pre'))
            /\ i - Fill - Len(pre) = i - Len(pre) /\ i - Fill' - Len(pre') = i - Len(pre)
            /\ Fill + Len(pre) + Len(stream) = Len(pre) + Len(stream)
            /\ Fill' + Len(pre') + Len(stream) = Len(pre) + Len(stream)
        BY <1>2, <2>2, <3>2, PartsAre
      <4>2. At(i) = IF i <= Len(pre) + Len(stream) THEN stream[i - Len(pre)]
                    ELSE out[i - Len(pre) - Len(stream)]
        BY <4>1 DEF At
      <4>3. At(i)' = IF i <= Len(pre) + Len(stream) THEN stream[i - Len(pre)]
                     ELSE out[i - Len(pre) - Len(stream)]
        BY <2>2, <4>1 DEF At
      <4> QED BY <4>2, <4>3
    <3> QED BY <3>1, <3>2
  <2>5. SameLine
    BY <2>3, <2>4 DEF SameLine
  <2> QED BY <1>1, <1>2, <1>3, <2>1, <2>5, ProgressKept
<1> QED BY <1>3, <1>4, <1>7, <1>8, <1>9 DEF FileInv, FlowTypes
LEMMA FilledIs ==
  ASSUME ChildTypes, stream \in Seq(Units), NEW n \in 0 .. Len(stream)
  PROVE  /\ Filled(stream, n) \in [Places -> Units]
         /\ \A p \in Places : Filled(stream, n)[p] =
              IF p > child.offset /\ p <= child.offset + n
                THEN stream[p - child.offset] ELSE packet[p]
<1>1. child.offset \in Nat /\ packet \in [Places -> Units]
  BY Sizes DEF ChildTypes
<1>2. ASSUME NEW p \in Places, p > child.offset, p <= child.offset + n
      PROVE  stream[p - child.offset] \in Units
  <2>1. p - child.offset \in 1 .. Len(stream)
    BY <1>1, <1>2, Sizes
  <2> QED BY <2>1
<1> QED BY <1>1, <1>2 DEF Filled

(* recv(): a part of the packet, all that lacks, or more than that.        *)
LEMMA RecvFile ==
  ASSUME FileInv, ChildRecv
  PROVE  FileInv'
<1>0. PICK k \in 1 .. Least(PacketSize, Len(stream)) :
        LET rest == PacketSize - child.offset
        IN  /\ stream' = SubSeq(stream, k + 1, Len(stream))
            /\ packet' = Filled(stream, Least(k, rest))
            /\ pre' = IF k > rest THEN Sticky(k) ELSE pre
            /\ child' = IF k < rest
                          THEN [child EXCEPT !.offset = @ + k]
                          ELSE [child EXCEPT !.offset = 0, !.pc = "write"]
  BY DEF ChildRecv
<1> DEFINE rest == PacketSize - child.offset
<1>1. /\ child.pc = "recv" /\ UNCHANGED <<sender, out, written, first, ended>>
      /\ pre = <<>> /\ Len(pre) = 0
  BY DEF ChildRecv, FileInv, ChildShape
<1>2. FlowTypes /\ LineTypes /\ ChildTypes /\ stream \in Seq(Units) /\ Len(stream) \in Nat
  BY DEF FileInv, FlowTypes, LineTypes
<1>3. /\ child \in [pc : ChildPcs, offset : 0 .. Payload, opened : BOOLEAN]
      /\ child.offset \in 0 .. Payload /\ rest \in 1 .. PacketSize
      /\ PacketSize = child.offset + rest
  BY <1>2, Sizes DEF ChildTypes
<1>4. k \in 1 .. PacketSize /\ k \in 1 .. Len(stream)
  BY <1>2, Sizes DEF Least
<1>5. /\ stream' \in Seq(Units) /\ Len(stream') = Len(stream) - k
      /\ \A i \in 1 .. Len(stream) - k : stream'[i] = stream[i + k]
  <2>1. k \in 0 .. Len(stream)
    BY <1>4
  <2> QED BY <1>0, <1>2, <2>1, RestOf
<1>6. SenderTypes' /\ SenderShape' /\ SameRun
  BY <1>1, SenderStays
<1>7. LineTypes'
  <2>1. Len(stream') <= Capacity
    BY <1>2, <1>4, <1>5, TransferAssumption DEF LineTypes
  <2> QED BY <1>1, <1>2, <1>5, <2>1 DEF LineTypes
<1>8. Fill = child.offset
  BY <1>1 DEF Fill
<1>11. /\ child.offset \in Nat /\ rest \in Nat \ {0} /\ PacketSize = child.offset + rest
       /\ PacketSize \in Nat
  BY <1>3, Sizes
<1>12. /\ Len(stream) \in Nat /\ k \in Nat \ {0} /\ k <= Len(stream) /\ k <= PacketSize
       /\ Len(stream') = Len(stream) - k /\ Len(pre) = 0 /\ Fill = child.offset
  BY <1>1, <1>2, <1>4, <1>5, <1>8
<1>9. CASE k < rest
  <2>1. /\ packet' = Filled(stream, k) /\ pre' = <<>> /\ Len(pre') = 0
        /\ child' = [child EXCEPT !.offset = @ + k]
    BY <1>0, <1>1, <1>3, <1>9 DEF Least
  <2>2. child.offset + k \in 0 .. Payload
    BY <1>3, <1>4, <1>9, Sizes
  <2>3. /\ child' \in [pc : ChildPcs, offset : 0 .. Payload, opened : BOOLEAN]
        /\ child'.pc = "recv" /\ child'.offset = child.offset + k
    BY <1>1, <1>3, <2>1, <2>2
  <2>4. /\ packet' \in [Places -> Units]
        /\ \A p \in Places : packet'[p] =
             IF p > child.offset /\ p <= child.offset + k
               THEN stream[p - child.offset] ELSE packet[p]
    <3>1. k \in 0 .. Len(stream)
      BY <1>4
    <3> QED BY <1>2, <2>1, <3>1, FilledIs
  <2>5. ChildTypes'
    BY <1>1, <1>2, <2>1, <2>3, <2>4, EmptyOut, Sizes DEF ChildTypes
  <2>6. ChildShape' /\ Faithful'
    BY <1>1, <2>1, <2>3 DEF ChildShape, FileInv, Faithful
  <2>7. SameLine
    <3>1. Fill' = child.offset + k
      BY <2>3 DEF Fill
    <3>2. Length' = Length
      <4>1. Len(out) \in Nat /\ out' = out
        BY <1>1, <1>2, PartsAre
      <4> QED BY <1>1, <1>2, <1>3, <1>4, <1>5, <1>8, <2>1, <3>1, <4>1 DEF Length
    <3>3. ASSUME NEW i \in 1 .. Length PROVE At(i)' = At(i)
      <4>0. i \in Nat \ {0}
        BY <1>2, PartsAre
      <4>1. CASE i <= child.offset
        <5>1. At(i) = packet[i]
          BY <1>8, <4>1 DEF At
        <5>2. i <= Fill' /\ i \in Places
          BY <1>3, <1>4, <3>1, <4>0, <4>1, Sizes
        <5>3. At(i)' = packet'[i]
          BY <5>2 DEF At
        <5>4. ~(i > child.offset)
          BY <1>3, <4>0, <4>1
        <5> QED BY <2>4, <5>1, <5>2, <5>3, <5>4
      <4>2. CASE ~(i <= child.offset) /\ i <= child.offset + k
        <5>0. i \in Places
          <6>1. i <= PacketSize
            BY <1>9, <1>11, <1>12, <4>0, <4>2
          <6> QED BY <4>0, <6>1, Sizes
        <5>1. /\ ~(i <= Fill) /\ ~(i <= Fill + Len(pre)) /\ i <= Fill + Len(pre) + Len(stream)
              /\ i - Fill - Len(pre) = i - child.offset /\ i > child.offset
          BY <1>11, <1>12, <4>0, <4>2
        <5>2. At(i) = stream[i - child.offset]
          BY <5>1 DEF At
        <5>3. At(i)' = packet'[i]
          BY <3>1, <4>2 DEF At
        <5> QED BY <2>4, <4>2, <5>0, <5>1, <5>2, <5>3
      <4>3. CASE ~(i <= child.offset) /\ ~(i <= child.offset + k)
        <5>1. /\ ~(i <= Fill) /\ ~(i <= Fill + Len(pre))
              /\ i - Fill - Len(pre) = i - child.offset
              /\ Fill + Len(pre) + Len(stream) = child.offset + Len(stream)
          BY <1>11, <1>12, <4>0, <4>3
        <5>2. /\ ~(i <= Fill') /\ ~(i <= Fill' + Len(pre'))
              /\ i - Fill' - Len(pre') = i - child.offset - k
              /\ Fill' + Len(pre') + Len(stream') = child.offset + Len(stream)
              /\ i - Fill' - Len(pre') - Len(stream') = i - child.offset - Len(stream)
          <6>1. Fill' + Len(pre') = child.offset + k
            BY <1>11, <1>12, <2>1, <3>1
          <6>2. ~(i <= Fill') /\ ~(i <= Fill' + Len(pre'))
            BY <2>1, <3>1, <4>3, <6>1
          <6>3. i - Fill' - Len(pre') = i - child.offset - k
            BY <1>11, <1>12, <2>1, <3>1, <4>0
          <6>4. Fill' + Len(pre') + Len(stream') = child.offset + Len(stream)
            BY <1>11, <1>12, <6>1
          <6>5. i - Fill' - Len(pre') - Len(stream') = i - child.offset - Len(stream)
            BY <1>11, <1>12, <4>0, <6>3
          <6> QED BY <6>2, <6>3, <6>4, <6>5
        <5>3. At(i) = IF i <= child.offset + Len(stream) THEN stream[i - child.offset]
                      ELSE out[i - child.offset - Len(stream)]
          BY <5>1 DEF At
        <5>4. At(i)' = IF i <= child.offset + Len(stream) THEN stream'[i - child.offset - k]
                       ELSE out[i - child.offset - Len(stream)]
          BY <1>1, <5>2 DEF At
        <5>5. CASE i <= child.offset + Len(stream)
          <6>3. i > child.offset + k
            BY <1>11, <1>12, <4>0, <4>3
          <6>4. i - child.offset - k >= 1 /\ i - child.offset - k \in Int
            BY <1>11, <1>12, <4>0, <6>3
          <6>5. i - child.offset - k <= Len(stream) - k
            BY <1>11, <1>12, <4>0, <5>5
          <6>1. i - child.offset - k \in 1 .. Len(stream) - k
            BY <1>12, <6>4, <6>5
          <6>2. (i - child.offset - k) + k = i - child.offset
            BY <1>11, <1>12, <4>0
          <6> QED BY <1>5, <5>3, <5>4, <5>5, <6>1, <6>2
        <5>6. CASE ~(i <= child.offset + Len(stream))
          BY <5>3, <5>4, <5>6
        <5> QED BY <5>5, <5>6
      <4> QED BY <4>1, <4>2, <4>3
    <3> QED BY <3>2, <3>3 DEF SameLine
  <2>8. ~ended' /\ Going' => Progress'
    BY <1>1, <1>2, <1>6, <2>7, ProgressKept DEF FileInv, Going
  <2> QED BY <1>6, <1>7, <2>5, <2>6, <2>8 DEF FileInv, FlowTypes
<1>10. CASE ~(k < rest)
  <2>0. k >= rest
    BY <1>10, <1>11, <1>12
  <2>1. /\ packet' = Filled(stream, rest)
        /\ child' = [child EXCEPT !.offset = 0, !.pc = "write"]
    BY <1>0, <1>10, <1>11, <1>12, <2>0 DEF Least
  <2>2. /\ pre' \in Seq(Units) /\ Len(pre') = k - rest
        /\ \A i \in 1 .. k - rest : pre'[i] = stream[i + rest]
    <3>1. CASE k > rest
      <4>1. pre' = SubSeq(stream, rest + 1, k)
        BY <1>0, <3>1 DEF Sticky
      <4>2. rest + 1 \in 1 .. Len(stream) + 1 /\ k \in 0 .. Len(stream) /\ rest + 1 <= k + 1
        BY <1>11, <1>12, <2>0
      <4>3. /\ SubSeq(stream, rest + 1, k) \in Seq(Units)
            /\ Len(SubSeq(stream, rest + 1, k)) = k - (rest + 1) + 1
            /\ \A i \in 1 .. k - (rest + 1) + 1 :
                 SubSeq(stream, rest + 1, k)[i] = stream[i + (rest + 1) - 1]
        BY <1>2, <4>2, Cut
      <4>4. k - (rest + 1) + 1 = k - rest
        BY <1>11, <1>12
      <4>6. ASSUME NEW i \in Nat PROVE i + (rest + 1) - 1 = i + rest
        BY <1>11
      <4> HIDE DEF rest
      <4>5. \A i \in 1 .. k - rest : i \in Nat
        OBVIOUS
      <4> QED BY <4>1, <4>3, <4>4, <4>5, <4>6
    <3>2. CASE ~(k > rest)
      <4>1. k - rest = 0 /\ pre' = <<>>
        BY <1>0, <1>1, <1>11, <1>12, <2>0, <3>2
      <4> QED BY <4>1, EmptyOut
    <3> QED BY <3>1, <3>2
  <2>3. /\ child' \in [pc : ChildPcs, offset : 0 .. Payload, opened : BOOLEAN]
        /\ child'.pc = "write" /\ child'.offset = 0
    <3>1. 0 \in 0 .. Payload
      BY Sizes
    <3> QED BY <1>3, <2>1, <3>1 DEF ChildPcs
  <2>4. /\ packet' \in [Places -> Units]
        /\ \A p \in Places : packet'[p] =
             IF p > child.offset THEN stream[p - child.offset] ELSE packet[p]
    <3>1. rest \in 0 .. Len(stream)
      BY <1>11, <1>12, <2>0
    <3>2. \A p \in Places : p <= child.offset + rest
      BY <1>11, Sizes
    <3> HIDE DEF rest
    <3> QED BY <1>2, <2>1, <3>1, <3>2, FilledIs
  <2>5. ChildTypes'
    <3>1. Len(pre') <= Payload
      BY <1>11, <1>12, <2>0, <2>2, <1>3, Sizes
    <3> QED BY <1>1, <1>2, <2>2, <2>3, <2>4, <3>1 DEF ChildTypes
  <2>6. ChildShape' /\ Faithful'
    BY <1>1, <2>3 DEF ChildShape, FileInv, Faithful
  <2>7. SameLine
    <3>1. Fill' = PacketSize
      BY <2>3 DEF Fill
    <3>2. Length' = Length
      <4>1. Len(out) \in Nat /\ out' = out
        BY <1>1, <1>2, PartsAre
      <4>2. Len(pre') = k - rest
        BY <2>2
      <4> HIDE DEF rest
      <4>3. Length = child.offset + Len(stream) + Len(out)
        BY <1>11, <1>12, <4>1 DEF Length
      <4>4. Fill' + Len(pre') = child.offset + k
        BY <1>11, <1>12, <3>1, <4>2
      <4>5. Fill' + Len(pre') + Len(stream') = child.offset + Len(stream)
        BY <1>11, <1>12, <4>4
      <4> QED BY <4>1, <4>3, <4>5 DEF Length
    <3>4. Len(pre') = k - rest
      BY <2>2
    <3> HIDE DEF rest
    <3>3. ASSUME NEW i \in 1 .. Length PROVE At(i)' = At(i)
      <4>0. i \in Nat \ {0}
        BY <1>2, PartsAre
      <4>1. CASE i <= PacketSize
        <5>1. i \in Places
          BY <4>0, <4>1, Sizes
        <5>2. At(i)' = packet'[i]
          BY <3>1, <4>1 DEF At
        <5>3. CASE i <= child.offset
          <6>1. At(i) = packet[i] /\ ~(i > child.offset)
            BY <1>3, <1>8, <4>0, <5>3 DEF At
          <6> QED BY <2>4, <5>1, <5>2, <6>1
        <5>4. CASE ~(i <= child.offset)
          <6>1. /\ ~(i <= Fill) /\ ~(i <= Fill + Len(pre)) /\ i <= Fill + Len(pre) + Len(stream)
                /\ i - Fill - Len(pre) = i - child.offset /\ i > child.offset
            BY <1>11, <1>12, <2>0, <4>0, <4>1, <5>4
          <6>2. At(i) = stream[i - child.offset]
            BY <6>1 DEF At
          <6> QED BY <2>4, <5>1, <5>2, <6>1, <6>2
        <5> QED BY <5>3, <5>4
      <4>2. CASE ~(i <= PacketSize)
        <5>1. /\ ~(i <= Fill) /\ ~(i <= Fill + Len(pre))
              /\ i - Fill - Len(pre) = i - child.offset
              /\ Fill + Len(pre) + Len(stream) = child.offset + Len(stream)
          BY <1>11, <1>12, <4>0, <4>2
        <5>2. At(i) = IF i <= child.offset + Len(stream) THEN stream[i - child.offset]
                      ELSE out[i - child.offset - Len(stream)]
          BY <5>1 DEF At
        <5>3. CASE i <= PacketSize + (k - rest)
          <6>0. ~(i <= Fill') /\ i <= Fill' + Len(pre')
            BY <3>1, <3>4, <4>2, <5>3
          <6>6. i > PacketSize /\ i - PacketSize <= k - rest
            BY <1>11, <1>12, <4>0, <4>2, <5>3
          <6>7. i - PacketSize \in 1 .. k - rest
            BY <1>11, <1>12, <4>0, <6>6
          <6>4. (i - PacketSize) + rest = i - child.offset
            BY <1>11, <4>0
          <6>5. i <= child.offset + Len(stream)
            BY <1>11, <1>12, <4>0, <5>3
          <6>1. /\ ~(i <= Fill') /\ i <= Fill' + Len(pre') /\ i - Fill' \in 1 .. k - rest
                /\ (i - Fill') + rest = i - child.offset /\ i <= child.offset + Len(stream)
            BY <3>1, <6>0, <6>4, <6>5, <6>7
          <6>2. At(i)' = pre'[i - Fill']
            BY <6>1 DEF At
          <6> QED BY <2>2, <5>2, <6>1, <6>2
        <5>4. CASE ~(i <= PacketSize + (k - rest))
          <6>1. /\ ~(i <= Fill') /\ ~(i <= Fill' + Len(pre'))
                /\ i - Fill' - Len(pre') = i - child.offset - k
                /\ Fill' + Len(pre') + Len(stream') = child.offset + Len(stream)
                /\ i - Fill' - Len(pre') - Len(stream') = i - child.offset - Len(stream)
            <7>1. Fill' + Len(pre') = child.offset + k
              BY <1>11, <1>12, <3>1, <3>4
            <7>2. ~(i <= Fill') /\ ~(i <= Fill' + Len(pre'))
              BY <3>1, <3>4, <4>2, <5>4
            <7>6. \A a, b \in Int : i - a - b = i - (a + b) /\ i - child.offset - k = i - (child.offset + k)
              BY <1>11, <1>12, <4>0
            <7>7. Fill' \in Int /\ Len(pre') \in Int
              BY <1>11, <1>12, <3>1, <3>4
            <7>3. i - Fill' - Len(pre') = i - child.offset - k
              BY <7>1, <7>6, <7>7
            <7>4. Fill' + Len(pre') + Len(stream') = child.offset + Len(stream)
              BY <1>11, <1>12, <7>1
            <7>5. i - Fill' - Len(pre') - Len(stream') = i - child.offset - Len(stream)
              BY <1>11, <1>12, <4>0, <7>3
            <7> QED BY <7>2, <7>3, <7>4, <7>5
          <6>2. At(i)' = IF i <= child.offset + Len(stream) THEN stream'[i - child.offset - k]
                         ELSE out[i - child.offset - Len(stream)]
            BY <1>1, <6>1 DEF At
          <6>3. CASE i <= child.offset + Len(stream)
            <7>1. i > child.offset + k
              BY <1>11, <1>12, <4>0, <5>4
            <7>2. i - child.offset - k \in 1 .. Len(stream) - k
              BY <1>11, <1>12, <4>0, <6>3, <7>1
            <7>3. (i - child.offset - k) + k = i - child.offset
              BY <1>11, <1>12, <4>0
            <7> QED BY <1>5, <5>2, <6>2, <6>3, <7>2, <7>3
          <6>4. CASE ~(i <= child.offset + Len(stream))
            BY <5>2, <6>2, <6>4
          <6> QED BY <6>3, <6>4
        <5> QED BY <5>3, <5>4
      <4> QED BY <4>1, <4>2
    <3> QED BY <3>2, <3>3 DEF SameLine
  <2>8. ~ended' /\ Going' => Progress'
    BY <1>1, <1>2, <1>6, <2>7, ProgressKept DEF FileInv, Going
  <2> QED BY <1>6, <1>7, <2>5, <2>6, <2>8 DEF FileInv, FlowTypes
<1> QED BY <1>9, <1>10
(* The end of the stream, and recv() or fopen() that fail.                 *)
LEMMA EndFile ==
  ASSUME FileInv, RecvEnd \/ RecvFails \/ OpenFails
  PROVE  FileInv'
<1>1. /\ UNCHANGED <<sender, out, stream, packet, pre, written, first>>
      /\ \/ child' = [child EXCEPT !.pc = "write"] /\ ended' = TRUE
         \/ child' = [child EXCEPT !.pc = "crashed"] /\ ended' = ended
  BY DEF RecvEnd, RecvFails, OpenFails
<1>2. FlowTypes /\ LineTypes /\ ChildTypes
  BY DEF FileInv, FlowTypes
<1>3. SenderTypes' /\ SenderShape'
  BY <1>1, SenderStays
<1>4. LineTypes'
  BY <1>1, <1>2 DEF LineTypes
<1>5. /\ child' \in [pc : ChildPcs, offset : 0 .. Payload, opened : BOOLEAN]
      /\ child'.pc \in {"write", "crashed"} /\ (child'.pc = "crashed" \/ ended')
      /\ (ended' \/ ended' = ended) /\ ended' \in BOOLEAN
  BY <1>1, <1>2 DEF ChildTypes, ChildPcs
<1>6. ChildTypes'
  BY <1>1, <1>2, <1>5 DEF ChildTypes
<1>7. ChildShape' /\ Faithful'
  <2>1. ChildShape'
    BY <1>5 DEF ChildShape
  <2>2. Faithful'
    <3>1. CASE ended'
      BY <3>1 DEF Faithful
    <3>2. CASE ~ended'
      BY <1>1, <1>5, <3>2 DEF FileInv, Faithful
    <3> QED BY <3>1, <3>2
  <2> QED BY <2>1, <2>2
<1>8. ~ended' => ~Going'
  BY <1>5 DEF Going
<1> QED BY <1>3, <1>4, <1>6, <1>7, <1>8 DEF FileInv, FlowTypes

(* What the packet holds when it is to be written.                         *)
LEMMA WholePacket ==
  ASSUME FileInv, ~ended, child.pc = "write"
  PROVE  /\ first \in Files
         /\ \E j \in Nat :
              /\ Len(written) = j * Payload /\ j * Payload < Size[first]
              /\ Aligned(j) /\ Ahead(j)
              /\ \A p \in Places : packet[p] = Packet(first, j * Payload)[p]
<1>1. FlowTypes /\ Progress
  BY DEF FileInv, Going
<1>2. Fill = PacketSize /\ Length >= PacketSize
  <2>1. Fill = PacketSize
    BY DEF Fill
  <2> QED BY <1>1, <2>1, PartsAre DEF Length
<1>3. first # NoFile
  BY <1>1, <1>2, Sizes DEF Progress
<1>4. first \in Files
  BY <1>1, <1>3 DEF FlowTypes, SenderTypes
<1>5. PICK j \in Nat : /\ Len(written) = j * Payload /\ j * Payload < Size[first]
                       /\ Aligned(j) /\ Ahead(j)
  BY <1>1, <1>3 DEF Progress
<1>6. ASSUME NEW p \in Places PROVE packet[p] = Packet(first, j * Payload)[p]
  <2>1. 0 * PacketSize + p = p /\ j + 0 = j /\ p <= Length /\ p <= PacketSize
    BY <1>1, <1>2, Sizes, PartsAre
  <2>2. At(0 * PacketSize + p) = Packet(first, (j + 0) * Payload)[p]
    BY <1>5, <2>1 DEF Aligned
  <2>3. At(p) = packet[p]
    BY <1>2, <2>1 DEF At
  <2> QED BY <2>1, <2>2, <2>3
<1> QED BY <1>4, <1>5, <1>6

LEMMA JunkFile ==
  ASSUME FileInv, WriteJunk
  PROVE  FileInv'
<1>1. /\ UNCHANGED <<sender, out, stream, packet, pre, written, first, ended>>
      /\ child' = [child EXCEPT !.pc = "spoiled"] /\ child.pc = "write"
      /\ \A f \in Files : packet[1] # <<f, 0>>
  BY DEF WriteJunk
<1>2. FlowTypes /\ LineTypes /\ ChildTypes
  BY DEF FileInv, FlowTypes
<1>3. ended
  <2> SUFFICES ASSUME ~ended PROVE FALSE
    BY <1>2 DEF ChildTypes
  <2>1. PICK j \in Nat : /\ j * Payload < Size[first] /\ first \in Files
                         /\ \A p \in Places : packet[p] = Packet(first, j * Payload)[p]
    BY <1>1, WholePacket
  <2>2. j * Payload \in Nat /\ j * Payload <= Size[first] /\ 1 \in Places
    BY <2>1, NextPacket, Sizes
  <2>3. packet[1] = <<first, 0>>
    BY <2>1, <2>2, PacketIs
  <2> QED BY <1>1, <2>1, <2>3
<1>4. SenderTypes' /\ SenderShape' /\ LineTypes'
  BY <1>1, <1>2, SenderStays DEF LineTypes
<1>5. child' \in [pc : ChildPcs, offset : 0 .. Payload, opened : BOOLEAN] /\ child'.pc = "spoiled"
  BY <1>1, <1>2 DEF ChildTypes, ChildPcs
<1>6. ChildTypes' /\ ChildShape' /\ Faithful'
  BY <1>1, <1>2, <1>3, <1>5 DEF ChildTypes, ChildShape, Faithful
<1> QED BY <1>1, <1>3, <1>4, <1>6 DEF FileInv, FlowTypes
(* A packet written is off the line.                                       *)
LEMMA LineDropped ==
  ASSUME FlowTypes, child.pc = "write", child'.pc = "join",
         out' = out, stream' = stream, pre' = pre
  PROVE  /\ Length' \in Nat /\ Length = Length' + PacketSize
         /\ \A i \in Nat \ {0} : At(i)' = At(i + PacketSize)
<1>1. Fill = PacketSize /\ Fill' = 0
  BY DEF Fill
<1>2. /\ Len(pre) \in Nat /\ Len(stream) \in Nat /\ Len(out) \in Nat /\ PacketSize \in Nat
      /\ Length \in Nat
  BY PartsAre, Sizes
<1>3. Length' \in Nat /\ Length = Length' + PacketSize
  BY <1>1, <1>2 DEF Length
<1>4. ASSUME NEW i \in Nat \ {0} PROVE At(i)' = At(i + PacketSize)
  <2>1. ~(i <= Fill') /\ ~(i + PacketSize <= Fill)
    BY <1>1, <1>2
  <2>2. i - Fill' = i /\ (i + PacketSize) - Fill = i
    BY <1>1, <1>2
  <2>3. CASE i <= Len(pre)
    <3>1. i <= Fill' + Len(pre) /\ i + PacketSize <= Fill + Len(pre)
      BY <1>1, <1>2, <2>3
    <3>2. At(i)' = pre[i - Fill']
      BY <2>1, <3>1 DEF At
    <3>3. At(i + PacketSize) = pre[(i + PacketSize) - Fill]
      BY <2>1, <3>1 DEF At
    <3> QED BY <2>2, <3>2, <3>3
  <2>4. CASE ~(i <= Len(pre))
    <3>1. ~(i <= Fill' + Len(pre)) /\ ~(i + PacketSize <= Fill + Len(pre))
      BY <1>1, <1>2, <2>4
    <3>2. CASE i <= Len(pre) + Len(stream)
      <4>1. /\ i <= Fill' + Len(pre) + Len(stream)
            /\ i + PacketSize <= Fill + Len(pre) + Len(stream)
        BY <1>1, <1>2, <3>2
      <4>2. At(i)' = stream[i - Fill' - Len(pre)]
        BY <2>1, <3>1, <4>1 DEF At
      <4>3. At(i + PacketSize) = stream[(i + PacketSize) - Fill - Len(pre)]
        BY <2>1, <3>1, <4>1 DEF At
      <4> QED BY <2>2, <4>2, <4>3
    <3>3. CASE ~(i <= Len(pre) + Len(stream))
      <4>1. /\ ~(i <= Fill' + Len(pre) + Len(stream))
            /\ ~(i + PacketSize <= Fill + Len(pre) + Len(stream))
        BY <1>1, <1>2, <3>3
      <4>2. At(i)' = out[i - Fill' - Len(pre) - Len(stream)]
        BY <2>1, <3>1, <4>1 DEF At
      <4>3. At(i + PacketSize) = out[(i + PacketSize) - Fill - Len(pre) - Len(stream)]
        BY <2>1, <3>1, <4>1 DEF At
      <4> QED BY <2>2, <4>2, <4>3
    <3> QED BY <3>2, <3>3
  <2> QED BY <2>3, <2>4
<1> QED BY <1>3, <1>4

LEMMA AddedLess ==
  ASSUME NEW x \in Nat, NEW y \in Nat, NEW z \in Nat
  PROVE  /\ x <= y <=> x + z <= y + z
         /\ z # 0 => x + z # 0
OBVIOUS

LEMMA SameAdded ==
  ASSUME NEW x \in Nat, NEW y \in Nat, NEW z \in Nat, x + z = y + z
  PROVE  x = y
OBVIOUS

LEMMA AlignedDropped ==
  ASSUME FlowTypes, first' = first, NEW j \in Nat, Aligned(j),
         Length' \in Nat, Length = Length' + PacketSize,
         \A i \in Nat \ {0} : At(i)' = At(i + PacketSize)
  PROVE  Aligned(j + 1)'
<1> SUFFICES ASSUME NEW q \in Nat, NEW p \in Places, q * PacketSize + p <= Length',
                    ((j + 1) + q) * Payload < Size[first]
             PROVE  At(q * PacketSize + p)' = Packet(first, ((j + 1) + q) * Payload)[p]
  BY DEF Aligned, Packet
<1>1. q * PacketSize + p \in Nat \ {0} /\ q * PacketSize \in Nat /\ p \in Nat
  <2>1. p \in Nat
    BY Sizes
  <2> QED BY <2>1, PlaceIs
<1>2. (q + 1) * PacketSize + p = (q * PacketSize + p) + PacketSize
  <2>1. (q + 1) * PacketSize = q * PacketSize + PacketSize
    BY NextPacket, Sizes
  <2> QED BY <1>1, <2>1, Sizes
<1>3. (j + 1) + q = j + (q + 1)
  OBVIOUS
<1>4. (q + 1) * PacketSize + p <= Length
  <2>1. (q * PacketSize + p) + PacketSize <= Length' + PacketSize
    BY <1>1, AddedLess, Sizes
  <2> QED BY <1>2, <2>1
<1>5. At((q + 1) * PacketSize + p) = Packet(first, (j + (q + 1)) * Payload)[p]
  BY <1>3, <1>4 DEF Aligned
<1> QED BY <1>1, <1>2, <1>3, <1>5

LEMMA AheadDropped ==
  ASSUME FlowTypes, first' = first, sender' = sender, first \in Files,
         NEW j \in Nat, j * Payload < Size[first], Ahead(j),
         Length' \in Nat, Length = Length' + PacketSize
  PROVE  Ahead(j + 1)'
<1>1. ASSUME NEW n \in Nat, Sending(j, n) \/ Past(j, n)
      PROVE  n # 0
  <2> SUFFICES ASSUME n = 0 PROVE FALSE
    OBVIOUS
  <2>1. j + n = j /\ n * PacketSize = 0
    BY Sizes
  <2>2. CASE Sending(j, n)
    <3>1. Length = 0
      BY <2>1, <2>2 DEF Sending
    <3>2. PacketSize \in Nat /\ PacketSize # 0
      BY Sizes
    <3> QED BY <3>1, <3>2, AddedLess
  <2>3. CASE Past(j, n)
    <3>1. j * Payload \in Nat /\ Size[first] \in Nat
      BY NextPacket, Sizes
    <3> QED BY <2>1, <2>3, <3>1 DEF Past
  <2> QED BY <1>1, <2>2, <2>3
<1>2. CASE sender.pc = "dead"
  BY <1>2 DEF Ahead
<1>3. ASSUME NEW n \in Nat, Sending(j, n) \/ Past(j, n)
      PROVE  Ahead(j + 1)'
  <2>1. PICK m \in Nat : n = m + 1
    <3>1. n - 1 \in Nat /\ n = (n - 1) + 1
      BY <1>1, <1>3
    <3> QED BY <3>1
  <2>2. (j + 1) + m = j + n
    BY <2>1
  <2>3. n * PacketSize = m * PacketSize + PacketSize /\ m * PacketSize \in Nat
    BY <2>1, NextPacket, Sizes
  <2>4. CASE Sending(j, n)
    <3>1. Length' + PacketSize = m * PacketSize + PacketSize
      BY <2>3, <2>4 DEF Sending
    <3>2. Length' = m * PacketSize
      <4> DEFINE x == m * PacketSize
      <4>1. x \in Nat /\ Length' + PacketSize = x + PacketSize /\ PacketSize \in Nat
        BY <2>3, <3>1, Sizes
      <4> HIDE DEF x
      <4>2. Length' = x
        BY <4>1, SameAdded
      <4> QED BY <4>2 DEF x
    <3>3. Sending(j + 1, m)'
      BY <2>2, <2>4, <3>2 DEF Sending, Least
    <3> QED BY <3>3 DEF Ahead
  <2>5. CASE Past(j, n)
    <3>1. m * PacketSize + PacketSize <= Length' + PacketSize
      BY <2>3, <2>5 DEF Past
    <3>2. m * PacketSize <= Length'
      BY <2>3, <3>1, AddedLess, Sizes
    <3>3. Past(j + 1, m)'
      BY <2>2, <2>5, <3>2 DEF Past
    <3> QED BY <3>3 DEF Ahead
  <2> QED BY <1>3, <2>4, <2>5
<1> QED BY <1>2, <1>3 DEF Ahead

LEMMA ProgressWrite ==
  ASSUME FlowTypes, child.pc = "write", child'.pc = "join",
         UNCHANGED <<sender, out, stream, pre, first>>, first \in Files,
         NEW j \in Nat, j * Payload < Size[first], Aligned(j), Ahead(j),
         Len(written') = (j + 1) * Payload, Len(written') < Size[first]
  PROVE  Progress'
<1>1. /\ out' = out /\ stream' = stream /\ pre' = pre /\ sender' = sender /\ first' = first
      /\ first # NoFile
  BY Sizes
<1>2. /\ Length' \in Nat /\ Length = Length' + PacketSize
      /\ \A i \in Nat \ {0} : At(i)' = At(i + PacketSize)
  BY <1>1, LineDropped
<1>3. Aligned(j + 1)'
  BY <1>1, <1>2, AlignedDropped
<1>4. Ahead(j + 1)'
  BY <1>1, <1>2, AheadDropped
<1> QED BY <1>1, <1>3, <1>4 DEF Progress

LEMMA AmountIs ==
  ASSUME NEW f \in Files, Len(written) \in Nat
  PROVE  /\ Amount(f) \in 0 .. Payload
         /\ Len(written) <= Size[f] => Len(written) + Amount(f) <= Size[f]
         /\ Len(written) + Amount(f) < Size[f] => Amount(f) = Payload
<1>1. Size[f] \in Nat /\ Payload \in Nat
  BY Sizes
<1> QED BY <1>1 DEF Amount

LEMMA WriteFile ==
  ASSUME FileInv, Write
  PROVE  FileInv'
<1>0. PICK f \in Files :
        /\ packet[1] = <<f, 0>>
        /\ written' = written \o SubSeq(packet, 2, Amount(f) + 1)
        /\ child' = [child EXCEPT !.opened = TRUE,
                       !.pc = IF Len(written) + Amount(f) >= Size[f] THEN "done" ELSE "join"]
  BY DEF Write
<1> DEFINE a == Amount(f)
           s == SubSeq(packet, 2, a + 1)
<1>1. child.pc = "write" /\ UNCHANGED <<sender, out, stream, packet, pre, first, ended>>
  BY DEF Write
<1>2. /\ FlowTypes /\ LineTypes /\ ChildTypes
      /\ written \in Seq(Units) /\ Len(written) \in Nat
      /\ packet \in [Places -> Units]
  BY DEF FileInv, FlowTypes, ChildTypes
<1>3. /\ a \in 0 .. Payload
      /\ Len(written) <= Size[f] => Len(written) + a <= Size[f]
      /\ Len(written) + a < Size[f] => a = Payload
  BY <1>2, AmountIs
<1> HIDE DEF a
<1>4. s \in Seq(Units) /\ Len(s) = a /\ \A i \in 1 .. a : s[i] = packet[i + 1]
  <2>1. packet \in Seq(Units) /\ Len(packet) = PacketSize
    <3>1. packet \in [1 .. PacketSize -> Units]
      BY <1>2, Sizes
    <3> QED BY <3>1, Sizes
  <2>2. 2 \in 1 .. PacketSize + 1 /\ a + 1 \in 0 .. PacketSize /\ 2 <= a + 1 + 1
    BY <1>3, Sizes
  <2>3. /\ SubSeq(packet, 2, a + 1) \in Seq(Units) /\ Len(SubSeq(packet, 2, a + 1)) = (a + 1) - 2 + 1
        /\ \A i \in 1 .. (a + 1) - 2 + 1 : SubSeq(packet, 2, a + 1)[i] = packet[i + 2 - 1]
    BY <2>1, <2>2, Cut
  <2>4. (a + 1) - 2 + 1 = a /\ \A i \in 1 .. a : i + 2 - 1 = i + 1
    BY <1>3, Sizes
  <2> QED BY <2>3, <2>4
<1> HIDE DEF s
<1>5. /\ written' \in Seq(Units) /\ Len(written') = Len(written) + a
      /\ \A i \in 1 .. Len(written) + a :
           written'[i] = IF i <= Len(written) THEN written[i] ELSE s[i - Len(written)]
  <2>1. written' = written \o s
    BY <1>0 DEF s, a
  <2> QED BY <1>2, <1>4, <2>1, Joined
<1>6. /\ child' \in [pc : ChildPcs, offset : 0 .. Payload, opened : BOOLEAN]
      /\ child'.offset = child.offset
      /\ child'.pc = IF Len(written) + a >= Size[f] THEN "done" ELSE "join"
  <2>1. child \in [pc : ChildPcs, offset : 0 .. Payload, opened : BOOLEAN]
    BY <1>2 DEF ChildTypes
  <2>2. child' = [child EXCEPT !.opened = TRUE,
                       !.pc = IF Len(written) + a >= Size[f] THEN "done" ELSE "join"]
    BY <1>0 DEF a
  <2> QED BY <2>1, <2>2 DEF ChildPcs
<1>7. SenderTypes' /\ SenderShape' /\ LineTypes'
  BY <1>1, <1>2, SenderStays DEF LineTypes
<1>8. ChildTypes'
  BY <1>1, <1>2, <1>5, <1>6 DEF ChildTypes
<1>9. CASE ended
  BY <1>1, <1>6, <1>7, <1>8, <1>9 DEF FileInv, FlowTypes, ChildShape, Faithful
<1>10. CASE ~ended
  <2>1. PICK j \in Nat :
          /\ first \in Files
          /\ Len(written) = j * Payload /\ j * Payload < Size[first]
          /\ Aligned(j) /\ Ahead(j)
          /\ \A p \in Places : packet[p] = Packet(first, j * Payload)[p]
    BY <1>1, <1>10, WholePacket
  <2> DEFINE w == j * Payload
  <2>2. w \in Nat /\ Size[first] \in Nat /\ w < Size[first] /\ Len(written) = w /\ a \in Nat
    BY <1>3, <2>1, NextPacket, Sizes
  <2>3. \A p \in Places : packet[p] = Packet(first, w)[p]
    BY <2>1
  <2>4. (j + 1) * Payload = w + Payload
    BY NextPacket, Sizes
  <2> HIDE DEF w
  <2>5. /\ packet[1] = <<first, 0>>
        /\ \A p \in Places : p > 1 /\ w + p - 1 <= Size[first] => packet[p] = <<first, w + p - 1>>
    <3>1. 1 \in Places /\ w <= Size[first]
      BY <2>2, Sizes
    <3> QED BY <2>1, <2>2, <2>3, <3>1, PacketIs
  <2>6. f = first
    BY <1>0, <2>5
  <2>7. w + a <= Size[first] /\ (w + a < Size[first] => a = Payload)
    BY <1>3, <2>2, <2>6
  <2>8. ASSUME NEW k \in DOMAIN written' PROVE written'[k] = <<first, k>>
    <3>1. k \in 1 .. w + a
      BY <1>5, <2>2
    <3>2. CASE k <= w
      <4>1. written'[k] = written[k]
        BY <1>5, <2>2, <3>1, <3>2
      <4>2. k \in DOMAIN written
        BY <1>2, <2>2, <3>1, <3>2
      <4> QED BY <1>10, <4>1, <4>2 DEF FileInv, Faithful
    <3>3. CASE k > w
      <4>1. k - w \in 1 .. a /\ (k - w) + 1 > 1 /\ w + ((k - w) + 1) - 1 = k
        BY <2>2, <3>1, <3>3
      <4>2. (k - w) + 1 \in Places
        BY <1>3, <4>1, Sizes
      <4>3. written'[k] = s[k - w]
        BY <1>5, <2>2, <3>1, <3>3
      <4>4. s[k - w] = packet[(k - w) + 1]
        BY <1>4, <4>1
      <4>5. k <= Size[first]
        BY <2>2, <2>7, <3>1
      <4>6. packet[(k - w) + 1] = <<first, w + ((k - w) + 1) - 1>>
        BY <2>5, <4>1, <4>2, <4>5
      <4> QED BY <4>1, <4>3, <4>4, <4>6
    <3> QED BY <2>2, <3>1, <3>2, <3>3
  <2>9. Len(written') <= Size[first] /\ (child'.pc = "done" => Len(written') = Size[first])
    BY <1>5, <1>6, <2>2, <2>6, <2>7
  <2>10. first # NoFile /\ child'.pc \in {"done", "join"}
    BY <1>6, <2>1, Sizes
  <2>11. Faithful'
    BY <1>1, <2>8, <2>9, <2>10 DEF Faithful
  <2>12. ChildShape'
    <3>1. child.offset = 0
      BY <1>1, <1>10 DEF FileInv, ChildShape
    <3> QED BY <1>1, <1>6, <2>10, <3>1 DEF ChildShape
  <2>13. ~ended' /\ Going' => Progress'
    <3> SUFFICES ASSUME Going' PROVE Progress'
      OBVIOUS
    <3>1. child'.pc = "join"
      BY <2>10 DEF Going
    <3>2. Len(written') < Size[first] /\ Len(written') = (j + 1) * Payload
      <4>1. ~(Len(written) + a >= Size[first])
        BY <1>6, <2>6, <3>1
      <4>2. w + a < Size[first] /\ a = Payload
        BY <2>2, <2>7, <4>1
      <4> QED BY <1>5, <2>2, <2>4, <4>2
    <3> QED BY <1>1, <1>2, <2>1, <3>1, <3>2, ProgressWrite
  <2> QED BY <1>7, <1>8, <2>11, <2>12, <2>13 DEF FileInv, FlowTypes
<1> QED BY <1>9, <1>10
-----------------------------------------------------------------------------
(* The whole system.                                                       *)

LEMMA FileSame ==
  ASSUME FileInv, UNCHANGED <<sender, out, stream, first, childVars>>
  PROVE  FileInv'
<1>1. UNCHANGED <<sender, out, stream, first, child, packet, pre, written, ended>>
  BY DEF childVars
<1>2. SenderTypes' /\ SenderShape' /\ SameRun
  BY <1>1, SenderStays
<1>3. ChildTypes' /\ ChildShape' /\ Faithful'
  BY <1>1, ChildStays DEF childVars
<1>4. LineTypes' /\ FlowTypes
  BY <1>1 DEF FileInv, FlowTypes, LineTypes
<1>5. SameLine
  BY <1>1, LineStays
<1>6. ~ended' /\ Going' => Progress'
  BY <1>1, <1>2, <1>4, <1>5, ProgressKept DEF FileInv, Going
<1> QED BY <1>2, <1>3, <1>4, <1>6 DEF FileInv, FlowTypes

LEMMA StepFile ==
  ASSUME FileInv, [FileNext]_fileVars
  PROVE  FileInv'
<1>1. ASSUME NEW f \in Files, Command(f) PROVE FileInv'
  BY <1>1, CommandFile
<1>2. CASE Sender
  BY <1>2, ReadFile, SendFile, StopFile DEF Sender
<1>3. CASE Kill
  BY <1>3, StopFile
<1>4. CASE Child
  BY <1>4, JoinFile, RecvFile, EndFile, WriteFile, JunkFile DEF Child, child_do
<1>5. ASSUME NEW k \in Kids, ParentAccept(k) \/ fork(k) \/ ForkFails(k) \/ ParentClose(k) \/ exit(k)
      PROVE  FileInv'
  BY <1>5, FileSame DEF ParentAccept, fork, ForkFails, ParentClose, exit
<1>6. CASE signal_process \/ wait
  BY <1>6, FileSame DEF signal_process, wait
<1>7. CASE UNCHANGED fileVars
  BY <1>7, FileSame DEF fileVars, childVars
<1> QED BY <1>1, <1>2, <1>3, <1>4, <1>5, <1>6, <1>7 DEF FileNext

LEMMA InitFile == FileInit => FileInv
<1> SUFFICES ASSUME FileInit PROVE FileInv
  OBVIOUS
<1>1. SenderTypes /\ SenderShape
  BY TransferAssumption DEF FileInit, SenderTypes, SenderShape, SenderPcs
<1>2. LineTypes
  BY EmptyOut, Sizes, TransferAssumption DEF FileInit, LineTypes
<1>3. ChildTypes /\ ChildShape
  <2>1. packet \in [Places -> Units]
    <3>1. Junk \in Units
      BY DEF Units
    <3> QED BY <3>1 DEF FileInit
  <2>2. child \in [pc : ChildPcs, offset : 0 .. Payload, opened : BOOLEAN]
    BY Sizes DEF FileInit, ChildPcs
  <2>3. /\ pre = <<>> /\ written = <<>> /\ ended = FALSE /\ child.pc = "join"
        /\ child.offset = 0
    <3>1. child = [pc |-> "join", offset |-> 0, opened |-> FALSE]
      BY DEF FileInit
    <3> QED BY <3>1 DEF FileInit
  <2>4. ChildTypes
    <3>1. pre \in Seq(Units) /\ Len(pre) <= Payload /\ written \in Seq(Units)
      BY <2>3, EmptyOut, Sizes
    <3> QED BY <2>1, <2>2, <2>3, <3>1 DEF ChildTypes
  <2> QED BY <2>3, <2>4 DEF ChildShape
<1>4. Faithful
  <2>1. Len(written) = 0 /\ DOMAIN written = {}
    BY EmptyOut DEF FileInit
  <2> QED BY <2>1 DEF FileInit, Faithful
<1>5. Progress
  <2>1. Fill = 0 /\ Len(pre) = 0 /\ Len(stream) = 0 /\ Len(out) = 0
    BY EmptyOut DEF FileInit, Fill
  <2> QED BY <2>1 DEF FileInit, Progress, Length
<1> QED BY <1>1, <1>2, <1>3, <1>4, <1>5 DEF FileInv, FlowTypes

(* Every variable of sender and receiver keeps its type: no offset leaves  *)
(* the packet, packet_pre never overflows.                                 *)
THEOREM FileTypeCorrect == FileSpec => []FileTypeOK
<1>1. FileInv /\ ReaperInv => FileTypeOK
  BY DEF FileInv, ReaperInv, FlowTypes, SenderTypes, LineTypes, ChildTypes, ParentTypes, FileTypeOK
<1> QED BY <1>1, InitFile, StepFile, InitReaper, StepReaper, PTL DEF FileSpec

(* However recv() cuts the stream, the packets are put together as they    *)
(* were sent: what is written is a beginning of the first file, and all of *)
(* it without padding when the child stops, unless the stream ends before  *)
(* (receiver.c:28-78).                                                     *)
THEOREM FileFaithful == FileSpec => []Faithful
<1>1. FileInv => Faithful
  BY DEF FileInv
<1> QED BY <1>1, InitFile, StepFile, PTL DEF FileSpec

-----------------------------------------------------------------------------
(***************************************************************************)
(* The first echo server.                                                  *)
(***************************************************************************)

Living   == {t \in Threads : Live(t)}
Taken    == {i \in Entries : flag[i] = 1}
Starting == IF main.pc = "create" THEN 1 ELSE 0

MainType   == [pc : MainPcs, fd : 0 .. MaxFd, i : 0 .. MaxClient, next : Threads \cup {None}]
ThreadType == [pc : ThreadPcs, fd : 0 .. MaxFd, at : Entries \cup {-1}]

(* The entry main has found is still free when main takes it, and the      *)
(* thread it starts is one of a connection or of a failed accept().        *)
Entering ==
  /\ main.pc = "enter" => sub \in Entries /\ flag[sub] = 0
  /\ main.pc \in {"find", "enter", "create"} => main.next \in Threads

OldInv == TypeOK /\ Entering /\ ThreadsFit

LEMMA CardinalitiesAre ==
  /\ IsFiniteSet(Living) /\ Cardinality(Living) \in Nat
  /\ IsFiniteSet(Taken) /\ Cardinality(Taken) \in Nat
<1>1. IsFiniteSet(Threads)
  BY FS_Union, OldServerAssumption DEF Threads
<1>2. IsFiniteSet(Entries)
  BY FS_Interval, OldServerAssumption DEF Entries
<1> QED BY <1>1, <1>2, FS_Subset, FS_CardinalityType DEF Living, Taken

LEMMA ThreadsFitIs == ThreadsFit <=> Cardinality(Living) + Starting <= Cardinality(Taken)
BY DEF ThreadsFit, Living, Taken, Starting

(* A step after which fewer or the same threads live, and no entry and no  *)
(* start of a thread has come or gone.                                     *)
LEMMA FitSame ==
  ASSUME ThreadsFit, Living' = Living, Taken' = Taken, Starting' = Starting
  PROVE  ThreadsFit'
BY ThreadsFitIs DEF ThreadsFit, Living, Taken, Starting

(* main takes an entry for a thread it is about to start.                  *)
LEMMA FitEnter ==
  ASSUME ThreadsFit, NEW i \in Entries, i \notin Taken, Taken' = Taken \cup {i},
         Living' = Living, Starting = 0, Starting' = 1
  PROVE  ThreadsFit'
<1>1. Cardinality(Taken') = Cardinality(Taken) + 1
  BY CardinalitiesAre, FS_AddElement
<1>2. Cardinality(Living) <= Cardinality(Taken)
  BY ThreadsFitIs, CardinalitiesAre
<1>3. Cardinality(Living') + Starting' <= Cardinality(Taken')
  BY <1>1, <1>2, CardinalitiesAre
<1> QED BY <1>3 DEF ThreadsFit, Living, Taken, Starting

(* The thread main was about to start lives.                               *)
LEMMA FitCreate ==
  ASSUME ThreadsFit, NEW t \in Threads, Living' = Living \cup {t}, Taken' = Taken,
         Starting = 1, Starting' = 0
  PROVE  ThreadsFit'
<1>1. Cardinality(Living') <= Cardinality(Living) + 1
  <2>1. CASE t \in Living
    <3>1. Cardinality(Living') = Cardinality(Living)
      <4>1. Living' = Living
        BY <2>1
      <4> QED BY <4>1
    <3> QED BY <3>1, CardinalitiesAre
  <2>2. CASE t \notin Living
    <3>1. Cardinality(Living') = Cardinality(Living) + 1
      BY <2>2, CardinalitiesAre, FS_AddElement
    <3> QED BY <3>1, CardinalitiesAre
  <2> QED BY <2>1, <2>2
<1>2. Cardinality(Living') \in Nat
  BY CardinalitiesAre, FS_AddElement, FS_CardinalityType
<1>3. Cardinality(Living) + 1 <= Cardinality(Taken)
  BY ThreadsFitIs
<1>4. Cardinality(Living') + Starting' <= Cardinality(Taken')
  BY <1>1, <1>2, <1>3, CardinalitiesAre
<1> QED BY <1>4 DEF ThreadsFit, Living, Taken, Starting

(* A thread that ends frees one entry at most, whoever it is for.          *)
LEMMA FitEnd ==
  ASSUME ThreadsFit, NEW t \in Living, Living' = Living \ {t},
         NEW i, Taken' = Taken \ {i}, Starting' = Starting, Starting \in {0, 1}
  PROVE  ThreadsFit'
<1>1. Cardinality(Living') = Cardinality(Living) - 1
  BY CardinalitiesAre, FS_RemoveElement
<1>2. Cardinality(Taken') \in Nat /\ Cardinality(Taken') >= Cardinality(Taken) - 1
  <2>1. Cardinality(Taken') \in Nat
    BY CardinalitiesAre, FS_RemoveElement, FS_CardinalityType
  <2>2. CASE i \in Taken
    <3>1. Cardinality(Taken') = Cardinality(Taken) - 1
      BY <2>2, CardinalitiesAre, FS_RemoveElement
    <3> QED BY <2>1, <3>1, CardinalitiesAre
  <2>3. CASE i \notin Taken
    <3>1. Cardinality(Taken') = Cardinality(Taken)
      <4>1. Taken' = Taken
        BY <2>3
      <4> QED BY <4>1
    <3> QED BY <2>1, <3>1, CardinalitiesAre
  <2> QED BY <2>1, <2>2, <2>3
<1>3. Cardinality(Living) + Starting <= Cardinality(Taken)
  BY ThreadsFitIs
<1>4. Cardinality(Living') + Starting' <= Cardinality(Taken')
  BY <1>1, <1>2, <1>3, CardinalitiesAre
<1> QED BY <1>4 DEF ThreadsFit, Living, Taken, Starting

LEMMA InitOld == Init => OldInv
<1> SUFFICES ASSUME Init PROVE OldInv
  OBVIOUS
<1>1. TypeOK
  BY OldServerAssumption, ConnectAssumption
     DEF Init, ConnectInit, TypeOK, ConnectTypeOK, Accepting, NoThread, MainPcs, ThreadPcs,
         ConnPcs, PeerStates, Fds, Entries, Threads
<1>2. Living = {} /\ Starting = 0
  BY DEF Init, Accepting, NoThread, Living, Live, Starting
<1>3. ThreadsFit
  BY <1>2, FS_EmptySet, CardinalitiesAre, ThreadsFitIs
<1> QED BY <1>1, <1>3 DEF Init, Accepting, Entering, OldInv

(* Clients and kernels do not touch what the server keeps.                 *)
LEMMA OutsideTypes ==
  ASSUME TypeOK, NEW c \in Conns, Client(c) \/ Kernel(c)
  PROVE  ConnectTypeOK'
<1>0. ConnectTypeOK
  BY DEF TypeOK
<1> USE DEF ConnectTypeOK, ConnPcs, PeerStates
<1>1. CASE socket_connect_timeout(c)
  <2>1. backlog' \in Seq(Conns)
    <3>1. backlog' = backlog \/ backlog' = Append(backlog, c)
      BY <1>1 DEF socket_connect_timeout
    <3>2. backlog \in Seq(Conns)
      BY <1>0
    <3>3. Append(backlog, c) \in Seq(Conns)
      BY <3>2
    <3> QED BY <3>1, <3>2, <3>3
  <2>2. conn' \in [Conns -> ConnPcs] /\ peer' \in [Conns -> PeerStates]
    BY <1>0, <1>1 DEF socket_connect_timeout
  <2> QED BY <1>0, <1>1, <2>1, <2>2 DEF socket_connect_timeout
<1>2. CASE Writable(c) \/ TimesOut(c) \/ GiveUp(c) \/ SelectFails(c)
  BY <1>0, <1>2 DEF Writable, TimesOut, GiveUp, SelectFails
<1>3. CASE Say(c)
  <2>1. said[c] \in Nat /\ unread[c] \in Nat
    BY <1>0
  <2>2. said' \in [Conns -> Nat] /\ unread' \in [Conns -> Nat]
    BY <1>0, <1>3, <2>1 DEF Say
  <2> QED BY <1>0, <1>3, <2>2 DEF Say
<1>4. CASE Leave(c)
  BY <1>0, <1>4 DEF Leave
<1>5. CASE Establish(c)
  <2>1. backlog' \in Seq(Conns)
    BY <1>0, <1>5 DEF Establish
  <2> QED BY <1>0, <1>5, <2>1 DEF Establish
<1>6. CASE Refuse(c) \/ Reset(c)
  BY <1>0, <1>6 DEF Refuse, Reset
<1> QED BY <1>1, <1>2, <1>3, <1>4, <1>5, <1>6 DEF Client, Kernel

LEMMA OutsideStep ==
  ASSUME OldInv, NEW c \in Conns, Client(c) \/ Kernel(c), UNCHANGED serverVars
  PROVE  OldInv'
<1>1. TypeOK'
  BY OutsideTypes DEF OldInv, TypeOK, serverVars
<1>2. Entering' /\ ThreadsFit'
  BY FitSame DEF OldInv, serverVars, Entering, Living, Live, Taken, Starting
<1> QED BY <1>1, <1>2 DEF OldInv

(* Closing a descriptor, whatever it stands for.                           *)
LEMMA CloseTypes ==
  ASSUME TypeOK, NEW n, close(n)
  PROVE  fdt' \in [Fds -> Conns \cup {None}] /\ peer' \in [Conns -> PeerStates]
BY DEF TypeOK, ConnectTypeOK, close, PeerStates

(* A step of thread t that goes on.                                        *)
LEMMA ThreadGoesOn ==
  ASSUME OldInv, NEW t \in Threads, NEW r \in ThreadType,
         thread' = [thread EXCEPT ![t] = r], Live(t), r.pc \notin {"none", "ended"},
         UNCHANGED <<flag, main, sub>>
  PROVE  /\ thread' \in [Threads -> ThreadType]
         /\ Entering' /\ ThreadsFit'
<1>1. thread' \in [Threads -> ThreadType]
  BY DEF OldInv, TypeOK, ThreadType
<1>2. Living' = Living /\ Taken' = Taken /\ Starting' = Starting
  BY DEF OldInv, TypeOK, Living, Live, Taken, Starting
<1> QED BY <1>1, <1>2, FitSame DEF OldInv, Entering

LEMMA MainStep ==
  ASSUME OldInv, Main \/ AcceptFails
  PROVE  OldInv'
<1> USE OldServerAssumption DEF OldInv
<1>1. CASE accept
  <2>1. PICK n \in Fds : /\ fdt' = [fdt EXCEPT ![n] = Head(backlog)]
                         /\ main' = [pc |-> "find", fd |-> n, i |-> 0, next |-> Head(backlog)]
    BY <1>1 DEF accept
  <2>2. Head(backlog) \in Conns /\ Tail(backlog) \in Seq(Conns)
    BY <1>1 DEF accept, TypeOK, ConnectTypeOK
  <2>3. main.pc = "accept"
    BY <1>1 DEF accept
  <2>4. main' \in MainType
    BY <2>1, <2>2 DEF MainType, MainPcs, Fds, Threads
  <2>5. TypeOK'
    BY <1>1, <2>1, <2>2, <2>4 DEF accept, TypeOK, ConnectTypeOK, MainType
  <2>6. Entering'
    BY <2>1, <2>2 DEF Entering, Threads
  <2>7. Living' = Living /\ Taken' = Taken /\ Starting' = Starting
    BY <1>1, <2>1, <2>3 DEF accept, Living, Live, Taken, Starting
  <2> QED BY <2>5, <2>6, <2>7, FitSame
<1>2. CASE AcceptFails
  <2>1. PICK t \in Strays : main' = [pc |-> "find", fd |-> 0, i |-> 0, next |-> t]
    BY <1>2 DEF AcceptFails
  <2>2. main' \in MainType
    BY <2>1 DEF MainType, MainPcs, Threads
  <2>3. TypeOK'
    BY <1>2, <2>2 DEF AcceptFails, TypeOK, MainType, connectVars, ConnectTypeOK
  <2>4. Entering'
    BY <2>1 DEF Entering, Threads
  <2>5. Living' = Living /\ Taken' = Taken /\ Starting' = Starting
    BY <1>2, <2>1 DEF AcceptFails, Living, Live, Taken, Starting
  <2> QED BY <2>3, <2>4, <2>5, FitSame
<1>3. CASE find_sub
  <2>1. CASE flag[main.i] = 0
    <3>1. sub' = main.i /\ main' = [main EXCEPT !.pc = IF main.i < Fit THEN "enter" ELSE "undefined"]
      BY <1>3, <2>1 DEF find_sub
    <3>2. main' \in MainType
      BY <3>1 DEF TypeOK, MainType, MainPcs
    <3>3. main.i \in Entries /\ main.pc = "find"
      BY <1>3 DEF find_sub
    <3>4. TypeOK'
      BY <1>3, <3>1, <3>2, <3>3 DEF find_sub, TypeOK, MainType, connectVars, ConnectTypeOK
    <3>5. Entering'
      BY <1>3, <2>1, <3>1, <3>3 DEF find_sub, Entering, TypeOK
    <3>6. Living' = Living /\ Taken' = Taken /\ Starting' = Starting
      BY <1>3, <3>1, <3>3 DEF find_sub, TypeOK, Living, Live, Taken, Starting
    <3> QED BY <3>4, <3>5, <3>6, FitSame
  <2>2. CASE flag[main.i] # 0
    <3>1. sub' = sub /\ main' = [main EXCEPT !.i = @ + 1]
      BY <1>3, <2>2 DEF find_sub
    <3>2. main.i \in 0 .. MaxClient - 1 /\ main.pc = "find"
      BY <1>3 DEF find_sub, Entries
    <3>3. main.i + 1 \in 0 .. MaxClient
      BY <3>2
    <3>4. main' \in MainType
      BY <3>1, <3>3 DEF TypeOK, MainType
    <3>5. TypeOK'
      BY <1>3, <3>1, <3>4 DEF find_sub, TypeOK, MainType, connectVars, ConnectTypeOK
    <3>6. Entering'
      BY <3>1, <3>2 DEF Entering, TypeOK
    <3>7. Living' = Living /\ Taken' = Taken /\ Starting' = Starting
      BY <1>3, <3>1, <3>2 DEF find_sub, TypeOK, Living, Live, Taken, Starting
    <3> QED BY <3>5, <3>6, <3>7, FitSame
  <2> QED BY <2>1, <2>2
<1>4. CASE Full
  <2>1. main' = Accepting /\ sub' = -1 /\ close(main.fd) /\ main.pc = "find"
    BY <1>4 DEF Full
  <2>2. main' \in MainType
    BY <2>1 DEF Accepting, MainType, MainPcs
  <2>3. TypeOK'
    BY <1>4, <2>1, <2>2, CloseTypes DEF Full, TypeOK, MainType, ConnectTypeOK
  <2>4. Entering'
    BY <2>1 DEF Entering, Accepting
  <2>5. Living' = Living /\ Taken' = Taken /\ Starting' = Starting
    BY <1>4, <2>1 DEF Full, Accepting, Living, Live, Taken, Starting
  <2> QED BY <2>3, <2>4, <2>5, FitSame
<1>5. CASE Enter
  <2>1. /\ main.pc = "enter" /\ sub \in Entries /\ flag[sub] = 0
        /\ main' = [main EXCEPT !.pc = "create"] /\ flag' = [flag EXCEPT ![sub] = 1]
    BY <1>5 DEF Enter, Entering
  <2>2. main' \in MainType
    BY <2>1 DEF TypeOK, MainType, MainPcs
  <2>3. TypeOK'
    BY <1>5, <2>1, <2>2 DEF Enter, TypeOK, MainType, connectVars, ConnectTypeOK
  <2>4. Entering'
    BY <2>1 DEF Entering, TypeOK
  <2>5. sub \notin Taken /\ Taken' = Taken \cup {sub}
    BY <2>1 DEF Taken, TypeOK
  <2>6. Living' = Living /\ Starting = 0 /\ Starting' = 1
    BY <1>5, <2>1 DEF Enter, TypeOK, Living, Live, Starting
  <2>7. ThreadsFit'
    BY <2>1, <2>5, <2>6, FitEnter
  <2> QED BY <2>3, <2>4, <2>7
<1>6. CASE pthread_create
  <2>1. /\ main.pc = "create" /\ main.next \in Threads /\ main' = Accepting
        /\ thread' = [thread EXCEPT ![main.next] = [pc |-> "start", fd |-> 0, at |-> -1]]
    BY <1>6 DEF pthread_create, Entering
  <2>2. main' \in MainType /\ [pc |-> "start", fd |-> 0, at |-> -1] \in ThreadType
    BY <2>1 DEF Accepting, MainType, MainPcs, ThreadType, ThreadPcs
  <2>3. TypeOK'
    <3>1. UNCHANGED connectVars /\ UNCHANGED <<fdt, flag, cfd, sub, intact>>
      BY <1>6 DEF pthread_create
    <3>2. thread' \in [Threads -> ThreadType]
      BY <2>1, <2>2 DEF TypeOK, ThreadType
    <3> QED BY <2>2, <3>1, <3>2 DEF TypeOK, MainType, ThreadType, connectVars, ConnectTypeOK
  <2>4. Entering'
    BY <2>1 DEF Entering, Accepting
  <2>5. Living' = Living \cup {main.next}
    BY <2>1 DEF Living, Live, TypeOK
  <2>6. Taken' = Taken /\ Starting = 1 /\ Starting' = 0
    BY <1>6, <2>1 DEF pthread_create, Accepting, Taken, Starting
  <2>7. ThreadsFit'
    BY <2>1, <2>5, <2>6, FitCreate
  <2> QED BY <2>3, <2>4, <2>7
<1> QED BY <1>1, <1>2, <1>3, <1>4, <1>5, <1>6 DEF Main

LEMMA WorkStep ==
  ASSUME OldInv, NEW t \in Threads, work(t)
  PROVE  OldInv'
<1> USE OldServerAssumption DEF OldInv
<1>1. CASE Start(t)
  <2> DEFINE n == IF sub = -1 THEN 0 ELSE cfd[sub]
             r == [thread[t] EXCEPT !.pc = "greet", !.fd = n]
  <2>1. n \in 0 .. MaxFd
    BY DEF TypeOK
  <2>2. r \in ThreadType /\ thread' = [thread EXCEPT ![t] = r] /\ r.pc = "greet"
    <3>1. thread[t] \in ThreadType
      BY DEF TypeOK, ThreadType
    <3>2. thread' = [thread EXCEPT ![t].pc = "greet", ![t].fd = n]
      BY <1>1 DEF Start
    <3> HIDE DEF n
    <3> QED BY <2>1, <3>1, <3>2 DEF TypeOK, ThreadType, ThreadPcs
  <2>3. Live(t) /\ UNCHANGED <<flag, main, sub>> /\ intact' \in BOOLEAN
    BY <1>1 DEF Start, Live, TypeOK
  <2> HIDE DEF r
  <2>4. thread' \in [Threads -> ThreadType] /\ Entering' /\ ThreadsFit'
    BY <2>2, <2>3, ThreadGoesOn
  <2>5. TypeOK'
    BY <1>1, <2>3, <2>4 DEF Start, TypeOK, ThreadType, connectVars, ConnectTypeOK
  <2> QED BY <2>4, <2>5
<1>2. CASE Greet(t) \/ Echo(t)
  <2>1. Live(t) /\ send(t, "recv")
    BY <1>2 DEF Greet, Echo, Live
  <2>2. UNCHANGED <<backlog, conn, peer, said, unread, fdt, flag, cfd, sub, main, intact>>
    BY <1>2 DEF Greet, Echo
  <2>3. \/ \E p \in {"recv", "close"} : thread' = [thread EXCEPT ![t].pc = p]
        \/ thread' = thread
    BY <2>1 DEF send
  <2>4. alive' \in BOOLEAN /\ rst' \in [Conns -> {"none", "due", "come"}]
    BY <2>1 DEF send, TypeOK, ConnectTypeOK
  <2>5. thread' \in [Threads -> ThreadType] /\ Entering' /\ ThreadsFit'
    <3>1. ASSUME NEW p \in {"recv", "close"}, thread' = [thread EXCEPT ![t].pc = p]
          PROVE  thread' \in [Threads -> ThreadType] /\ Entering' /\ ThreadsFit'
      <4> DEFINE r == [thread[t] EXCEPT !.pc = p]
      <4>1. r \in ThreadType /\ thread' = [thread EXCEPT ![t] = r] /\ r.pc = p
        BY <3>1 DEF TypeOK, ThreadType, ThreadPcs
      <4> HIDE DEF r
      <4> QED BY <2>1, <2>2, <4>1, ThreadGoesOn
    <3>2. ASSUME thread' = thread
          PROVE  thread' \in [Threads -> ThreadType] /\ Entering' /\ ThreadsFit'
      BY <2>2, <3>2, FitSame DEF TypeOK, ThreadType, Entering, Living, Live, Taken, Starting
    <3> QED BY <2>3, <3>1, <3>2
  <2>6. TypeOK'
    BY <2>2, <2>4, <2>5 DEF TypeOK, ThreadType, ConnectTypeOK
  <2> QED BY <2>5, <2>6
<1>3. CASE Recv(t)
  <2>1. PICK p \in {"echo", "close"} : thread' = [thread EXCEPT ![t].pc = p]
    BY <1>3 DEF Recv
  <2> DEFINE r == [thread[t] EXCEPT !.pc = p]
  <2>2. r \in ThreadType /\ thread' = [thread EXCEPT ![t] = r] /\ r.pc = p
    BY <2>1 DEF TypeOK, ThreadType, ThreadPcs
  <2>3. Live(t) /\ UNCHANGED <<alive, backlog, conn, peer, said, rst, fdt, flag, cfd, sub, main, intact>>
    BY <1>3 DEF Recv, Live
  <2> HIDE DEF r
  <2>4. thread' \in [Threads -> ThreadType] /\ Entering' /\ ThreadsFit'
    BY <2>2, <2>3, ThreadGoesOn
  <2>5. unread' \in [Conns -> Nat]
    <3>1. unread \in [Conns -> Nat] /\ 0 \in Nat
      BY DEF TypeOK, ConnectTypeOK
    <3>2. unread' = unread \/ \E c \in Conns : unread' = [unread EXCEPT ![c] = 0]
      BY <1>3 DEF Recv
    <3> QED BY <3>1, <3>2
  <2>6. TypeOK'
    BY <2>3, <2>4, <2>5 DEF TypeOK, ThreadType, ConnectTypeOK
  <2> QED BY <2>4, <2>6
<1>4. CASE Close(t)
  <2> DEFINE r == [thread[t] EXCEPT !.pc = "sub"]
  <2>1. r \in ThreadType /\ thread' = [thread EXCEPT ![t] = r] /\ r.pc = "sub"
    BY <1>4 DEF Close, TypeOK, ThreadType, ThreadPcs
  <2>2. /\ Live(t) /\ close(thread[t].fd)
        /\ UNCHANGED <<alive, backlog, conn, said, unread, rst, flag, cfd, sub, main, intact>>
    BY <1>4 DEF Close, Live
  <2> HIDE DEF r
  <2>3. thread' \in [Threads -> ThreadType] /\ Entering' /\ ThreadsFit'
    BY <2>1, <2>2, ThreadGoesOn
  <2>4. fdt' \in [Fds -> Conns \cup {None}] /\ peer' \in [Conns -> PeerStates]
    BY <2>2, CloseTypes
  <2>5. TypeOK'
    BY <2>2, <2>3, <2>4 DEF TypeOK, ThreadType, ConnectTypeOK
  <2> QED BY <2>3, <2>5
<1>5. CASE ReadSub(t)
  <2> DEFINE r == [thread[t] EXCEPT !.pc = "flag", !.at = sub]
  <2>1. r \in ThreadType /\ thread' = [thread EXCEPT ![t] = r] /\ r.pc = "flag"
    <3>1. thread[t] \in ThreadType /\ sub \in Entries \cup {-1}
      BY DEF TypeOK, ThreadType
    <3> QED BY <1>5, <3>1 DEF ReadSub, TypeOK, ThreadType, ThreadPcs
  <2>2. Live(t) /\ UNCHANGED <<connectVars, fdt, flag, cfd, sub, main, intact>>
    BY <1>5 DEF ReadSub, Live
  <2> HIDE DEF r
  <2>3. thread' \in [Threads -> ThreadType] /\ Entering' /\ ThreadsFit'
    BY <2>1, <2>2, ThreadGoesOn
  <2>4. TypeOK'
    BY <2>2, <2>3 DEF TypeOK, ThreadType, connectVars, ConnectTypeOK
  <2> QED BY <2>3, <2>4
<1>6. CASE ClearFlag(t)
  <2> DEFINE i == thread[t].at
  <2>1. /\ flag' = [j \in Entries |-> IF j = i THEN 0 ELSE flag[j]]
        /\ thread' = [thread EXCEPT ![t] = [NoThread EXCEPT !.pc = "ended"]]
        /\ thread[t].pc = "flag"
        /\ UNCHANGED <<connectVars, fdt, cfd, sub, main, intact>>
    BY <1>6 DEF ClearFlag
  <2>2. [NoThread EXCEPT !.pc = "ended"] = [pc |-> "ended", fd |-> 0, at |-> -1]
    BY DEF NoThread
  <2>3. TypeOK'
    <3>1. flag' \in [Entries -> {0, 1}]
      BY <2>1 DEF TypeOK
    <3>2. thread' \in [Threads -> [pc : ThreadPcs, fd : 0 .. MaxFd, at : Entries \cup {-1}]]
      BY <2>1, <2>2 DEF TypeOK, ThreadPcs
    <3> QED BY <2>1, <3>1, <3>2 DEF TypeOK, connectVars, ConnectTypeOK
  <2>4. Entering'
    BY <2>1 DEF Entering, TypeOK
  <2>5. t \in Living /\ Living' = Living \ {t}
    BY <2>1, <2>2 DEF Living, Live, TypeOK
  <2>6. Taken' = Taken \ {i}
    BY <2>1 DEF Taken, TypeOK
  <2>7. Starting' = Starting /\ Starting \in {0, 1}
    BY <2>1 DEF Starting
  <2> HIDE DEF i
  <2>8. ThreadsFit'
    BY <2>5, <2>6, <2>7, FitEnd
  <2> QED BY <2>3, <2>4, <2>8
<1> QED BY <1>1, <1>2, <1>3, <1>4, <1>5, <1>6 DEF work

LEMMA StepOld ==
  ASSUME OldInv, [Next]_vars
  PROVE  OldInv'
<1>1. ASSUME UNCHANGED vars PROVE OldInv'
  <2>1. TypeOK'
    BY <1>1 DEF OldInv, vars, connectVars, serverVars, TypeOK, ConnectTypeOK
  <2>2. Entering' /\ ThreadsFit'
    BY <1>1, FitSame DEF OldInv, vars, serverVars, Entering, Living, Live, Taken, Starting
  <2> QED BY <2>1, <2>2 DEF OldInv
<1> QED BY <1>1, MainStep, WorkStep, OutsideStep DEF Next

(* Every variable of the server and of its clients keeps its type.         *)
THEOREM OldTypeCorrect == Spec => []TypeOK
<1>1. OldInv => TypeOK
  BY DEF OldInv
<1> QED BY <1>1, InitOld, StepOld, PTL DEF Spec

(* There is a taken entry for every thread, whoever's it gives up at its   *)
(* end, so the table bounds how many clients are served (old_server.c:62,  *)
(* 88-96).                                                                 *)
THEOREM TableBoundsThreads == Spec => []ThreadsFit
<1>1. OldInv => ThreadsFit
  BY DEF OldInv
<1> QED BY <1>1, InitOld, StepOld, PTL DEF Spec
-----------------------------------------------------------------------------
(* What a client is told of its connection.  Only a socket whose network   *)
(* may be out of reach is writable without a connection or an error.       *)

Reached == \A c \in Conns \ Unreached : peer[c] # "unreachable"

TruthInv == Reached /\ ConnectTruth

(* What a step may do to one client: nothing that takes it to "connected"  *)
(* without a connection, and nothing that takes a connection back.         *)
Truthful(c) ==
  /\ peer'[c] = "unreachable" => peer[c] = "unreachable" \/ c \in Unreached
  /\ conn'[c] = "connected" /\ conn[c] # "connected" =>
       peer'[c] = "open" \/ peer'[c] = "unreachable"
  /\ conn[c] = "connected" /\ peer[c] \in {"open", "reset", "closed"} =>
       peer'[c] \in {"open", "reset", "closed"}

LEMMA TruthKept ==
  ASSUME TruthInv, \A c \in Conns : Truthful(c)
  PROVE  TruthInv'
<1>1. Reached'
  BY DEF TruthInv, Reached, Truthful
<1>2. ConnectTruth'
  <2> SUFFICES ASSUME NEW c \in Conns \ Unreached, conn'[c] = "connected"
               PROVE  peer'[c] \in {"open", "reset", "closed"}
    BY DEF ConnectTruth
  <2>1. CASE conn[c] = "connected"
    BY <2>1 DEF TruthInv, ConnectTruth, Truthful
  <2>2. CASE conn[c] # "connected"
    BY <2>2, <1>1 DEF Reached, Truthful
  <2> QED BY <2>1, <2>2
<1> QED BY <1>1, <1>2 DEF TruthInv

LEMMA TruthSame ==
  ASSUME UNCHANGED <<conn, peer>>, NEW c \in Conns
  PROVE  Truthful(c)
BY DEF Truthful

(* The server's part: it may only reset what is open.                      *)
LEMMA TruthClose ==
  ASSUME TypeOK, NEW n, close(n), UNCHANGED conn, NEW c \in Conns
  PROVE  Truthful(c)
<1>1. peer'[c] = IF c = ConnOf(n) /\ peer[c] = "open" THEN "reset" ELSE peer[c]
  BY DEF close
<1> QED BY <1>1 DEF Truthful

LEMMA TruthServer ==
  ASSUME TypeOK, Main \/ AcceptFails \/ (\E t \in Threads : work(t)), NEW c \in Conns
  PROVE  Truthful(c)
<1>1. CASE accept \/ AcceptFails \/ find_sub \/ Enter \/ pthread_create
  BY <1>1, TruthSame DEF accept, AcceptFails, find_sub, Enter, pthread_create, connectVars
<1>2. CASE Full
  BY <1>2, TruthClose DEF Full
<1>3. ASSUME NEW t \in Threads, work(t) PROVE Truthful(c)
  <2>1. CASE Close(t)
    BY <2>1, TruthClose DEF Close
  <2>2. CASE Start(t) \/ Greet(t) \/ Recv(t) \/ Echo(t) \/ ReadSub(t) \/ ClearFlag(t)
    BY <2>2, TruthSame DEF Start, Greet, Recv, Echo, ReadSub, ClearFlag, connectVars
  <2> QED BY <1>3, <2>1, <2>2 DEF work
<1> QED BY <1>1, <1>2, <1>3 DEF Main

(* The part of the clients and of the kernels, in client d.                *)
LEMMA TruthOutside ==
  ASSUME TypeOK, NEW d \in Conns, Client(d) \/ Kernel(d), NEW c \in Conns
  PROVE  Truthful(c)
<1>1. conn \in [Conns -> ConnPcs] /\ peer \in [Conns -> PeerStates]
  BY DEF TypeOK, ConnectTypeOK
<1>2. CASE socket_connect_timeout(d)
  BY <1>1, <1>2 DEF socket_connect_timeout, Truthful
<1>3. CASE Writable(d)
  BY <1>1, <1>3 DEF Writable, Truthful
<1>4. CASE TimesOut(d)
  BY <1>1, <1>4 DEF TimesOut, Truthful
<1>5. CASE GiveUp(d) \/ SelectFails(d)
  BY <1>1, <1>5 DEF GiveUp, SelectFails, Truthful
<1>6. CASE Leave(d)
  BY <1>1, <1>6 DEF Leave, Truthful
<1>7. CASE Establish(d)
  BY <1>1, <1>7 DEF Establish, Truthful
<1>8. CASE Refuse(d)
  BY <1>1, <1>8 DEF Refuse, Truthful
<1>9. CASE Say(d) \/ Reset(d)
  BY <1>9, TruthSame DEF Say, Reset
<1> QED BY <1>2, <1>3, <1>4, <1>5, <1>6, <1>7, <1>8, <1>9 DEF Client, Kernel

LEMMA StepTruth ==
  ASSUME TypeOK, TruthInv, [Next]_vars
  PROVE  TruthInv'
<1>1. CASE UNCHANGED vars
  BY <1>1, TruthSame, TruthKept DEF vars, connectVars
<1>2. CASE Running /\ (Main \/ AcceptFails \/ \E t \in Threads : work(t))
  BY <1>2, TruthServer, TruthKept
<1>3. ASSUME NEW d \in Conns, Client(d) \/ Kernel(d) PROVE TruthInv'
  BY <1>3, TruthOutside, TruthKept
<1> QED BY <1>1, <1>2, <1>3 DEF Next

(* A client that was told it is connected had been connected, although the *)
(* time may be up or the server gone when select() is asked, unless its    *)
(* network was out of reach (tcp_client.c:40-76).                          *)
THEOREM ConnectedIsTrue == Spec => []ConnectTruth
<1>1. Init => TruthInv
  BY DEF Init, ConnectInit, TruthInv, Reached, ConnectTruth
<1>2. TruthInv => ConnectTruth
  BY DEF TruthInv
<1> QED BY <1>1, <1>2, StepTruth, OldTypeCorrect, PTL DEF Spec
=============================================================================
