------------------------ MODULE TransferServerProofs ------------------------
(***************************************************************************)
(* Proofs about the simple file transfer, for any number of clients,       *)
(* descriptors and files: as long as each thread has found its own         *)
(* descriptor, no descriptor is used after it was closed or by two         *)
(* threads, and none is left open after a transfer that was not given up;  *)
(* and what a client has sent is what came with the name, the beginning of *)
(* its file, and what is still to come.                                    *)
(***************************************************************************)
EXTENDS TransferServer, FiniteSetTheorems, SequenceTheorems, TLAPS

ThreadType == [pc : Pcs, fd : 0 .. MaxFd, filename : Names \cup {None},
               fp : 0 .. MaxFd, at : Nat]

(* The part of the types that descriptors depend on.                       *)
DescriptorTypes ==
  /\ backlog \in Seq(Conns)
  /\ fdt \in [Fds -> Conns \cup Names \cup {None}]
  /\ sockfd \in 0 .. MaxFd
  /\ main \in Conns \cup {None}
  /\ peer \in [Conns -> {"none", "open", "closed"}]
  /\ name \in [Conns -> Names \cup {None}]
  /\ thread \in [Conns -> ThreadType]
  /\ intact \in BOOLEAN

(* A connection is accepted once: it has no thread and no descriptor while *)
(* it is in the backlog, and is there once.                                *)
Fresh ==
  /\ main # None => thread[main].pc = "none" /\ peer[main] # "none"
  /\ \A i \in DOMAIN backlog :
       /\ thread[backlog[i]].pc = "none"
       /\ peer[backlog[i]] # "none"
       /\ backlog[i] # main
       /\ \A n \in Fds : fdt[n] # backlog[i]
       /\ \A j \in DOMAIN backlog : backlog[i] = backlog[j] => i = j
  /\ \A c \in Conns : peer[c] = "none" =>
       thread[c].pc = "none" /\ \A n \in Fds : fdt[n] # c

(* A connection has one descriptor at most.                                *)
Single ==
  \A m, n \in Fds : fdt[m] \in Conns /\ fdt[m] = fdt[n] => m = n

HasFile(c) == thread[c].pc \in {"copy", "failed"} /\ thread[c].fp # 0

(* The files that threads have open or left open are each its own.         *)
FilesExact ==
  /\ \A c \in Conns : thread[c].pc \in {"none", "start", "name", "open"} => thread[c].fp = 0
  /\ \A c \in Conns : thread[c].pc = "copy" => thread[c].fp # 0
  /\ \A c \in Conns : HasFile(c) => fdt[thread[c].fp] = thread[c].filename /\ thread[c].filename \in Names
  /\ \A c, d \in Conns : HasFile(c) /\ HasFile(d) /\ thread[c].fp = thread[d].fp => c = d

(* What DescriptorsExact says as long as intact holds, in two parts.       *)
Owned(n) ==
  /\ fdt[n] \in Conns =>
       \/ fdt[n] = main
       \/ thread[fdt[n]].pc = "start"
       \/ thread[fdt[n]].pc \in Live \cup {"failed"} /\ thread[fdt[n]].fd = n
  /\ fdt[n] \in Names => \E c \in Conns : HasFile(c) /\ thread[c].fp = n

Holds(c) ==
  thread[c].pc \in {"name", "open", "copy"} => thread[c].fd # 0 /\ fdt[thread[c].fd] = c

Exact == (\A n \in Fds : Owned(n)) /\ (\A c \in Conns : Holds(c)) /\ FilesExact

TransferInv == DescriptorTypes /\ Fresh /\ Single /\ (intact => Exact)

LEMMA ExactImplies == TransferInv => DescriptorsExact
<1> SUFFICES ASSUME TransferInv, intact PROVE DescriptorsExact
  BY DEF DescriptorsExact
<1> USE DEF TransferInv, Exact
<1>1. \A n \in Fds : fdt[n] \in Conns =>
        \/ fdt[n] = main
        \/ thread[fdt[n]].pc = "start"
        \/ thread[fdt[n]].pc \in Live \cup {"failed"} /\ thread[fdt[n]].fd = n
  BY DEF Owned
<1>2. \A n \in Fds : fdt[n] \in Names =>
        \E c \in Conns : thread[c].pc \in {"copy", "failed"} /\ thread[c].fp = n
  BY DEF Owned, HasFile
<1>3. \A c \in Conns : thread[c].pc \in {"name", "open", "copy"} => Socket(c) = c
  BY DEF Holds, Socket
<1>4. \A c \in Conns : thread[c].pc = "copy" => fdt[thread[c].fp] = thread[c].filename
  BY DEF FilesExact, HasFile
<1> QED BY <1>1, <1>2, <1>3, <1>4 DEF DescriptorsExact

LEMMA InitTransfer == Init => TransferInv
BY TransferAssumption DEF Init, TransferInv, DescriptorTypes, Fresh, Single, Exact, Owned, Holds,
   FilesExact, HasFile, ThreadType, Pcs, Live, Fds

(* A client's step changes no descriptor and no thread.                    *)
LEMMA ClientStep ==
  ASSUME TransferInv, NEW c \in Conns, Client(c)
  PROVE  TransferInv'
<1> USE TransferAssumption DEF TransferInv
<1>1. UNCHANGED <<fdt, sockfd, main, thread, intact>>
  BY DEF Client, Connect, Send, Leave, mainVars, fileVars
<1>2. Single' /\ (intact' => Exact')
  BY <1>1 DEF Single, Exact, Owned, Holds, FilesExact, HasFile
<1>3. CASE Connect(c)
  <2>1. /\ peer[c] = "none" /\ peer' = [peer EXCEPT ![c] = "open"]
        /\ backlog' = Append(backlog, c)
    BY <1>3 DEF Connect
  <2>2. name' \in [Conns -> Names \cup {None}]
    <3>1. PICK f \in Told[c] : name' = [name EXCEPT ![c] = f]
      BY <1>3 DEF Connect
    <3>2. f \in Names \cup {None}
      BY <3>1
    <3> QED BY <3>1, <3>2 DEF DescriptorTypes
  <2>3. backlog \in Seq(Conns)
    BY DEF DescriptorTypes
  <2>4. /\ Append(backlog, c) \in Seq(Conns)
        /\ \A i \in DOMAIN Append(backlog, c) :
             \/ i \in DOMAIN backlog /\ Append(backlog, c)[i] = backlog[i]
             \/ i = Len(backlog) + 1 /\ Append(backlog, c)[i] = c
    BY <2>3
  <2>5. DescriptorTypes'
    BY <1>1, <2>1, <2>2, <2>4 DEF DescriptorTypes
  <2>6. \A i \in DOMAIN backlog : backlog[i] # c
    BY <2>1 DEF Fresh
  <2>7. thread[c].pc = "none" /\ (\A n \in Fds : fdt[n] # c) /\ main # c
    BY <2>1 DEF Fresh
  <2>8. \A d \in Conns : peer'[d] # "none" <=> peer[d] # "none" \/ d = c
    BY <2>1 DEF DescriptorTypes
  <2>9. Fresh'
    <3>1. main' # None => thread'[main'].pc = "none" /\ peer'[main'] # "none"
      BY <1>1, <2>8 DEF Fresh, DescriptorTypes
    <3>2. \A d \in Conns : peer'[d] = "none" =>
            thread'[d].pc = "none" /\ \A n \in Fds : fdt'[n] # d
      BY <1>1, <2>8 DEF Fresh
    <3>3. \A i \in DOMAIN backlog' :
            /\ thread'[backlog'[i]].pc = "none"
            /\ peer'[backlog'[i]] # "none"
            /\ backlog'[i] # main'
            /\ \A n \in Fds : fdt'[n] # backlog'[i]
      <4> TAKE i \in DOMAIN backlog'
      <4>1. CASE i \in DOMAIN backlog /\ backlog'[i] = backlog[i]
        <5>1. backlog[i] \in Conns
          BY <2>3, <4>1
        <5> QED BY <1>1, <2>8, <4>1, <5>1 DEF Fresh
      <4>2. CASE backlog'[i] = c
        BY <1>1, <2>7, <2>8, <4>2
      <4> QED BY <2>1, <2>4, <4>1, <4>2
    <3>4. \A i, j \in DOMAIN backlog' : backlog'[i] = backlog'[j] => i = j
      BY <2>1, <2>4, <2>6 DEF Fresh
    <3> QED BY <3>1, <3>2, <3>3, <3>4 DEF Fresh
  <2> QED BY <1>2, <2>5, <2>9
<1>4. CASE Send(c) \/ Leave(c)
  <2>1. /\ backlog' = backlog /\ name' = name
        /\ \/ peer' = peer
           \/ peer' = [peer EXCEPT ![c] = "closed"] /\ peer[c] = "open"
    BY <1>4 DEF Send, Leave, mainVars
  <2>2. \A d \in Conns : peer'[d] = "none" <=> peer[d] = "none"
    BY <2>1 DEF DescriptorTypes
  <2>3. DescriptorTypes'
    BY <1>1, <2>1 DEF DescriptorTypes
  <2>4. \A i \in DOMAIN backlog : backlog[i] \in Conns
    BY DEF DescriptorTypes
  <2>5. Fresh'
    BY <1>1, <2>1, <2>2, <2>4 DEF Fresh, DescriptorTypes
  <2> QED BY <1>2, <2>3, <2>5
<1> QED BY <1>3, <1>4 DEF Client

(* main takes a connection, which gets the lowest descriptor that is free, *)
(* or finds none, or starts a thread.                                      *)
LEMMA MainStep ==
  ASSUME TransferInv, Main
  PROVE  TransferInv'
<1> USE TransferAssumption DEF TransferInv
<1>1. CASE accept
  <2> DEFINE c == Head(backlog)
  <2>1. PICK n \in Fds : fdt[n] = None /\ fdt' = [fdt EXCEPT ![n] = c] /\ sockfd' = n
    BY <1>1 DEF accept, Opens
  <2>2. /\ main = None /\ main' = c /\ backlog' = Tail(backlog) /\ backlog # <<>>
        /\ UNCHANGED <<peer, name, thread, intact>>
    BY <1>1 DEF accept, clientVars
  <2>3. backlog \in Seq(Conns)
    BY DEF DescriptorTypes
  <2>4. /\ c \in Conns /\ Tail(backlog) \in Seq(Conns)
        /\ 1 \in DOMAIN backlog /\ c = backlog[1]
        /\ \A i \in DOMAIN Tail(backlog) :
             i \in Nat /\ i >= 1 /\ i + 1 \in DOMAIN backlog /\ Tail(backlog)[i] = backlog[i + 1]
    BY <2>2, <2>3
  <2>5. thread[c].pc = "none" /\ peer[c] # "none" /\ \A m \in Fds : fdt[m] # c
    BY <2>4 DEF Fresh
  <2>6. \A i \in DOMAIN Tail(backlog) : Tail(backlog)[i] # c
    <3> TAKE i \in DOMAIN Tail(backlog)
    <3>1. backlog[i + 1] = backlog[1] => i + 1 = 1
      BY <2>4 DEF Fresh
    <3> QED BY <2>4, <3>1
  <2> HIDE DEF c
  <2>7. \A m \in Fds : fdt'[m] = IF m = n THEN c ELSE fdt[m]
    BY <2>1 DEF DescriptorTypes
  <2>8. DescriptorTypes'
    <3>1. fdt' \in [Fds -> Conns \cup Names \cup {None}]
      BY <2>1, <2>4 DEF DescriptorTypes
    <3>2. sockfd' \in 0 .. MaxFd
      BY <2>1 DEF Fds
    <3> QED BY <2>2, <2>4, <3>1, <3>2 DEF DescriptorTypes
  <2>9. Fresh'
    <3>1. \A i \in DOMAIN backlog' :
            /\ thread'[backlog'[i]].pc = "none"
            /\ peer'[backlog'[i]] # "none"
            /\ backlog'[i] # main'
            /\ \A m \in Fds : fdt'[m] # backlog'[i]
      <4> TAKE i \in DOMAIN backlog'
      <4> DEFINE b == Tail(backlog)[i]
      <4>1. backlog'[i] = b /\ i \in DOMAIN Tail(backlog)
        BY <2>2
      <4>2. b = backlog[i + 1] /\ i + 1 \in DOMAIN backlog
        BY <2>4, <4>1
      <4>3. b # c
        BY <2>6, <4>1
      <4> HIDE DEF b
      <4>4. thread[b].pc = "none" /\ peer[b] # "none" /\ \A m \in Fds : fdt[m] # b
        BY <4>2 DEF Fresh
      <4> QED BY <2>2, <2>7, <4>1, <4>3, <4>4
    <3>2. \A i, j \in DOMAIN backlog' : backlog'[i] = backlog'[j] => i = j
      <4> TAKE i, j \in DOMAIN backlog'
      <4>1. backlog[i + 1] = backlog[j + 1] => i + 1 = j + 1
        BY <2>2, <2>4 DEF Fresh
      <4> QED BY <2>2, <2>4, <4>1
    <3>3. \A d \in Conns : peer'[d] = "none" =>
            thread'[d].pc = "none" /\ \A m \in Fds : fdt'[m] # d
      BY <2>2, <2>5, <2>7 DEF Fresh
    <3> QED BY <2>2, <2>5, <3>1, <3>2, <3>3 DEF Fresh
  <2>10. Single'
    BY <2>5, <2>7 DEF Single
  <2>11. ASSUME intact PROVE Exact'
    <3> USE <2>11 DEF Exact
    <3>1. \A m \in Fds : Owned(m)'
      <4> TAKE m \in Fds
      <4>1. CASE m = n
        <5>1. fdt'[m] = main' /\ fdt'[m] \notin Names
          BY <2>2, <2>4, <2>7, <4>1
        <5> QED BY <5>1 DEF Owned
      <4>2. CASE m # n
        <5>1. fdt'[m] = fdt[m] /\ thread' = thread
          BY <2>2, <2>7, <4>2
        <5>2. fdt[m] \in Conns => fdt[m] # main
          BY <2>2
        <5> QED BY <5>1, <5>2 DEF Owned, HasFile
      <4> QED BY <4>1, <4>2
    <3>2. \A d \in Conns : Holds(d)'
      <4> TAKE d \in Conns
      <4>1. Holds(d)
        OBVIOUS
      <4>2. thread[d].fd # 0 /\ fdt[thread[d].fd] = d => thread[d].fd \in Fds /\ thread[d].fd # n
        BY <2>1 DEF DescriptorTypes, ThreadType, Fds
      <4> QED BY <2>2, <2>7, <4>1, <4>2 DEF Holds
    <3>3. FilesExact'
      <4>1. \A d \in Conns : HasFile(d) => thread[d].fp \in Fds /\ thread[d].fp # n
        BY <2>1 DEF FilesExact, HasFile, DescriptorTypes, ThreadType, Fds
      <4> QED BY <2>2, <2>7, <4>1 DEF FilesExact, HasFile
    <3> QED BY <3>1, <3>2, <3>3
  <2> QED BY <2>2, <2>8, <2>9, <2>10, <2>11
<1>2. CASE AcceptFails
  <2>1. sockfd' = 0 /\ UNCHANGED <<backlog, fdt, main, peer, name, thread, intact>>
    BY <1>2 DEF AcceptFails, clientVars
  <2>2. DescriptorTypes'
    BY <2>1 DEF DescriptorTypes
  <2> QED BY <2>1, <2>2 DEF Fresh, Single, Exact, Owned, Holds, FilesExact, HasFile
<1>3. CASE pthread_create
  <2>1. /\ main \in Conns /\ main # None /\ main' = None
        /\ thread' = [thread EXCEPT ![main].pc = "start"]
        /\ UNCHANGED <<backlog, fdt, sockfd, peer, name, intact>>
    BY <1>3 DEF pthread_create, DescriptorTypes, clientVars
  <2>2. \A d \in Conns : /\ d # main => thread'[d] = thread[d]
                         /\ thread'[main].pc = "start" /\ thread'[main].fp = thread[main].fp
    BY <2>1 DEF DescriptorTypes, ThreadType
  <2>3. thread[main].pc = "none" /\ peer[main] # "none"
    BY <2>1 DEF Fresh
  <2>4. DescriptorTypes'
    <3>1. thread[main] \in ThreadType /\ "start" \in Pcs
      BY <2>1 DEF DescriptorTypes, Pcs, Live
    <3>2. [thread[main] EXCEPT !.pc = "start"] \in ThreadType
      BY <3>1 DEF ThreadType
    <3>3. thread' \in [Conns -> ThreadType]
      BY <2>1, <3>2 DEF DescriptorTypes
    <3> QED BY <2>1, <3>3 DEF DescriptorTypes
  <2>5. \A i \in DOMAIN backlog : backlog[i] \in Conns
    BY DEF DescriptorTypes
  <2>6. Fresh'
    BY <2>1, <2>2, <2>3, <2>5 DEF Fresh
  <2>7. Single'
    BY <2>1 DEF Single
  <2>8. ASSUME intact PROVE Exact'
    <3> USE <2>8 DEF Exact
    <3>0. \A d \in Conns : HasFile(d)' <=> HasFile(d)
      BY <2>2, <2>3 DEF HasFile
    <3>1. \A m \in Fds : Owned(m)'
      <4> TAKE m \in Fds
      <4>1. Owned(m)
        OBVIOUS
      <4>2. ASSUME fdt[m] \in Names PROVE \E d \in Conns : HasFile(d)' /\ thread'[d].fp = m
        BY <2>2, <3>0, <4>1, <4>2 DEF Owned, HasFile
      <4> QED BY <2>1, <2>2, <4>1, <4>2 DEF Owned
    <3>2. \A d \in Conns : Holds(d)'
      BY <2>1, <2>2 DEF Holds
    <3>3. FilesExact'
      BY <2>1, <2>2, <2>3, <3>0 DEF FilesExact, HasFile
    <3> QED BY <3>1, <3>2, <3>3
  <2> QED BY <2>1, <2>4, <2>6, <2>7, <2>8
<1> QED BY <1>1, <1>2, <1>3 DEF Main

(* A thread's step neither starts a thread nor gives a connection another  *)
(* descriptor.                                                             *)
LEMMA KeptApart ==
  ASSUME TransferInv,
         UNCHANGED <<backlog, main, peer>>,
         \A d \in Conns : thread'[d].pc = "none" <=> thread[d].pc = "none",
         \A n \in Fds : fdt'[n] \in Conns => fdt'[n] = fdt[n]
  PROVE  Fresh' /\ Single'
<1> USE DEF TransferInv
<1>1. \A i \in DOMAIN backlog : backlog[i] \in Conns
  BY DEF DescriptorTypes
<1>2. main # None => main \in Conns
  BY DEF DescriptorTypes
<1>3. Fresh'
  BY <1>1, <1>2 DEF Fresh
<1>4. Single'
  BY DEF Single
<1> QED BY <1>3, <1>4

LEMMA StartStep ==
  ASSUME TransferInv, NEW c \in Conns, Start(c)
  PROVE  TransferInv'
<1> USE TransferAssumption DEF TransferInv
<1>1. /\ thread[c].pc = "start"
      /\ thread' = [thread EXCEPT ![c].pc = "name", ![c].fd = sockfd]
      /\ intact' = (intact /\ sockfd # 0 /\ fdt[sockfd] = c)
      /\ UNCHANGED <<fdt, backlog, sockfd, main, peer, name>>
  BY DEF Start, mainVars, clientVars
<1>2. thread[c] \in ThreadType /\ sockfd \in 0 .. MaxFd /\ "name" \in Pcs
  BY DEF DescriptorTypes, Pcs, Live
<1>3. [thread[c] EXCEPT !.pc = "name", !.fd = sockfd] \in ThreadType
  BY <1>2 DEF ThreadType
<1>4. /\ \A d \in Conns \ {c} : thread'[d] = thread[d]
      /\ thread'[c] = [thread[c] EXCEPT !.pc = "name", !.fd = sockfd]
  BY <1>1 DEF DescriptorTypes
<1>5. thread' \in [Conns -> ThreadType]
  BY <1>1, <1>3 DEF DescriptorTypes
<1>6. thread'[c].pc = "name" /\ thread'[c].fd = sockfd /\ thread'[c].fp = thread[c].fp
  BY <1>2, <1>4 DEF ThreadType
<1>7. intact' \in BOOLEAN
  BY <1>1 DEF DescriptorTypes
<1>8. DescriptorTypes'
  BY <1>1, <1>5, <1>7 DEF DescriptorTypes
<1>9. Fresh' /\ Single'
  BY KeptApart, <1>1, <1>4, <1>6
<1>10. ASSUME intact' PROVE Exact'
  <2>0. intact /\ sockfd # 0 /\ fdt[sockfd] = c
    BY <1>1, <1>10
  <2>1. intact /\ sockfd # 0 /\ fdt[sockfd] = c /\ sockfd \in Fds
    BY <1>2, <2>0 DEF Fds
  <2> USE <2>1 DEF Exact
  <2>2. \A d \in Conns : HasFile(d)' <=> HasFile(d)
    BY <1>1, <1>4, <1>6 DEF HasFile
  <2>3. \A m \in Fds : Owned(m)'
    <3> TAKE m \in Fds
    <3>1. Owned(m)
      OBVIOUS
    <3>2. fdt[m] = c => m = sockfd
      BY <2>1 DEF Single
    <3>3. ASSUME fdt[m] \in Names PROVE \E d \in Conns : HasFile(d)' /\ thread'[d].fp = m
      <4>1. PICK d \in Conns : HasFile(d) /\ thread[d].fp = m
        BY <3>1, <3>3 DEF Owned
      <4>2. thread'[d].fp = m
        BY <1>4, <1>6, <4>1
      <4> QED BY <2>2, <4>1, <4>2
    <3>4. ASSUME fdt[m] = c
          PROVE  thread'[fdt[m]].pc \in Live \cup {"failed"} /\ thread'[fdt[m]].fd = m
      BY <1>6, <3>2, <3>4 DEF Live
    <3>5. ASSUME fdt[m] \in Conns, fdt[m] # c
          PROVE  thread'[fdt[m]] = thread[fdt[m]]
      BY <1>4, <3>5
    <3> HIDE DEF TransferInv
    <3> QED BY <1>1, <3>1, <3>3, <3>4, <3>5 DEF Owned
  <2>4. \A d \in Conns : Holds(d)'
    <3> TAKE d \in Conns
    <3>1. CASE d = c
      <4>1. thread'[d].fd = sockfd
        BY <1>6, <3>1
      <4>2. fdt' = fdt
        BY <1>1
      <4> QED BY <2>1, <3>1, <4>1, <4>2 DEF Holds
    <3>2. CASE d # c
      <4>1. Holds(d)
        BY <2>1
      <4>2. thread'[d] = thread[d] /\ fdt' = fdt
        BY <1>1, <1>4, <3>2
      <4> QED BY <4>1, <4>2 DEF Holds
    <3> QED BY <3>1, <3>2
  <2>5. FilesExact'
    <3>1. FilesExact
      BY <2>1
    <3>2. \A d \in Conns : thread'[d].fp = thread[d].fp
      BY <1>4, <1>6
    <3>3. \A d \in Conns : HasFile(d) => thread'[d] = thread[d]
      BY <1>1, <1>4 DEF HasFile
    <3>4. \A d \in Conns : thread'[d].pc \in {"none", "start", "name", "open"} => thread'[d].fp = 0
      <4>1. \A d \in Conns : thread'[d].pc \in {"none", "start", "name", "open"} =>
              thread[d].pc \in {"none", "start", "name", "open"}
        BY <1>1, <1>4
      <4> QED BY <3>1, <3>2, <4>1 DEF FilesExact
    <3>7. \A d \in Conns : thread'[d].pc = "copy" => thread'[d].fp # 0
      <4>1. \A d \in Conns : thread'[d].pc = "copy" => d # c /\ thread[d].pc = "copy"
        BY <1>4, <1>6
      <4> QED BY <3>1, <3>2, <4>1 DEF FilesExact
    <3>5. \A d \in Conns : HasFile(d)' => /\ fdt'[thread'[d].fp] = thread'[d].filename
                                          /\ thread'[d].filename \in Names
      BY <1>1, <2>2, <3>1, <3>3 DEF FilesExact
    <3>6. \A d, e \in Conns : HasFile(d)' /\ HasFile(e)' /\ thread'[d].fp = thread'[e].fp => d = e
      BY <2>2, <3>1, <3>2 DEF FilesExact
    <3> QED BY <3>4, <3>5, <3>6, <3>7 DEF FilesExact, HasFile
  <2> QED BY <2>3, <2>4, <2>5
<1> QED BY <1>8, <1>9, <1>10

(* Steps of a running thread that open and close nothing.                  *)
LEMMA InsideStep ==
  ASSUME TransferInv, NEW c \in Conns,
         UNCHANGED <<fdt, backlog, sockfd, main, peer, name, intact>>,
         thread' \in [Conns -> ThreadType],
         \A d \in Conns \ {c} : thread'[d] = thread[d],
         thread'[c].fd = thread[c].fd,
         thread'[c].fp = thread[c].fp,
         \/ thread[c].pc = "name" /\ thread'[c].pc = "open"
         \/ /\ thread[c].pc = "open" /\ thread'[c].pc = "failed"
            /\ thread'[c].filename = thread[c].filename
         \/ /\ thread[c].pc = "copy" /\ thread'[c].pc \in {"copy", "failed"}
            /\ thread'[c].filename = thread[c].filename
  PROVE  TransferInv'
<1> USE TransferAssumption DEF TransferInv
<1>1. thread[c] \in ThreadType
  BY DEF DescriptorTypes
<1>2. \A d \in Conns : /\ thread'[d].fd = thread[d].fd /\ thread'[d].fp = thread[d].fp
                       /\ d # c => thread'[d] = thread[d]
  OBVIOUS
<1>4. DescriptorTypes'
  BY DEF DescriptorTypes
<1>5. Fresh' /\ Single'
  BY KeptApart, <1>2
<1>6. ASSUME intact' PROVE Exact'
  <2> USE <1>6 DEF Exact
  <2>1. intact /\ FilesExact
    OBVIOUS
  <2>2. \A d \in Conns : HasFile(d)' <=> HasFile(d)
    BY <1>2, <2>1 DEF HasFile, FilesExact
  <2>3. \A m \in Fds : Owned(m)'
    <3> TAKE m \in Fds
    <3>1. Owned(m)
      OBVIOUS
    <3>2. ASSUME fdt[m] \in Names PROVE \E d \in Conns : HasFile(d)' /\ thread'[d].fp = m
      BY <1>2, <2>2, <3>1, <3>2 DEF Owned
    <3>3. ASSUME fdt[m] = c, fdt[m] # main
          PROVE  thread'[fdt[m]].pc \in Live \cup {"failed"} /\ thread'[fdt[m]].fd = m
      BY <1>2, <3>1, <3>3 DEF Owned, Live
    <3>4. ASSUME fdt[m] \in Conns, fdt[m] # c
          PROVE  thread'[fdt[m]] = thread[fdt[m]]
      BY <1>2, <3>4
    <3> QED BY <3>1, <3>2, <3>3, <3>4 DEF Owned
  <2>4. \A d \in Conns : Holds(d)'
    BY <1>2 DEF Holds
  <2>5. FilesExact'
    BY <1>2, <2>1, <2>2 DEF FilesExact, HasFile
  <2> QED BY <2>3, <2>4, <2>5
<1> QED BY <1>4, <1>5, <1>6

(* The file gets a descriptor that stood for nothing.                      *)
LEMMA OpenStep ==
  ASSUME TransferInv, NEW c \in Conns, Open(c)
  PROVE  TransferInv'
<1> USE TransferAssumption DEF TransferInv
<1>1. PICK m \in Fds : /\ fdt[m] = None
                       /\ fdt' = [fdt EXCEPT ![m] = thread[c].filename]
                       /\ thread' = [thread EXCEPT ![c].pc = "copy", ![c].fp = m]
  BY DEF Open, Opens
<1>2. /\ thread[c].pc = "open" /\ thread[c].filename # None
      /\ UNCHANGED <<backlog, sockfd, main, peer, name, intact>>
  BY DEF Open, mainVars, clientVars
<1>3. thread[c] \in ThreadType /\ "copy" \in Pcs /\ m \in 0 .. MaxFd /\ m # 0
  BY DEF DescriptorTypes, Pcs, Live, Fds
<1>4. [thread[c] EXCEPT !.pc = "copy", !.fp = m] \in ThreadType /\ thread[c].filename \in Names
  BY <1>2, <1>3 DEF ThreadType
<1>5. /\ \A d \in Conns \ {c} : thread'[d] = thread[d]
      /\ thread'[c] = [thread[c] EXCEPT !.pc = "copy", !.fp = m]
  BY <1>1 DEF DescriptorTypes
<1>6. /\ thread'[c].pc = "copy" /\ thread'[c].fd = thread[c].fd
      /\ thread'[c].fp = m /\ thread'[c].filename = thread[c].filename
  BY <1>3, <1>5 DEF ThreadType
<1>7. \A n \in Fds : fdt'[n] = IF n = m THEN thread[c].filename ELSE fdt[n]
  BY <1>1 DEF DescriptorTypes
<1>8. thread' \in [Conns -> ThreadType]
  BY <1>1, <1>4 DEF DescriptorTypes
<1>9. fdt' \in [Fds -> Conns \cup Names \cup {None}]
  BY <1>1, <1>4 DEF DescriptorTypes
<1>10. DescriptorTypes'
  BY <1>2, <1>8, <1>9 DEF DescriptorTypes
<1>11. \A d \in Conns : thread'[d].pc = "none" <=> thread[d].pc = "none"
  BY <1>2, <1>5, <1>6
<1>12. \A n \in Fds : fdt'[n] \in Conns => fdt'[n] = fdt[n]
  BY <1>4, <1>7
<1>13. Fresh' /\ Single'
  BY KeptApart, <1>2, <1>11, <1>12
<1>14. ASSUME intact' PROVE Exact'
  <2> USE <1>14 DEF Exact
  <2>1. intact /\ FilesExact
    BY <1>2
  <2>2. /\ HasFile(c)'
        /\ \A d \in Conns : d # c => (HasFile(d)' <=> HasFile(d))
    BY <1>3, <1>5, <1>6 DEF HasFile
  <2>3. \A d \in Conns : HasFile(d) => d # c /\ thread[d].fp \in Fds /\ thread[d].fp # m
    <3> TAKE d \in Conns
    <3> HAVE HasFile(d)
    <3>1. d # c
      BY <1>2 DEF HasFile
    <3>2. fdt[thread[d].fp] \in Names /\ thread[d].fp # 0
      BY <2>1 DEF FilesExact, HasFile
    <3>3. thread[d].fp \in 0 .. MaxFd
      BY DEF DescriptorTypes, ThreadType
    <3>4. thread[d].fp \in Fds
      BY <3>2, <3>3 DEF Fds
    <3> QED BY <1>1, <3>1, <3>2, <3>4
  <2>4. \A n \in Fds : Owned(n)'
    <3> TAKE n \in Fds
    <3>1. Owned(n)
      BY <2>1
    <3>2. ASSUME n = m PROVE Owned(n)'
      BY <1>4, <1>6, <1>7, <2>2, <3>2 DEF Owned
    <3>3. ASSUME n # m PROVE Owned(n)'
      <4>1. fdt'[n] = fdt[n]
        BY <1>7, <3>3
      <4>2. ASSUME fdt[n] \in Names PROVE \E d \in Conns : HasFile(d)' /\ thread'[d].fp = n
        <5>1. PICK d \in Conns : HasFile(d) /\ thread[d].fp = n
          BY <3>1, <4>2 DEF Owned
        <5> QED BY <1>5, <2>2, <2>3, <5>1
      <4>3. ASSUME fdt[n] = c, fdt[n] # main
            PROVE  thread'[fdt[n]].pc \in Live \cup {"failed"} /\ thread'[fdt[n]].fd = n
        BY <1>2, <1>6, <3>1, <4>3 DEF Owned, Live
      <4>4. ASSUME fdt[n] \in Conns, fdt[n] # c
            PROVE  thread'[fdt[n]] = thread[fdt[n]]
        BY <1>5, <4>4
      <4> QED BY <1>2, <3>1, <4>1, <4>2, <4>3, <4>4 DEF Owned
    <3> QED BY <3>2, <3>3
  <2>5. \A d \in Conns : Holds(d)'
    <3> TAKE d \in Conns
    <3>1. Holds(d)
      BY <2>1
    <3>2. thread[d].fd # 0 /\ fdt[thread[d].fd] = d => thread[d].fd \in Fds /\ thread[d].fd # m
      BY <1>1 DEF DescriptorTypes, ThreadType, Fds
    <3>3. thread'[d].fd = thread[d].fd
      BY <1>5, <1>6
    <3>4. thread'[d].pc \in {"name", "open", "copy"} => thread[d].pc \in {"name", "open", "copy"}
      BY <1>2, <1>5
    <3>5. ASSUME thread'[d].pc \in {"name", "open", "copy"}
          PROVE  thread'[d].fd # 0 /\ fdt'[thread'[d].fd] = d
      <4>1. thread[d].fd # 0 /\ fdt[thread[d].fd] = d
        BY <3>1, <3>4, <3>5 DEF Holds
      <4> QED BY <1>7, <3>2, <3>3, <4>1
    <3> QED BY <3>5 DEF Holds
  <2>6. FilesExact'
    <3>1. \A d \in Conns : thread'[d].pc \in {"none", "start", "name", "open"} => thread'[d].fp = 0
      BY <1>5, <1>6, <2>1 DEF FilesExact
    <3>2. \A d \in Conns : thread'[d].pc = "copy" => thread'[d].fp # 0
      BY <1>3, <1>5, <1>6, <2>1 DEF FilesExact
    <3>3. \A d \in Conns : HasFile(d)' => /\ fdt'[thread'[d].fp] = thread'[d].filename
                                          /\ thread'[d].filename \in Names
      <4> TAKE d \in Conns
      <4>1. CASE d = c
        BY <1>4, <1>6, <1>7, <4>1
      <4>2. CASE d # c
        BY <1>5, <1>7, <2>1, <2>2, <2>3, <4>2 DEF FilesExact
      <4> QED BY <4>1, <4>2
    <3>4. \A d, e \in Conns : HasFile(d)' /\ HasFile(e)' /\ thread'[d].fp = thread'[e].fp => d = e
      BY <1>5, <1>6, <2>1, <2>2, <2>3 DEF FilesExact
    <3> QED BY <3>1, <3>2, <3>3, <3>4 DEF FilesExact, HasFile
  <2> QED BY <2>4, <2>5, <2>6
<1> QED BY <1>10, <1>13, <1>14

(* The thread closes what it opened and its own connection.                *)
LEMMA FinishStep ==
  ASSUME TransferInv, NEW c \in Conns, Finish(c)
  PROVE  TransferInv'
<1> USE TransferAssumption DEF TransferInv
<1>1. PICK p \in {"done", "cut"} : thread' = [thread EXCEPT ![c].pc = p]
  BY DEF Finish
<1>2. /\ thread[c].pc = "copy"
      /\ fdt' = [n \in Fds |-> IF n \in {thread[c].fp, thread[c].fd} THEN None ELSE fdt[n]]
      /\ UNCHANGED <<backlog, sockfd, main, peer, name, intact>>
  BY DEF Finish, mainVars, clientVars
<1>3. thread[c] \in ThreadType /\ p \in Pcs
  BY DEF DescriptorTypes, Pcs
<1>4. [thread[c] EXCEPT !.pc = p] \in ThreadType
  BY <1>3 DEF ThreadType
<1>5. /\ \A d \in Conns \ {c} : thread'[d] = thread[d]
      /\ thread'[c].pc = p
  BY <1>1, <1>3 DEF DescriptorTypes, ThreadType
<1>6. thread' \in [Conns -> ThreadType]
  BY <1>1, <1>4 DEF DescriptorTypes
<1>7. fdt' \in [Fds -> Conns \cup Names \cup {None}]
  BY <1>2 DEF DescriptorTypes
<1>8. DescriptorTypes'
  BY <1>2, <1>6, <1>7 DEF DescriptorTypes
<1>9. \A n \in Fds : fdt'[n] = IF n = thread[c].fp \/ n = thread[c].fd THEN None ELSE fdt[n]
  BY <1>2
<1>10. \A d \in Conns : thread'[d].pc = "none" <=> thread[d].pc = "none"
  BY <1>1, <1>2, <1>5
<1>11. Fresh' /\ Single'
  BY KeptApart, <1>2, <1>9, <1>10
<1>12. ASSUME intact' PROVE Exact'
  <2> USE <1>12 DEF Exact
  <2>1. intact /\ FilesExact /\ Holds(c) /\ thread[c].fd # 0 /\ fdt[thread[c].fd] = c
    BY <1>2 DEF Holds
  <2>2. /\ ~HasFile(c)'
        /\ \A d \in Conns : d # c => (HasFile(d)' <=> HasFile(d))
    BY <1>1, <1>5 DEF HasFile
  <2>3. HasFile(c)
    BY <1>2, <2>1 DEF HasFile, FilesExact
  <2>4. \A d \in Conns : d # c /\ HasFile(d) =>
          thread[d].fp # thread[c].fp /\ thread[d].fp # thread[c].fd
    BY <2>1, <2>3 DEF FilesExact
  <2>5. \A d \in Conns : thread[d].fp \in 0 .. MaxFd /\ thread[d].fd \in 0 .. MaxFd
    BY DEF DescriptorTypes, ThreadType
  <2>6. \A n \in Fds : Owned(n)'
    <3> TAKE n \in Fds
    <3>1. Owned(n)
      BY <2>1
    <3>2. CASE n = thread[c].fp \/ n = thread[c].fd
      BY <1>9, <3>2 DEF Owned
    <3>3. CASE n # thread[c].fp /\ n # thread[c].fd
      <4>1. fdt'[n] = fdt[n]
        BY <1>9, <3>3
      <4>2. ASSUME fdt[n] \in Names PROVE \E d \in Conns : HasFile(d)' /\ thread'[d].fp = n
        <5>1. PICK d \in Conns : HasFile(d) /\ thread[d].fp = n
          BY <3>1, <4>2 DEF Owned
        <5> QED BY <1>5, <2>2, <3>3, <5>1
      <4>3. fdt[n] = c => fdt[n] = main
        BY <1>2, <3>1, <3>3 DEF Owned
      <4>4. ASSUME fdt[n] \in Conns, fdt[n] # c
            PROVE  thread'[fdt[n]] = thread[fdt[n]]
        BY <1>5, <4>4
      <4> QED BY <1>2, <3>1, <4>1, <4>2, <4>3, <4>4 DEF Owned
    <3> QED BY <3>2, <3>3
  <2>7. \A d \in Conns : Holds(d)'
    <3> TAKE d \in Conns
    <3>1. CASE d = c
      BY <1>1, <1>5, <3>1 DEF Holds
    <3>2. CASE d # c
      <4>1. Holds(d)
        BY <2>1
      <4>2. thread[d].fd # 0 /\ fdt[thread[d].fd] = d =>
              thread[d].fd \in Fds /\ thread[d].fd # thread[c].fd
        BY <2>1, <2>5, <3>2 DEF Fds
      <4>3. fdt[thread[d].fd] = d => thread[d].fd # thread[c].fp
        BY <2>1, <2>3 DEF FilesExact
      <4> QED BY <1>5, <1>9, <3>2, <4>1, <4>2, <4>3 DEF Holds
    <3> QED BY <3>1, <3>2
  <2>8. FilesExact'
    <3>1. \A d \in Conns : thread'[d].pc \in {"none", "start", "name", "open"} => thread'[d].fp = 0
      BY <1>1, <1>5, <2>1 DEF FilesExact
    <3>2. \A d \in Conns : thread'[d].pc = "copy" => thread'[d].fp # 0
      BY <1>1, <1>5, <2>1 DEF FilesExact
    <3>3. \A d \in Conns : HasFile(d)' => /\ fdt'[thread'[d].fp] = thread'[d].filename
                                          /\ thread'[d].filename \in Names
      <4> SUFFICES ASSUME NEW d \in Conns, HasFile(d)'
                   PROVE  /\ fdt'[thread'[d].fp] = thread'[d].filename
                          /\ thread'[d].filename \in Names
        OBVIOUS
      <4>1. d # c /\ HasFile(d) /\ thread'[d] = thread[d]
        BY <1>5, <2>2
      <4>2. thread[d].fp \in Fds
        BY <2>5, <4>1 DEF HasFile, Fds
      <4>3. fdt'[thread[d].fp] = fdt[thread[d].fp]
        BY <1>9, <2>4, <4>1, <4>2
      <4> QED BY <2>1, <4>1, <4>3 DEF FilesExact
    <3>4. \A d, e \in Conns : HasFile(d)' /\ HasFile(e)' /\ thread'[d].fp = thread'[e].fp => d = e
      BY <1>5, <2>1, <2>2 DEF FilesExact
    <3> QED BY <3>1, <3>2, <3>3, <3>4 DEF FilesExact, HasFile
  <2> QED BY <2>6, <2>7, <2>8
<1> QED BY <1>8, <1>11, <1>12

LEMMA ThreadStep ==
  ASSUME TransferInv, NEW c \in Conns, receive_file(c)
  PROVE  TransferInv'
<1> USE TransferAssumption DEF TransferInv
<1>1. thread[c] \in ThreadType
  BY DEF DescriptorTypes
<1>2. {"open", "failed"} \subseteq Pcs
  BY DEF Pcs, Live
<1>3. \A p \in {"open", "failed"}, f \in Names \cup {None} :
        LET t == [thread[c] EXCEPT !.pc = p, !.filename = f]
        IN  t \in ThreadType /\ t.pc = p /\ t.filename = f
              /\ t.fd = thread[c].fd /\ t.fp = thread[c].fp
  BY <1>1, <1>2 DEF ThreadType
<1>4. LET t == [thread[c] EXCEPT !.pc = "failed"]
      IN  t \in ThreadType /\ t.pc = "failed" /\ t.filename = thread[c].filename
            /\ t.fd = thread[c].fd /\ t.fp = thread[c].fp
  BY <1>1, <1>2 DEF ThreadType
<1>5. \A k \in Nat :
        LET t == [thread[c] EXCEPT !.at = k]
        IN  t \in ThreadType /\ t.pc = thread[c].pc /\ t.filename = thread[c].filename
              /\ t.fd = thread[c].fd /\ t.fp = thread[c].fp
  BY <1>1 DEF ThreadType
<1>6. CASE Start(c)
  BY StartStep, <1>6
<1>7. CASE RecvName(c)
  <2>1. PICK f : thread' = [thread EXCEPT ![c].pc = "open", ![c].filename = f]
                 /\ (f \in Names \cup {None} \/ f = name[Socket(c)])
    BY <1>7 DEF RecvName, Named
  <2>2. Socket(c) \in Conns /\ thread[c].pc = "name"
        /\ UNCHANGED <<fdt, backlog, sockfd, main, peer, name, intact>>
    BY <1>7 DEF RecvName, mainVars, clientVars
  <2>3. f \in Names \cup {None}
    BY <2>1, <2>2 DEF DescriptorTypes
  <2>4. thread' = [thread EXCEPT ![c] = [thread[c] EXCEPT !.pc = "open", !.filename = f]]
    BY <2>1
  <2>5. /\ thread' \in [Conns -> ThreadType]
        /\ thread'[c] = [thread[c] EXCEPT !.pc = "open", !.filename = f]
        /\ \A d \in Conns \ {c} : thread'[d] = thread[d]
    <3>1. [thread[c] EXCEPT !.pc = "open", !.filename = f] \in ThreadType
      BY <1>3, <2>3
    <3>2. thread \in [Conns -> ThreadType]
      BY DEF DescriptorTypes
    <3> QED BY <2>4, <3>1, <3>2
  <2>6. thread'[c].pc = "open" /\ thread'[c].fd = thread[c].fd /\ thread'[c].fp = thread[c].fp
    BY <1>1, <2>5 DEF ThreadType
  <2> QED BY InsideStep, <2>2, <2>5, <2>6
<1>8. CASE RecvFails(c)
  <2>1. UNCHANGED <<fdt, backlog, sockfd, main, peer, name, intact, thread>>
    BY <1>8 DEF RecvFails, mainVars, clientVars
  <2> QED BY <2>1 DEF DescriptorTypes, Fresh, Single, Exact, Owned, Holds, FilesExact, HasFile
<1>9. CASE Open(c)
  BY OpenStep, <1>9
<1>10. CASE OpenFails(c)
  <2>1. thread[c].pc = "open" /\ thread' = [thread EXCEPT ![c].pc = "failed"]
        /\ UNCHANGED <<fdt, backlog, sockfd, main, peer, name, intact>>
    BY <1>10 DEF OpenFails, mainVars, clientVars
  <2>2. /\ thread' \in [Conns -> ThreadType]
        /\ thread'[c] = [thread[c] EXCEPT !.pc = "failed"]
        /\ \A d \in Conns \ {c} : thread'[d] = thread[d]
    BY <1>4, <2>1 DEF DescriptorTypes
  <2>3. /\ thread'[c].pc = "failed" /\ thread'[c].fd = thread[c].fd
        /\ thread'[c].fp = thread[c].fp /\ thread'[c].filename = thread[c].filename
    BY <1>4, <2>2
  <2> QED BY InsideStep, <2>1, <2>2, <2>3
<1>11. CASE Copy(c)
  <2>1. thread[c].pc = "copy"
        /\ UNCHANGED <<fdt, backlog, sockfd, main, peer, name, intact>>
    BY <1>11 DEF Copy, mainVars, clientVars
  <2>2. Socket(c) \in Conns /\ BuffSize \in Nat
    BY <1>11 DEF Copy
  <2>3. PICK k \in 1 .. Least(BuffSize, Len(stream[Socket(c)])) :
          thread' = [thread EXCEPT ![c].at = @ + k]
    BY <1>11 DEF Copy
  <2>4. k \in Nat
    BY <2>3
  <2>5. thread[c].at + k \in Nat
    BY <1>1, <2>4 DEF ThreadType
  <2>6. /\ thread' \in [Conns -> ThreadType]
        /\ thread'[c] = [thread[c] EXCEPT !.at = thread[c].at + k]
        /\ \A d \in Conns \ {c} : thread'[d] = thread[d]
    BY <1>5, <2>3, <2>5 DEF DescriptorTypes
  <2>7. /\ thread'[c].pc = "copy" /\ thread'[c].fd = thread[c].fd
        /\ thread'[c].fp = thread[c].fp /\ thread'[c].filename = thread[c].filename
    BY <1>5, <2>1, <2>5, <2>6
  <2> QED BY InsideStep, <2>1, <2>6, <2>7
<1>12. CASE WriteFails(c)
  <2>1. thread[c].pc = "copy" /\ thread' = [thread EXCEPT ![c].pc = "failed"]
        /\ UNCHANGED <<fdt, backlog, sockfd, main, peer, name, intact>>
    BY <1>12 DEF WriteFails, mainVars, clientVars
  <2>2. /\ thread' \in [Conns -> ThreadType]
        /\ thread'[c] = [thread[c] EXCEPT !.pc = "failed"]
        /\ \A d \in Conns \ {c} : thread'[d] = thread[d]
    BY <1>4, <2>1 DEF DescriptorTypes
  <2>3. /\ thread'[c].pc = "failed" /\ thread'[c].fd = thread[c].fd
        /\ thread'[c].fp = thread[c].fp /\ thread'[c].filename = thread[c].filename
    BY <1>4, <2>2
  <2> QED BY InsideStep, <2>1, <2>2, <2>3
<1>13. CASE Finish(c)
  BY FinishStep, <1>13
<1> QED BY <1>6, <1>7, <1>8, <1>9, <1>10, <1>11, <1>12, <1>13 DEF receive_file

(* However the threads, main and the clients interleave, a descriptor that *)
(* a thread uses stands for its own connection or its own file, and none   *)
(* is left open after a transfer that was not given up, as long as each    *)
(* thread has found its own descriptor (transfer_server.c:64, 91-108).     *)
THEOREM DescriptorsKept == Spec => []DescriptorsExact
<1>1. Init => TransferInv
  BY InitTransfer
<1>2. TransferInv /\ [Next]_vars => TransferInv'
  <2> SUFFICES ASSUME TransferInv, [Next]_vars PROVE TransferInv'
    OBVIOUS
  <2>1. CASE Main
    BY MainStep, <2>1
  <2>2. CASE \E c \in Conns : receive_file(c)
    BY ThreadStep, <2>2
  <2>3. CASE \E c \in Conns : Client(c)
    BY ClientStep, <2>3
  <2>4. CASE UNCHANGED vars
    BY <2>4 DEF vars, TransferInv, DescriptorTypes, Fresh, Single, Exact, Owned, Holds,
                FilesExact, HasFile
  <2> QED BY <2>1, <2>2, <2>3, <2>4 DEF Next
<1>3. TransferInv => DescriptorsExact
  BY ExactImplies
<1> QED BY <1>1, <1>2, <1>3, PTL DEF Spec
-----------------------------------------------------------------------------
(* What is stored.                                                         *)

StreamTypes ==
  /\ alive \in BOOLEAN
  /\ sends \in [Conns -> Nat]
  /\ stream \in [Conns -> Seq(Units)]
  /\ disk \in [Names -> Seq(Units)]
  /\ taken \in [Conns -> Seq(Units)]

(* Only a client that is connected and has a file sends.                   *)
Counted(c) ==
  /\ peer[c] = "none" => sends[c] = 0
  /\ sends[c] # 0 => name[c] \in Names

(* Up to the name nothing of the stream is lost, and with the name nothing *)
(* that is not taken.                                                      *)
Untouched(c) ==
  /\ thread[c].pc \in {"none", "start", "name"} =>
       thread[c].filename = None /\ taken[c] = <<>> /\ stream[c] = Sent(c)
  /\ thread[c].pc = "open" /\ thread[c].filename # None => taken[c] \o stream[c] = Sent(c)

(* A thread never writes behind the end of its file, whatever it reads and *)
(* whoever writes that file too.                                           *)
Within(c) ==
  /\ thread[c].pc \in {"none", "start", "name", "open"} => thread[c].at = 0
  /\ thread[c].pc \in {"copy", "done"} =>
       thread[c].filename \in Names /\ thread[c].at <= Len(disk[thread[c].filename])

(* What was written is at the beginning of the file, even when the file of *)
(* that name was longer before.                                            *)
Kept(c) ==
  /\ thread[c].pc \in {"copy", "done"} /\ Sole(c) =>
       (taken[c] \o SubSeq(disk[thread[c].filename], 1, thread[c].at)) \o stream[c] = Sent(c)
  /\ thread[c].pc = "done" => peer[c] = "closed" /\ stream[c] = <<>>

StoredInv ==
  /\ TransferInv
  /\ StreamTypes
  /\ \A c \in Conns : Counted(c) /\ Within(c)
  /\ intact => \A c \in Conns : Untouched(c) /\ Kept(c)

(* The first n units of what a client c sends, whose file has size units.  *)
Line(c, size, n) == [k \in 1 .. n |-> IF k <= size + 1 THEN <<c, k - 1>> ELSE Pad]

(* The b units of a block after p units of the file.                       *)
Piece(c, size, p, b) ==
  [k \in 1 .. b |-> IF p + k <= size THEN <<c, p + k>> ELSE Pad]

LEMMA LineType ==
  ASSUME NEW c \in Conns, NEW size, NEW n \in Nat
  PROVE  Line(c, size, n) \in Seq(Units) /\ Len(Line(c, size, n)) = n
<1> DEFINE u(k) == IF k <= size + 1 THEN <<c, k - 1>> ELSE Pad
<1>1. \A k \in 1 .. n : u(k) \in Units
  <2> SUFFICES ASSUME NEW k \in 1 .. n PROVE u(k) \in Units
    OBVIOUS
  <2>1. k - 1 \in Nat
    OBVIOUS
  <2> QED BY <2>1 DEF Units
<1> HIDE DEF u
<1>2. [k \in 1 .. n |-> u(k)] \in Seq(Units) /\ Len([k \in 1 .. n |-> u(k)]) = n
  BY <1>1
<1> QED BY <1>2 DEF Line, u

LEMMA LineGrows ==
  ASSUME NEW c \in Conns, NEW size \in Nat, NEW p \in Nat, NEW b \in Nat
  PROVE  /\ Piece(c, size, p, b) \in Seq(Units)
         /\ Line(c, size, 1 + p + b) = Line(c, size, 1 + p) \o Piece(c, size, p, b)
<1> DEFINE u(k) == IF p + k <= size THEN <<c, p + k>> ELSE Pad
           block == [k \in 1 .. b |-> u(k)]
           s == Line(c, size, 1 + p)
           t == Line(c, size, 1 + p + b)
<1>1. \A k \in 1 .. b : u(k) \in Units
  <2> SUFFICES ASSUME NEW k \in 1 .. b PROVE u(k) \in Units
    OBVIOUS
  <2>1. p + k \in Nat
    OBVIOUS
  <2> QED BY <2>1 DEF Units
<1>2. block \in Seq(Units) /\ Len(block) = b
  <2> HIDE DEF u
  <2> QED BY <1>1
<1>3. 1 + p \in Nat /\ 1 + p + b \in Nat
  OBVIOUS
<1>4. s \in Seq(Units) /\ Len(s) = 1 + p
  BY <1>3, LineType
<1>5. t \in Seq(Units) /\ Len(t) = 1 + p + b
  BY <1>3, LineType
<1>6. /\ s \o block \in Seq(Units)
      /\ Len(s \o block) = 1 + p + b
      /\ \A k \in 1 .. 1 + p + b :
           (s \o block)[k] = IF k <= 1 + p THEN s[k] ELSE block[k - (1 + p)]
  <2> HIDE DEF s, block
  <2>1. /\ s \o block \in Seq(Units)
        /\ Len(s \o block) = Len(s) + Len(block)
        /\ \A k \in 1 .. Len(s) + Len(block) :
             (s \o block)[k] = IF k <= Len(s) THEN s[k] ELSE block[k - Len(s)]
    BY <1>2, <1>4, ConcatProperties
  <2> QED BY <1>2, <1>4, <2>1
<1>7. \A k \in 1 .. 1 + p + b : (s \o block)[k] = t[k]
  <2> SUFFICES ASSUME NEW k \in 1 .. 1 + p + b PROVE (s \o block)[k] = t[k]
    OBVIOUS
  <2>1. t[k] = IF k <= size + 1 THEN <<c, k - 1>> ELSE Pad
    BY DEF Line
  <2>2. CASE k <= 1 + p
    <3>1. k \in 1 .. 1 + p
      BY <2>2
    <3>2. s[k] = IF k <= size + 1 THEN <<c, k - 1>> ELSE Pad
      BY <3>1 DEF Line
    <3> HIDE DEF s, t, block
    <3> QED BY <1>6, <2>1, <2>2, <3>2
  <2>3. CASE k > 1 + p
    <3>1. /\ k - (1 + p) \in 1 .. b
          /\ p + (k - (1 + p)) = k - 1
          /\ k - 1 <= size <=> k <= size + 1
      BY <2>3
    <3>2. block[k - (1 + p)] = u(k - (1 + p))
      BY <3>1
    <3>3. ~(k <= 1 + p)
      BY <2>3
    <3> HIDE DEF s, t, block
    <3>4. (s \o block)[k] = block[k - (1 + p)]
      BY <1>6, <3>3
    <3> QED BY <2>1, <3>1, <3>2, <3>4
  <2>4. k <= 1 + p \/ k > 1 + p
    OBVIOUS
  <2> HIDE DEF s, t, block
  <2> QED BY <2>2, <2>3, <2>4
<1>8. s \o block = t
  <2> HIDE DEF s, t, block
  <2> QED BY <1>5, <1>6, <1>7, SeqEqual
<1>9. Piece(c, size, p, b) = block
  BY DEF Piece
<1> HIDE DEF block
<1> QED BY <1>2, <1>8, <1>9

(* How much client c has sent.                                             *)
SentLength(c) == IF sends[c] = 0 THEN 0 ELSE 1 + (sends[c] - 1) * BuffSize

LEMMA SentIsLine ==
  ASSUME NEW c \in Conns
  PROVE  Sent(c) = Line(c, Size[name[c]], SentLength(c))
BY DEF Sent, Line, SentLength

LEMMA SentType ==
  ASSUME NEW c \in Conns, sends[c] \in Nat
  PROVE  Sent(c) \in Seq(Units) /\ (sends[c] = 0 => Sent(c) = <<>>)
<1>1. SentLength(c) \in Nat
  <2>1. CASE sends[c] = 0
    BY <2>1 DEF SentLength
  <2>2. CASE sends[c] # 0
    <3>1. sends[c] - 1 \in Nat /\ BuffSize \in Nat
      BY <2>2, TransferAssumption
    <3>2. (sends[c] - 1) * BuffSize \in Nat
      BY <3>1
    <3> QED BY <2>2, <3>2 DEF SentLength
  <2> QED BY <2>1, <2>2
<1>2. Sent(c) \in Seq(Units) /\ Len(Sent(c)) = SentLength(c)
  BY <1>1, LineType, SentIsLine
<1>3. sends[c] = 0 => Len(Sent(c)) = 0
  BY <1>2 DEF SentLength
<1> QED BY <1>2, <1>3, EmptySeq

LEMMA SentSame ==
  ASSUME NEW c \in Conns, sends[c] \in Nat, sends'[c] = sends[c],
         sends[c] # 0 => name'[c] = name[c]
  PROVE  Sent(c)' = Sent(c)
<1>1. CASE sends[c] = 0
  <2>1. sends'[c] \in Nat
    OBVIOUS
  <2>2. (sends[c] = 0 => Sent(c) = <<>>)'
    <3> SUFFICES ASSUME sends'[c] = 0 PROVE Sent(c)' = <<>>
      OBVIOUS
    <3>1. Sent(c)' = [k \in 1 .. 0 |-> IF k <= Size[name'[c]] + 1 THEN <<c, k - 1>> ELSE Pad]
      BY DEF Sent
    <3> QED BY <3>1
  <2> QED BY <1>1, <2>2, SentType
<1>2. CASE sends[c] # 0
  BY <1>2 DEF Sent
<1> QED BY <1>1, <1>2

(* What a send() adds.                                                     *)
LEMMA SentGrows ==
  ASSUME NEW c \in Conns, sends[c] \in Nat, sends'[c] = sends[c] + 1,
         name'[c] = name[c], name[c] \in Names
  PROVE  Sending(c) \in Seq(Units) /\ Sent(c)' = Sent(c) \o Sending(c)
<1> DEFINE size == Size[name[c]]
<1>1. size \in Nat /\ BuffSize \in Nat
  BY TransferAssumption
<1>2. Sent(c)' = Line(c, size, 1 + sends[c] * BuffSize)
  <2>1. sends'[c] # 0 /\ sends'[c] - 1 = sends[c]
    OBVIOUS
  <2> QED BY <2>1 DEF Sent, Line
<1>3. CASE sends[c] = 0
  <2>1. Sent(c) = <<>>
    BY <1>3, SentType
  <2>2. Sending(c) = << <<c, 0>> >> /\ <<c, 0>> \in Units
    BY <1>3 DEF Sending, Units
  <2>3. 1 + sends[c] * BuffSize = 1
    BY <1>1, <1>3
  <2>4. Line(c, size, 1) \in Seq(Units) /\ Len(Line(c, size, 1)) = 1
    <3> HIDE DEF size
    <3>1. 1 \in Nat
      OBVIOUS
    <3> QED BY <3>1, LineType
  <2>5. Line(c, size, 1)[1] = <<c, 0>>
    BY <1>1 DEF Line
  <2>6. << <<c, 0>> >> \in Seq(Units) /\ Len(<< <<c, 0>> >>) = 1 /\ << <<c, 0>> >>[1] = <<c, 0>>
    BY <2>2
  <2>7. Line(c, size, 1) = << <<c, 0>> >>
    <3> HIDE DEF size
    <3>1. \A i \in 1 .. 1 : Line(c, size, 1)[i] = << <<c, 0>> >>[i]
      BY <2>5, <2>6
    <3> QED BY <2>4, <2>6, <3>1, SeqEqual
  <2> QED BY <1>2, <2>1, <2>2, <2>3, <2>6, <2>7, ConcatEmptySeq
<1>4. CASE sends[c] # 0
  <2> DEFINE m == sends[c] - 1
             p == m * BuffSize
  <2>1. m \in Nat /\ sends[c] = m + 1
    BY <1>4
  <2>2. p \in Nat
    BY <1>1, <2>1
  <2>3. sends[c] * BuffSize = p + BuffSize
    BY <1>1, <2>1
  <2>4. Sending(c) = Piece(c, size, p, BuffSize)
    BY <1>4 DEF Sending, Block, Piece
  <2>5. Sent(c) = Line(c, size, 1 + p)
    BY <1>4, SentIsLine DEF SentLength
  <2> HIDE DEF p, m, size
  <2>6. 1 + sends[c] * BuffSize = 1 + p + BuffSize
    BY <1>1, <2>2, <2>3
  <2>7. /\ Piece(c, size, p, BuffSize) \in Seq(Units)
        /\ Line(c, size, 1 + p + BuffSize) = Line(c, size, 1 + p) \o Piece(c, size, p, BuffSize)
    BY <1>1, <2>2, LineGrows
  <2>8. Sent(c)' = Line(c, size, 1 + p + BuffSize)
    BY <1>2, <2>6
  <2> QED BY <2>4, <2>5, <2>7, <2>8
<1> QED BY <1>3, <1>4

LEMMA Beginning ==
  ASSUME NEW s \in Seq(Units), NEW t \in Seq(Units)
  PROVE  SubSeq(s \o t, 1, Len(s)) = s
<1> DEFINE w == s \o t
<1>1. Len(s) \in Nat /\ Len(t) \in Nat
  OBVIOUS
<1>2. /\ w \in Seq(Units)
      /\ Len(w) = Len(s) + Len(t)
      /\ \A i \in 1 .. Len(s) + Len(t) : w[i] = IF i <= Len(s) THEN s[i] ELSE t[i - Len(s)]
  BY ConcatProperties
<1> HIDE DEF w
<1>3. \A i \in 1 .. Len(s) : w[i] = s[i] /\ w[i] \in Units
  BY <1>1, <1>2
<1>4. /\ SubSeq(w, 1, Len(s)) \in Seq(Units)
      /\ Len(SubSeq(w, 1, Len(s))) = IF 1 <= Len(s) THEN Len(s) - 1 + 1 ELSE 0
      /\ \A i \in 1 .. Len(s) - 1 + 1 : SubSeq(w, 1, Len(s))[i] = w[1 + i - 1]
  BY <1>1, <1>3, SubSeqProperties
<1>5. Len(SubSeq(w, 1, Len(s))) = Len(s)
  BY <1>1, <1>4
<1>6. \A i \in 1 .. Len(s) : SubSeq(w, 1, Len(s))[i] = s[i]
  <2> SUFFICES ASSUME NEW i \in 1 .. Len(s) PROVE SubSeq(w, 1, Len(s))[i] = s[i]
    OBVIOUS
  <2>1. i \in 1 .. Len(s) - 1 + 1 /\ 1 + i - 1 = i
    BY <1>1
  <2> QED BY <1>3, <1>4, <2>1
<1>7. SubSeq(w, 1, Len(s)) = s
  BY <1>4, <1>5, <1>6, SeqEqual
<1> QED BY <1>7 DEF w

(* A part of a sequence, and the whole of it in two parts.                 *)
LEMMA Part ==
  ASSUME NEW s \in Seq(Units), NEW i \in Nat \ {0}, NEW j \in 0 .. Len(s)
  PROVE  /\ SubSeq(s, i, j) \in Seq(Units)
         /\ Len(SubSeq(s, i, j)) = IF i <= j THEN j - i + 1 ELSE 0
<1>1. \A k \in i .. j : s[k] \in Units
  OBVIOUS
<1>2. i \in Int /\ j \in Int
  OBVIOUS
<1> QED BY <1>1, <1>2, SubSeqProperties

LEMMA Parted ==
  ASSUME NEW s \in Seq(Units), NEW k \in 0 .. Len(s)
  PROVE  /\ SubSeq(s, 1, k) \in Seq(Units) /\ Len(SubSeq(s, 1, k)) = k
         /\ SubSeq(s, k + 1, Len(s)) \in Seq(Units)
         /\ SubSeq(s, 1, k) \o SubSeq(s, k + 1, Len(s)) = s
<1>0. Len(s) \in Nat
  OBVIOUS
<1>1. SubSeq(s, 1, k) \in Seq(Units) /\ Len(SubSeq(s, 1, k)) = k
  BY <1>0, Part
<1>2. SubSeq(s, k + 1, Len(s)) \in Seq(Units)
  <2>1. k + 1 \in Nat \ {0} /\ Len(s) \in 0 .. Len(s)
    BY <1>0
  <2> QED BY <2>1, Part
<1>3. SubSeq(s, 1, k) \o SubSeq(s, k + 1, Len(s)) = SubSeq(s, 1, Len(s))
  <2>1. 1 \in 1 .. Len(s) + 1 /\ k \in 1 - 1 .. Len(s) /\ Len(s) \in k .. Len(s)
    BY <1>0
  <2> QED BY <2>1, ConcatAdjacentSubSeq
<1>4. SubSeq(s, 1, Len(s)) = s
  BY SubSeqFull
<1> QED BY <1>1, <1>2, <1>3, <1>4

(* write() at a position in the file or at its end: what was before is     *)
(* kept, the file does not become shorter.                                 *)
LEMMA WrittenKeeps ==
  ASSUME NEW file \in Seq(Units), NEW at \in 0 .. Len(file), NEW units \in Seq(Units)
  PROVE  /\ Written(file, at, units) \in Seq(Units)
         /\ Len(file) <= Len(Written(file, at, units))
         /\ at + Len(units) <= Len(Written(file, at, units))
         /\ SubSeq(Written(file, at, units), 1, at + Len(units)) = SubSeq(file, 1, at) \o units
<1> DEFINE a == SubSeq(file, 1, at)
           n == at + Len(units)
           b == SubSeq(file, n + 1, Len(file))
           h == a \o units
<1>1. Len(file) \in Nat /\ Len(units) \in Nat /\ n \in Nat
  OBVIOUS
<1>2. a \in Seq(Units) /\ Len(a) = at
  BY Parted
<1>3. n + 1 \in Nat \ {0} /\ Len(file) \in 0 .. Len(file)
  BY <1>1
<1>4. b \in Seq(Units) /\ Len(b) = IF n + 1 <= Len(file) THEN Len(file) - (n + 1) + 1 ELSE 0
  <2> HIDE DEF n
  <2> QED BY <1>3, Part
<1>5. h \in Seq(Units) /\ Len(h) = n
  <2> HIDE DEF a
  <2>1. h \in Seq(Units) /\ Len(h) = Len(a) + Len(units)
    BY <1>2, ConcatProperties
  <2> QED BY <1>2, <2>1
<1>6. Written(file, at, units) = h \o b
  BY DEF Written
<1> HIDE DEF a, b, h, n
<1>7. h \o b \in Seq(Units) /\ Len(h \o b) = n + Len(b)
  BY <1>4, <1>5, ConcatProperties
<1>8. Len(file) <= n + Len(b) /\ n <= n + Len(b)
  <2>1. CASE n + 1 <= Len(file)
    BY <1>1, <1>4, <2>1
  <2>2. CASE ~(n + 1 <= Len(file))
    BY <1>1, <1>4, <2>2
  <2> QED BY <2>1, <2>2
<1>9. SubSeq(h \o b, 1, n) = h
  BY <1>4, <1>5, Beginning
<1> QED BY <1>6, <1>7, <1>8, <1>9 DEF h, a, n

LEMMA Behind ==
  ASSUME NEW s \in Seq(Units), NEW t \in Seq(Units), NEW u \in Seq(Units)
  PROVE  (s \o t) \o u = s \o (t \o u)
BY ConcatAssociative

(* Three pieces of what a client sends, in order.                          *)
Chain(r, s, u) == (r \o s) \o u

LEMMA ChainMoves ==
  ASSUME NEW r \in Seq(Units), NEW s \in Seq(Units), NEW t \in Seq(Units), NEW u \in Seq(Units)
  PROVE  Chain(r, s \o t, u) = Chain(r, s, t \o u)
<1>1. (r \o s) \o t = r \o (s \o t)
  BY Behind
<1> DEFINE q == r \o s
<1>2. q \in Seq(Units)
  BY ConcatProperties
<1> HIDE DEF q
<1>3. (q \o t) \o u = q \o (t \o u)
  BY <1>2, Behind
<1> QED BY <1>1, <1>3 DEF q, Chain

(* A thread whose stream, name and place do not change keeps what it has.  *)
LEMMA UntouchedSame ==
  ASSUME NEW d \in Conns, Untouched(d),
         thread'[d].pc = thread[d].pc \/ (thread[d].pc = "none" /\ thread'[d].pc = "start")
           \/ (thread[d].pc = "start" /\ thread'[d].pc = "name"),
         thread'[d].filename = thread[d].filename,
         taken'[d] = taken[d], stream'[d] = stream[d], Sent(d)' = Sent(d)
  PROVE  Untouched(d)'
BY DEF Untouched

(* Another thread may write the file, but not if d's is the only one.      *)
LEMMA KeptSame ==
  ASSUME NEW d \in Conns, Kept(d),
         thread'[d].pc = thread[d].pc,
         thread'[d].filename = thread[d].filename,
         thread'[d].at = thread[d].at,
         taken'[d] = taken[d], stream'[d] = stream[d], Sent(d)' = Sent(d),
         peer[d] = "closed" => peer'[d] = "closed",
         thread[d].pc \in {"copy", "done"} /\ Sole(d)' =>
           Sole(d) /\ disk'[thread[d].filename] = disk[thread[d].filename]
  PROVE  Kept(d)'
<1>1. thread'[d].pc \in {"copy", "done"} /\ Sole(d)' =>
        (taken'[d] \o SubSeq(disk'[thread'[d].filename], 1, thread'[d].at)) \o stream'[d] = Sent(d)'
  BY DEF Kept
<1>2. thread'[d].pc = "done" => peer'[d] = "closed" /\ stream'[d] = <<>>
  BY DEF Kept
<1> QED BY <1>1, <1>2 DEF Kept

LEMMA WithinSame ==
  ASSUME NEW d \in Conns, Within(d), thread[d] \in ThreadType, StreamTypes, StreamTypes',
         thread'[d].pc = thread[d].pc \/ (thread[d].pc = "none" /\ thread'[d].pc = "start")
           \/ (thread[d].pc = "start" /\ thread'[d].pc = "name"),
         thread'[d].filename = thread[d].filename,
         thread'[d].at = thread[d].at,
         thread[d].filename \in Names =>
           Len(disk[thread[d].filename]) <= Len(disk'[thread[d].filename])
  PROVE  Within(d)'
<1>1. thread'[d].pc \in {"none", "start", "name", "open"} => thread'[d].at = 0
  BY DEF Within
<1>2. ASSUME thread'[d].pc \in {"copy", "done"}
      PROVE  thread'[d].filename \in Names /\ thread'[d].at <= Len(disk'[thread'[d].filename])
  <2> DEFINE f == thread[d].filename
  <2>1. f \in Names /\ thread[d].at <= Len(disk[f])
    BY <1>2 DEF Within
  <2>2. Len(disk[f]) \in Nat /\ Len(disk'[f]) \in Nat /\ thread[d].at \in Nat
    BY <2>1 DEF StreamTypes, ThreadType
  <2>3. Len(disk[f]) <= Len(disk'[f])
    BY <2>1
  <2>4. thread[d].at <= Len(disk'[f])
    <3> HIDE DEF f
    <3> QED BY <2>1, <2>2, <2>3
  <2> QED BY <2>1, <2>4
<1> QED BY <1>1, <1>2 DEF Within

LEMMA InitStored == Init => StoredInv
<1> SUFFICES ASSUME Init PROVE StoredInv
  OBVIOUS
<1>1. TransferInv
  BY InitTransfer
<1>2. \A f \in Names : disk[f] \in Seq(Units)
  <2> SUFFICES ASSUME NEW f \in Names PROVE disk[f] \in Seq(Units)
    OBVIOUS
  <2>1. OldSize[f] \in Nat /\ Pad \in Units
    BY TransferAssumption DEF Units
  <2>2. disk[f] = [k \in 1 .. OldSize[f] |-> Pad]
    BY DEF Init
  <2> QED BY <2>1, <2>2
<1>3. StreamTypes
  <2>1. disk \in [Names -> Seq(Units)]
    BY <1>2 DEF Init
  <2> QED BY <2>1 DEF Init, StreamTypes
<1>4. ASSUME NEW c \in Conns PROVE Counted(c) /\ Within(c) /\ Untouched(c) /\ Kept(c)
  <2>1. /\ thread[c].pc = "none" /\ thread[c].filename = None /\ thread[c].at = 0
        /\ sends[c] = 0 /\ taken[c] = <<>> /\ stream[c] = <<>>
    BY DEF Init
  <2>2. Sent(c) = <<>>
    BY <2>1, SentType
  <2> QED BY <2>1, <2>2 DEF Counted, Within, Untouched, Kept
<1> QED BY <1>1, <1>3, <1>4 DEF StoredInv

(* A client names its file before it sends anything, and sends what is next*)
(* in line.                                                                *)
LEMMA ClientStored ==
  ASSUME StoredInv, NEW c \in Conns, Client(c)
  PROVE  StoredInv'
<1>1. TransferInv /\ StreamTypes /\ \A d \in Conns : Counted(d) /\ Within(d)
  BY DEF StoredInv
<1>2. TransferInv'
  BY <1>1, ClientStep
<1>3. /\ peer \in [Conns -> {"none", "open", "closed"}]
      /\ name \in [Conns -> Names \cup {None}]
      /\ thread \in [Conns -> ThreadType]
      /\ sends \in [Conns -> Nat] /\ stream \in [Conns -> Seq(Units)]
  BY <1>1 DEF TransferInv, DescriptorTypes, StreamTypes
<1>4. UNCHANGED <<alive, thread, disk, taken, intact>>
  BY DEF Client, Connect, Send, Leave, fileVars
<1>5. \A d \in Conns : (Sole(d)' <=> Sole(d))
  BY <1>4 DEF Sole
<1>6. CASE Connect(c) \/ Leave(c)
  <2>1. /\ sends' = sends /\ stream' = stream
        /\ peer[c] # "closed" /\ peer'[c] \in {"open", "closed"}
        /\ \A d \in Conns \ {c} : peer'[d] = peer[d] /\ name'[d] = name[d]
        /\ peer[c] # "none" => name'[c] = name[c]
    <3>1. CASE Connect(c)
      <4>1. PICK f \in Told[c] : name' = [name EXCEPT ![c] = f]
        BY <3>1 DEF Connect
      <4> QED BY <1>3, <3>1, <4>1 DEF Connect, fileVars
    <3>2. CASE Leave(c)
      BY <1>3, <3>2 DEF Leave, fileVars
    <3> QED BY <1>6, <3>1, <3>2
  <2>2. \A d \in Conns : sends[d] # 0 => name'[d] = name[d]
    BY <1>1, <2>1 DEF Counted
  <2>3. \A d \in Conns : Sent(d)' = Sent(d)
    BY <1>3, <2>1, <2>2, SentSame
  <2>4. StreamTypes'
    BY <1>1, <1>4, <2>1 DEF StreamTypes
  <2>5. ASSUME NEW d \in Conns PROVE Counted(d)' /\ Within(d)'
    <3>1. peer'[d] = "none" => peer[d] = "none"
      BY <2>1
    <3>2. Counted(d)'
      BY <1>1, <2>1, <2>2, <3>1 DEF Counted
    <3>3. Within(d)'
      BY <1>1, <1>4 DEF Within
    <3> QED BY <3>2, <3>3
  <2>6. ASSUME intact', NEW d \in Conns PROVE Untouched(d)' /\ Kept(d)'
    <3>1. Untouched(d) /\ Kept(d)
      BY <1>4, <2>6 DEF StoredInv
    <3>2. Untouched(d)'
      BY <1>4, <2>1, <2>3, <3>1, UntouchedSame
    <3>3. peer[d] = "closed" => peer'[d] = "closed"
      BY <2>1
    <3>4. Kept(d)'
      BY <1>4, <1>5, <2>1, <2>3, <3>1, <3>3, KeptSame
    <3> QED BY <3>2, <3>4
  <2> QED BY <1>2, <2>4, <2>5, <2>6 DEF StoredInv
<1>7. CASE Send(c)
  <2>1. /\ peer[c] = "open" /\ name[c] \in Names
        /\ stream' = [stream EXCEPT ![c] = stream[c] \o Sending(c)]
        /\ sends' = [sends EXCEPT ![c] = sends[c] + 1]
        /\ peer' = peer /\ name' = name
    BY <1>3, <1>7 DEF Send, HasMore
  <2>2. sends'[c] = sends[c] + 1 /\ sends[c] \in Nat
    BY <1>3, <2>1
  <2>3. Sending(c) \in Seq(Units) /\ Sent(c)' = Sent(c) \o Sending(c)
    BY <2>1, <2>2, SentGrows
  <2>4. \A d \in Conns \ {c} : Sent(d)' = Sent(d)
    <3> SUFFICES ASSUME NEW d \in Conns \ {c} PROVE Sent(d)' = Sent(d)
      OBVIOUS
    <3>1. sends[d] \in Nat /\ sends'[d] = sends[d] /\ name'[d] = name[d]
      BY <1>3, <2>1
    <3> QED BY <3>1, SentSame
  <2>5. stream[c] \in Seq(Units) /\ stream[c] \o Sending(c) \in Seq(Units)
    BY <1>3, <2>3, ConcatProperties
  <2>6. StreamTypes'
    <3>1. sends' \in [Conns -> Nat]
      BY <1>3, <2>1, <2>2
    <3>2. stream' \in [Conns -> Seq(Units)]
      BY <1>3, <2>1, <2>5
    <3> QED BY <1>1, <1>4, <3>1, <3>2 DEF StreamTypes
  <2>7. ASSUME NEW d \in Conns PROVE Counted(d)' /\ Within(d)'
    <3>1. Counted(d)'
      <4>1. CASE d = c
        BY <2>1, <4>1 DEF Counted
      <4>2. CASE d # c
        BY <1>1, <1>3, <2>1, <4>2 DEF Counted
      <4> QED BY <4>1, <4>2
    <3>2. Within(d)'
      BY <1>1, <1>4 DEF Within
    <3> QED BY <3>1, <3>2
  <2>8. ASSUME intact', NEW d \in Conns PROVE Untouched(d)' /\ Kept(d)'
    <3>1. Untouched(d) /\ Kept(d)
      BY <1>4, <2>8 DEF StoredInv
    <3>2. CASE d # c
      <4>1. stream'[d] = stream[d] /\ Sent(d)' = Sent(d)
        BY <1>3, <2>1, <2>4, <3>2
      <4>2. Untouched(d)'
        BY <1>4, <3>1, <4>1, UntouchedSame
      <4>3. Kept(d)'
        BY <1>4, <1>5, <2>1, <3>1, <4>1, KeptSame
      <4> QED BY <4>2, <4>3
    <3>3. CASE d = c
      <4>1. stream'[c] = stream[c] \o Sending(c)
        BY <1>3, <2>1
      <4>2. \A s \in Seq(Units) :
              s \o stream[c] = Sent(c) => s \o stream'[c] = Sent(c)'
        <5> SUFFICES ASSUME NEW s \in Seq(Units), s \o stream[c] = Sent(c)
                     PROVE  s \o stream'[c] = Sent(c)'
          OBVIOUS
        <5>1. (s \o stream[c]) \o Sending(c) = s \o (stream[c] \o Sending(c))
          BY <2>3, <2>5, Behind
        <5> QED BY <2>3, <4>1, <5>1
      <4>3. taken[c] \in Seq(Units)
        BY <1>1 DEF StreamTypes
      <4>4. Untouched(c)'
        <5>1. stream[c] = Sent(c) => stream'[c] = Sent(c)'
          BY <2>3, <4>1
        <5>2. taken[c] \o stream[c] = Sent(c) => taken[c] \o stream'[c] = Sent(c)'
          BY <4>2, <4>3
        <5> QED BY <1>4, <3>1, <3>3, <5>1, <5>2 DEF Untouched
      <4>5. thread[c].pc # "done"
        BY <2>1, <3>1, <3>3 DEF Kept
      <4>6. ASSUME thread[c].pc = "copy", Sole(c)
            PROVE  (taken[c] \o SubSeq(disk[thread[c].filename], 1, thread[c].at)) \o stream'[c] = Sent(c)'
        <5> DEFINE file == disk[thread[c].filename]
        <5>1. file \in Seq(Units) /\ thread[c].at \in 0 .. Len(file)
          <6>1. /\ thread[c].filename \in Names /\ thread[c].at <= Len(file)
                /\ thread[c].at \in Nat
            BY <1>1, <1>3, <4>6 DEF Within, ThreadType
          <6>2. file \in Seq(Units)
            BY <1>1, <6>1 DEF StreamTypes
          <6> QED BY <6>1, <6>2
        <5> HIDE DEF file
        <5>2. SubSeq(file, 1, thread[c].at) \in Seq(Units)
          BY <5>1, Parted
        <5>3. taken[c] \o SubSeq(file, 1, thread[c].at) \in Seq(Units)
          BY <4>3, <5>2, ConcatProperties
        <5>4. (taken[c] \o SubSeq(file, 1, thread[c].at)) \o stream[c] = Sent(c)
          BY <3>1, <3>3, <4>6 DEF Kept, file
        <5> QED BY <4>2, <5>3, <5>4 DEF file
      <4>7. Kept(c)'
        BY <1>4, <1>5, <4>5, <4>6 DEF Kept
      <4> QED BY <3>3, <4>4, <4>7
    <3> QED BY <3>2, <3>3
  <2> QED BY <1>2, <2>6, <2>7, <2>8 DEF StoredInv
<1> QED BY <1>6, <1>7 DEF Client

LEMMA MainStored ==
  ASSUME StoredInv, Main
  PROVE  StoredInv'
<1>1. TransferInv /\ StreamTypes /\ \A d \in Conns : Counted(d) /\ Within(d)
  BY DEF StoredInv
<1>2. TransferInv'
  BY <1>1, MainStep
<1>3. UNCHANGED <<alive, peer, name, sends, stream, disk, taken, intact>>
  BY DEF Main, accept, AcceptFails, pthread_create, clientVars, fileVars
<1>4. StreamTypes'
  BY <1>1, <1>3 DEF StreamTypes
<1>5. thread \in [Conns -> ThreadType] /\ sends \in [Conns -> Nat]
  BY <1>1 DEF TransferInv, DescriptorTypes, StreamTypes
<1>6. \A d \in Conns :
        /\ thread'[d].pc = thread[d].pc \/ (thread[d].pc = "none" /\ thread'[d].pc = "start")
        /\ thread'[d].filename = thread[d].filename
        /\ thread'[d].at = thread[d].at
  <2>1. CASE thread' = thread
    BY <2>1
  <2>2. CASE pthread_create
    <3>1. main \in Conns /\ thread[main].pc = "none"
      BY <1>1, <2>2 DEF pthread_create, TransferInv, DescriptorTypes, Fresh
    <3>2. thread' = [thread EXCEPT ![main] = [thread[main] EXCEPT !.pc = "start"]]
      BY <2>2 DEF pthread_create
    <3>3. LET t == [thread[main] EXCEPT !.pc = "start"]
          IN  t.pc = "start" /\ t.filename = thread[main].filename /\ t.at = thread[main].at
      BY <1>5, <3>1 DEF ThreadType
    <3> QED BY <1>5, <3>1, <3>2, <3>3
  <2> QED BY <2>1, <2>2 DEF Main, accept, AcceptFails
<1>7. \A d \in Conns : Sent(d)' = Sent(d) /\ (Sole(d)' <=> Sole(d))
  BY <1>3, <1>6 DEF Sent, Sole
<1>8. ASSUME NEW d \in Conns PROVE Counted(d)' /\ Within(d)'
  <2>1. Counted(d)'
    BY <1>1, <1>3 DEF Counted
  <2>2. Len(disk[thread[d].filename]) <= Len(disk'[thread[d].filename])
          \/ thread[d].filename \notin Names
    BY <1>1, <1>3 DEF StreamTypes
  <2>3. Within(d)'
    BY <1>1, <1>4, <1>5, <1>6, <2>2, WithinSame
  <2> QED BY <2>1, <2>3
<1>9. ASSUME intact', NEW d \in Conns PROVE Untouched(d)' /\ Kept(d)'
  <2>1. Untouched(d) /\ Kept(d)
    BY <1>3, <1>9 DEF StoredInv
  <2>2. Untouched(d)'
    BY <1>3, <1>6, <1>7, <2>1, UntouchedSame
  <2>3. Kept(d)'
    <3>1. CASE thread'[d].pc = thread[d].pc
      BY <1>3, <1>6, <1>7, <2>1, <3>1, KeptSame
    <3>2. CASE thread'[d].pc = "start"
      BY <3>2 DEF Kept
    <3> QED BY <1>6, <3>1, <3>2
  <2> QED BY <2>2, <2>3
<1> QED BY <1>2, <1>4, <1>8, <1>9 DEF StoredInv

(* What a thread's step leaves the others: one that is the only writer of  *)
(* its file stays so, and was so before.                                   *)
LEMMA OthersKept ==
  ASSUME StoredInv, intact, NEW c \in Conns, NEW d \in Conns \ {c},
         peer' = peer, name' = name, sends' = sends,
         \A e \in Conns \ {c} : thread'[e] = thread[e],
         thread'[c].filename = thread[c].filename \/ thread[c].filename = None,
         stream'[d] = stream[d], taken'[d] = taken[d],
         thread[d].filename \in Names /\ thread[d].filename # thread[c].filename =>
           disk'[thread[d].filename] = disk[thread[d].filename]
  PROVE  Untouched(d)' /\ Kept(d)'
<1>1. Untouched(d) /\ Kept(d) /\ Within(d)
  BY DEF StoredInv
<1>2. thread'[d] = thread[d] /\ Sent(d)' = Sent(d)
  BY DEF Sent
<1>3. Untouched(d)'
  BY <1>1, <1>2, UntouchedSame
<1>4. ASSUME thread[d].pc \in {"copy", "done"}, Sole(d)'
      PROVE  Sole(d) /\ disk'[thread[d].filename] = disk[thread[d].filename]
  <2>1. thread[d].filename \in Names /\ thread[d].filename # None
    BY <1>1, <1>4, TransferAssumption DEF Within
  <2>2. \A e \in Conns \ {d} : thread'[e].filename # thread[d].filename
    BY <1>2, <1>4 DEF Sole
  <2>3. Sole(d)
    <3> SUFFICES ASSUME NEW e \in Conns \ {d} PROVE thread[e].filename # thread[d].filename
      BY DEF Sole
    <3>1. CASE e = c
      BY <2>1, <2>2, <3>1
    <3>2. CASE e # c
      BY <2>2, <3>2
    <3> QED BY <3>1, <3>2
  <2>4. thread[c].filename # thread[d].filename
    BY <2>3 DEF Sole
  <2> QED BY <2>1, <2>3, <2>4
<1>5. Kept(d)'
  BY <1>1, <1>2, <1>4, KeptSame
<1> QED BY <1>3, <1>5

LEMMA OthersWithin ==
  ASSUME StoredInv, StreamTypes', NEW d \in Conns,
         thread'[d] = thread[d],
         \A f \in Names : Len(disk[f]) <= Len(disk'[f])
  PROVE  Within(d)'
<1>1. Within(d) /\ StreamTypes /\ thread[d] \in ThreadType
  BY DEF StoredInv, TransferInv, DescriptorTypes
<1> QED BY <1>1, WithinSame

(* The descriptor of a thread, where it has found its own.                 *)
LEMMA OwnSocket ==
  ASSUME StoredInv, intact, NEW c \in Conns,
         thread[c].pc \in {"name", "open", "copy"}
  PROVE  Socket(c) = c
BY DEF StoredInv, TransferInv, Exact, Holds, Socket

LEMMA StartStored ==
  ASSUME StoredInv, NEW c \in Conns, Start(c)
  PROVE  StoredInv'
<1>1. TransferInv /\ StreamTypes /\ \A d \in Conns : Counted(d) /\ Within(d)
  BY DEF StoredInv
<1>2. TransferInv'
  BY <1>1, StartStep
<1>3. /\ thread[c].pc = "start"
      /\ thread' = [thread EXCEPT ![c].pc = "name", ![c].fd = sockfd]
      /\ intact' => intact
      /\ UNCHANGED <<alive, peer, name, sends, stream, disk, taken>>
  BY DEF Start, clientVars, fileVars
<1>4. StreamTypes'
  BY <1>1, <1>3 DEF StreamTypes
<1>5. thread \in [Conns -> ThreadType]
  BY <1>1 DEF TransferInv, DescriptorTypes
<1>6. /\ \A d \in Conns \ {c} : thread'[d] = thread[d]
      /\ thread'[c].pc = "name" /\ thread'[c].filename = thread[c].filename
      /\ thread'[c].at = thread[c].at
  BY <1>3, <1>5 DEF ThreadType
<1>7. \A f \in Names : Len(disk[f]) <= Len(disk'[f])
  BY <1>1, <1>3 DEF StreamTypes
<1>8. ASSUME NEW d \in Conns PROVE Counted(d)' /\ Within(d)'
  <2>1. Counted(d)'
    BY <1>1, <1>3 DEF Counted
  <2>2. CASE d # c
    <3>1. thread'[d] = thread[d]
      BY <1>6, <2>2
    <3> QED BY <1>4, <1>7, <2>1, <3>1, OthersWithin
  <2>3. CASE d = c
    BY <1>1, <1>3, <1>6, <2>1, <2>3 DEF Within
  <2> QED BY <2>2, <2>3
<1>9. ASSUME intact', NEW d \in Conns PROVE Untouched(d)' /\ Kept(d)'
  <2>1. intact
    BY <1>3, <1>9
  <2>2. CASE d # c
    <3>1. d \in Conns \ {c}
      BY <2>2
    <3> QED BY <1>3, <1>6, <2>1, <3>1, OthersKept
  <2>3. CASE d = c
    <3>1. Sent(c)' = Sent(c) /\ Untouched(c)
      BY <1>3, <2>1 DEF Sent, StoredInv
    <3>2. Untouched(c)'
      BY <1>3, <1>6, <3>1, UntouchedSame
    <3>3. Kept(c)'
      BY <1>6 DEF Kept
    <3> QED BY <2>3, <3>2, <3>3
  <2> QED BY <2>2, <2>3
<1> QED BY <1>2, <1>4, <1>8, <1>9 DEF StoredInv

(* A step of c's thread, once what it does for c itself is known.          *)
LEMMA StepStored ==
  ASSUME StoredInv, NEW c \in Conns, TransferInv', StreamTypes',
         peer' = peer, name' = name, sends' = sends, intact' = intact,
         \A d \in Conns \ {c} : thread'[d] = thread[d],
         intact /\ thread[c].filename # None => thread'[c].filename = thread[c].filename,
         \A f \in Names : Len(disk[f]) <= Len(disk'[f]),
         \A f \in Names : f # thread[c].filename => disk'[f] = disk[f],
         Within(c)',
         intact => /\ \A d \in Conns \ {c} : stream'[d] = stream[d] /\ taken'[d] = taken[d]
                   /\ Untouched(c)' /\ Kept(c)'
  PROVE  StoredInv'
<1>1. ASSUME NEW d \in Conns PROVE Counted(d)' /\ Within(d)'
  <2>1. Counted(d)'
    BY DEF StoredInv, Counted
  <2>2. CASE d # c
    <3>1. thread'[d] = thread[d]
      BY <2>2
    <3> QED BY <2>1, <3>1, OthersWithin
  <2>3. CASE d = c
    BY <2>1, <2>3
  <2> QED BY <2>2, <2>3
<1>2. ASSUME intact', NEW d \in Conns PROVE Untouched(d)' /\ Kept(d)'
  <2>1. CASE d # c
    <3>1. d \in Conns \ {c} /\ stream'[d] = stream[d] /\ taken'[d] = taken[d] /\ intact
      BY <1>2, <2>1
    <3> QED BY <3>1, OthersKept
  <2>2. CASE d = c
    BY <1>2, <2>2
  <2> QED BY <2>1, <2>2
<1> QED BY <1>1, <1>2 DEF StoredInv

(* What is received is taken from the beginning of one stream.             *)
LEMMA Received ==
  ASSUME StoredInv, NEW x \in Conns, NEW n \in Nat,
         NEW k \in 1 .. Least(n, Len(stream[x])),
         stream' = [stream EXCEPT ![x] = SubSeq(stream[x], k + 1, Len(stream[x]))]
  PROVE  /\ stream' \in [Conns -> Seq(Units)]
         /\ \A d \in Conns \ {x} : stream'[d] = stream[d]
         /\ SubSeq(stream[x], 1, k) \in Seq(Units)
         /\ Len(SubSeq(stream[x], 1, k)) = k
         /\ SubSeq(stream[x], 1, k) \o stream'[x] = stream[x]
<1>1. stream \in [Conns -> Seq(Units)] /\ stream[x] \in Seq(Units)
  BY DEF StoredInv, StreamTypes
<1>2. k \in 0 .. Len(stream[x])
  <2>1. Len(stream[x]) \in Nat
    BY <1>1
  <2> QED BY <2>1 DEF Least
<1>3. /\ SubSeq(stream[x], 1, k) \in Seq(Units)
      /\ Len(SubSeq(stream[x], 1, k)) = k
      /\ SubSeq(stream[x], k + 1, Len(stream[x])) \in Seq(Units)
      /\ SubSeq(stream[x], 1, k) \o SubSeq(stream[x], k + 1, Len(stream[x])) = stream[x]
  BY <1>1, <1>2, Parted
<1>4. /\ stream'[x] = SubSeq(stream[x], k + 1, Len(stream[x]))
      /\ stream' \in [Conns -> Seq(Units)]
      /\ \A d \in Conns \ {x} : stream'[d] = stream[d]
  BY <1>1, <1>3
<1> QED BY <1>3, <1>4

(* The name comes with what the client has sent behind it by then.         *)
LEMMA RecvNameStored ==
  ASSUME StoredInv, NEW c \in Conns, TransferInv', RecvName(c)
  PROVE  StoredInv'
<1> DEFINE x == Socket(c)
<1>1. /\ thread[c].pc = "name" /\ x \in Conns
      /\ UNCHANGED <<alive, peer, name, sends, disk, intact>>
  BY DEF RecvName, clientVars
<1>2. TransferInv /\ StreamTypes /\ Within(c)
  BY DEF StoredInv
<1>3. /\ thread \in [Conns -> ThreadType] /\ name \in [Conns -> Names \cup {None}]
      /\ taken \in [Conns -> Seq(Units)]
  BY <1>2 DEF TransferInv, DescriptorTypes, StreamTypes
<1>4. intact => /\ x = c /\ stream[c] = Sent(c)
                /\ thread[c].filename = None /\ taken[c] = <<>>
  BY <1>1, OwnSocket DEF StoredInv, Untouched
<1>5. PICK f : /\ thread' = [thread EXCEPT ![c].pc = "open", ![c].filename = f]
               /\ \/ \E k \in 1 .. Least(NameRoom, Len(stream[x])) :
                       /\ stream' = [stream EXCEPT ![x] = SubSeq(stream[x], k + 1, Len(stream[x]))]
                       /\ taken' = [taken EXCEPT ![c] = SubSeq(stream[x], 1, k)]
                  \/ f = None /\ UNCHANGED <<stream, taken>>
  BY DEF RecvName
<1>6. /\ \A d \in Conns \ {c} : thread'[d] = thread[d]
      /\ thread'[c].pc = "open" /\ thread'[c].filename = f
      /\ thread'[c].at = thread[c].at
  <2>1. thread' = [thread EXCEPT ![c] = [thread[c] EXCEPT !.pc = "open", !.filename = f]]
    BY <1>5
  <2>2. LET t == [thread[c] EXCEPT !.pc = "open", !.filename = f]
        IN  t.pc = "open" /\ t.filename = f /\ t.at = thread[c].at
    BY <1>3 DEF ThreadType
  <2> QED BY <1>3, <2>1, <2>2
<1>7. /\ stream' \in [Conns -> Seq(Units)] /\ taken' \in [Conns -> Seq(Units)]
      /\ \A d \in Conns \ {c} : taken'[d] = taken[d]
      /\ \A d \in Conns \ {x} : stream'[d] = stream[d]
      /\ x = c /\ stream[c] = Sent(c) /\ f # None => taken'[c] \o stream'[c] = Sent(c)
  <2> HIDE DEF x
  <2>1. CASE f = None /\ UNCHANGED <<stream, taken>>
    BY <1>2, <2>1 DEF StreamTypes
  <2>2. ASSUME NEW k \in 1 .. Least(NameRoom, Len(stream[x])),
               stream' = [stream EXCEPT ![x] = SubSeq(stream[x], k + 1, Len(stream[x]))],
               taken' = [taken EXCEPT ![c] = SubSeq(stream[x], 1, k)]
        PROVE  /\ stream' \in [Conns -> Seq(Units)] /\ taken' \in [Conns -> Seq(Units)]
               /\ \A d \in Conns \ {c} : taken'[d] = taken[d]
               /\ \A d \in Conns \ {x} : stream'[d] = stream[d]
               /\ x = c /\ stream[c] = Sent(c) /\ f # None => taken'[c] \o stream'[c] = Sent(c)
    <3>1. NameRoom \in Nat
      BY TransferAssumption
    <3>2. /\ stream' \in [Conns -> Seq(Units)]
          /\ \A d \in Conns \ {x} : stream'[d] = stream[d]
          /\ SubSeq(stream[x], 1, k) \in Seq(Units)
          /\ SubSeq(stream[x], 1, k) \o stream'[x] = stream[x]
      BY <1>1, <2>2, <3>1, Received
    <3>3. /\ taken' \in [Conns -> Seq(Units)] /\ taken'[c] = SubSeq(stream[x], 1, k)
          /\ \A d \in Conns \ {c} : taken'[d] = taken[d]
      BY <1>3, <2>2, <3>2
    <3> QED BY <3>2, <3>3
  <2> QED BY <1>5, <2>1, <2>2
<1> HIDE DEF x
<1>8. StreamTypes'
  BY <1>1, <1>2, <1>7 DEF StreamTypes
<1>9. Within(c)'
  BY <1>1, <1>2, <1>6 DEF Within
<1>10. \A g \in Names : Len(disk[g]) <= Len(disk'[g]) /\ disk'[g] = disk[g]
  BY <1>1, <1>2 DEF StreamTypes
<1>11. ASSUME intact
       PROVE  /\ \A d \in Conns \ {c} : stream'[d] = stream[d] /\ taken'[d] = taken[d]
              /\ Untouched(c)' /\ Kept(c)'
  <2>1. Sent(c)' = Sent(c)
    BY <1>1 DEF Sent
  <2>2. Untouched(c)'
    BY <1>4, <1>6, <1>7, <1>11, <2>1 DEF Untouched
  <2>3. Kept(c)'
    BY <1>6 DEF Kept
  <2> QED BY <1>4, <1>7, <1>11, <2>2, <2>3
<1>12. thread[c].filename = None \/ ~intact
  BY <1>4
<1> QED BY <1>1, <1>6, <1>8, <1>9, <1>10, <1>11, <1>12, StepStored

(* A step that moves only the program counter, and perhaps descriptors.    *)
LEMMA MovedStored ==
  ASSUME StoredInv, NEW c \in Conns, TransferInv',
         UNCHANGED <<alive, peer, name, sends, stream, disk, taken, intact>>,
         \A d \in Conns \ {c} : thread'[d] = thread[d],
         thread'[c].filename = thread[c].filename,
         thread'[c].at = thread[c].at,
         \/ /\ thread[c].pc = "open" /\ thread'[c].pc = "copy"
            /\ thread[c].filename \in Names
         \/ thread'[c].pc \in {"failed", "cut"}
         \/ /\ thread[c].pc = "copy" /\ thread'[c].pc = "done"
            /\ intact => peer[c] = "closed" /\ stream[c] = <<>>
  PROVE  StoredInv'
<1>1. StreamTypes /\ Within(c) /\ thread \in [Conns -> ThreadType]
  BY DEF StoredInv, TransferInv, DescriptorTypes
<1>2. StreamTypes'
  BY <1>1 DEF StreamTypes
<1>3. \A f \in Names : Len(disk[f]) <= Len(disk'[f]) /\ disk'[f] = disk[f]
  BY <1>1 DEF StreamTypes
<1>4. Within(c)'
  <2>1. CASE thread[c].pc = "open" /\ thread'[c].pc = "copy" /\ thread[c].filename \in Names
    <3>1. thread[c].at = 0
      BY <1>1, <2>1 DEF Within
    <3>2. Len(disk[thread[c].filename]) \in Nat
      BY <1>1, <2>1 DEF StreamTypes
    <3> QED BY <2>1, <3>1, <3>2 DEF Within
  <2>2. CASE thread'[c].pc \in {"failed", "cut"}
    BY <2>2 DEF Within
  <2>3. CASE thread[c].pc = "copy" /\ thread'[c].pc = "done"
    BY <1>1, <2>3 DEF Within
  <2> QED BY <2>1, <2>2, <2>3
<1>5. ASSUME intact PROVE Untouched(c)' /\ Kept(c)'
  <2>1. Untouched(c) /\ Kept(c)
    BY <1>5 DEF StoredInv
  <2>2. Sent(c)' = Sent(c) /\ (Sole(c)' <=> Sole(c))
    BY DEF Sent, Sole
  <2>3. Untouched(c)'
    BY DEF Untouched
  <2>4. Kept(c)'
    <3>1. CASE thread[c].pc = "open" /\ thread'[c].pc = "copy" /\ thread[c].filename \in Names
      <4> DEFINE file == disk[thread[c].filename]
      <4>1. thread[c].at = 0
        BY <1>1, <3>1 DEF Within
      <4>2. SubSeq(file, 1, 0) = <<>>
        <5>1. 1 \in Int /\ 0 \in Int /\ 0 < 1
          OBVIOUS
        <5> QED BY <5>1, SubSeqEmpty
      <4>3. taken[c] \in Seq(Units)
        BY <1>1 DEF StreamTypes
      <4>4. taken[c] \o SubSeq(file, 1, 0) = taken[c]
        BY <4>2, <4>3, ConcatEmptySeq
      <4>5. taken[c] \o stream[c] = Sent(c)
        BY <2>1, <3>1, TransferAssumption DEF Untouched
      <4> QED BY <2>2, <3>1, <4>1, <4>4, <4>5 DEF Kept
    <3>2. CASE thread'[c].pc \in {"failed", "cut"}
      BY <3>2 DEF Kept
    <3>3. CASE /\ thread[c].pc = "copy" /\ thread'[c].pc = "done"
               /\ peer[c] = "closed" /\ stream[c] = <<>>
      BY <2>1, <2>2, <3>3 DEF Kept
    <3> QED BY <1>5, <3>1, <3>2, <3>3
  <2> QED BY <2>3, <2>4
<1> QED BY <1>2, <1>3, <1>4, <1>5, StepStored

(* c's thread reads k units and writes j of them, all if it goes on.       *)
Wrote(c, k, j) ==
  /\ thread[c].pc = "copy"
  /\ Socket(c) \in Conns
  /\ k \in 1 .. Least(BuffSize, Len(stream[Socket(c)]))
  /\ j \in 0 .. k
  /\ stream' = [stream EXCEPT ![Socket(c)] =
                  SubSeq(stream[Socket(c)], k + 1, Len(stream[Socket(c)]))]
  /\ disk' = [disk EXCEPT ![thread[c].filename] =
                Written(disk[thread[c].filename], thread[c].at, SubSeq(stream[Socket(c)], 1, j))]
  /\ \/ thread'[c].pc = "copy" /\ thread'[c].at = thread[c].at + k /\ j = k
     \/ thread'[c].pc = "failed"
  /\ thread'[c].filename = thread[c].filename
  /\ \A d \in Conns \ {c} : thread'[d] = thread[d]
  /\ UNCHANGED <<alive, peer, name, sends, taken, intact>>

(* A block, or a part of one, is written where the one before has ended.   *)
LEMMA WriteStored ==
  ASSUME StoredInv, NEW c \in Conns, TransferInv', NEW k, NEW j, Wrote(c, k, j)
  PROVE  StoredInv'
<1> DEFINE x == Socket(c)
           f == thread[c].filename
           at == thread[c].at
           units == SubSeq(stream[x], 1, j)
<1>0. /\ thread[c].pc = "copy" /\ x \in Conns
      /\ k \in 1 .. Least(BuffSize, Len(stream[x])) /\ j \in 0 .. k
      /\ UNCHANGED <<alive, peer, name, sends, taken, intact>>
      /\ \A d \in Conns \ {c} : thread'[d] = thread[d]
      /\ thread'[c].filename = thread[c].filename
      /\ \/ thread'[c].pc = "copy" /\ thread'[c].at = thread[c].at + k /\ j = k
         \/ thread'[c].pc = "failed"
      /\ stream' = [stream EXCEPT ![x] = SubSeq(stream[x], k + 1, Len(stream[x]))]
      /\ disk' = [disk EXCEPT ![f] = Written(disk[f], at, units)]
  BY DEF Wrote
<1>1. /\ StreamTypes /\ Within(c) /\ thread \in [Conns -> ThreadType]
      /\ stream \in [Conns -> Seq(Units)] /\ disk \in [Names -> Seq(Units)]
  BY DEF StoredInv, TransferInv, DescriptorTypes, StreamTypes
<1>2. f \in Names /\ at \in Nat /\ at <= Len(disk[f]) /\ disk[f] \in Seq(Units)
  BY <1>0, <1>1 DEF Within, ThreadType
<1>3. at \in 0 .. Len(disk[f])
  <2>1. Len(disk[f]) \in Nat
    BY <1>2
  <2> HIDE DEF at, f
  <2> QED BY <1>2, <2>1
<1>4. BuffSize \in Nat
  BY TransferAssumption
<1>5. /\ stream' \in [Conns -> Seq(Units)]
      /\ \A d \in Conns \ {x} : stream'[d] = stream[d]
      /\ SubSeq(stream[x], 1, k) \in Seq(Units)
      /\ Len(SubSeq(stream[x], 1, k)) = k
      /\ SubSeq(stream[x], 1, k) \o stream'[x] = stream[x]
  <2> HIDE DEF x, f, at, units
  <2> QED BY <1>0, <1>4, Received
<1>6. units \in Seq(Units)
  <2>1. j \in 0 .. Len(stream[x])
    <3>1. stream[x] \in Seq(Units)
      BY <1>0, <1>1
    <3>2. Len(stream[x]) \in Nat
      BY <3>1
    <3>3. k <= Len(stream[x])
      BY <1>0, <1>4, <3>2 DEF Least
    <3> HIDE DEF x
    <3> QED BY <1>0, <3>2, <3>3
  <2>2. stream[x] \in Seq(Units)
    BY <1>0, <1>1
  <2> QED BY <2>1, <2>2, Parted
<1> HIDE DEF x, f, at, units
<1>7. /\ Written(disk[f], at, units) \in Seq(Units)
      /\ Len(disk[f]) <= Len(Written(disk[f], at, units))
      /\ at + Len(units) <= Len(Written(disk[f], at, units))
      /\ SubSeq(Written(disk[f], at, units), 1, at + Len(units)) = SubSeq(disk[f], 1, at) \o units
  BY <1>2, <1>3, <1>6, WrittenKeeps
<1>9. /\ disk' \in [Names -> Seq(Units)] /\ disk'[f] = Written(disk[f], at, units)
      /\ \A g \in Names : g # f => disk'[g] = disk[g]
  BY <1>0, <1>1, <1>2, <1>7
<1>10. \A g \in Names : Len(disk[g]) <= Len(disk'[g])
  <2> SUFFICES ASSUME NEW g \in Names PROVE Len(disk[g]) <= Len(disk'[g])
    OBVIOUS
  <2>1. disk[g] \in Seq(Units) /\ Len(disk[g]) \in Nat
    BY <1>1
  <2>2. CASE g = f
    BY <1>7, <1>9, <2>2
  <2>3. CASE g # f
    BY <1>9, <2>1, <2>3
  <2> QED BY <2>2, <2>3
<1>11. StreamTypes'
  BY <1>0, <1>1, <1>5, <1>9 DEF StreamTypes
<1>12. ASSUME thread'[c].pc = "copy"
       PROVE  /\ thread'[c].at = at + k /\ at + k <= Len(disk'[f])
              /\ SubSeq(disk'[f], 1, at + k) = SubSeq(disk[f], 1, at) \o SubSeq(stream[x], 1, k)
  <2>1. thread'[c].at = at + k /\ j = k
    BY <1>0, <1>12 DEF at
  <2>2. units = SubSeq(stream[x], 1, k) /\ Len(units) = k
    BY <1>5, <2>1 DEF units
  <2> QED BY <1>7, <1>9, <2>1, <2>2
<1>13. Within(c)'
  BY <1>0, <1>2, <1>12 DEF Within, f
<1>14. ASSUME intact
       PROVE  /\ \A d \in Conns \ {c} : stream'[d] = stream[d] /\ taken'[d] = taken[d]
              /\ Untouched(c)' /\ Kept(c)'
  <2>1. x = c /\ Kept(c)
    BY <1>0, <1>14, OwnSocket DEF x, StoredInv
  <2>2. Untouched(c)'
    BY <1>0 DEF Untouched
  <2>3. Sent(c)' = Sent(c) /\ (Sole(c)' <=> Sole(c))
    BY <1>0 DEF Sent, Sole
  <2>4. ASSUME thread'[c].pc = "copy", Sole(c)
        PROVE  (taken[c] \o SubSeq(disk'[f], 1, at + k)) \o stream'[c] = Sent(c)
    <3> DEFINE old == SubSeq(disk[f], 1, at)
               new == SubSeq(stream[c], 1, k)
    <3>1. taken[c] \in Seq(Units) /\ old \in Seq(Units) /\ new \in Seq(Units) /\ stream'[c] \in Seq(Units)
      <4>1. taken[c] \in Seq(Units)
        BY <1>1 DEF StreamTypes
      <4>2. old \in Seq(Units)
        BY <1>2, <1>3, Parted
      <4> QED BY <1>5, <2>1, <4>1, <4>2
    <3>2. SubSeq(disk'[f], 1, at + k) = old \o new
      BY <1>12, <2>1, <2>4
    <3>3. new \o stream'[c] = stream[c]
      BY <1>5, <2>1
    <3>4. (taken[c] \o old) \o stream[c] = Sent(c)
      BY <1>0, <2>1, <2>4 DEF Kept, f, at
    <3> HIDE DEF old, new
    <3>5. (taken[c] \o (old \o new)) \o stream'[c] = (taken[c] \o old) \o (new \o stream'[c])
      <4> DEFINE head == taken[c]
                 rest == stream'[c]
      <4>1. head \in Seq(Units) /\ old \in Seq(Units) /\ new \in Seq(Units) /\ rest \in Seq(Units)
        BY <3>1
      <4> HIDE DEF head, rest
      <4>2. Chain(head, old \o new, rest) = Chain(head, old, new \o rest)
        BY <4>1, ChainMoves
      <4> QED BY <4>2 DEF Chain, head, rest
    <3> QED BY <3>2, <3>3, <3>4, <3>5
  <2>5. Kept(c)'
    BY <1>0, <1>12, <2>3, <2>4 DEF Kept, f
  <2> QED BY <1>0, <1>5, <2>1, <2>2, <2>5
<1>15. \A g \in Names : g # thread[c].filename => disk'[g] = disk[g]
  BY <1>9 DEF f
<1> QED BY <1>0, <1>10, <1>11, <1>13, <1>14, <1>15, StepStored

LEMMA ThreadStored ==
  ASSUME StoredInv, NEW c \in Conns, receive_file(c)
  PROVE  StoredInv'
<1>1. TransferInv /\ TransferInv'
  BY ThreadStep DEF StoredInv
<1>2. thread \in [Conns -> ThreadType] /\ fdt \in [Fds -> Conns \cup Names \cup {None}]
  BY <1>1 DEF TransferInv, DescriptorTypes
<1>3. \A p \in Pcs :
        LET t == [thread[c] EXCEPT !.pc = p]
        IN  t.pc = p /\ t.filename = thread[c].filename /\ t.at = thread[c].at
  BY <1>2 DEF ThreadType
<1>4. {"failed", "cut", "done"} \subseteq Pcs
  BY DEF Pcs
<1>5. \A p \in Pcs :
        thread' = [thread EXCEPT ![c].pc = p] =>
          /\ \A d \in Conns \ {c} : thread'[d] = thread[d]
          /\ thread'[c].pc = p /\ thread'[c].filename = thread[c].filename
          /\ thread'[c].at = thread[c].at
  BY <1>2, <1>3
<1>6. CASE Start(c)
  BY StartStored, <1>6
<1>7. CASE RecvName(c)
  BY RecvNameStored, <1>1, <1>7
<1>8. CASE RecvFails(c)
  <2>1. UNCHANGED <<peer, name, sends, stream, disk, taken, intact, thread>> /\ alive' = FALSE
    BY <1>8 DEF RecvFails, clientVars, fileVars
  <2>2. StreamTypes' /\ \A d \in Conns : Counted(d)' /\ Within(d)'
    BY <2>1 DEF StoredInv, StreamTypes, Counted, Within
  <2>3. \A d \in Conns : Sent(d)' = Sent(d) /\ (Sole(d)' <=> Sole(d))
    BY <2>1 DEF Sent, Sole
  <2>4. ASSUME intact', NEW d \in Conns PROVE Untouched(d)' /\ Kept(d)'
    <3>1. Untouched(d) /\ Kept(d)
      BY <2>1, <2>4 DEF StoredInv
    <3>2. Untouched(d)'
      BY <2>1, <2>3, <3>1, UntouchedSame
    <3>3. Kept(d)'
      BY <2>1, <2>3, <3>1, KeptSame
    <3> QED BY <3>2, <3>3
  <2> QED BY <1>1, <2>2, <2>4 DEF StoredInv
<1>9. CASE Open(c)
  <2>1. /\ thread[c].pc = "open" /\ thread[c].filename \in Names
        /\ UNCHANGED <<alive, peer, name, sends, stream, disk, taken, intact>>
    BY <1>2, <1>9 DEF Open, clientVars, fileVars, ThreadType
  <2>2. PICK m \in Fds : thread' = [thread EXCEPT ![c].pc = "copy", ![c].fp = m]
    BY <1>9 DEF Open
  <2>3. /\ \A d \in Conns \ {c} : thread'[d] = thread[d]
        /\ thread'[c].pc = "copy" /\ thread'[c].filename = thread[c].filename
        /\ thread'[c].at = thread[c].at
    BY <1>2, <2>2 DEF ThreadType
  <2> QED BY <1>1, <2>1, <2>3, MovedStored
<1>10. CASE OpenFails(c)
  <2>1. /\ thread' = [thread EXCEPT ![c].pc = "failed"]
        /\ UNCHANGED <<alive, peer, name, sends, stream, disk, taken, intact>>
    BY <1>10 DEF OpenFails, clientVars, fileVars
  <2>2. /\ \A d \in Conns \ {c} : thread'[d] = thread[d]
        /\ thread'[c].pc = "failed" /\ thread'[c].filename = thread[c].filename
        /\ thread'[c].at = thread[c].at
    BY <1>4, <1>5, <2>1
  <2> QED BY <1>1, <2>1, <2>2, MovedStored
<1>11. CASE Copy(c)
  <2>1. /\ thread[c].pc = "copy" /\ Socket(c) \in Conns
        /\ UNCHANGED <<alive, peer, name, sends, taken, intact>>
    BY <1>11 DEF Copy, clientVars
  <2>2. PICK k \in 1 .. Least(BuffSize, Len(stream[Socket(c)])) :
          /\ stream' = [stream EXCEPT ![Socket(c)] =
                          SubSeq(stream[Socket(c)], k + 1, Len(stream[Socket(c)]))]
          /\ disk' = [disk EXCEPT ![thread[c].filename] =
                        Written(disk[thread[c].filename], thread[c].at, SubSeq(stream[Socket(c)], 1, k))]
          /\ thread' = [thread EXCEPT ![c].at = thread[c].at + k]
    BY <1>11 DEF Copy
  <2>3. /\ \A d \in Conns \ {c} : thread'[d] = thread[d]
        /\ thread'[c].pc = "copy" /\ thread'[c].filename = thread[c].filename
        /\ thread'[c].at = thread[c].at + k
    BY <1>2, <2>1, <2>2 DEF ThreadType
  <2>4. k \in 0 .. k
    OBVIOUS
  <2>5. Wrote(c, k, k)
    BY <2>1, <2>2, <2>3, <2>4 DEF Wrote
  <2> QED BY <1>1, <2>5, WriteStored
<1>12. CASE WriteFails(c)
  <2>1. /\ thread[c].pc = "copy" /\ Socket(c) \in Faulty
        /\ thread' = [thread EXCEPT ![c].pc = "failed"]
        /\ UNCHANGED <<alive, peer, name, sends, taken, intact>>
    BY <1>12 DEF WriteFails, clientVars
  <2>2. PICK k \in 1 .. Least(BuffSize, Len(stream[Socket(c)])), j \in 0 .. BuffSize - 1 :
          /\ j < k
          /\ stream' = [stream EXCEPT ![Socket(c)] =
                          SubSeq(stream[Socket(c)], k + 1, Len(stream[Socket(c)]))]
          /\ disk' = [disk EXCEPT ![thread[c].filename] =
                        Written(disk[thread[c].filename], thread[c].at, SubSeq(stream[Socket(c)], 1, j))]
    BY <1>12 DEF WriteFails
  <2>3. /\ \A d \in Conns \ {c} : thread'[d] = thread[d]
        /\ thread'[c].pc = "failed" /\ thread'[c].filename = thread[c].filename
    BY <1>4, <1>5, <2>1
  <2>4. j \in 0 .. k
    BY <2>2
  <2>5. Socket(c) \in Conns
    BY <2>1, TransferAssumption
  <2>6. Wrote(c, k, j)
    BY <2>1, <2>2, <2>3, <2>4, <2>5 DEF Wrote
  <2> QED BY <1>1, <2>6, WriteStored
<1>13. CASE Finish(c)
  <2>1. /\ thread[c].pc = "copy"
        /\ UNCHANGED <<alive, peer, name, sends, stream, disk, taken, intact>>
    BY <1>13 DEF Finish, clientVars, fileVars
  <2>2. PICK p \in {"done", "cut"} :
          /\ thread' = [thread EXCEPT ![c].pc = p]
          /\ p = "done" /\ Socket(c) \in Conns => stream[Socket(c)] = <<>> /\ peer[Socket(c)] = "closed"
    BY <1>13 DEF Finish
  <2>3. /\ \A d \in Conns \ {c} : thread'[d] = thread[d]
        /\ thread'[c].pc = p /\ thread'[c].filename = thread[c].filename
        /\ thread'[c].at = thread[c].at
    BY <1>4, <1>5, <2>2
  <2>4. intact => Socket(c) = c
    BY <2>1, OwnSocket
  <2> QED BY <1>1, <2>1, <2>2, <2>3, <2>4, MovedStored
<1> QED BY <1>6, <1>7, <1>8, <1>9, <1>10, <1>11, <1>12, <1>13 DEF receive_file

LEMMA StoredInvKept == Spec => []StoredInv
<1>1. Init => StoredInv
  BY InitStored
<1>2. StoredInv /\ [Next]_vars => StoredInv'
  <2> SUFFICES ASSUME StoredInv, [Next]_vars PROVE StoredInv'
    OBVIOUS
  <2>1. CASE Main
    BY MainStored, <2>1
  <2>2. CASE \E c \in Conns : receive_file(c)
    BY ThreadStored, <2>2
  <2>3. CASE \E c \in Conns : Client(c)
    BY ClientStored, <2>3
  <2>4. CASE UNCHANGED vars
    <3>1. TransferInv'
      BY <2>4 DEF vars, StoredInv, TransferInv, DescriptorTypes, Fresh, Single, Exact, Owned,
                  Holds, FilesExact, HasFile
    <3>2. StreamTypes' /\ \A d \in Conns : Counted(d)' /\ Within(d)'
      BY <2>4 DEF vars, StoredInv, StreamTypes, Counted, Within
    <3>3. \A d \in Conns : Sent(d)' = Sent(d) /\ (Sole(d)' <=> Sole(d))
      BY <2>4 DEF vars, Sent, Sole
    <3>4. ASSUME intact', NEW d \in Conns PROVE Untouched(d)' /\ Kept(d)'
      <4>1. Untouched(d) /\ Kept(d)
        BY <2>4, <3>4 DEF vars, StoredInv
      <4>2. Untouched(d)'
        BY <2>4, <3>3, <4>1, UntouchedSame DEF vars
      <4>3. Kept(d)'
        BY <2>4, <3>3, <4>1, KeptSame DEF vars
      <4> QED BY <4>2, <4>3
    <3> QED BY <3>1, <3>2, <3>4 DEF StoredInv
  <2> QED BY <2>1, <2>2, <2>3, <2>4 DEF Next
<1> QED BY <1>1, <1>2, PTL DEF Spec

(* Whatever is lost, broken or killed, each variable has its type: what is *)
(* written is always written inside the file or at its end.                *)
THEOREM TransferTypes == Spec => []TypeOK
<1>1. StoredInv => TypeOK
  BY DEF StoredInv, TransferInv, DescriptorTypes, StreamTypes, ThreadType, TypeOK
<1> QED BY <1>1, StoredInvKept, PTL

(* However a client's bytes are cut into receives and whatever other       *)
(* threads do, what came with the name, the beginning of the file and what *)
(* is still to come are what the client has sent, in order and each once   *)
(* (transfer_server.c:84-108, transfer_client.c:72-87), as long as each    *)
(* thread has found its own descriptor and no other writes that file.      *)
THEOREM StoredKept == Spec => []Stored
<1>1. StoredInv => Stored
  <2> SUFFICES ASSUME StoredInv, intact, NEW c \in Conns,
                      thread[c].pc \in {"copy", "done"}, Sole(c)
               PROVE  /\ taken[c] \o SubSeq(disk[thread[c].filename], 1, thread[c].at) \o stream[c] = Sent(c)
                      /\ thread[c].pc = "done" => stream[c] = <<>>
    BY DEF Stored
  <2> QED BY DEF StoredInv, Kept
<1> QED BY <1>1, StoredInvKept, PTL

=============================================================================
