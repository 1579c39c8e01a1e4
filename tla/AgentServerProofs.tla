------------------------- MODULE AgentServerProofs -------------------------
(***************************************************************************)
(* Proofs about the agents server, for any number of clients, descriptors  *)
(* and agents: its types, and that no agent is lost or handed out twice,   *)
(* and no more clients are served than there are agents, although threads  *)
(* may share a descriptor.                                                 *)
(***************************************************************************)
EXTENDS AgentServer, FiniteSetTheorems, TLAPS

(* A descriptor was accepted before a thread reads it.                     *)
Accepted ==
  /\ main.pc # "accept" => main.conn \in Conns /\ fd # 0
  /\ \A w \in Conns :
       /\ thr[w].pc # "none" => fd # 0
       /\ thr[w].pc \in {"wait", "tell", "recv", "block", "post", "close"} => thr[w].fd # 0
       /\ thr[w].pc = "block" => thr[w].sock \in Conns

(* A connection gets one thread: it has none before main has accepted it   *)
(* and while main greets it, and it is in the backlog once.                *)
Fresh ==
  /\ main.pc # "accept" => thr[main.conn].pc = "none"
  /\ \A i \in DOMAIN backlog :
       /\ thr[backlog[i]].pc = "none"
       /\ main.pc # "accept" => backlog[i] # main.conn
       /\ peer[backlog[i]] # "none"
       /\ \A j \in DOMAIN backlog : backlog[i] = backlog[j] => i = j
  /\ \A c \in Conns : peer[c] = "none" =>
       /\ thr[c].pc = "none"
       /\ main.pc # "accept" => main.conn # c

AgentInv == TypeOK /\ Accepted /\ Fresh /\ Permits

LEMMA HoldingFinite == IsFiniteSet(Holding) /\ Cardinality(Holding) \in Nat
BY FS_Subset, FS_CardinalityType, AgentAssumption DEF Holding

(* The three ways a step of thread w changes who holds an agent.           *)
LEMMA HoldingSame ==
  ASSUME Holding' = Holding, sem' = sem, Permits
  PROVE  Permits'
BY DEF Permits

LEMMA HoldingAdd ==
  ASSUME NEW w \in Conns \ Holding, Holding' = Holding \cup {w},
         sem \in Nat, sem' = sem - 1, Permits
  PROVE  Permits'
<1>1. Cardinality(Holding') = Cardinality(Holding) + 1
  BY HoldingFinite, FS_AddElement
<1> QED BY <1>1, HoldingFinite, AgentAssumption DEF Permits

LEMMA HoldingRemove ==
  ASSUME NEW w \in Holding, Holding' = Holding \ {w},
         sem \in Nat, sem' = sem + 1, Permits
  PROVE  Permits'
<1>1. Cardinality(Holding') = Cardinality(Holding) - 1
  BY HoldingFinite, FS_RemoveElement
<1> QED BY <1>1, HoldingFinite, AgentAssumption DEF Permits

LEMMA InitAgent == Init => AgentInv
<1> SUFFICES ASSUME Init PROVE AgentInv
  OBVIOUS
<1>1. Holding = {}
  BY DEF Init, Holding
<1>2. Permits
  BY <1>1, FS_EmptySet, AgentAssumption DEF Init, Permits
<1> QED BY <1>2, AgentAssumption DEF Init, AgentInv, TypeOK, Accepted, Fresh, Fds, ThreadPcs

(* Giving an agent back never makes more of them than there are.           *)
LEMMA RoomForOne ==
  ASSUME NEW w \in Holding, sem \in Nat, Permits
  PROVE  sem + 1 \in 0 .. Agents
<1>1. Cardinality(Holding \ {w}) = Cardinality(Holding) - 1 /\ Cardinality(Holding \ {w}) \in Nat
  BY HoldingFinite, FS_RemoveElement, FS_CardinalityType
<1> QED BY <1>1, HoldingFinite, AgentAssumption DEF Permits

(* A step of a thread that exists disturbs nothing that is fresh.          *)
LEMMA RecordStep ==
  ASSUME NEW P, NEW F, NEW S, NEW r \in [pc : P, fd : F, sock : S],
         NEW p \in P, NEW n \in F, NEW s \in S
  PROVE  /\ [r EXCEPT !.pc = p, !.fd = n] \in [pc : P, fd : F, sock : S]
         /\ [r EXCEPT !.pc = p, !.sock = s] \in [pc : P, fd : F, sock : S]
OBVIOUS

LEMMA ThreadStep ==
  ASSUME TypeOK, NEW w \in Conns, NEW t \in [pc : ThreadPcs, fd : Fds \cup {0}, sock : Conns \cup {None}],
         thr' = [thr EXCEPT ![w] = t]
  PROVE  thr' \in [Conns -> [pc : ThreadPcs, fd : Fds \cup {0}, sock : Conns \cup {None}]]
BY DEF TypeOK

LEMMA GotoStep ==
  ASSUME TypeOK, NEW w \in Conns, NEW p \in ThreadPcs, Goto(w, p)
  PROVE  thr' \in [Conns -> [pc : ThreadPcs, fd : Fds \cup {0}, sock : Conns \cup {None}]]
BY DEF TypeOK, Goto

LEMMA FreshSame ==
  ASSUME TypeOK, Accepted, Fresh, UNCHANGED <<main, backlog, peer>>,
         NEW w \in Conns, thr[w].pc # "none", \A v \in Conns \ {w} : thr'[v] = thr[v]
  PROVE  Fresh'
<1>1. \A i \in DOMAIN backlog : backlog[i] \in Conns \ {w}
  BY DEF TypeOK, Fresh
<1>2. main.pc # "accept" => main.conn \in Conns \ {w}
  BY DEF Accepted, Fresh
<1> QED BY <1>1, <1>2 DEF Fresh

LEMMA StepAgent ==
  ASSUME AgentInv, [Next]_vars
  PROVE  AgentInv'
<1> USE AgentAssumption DEF AgentInv
<1>1. ASSUME UNCHANGED <<sem, thr>> PROVE Permits'
  BY <1>1 DEF Permits, Holding
<1>2. CASE accept
  <2>1. PICK n \in Fds : fd' = n /\ fdt' = [fdt EXCEPT ![n] = Head(backlog)]
    BY <1>2 DEF accept
  <2>2. /\ Head(backlog) \in Conns /\ Tail(backlog) \in Seq(Conns)
        /\ Head(backlog) = backlog[1] /\ 1 \in DOMAIN backlog
        /\ \A i \in DOMAIN Tail(backlog) :
             i \in Nat /\ i + 1 \in DOMAIN backlog /\ Tail(backlog)[i] = backlog[i + 1]
    BY <1>2 DEF accept, TypeOK
  <2>3. TypeOK' /\ Accepted'
    BY <1>2, <2>1, <2>2 DEF accept, TypeOK, Accepted, clientVars, Fds
  <2>4. Fresh'
    BY <1>2, <2>2 DEF accept, TypeOK, Fresh, clientVars
  <2> QED BY <1>1, <1>2, <2>3, <2>4 DEF accept
<1>3. CASE AcceptFails
  BY <1>1, <1>3 DEF AcceptFails, TypeOK, Accepted, Fresh, clientVars
<1>4. ASSUME NEW n, NEW reached \in SUBSET Conns, send(n, reached), TypeOK
      PROVE  /\ alive' \in BOOLEAN
             /\ rst' \in [Conns -> BOOLEAN]
             /\ told' \subseteq Conns
  BY <1>4 DEF send, TypeOK
<1>5. CASE Greet
  <2>1. alive' \in BOOLEAN /\ rst' \in [Conns -> BOOLEAN] /\ told' \subseteq Conns
    BY <1>4, <1>5 DEF Greet
  <2>2. TypeOK' /\ Accepted' /\ Fresh'
    BY <1>5, <2>1 DEF Greet, TypeOK, Accepted, Fresh, clientVars
  <2> QED BY <1>1, <1>5, <2>2 DEF Greet
<1>6. CASE CreateThread
  <2>1. Holding' = Holding
    BY <1>6 DEF CreateThread, Goto, Holding, TypeOK, Accepted, Fresh
  <2>2. Permits'
    BY <1>6, <2>1, HoldingSame DEF CreateThread
  <2>3. TypeOK'
    BY <1>6 DEF CreateThread, Goto, TypeOK, Accepted, clientVars, ThreadPcs
  <2>4. Accepted'
    BY <1>6 DEF CreateThread, Goto, TypeOK, Accepted
  <2>5. Fresh'
    BY <1>6 DEF CreateThread, Goto, TypeOK, Accepted, Fresh, clientVars
  <2> QED BY <2>2, <2>3, <2>4, <2>5
<1>7. ASSUME NEW w \in Conns, work(w)
      PROVE  AgentInv'
  <2> USE DEF TypeOK, clientVars, Goto, ThreadPcs
  <2>1. CASE ReadFd(w)
    <3>1. Holding' = Holding
      BY <2>1 DEF ReadFd, Holding
    <3>2. Permits'
      BY <2>1, <3>1, HoldingSame DEF ReadFd
    <3>7. thr' \in [Conns -> [pc : ThreadPcs, fd : Fds \cup {0}, sock : Conns \cup {None}]]
      <4> DEFINE t == [thr[w] EXCEPT !.pc = "wait", !.fd = fd]
      <4>1. t \in [pc : ThreadPcs, fd : Fds \cup {0}, sock : Conns \cup {None}]
        <5>1. thr[w] \in [pc : ThreadPcs, fd : Fds \cup {0}, sock : Conns \cup {None}] /\ fd \in Fds \cup {0} /\ "wait" \in ThreadPcs
          OBVIOUS
        <5> HIDE DEF ThreadPcs
        <5> QED BY <5>1, RecordStep
      <4>2. thr' = [thr EXCEPT ![w] = t]
        BY <2>1 DEF ReadFd
      <4> QED BY <4>1, <4>2, ThreadStep
    <3>4. TypeOK'
      BY <2>1, <3>7 DEF ReadFd
    <3>5. Accepted'
      BY <2>1 DEF ReadFd, Accepted
    <3>6. Fresh'
      BY <2>1, FreshSame DEF ReadFd
    <3> QED BY <3>2, <3>4, <3>5, <3>6
  <2>2. CASE semaphore_p(w)
    <3>1. w \notin Holding /\ Holding' = Holding \cup {w}
      BY <2>2 DEF semaphore_p, Holding
    <3>2. Permits'
      BY <2>2, <3>1, HoldingAdd DEF semaphore_p
    <3>3. sem' \in 0 .. Agents
      BY <2>2 DEF semaphore_p
    <3>4. TypeOK'
      BY <2>2, <3>3 DEF semaphore_p, Accepted
    <3>5. Accepted'
      BY <2>2, <3>3 DEF semaphore_p, Accepted
    <3>6. Fresh'
      BY <2>2, FreshSame DEF semaphore_p
    <3> QED BY <3>2, <3>4, <3>5, <3>6
  <2>3. CASE Tell(w)
    <3>1. Holding' = Holding
      BY <2>3 DEF Tell, Holding
    <3>2. Permits'
      BY <2>3, <3>1, HoldingSame DEF Tell
    <3>3. alive' \in BOOLEAN /\ rst' \in [Conns -> BOOLEAN] /\ told' \subseteq Conns
      BY <1>4, <2>3 DEF Tell
    <3>7. thr' \in [Conns -> [pc : ThreadPcs, fd : Fds \cup {0}, sock : Conns \cup {None}]]
      <4>1. Goto(w, "recv") /\ "recv" \in ThreadPcs
        BY <2>3 DEF Tell
      <4> HIDE DEF TypeOK, Goto, ThreadPcs
      <4> QED BY <4>1, GotoStep
    <3>4. TypeOK'
      BY <2>3, <3>3, <3>7 DEF Tell
    <3>5. Accepted'
      BY <2>3, <3>3 DEF Tell, Accepted
    <3>6. Fresh'
      BY <2>3, FreshSame DEF Tell
    <3> QED BY <3>2, <3>4, <3>5, <3>6
  <2>4. CASE CallRecv(w)
    <3>1. Holding' = Holding
      BY <2>4 DEF CallRecv, Holding
    <3>2. Permits'
      BY <2>4, <3>1, HoldingSame DEF CallRecv
    <3>3. thr[w].fd \in Fds
      BY <2>4 DEF CallRecv, Accepted
    <3>7. thr' \in [Conns -> [pc : ThreadPcs, fd : Fds \cup {0}, sock : Conns \cup {None}]]
      <4> DEFINE t == [thr[w] EXCEPT !.pc = "block", !.sock = fdt[thr[w].fd]]
      <4>1. t \in [pc : ThreadPcs, fd : Fds \cup {0}, sock : Conns \cup {None}]
        <5>1. /\ thr[w] \in [pc : ThreadPcs, fd : Fds \cup {0}, sock : Conns \cup {None}]
              /\ fdt[thr[w].fd] \in Conns \cup {None} /\ "block" \in ThreadPcs
          BY <3>3
        <5> HIDE DEF ThreadPcs
        <5> QED BY <5>1, RecordStep
      <4>2. CASE fdt[thr[w].fd] = None
        <5>1. Goto(w, "post") /\ "post" \in ThreadPcs
          BY <2>4, <4>2 DEF CallRecv
        <5> HIDE DEF TypeOK, Goto, ThreadPcs
        <5> QED BY <5>1, GotoStep
      <4>3. CASE fdt[thr[w].fd] # None
        <5>1. thr' = [thr EXCEPT ![w] = t]
          BY <2>4, <4>3 DEF CallRecv
        <5> QED BY <4>1, <5>1, ThreadStep
      <4> QED BY <4>2, <4>3
    <3>4. TypeOK'
      BY <2>4, <3>3, <3>7 DEF CallRecv
    <3>5. Accepted'
      BY <2>4, <3>3 DEF CallRecv, Accepted
    <3>6. Fresh'
      BY <2>4, FreshSame DEF CallRecv
    <3> QED BY <3>2, <3>4, <3>5, <3>6
  <2>5. CASE Echo(w)
    <3>1. Holding' = Holding
      BY <2>5 DEF Echo, Holding
    <3>2. Permits'
      BY <2>5, <3>1, HoldingSame DEF Echo
    <3>3. alive' \in BOOLEAN /\ rst' \in [Conns -> BOOLEAN] /\ told' \subseteq Conns
      BY <1>4, <2>5 DEF Echo
    <3>4. TypeOK'
      BY <2>5, <3>3 DEF Echo, Accepted
    <3>5. Accepted'
      BY <2>5, <3>3 DEF Echo, Accepted
    <3>6. Fresh'
      BY <2>5, FreshSame DEF Echo
    <3> QED BY <3>2, <3>4, <3>5, <3>6
  <2>6. CASE RecvEnd(w)
    <3>1. Holding' = Holding
      BY <2>6 DEF RecvEnd, Holding
    <3>2. Permits'
      BY <2>6, <3>1, HoldingSame DEF RecvEnd
    <3>4. TypeOK'
      BY <2>6 DEF RecvEnd, Accepted
    <3>5. Accepted'
      BY <2>6 DEF RecvEnd, Accepted
    <3>6. Fresh'
      BY <2>6, FreshSame DEF RecvEnd
    <3> QED BY <3>2, <3>4, <3>5, <3>6
  <2>7. CASE semaphore_v(w)
    <3>1. w \in Holding /\ Holding' = Holding \ {w}
      BY <2>7 DEF semaphore_v, Holding
    <3>2. Permits' /\ sem' \in 0 .. Agents
      BY <2>7, <3>1, HoldingRemove, RoomForOne DEF semaphore_v
    <3>3. thr' \in [Conns -> [pc : ThreadPcs, fd : Fds \cup {0}, sock : Conns \cup {None}]]
      <4>1. Goto(w, "close") /\ "close" \in ThreadPcs
        BY <2>7 DEF semaphore_v
      <4> QED BY <4>1, GotoStep
    <3>4. TypeOK'
      BY <2>7, <3>2, <3>3 DEF semaphore_v
    <3>5. Accepted'
      BY <2>7, <3>2 DEF semaphore_v, Accepted
    <3>6. Fresh'
      BY <2>7, FreshSame DEF semaphore_v
    <3> QED BY <3>2, <3>4, <3>5, <3>6
  <2>8. CASE Close(w)
    <3>1. Holding' = Holding
      BY <2>8 DEF Close, Holding
    <3>2. Permits'
      BY <2>8, <3>1, HoldingSame DEF Close
    <3>4. TypeOK'
      BY <2>8 DEF Close, Accepted
    <3>5. Accepted'
      BY <2>8 DEF Close, Accepted
    <3>6. Fresh'
      BY <2>8, FreshSame DEF Close
    <3> QED BY <3>2, <3>4, <3>5, <3>6
  <2> QED
    BY <1>7, <2>1, <2>2, <2>3, <2>4, <2>5, <2>6, <2>7, <2>8 DEF work
<1>8. ASSUME NEW c \in Conns, Connect(c) PROVE AgentInv'
  <2>1. TypeOK' /\ Accepted'
    BY <1>8 DEF Connect, TypeOK, Accepted
  <2>2. \A i \in DOMAIN backlog' :
          \/ i \in DOMAIN backlog /\ backlog'[i] = backlog[i]
          \/ i = Len(backlog) + 1 /\ i \notin DOMAIN backlog /\ backlog'[i] = c
    BY <1>8 DEF Connect, TypeOK
  <2>3. Fresh'
    BY <1>8, <2>2 DEF Connect, TypeOK, Fresh
  <2> QED BY <1>1, <1>8, <2>1, <2>3 DEF Connect
<1>9. ASSUME NEW c \in Conns, Say(c) \/ Leave(c) PROVE AgentInv'
  <2>1. TypeOK' /\ Accepted'
    BY <1>9 DEF Say, Leave, TypeOK, Accepted
  <2>2. Fresh'
    BY <1>9 DEF Say, Leave, TypeOK, Fresh
  <2> QED BY <1>1, <1>9, <2>1, <2>2 DEF Say, Leave
<1>10. CASE UNCHANGED vars
  BY <1>1, <1>10 DEF vars, TypeOK, Accepted, Fresh
<1> QED
  BY <1>2, <1>3, <1>5, <1>6, <1>7, <1>8, <1>9, <1>10 DEF Next, Main

LEMMA AgentCorrect == Spec => []AgentInv
<1>1. AgentInv /\ [Next]_vars => AgentInv'
  BY StepAgent
<1> QED BY <1>1, InitAgent, PTL DEF Spec

(* Every variable keeps its type; the semaphore stays between 0 and MAX    *)
(* (sem/server.c:97-140).                                                  *)
THEOREM AgentTypeCorrect == Spec => []TypeOK
<1>1. AgentInv => TypeOK
  BY DEF AgentInv
<1> QED BY <1>1, AgentCorrect, PTL

(* For any number of agents, clients and descriptors, every agent is free  *)
(* or taken by one thread (sem/server.c:34-52), the race for the variable  *)
(* fd included.                                                            *)
THEOREM NoAgentLost == Spec => []Permits
<1>1. AgentInv => Permits
  BY DEF AgentInv
<1> QED BY <1>1, AgentCorrect, PTL

-----------------------------------------------------------------------------
(* Clients served.  A client that was told to speak and is connected on    *)
(* both sides keeps a thread that holds an agent in recv().                *)

Speaks(c, w) ==
  /\ thr[w].pc \in {"recv", "block"}
  /\ thr[w].fd \in Fds
  /\ fdt[thr[w].fd] = c
  /\ thr[w].pc = "block" => thr[w].sock = c

ToldBy == \A c \in Served : \E w \in Conns : Speaks(c, w)

(* Who is not accepted yet has no descriptor and was told nothing.         *)
Unspoken ==
  /\ \A i \in DOMAIN backlog : backlog[i] \notin told /\ \A n \in Fds : fdt[n] # backlog[i]
  /\ \A c \in Conns : peer[c] = "none" => c \notin told /\ \A n \in Fds : fdt[n] # c

(* Resets come from clients that have left.                                *)
Honest == \A c \in Conns : rst[c] => peer[c] = "closed"

(* A connection has one descriptor at most.                                *)
Single == \A m, n \in Fds : fdt[m] \in Conns /\ fdt[m] = fdt[n] => m = n

SpeakInv == AgentInv /\ Unspoken /\ Honest /\ Single /\ ToldBy

LEMMA InitSpeak == Init => SpeakInv
<1> SUFFICES ASSUME Init PROVE SpeakInv
  OBVIOUS
<1>1. AgentInv
  BY InitAgent
<1>2. Unspoken /\ Honest /\ Single /\ ToldBy
  BY AgentAssumption DEF Init, Unspoken, Honest, Single, ToldBy, Served
<1> QED BY <1>1, <1>2 DEF SpeakInv

(* What send() does to the variables of this argument.                     *)
LEMMA SendTells ==
  ASSUME SpeakInv, NEW n \in Fds, NEW reached \in SUBSET Conns, send(n, reached),
         peer' = peer
  PROVE  /\ Honest'
         /\ \/ told' = told
            \/ /\ fdt[n] \in reached
               /\ told' = told \cup {fdt[n]}
<1>1. Honest'
  BY DEF send, SpeakInv, AgentInv, TypeOK, Honest
<1>2. CASE fdt[n] = None /\ told' = told
  BY <1>1, <1>2
<1>3. CASE \E c \in Conns : fdt[n] = c /\ (told' = told \/ told' = told \cup (reached \cap {c}))
  <2>1. PICK c \in Conns : fdt[n] = c /\ (told' = told \/ told' = told \cup (reached \cap {c}))
    BY <1>3
  <2>2. CASE c \in reached
    BY <1>1, <2>1, <2>2
  <2>3. CASE c \notin reached
    <3>1. told' = told
      BY <2>1, <2>3
    <3> QED BY <1>1, <3>1
  <2> QED BY <2>2, <2>3
<1> QED BY <1>2, <1>3 DEF send

(* A step that opens and closes nothing, tells nobody, and takes nobody's  *)
(* thread away.                                                            *)
LEMMA SpeakQuiet ==
  ASSUME SpeakInv, AgentInv', Honest', UNCHANGED <<backlog, fdt, peer, told>>,
         \A c \in Served, w \in Conns : Speaks(c, w) => Speaks(c, w)'
  PROVE  SpeakInv'
<1>1. Served' = Served
  BY DEF Served
<1>2. ToldBy'
  BY <1>1 DEF SpeakInv, ToldBy, Served
<1>3. Unspoken' /\ Single'
  BY DEF SpeakInv, Unspoken, Single
<1> QED BY <1>2, <1>3 DEF SpeakInv

LEMMA SpeakMain ==
  ASSUME SpeakInv, Main, alive
  PROVE  SpeakInv'
<1>1. AgentInv'
  BY StepAgent DEF Next, SpeakInv
<1> USE AgentAssumption DEF SpeakInv
<1>2. CASE accept
  <2> DEFINE d == Head(backlog)
  <2>1. PICK n \in Fds : fdt[n] = None /\ fdt' = [fdt EXCEPT ![n] = d]
    BY <1>2 DEF accept
  <2>2. /\ backlog # <<>> /\ backlog' = Tail(backlog)
        /\ UNCHANGED <<peer, told, thr, rst>>
    BY <1>2 DEF accept, clientVars
  <2>3. backlog \in Seq(Conns) /\ fdt \in [Fds -> Conns \cup {None}]
    BY DEF AgentInv, TypeOK
  <2>4. /\ d \in Conns /\ 1 \in DOMAIN backlog /\ d = backlog[1]
        /\ \A i \in DOMAIN Tail(backlog) :
             i \in Nat /\ i >= 1 /\ i + 1 \in DOMAIN backlog /\ Tail(backlog)[i] = backlog[i + 1]
    BY <2>2, <2>3
  <2>5. d \notin told /\ peer[d] # "none"
    BY <2>4 DEF Unspoken, AgentInv, Fresh
  <2>6. \A i \in DOMAIN Tail(backlog) : Tail(backlog)[i] # d
    <3> TAKE i \in DOMAIN Tail(backlog)
    <3>1. backlog[i + 1] = backlog[1] => i + 1 = 1
      BY <2>4 DEF AgentInv, Fresh
    <3> QED BY <2>4, <3>1
  <2> HIDE DEF d
  <2>7. \A m \in Fds : fdt'[m] = IF m = n THEN d ELSE fdt[m]
    BY <2>1, <2>3
  <2>8. Unspoken'
    <3>1. \A i \in DOMAIN backlog' :
            backlog'[i] \notin told' /\ \A m \in Fds : fdt'[m] # backlog'[i]
      BY <2>2, <2>4, <2>6, <2>7 DEF Unspoken
    <3>2. \A c \in Conns : peer'[c] = "none" => c \notin told' /\ \A m \in Fds : fdt'[m] # c
      BY <2>2, <2>5, <2>7 DEF Unspoken
    <3> QED BY <3>1, <3>2 DEF Unspoken
  <2>9. Served' \subseteq Served
    <3> SUFFICES ASSUME NEW c \in Served' PROVE c \in Served
      OBVIOUS
    <3>1. c \in told /\ peer[c] = "open" /\ \E m \in Fds : fdt'[m] = c
      BY <2>2 DEF Served
    <3>2. c # d
      BY <2>5, <3>1
    <3> QED BY <2>7, <3>1, <3>2 DEF Served
  <2>10. ToldBy'
    <3> SUFFICES ASSUME NEW c \in Served' PROVE \E w \in Conns : Speaks(c, w)'
      BY DEF ToldBy
    <3>1. PICK w \in Conns : Speaks(c, w)
      BY <2>9 DEF ToldBy
    <3>2. c # None
      BY <2>9 DEF Served, AgentInv, TypeOK
    <3>3. fdt'[thr[w].fd] = c
      BY <2>1, <2>7, <3>1, <3>2 DEF Speaks
    <3> QED BY <2>2, <3>1, <3>3 DEF Speaks
  <2>11. Honest'
    BY <2>2 DEF Honest
  <2>12. Single'
    <3>1. \A m \in Fds : fdt[m] # d
      BY <2>4 DEF Unspoken
    <3> QED BY <2>7, <3>1 DEF Single
  <2> QED BY <1>1, <2>8, <2>10, <2>11, <2>12
<1>3. CASE AcceptFails \/ CreateThread
  <2>1. UNCHANGED <<backlog, fdt, peer, told, rst>>
    BY <1>3 DEF AcceptFails, CreateThread, clientVars
  <2>2. Honest'
    BY <2>1 DEF Honest
  <2>3. \A c \in Served, w \in Conns : Speaks(c, w) => Speaks(c, w)'
    <3>1. CASE AcceptFails
      BY <2>1, <3>1 DEF AcceptFails, Speaks
    <3>2. CASE CreateThread
      <4>1. thr[main.conn].pc = "none" /\ thr' = [thr EXCEPT ![main.conn].pc = "start"]
        BY <3>2 DEF CreateThread, Goto, AgentInv, Fresh
      <4>2. \A w \in Conns : w # main.conn => thr'[w] = thr[w]
        BY <4>1 DEF AgentInv, TypeOK
      <4> QED BY <2>1, <4>1, <4>2 DEF Speaks
    <3> QED BY <1>3, <3>1, <3>2
  <2> QED BY <1>1, <2>1, <2>2, <2>3, SpeakQuiet
<1>4. CASE Greet
  <2>1. UNCHANGED <<backlog, fdt, peer, thr>> /\ send(fd, {}) /\ main.pc = "greet"
    BY <1>4 DEF Greet, clientVars
  <2>2. fd \in Fds
    BY <2>1 DEF AgentInv, Accepted, TypeOK
  <2>3. Honest' /\ told' = told
    BY <2>1, <2>2, SendTells
  <2>4. \A c \in Served, w \in Conns : Speaks(c, w) => Speaks(c, w)'
    BY <2>1 DEF Speaks
  <2> QED BY <1>1, <2>1, <2>3, <2>4, SpeakQuiet
<1> QED BY <1>2, <1>3, <1>4 DEF Main

LEMMA SpeakWork ==
  ASSUME SpeakInv, NEW v \in Conns, work(v), alive
  PROVE  SpeakInv'
<1>1. AgentInv'
  BY StepAgent DEF Next, SpeakInv
<1> USE AgentAssumption DEF SpeakInv
<1>2. thr \in [Conns -> [pc : ThreadPcs, fd : Fds \cup {0}, sock : Conns \cup {None}]]
  BY DEF AgentInv, TypeOK
<1>3. CASE ReadFd(v) \/ semaphore_p(v) \/ semaphore_v(v)
  <2>1. UNCHANGED <<backlog, fdt, peer, told, rst>> /\ thr[v].pc \in {"start", "wait", "post"}
    BY <1>3 DEF ReadFd, semaphore_p, semaphore_v, clientVars
  <2>2. \A w \in Conns \ {v} : thr'[w] = thr[w]
    BY <1>2, <1>3 DEF ReadFd, semaphore_p, semaphore_v, Goto
  <2>3. Honest'
    BY <2>1 DEF Honest
  <2>4. \A c \in Served, w \in Conns : Speaks(c, w) => Speaks(c, w)'
    BY <2>1, <2>2 DEF Speaks
  <2> QED BY <1>1, <2>1, <2>3, <2>4, SpeakQuiet
<1>4. CASE Tell(v)
  <2>1. /\ UNCHANGED <<backlog, fdt, peer>> /\ send(thr[v].fd, Conns) /\ thr[v].pc = "tell"
        /\ thr' = [thr EXCEPT ![v].pc = "recv"]
    BY <1>4 DEF Tell, Goto, clientVars
  <2>2. thr[v].fd \in Fds
    BY <1>2, <2>1 DEF AgentInv, Accepted
  <2>3. /\ Honest'
        /\ told' = told \/ (fdt[thr[v].fd] \in Conns /\ told' = told \cup {fdt[thr[v].fd]})
    BY <2>1, <2>2, SendTells
  <2>4. /\ \A w \in Conns \ {v} : thr'[w] = thr[w]
        /\ thr'[v].pc = "recv" /\ thr'[v].fd = thr[v].fd
    BY <1>2, <2>1
  <2>5. Unspoken'
    <3>1. \A i \in DOMAIN backlog : backlog[i] \notin told'
      BY <2>2, <2>3 DEF Unspoken
    <3>2. \A c \in Conns : peer[c] = "none" => c \notin told'
      BY <2>2, <2>3 DEF Unspoken
    <3> QED BY <2>1, <3>1, <3>2 DEF Unspoken
  <2>6. ToldBy'
    <3> SUFFICES ASSUME NEW c \in Served' PROVE \E w \in Conns : Speaks(c, w)'
      BY DEF ToldBy
    <3>1. CASE c = fdt[thr[v].fd]
      <4>1. Speaks(c, v)'
        BY <2>1, <2>2, <2>4, <3>1 DEF Speaks
      <4> QED BY <4>1
    <3>2. CASE c # fdt[thr[v].fd]
      <4>1. c \in Served
        BY <2>1, <2>3, <3>2 DEF Served
      <4>2. PICK w \in Conns : Speaks(c, w)
        BY <4>1 DEF ToldBy
      <4>3. w # v
        BY <2>1, <4>2 DEF Speaks
      <4> QED BY <2>1, <2>4, <4>2, <4>3 DEF Speaks
    <3> QED BY <3>1, <3>2
  <2>7. Single'
    BY <2>1 DEF Single
  <2> QED BY <1>1, <2>3, <2>5, <2>6, <2>7
<1>5. CASE CallRecv(v)
  <2>1. UNCHANGED <<backlog, fdt, peer, told, rst>> /\ thr[v].pc = "recv"
        /\ thr' = IF fdt[thr[v].fd] = None
                    THEN [thr EXCEPT ![v].pc = "post"]
                    ELSE [thr EXCEPT ![v].pc = "block", ![v].sock = fdt[thr[v].fd]]
    BY <1>5 DEF CallRecv, clientVars
  <2>2. \A w \in Conns \ {v} : thr'[w] = thr[w]
    BY <1>2, <2>1
  <2>3. fdt[thr[v].fd] # None =>
          thr'[v].pc = "block" /\ thr'[v].fd = thr[v].fd /\ thr'[v].sock = fdt[thr[v].fd]
    BY <1>2, <2>1
  <2>4. Honest'
    BY <2>1 DEF Honest
  <2>5. None \notin Served
    BY DEF Served, AgentInv, TypeOK
  <2>6. \A c \in Served, w \in Conns : Speaks(c, w) => Speaks(c, w)'
    <3> TAKE c \in Served, w \in Conns
    <3>1. CASE w # v
      BY <2>1, <2>2, <3>1 DEF Speaks
    <3>2. CASE w = v
      BY <2>1, <2>3, <2>5, <3>2 DEF Speaks
    <3> QED BY <3>1, <3>2
  <2> QED BY <1>1, <2>1, <2>4, <2>6, SpeakQuiet
<1>6. CASE Echo(v)
  <2>1. /\ UNCHANGED <<backlog, fdt, peer>> /\ send(thr[v].fd, {}) /\ thr[v].pc = "block"
        /\ thr' = [thr EXCEPT ![v].pc = "recv", ![v].sock = None]
    BY <1>6 DEF Echo, clientVars
  <2>2. thr[v].fd \in Fds
    BY <1>2, <2>1 DEF AgentInv, Accepted
  <2>3. Honest' /\ told' = told
    BY <2>1, <2>2, SendTells
  <2>4. /\ \A w \in Conns \ {v} : thr'[w] = thr[w]
        /\ thr'[v].pc = "recv" /\ thr'[v].fd = thr[v].fd
    BY <1>2, <2>1
  <2>5. \A c \in Served, w \in Conns : Speaks(c, w) => Speaks(c, w)'
    BY <2>1, <2>4 DEF Speaks
  <2> QED BY <1>1, <2>1, <2>3, <2>5, SpeakQuiet
<1>7. CASE RecvEnd(v)
  <2>1. /\ UNCHANGED <<backlog, fdt, peer, told, rst>> /\ thr[v].pc = "block"
        /\ rst[thr[v].sock] \/ peer[thr[v].sock] = "closed"
        /\ thr' = [thr EXCEPT ![v].pc = "post", ![v].sock = None]
    BY <1>7 DEF RecvEnd, clientVars
  <2>2. \A w \in Conns \ {v} : thr'[w] = thr[w]
    BY <1>2, <2>1
  <2>3. Honest'
    BY <2>1 DEF Honest
  <2>4. \A c \in Served : ~Speaks(c, v)
    <3> SUFFICES ASSUME NEW c \in Served, Speaks(c, v) PROVE FALSE
      OBVIOUS
    <3>1. thr[v].sock = c /\ peer[c] = "open" /\ c \in Conns
      BY <2>1 DEF Speaks, Served, AgentInv, TypeOK
    <3> QED BY <2>1, <3>1 DEF Honest
  <2>5. \A c \in Served, w \in Conns : Speaks(c, w) => Speaks(c, w)'
    BY <2>1, <2>2, <2>4 DEF Speaks
  <2> QED BY <1>1, <2>1, <2>3, <2>5, SpeakQuiet
<1>8. CASE Close(v)
  <2>1. /\ UNCHANGED <<backlog, peer, told, rst>> /\ thr[v].pc = "close"
        /\ fdt' = [fdt EXCEPT ![thr[v].fd] = None]
        /\ thr' = [thr EXCEPT ![v].pc = "exit", ![v].fd = 0]
    BY <1>8 DEF Close, clientVars
  <2>2. \A w \in Conns \ {v} : thr'[w] = thr[w]
    BY <1>2, <2>1
  <2>3. \A n \in Fds : fdt'[n] = IF n = thr[v].fd THEN None ELSE fdt[n]
    BY <2>1 DEF AgentInv, TypeOK
  <2>4. None \notin Conns /\ told \subseteq Conns /\ \A i \in DOMAIN backlog : backlog[i] \in Conns
    BY DEF AgentInv, TypeOK
  <2>5. Unspoken'
    BY <2>1, <2>3, <2>4 DEF Unspoken
  <2>6. Honest'
    BY <2>1 DEF Honest
  <2>7. ToldBy'
    <3> SUFFICES ASSUME NEW c \in Served' PROVE \E w \in Conns : Speaks(c, w)'
      BY DEF ToldBy
    <3>1. PICK n \in Fds : fdt'[n] = c /\ c \in told /\ peer[c] = "open"
      BY <2>1 DEF Served
    <3>2. fdt[n] = c /\ n # thr[v].fd
      BY <2>3, <2>4, <3>1
    <3>3. PICK w \in Conns : Speaks(c, w)
      BY <3>1, <3>2 DEF ToldBy, Served
    <3>4. w # v
      BY <2>1, <3>3 DEF Speaks
    <3>5. thr[w].fd = n
      BY <2>4, <3>1, <3>2, <3>3 DEF Speaks, Single
    <3> QED BY <2>2, <2>3, <3>2, <3>3, <3>4, <3>5 DEF Speaks
  <2>8. Single'
    BY <2>3, <2>4 DEF Single
  <2> QED BY <1>1, <2>5, <2>6, <2>7, <2>8
<1> QED BY <1>3, <1>4, <1>5, <1>6, <1>7, <1>8 DEF work

LEMMA SpeakClient ==
  ASSUME SpeakInv, NEW d \in Conns, Connect(d) \/ Say(d) \/ Leave(d)
  PROVE  SpeakInv'
<1>1. AgentInv'
  BY StepAgent DEF Next, SpeakInv
<1> USE AgentAssumption DEF SpeakInv
<1>2. UNCHANGED <<fdt, told, thr, rst>>
  BY DEF Connect, Say, Leave
<1>3. Single'
  BY <1>2 DEF Single
<1>4. CASE Connect(d)
  <2>1. peer[d] = "none" /\ peer' = [peer EXCEPT ![d] = "open"] /\ backlog' = Append(backlog, d)
    BY <1>4 DEF Connect
  <2>2. d \notin told /\ \A n \in Fds : fdt[n] # d
    BY <2>1 DEF Unspoken
  <2>3. backlog \in Seq(Conns) /\ peer \in [Conns -> {"none", "open", "closed"}]
    BY DEF AgentInv, TypeOK
  <2>4. \A i \in DOMAIN Append(backlog, d) :
          \/ i \in DOMAIN backlog /\ Append(backlog, d)[i] = backlog[i]
          \/ Append(backlog, d)[i] = d
    BY <2>3
  <2>5. Unspoken'
    BY <1>2, <2>1, <2>2, <2>3, <2>4 DEF Unspoken
  <2>6. Honest'
    BY <1>2, <2>1, <2>3 DEF Honest
  <2>7. Served' \subseteq Served
    BY <1>2, <2>1, <2>2, <2>3 DEF Served
  <2>8. ToldBy'
    BY <1>2, <2>7 DEF ToldBy, Speaks
  <2> QED BY <1>1, <1>3, <2>5, <2>6, <2>8
<1>5. CASE Say(d) \/ Leave(d)
  <2>1. /\ backlog' = backlog
        /\ \/ peer' = peer
           \/ peer' = [peer EXCEPT ![d] = "closed"] /\ peer[d] = "open"
    BY <1>5 DEF Say, Leave
  <2>2. \A c \in Conns : /\ peer'[c] = "none" => peer[c] = "none"
                         /\ peer'[c] = "open" => peer[c] = "open"
                         /\ peer[c] = "closed" => peer'[c] = "closed"
    BY <2>1 DEF AgentInv, TypeOK
  <2>3. Unspoken' /\ Honest'
    BY <1>2, <2>1, <2>2 DEF Unspoken, Honest
  <2>4. Served' \subseteq Served
    BY <1>2, <2>2 DEF Served, AgentInv, TypeOK
  <2>5. ToldBy'
    BY <1>2, <2>4 DEF ToldBy, Speaks
  <2> QED BY <1>1, <1>3, <2>3, <2>5
<1> QED BY <1>4, <1>5

(* The threads of the clients served are as many, and hold an agent each.  *)
LEMMA SpeakBound == SpeakInv => AtMostAgents
<1> SUFFICES ASSUME SpeakInv PROVE AtMostAgents
  OBVIOUS
<1> DEFINE g == [c \in Served |-> CHOOSE w \in Conns : Speaks(c, w)]
<1>1. \A c \in Served : g[c] \in Conns /\ Speaks(c, g[c])
  BY DEF SpeakInv, ToldBy
<1>2. g \in [Served -> Holding]
  BY <1>1 DEF Holding, Speaks
<1>3. \A c, d \in Served : g[c] = g[d] => c = d
  <2> SUFFICES ASSUME NEW c \in Served, NEW d \in Served, g[c] = g[d] PROVE c = d
    OBVIOUS
  <2> HIDE DEF g
  <2>1. Speaks(c, g[c]) /\ Speaks(d, g[c])
    BY <1>1
  <2> QED BY <2>1 DEF Speaks
<1> HIDE DEF g
<1>4. g \in Injection(Served, Holding)
  BY <1>2, <1>3 DEF Injection, IsInjective
<1>5. IsFiniteSet(Served) /\ Cardinality(Served) <= Cardinality(Holding)
  BY <1>4, HoldingFinite, FS_Injection
<1>6. Cardinality(Served) \in Nat
  BY <1>5, FS_CardinalityType
<1>7. sem \in Nat /\ sem + Cardinality(Holding) = Agents
  BY AgentAssumption DEF SpeakInv, AgentInv, TypeOK, Permits
<1> QED BY <1>5, <1>6, <1>7, HoldingFinite, AgentAssumption DEF AtMostAgents

(* For any number of agents, clients and descriptors, no more clients are  *)
(* served than there are agents (sem/server.c:18, 34-52), although two     *)
(* threads may share a descriptor, close it under each other, and meet     *)
(* another client under its number.                                        *)
THEOREM ServedBounded == Spec => []AtMostAgents
<1>1. SpeakInv /\ [Next]_vars => SpeakInv'
  <2> SUFFICES ASSUME SpeakInv, [Next]_vars PROVE SpeakInv'
    OBVIOUS
  <2>1. CASE alive /\ Main
    BY <2>1, SpeakMain
  <2>2. ASSUME NEW w \in Conns, alive, work(w) PROVE SpeakInv'
    BY <2>2, SpeakWork
  <2>3. ASSUME NEW c \in Conns, Connect(c) \/ Say(c) \/ Leave(c) PROVE SpeakInv'
    BY <2>3, SpeakClient
  <2>4. CASE UNCHANGED vars
    <3>1. AgentInv'
      BY <2>4, StepAgent DEF SpeakInv
    <3> QED BY <2>4, <3>1, SpeakQuiet DEF SpeakInv, vars, Honest, Speaks
  <2> QED BY <2>1, <2>2, <2>3, <2>4 DEF Next
<1> QED BY <1>1, InitSpeak, SpeakBound, PTL DEF Spec
=============================================================================
