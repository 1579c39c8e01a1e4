--------------------------- MODULE ChatroomProofs ---------------------------
(***************************************************************************)
(* Proofs about the chat room, for any number of connections, users and    *)
(* entries: TypeOK, that no user is online twice, and, as long as every    *)
(* worker found its own entry, that sessions are kept apart (SessionInv),  *)
(* texts bear their authors' names (AuthorInv), and a forward misses       *)
(* nobody (DeliveryInv).                                                   *)
(***************************************************************************)
EXTENDS Chatroom, TLAPS

(* What the program counters say of the locals: the facts TypeOK leans on. *)

ConnKnown == main.pc # "accept" => main.conn \in Conns
SockKnown == \A w \in Conns : thr[w].pc = "block" => loc[w].sock \in Conns
BufKnown  == \A f \in Fwds : thr[f].pc \in {"head", "body"} => arg[f] \in Conns
InTable   == \A t \in Threads : thr[t].pc = "send" => thr[t].i < MaxClient

TypeInv == TypeOK /\ ConnKnown /\ SockKnown /\ BufKnown /\ InTable

-----------------------------------------------------------------------------
(* A message built from parts of the right types is a message.             *)
LEMMA MessageType ==
  ASSUME NEW from \in Names, NEW to \in Names, NEW flag \in Flags,
         NEW body \in Bodies
  PROVE  Message(from, to, flag, body) \in Msg
BY DEF Message, Msg, Heads

LEMMA FixedMessages ==
  /\ ZeroMsg \in Msg /\ Already \in Msg /\ Welcome \in Msg
  /\ \A n \in Names : <<"online", n>> \in Bodies /\ <<"offline", n>> \in Bodies
<1>1. Nobody \in Names /\ 0 \in Flags /\ 2 \in Flags /\ 3 \in Flags
  BY DEF Names, Flags
<1>2. /\ <<"empty", Nobody>> \in Bodies
      /\ <<"already", Nobody>> \in Bodies
      /\ <<"welcome", Nobody>> \in Bodies
  BY DEF Bodies
<1>3. \A n \in Names : <<"online", n>> \in Bodies /\ <<"offline", n>> \in Bodies
  BY DEF Bodies
<1> QED
  BY <1>1, <1>2, <1>3, MessageType DEF ZeroMsg, Already, Welcome

LEMMA OutgoingType == ASSUME NEW m \in Msg PROVE Outgoing(m) \in Msg
<1>1. 2 \in Flags /\ <<"list", Nobody>> \in Bodies
  BY DEF Flags, Bodies
<1>2. m.head.from \in Names /\ m.head.to \in Names
  BY DEF Msg, Heads
<1> QED BY <1>1, <1>2, MessageType DEF Outgoing

(* Whatever send() does, what it leaves behind has its type.               *)
LEMMA SendType ==
  ASSUME NetTypeOK, NEW m \in Msg, NEW fd, chat_send(m, fd)
  PROVE  /\ alive' \in BOOLEAN
         /\ reply' \in [Conns -> Flags \cup {NoReply}]
         /\ got' \in [Conns -> SUBSET Msg]
         /\ rst' \in [Conns -> BOOLEAN]
<1>1. m.head.flag \in Flags
  BY DEF Msg, Heads
<1>2. CASE UNCHANGED <<alive, reply, got, rst>>
  BY <1>2 DEF NetTypeOK
<1>3. ASSUME NEW c \in Conns,
             reply' = [reply EXCEPT ![c] = IF @ = NoReply THEN m.head.flag ELSE @],
             got' = IF m.body[1] \in Recorded
                      THEN [got EXCEPT ![c] = @ \cup {m}]
                      ELSE got,
             UNCHANGED <<alive, rst>>
      PROVE  /\ alive' \in BOOLEAN
             /\ reply' \in [Conns -> Flags \cup {NoReply}]
             /\ got' \in [Conns -> SUBSET Msg]
             /\ rst' \in [Conns -> BOOLEAN]
  <2>1. reply' \in [Conns -> Flags \cup {NoReply}]
    BY <1>1, <1>3 DEF NetTypeOK
  <2>2. got' \in [Conns -> SUBSET Msg]
    BY <1>3 DEF NetTypeOK
  <2> QED BY <1>3, <2>1, <2>2 DEF NetTypeOK
<1>4. ASSUME NEW c \in Conns, rst' = [rst EXCEPT ![c] = TRUE],
             UNCHANGED <<alive, reply, got>>
      PROVE  /\ alive' \in BOOLEAN
             /\ reply' \in [Conns -> Flags \cup {NoReply}]
             /\ got' \in [Conns -> SUBSET Msg]
             /\ rst' \in [Conns -> BOOLEAN]
  BY <1>4 DEF NetTypeOK
<1>5. CASE alive' = FALSE /\ UNCHANGED <<reply, got, rst>>
  BY <1>5 DEF NetTypeOK
<1> QED BY <1>2, <1>3, <1>4, <1>5 DEF chat_send

-----------------------------------------------------------------------------
(* The initial states.                                                     *)
LEMMA InitType == Init => TypeInv
<1> SUFFICES ASSUME Init PROVE TypeInv
  OBVIOUS
<1> USE DEF Init, NetInit, ServerInit, ClientInit
<1>1. NetTypeOK
  BY DEF NetTypeOK, Flags, NoReply, Fds
<1>2. ServerTypeOK
  <2>1. 0 \in Fds /\ 0 \in Cells /\ Nobody \in Names
    BY NetAssumption, ServerAssumption DEF Fds, Cells, Names
  <2>2. 0 \in 0 .. MaxClient
    BY ServerAssumption
  <2> QED
    BY <2>1, <2>2, FixedMessages
       DEF ServerTypeOK, MainTypeOK, TableTypeOK, ThreadTypeOK, LocalTypeOK,
           HistoryTypeOK, Accepting, MainPcs, WorkerPcs, FwdPcs, NoLocals, Threads
<1>3. ClientTypeOK
  BY NetAssumption DEF ClientTypeOK, ClientPcs
<1>4. ConnKnown /\ SockKnown /\ BufKnown /\ InTable
  BY DEF ConnKnown, SockKnown, BufKnown, InTable, Accepting, Threads
<1> QED BY <1>1, <1>2, <1>3, <1>4 DEF TypeInv, TypeOK

-----------------------------------------------------------------------------
(* The main thread.                                                        *)

(* A step of main leaves the workers' side of TypeInv alone.               *)
LEMMA OthersKept ==
  ASSUME TypeInv, NetTypeOK', MainTypeOK', TableTypeOK', ConnKnown',
         UNCHANGED <<cli, thr, loc, rmsg, arg, histVars>>
  PROVE  TypeInv'
BY DEF TypeInv, TypeOK, ServerTypeOK, ThreadTypeOK, LocalTypeOK, HistoryTypeOK,
       ClientTypeOK, SockKnown, BufKnown, InTable, histVars

LEMMA AcceptingType == Accepting \in [pc : MainPcs, fd : Fds,
                         conn : Conns \cup {None}, from : Names, i : 0 .. MaxClient]
BY NetAssumption, ServerAssumption DEF Accepting, MainPcs, Fds, Names

LEMMA IndexType == /\ 0 \in 0 .. MaxClient
                   /\ \A i \in 0 .. MaxClient :
                        i < MaxClient => i + 1 \in 0 .. MaxClient
BY ServerAssumption

LEMMA MainType ==
  ASSUME TypeInv, Main, UNCHANGED cli
  PROVE  TypeInv'
<1> USE DEF TypeInv, TypeOK, ServerTypeOK
<1>1. CASE accept
  <2> USE <1>1 DEF accept
  <2>1. Head(backlog) \in Conns /\ Tail(backlog) \in Seq(Conns)
    BY DEF NetTypeOK
  <2>2. NetTypeOK'
    BY <2>1 DEF NetTypeOK
  <2>3. MainTypeOK' /\ ConnKnown'
    BY <2>1 DEF MainTypeOK, ConnKnown, MainPcs
  <2>4. TableTypeOK'
    BY DEF TableTypeOK
  <2> QED BY <2>2, <2>3, <2>4, OthersKept
<1>2. CASE RecvLogin
  <2> USE <1>2 DEF RecvLogin, chat_recv
  <2>1. main.conn \in Conns
    BY DEF ConnKnown
  <2>2. up[main.conn] \in Seq(Msg) /\ up[main.conn] # <<>>
    BY <2>1 DEF NetTypeOK
  <2>3. Head(up[main.conn]) \in Msg /\ Tail(up[main.conn]) \in Seq(Msg)
    BY <2>2
  <2>4. NetTypeOK'
    BY <2>1, <2>3 DEF NetTypeOK
  <2>5. Head(up[main.conn]).head.from \in Names
    BY <2>3 DEF Msg, Heads
  <2>7. MainTypeOK' /\ ConnKnown'
    BY <2>1, <2>5, IndexType DEF MainTypeOK, ConnKnown, MainPcs
  <2>6. TableTypeOK'
    BY DEF TableTypeOK
  <2> QED BY <2>4, <2>6, <2>7, OthersKept
<1>3. CASE RecvLoginFails
  <2> USE <1>3 DEF RecvLoginFails
  <2>1. NetTypeOK'
    BY DEF NetTypeOK, close
  <2>2. MainTypeOK' /\ ConnKnown'
    BY AcceptingType DEF MainTypeOK, ConnKnown, Accepting
  <2>3. TableTypeOK'
    BY DEF TableTypeOK
  <2> QED BY <2>1, <2>2, <2>3, OthersKept
<1>4. CASE check_online
  <2> USE <1>4 DEF check_online
  <2>1. NetTypeOK'
    BY DEF NetTypeOK, netVars
  <2>2. MainTypeOK' /\ ConnKnown'
    <3>1. main.i < MaxClient => main.i + 1 \in 0 .. MaxClient
      BY IndexType DEF MainTypeOK
    <3> QED BY <3>1, IndexType DEF MainTypeOK, ConnKnown, MainPcs
  <2>3. TableTypeOK'
    BY DEF TableTypeOK
  <2> QED BY <2>1, <2>2, <2>3, OthersKept
<1>5. CASE Refuse
  <2> USE <1>5 DEF Refuse
  <2>1. NetTypeOK'
    BY SendType, FixedMessages DEF NetTypeOK, close
  <2>2. MainTypeOK' /\ ConnKnown'
    BY AcceptingType DEF MainTypeOK, ConnKnown, Accepting
  <2>3. TableTypeOK'
    BY DEF TableTypeOK
  <2> QED BY <2>1, <2>2, <2>3, OthersKept
<1>6. CASE Greet
  <2> USE <1>6 DEF Greet
  <2>1. NetTypeOK'
    BY SendType, FixedMessages DEF NetTypeOK
  <2>2. MainTypeOK' /\ ConnKnown'
    BY DEF MainTypeOK, ConnKnown, MainPcs
  <2>3. TableTypeOK'
    BY DEF TableTypeOK
  <2> QED BY <2>1, <2>2, <2>3, OthersKept
<1>7. CASE find_sub
  <2> USE <1>7 DEF find_sub
  <2>1. NetTypeOK'
    BY DEF NetTypeOK, netVars
  <2>2. MainTypeOK' /\ ConnKnown'
    <3>1. main.i < MaxClient => main.i + 1 \in 0 .. MaxClient
      BY IndexType DEF MainTypeOK
    <3> QED BY <3>1, IndexType DEF MainTypeOK, ConnKnown, MainPcs
  <2>3. TableTypeOK'
    BY ServerAssumption DEF TableTypeOK, MainTypeOK, Cells
  <2> QED BY <2>1, <2>2, <2>3, OthersKept
<1>8. CASE SetOnline
  <2> USE <1>8 DEF SetOnline
  <2>1. NetTypeOK'
    BY DEF NetTypeOK
  <2>2. MainTypeOK' /\ ConnKnown'
    BY DEF MainTypeOK, ConnKnown, MainPcs
  <2>3. TableTypeOK'
    BY DEF TableTypeOK
  <2> QED BY <2>1, <2>2, <2>3, OthersKept
<1>9. CASE SetFd
  <2> USE <1>9 DEF SetFd
  <2>1. NetTypeOK'
    BY DEF NetTypeOK, netVars
  <2>2. MainTypeOK' /\ ConnKnown'
    BY DEF MainTypeOK, ConnKnown, MainPcs
  <2>3. TableTypeOK'
    BY DEF TableTypeOK, MainTypeOK
  <2> QED BY <2>1, <2>2, <2>3, OthersKept
<1>10. CASE SetName
  <2> USE <1>10 DEF SetName
  <2>1. NetTypeOK'
    BY DEF NetTypeOK, netVars
  <2>2. MainTypeOK' /\ ConnKnown'
    BY DEF MainTypeOK, ConnKnown, MainPcs
  <2>3. TableTypeOK'
    BY DEF TableTypeOK, MainTypeOK
  <2> QED BY <2>1, <2>2, <2>3, OthersKept
<1>11. CASE SpawnWorker
  <2> USE <1>11 DEF SpawnWorker
  <2>1. NetTypeOK'
    BY DEF NetTypeOK, netVars
  <2>2. MainTypeOK' /\ ConnKnown'
    BY AcceptingType DEF MainTypeOK, ConnKnown, Accepting
  <2>3. TableTypeOK' /\ LocalTypeOK' /\ ClientTypeOK'
    BY DEF TableTypeOK, LocalTypeOK, ClientTypeOK
  <2>4. ThreadTypeOK' /\ HistoryTypeOK'
    <3>1. handed' = [handed EXCEPT ![main.conn] = sub] /\ UNCHANGED <<intact, due>>
      OBVIOUS
    <3>2. HistoryTypeOK'
      BY <3>1 DEF HistoryTypeOK, TableTypeOK
    <3>3. thr' = [thr EXCEPT ![main.conn] = [thr[main.conn] EXCEPT !.pc = "start"]]
          /\ "start" \in WorkerPcs
      BY DEF Goto, WorkerPcs
    <3>4. ThreadTypeOK'
      BY <3>3 DEF ThreadTypeOK
    <3> QED BY <3>2, <3>4
  <2>5. SockKnown' /\ BufKnown' /\ InTable'
    BY DEF Goto, ThreadTypeOK, SockKnown, BufKnown, InTable, Threads
  <2> QED BY <2>1, <2>2, <2>3, <2>4, <2>5
<1> QED
  BY <1>1, <1>2, <1>3, <1>4, <1>5, <1>6, <1>7, <1>8, <1>9, <1>10, <1>11 DEF Main

-----------------------------------------------------------------------------
(* The workers and forwarders.                                             *)

(* A step of one of them leaves main and, but for the flag online, the     *)
(* table alone.                                                            *)
LEMMA MainKept ==
  ASSUME TypeInv, NetTypeOK', TableTypeOK', ThreadTypeOK', LocalTypeOK',
         HistoryTypeOK', SockKnown', BufKnown', InTable', UNCHANGED <<cli, main>>
  PROVE  TypeInv'
BY DEF TypeInv, TypeOK, ServerTypeOK, MainTypeOK, ClientTypeOK, ConnKnown

(* Only thr and due change: what is left to show of such a step.           *)
LEMMA ScanKept ==
  ASSUME TypeInv, NetTypeOK', ThreadTypeOK', HistoryTypeOK',
         SockKnown', BufKnown', InTable',
         UNCHANGED <<cli, main, sub, client, loc, rmsg, arg>>
  PROVE  TypeInv'
<1>1. TableTypeOK' /\ LocalTypeOK'
  BY DEF TypeInv, TypeOK, ServerTypeOK, TableTypeOK, LocalTypeOK
<1> QED BY <1>1, MainKept

LEMMA DueType ==
  ASSUME TypeInv, NEW t \in Threads, NEW D \in SUBSET Conns,
         due' = [due EXCEPT ![t] = D], UNCHANGED <<handed, intact>>
  PROVE  HistoryTypeOK'
BY DEF TypeInv, TypeOK, ServerTypeOK, HistoryTypeOK

LEMMA CallType ==
  ASSUME TypeInv, NEW t \in Threads, NEW m \in Msg, NEW pc \in {"recv", "exit"},
         CallForward(t, m, pc)
  PROVE  /\ ThreadTypeOK' /\ InTable'
         /\ \A u \in Threads \ {t} : thr'[u] = thr[u]
         /\ thr'[t].pc = "scan"
         /\ due' \in [Threads -> SUBSET Conns]
<1> USE DEF TypeInv, TypeOK, ServerTypeOK, CallForward
<1>1. ThreadTypeOK'
  BY IndexType DEF ThreadTypeOK, WorkerPcs
<1>2. /\ \A u \in Threads \ {t} : thr'[u] = thr[u]
      /\ thr'[t].pc = "scan"
  BY DEF ThreadTypeOK
<1>3. InTable'
  BY <1>2 DEF InTable
<1>4. due' \in [Threads -> SUBSET Conns]
  BY DEF HistoryTypeOK, Online
<1> QED BY <1>1, <1>2, <1>3, <1>4

LEMMA ReturnType ==
  ASSUME TypeInv, NEW t \in Threads, Return(t)
  PROVE  /\ ThreadTypeOK' /\ InTable'
         /\ \A u \in Threads \ {t} : thr'[u] = thr[u]
         /\ thr'[t].pc \in {"recv", "exit"}
         /\ due' \in [Threads -> SUBSET Conns]
<1> USE DEF TypeInv, TypeOK, ServerTypeOK, Return
<1>1. ThreadTypeOK'
  BY IndexType, FixedMessages DEF ThreadTypeOK, WorkerPcs
<1>2. /\ \A u \in Threads \ {t} : thr'[u] = thr[u]
      /\ thr'[t].pc \in {"recv", "exit"}
  BY DEF ThreadTypeOK
<1>3. InTable'
  BY <1>2 DEF InTable
<1>4. due' \in [Threads -> SUBSET Conns]
  BY DEF HistoryTypeOK
<1> QED BY <1>1, <1>2, <1>3, <1>4

LEMMA ForwardType ==
  ASSUME TypeInv, NEW t \in Threads, msg_forward(t), UNCHANGED cli
  PROVE  TypeInv'
<1> USE DEF TypeInv, TypeOK, ServerTypeOK
<1>0. Conns \subseteq Threads /\ Fwds \subseteq Threads
  BY DEF Threads
<1>1. ASSUME ThreadTypeOK', InTable', NetTypeOK',
             \A u \in Threads \ {t} : thr'[u] = thr[u],
             thr'[t].pc \notin {"block", "head", "body"},
             due' \in [Threads -> SUBSET Conns],
             UNCHANGED <<cli, main, sub, client, loc, rmsg, arg, handed, intact>>
      PROVE  TypeInv'
  <2>1. HistoryTypeOK'
    BY <1>1 DEF HistoryTypeOK
  <2>2. SockKnown' /\ BufKnown'
    BY <1>0, <1>1 DEF SockKnown, BufKnown
  <2> QED BY <1>1, <2>1, <2>2, ScanKept
<1>2. CASE ForwardTest(t)
  <2>1. NetTypeOK' /\ UNCHANGED <<cli, main, sub, client, loc, rmsg, arg, handed, intact>>
    BY <1>2 DEF ForwardTest, NetTypeOK, netVars
  <2>2. CASE Return(t)
    BY <1>1, <2>1, <2>2, ReturnType
  <2>3. CASE /\ thr[t].i < ScanEnd
             /\ thr' = [thr EXCEPT ![t].i = @ + 1]
             /\ UNCHANGED due
    <3>1. thr[t].i + 1 \in 0 .. MaxClient /\ thr[t].pc = "scan"
      BY <1>2, <2>3, IndexType DEF ThreadTypeOK, ScanEnd, ForwardTest
    <3>2. ThreadTypeOK' /\ thr'[t].pc = "scan" /\ \A u \in Threads \ {t} : thr'[u] = thr[u]
      BY <2>3, <3>1 DEF ThreadTypeOK
    <3>3. InTable'
      BY <3>2 DEF InTable
    <3> QED BY <1>1, <2>1, <2>3, <3>2, <3>3 DEF HistoryTypeOK
  <2>4. CASE thr[t].i < ScanEnd /\ Goto(t, "send") /\ UNCHANGED due
    <3>1. /\ ThreadTypeOK' /\ thr'[t].pc = "send" /\ thr'[t].i = thr[t].i
          /\ \A u \in Threads \ {t} : thr'[u] = thr[u]
      BY <2>4 DEF ThreadTypeOK, Goto, WorkerPcs
    <3>2. InTable'
      BY <2>4, <3>1 DEF InTable, ScanEnd
    <3> QED BY <1>1, <2>1, <2>4, <3>1, <3>2 DEF HistoryTypeOK
  <2> QED BY <1>2, <2>2, <2>3, <2>4 DEF ForwardTest
<1>3. CASE ForwardSend(t)
  <2>1. Outgoing(thr[t].msg) \in Msg
    BY OutgoingType DEF ThreadTypeOK
  <2>2. NetTypeOK' /\ UNCHANGED <<cli, main, sub, client, loc, rmsg, arg, handed, intact>>
    BY <1>3, <2>1, SendType DEF ForwardSend, NetTypeOK
  <2>3. CASE Return(t)
    BY <1>1, <2>2, <2>3, ReturnType
  <2>4. CASE /\ thr' = [thr EXCEPT ![t].pc = "scan", ![t].i = @ + 1]
             /\ UNCHANGED due
    <3>1. thr[t].i + 1 \in 0 .. MaxClient
      BY <1>3, IndexType DEF ThreadTypeOK, InTable, ForwardSend
    <3>2. ThreadTypeOK' /\ thr'[t].pc = "scan" /\ \A u \in Threads \ {t} : thr'[u] = thr[u]
      BY <2>4, <3>1 DEF ThreadTypeOK, WorkerPcs
    <3>3. InTable'
      BY <3>2 DEF InTable
    <3> QED BY <1>1, <2>2, <2>4, <3>2, <3>3 DEF HistoryTypeOK
  <2> QED BY <1>3, <2>3, <2>4 DEF ForwardSend
<1> QED BY <1>2, <1>3 DEF msg_forward

LEMMA ForwarderType ==
  ASSUME TypeInv, NEW f \in Fwds, Forwarder(f), UNCHANGED cli
  PROVE  TypeInv'
<1> USE DEF TypeInv, TypeOK, ServerTypeOK
<1>0. /\ Conns \subseteq Threads /\ Fwds \subseteq Threads
      /\ Conns \cap Fwds = {}
  BY ServerAssumption DEF Threads
<1>1. ASSUME thr[f].pc \in {"head", "body"}
      PROVE  rmsg[arg[f]] \in Msg
  BY <1>1 DEF BufKnown, LocalTypeOK
<1>2. CASE CopyHead(f)
  <2> USE <1>2 DEF CopyHead
  <2>1. NetTypeOK' /\ HistoryTypeOK'
    BY DEF NetTypeOK, netVars, HistoryTypeOK, histVars
  <2>2. [thr[f].msg EXCEPT !.head = rmsg[arg[f]].head] \in Msg
    BY <1>0, <1>1 DEF ThreadTypeOK, Msg
  <2>3. /\ ThreadTypeOK' /\ thr'[f].pc = "body"
        /\ \A u \in Threads \ {f} : thr'[u] = thr[u]
    BY <1>0, <2>2 DEF ThreadTypeOK, FwdPcs
  <2>4. SockKnown' /\ BufKnown' /\ InTable'
    BY <1>0, <2>3 DEF SockKnown, BufKnown, InTable
  <2> QED BY <2>1, <2>3, <2>4, ScanKept
<1>3. CASE CopyBody(f)
  <2> USE <1>3 DEF CopyBody
  <2>1. NetTypeOK'
    BY DEF NetTypeOK, netVars
  <2>2. [thr[f].msg EXCEPT !.body = rmsg[arg[f]].body] \in Msg
    BY <1>0, <1>1 DEF ThreadTypeOK, Msg
  <2>3. /\ ThreadTypeOK' /\ InTable'
        /\ \A u \in Threads \ {f} : thr'[u] = thr[u]
        /\ thr'[f].pc = "scan"
        /\ due' \in [Threads -> SUBSET Conns]
    BY <1>0, <2>2, CallType
  <2>4. SockKnown' /\ BufKnown' /\ HistoryTypeOK'
    BY <1>0, <2>3 DEF SockKnown, BufKnown, HistoryTypeOK
  <2> QED BY <2>1, <2>3, <2>4, ScanKept
<1>4. CASE msg_forward(f)
  BY <1>0, <1>4, ForwardType
<1> QED BY <1>2, <1>3, <1>4 DEF Forwarder

(* A worker's step to a new program counter.                               *)
LEMMA GotoType ==
  ASSUME TypeInv, NEW w \in Conns,
         NEW pc \in WorkerPcs \ {"send"}, NEW m \in Msg,
         \/ Goto(w, pc)
         \/ thr' = [thr EXCEPT ![w].pc = pc, ![w].msg = m]
  PROVE  /\ ThreadTypeOK' /\ InTable' /\ thr'[w].pc = pc
         /\ \A u \in Threads \ {w} : thr'[u] = thr[u]
<1> USE DEF TypeInv, TypeOK, ServerTypeOK
<1>0. w \in Threads
  BY DEF Threads
<1>1. /\ ThreadTypeOK' /\ thr'[w].pc = pc
      /\ \A u \in Threads \ {w} : thr'[u] = thr[u]
  BY <1>0 DEF ThreadTypeOK, Goto
<1> QED BY <1>0, <1>1 DEF InTable

LEMMA HandOverType ==
  ASSUME TypeInv, NEW w \in Threads, NEW f \in Threads, w # f,
         thr' = [thr EXCEPT ![w].pc = "recv", ![w].msg = ZeroMsg, ![f].pc = "head"]
  PROVE  /\ ThreadTypeOK' /\ thr'[w].pc = "recv" /\ thr'[f].pc = "head"
         /\ \A u \in Threads \ {w, f} : thr'[u] = thr[u]
<1> DEFINE Thread == [pc : WorkerPcs \cup FwdPcs, msg : Msg, i : 0 .. MaxClient,
                      ret : {"recv", "exit"}]
           a == [thr[w] EXCEPT !.pc = "recv", !.msg = ZeroMsg]
           b == [thr[f] EXCEPT !.pc = "head"]
<1>1. thr \in [Threads -> Thread]
  BY DEF TypeInv, TypeOK, ServerTypeOK, ThreadTypeOK
<1>2. "recv" \in WorkerPcs \cup FwdPcs /\ "head" \in WorkerPcs \cup FwdPcs
  BY DEF WorkerPcs, FwdPcs
<1>3. a \in Thread /\ b \in Thread /\ a.pc = "recv" /\ b.pc = "head"
  BY <1>1, <1>2, FixedMessages
<1>4. thr' = [[thr EXCEPT ![w] = a] EXCEPT ![f] = b]
  <2>1. thr' = [[[thr EXCEPT ![w].pc = "recv"] EXCEPT ![w].msg = ZeroMsg]
                   EXCEPT ![f].pc = "head"]
    OBVIOUS
  <2> QED BY <1>1, <2>1
<1> HIDE DEF Thread, a, b
<1>5. thr' \in [Threads -> Thread]
  BY <1>1, <1>3, <1>4
<1>6. thr'[w] = a /\ thr'[f] = b /\ \A u \in Threads \ {w, f} : thr'[u] = thr[u]
  BY <1>1, <1>4
<1> QED BY <1>3, <1>5, <1>6 DEF ThreadTypeOK, Thread

LEMMA NoticeType ==
  ASSUME TypeInv, NEW w \in Conns, NEW kind \in {"online", "offline"}
  PROVE  Notice(kind, w) \in Msg
<1>1. client[loc[w].sub].name \in Names
  BY DEF TypeInv, TypeOK, ServerTypeOK, LocalTypeOK, TableTypeOK
<1>2. <<kind, client[loc[w].sub].name>> \in Bodies
  BY <1>1, FixedMessages
<1>3. Server \in Names /\ Nobody \in Names /\ 2 \in Flags
  BY DEF Names, Flags
<1> QED BY <1>2, <1>3, MessageType DEF Notice

LEMMA WorkerType ==
  ASSUME TypeInv, NEW w \in Conns, work(w), UNCHANGED cli
  PROVE  TypeInv'
<1> USE DEF TypeInv, TypeOK, ServerTypeOK, Buffer
<1>0. /\ Conns \subseteq Threads /\ Fwds \subseteq Threads
      /\ Conns \cap Fwds = {}
  BY ServerAssumption DEF Threads
<1>1. CASE ReadSub(w)
  <2> USE <1>1 DEF ReadSub
  <2>a. NetTypeOK' /\ TableTypeOK'
    BY DEF NetTypeOK, netVars, TableTypeOK
  <2>b. HistoryTypeOK'
    BY DEF HistoryTypeOK
  <2>c. LocalTypeOK'
    <3>1. loc' = [loc EXCEPT ![w] = [loc[w] EXCEPT !.sub = sub]] /\ UNCHANGED <<rmsg, arg>>
      OBVIOUS
    <3>2. [loc[w] EXCEPT !.sub = sub] \in [sub : Cells, fd : Fds, sock : Conns \cup {None}]
      BY DEF LocalTypeOK, TableTypeOK
    <3> QED BY <3>1, <3>2 DEF LocalTypeOK
  <2>1. NetTypeOK' /\ TableTypeOK' /\ HistoryTypeOK' /\ LocalTypeOK'
    BY <2>a, <2>b, <2>c
  <2>2. /\ ThreadTypeOK' /\ InTable' /\ thr'[w].pc = "fd"
        /\ \A u \in Threads \ {w} : thr'[u] = thr[u]
    BY GotoType, FixedMessages DEF WorkerPcs
  <2>3. SockKnown' /\ BufKnown'
    BY <1>0, <2>2 DEF SockKnown, BufKnown, LocalTypeOK
  <2> QED BY <2>1, <2>2, <2>3, MainKept
<1>2. CASE ReadFd(w)
  <2> USE <1>2 DEF ReadFd
  <2>1. NetTypeOK' /\ TableTypeOK' /\ HistoryTypeOK'
    BY DEF NetTypeOK, netVars, TableTypeOK, HistoryTypeOK, histVars
  <2>2. LocalTypeOK'
    BY DEF LocalTypeOK, TableTypeOK
  <2>3. /\ ThreadTypeOK' /\ InTable' /\ thr'[w].pc = "greet"
        /\ \A u \in Threads \ {w} : thr'[u] = thr[u]
    BY GotoType, FixedMessages DEF WorkerPcs
  <2>4. SockKnown' /\ BufKnown'
    BY <1>0, <2>3 DEF SockKnown, BufKnown, LocalTypeOK
  <2> QED BY <2>1, <2>2, <2>3, <2>4, MainKept
<1>3. CASE LoginNotice(w)
  <2> USE <1>3 DEF LoginNotice
  <2>1. NetTypeOK'
    BY DEF NetTypeOK, netVars
  <2>2. /\ ThreadTypeOK' /\ InTable' /\ thr'[w].pc = "scan"
        /\ \A u \in Threads \ {w} : thr'[u] = thr[u]
        /\ due' \in [Threads -> SUBSET Conns]
    BY <1>0, CallType, NoticeType
  <2>3. SockKnown' /\ BufKnown' /\ HistoryTypeOK'
    BY <1>0, <2>2 DEF SockKnown, BufKnown, HistoryTypeOK
  <2> QED BY <2>1, <2>2, <2>3, ScanKept
<1>4. CASE CallRecv(w)
  <2> USE <1>4 DEF CallRecv
  <2>1. NetTypeOK' /\ TableTypeOK' /\ HistoryTypeOK'
    BY DEF NetTypeOK, netVars, TableTypeOK, HistoryTypeOK, histVars
  <2>2. CASE fdt[loc[w].fd] \in Conns
    <3>1. LocalTypeOK' /\ loc'[w].sock \in Conns
          /\ \A v \in Conns \ {w} : loc'[v] = loc[v]
      BY <2>2 DEF LocalTypeOK
    <3>2. /\ ThreadTypeOK' /\ InTable' /\ thr'[w].pc = "block"
          /\ \A u \in Threads \ {w} : thr'[u] = thr[u]
      <4>1. Goto(w, "block") /\ "block" \in WorkerPcs \ {"send"} /\ ZeroMsg \in Msg
        BY <2>2, FixedMessages DEF WorkerPcs
      <4> HIDE <1>4 DEF TypeInv, CallRecv
      <4> QED BY <4>1, GotoType
    <3>3. SockKnown' /\ BufKnown'
      BY <1>0, <3>1, <3>2 DEF SockKnown, BufKnown
    <3> QED BY <2>1, <3>1, <3>2, <3>3, MainKept
  <2>3. CASE fdt[loc[w].fd] \notin Conns
    <3>1. LocalTypeOK'
      <4>1. UNCHANGED <<loc, arg>> /\ \E m \in Msg : rmsg' = [rmsg EXCEPT ![w].head = m.head]
        BY <2>3, FixedMessages
      <4> HIDE <1>4 DEF CallRecv
      <4> QED BY <4>1 DEF LocalTypeOK, Msg
    <3>2. /\ ThreadTypeOK' /\ InTable' /\ thr'[w].pc = "store"
          /\ \A u \in Threads \ {w} : thr'[u] = thr[u]
      BY <2>3, GotoType, FixedMessages DEF WorkerPcs
    <3>3. SockKnown' /\ BufKnown'
      BY <1>0, <2>3, <3>2 DEF SockKnown, BufKnown
    <3> QED BY <2>1, <3>1, <3>2, <3>3, MainKept
  <2> QED BY <2>2, <2>3
<1>5. ASSUME NEW m \in Msg, NetTypeOK',
             thr' = [thr EXCEPT ![w].pc = "store", ![w].msg = m],
             loc' = [loc EXCEPT ![w].sock = None],
             rmsg' = [rmsg EXCEPT ![w].head = m.head],
             UNCHANGED <<main, sub, client, arg, histVars>>
      PROVE  TypeInv'
  <2>1. TableTypeOK' /\ HistoryTypeOK'
    BY <1>5 DEF TableTypeOK, HistoryTypeOK, histVars
  <2>2. LocalTypeOK' /\ \A v \in Conns \ {w} : loc'[v] = loc[v]
    BY <1>5 DEF LocalTypeOK, Msg
  <2>3. /\ ThreadTypeOK' /\ InTable' /\ thr'[w].pc = "store"
        /\ \A u \in Threads \ {w} : thr'[u] = thr[u]
    BY <1>5, GotoType DEF WorkerPcs
  <2>4. SockKnown' /\ BufKnown'
    BY <1>0, <1>5, <2>2, <2>3 DEF SockKnown, BufKnown
  <2> QED BY <1>5, <2>1, <2>2, <2>3, <2>4, MainKept
<1>6. CASE RecvMsg(w)
  <2> USE <1>6 DEF RecvMsg, chat_recv
  <2>1. loc[w].sock \in Conns
    BY DEF SockKnown
  <2>2. up[loc[w].sock] \in Seq(Msg) /\ up[loc[w].sock] # <<>>
    BY <2>1 DEF NetTypeOK
  <2>3. Head(up[loc[w].sock]) \in Msg /\ Tail(up[loc[w].sock]) \in Seq(Msg)
    BY <2>2
  <2>4. NetTypeOK'
    BY <2>1, <2>3 DEF NetTypeOK
  <2> QED BY <1>5, <2>3, <2>4
<1>7. CASE RecvEnd(w)
  <2>1. NetTypeOK'
    BY <1>7 DEF RecvEnd, NetTypeOK, netVars
  <2> QED BY <1>5, <1>7, <2>1, FixedMessages DEF RecvEnd
<1>8. CASE Dispatch(w)
  <2> USE <1>8 DEF Dispatch
  <2>a. UNCHANGED netVars /\ UNCHANGED <<main, sub, client, loc, histVars>>
    OBVIOUS
  <2>1. NetTypeOK' /\ TableTypeOK' /\ HistoryTypeOK'
    <3> HIDE <1>8
    <3> QED BY <2>a DEF NetTypeOK, netVars, TableTypeOK, HistoryTypeOK, histVars
  <2>2. rmsg' \in [Conns -> Msg]
    <3>1. /\ thr[w].msg.body \in Bodies
          /\ \A v \in Conns : rmsg[v] \in [head : Heads, body : Bodies]
      BY <1>0 DEF LocalTypeOK, ThreadTypeOK, Msg
    <3>2. rmsg' = [rmsg EXCEPT ![Buffer(w)] = [rmsg[Buffer(w)] EXCEPT !.body = thr[w].msg.body]]
      OBVIOUS
    <3> QED BY <3>1, <3>2 DEF LocalTypeOK, Msg
  <2>3. ASSUME NEW pc \in {"recv", "close"}, UNCHANGED arg,
               \/ Goto(w, pc)
               \/ thr' = [thr EXCEPT ![w].pc = pc, ![w].msg = ZeroMsg]
        PROVE  TypeInv'
    <3>1. /\ ThreadTypeOK' /\ InTable' /\ thr'[w].pc = pc
          /\ \A u \in Threads \ {w} : thr'[u] = thr[u]
      <4>1. pc \in WorkerPcs \ {"send"} /\ ZeroMsg \in Msg
        BY FixedMessages DEF WorkerPcs
      <4> HIDE DEF TypeInv
      <4> QED BY <2>3, <4>1, GotoType
    <3>2. LocalTypeOK'
      BY <2>2, <2>3 DEF LocalTypeOK
    <3>3. SockKnown' /\ BufKnown'
      BY <1>0, <2>3, <3>1 DEF SockKnown, BufKnown
    <3> QED BY <2>1, <3>1, <3>2, <3>3, MainKept
  <2>4. ASSUME NEW f \in Fwds, arg' = [arg EXCEPT ![f] = w],
               thr' = [thr EXCEPT ![w].pc = "recv", ![w].msg = ZeroMsg,
                                  ![f].pc = "head"]
        PROVE  TypeInv'
    <3>1. ThreadTypeOK' /\ thr'[w].pc = "recv" /\ thr'[f].pc = "head"
          /\ \A u \in Threads \ {w, f} : thr'[u] = thr[u]
      BY <1>0, <2>4, HandOverType
    <3>2. LocalTypeOK' /\ arg'[f] = w /\ \A g \in Fwds \ {f} : arg'[g] = arg[g]
      BY <2>2, <2>4 DEF LocalTypeOK
    <3>3. SockKnown' /\ BufKnown' /\ InTable'
      BY <1>0, <3>1, <3>2 DEF SockKnown, BufKnown, InTable
    <3> QED BY <2>1, <3>1, <3>2, <3>3, MainKept
  <2> QED BY <2>3, <2>4
<1>9. CASE CloseFd(w)
  <2> USE <1>9 DEF CloseFd
  <2>a. close(loc[w].fd) /\ UNCHANGED <<main, sub, client, loc, rmsg, arg, histVars>>
    OBVIOUS
  <2>b. TableTypeOK' /\ HistoryTypeOK' /\ LocalTypeOK'
    <3> HIDE <1>9
    <3> QED BY <2>a DEF TableTypeOK, HistoryTypeOK, histVars, LocalTypeOK
  <2>1. NetTypeOK' /\ TableTypeOK' /\ HistoryTypeOK' /\ LocalTypeOK'
    BY <2>b DEF NetTypeOK, close
  <2>2. /\ ThreadTypeOK' /\ InTable' /\ thr'[w].pc = "offline"
        /\ \A u \in Threads \ {w} : thr'[u] = thr[u]
    <3>1. Goto(w, "offline") /\ "offline" \in WorkerPcs \ {"send"} /\ ZeroMsg \in Msg
      BY FixedMessages DEF WorkerPcs
    <3> HIDE DEF TypeInv
    <3> QED BY <3>1, GotoType
  <2>3. SockKnown' /\ BufKnown'
    BY <1>0, <2>2 DEF SockKnown, BufKnown
  <2> QED BY <2>1, <2>2, <2>3, MainKept
<1>10. CASE SetOffline(w)
  <2> USE <1>10 DEF SetOffline
  <2>a. UNCHANGED <<netVars, sub, loc, rmsg, arg, histVars>>
    OBVIOUS
  <2>b. NetTypeOK' /\ HistoryTypeOK' /\ LocalTypeOK'
    <3> HIDE <1>10
    <3> QED BY <2>a DEF NetTypeOK, netVars, HistoryTypeOK, histVars, LocalTypeOK
  <2>1. NetTypeOK' /\ TableTypeOK' /\ HistoryTypeOK' /\ LocalTypeOK'
    BY <2>b DEF TableTypeOK
  <2>2. /\ ThreadTypeOK' /\ InTable' /\ thr'[w].pc = "bye"
        /\ \A u \in Threads \ {w} : thr'[u] = thr[u]
    BY GotoType, FixedMessages DEF WorkerPcs
  <2>3. SockKnown' /\ BufKnown'
    BY <1>0, <2>2 DEF SockKnown, BufKnown
  <2> QED BY <2>1, <2>2, <2>3, MainKept
<1>11. CASE LogoutNotice(w)
  <2> USE <1>11 DEF LogoutNotice
  <2>1. NetTypeOK' /\ TableTypeOK'
    BY DEF NetTypeOK, netVars, TableTypeOK
  <2>2. /\ ThreadTypeOK' /\ InTable' /\ thr'[w].pc = "scan"
        /\ \A u \in Threads \ {w} : thr'[u] = thr[u]
        /\ due' \in [Threads -> SUBSET Conns]
    BY <1>0, CallType, NoticeType
  <2>3. NoLocals \in [sub : Cells, fd : Fds, sock : Conns \cup {None}]
    BY NetAssumption, ServerAssumption DEF NoLocals, Cells, Fds
  <2>4. LocalTypeOK' /\ \A v \in Conns \ {w} : loc'[v] = loc[v]
    BY <2>3 DEF LocalTypeOK
  <2>5. HistoryTypeOK'
    <3>1. 0 \in Cells
      BY ServerAssumption DEF Cells
    <3> QED BY <2>2, <3>1 DEF HistoryTypeOK
  <2>6. SockKnown' /\ BufKnown'
    BY <1>0, <2>2, <2>4 DEF SockKnown, BufKnown
  <2> QED BY <2>1, <2>2, <2>4, <2>5, <2>6, MainKept
<1>12. CASE msg_forward(w)
  BY <1>0, <1>12, ForwardType
<1> QED
  BY <1>1, <1>2, <1>3, <1>4, <1>6, <1>7, <1>8, <1>9, <1>10, <1>11, <1>12 DEF work

-----------------------------------------------------------------------------
(* The clients.                                                            *)

LEMMA ClientType ==
  ASSUME TypeInv, ClientNext, UNCHANGED serverVars
  PROVE  TypeInv'
<1> USE DEF TypeInv, TypeOK
<1>1. ASSUME NetTypeOK', ClientTypeOK' PROVE TypeInv'
  BY <1>1 DEF serverVars, histVars, ServerTypeOK, MainTypeOK, TableTypeOK, ThreadTypeOK,
         LocalTypeOK, HistoryTypeOK, ConnKnown, SockKnown, BufKnown, InTable
<1>2. PICK c \in Conns : \/ socket_connect(c) \/ SendLogin(c) \/ RecvReply(c)
                        \/ client_send(c) \/ Leave(c)
  BY DEF ClientNext
<1>3. cli[c].me \in Names /\ Nobody \in Names
  BY DEF ClientTypeOK, Names
<1>4. ASSUME NEW m \in Msg, Transmit(c, m) PROVE up' \in [Conns -> Seq(Msg)]
  <2>1. up \in [Conns -> Seq(Msg)] /\ up[c] \in Seq(Msg)
    BY DEF NetTypeOK
  <2>2. Append(up[c], m) \in Seq(Msg)
    BY <2>1
  <2> QED BY <1>4, <2>1, <2>2 DEF Transmit
<1>5. ASSUME Quit(c), UNCHANGED <<alive, backlog, fdt, up, rst>>
      PROVE  NetTypeOK' /\ ClientTypeOK'
  BY <1>5 DEF Quit, Step, NetTypeOK, ClientTypeOK, ClientPcs
<1>6. CASE socket_connect(c)
  <2>1. backlog' \in Seq(Conns) /\ peer' \in [Conns -> BOOLEAN]
    BY <1>6 DEF socket_connect, NetTypeOK
  <2>2. ClientTypeOK'
    BY <1>6 DEF socket_connect, Step, ClientTypeOK, ClientPcs
  <2>3. NetTypeOK'
    BY <1>6, <2>1 DEF socket_connect, NetTypeOK
  <2> QED BY <1>1, <2>2, <2>3
<1>7. CASE SendLogin(c)
  <2>1. Message(cli[c].me, Nobody, 2, <<"empty", Nobody>>) \in Msg
    BY <1>3, MessageType DEF Flags, Bodies
  <2>2. NetTypeOK' /\ ClientTypeOK'
    BY <1>4, <1>7, <2>1 DEF SendLogin, Step, NetTypeOK, ClientTypeOK, ClientPcs
  <2> QED BY <1>1, <2>2
<1>8. CASE RecvReply(c)
  <2>1. CASE Quit(c)
    BY <1>1, <1>5, <1>8, <2>1 DEF RecvReply
  <2>2. CASE Step(c, "chat") /\ UNCHANGED <<peer, reply, got>>
    <3>1. NetTypeOK' /\ ClientTypeOK'
      BY <1>8, <2>2 DEF RecvReply, Step, NetTypeOK, ClientTypeOK, ClientPcs
    <3> QED BY <1>1, <3>1
  <2> QED BY <1>8, <2>1, <2>2 DEF RecvReply
<1>9. CASE client_send(c)
  <2>1. cli[c].sent + 1 \in 1 .. MaxSend
    BY <1>9, NetAssumption DEF client_send, ClientTypeOK
  <2>2. PICK line \in Lines :
          Transmit(c, Message(cli[c].me, line.word, FlagOf(line), <<"text",
                        [by |-> c, no |-> cli[c].sent + 1,
                         flag |-> FlagOf(line), to |-> line.word]>>))
    BY <1>9 DEF client_send
  <2>3. line.word \in Names /\ FlagOf(line) \in Flags
    <3>1. line.word \in Users \cup {Nobody}
      BY <2>2, ClientAssumption
    <3>2. FlagOf(line) \in {0, 1, 4}
      BY DEF FlagOf
    <3> QED BY <3>1, <3>2 DEF Names, Flags
  <2>4. <<"text", [by |-> c, no |-> cli[c].sent + 1,
                   flag |-> FlagOf(line), to |-> line.word]>> \in Bodies
    BY <2>1, <2>3 DEF Bodies, Texts
  <2>5. up' \in [Conns -> Seq(Msg)]
    BY <1>3, <1>4, <2>2, <2>3, <2>4, MessageType
  <2>6. cli[c].sent + 1 \in 0 .. MaxSend
    BY <2>1
  <2>7. NetTypeOK' /\ ClientTypeOK'
    BY <1>9, <2>5, <2>6 DEF client_send, NetTypeOK, ClientTypeOK
  <2> QED BY <1>1, <2>7
<1>10. CASE Leave(c)
  BY <1>1, <1>5, <1>10 DEF Leave
<1> QED BY <1>2, <1>6, <1>7, <1>8, <1>9, <1>10

LEMMA StutterType ==
  ASSUME TypeInv, UNCHANGED vars
  PROVE  TypeInv'
BY DEF vars, netVars, serverVars, histVars, TypeInv, TypeOK, NetTypeOK, ServerTypeOK,
       MainTypeOK, TableTypeOK, ThreadTypeOK, LocalTypeOK, HistoryTypeOK,
       ClientTypeOK, ConnKnown, SockKnown, BufKnown, InTable

LEMMA StepType ==
  ASSUME TypeInv, [Next]_vars
  PROVE  TypeInv'
<1>1. CASE ServerNext /\ UNCHANGED cli
  BY <1>1, MainType, WorkerType, ForwarderType DEF ServerNext
<1>2. CASE ClientNext /\ UNCHANGED serverVars
  BY <1>2, ClientType
<1>3. CASE UNCHANGED vars
  BY <1>3, StutterType
<1> QED BY <1>1, <1>2, <1>3 DEF Next

(* Every variable keeps its type, for any numbers of connections, users,   *)
(* entries and threads: no thread reads past the table, copies from a      *)
(* buffer it was not given or waits on what is not a connection            *)
(* (my_server.c as a whole; TypeInv is the inductive form).                *)
THEOREM TypeCorrect == Spec => []TypeOK
<1>1. Init => TypeInv
  BY InitType
<1>2. TypeInv /\ [Next]_vars => TypeInv'
  BY StepType
<1>3. TypeInv => TypeOK
  BY DEF TypeInv
<1> QED BY <1>1, <1>2, <1>3, PTL DEF Spec

-----------------------------------------------------------------------------
(* No user is online twice.  What check_online has seen stays true until   *)
(* main has filled the entry, because only main puts an entry online or    *)
(* names it: workers only clear online.                                    *)

NameFree ==
  /\ main.pc = "check" =>
       \A s \in Slots : s < main.i => ~IsOnline(s, main.from)
  /\ main.pc \in {"welcome", "find", "online", "fd", "name"} =>
       \A s \in Slots : ~BeingFilled(s) => ~IsOnline(s, main.from)

UniqueInv == TypeInv /\ UniqueNames /\ NameFree

(* Steps of all threads but main's.                                        *)
LEMMA OnlyOffline ==
  ASSUME UniqueInv, UNCHANGED <<main, sub>>,
         \A s \in Slots : /\ client'[s].name = client[s].name
                          /\ client'[s].online => client[s].online
  PROVE  UniqueNames' /\ NameFree'
BY DEF UniqueInv, UniqueNames, NameFree, IsOnline, BeingFilled

LEMMA WorkerUnique ==
  ASSUME UniqueInv, NEW w \in Conns, work(w)
  PROVE  UniqueNames' /\ NameFree'
<1>1. UNCHANGED <<main, sub>>
  BY DEF work, ReadSub, ReadFd, LoginNotice, CallRecv, RecvMsg, RecvEnd, Dispatch,
         CloseFd, SetOffline, LogoutNotice, msg_forward, ForwardTest, ForwardSend
<1>2. CASE SetOffline(w)
  <2>1. \A s \in Slots : /\ client'[s].name = client[s].name
                         /\ client'[s].online => client[s].online
    BY <1>2 DEF SetOffline, UniqueInv, TypeInv, TypeOK, ServerTypeOK, TableTypeOK,
                Slots, Cells
  <2> QED BY <1>1, <2>1, OnlyOffline
<1>3. CASE UNCHANGED client
  BY <1>1, <1>3, OnlyOffline
<1> QED
  BY <1>2, <1>3 DEF work, ReadSub, ReadFd, LoginNotice, CallRecv, RecvMsg, RecvEnd,
         Dispatch, CloseFd, LogoutNotice, msg_forward, ForwardTest, ForwardSend

LEMMA ForwarderUnique ==
  ASSUME UniqueInv, NEW f \in Fwds, Forwarder(f)
  PROVE  UniqueNames' /\ NameFree'
<1>1. UNCHANGED <<main, sub, client>>
  BY DEF Forwarder, CopyHead, CopyBody, msg_forward, ForwardTest, ForwardSend
<1> QED BY <1>1, OnlyOffline

LEMMA MainUnique ==
  ASSUME UniqueInv, Main
  PROVE  UniqueNames' /\ NameFree'
<1> USE DEF UniqueInv
<1>0. /\ main \in [pc : MainPcs, fd : Fds, conn : Conns \cup {None}, from : Names,
                  i : 0 .. MaxClient]
      /\ client \in [Cells -> [online : BOOLEAN, fd : Fds, name : Names]]
      /\ sub \in Cells /\ Slots \subseteq Cells
  BY DEF TypeInv, TypeOK, ServerTypeOK, MainTypeOK, TableTypeOK, Slots, Cells
<1>1. ASSUME UNCHANGED client, main.pc \notin {"fd", "name"},
             main'.pc \in {"accept", "recv", "refuse"}
      PROVE  UniqueNames' /\ NameFree'
  BY <1>1 DEF UniqueNames, NameFree, BeingFilled
<1>2. CASE accept
  BY <1>0, <1>1, <1>2 DEF accept
<1>3. CASE RecvLogin
  <2>1. main'.pc = "check" /\ main'.i = 0 /\ main.pc = "recv" /\ UNCHANGED <<client, sub>>
    BY <1>0, <1>3 DEF RecvLogin
  <2>2. \A s \in Slots : ~(s < 0)
    BY ServerAssumption DEF Slots
  <2> QED BY <2>1, <2>2 DEF UniqueNames, NameFree, BeingFilled
<1>4. CASE RecvLoginFails \/ Refuse \/ SpawnWorker
  <2>1. /\ UNCHANGED <<client, sub>> /\ main.pc \notin {"fd", "name"}
        /\ main'.pc = "accept"
    BY <1>4 DEF RecvLoginFails, Refuse, SpawnWorker, Accepting
  <2> QED BY <1>1, <2>1
<1>5. CASE check_online
  <2>0. UNCHANGED <<client, sub>> /\ main.pc = "check"
    BY <1>5 DEF check_online
  <2>1. CASE main.i = MaxClient /\ main' = [main EXCEPT !.pc = "welcome", !.i = 0]
    <3>1. main'.pc = "welcome" /\ main'.from = main.from
      BY <1>0, <2>1
    <3>2. \A s \in Slots : s < main.i
      BY <2>1, ServerAssumption DEF Slots
    <3> QED BY <2>0, <3>1, <3>2 DEF UniqueNames, NameFree, BeingFilled, IsOnline
  <2>2. CASE main' = [main EXCEPT !.pc = "refuse", !.i = 0]
    BY <1>0, <1>1, <2>0, <2>2
  <2>3. CASE ~IsOnline(main.i, main.from) /\ main' = [main EXCEPT !.i = @ + 1]
    <3>1. main'.pc = "check" /\ main'.from = main.from /\ main'.i = main.i + 1
      BY <1>0, <2>0, <2>3
    <3>2. \A s \in Slots : s < main.i + 1 => s < main.i \/ s = main.i
      BY <1>0 DEF Slots
    <3> QED BY <2>0, <2>3, <3>1, <3>2 DEF UniqueNames, NameFree, BeingFilled, IsOnline
  <2> QED BY <1>5, <2>1, <2>2, <2>3 DEF check_online
<1>6. CASE Greet
  <2>1. /\ main.pc = "welcome" /\ main'.pc = "find" /\ main'.from = main.from
        /\ UNCHANGED <<client, sub>>
    BY <1>0, <1>6 DEF Greet
  <2> QED BY <2>1 DEF UniqueNames, NameFree, BeingFilled, IsOnline
<1>7. CASE find_sub
  <2>1. /\ main.pc = "find" /\ main'.pc \in {"find", "online"}
        /\ main'.from = main.from /\ UNCHANGED client
    BY <1>0, <1>7 DEF find_sub
  <2> QED BY <2>1 DEF UniqueNames, NameFree, BeingFilled, IsOnline
<1>8. CASE SetOnline
  <2>1. /\ main.pc = "online" /\ main'.pc = "fd" /\ main'.from = main.from
        /\ sub' = sub
        /\ \A s \in Slots : /\ client'[s].name = client[s].name
                            /\ s # sub => client'[s] = client[s]
    BY <1>0, <1>8 DEF SetOnline
  <2> QED BY <2>1 DEF UniqueNames, NameFree, BeingFilled, IsOnline
<1>9. CASE SetFd
  <2>1. /\ main.pc = "fd" /\ main'.pc = "name" /\ main'.from = main.from
        /\ sub' = sub
        /\ \A s \in Slots : s # sub => client'[s] = client[s]
    BY <1>0, <1>9 DEF SetFd
  <2> QED BY <2>1 DEF UniqueNames, NameFree, BeingFilled, IsOnline
<1>10. CASE SetName
  <2>1. /\ main.pc = "name" /\ main'.pc = "spawn" /\ sub' = sub
        /\ \A s \in Slots : /\ s # sub => client'[s] = client[s]
                            /\ s = sub => client'[s].name = main.from
    BY <1>0, <1>10 DEF SetName
  <2> QED BY <2>1 DEF UniqueNames, NameFree, BeingFilled, IsOnline
<1> QED
  BY <1>2, <1>3, <1>4, <1>5, <1>6, <1>7, <1>8, <1>9, <1>10 DEF Main

(* No user is online twice, for every number of clients, users, entries    *)
(* and threads, whatever races, overflows and disconnections there are.    *)
THEOREM OneSessionPerUser == Spec => []UniqueNames
<1>1. Init => UniqueInv
  <2>1. Init => UniqueNames /\ NameFree
    BY DEF Init, ServerInit, UniqueNames, NameFree, Accepting, Slots, Cells
  <2> QED BY <2>1, InitType DEF UniqueInv
<1>2. UniqueInv /\ [Next]_vars => UniqueInv'
  <2> SUFFICES ASSUME UniqueInv, [Next]_vars PROVE UniqueNames' /\ NameFree'
    BY StepType DEF UniqueInv
  <2>1. CASE ServerNext
    BY <2>1, MainUnique, WorkerUnique, ForwarderUnique DEF ServerNext
  <2>2. CASE UNCHANGED serverVars
    BY <2>2, OnlyOffline DEF serverVars
  <2> QED BY <2>1, <2>2 DEF Next, vars
<1>3. UniqueInv => UniqueNames
  BY DEF UniqueInv
<1> QED BY <1>1, <1>2, <1>3, PTL DEF Spec

-----------------------------------------------------------------------------
(* Sessions.  As long as every worker found its own entry in &sub, each    *)
(* entry that is online belongs to one worker and one connection.          *)

Stands(w, s) == InSession(w) /\ EntryOf(w) = s

(* What is true of entry s while worker w stands for it.                   *)
Owned(w, s) ==
  /\ client[s].online
  /\ client[s].name = cli[w].me
  /\ thr[w].pc # "offline" => fdt[client[s].fd] = w
  /\ thr[w].pc \notin {"start", "fd", "offline"} => loc[w].fd = client[s].fd
  /\ thr[w].pc = "block" => loc[w].sock = w

EntriesOwned == \A w \in Conns, s \in Slots : Stands(w, s) => Owned(w, s)

OneWorker == \A s \in Slots : \A v, w \in Conns : Stands(v, s) /\ Stands(w, s) => v = w

SomeWorker ==
  \A s \in Slots :
    client[s].online /\ ~BeingAllocated(s) => \E w \in Conns : Stands(w, s)

HaveEntries == \A w \in Conns : InSession(w) /\ thr[w].pc # "start" => loc[w].sub \in Slots

(* The entry main is filling: nobody stands for it.                        *)
Allocating ==
  main.pc \in {"online", "fd", "name", "spawn"} /\ sub \in Slots =>
    /\ \A w \in Conns : ~Stands(w, sub)
    /\ client[sub].online <=> main.pc # "online"
    /\ main.pc \in {"name", "spawn"} => client[sub].fd = main.fd
    /\ main.pc = "spawn" => client[sub].name = main.from

(* The connection main serves is open.                                     *)
MainOwns == main.pc # "accept" => fdt[main.fd] = main.conn

Sessions ==
  intact => /\ EntriesOwned /\ OneWorker /\ SomeWorker /\ HaveEntries
            /\ Allocating /\ MainOwns

(* A connection main has not handed over yet has no worker.                *)
Unspawned ==
  /\ \A i \in DOMAIN backlog :
       /\ thr[backlog[i]].pc = "none"
       /\ cli[backlog[i]].pc # "start"
       /\ main.pc # "accept" => backlog[i] # main.conn
       /\ \A j \in DOMAIN backlog : backlog[i] = backlog[j] => i = j
  /\ main.pc # "accept" => /\ thr[main.conn].pc = "none"
                           /\ cli[main.conn].pc # "start"
  /\ \A c \in Conns : cli[c].pc = "start" => thr[c].pc = "none" /\ ~peer[c]

(* A message is sent under its sender's name, and a text names its author. *)
Signed(m, c) ==
  /\ m.head.from \in {cli[c].me, Nobody}
  /\ m.body[1] = "text" => m.body[2].by = c

SentAs == \A c \in Conns : \A i \in DOMAIN up[c] :
            up[c][i].head.from = cli[c].me /\ Signed(up[c][i], c)

LoginName == main.pc \notin {"accept", "recv"} => main.from = cli[main.conn].me

SessionInv == TypeInv /\ Sessions /\ Unspawned /\ SentAs /\ LoginName


LEMMA ConnsThreads ==
  /\ Conns \subseteq Threads /\ Fwds \subseteq Threads /\ Conns \cap Fwds = {}
  /\ Slots \subseteq Cells
BY ServerAssumption DEF Threads, Slots, Cells

(* A step that changes nothing sessions are made of.                       *)
LEMMA SessionsKept ==
  ASSUME Sessions, UNCHANGED <<main, sub, client, fdt, loc, handed, intact>>,
         \A c \in Conns : thr'[c] = thr[c] /\ cli'[c].me = cli[c].me
  PROVE  Sessions'
<1> SUFFICES ASSUME intact PROVE Sessions'
  BY DEF Sessions
<1>1. \A w \in Conns, s \in Slots : Stands(w, s)' <=> Stands(w, s)
  BY DEF Stands, InSession, EntryOf
<1>2. EntriesOwned'
  BY <1>1 DEF Sessions, EntriesOwned, Owned
<1>3. OneWorker'
  BY <1>1 DEF Sessions, OneWorker
<1>4. SomeWorker'
  BY <1>1 DEF Sessions, SomeWorker, BeingAllocated
<1>5. HaveEntries'
  BY DEF Sessions, HaveEntries, InSession
<1>6. Allocating' /\ MainOwns'
  <2>1. ASSUME sub \in Slots, NEW w \in Conns PROVE ~Stands(w, sub)' <=> ~Stands(w, sub)
    BY DEF Stands, InSession, EntryOf
  <2> QED BY <2>1 DEF Sessions, Allocating, MainOwns
<1> QED BY <1>2, <1>3, <1>4, <1>5, <1>6 DEF Sessions

(* A step of worker w that keeps its session: what is left to show.        *)
LEMMA SessionOf ==
  ASSUME Sessions, intact, TypeInv, Unspawned, NEW w \in Conns, thr[w].pc # "none",
         UNCHANGED <<cli, main, sub, client>>,
         \A v \in Conns \ {w} : /\ thr'[v] = thr[v]
                                /\ loc'[v] = loc[v]
                                /\ handed'[v] = handed[v],
         \A fd \in Fds : fdt[fd] # w => fdt'[fd] = fdt[fd],
         \A s \in Slots : Stands(w, s)' <=> Stands(w, s),
         \A s \in Slots : Stands(w, s) => Owned(w, s)',
         InSession(w)' /\ thr'[w].pc # "start" => loc'[w].sub \in Slots
  PROVE  Sessions'
<1>1. \A v \in Conns, s \in Slots : Stands(v, s)' <=> Stands(v, s)
  BY DEF Stands, InSession, EntryOf
<1>2. EntriesOwned'
  <2> SUFFICES ASSUME NEW v \in Conns, NEW s \in Slots, Stands(v, s), v # w
               PROVE  Owned(v, s)'
    BY <1>1 DEF EntriesOwned
  <2>1. Owned(v, s) /\ client[s].fd \in Fds
    BY ConnsThreads DEF Sessions, EntriesOwned, TypeInv, TypeOK, ServerTypeOK, TableTypeOK
  <2>2. fdt[client[s].fd] = v => fdt'[client[s].fd] = v
    BY <2>1
  <2> QED BY <2>1, <2>2 DEF Owned
<1>3. OneWorker'
  BY <1>1 DEF Sessions, OneWorker
<1>4. SomeWorker'
  BY <1>1 DEF Sessions, SomeWorker, BeingAllocated
<1>5. HaveEntries'
  BY DEF Sessions, HaveEntries, InSession
<1>6. Allocating'
  <2>1. sub \in Slots => \A v \in Conns : Stands(v, sub)' <=> Stands(v, sub)
    BY <1>1
  <2>2. sub \in Slots => \A v \in Conns : (Stands(v, sub))' => Stands(v, sub)
    BY <2>1
  <2> QED BY <2>2 DEF Sessions, Allocating
<1>7. MainOwns'
  BY DEF Sessions, MainOwns, Unspawned, TypeInv, TypeOK, ServerTypeOK, MainTypeOK
<1> QED BY <1>2, <1>3, <1>4, <1>5, <1>6, <1>7 DEF Sessions

(* Forwarding touches no session.                                          *)
LEMMA ForwardSessions ==
  ASSUME SessionInv, NEW t \in Threads, msg_forward(t), UNCHANGED cli
  PROVE  /\ UNCHANGED <<main, sub, client, backlog, peer, fdt, up, loc, rmsg, arg, handed, intact>>
         /\ \A u \in Threads \ {t} : thr'[u] = thr[u]
         /\ thr[t].pc \in {"scan", "send"}
         /\ \/ thr'[t].pc \in {"scan", "send"} /\ thr'[t].ret = thr[t].ret
            \/ thr'[t].pc = thr[t].ret /\ thr[t].ret \in {"recv", "exit"}
<1>1. /\ thr \in [Threads -> [pc : WorkerPcs \cup FwdPcs, msg : Msg, i : 0 .. MaxClient,
                              ret : {"recv", "exit"}]]
  BY DEF SessionInv, TypeInv, TypeOK, ServerTypeOK, ThreadTypeOK
<1>2. CASE ForwardTest(t)
  BY <1>1, <1>2 DEF ForwardTest, Return, Goto, netVars
<1>3. CASE ForwardSend(t)
  BY <1>1, <1>3 DEF ForwardSend, Return
<1> QED BY <1>2, <1>3 DEF msg_forward

(* A worker's steps.                                                       *)
LEMMA WorkerSessions ==
  ASSUME SessionInv, NEW w \in Conns, work(w), UNCHANGED cli
  PROVE  Sessions'
<1> SUFFICES ASSUME intact' PROVE Sessions'
  BY DEF Sessions
<1>0. /\ thr \in [Threads -> [pc : WorkerPcs \cup FwdPcs, msg : Msg, i : 0 .. MaxClient,
                              ret : {"recv", "exit"}]]
      /\ loc \in [Conns -> [sub : Cells, fd : Fds, sock : Conns \cup {None}]]
      /\ handed \in [Conns -> Cells] /\ sub \in Cells
      /\ client \in [Cells -> [online : BOOLEAN, fd : Fds, name : Names]]
      /\ fdt \in [Fds -> Conns \cup {None, Stdin}]
  BY DEF SessionInv, TypeInv, TypeOK, ServerTypeOK, ThreadTypeOK, LocalTypeOK,
         HistoryTypeOK, TableTypeOK, NetTypeOK
<1>1. /\ intact
      /\ w \in Threads
      /\ main' = main /\ sub' = sub
      /\ thr[w].pc # "none"
      /\ Conns \cap Fwds = {}
      /\ Slots \subseteq Cells
  BY ConnsThreads DEF work, ReadSub, ReadFd, LoginNotice, CallRecv, RecvMsg, RecvEnd, Dispatch,
         CloseFd, SetOffline, LogoutNotice, msg_forward, ForwardTest, ForwardSend, histVars
<1> USE DEF SessionInv
<1>2. /\ \A s \in Slots : Stands(w, s) => Owned(w, s)
      /\ InSession(w) /\ thr[w].pc # "start" => loc[w].sub \in Slots
  BY <1>1 DEF Sessions, EntriesOwned, HaveEntries
<1>3. CASE ReadSub(w)
  <2>1. /\ thr'[w].pc = "fd" /\ loc'[w].sub = sub /\ sub = handed[w] /\ sub \in Slots
        /\ \A v \in Conns \ {w} : thr'[v] = thr[v] /\ loc'[v] = loc[v]
        /\ thr[w].pc = "start" /\ UNCHANGED <<client, handed, fdt>>
        /\ loc'[w].fd = loc[w].fd
    <3>1. sub = handed[w] /\ sub # -1
      BY <1>3 DEF ReadSub
    <3>2. sub \in Slots
      BY <1>0, <3>1, ServerAssumption DEF Cells, Slots
    <3> QED BY <1>0, <1>1, <1>3, <3>1, <3>2, ConnsThreads DEF ReadSub, Goto, netVars
  <2>2. \A s \in Slots : Stands(w, s)' <=> Stands(w, s)
    BY <2>1 DEF Stands, InSession, EntryOf
  <2>3. \A s \in Slots : Stands(w, s) => Owned(w, s)'
    BY <1>2, <2>1 DEF Owned
  <2> QED BY <1>1, <2>1, <2>2, <2>3, SessionOf
<1>4. CASE ReadFd(w)
  <2>1. /\ thr'[w].pc = "greet" /\ loc'[w].sub = loc[w].sub
        /\ loc'[w].fd = client[loc[w].sub].fd
        /\ \A v \in Conns \ {w} : thr'[v] = thr[v] /\ loc'[v] = loc[v]
        /\ thr[w].pc = "fd" /\ UNCHANGED <<client, handed, fdt>>
    BY <1>0, <1>1, <1>4, ConnsThreads DEF ReadFd, Goto, netVars, histVars
  <2>2. \A s \in Slots : Stands(w, s)' <=> Stands(w, s)
    BY <2>1 DEF Stands, InSession, EntryOf
  <2>3. \A s \in Slots : Stands(w, s) => Owned(w, s)'
    BY <1>2, <2>1 DEF Owned, Stands, EntryOf
  <2>4. loc'[w].sub \in Slots
    BY <1>2, <2>1 DEF InSession
  <2> QED BY <1>1, <2>1, <2>2, <2>3, <2>4, SessionOf
(* Steps that move w from one program counter in session to another.       *)
<1>5. ASSUME \A v \in Conns \ {w} : thr'[v] = thr[v],
             UNCHANGED <<client, handed, fdt, loc>>,
             InSession(w), InSession(w)',
             thr[w].pc \notin {"start", "fd", "offline"},
             thr'[w].pc \notin {"start", "fd", "block", "offline"}
      PROVE  Sessions'
  <2>1. \A s \in Slots : Stands(w, s)' <=> Stands(w, s)
    BY <1>5 DEF Stands, EntryOf
  <2>2. \A s \in Slots : Stands(w, s) => Owned(w, s)'
    BY <1>2, <1>5 DEF Owned
  <2>3. loc'[w].sub \in Slots
    BY <1>2, <1>5
  <2> QED BY <1>1, <1>5, <2>1, <2>2, <2>3, SessionOf
<1>6. CASE LoginNotice(w)
  <2>1. /\ thr'[w].pc = "scan" /\ thr'[w].ret = "recv" /\ thr[w].pc = "greet"
        /\ \A v \in Conns \ {w} : thr'[v] = thr[v]
        /\ UNCHANGED <<client, handed, fdt, loc>>
    BY <1>0, <1>1, <1>6, ConnsThreads DEF LoginNotice, CallForward, netVars
  <2>2. InSession(w) /\ InSession(w)'
    BY <2>1 DEF InSession
  <2> QED BY <1>5, <2>1, <2>2
<1>7. CASE CallRecv(w)
  <2>1. thr[w].pc = "recv" /\ InSession(w) /\ UNCHANGED <<client, handed, fdt>>
    BY <1>7 DEF CallRecv, InSession, netVars, histVars
  <2>2. fdt[loc[w].fd] = w
    <3>1. Stands(w, loc[w].sub) /\ loc[w].sub \in Slots
      BY <1>2, <2>1 DEF Stands, EntryOf
    <3> QED BY <1>2, <2>1, <3>1 DEF Owned
  <2>3. /\ thr'[w].pc = "block" /\ \A v \in Conns \ {w} : thr'[v] = thr[v]
        /\ loc'[w].sock = w /\ loc'[w].sub = loc[w].sub /\ loc'[w].fd = loc[w].fd
        /\ \A v \in Conns \ {w} : loc'[v] = loc[v]
    BY <1>0, <1>1, <1>7, <2>2, ConnsThreads DEF CallRecv, Goto
  <2>4. \A s \in Slots : Stands(w, s)' <=> Stands(w, s)
    BY <2>1, <2>3 DEF Stands, InSession, EntryOf
  <2>5. \A s \in Slots : Stands(w, s) => Owned(w, s)'
    BY <1>2, <2>1, <2>3 DEF Owned
  <2>6. loc'[w].sub \in Slots
    BY <1>2, <2>1, <2>3
  <2> QED BY <1>1, <2>1, <2>3, <2>4, <2>5, <2>6, SessionOf
<1>8. CASE RecvMsg(w) \/ RecvEnd(w)
  <2>1. /\ thr[w].pc = "block" /\ thr'[w].pc = "store"
        /\ \A v \in Conns \ {w} : thr'[v] = thr[v] /\ loc'[v] = loc[v]
        /\ loc'[w].sub = loc[w].sub /\ loc'[w].fd = loc[w].fd
        /\ UNCHANGED <<client, handed, fdt>>
    BY <1>0, <1>1, <1>8, ConnsThreads DEF RecvMsg, RecvEnd, netVars, histVars
  <2>2. \A s \in Slots : Stands(w, s)' <=> Stands(w, s)
    BY <2>1 DEF Stands, InSession, EntryOf
  <2>3. \A s \in Slots : Stands(w, s) => Owned(w, s)'
    BY <1>2, <2>1 DEF Owned
  <2>4. loc'[w].sub \in Slots
    BY <1>2, <2>1 DEF InSession
  <2> QED BY <1>1, <2>1, <2>2, <2>3, <2>4, SessionOf
<1>9. CASE Dispatch(w)
  <2>1. thr[w].pc = "store" /\ UNCHANGED <<client, handed, fdt, loc>>
    BY <1>9 DEF Dispatch, netVars, histVars
  <2>2. thr'[w].pc \in {"recv", "close"} /\ \A v \in Conns \ {w} : thr'[v] = thr[v]
    <3>1. ASSUME NEW f \in Fwds,
                 thr' = [thr EXCEPT ![w].pc = "recv", ![w].msg = ZeroMsg, ![f].pc = "head"]
          PROVE  thr'[w].pc = "recv" /\ \A v \in Conns \ {w} : thr'[v] = thr[v]
      <4>1. w # f /\ f \in Threads /\ Conns \subseteq Threads \ {f}
        BY <1>1, ConnsThreads
      <4>2. thr'[w].pc = "recv" /\ \A u \in Threads \ {w, f} : thr'[u] = thr[u]
        BY <1>1, <3>1, <4>1, HandOverType
      <4> QED BY <4>1, <4>2
    <3>2. CASE Goto(w, "close") \/ thr' = [thr EXCEPT ![w].pc = "recv", ![w].msg = ZeroMsg]
      BY <1>0, <1>1, <3>2, ConnsThreads DEF Goto
    <3> QED BY <1>9, <3>1, <3>2 DEF Dispatch
  <2>3. InSession(w) /\ InSession(w)'
    BY <2>1, <2>2 DEF InSession
  <2> QED BY <1>5, <2>1, <2>2, <2>3
<1>10. CASE CloseFd(w)
  <2>1. /\ thr[w].pc = "close" /\ thr'[w].pc = "offline"
        /\ \A v \in Conns \ {w} : thr'[v] = thr[v]
        /\ UNCHANGED <<client, handed, loc>>
        /\ fdt' = [fdt EXCEPT ![loc[w].fd] = None]
    BY <1>0, <1>1, <1>10, ConnsThreads DEF CloseFd, Goto, close, histVars
  <2>2. fdt[loc[w].fd] = w
    <3>1. Stands(w, loc[w].sub) /\ loc[w].sub \in Slots
      BY <1>2, <2>1 DEF Stands, EntryOf, InSession
    <3> QED BY <1>2, <2>1, <3>1 DEF Owned
  <2>3. \A s \in Slots : Stands(w, s)' <=> Stands(w, s)
    BY <2>1 DEF Stands, InSession, EntryOf
  <2>4. \A s \in Slots : Stands(w, s) => Owned(w, s)'
    BY <1>2, <2>1 DEF Owned
  <2>5. \A fd \in Fds : fdt[fd] # w => fdt'[fd] = fdt[fd]
    BY <1>0, <2>1, <2>2
  <2>6. loc'[w].sub \in Slots
    BY <1>2, <2>1 DEF InSession
  <2> QED BY <1>1, <2>1, <2>3, <2>4, <2>5, <2>6, SessionOf
<1>11. CASE SetOffline(w)
  <2>1. /\ thr[w].pc = "offline" /\ thr'[w].pc = "bye" /\ InSession(w) /\ ~InSession(w)'
        /\ \A v \in Conns \ {w} : thr'[v] = thr[v]
        /\ UNCHANGED <<handed, loc, fdt>> /\ loc[w].sub \in Slots
    BY <1>0, <1>1, <1>2, <1>11, ConnsThreads DEF SetOffline, Goto, netVars, histVars, InSession
  <2>2. /\ ~client'[loc[w].sub].online
        /\ \A s \in Slots : s # loc[w].sub => client'[s] = client[s]
    BY <1>0, <1>1, <1>11, <2>1 DEF SetOffline
  <2>3. Stands(w, loc[w].sub)
    BY <2>1 DEF Stands, EntryOf
  <2>4. \A s \in Slots : ~Stands(w, s)'
    BY <2>1 DEF Stands
  <2>5. \A v \in Conns \ {w}, s \in Slots : Stands(v, s)' <=> Stands(v, s)
    BY <2>1 DEF Stands, InSession, EntryOf
  <2>6. \A v \in Conns \ {w} : ~Stands(v, loc[w].sub)
    BY <1>1, <2>1, <2>3 DEF Sessions, OneWorker
  <2>7. EntriesOwned'
    <3> SUFFICES ASSUME NEW v \in Conns \ {w}, NEW s \in Slots, Stands(v, s)
                 PROVE  Owned(v, s)'
      BY <2>4, <2>5 DEF EntriesOwned
    <3>1. Owned(v, s) /\ s # loc[w].sub
      BY <1>1, <2>6 DEF Sessions, EntriesOwned
    <3> QED BY <2>1, <2>2, <3>1 DEF Owned
  <2>8. OneWorker'
    BY <1>1, <2>4, <2>5 DEF Sessions, OneWorker
  <2>9. SomeWorker'
    <3> SUFFICES ASSUME NEW s \in Slots, client'[s].online, ~BeingAllocated(s)
                 PROVE  \E v \in Conns : Stands(v, s)'
      BY <1>1 DEF SomeWorker, BeingAllocated
    <3>1. s # loc[w].sub /\ client[s].online
      BY <2>2
    <3>2. PICK v \in Conns : Stands(v, s)
      BY <1>1, <3>1 DEF Sessions, SomeWorker
    <3>3. v # w
      BY <2>1, <3>1, <3>2 DEF Stands, EntryOf
    <3> QED BY <2>5, <3>2, <3>3
  <2>10. HaveEntries'
    BY <1>1, <2>1 DEF Sessions, HaveEntries, InSession
  <2>11. Allocating'
    <3>1. sub \in Slots => \A v \in Conns : (Stands(v, sub))' => Stands(v, sub)
      BY <1>1, <2>4, <2>5
    <3>2. main.pc \in {"online", "fd", "name", "spawn"} /\ sub \in Slots => sub # loc[w].sub
      BY <1>1, <2>3 DEF Sessions, Allocating
    <3> QED BY <1>1, <2>2, <3>1, <3>2 DEF Sessions, Allocating
  <2>12. MainOwns'
    BY <1>1, <2>1 DEF Sessions, MainOwns
  <2> QED BY <2>7, <2>8, <2>9, <2>10, <2>11, <2>12 DEF Sessions
<1>12. CASE LogoutNotice(w)
  <2>1. /\ thr[w].pc = "bye" /\ ~InSession(w) /\ ~InSession(w)'
        /\ \A v \in Conns \ {w} : /\ thr'[v] = thr[v] /\ loc'[v] = loc[v]
                                  /\ handed'[v] = handed[v]
        /\ UNCHANGED <<client, fdt>>
    BY <1>0, <1>1, <1>12, ConnsThreads DEF LogoutNotice, CallForward, netVars, InSession
  <2>2. \A s \in Slots : ~Stands(w, s) /\ ~Stands(w, s)'
    BY <2>1 DEF Stands
  <2> QED BY <1>1, <2>1, <2>2, SessionOf
<1>13. CASE msg_forward(w)
  <2>1. /\ UNCHANGED <<client, handed, fdt, loc>>
        /\ \A v \in Conns \ {w} : thr'[v] = thr[v]
        /\ thr[w].pc \in {"scan", "send"}
        /\ \/ thr'[w].pc \in {"scan", "send"} /\ thr'[w].ret = thr[w].ret
           \/ thr'[w].pc = thr[w].ret /\ thr[w].ret \in {"recv", "exit"}
    BY <1>1, <1>13, ForwardSessions, ConnsThreads
  <2>2. CASE InSession(w)
    <3>1. InSession(w)' /\ thr'[w].pc \in {"scan", "send", "recv"}
      BY <2>1, <2>2 DEF InSession
    <3> QED BY <1>5, <2>1, <2>2, <3>1
  <2>3. CASE ~InSession(w)
    <3>1. ~InSession(w)'
      BY <1>0, <1>1, <2>1, <2>3 DEF InSession
    <3>2. \A s \in Slots : ~Stands(w, s) /\ ~Stands(w, s)'
      BY <2>3, <3>1 DEF Stands
    <3> QED BY <1>1, <2>1, <3>1, <3>2, SessionOf
  <2> QED BY <2>2, <2>3
<1> QED
  BY <1>3, <1>4, <1>6, <1>7, <1>8, <1>9, <1>10, <1>11, <1>12, <1>13 DEF work

(* A step of main while no entry is being filled.                          *)
LEMMA MainSession ==
  ASSUME SessionInv, intact,
         UNCHANGED <<thr, loc, handed, client>>, cli' = cli,
         \A w \in Conns, fd \in Fds : thr[w].pc # "none" /\ fdt[fd] = w => fdt'[fd] = w,
         main.pc \notin {"fd", "name", "spawn"}, main'.pc \notin {"fd", "name", "spawn"},
         Allocating', MainOwns'
  PROVE  Sessions'
<1> USE DEF SessionInv
<1>1. \A v \in Conns, s \in Slots : Stands(v, s)' <=> Stands(v, s)
  BY DEF Stands, InSession, EntryOf
<1>2. EntriesOwned'
  <2> SUFFICES ASSUME NEW v \in Conns, NEW s \in Slots, Stands(v, s) PROVE Owned(v, s)'
    BY <1>1 DEF EntriesOwned
  <2>1. Owned(v, s) /\ client[s].fd \in Fds
    BY ConnsThreads DEF Sessions, EntriesOwned, TypeInv, TypeOK, ServerTypeOK, TableTypeOK
  <2>2. thr[v].pc # "none"
    BY DEF Stands, InSession
  <2> QED BY <2>1, <2>2 DEF Owned
<1>3. OneWorker'
  BY <1>1 DEF Sessions, OneWorker
<1>4. SomeWorker'
  BY <1>1 DEF Sessions, SomeWorker, BeingAllocated
<1>5. HaveEntries'
  BY DEF Sessions, HaveEntries, InSession
<1> QED BY <1>2, <1>3, <1>4, <1>5 DEF Sessions

LEMMA MainSessions ==
  ASSUME SessionInv, Main, UNCHANGED cli
  PROVE  Sessions'
<1> SUFFICES ASSUME intact' PROVE Sessions'
  BY DEF Sessions
<1> USE DEF SessionInv
<1>0. /\ main \in [pc : MainPcs, fd : Fds, conn : Conns \cup {None}, from : Names,
                   i : 0 .. MaxClient]
      /\ client \in [Cells -> [online : BOOLEAN, fd : Fds, name : Names]]
      /\ thr \in [Threads -> [pc : WorkerPcs \cup FwdPcs, msg : Msg, i : 0 .. MaxClient,
                              ret : {"recv", "exit"}]]
      /\ handed \in [Conns -> Cells] /\ sub \in Cells
      /\ fdt \in [Fds -> Conns \cup {None, Stdin}] /\ backlog \in Seq(Conns)
  BY DEF TypeInv, TypeOK, ServerTypeOK, ThreadTypeOK, MainTypeOK, HistoryTypeOK,
         TableTypeOK, NetTypeOK
<1>1. intact /\ intact' = intact
  BY DEF Main, accept, RecvLogin, RecvLoginFails, check_online, Refuse, Greet, find_sub,
         SetOnline, SetFd, SetName, SpawnWorker, histVars
<1>2. main.pc # "accept" => main.conn \in Conns /\ thr[main.conn].pc = "none"
  BY DEF TypeInv, ConnKnown, Unspawned
<1>3. EntriesOwned /\ OneWorker /\ SomeWorker /\ HaveEntries /\ Allocating /\ MainOwns
  BY <1>1 DEF Sessions
<1>4. CASE accept
  <2>1. PICK fd \in Fds :
          /\ IsLowestFree(fd)
          /\ fdt' = [fdt EXCEPT ![fd] = Head(backlog)]
          /\ main' = [main EXCEPT !.pc = "recv", !.fd = fd, !.conn = Head(backlog)]
    BY <1>4 DEF accept
  <2>2. main'.pc = "recv" /\ main'.fd = fd /\ main'.conn = Head(backlog)
    BY <1>0, <2>1
  <2>3. fdt'[fd] = Head(backlog) /\ \A g \in Fds : fdt[g] # None => fdt'[g] = fdt[g]
    BY <1>0, <2>1 DEF IsLowestFree
  <2>4. Allocating' /\ MainOwns'
    BY <2>2, <2>3 DEF Allocating, MainOwns
  <2>5. UNCHANGED <<thr, loc, handed, client>> /\ main.pc = "accept"
    BY <1>4 DEF accept, histVars
  <2> QED BY <1>1, <2>2, <2>3, <2>4, <2>5, NetAssumption, MainSession
<1>5. CASE RecvLogin
  <2>1. /\ main'.pc = "check" /\ main'.fd = main.fd /\ main'.conn = main.conn
        /\ main.pc = "recv" /\ UNCHANGED <<thr, loc, handed, client, fdt>>
    BY <1>0, <1>5 DEF RecvLogin, histVars
  <2>2. Allocating' /\ MainOwns'
    BY <1>3, <2>1 DEF Allocating, MainOwns
  <2> QED BY <1>1, <2>1, <2>2, MainSession
<1>6. CASE RecvLoginFails \/ Refuse
  <2>1. /\ main'.pc = "accept" /\ main.pc \in {"recv", "refuse"}
        /\ fdt' = [fdt EXCEPT ![main.fd] = None]
        /\ UNCHANGED <<thr, loc, handed, client>>
    <3>1. CASE RecvLoginFails
      BY <3>1 DEF RecvLoginFails, close, Accepting, histVars
    <3>2. CASE Refuse
      BY <3>2 DEF Refuse, close, Accepting, histVars
    <3> QED BY <1>6, <3>1, <3>2
  <2>2. fdt[main.fd] = main.conn
    BY <1>3, <2>1 DEF MainOwns
  <2>3. \A w \in Conns, fd \in Fds : thr[w].pc # "none" /\ fdt[fd] = w => fdt'[fd] = w
    BY <1>0, <1>2, <2>1, <2>2
  <2>4. Allocating' /\ MainOwns'
    BY <2>1 DEF Allocating, MainOwns
  <2> QED BY <1>1, <2>1, <2>3, <2>4, MainSession
<1>7. CASE check_online \/ Greet
  <2>1. /\ main'.pc \in {"check", "welcome", "refuse", "find"}
        /\ main'.fd = main.fd /\ main'.conn = main.conn
        /\ main.pc \in {"check", "welcome"} /\ UNCHANGED <<thr, loc, handed, client, fdt>>
    BY <1>0, <1>7 DEF check_online, Greet, netVars, histVars
  <2>2. Allocating' /\ MainOwns'
    BY <1>3, <2>1 DEF Allocating, MainOwns
  <2> QED BY <1>1, <2>1, <2>2, MainSession
<1>8. CASE find_sub
  <2>1. /\ main'.pc \in {"find", "online"}
        /\ main'.fd = main.fd /\ main'.conn = main.conn
        /\ main.pc = "find" /\ UNCHANGED <<thr, loc, handed, client, fdt>>
    BY <1>0, <1>8 DEF find_sub, netVars, histVars
  <2>2. MainOwns'
    BY <1>3, <2>1 DEF MainOwns
  <2>3. main'.pc = "online" => sub' = -1 \/ (sub' = main.i /\ ~client[main.i].online)
    BY <1>0, <1>8 DEF find_sub, Free
  <2>4. Allocating'
    <3> SUFFICES ASSUME main'.pc = "online", sub' \in Slots
                 PROVE  ~client[sub'].online /\ \A w \in Conns : ~(Stands(w, sub))'
      BY <2>1 DEF Allocating
    <3>1. sub' # -1
      BY ServerAssumption DEF Slots
    <3>2. ~client[sub'].online
      BY <2>3, <3>1
    <3>3. ASSUME NEW w \in Conns, (Stands(w, sub))' PROVE FALSE
      <4>1. InSession(w) /\ EntryOf(w) = sub'
        BY <2>1, <3>3 DEF Stands, InSession, EntryOf
      <4>2. Stands(w, EntryOf(w)) /\ EntryOf(w) \in Slots
        BY <4>1 DEF Stands
      <4>3. client[EntryOf(w)].online
        BY <1>3, <4>2 DEF EntriesOwned, Owned
      <4> QED BY <3>2, <4>1, <4>3
    <3> QED BY <3>2, <3>3
  <2> QED BY <1>1, <2>1, <2>2, <2>4, MainSession
(* The assignments to the entry: the others keep theirs.                   *)
<1>9. ASSUME UNCHANGED <<thr, loc, handed, fdt, sub>>,
             main.pc \in {"online", "fd", "name"}, main'.pc \in {"fd", "name", "spawn"},
             main'.fd = main.fd, main'.conn = main.conn,
             \A s \in Slots : s # sub => client'[s] = client[s],
             sub \in Slots => /\ client'[sub].online
                              /\ main'.pc # "fd" => client'[sub].fd = main.fd
                              /\ main'.pc = "spawn" => client'[sub].name = main'.from
      PROVE  Sessions'
  <2>1. \A v \in Conns, s \in Slots : Stands(v, s)' <=> Stands(v, s)
    BY <1>9 DEF Stands, InSession, EntryOf
  <2>2. \A v \in Conns, s \in Slots : Stands(v, s) => s # sub
    BY <1>3, <1>9 DEF Allocating
  <2>3. EntriesOwned'
    <3> SUFFICES ASSUME NEW v \in Conns, NEW s \in Slots, Stands(v, s) PROVE Owned(v, s)'
      BY <2>1 DEF EntriesOwned
    <3>1. Owned(v, s) /\ client'[s] = client[s]
      BY <1>3, <1>9, <2>2 DEF EntriesOwned
    <3> QED BY <1>9, <3>1 DEF Owned
  <2>4. OneWorker'
    BY <1>3, <2>1 DEF OneWorker
  <2>5. SomeWorker'
    BY <1>3, <1>9, <2>1 DEF SomeWorker, BeingAllocated
  <2>6. HaveEntries'
    BY <1>3, <1>9 DEF HaveEntries, InSession
  <2>7. Allocating'
    <3>1. sub \in Slots => \A v \in Conns : ~(Stands(v, sub))'
      BY <1>9, <2>1, <2>2
    <3> QED BY <1>9, <3>1 DEF Allocating
  <2>8. MainOwns'
    BY <1>3, <1>9 DEF MainOwns
  <2> QED BY <2>3, <2>4, <2>5, <2>6, <2>7, <2>8 DEF Sessions
<1>10. CASE SetOnline
  BY <1>0, <1>9, <1>10 DEF SetOnline, histVars
<1>11. CASE SetFd
  <2>1. sub \in Slots => client[sub].online
    BY <1>3, <1>11 DEF SetFd, Allocating
  <2> QED BY <1>0, <1>9, <1>11, <2>1 DEF SetFd, netVars, histVars
<1>12. CASE SetName
  <2>1. sub \in Slots => client[sub].online /\ client[sub].fd = main.fd
    BY <1>3, <1>12 DEF SetName, Allocating
  <2>2. /\ main'.pc = "spawn" /\ main'.from = main.from /\ main'.fd = main.fd
        /\ main'.conn = main.conn /\ main.pc = "name"
        /\ UNCHANGED <<thr, loc, handed, fdt, sub>>
    BY <1>0, <1>12 DEF SetName, netVars, histVars
  <2>3. /\ \A s \in Slots : s # sub => client'[s] = client[s]
        /\ sub \in Slots => /\ client'[sub].online = client[sub].online
                            /\ client'[sub].fd = client[sub].fd
                            /\ client'[sub].name = main.from
    BY <1>0, <1>12, ConnsThreads DEF SetName
  <2> QED BY <1>9, <2>1, <2>2, <2>3
<1>13. CASE SpawnWorker
  <2>0. PICK c \in Conns : c = main.conn
    BY <1>2, <1>13 DEF SpawnWorker
  <2>1. /\ main.pc = "spawn" /\ main'.pc = "accept"
        /\ UNCHANGED <<client, loc, fdt, sub>>
    BY <1>13 DEF SpawnWorker, Accepting, netVars
  <2>2. /\ thr[c].pc = "none" /\ thr'[c].pc = "start" /\ handed'[c] = sub
        /\ \A v \in Conns \ {c} : thr'[v] = thr[v] /\ handed'[v] = handed[v]
    BY <1>0, <1>2, <1>13, <2>0, <2>1, ConnsThreads DEF SpawnWorker, Goto
  <2>3. \A s \in Slots : ~Stands(c, s) /\ (Stands(c, s)' <=> s = sub)
    BY <2>1, <2>2 DEF Stands, InSession, EntryOf
  <2>4. \A v \in Conns \ {c}, s \in Slots : Stands(v, s)' <=> Stands(v, s)
    BY <2>1, <2>2 DEF Stands, InSession, EntryOf
  <2>5. \A v \in Conns, s \in Slots : Stands(v, s) => s # sub
    BY <1>3, <2>1 DEF Allocating
  <2>6. EntriesOwned'
    <3>1. ASSUME NEW v \in Conns \ {c}, NEW s \in Slots, Stands(v, s) PROVE Owned(v, s)'
      <4>1. Owned(v, s)
        BY <1>3, <3>1 DEF EntriesOwned
      <4> QED BY <2>1, <2>2, <4>1 DEF Owned
    <3>2. ASSUME sub \in Slots, NEW s \in Slots, s = sub PROVE Owned(c, s)'
      <4>1. /\ client[s].online /\ client[s].fd = main.fd /\ client[s].name = main.from
            /\ fdt[main.fd] = c /\ main.from = cli[c].me
        BY <1>3, <2>0, <2>1, <3>2 DEF Allocating, MainOwns, LoginName
      <4> QED BY <2>1, <2>2, <4>1 DEF Owned
    <3> QED BY <2>3, <2>4, <3>1, <3>2 DEF EntriesOwned
  <2>7. OneWorker'
    BY <1>3, <2>3, <2>4, <2>5 DEF OneWorker
  <2>8. SomeWorker'
    <3> SUFFICES ASSUME NEW s \in Slots, client[s].online
                 PROVE  \E v \in Conns : Stands(v, s)'
      BY <2>1 DEF SomeWorker
    <3>1. CASE s = sub
      BY <2>2, <2>3, <3>1
    <3>2. CASE s # sub
      <4>1. PICK v \in Conns : Stands(v, s)
        BY <1>3, <3>2 DEF SomeWorker, BeingAllocated
      <4> QED BY <2>3, <2>4, <4>1
    <3> QED BY <3>1, <3>2
  <2>9. HaveEntries'
    BY <1>3, <2>1, <2>2 DEF HaveEntries, InSession
  <2>10. Allocating' /\ MainOwns'
    BY <2>1 DEF Allocating, MainOwns
  <2> QED BY <2>6, <2>7, <2>8, <2>9, <2>10 DEF Sessions
<1> QED
  BY <1>4, <1>5, <1>6, <1>7, <1>8, <1>10, <1>11, <1>12, <1>13 DEF Main

LEMMA ForwarderSessions ==
  ASSUME SessionInv, NEW f \in Fwds, Forwarder(f), UNCHANGED cli
  PROVE  /\ UNCHANGED <<main, sub, client, backlog, peer, fdt, up, loc, handed, intact>>
         /\ \A t \in Threads \ {f} : thr'[t] = thr[t]
         /\ \A c \in Conns : thr'[c] = thr[c]
<1>0. f \in Threads /\ \A c \in Conns : c \in Threads /\ c # f
  BY ConnsThreads
<1>1. CASE msg_forward(f)
  BY <1>0, <1>1, ForwardSessions
<1>2. CASE CopyHead(f) \/ CopyBody(f)
  <2>1. thr \in [Threads -> [pc : WorkerPcs \cup FwdPcs, msg : Msg, i : 0 .. MaxClient,
                             ret : {"recv", "exit"}]]
    BY DEF SessionInv, TypeInv, TypeOK, ServerTypeOK, ThreadTypeOK
  <2>2. UNCHANGED <<main, sub, client, backlog, peer, fdt, up, loc, handed, intact>>
    BY <1>2 DEF CopyHead, CopyBody, netVars, histVars
  <2>3. \A t \in Threads \ {f} : thr'[t] = thr[t]
    BY <1>2, <2>1 DEF CopyHead, CopyBody, CallForward
  <2> QED BY <1>0, <2>2, <2>3
<1> QED BY <1>1, <1>2 DEF Forwarder

-----------------------------------------------------------------------------
(* Who has no worker yet.                                                  *)

(* Threads come and go, connections and main stay.                         *)
LEMMA UnspawnedKept ==
  ASSUME Unspawned, ConnKnown, backlog \in Seq(Conns), UNCHANGED <<main, backlog>>,
         \A c \in Conns : /\ thr[c].pc = "none" => thr'[c].pc = "none"
                          /\ cli'[c].pc = "start" => cli[c].pc = "start"
                          /\ cli'[c].pc = "start" => peer'[c] = peer[c]
  PROVE  Unspawned'
<1>1. \A i \in DOMAIN backlog : backlog[i] \in Conns
  OBVIOUS
<1> QED BY <1>1 DEF Unspawned, ConnKnown

LEMMA WorkerAlive ==
  ASSUME SessionInv, NEW w \in Conns, work(w), UNCHANGED cli
  PROVE  /\ UNCHANGED <<main, sub, backlog, peer>>
         /\ thr[w].pc # "none"
         /\ \A c \in Conns \ {w} : thr'[c] = thr[c]
<1>1. /\ thr \in [Threads -> [pc : WorkerPcs \cup FwdPcs, msg : Msg, i : 0 .. MaxClient,
                              ret : {"recv", "exit"}]]
      /\ Conns \subseteq Threads /\ w \in Threads
  BY ConnsThreads DEF SessionInv, TypeInv, TypeOK, ServerTypeOK, ThreadTypeOK
<1>2. UNCHANGED <<main, sub, backlog, peer>> /\ thr[w].pc # "none"
  BY DEF work, ReadSub, ReadFd, LoginNotice, CallRecv, RecvMsg, RecvEnd, Dispatch,
         CloseFd, SetOffline, LogoutNotice, msg_forward, ForwardTest, ForwardSend, netVars
<1> SUFFICES \A c \in Conns \ {w} : thr'[c] = thr[c]
  BY <1>2
<1>3. CASE msg_forward(w)
  BY <1>1, <1>3, ForwardSessions
<1>4. ASSUME NEW f \in Fwds,
             thr' = [thr EXCEPT ![w].pc = "recv", ![w].msg = ZeroMsg, ![f].pc = "head"]
      PROVE  \A c \in Conns \ {w} : thr'[c] = thr[c]
  <2>1. w # f /\ f \in Threads /\ Conns \subseteq Threads \ {f}
    BY <1>1, ConnsThreads
  <2>2. \A u \in Threads \ {w, f} : thr'[u] = thr[u]
    BY <1>1, <1>4, <2>1, HandOverType DEF SessionInv
  <2> QED BY <2>1, <2>2
<1>5. CASE Dispatch(w)
  <2>1. CASE Goto(w, "close")
    BY <1>1, <2>1 DEF Goto
  <2>2. CASE thr' = [thr EXCEPT ![w].pc = "recv", ![w].msg = ZeroMsg]
    BY <1>1, <2>2
  <2> QED BY <1>4, <1>5, <2>1, <2>2 DEF Dispatch
<1>6. CASE ReadSub(w) \/ ReadFd(w) \/ CloseFd(w) \/ SetOffline(w)
  <2>1. \E pc \in WorkerPcs : Goto(w, pc)
    BY <1>6 DEF ReadSub, ReadFd, CloseFd, SetOffline, WorkerPcs
  <2> QED BY <1>1, <2>1 DEF Goto
<1>7. CASE LoginNotice(w) \/ LogoutNotice(w)
  <2>1. \E m, pc : CallForward(w, m, pc)
    BY <1>7 DEF LoginNotice, LogoutNotice
  <2> QED BY <1>1, <2>1 DEF CallForward
<1>8. CASE CallRecv(w)
  <2>1. Goto(w, "block") \/ thr' = [thr EXCEPT ![w].pc = "store", ![w].msg = ZeroMsg]
    BY <1>8 DEF CallRecv
  <2> QED BY <1>1, <2>1 DEF Goto
<1>9. CASE RecvMsg(w) \/ RecvEnd(w)
  <2>1. \E m : thr' = [thr EXCEPT ![w].pc = "store", ![w].msg = m]
    BY <1>9 DEF RecvMsg, RecvEnd
  <2> QED BY <1>1, <2>1
<1> QED BY <1>3, <1>5, <1>6, <1>7, <1>8, <1>9 DEF work

LEMMA MainUnspawned ==
  ASSUME SessionInv, Main, UNCHANGED cli
  PROVE  Unspawned'
<1> USE DEF SessionInv
<1>0. /\ main \in [pc : MainPcs, fd : Fds, conn : Conns \cup {None}, from : Names,
                   i : 0 .. MaxClient]
      /\ thr \in [Threads -> [pc : WorkerPcs \cup FwdPcs, msg : Msg, i : 0 .. MaxClient,
                              ret : {"recv", "exit"}]]
      /\ backlog \in Seq(Conns)
      /\ main.pc # "accept" => main.conn \in Conns
  BY DEF TypeInv, TypeOK, ServerTypeOK, ThreadTypeOK, MainTypeOK, NetTypeOK, ConnKnown
<1>1. \A i \in DOMAIN backlog : backlog[i] \in Conns
  BY <1>0
<1>2. CASE accept
  <2>1. /\ main'.pc = "recv" /\ main'.conn = backlog[1] /\ backlog # <<>>
        /\ backlog' = Tail(backlog) /\ UNCHANGED <<thr, peer>>
    BY <1>0, <1>2 DEF accept
  <2>2. /\ 1 \in DOMAIN backlog
        /\ \A i \in DOMAIN backlog' : /\ i + 1 \in DOMAIN backlog
                                      /\ i \in Nat \ {0}
                                      /\ backlog'[i] = backlog[i + 1]
    BY <1>0, <2>1
  <2>3. ASSUME NEW i \in DOMAIN backlog'
        PROVE  /\ thr[backlog'[i]].pc = "none" /\ cli[backlog'[i]].pc # "start"
               /\ backlog'[i] # main'.conn
               /\ \A j \in DOMAIN backlog' : backlog'[i] = backlog'[j] => i = j
    <3>1. backlog'[i] = backlog[i + 1] /\ i + 1 # 1
      BY <2>2
    <3>2. \A j \in DOMAIN backlog' : backlog[i + 1] = backlog[j + 1] => i + 1 = j + 1
      BY <2>2 DEF Unspawned
    <3>3. \A j \in DOMAIN backlog' : backlog'[i] = backlog'[j] => i = j
      BY <2>2, <3>2
    <3> QED BY <2>1, <2>2, <3>1, <3>3 DEF Unspawned
  <2> QED BY <2>1, <2>2, <2>3 DEF Unspawned
<1>3. CASE SpawnWorker
  <2>1. /\ main'.pc = "accept" /\ main.pc # "accept" /\ UNCHANGED <<backlog, peer>>
        /\ \A c \in Conns \ {main.conn} : thr'[c] = thr[c]
    BY <1>0, <1>3, ConnsThreads DEF SpawnWorker, Accepting, Goto, netVars
  <2> QED BY <1>0, <1>1, <2>1 DEF Unspawned
<1>4. CASE Main /\ ~accept /\ ~SpawnWorker
  <2>1. UNCHANGED <<thr, backlog, peer>> /\ main.pc # "accept"
    BY <1>4 DEF Main, RecvLogin, RecvLoginFails, check_online, Refuse, Greet, find_sub,
                SetOnline, SetFd, SetName, netVars
  <2>2. main'.pc # "accept" => main'.conn = main.conn
    <3>1. CASE RecvLoginFails \/ Refuse
      BY <3>1 DEF RecvLoginFails, Refuse, Accepting
    <3>2. CASE RecvLogin \/ check_online \/ Greet
      BY <1>0, <3>2 DEF RecvLogin, check_online, Greet
    <3>3. CASE find_sub \/ SetOnline \/ SetFd \/ SetName
      BY <1>0, <3>3 DEF find_sub, SetOnline, SetFd, SetName
    <3> QED BY <1>4, <3>1, <3>2, <3>3 DEF Main
  <2> QED BY <2>1, <2>2 DEF Unspawned
<1> QED BY <1>2, <1>3, <1>4

-----------------------------------------------------------------------------
(* What clients send.                                                      *)

(* The stream of a connection loses its head, if anything.                 *)
LEMMA SentKept ==
  ASSUME SentAs, up \in [Conns -> Seq(Msg)], \A c \in Conns : cli'[c].me = cli[c].me,
         \/ up' = up
         \/ \E c \in Conns : up[c] # <<>> /\ up' = [up EXCEPT ![c] = Tail(@)]
  PROVE  SentAs'
<1>1. CASE up' = up
  BY <1>1 DEF SentAs, Signed
<1>2. CASE \E c \in Conns : up[c] # <<>> /\ up' = [up EXCEPT ![c] = Tail(@)]
  <2>1. PICK c \in Conns : up[c] # <<>> /\ up' = [up EXCEPT ![c] = Tail(@)]
    BY <1>2
  <2>2. SUFFICES ASSUME NEW d \in Conns, NEW i \in DOMAIN up'[d]
                 PROVE  up'[d][i].head.from = cli[d].me /\ Signed(up'[d][i], d)
    BY DEF SentAs, Signed
  <2>3. PICK k \in DOMAIN up[d] : up'[d][i] = up[d][k]
    <3>1. CASE d = c
      <4>1. up[c] \in Seq(Msg) /\ up'[c] = Tail(up[c])
        BY <2>1
      <4>2. i + 1 \in DOMAIN up[c] /\ Tail(up[c])[i] = up[c][i + 1]
        BY <2>1, <2>2, <3>1, <4>1
      <4> QED BY <3>1, <4>1, <4>2
    <3>2. CASE d # c
      BY <2>1, <3>2
    <3> QED BY <3>1, <3>2
  <2> QED BY <2>3 DEF SentAs
<1> QED BY <1>1, <1>2

(* The server only takes messages out of the streams.                      *)
LEMMA ServerSent ==
  ASSUME SessionInv, ServerNext, UNCHANGED cli
  PROVE  SentAs'
<1>1. up \in [Conns -> Seq(Msg)]
  BY DEF SessionInv, TypeInv, TypeOK, NetTypeOK
<1>2. CASE RecvLogin
  <2>1. main.conn \in Conns /\ up[main.conn] # <<>> /\ up' = [up EXCEPT ![main.conn] = Tail(@)]
    BY <1>2 DEF RecvLogin, chat_recv, SessionInv, TypeInv, ConnKnown
  <2> QED BY <1>1, <2>1, SentKept DEF SessionInv
<1>3. ASSUME NEW w \in Conns, RecvMsg(w) PROVE SentAs'
  <2>1. loc[w].sock \in Conns /\ up[loc[w].sock] # <<>> /\ up' = [up EXCEPT ![loc[w].sock] = Tail(@)]
    BY <1>3 DEF RecvMsg, chat_recv, SessionInv, TypeInv, SockKnown
  <2> QED BY <1>1, <2>1, SentKept DEF SessionInv
<1>4. CASE Main /\ ~RecvLogin
  <2>1. up' = up
    BY <1>4 DEF Main, accept, RecvLoginFails, check_online, Refuse, Greet, find_sub,
                SetOnline, SetFd, SetName, SpawnWorker, netVars
  <2> QED BY <1>1, <2>1, SentKept DEF SessionInv
<1>5. ASSUME NEW w \in Conns, work(w), ~RecvMsg(w) PROVE SentAs'
  <2>1. up' = up
    BY <1>5 DEF work, ReadSub, ReadFd, LoginNotice, CallRecv, RecvEnd, Dispatch, CloseFd,
                SetOffline, LogoutNotice, msg_forward, ForwardTest, ForwardSend, netVars
  <2> QED BY <1>1, <2>1, SentKept DEF SessionInv
<1>6. ASSUME NEW f \in Fwds, Forwarder(f) PROVE SentAs'
  BY <1>1, <1>6, ForwarderSessions, SentKept DEF SessionInv
<1> QED BY <1>2, <1>3, <1>4, <1>5, <1>6 DEF ServerNext

LEMMA MainLoginName ==
  ASSUME SessionInv, Main, UNCHANGED cli
  PROVE  LoginName'
<1> USE DEF SessionInv
<1>0. main \in [pc : MainPcs, fd : Fds, conn : Conns \cup {None}, from : Names,
                i : 0 .. MaxClient]
  BY DEF TypeInv, TypeOK, ServerTypeOK, MainTypeOK
<1>1. CASE RecvLogin
  <2>1. main.conn \in Conns /\ up[main.conn] \in Seq(Msg) /\ up[main.conn] # <<>>
    BY <1>1 DEF RecvLogin, chat_recv, TypeInv, ConnKnown, TypeOK, NetTypeOK
  <2>2. 1 \in DOMAIN up[main.conn] /\ Head(up[main.conn]) = up[main.conn][1]
    BY <2>1
  <2>3. Head(up[main.conn]).head.from = cli[main.conn].me
    BY <2>1, <2>2 DEF SentAs
  <2>4. main'.conn = main.conn /\ main'.from = Head(up[main.conn]).head.from
    BY <1>0, <1>1 DEF RecvLogin
  <2> QED BY <2>3, <2>4 DEF LoginName
<1>2. CASE accept \/ RecvLoginFails \/ Refuse \/ SpawnWorker
  <2>1. main'.pc \in {"accept", "recv"}
    <3>1. CASE accept
      BY <1>0, <3>1 DEF accept
    <3>2. CASE RecvLoginFails \/ Refuse \/ SpawnWorker
      BY <3>2 DEF RecvLoginFails, Refuse, SpawnWorker, Accepting
    <3> QED BY <1>2, <3>1, <3>2
  <2> QED BY <2>1 DEF LoginName
<1>3. CASE check_online \/ Greet \/ find_sub \/ SetOnline \/ SetFd \/ SetName
  <2>1. /\ main'.conn = main.conn /\ main'.from = main.from
        /\ main.pc \notin {"accept", "recv"}
    BY <1>0, <1>3 DEF check_online, Greet, find_sub, SetOnline, SetFd, SetName
  <2> QED BY <2>1 DEF LoginName
<1> QED BY <1>1, <1>2, <1>3 DEF Main

-----------------------------------------------------------------------------
(* The clients' steps.                                                     *)
LEMMA ClientSessions ==
  ASSUME SessionInv, ClientNext, UNCHANGED serverVars
  PROVE  Sessions' /\ Unspawned' /\ SentAs' /\ LoginName'
<1> USE DEF SessionInv
<1>0. /\ cli \in [Conns -> [pc : ClientPcs, me : Users, sent : 0 .. MaxSend]]
      /\ backlog \in Seq(Conns) /\ peer \in [Conns -> BOOLEAN]
      /\ up \in [Conns -> Seq(Msg)]
  BY DEF TypeInv, TypeOK, ClientTypeOK, NetTypeOK
<1>1. PICK c \in Conns : \/ socket_connect(c) \/ SendLogin(c) \/ RecvReply(c)
                        \/ client_send(c) \/ Leave(c)
  BY DEF ClientNext
<1>2. /\ \A d \in Conns : cli'[d].me = cli[d].me
      /\ cli'[c].pc # "start" /\ \A d \in Conns \ {c} : cli'[d] = cli[d]
      /\ fdt' = fdt
  <2>0. ASSUME NEW pc \in {"login", "await", "chat", "end"}, Step(c, pc), fdt' = fdt
        PROVE  /\ \A d \in Conns : cli'[d].me = cli[d].me
               /\ cli'[c].pc # "start" /\ \A d \in Conns \ {c} : cli'[d] = cli[d]
               /\ fdt' = fdt
    BY <1>0, <2>0 DEF Step
  <2>1. CASE socket_connect(c) \/ SendLogin(c)
    BY <2>0, <2>1 DEF socket_connect, SendLogin
  <2>2. CASE RecvReply(c)
    BY <2>0, <2>2 DEF RecvReply, Quit
  <2>3. CASE Leave(c)
    BY <2>0, <2>3 DEF Leave, Quit
  <2>4. CASE client_send(c)
    BY <1>0, <2>4 DEF client_send
  <2> QED BY <1>1, <2>1, <2>2, <2>3, <2>4
<1>3. Sessions'
  BY <1>2, SessionsKept DEF serverVars, histVars
<1>4. Unspawned'
  <2>1. CASE socket_connect(c)
    <3>1. /\ backlog' = Append(backlog, c) /\ peer' = [peer EXCEPT ![c] = TRUE]
          /\ cli[c].pc = "start" /\ UNCHANGED <<main, thr>>
      BY <2>1 DEF socket_connect, serverVars
    <3>2. \A i \in DOMAIN backlog' :
            \/ i \in DOMAIN backlog /\ backlog'[i] = backlog[i]
            \/ i = Len(backlog) + 1 /\ backlog'[i] = c
      BY <1>0, <3>1
    <3>3. \A i \in DOMAIN backlog : backlog[i] # c
      BY <3>1 DEF Unspawned
    <3>4. \A i \in DOMAIN backlog : backlog[i] \in Conns
      BY <1>0
    <3>5. \A i, j \in DOMAIN backlog' : backlog'[i] = backlog'[j] => i = j
      BY <3>2, <3>3 DEF Unspawned
    <3>6. \A i \in DOMAIN backlog' :
            /\ thr[backlog'[i]].pc = "none" /\ cli'[backlog'[i]].pc # "start"
            /\ main.pc # "accept" => backlog'[i] # main.conn
      BY <1>2, <3>1, <3>2, <3>3, <3>4 DEF Unspawned
    <3>7. main.pc # "accept" => main.conn \in Conns \ {c}
      BY <3>1 DEF Unspawned, TypeInv, ConnKnown
    <3>8. \A d \in Conns : cli'[d].pc = "start" => thr[d].pc = "none" /\ ~peer'[d]
      BY <1>0, <1>2, <3>1 DEF Unspawned
    <3> QED BY <1>2, <3>1, <3>5, <3>6, <3>7, <3>8 DEF Unspawned
  <2>2. CASE ~socket_connect(c)
    <3>1. UNCHANGED <<backlog, main, thr>>
      BY <1>1, <2>2 DEF SendLogin, RecvReply, client_send, Leave, serverVars
    <3>2. \A d \in Conns \ {c} : peer'[d] = peer[d]
      BY <1>0, <1>1, <2>2 DEF SendLogin, RecvReply, client_send, Leave, Quit
    <3> QED BY <1>0, <1>2, <3>1, <3>2, UnspawnedKept DEF TypeInv
  <2> QED BY <2>1, <2>2
<1>5. ASSUME NEW m \in Msg, Transmit(c, m), m.head.from = cli[c].me, Signed(m, c)
      PROVE  SentAs'
  <2> SUFFICES ASSUME NEW d \in Conns, NEW i \in DOMAIN up'[d]
               PROVE  up'[d][i].head.from = cli[d].me /\ Signed(up'[d][i], d)
    BY <1>2 DEF SentAs, Signed
  <2>1. CASE d # c \/ up' = up
    <3>1. up'[d] = up[d]
      BY <1>0, <1>5, <2>1 DEF Transmit
    <3> QED BY <3>1 DEF SentAs
  <2>2. CASE d = c /\ up' = [up EXCEPT ![c] = Append(@, m)]
    <3>1. up'[c] = Append(up[c], m) /\ up[c] \in Seq(Msg)
      BY <1>0, <2>2
    <3>2. \/ i \in DOMAIN up[c] /\ up'[c][i] = up[c][i]
          \/ up'[c][i] = m
      BY <2>2, <3>1
    <3> QED BY <1>5, <2>2, <3>2 DEF SentAs
  <2> QED BY <1>5, <2>1, <2>2 DEF Transmit
<1>6. SentAs'
  <2>1. CASE SendLogin(c)
    <3> DEFINE m == Message(cli[c].me, Nobody, 2, <<"empty", Nobody>>)
    <3>1. m \in Msg
      <4>1. cli[c].me \in Names /\ Nobody \in Names /\ 2 \in Flags
        BY <1>0 DEF Names, Flags
      <4>2. <<"empty", Nobody>> \in Bodies
        BY DEF Bodies
      <4> QED BY <4>1, <4>2, MessageType
    <3>2. m.head.from = cli[c].me /\ m.body[1] = "empty"
      BY DEF Message
    <3>3. Signed(m, c) /\ Transmit(c, m)
      BY <2>1, <3>2 DEF Signed, SendLogin
    <3> QED BY <1>5, <3>1, <3>2, <3>3
  <2>2. CASE client_send(c)
    <3>1. PICK line \in Lines :
            Transmit(c, Message(cli[c].me, line.word, FlagOf(line), <<"text",
                          [by |-> c, no |-> cli[c].sent + 1,
                           flag |-> FlagOf(line), to |-> line.word]>>))
      BY <2>2 DEF client_send
    <3> DEFINE body == <<"text", [by |-> c, no |-> cli[c].sent + 1,
                                  flag |-> FlagOf(line), to |-> line.word]>>
               m == Message(cli[c].me, line.word, FlagOf(line), body)
    <3>2. /\ line.word \in Names /\ FlagOf(line) \in Flags /\ cli[c].me \in Names
          /\ cli[c].sent + 1 \in 1 .. MaxSend
      <4>1. line.word \in Users \cup {Nobody} /\ FlagOf(line) \in {0, 1, 4}
        BY ClientAssumption DEF FlagOf
      <4>2. cli[c].sent + 1 \in 1 .. MaxSend
        BY <1>0, <2>2, NetAssumption DEF client_send
      <4> QED BY <1>0, <4>1, <4>2 DEF Names, Flags
    <3>3. body \in Bodies
      BY <3>2 DEF Bodies, Texts
    <3>4. m \in Msg
      BY <3>2, <3>3, MessageType
    <3>5. m.head.from = cli[c].me /\ Signed(m, c)
      BY DEF Message, Signed
    <3> QED BY <1>5, <3>1, <3>4, <3>5
  <2>3. CASE socket_connect(c) \/ RecvReply(c) \/ Leave(c)
    <3>1. up' = up
      BY <2>3 DEF socket_connect, RecvReply, Leave
    <3> QED BY <1>0, <1>2, <3>1, SentKept
  <2> QED BY <1>1, <2>1, <2>2, <2>3
<1>7. LoginName'
  <2>1. main' = main /\ (main.pc # "accept" => main.conn \in Conns)
    BY DEF serverVars, TypeInv, ConnKnown
  <2> QED BY <1>2, <2>1 DEF LoginName
<1> QED BY <1>3, <1>4, <1>6, <1>7

-----------------------------------------------------------------------------
LEMMA InitSessions == Init => SessionInv
<1> SUFFICES ASSUME Init PROVE SessionInv
  OBVIOUS
<1>1. TypeInv
  BY InitType
<1>2. /\ main.pc = "accept" /\ backlog = <<>>
      /\ \A c \in Conns : thr[c].pc = "none" /\ ~peer[c] /\ up[c] = <<>>
      /\ \A s \in Slots : ~client[s].online
  BY ConnsThreads DEF Init, NetInit, ServerInit, Accepting
<1>3. \A c \in Conns : ~InSession(c)
  BY <1>2 DEF InSession
<1>4. Sessions
  BY <1>2, <1>3 DEF Sessions, EntriesOwned, OneWorker, SomeWorker, HaveEntries,
                    Allocating, MainOwns, Stands
<1>5. Unspawned /\ SentAs /\ LoginName
  BY <1>2 DEF Unspawned, SentAs, LoginName
<1> QED BY <1>1, <1>4, <1>5 DEF SessionInv

LEMMA StepSessions == SessionInv /\ [Next]_vars => SessionInv'
<1> SUFFICES ASSUME SessionInv, [Next]_vars PROVE SessionInv'
  OBVIOUS
<1>0. /\ TypeInv' /\ backlog \in Seq(Conns) /\ ConnKnown
      /\ up \in [Conns -> Seq(Msg)]
  BY StepType DEF SessionInv, TypeInv, TypeOK, NetTypeOK
<1>1. CASE Main /\ ServerNext /\ UNCHANGED cli
  BY <1>0, <1>1, MainSessions, MainUnspawned, ServerSent, MainLoginName DEF SessionInv
<1>2. ASSUME NEW w \in Conns, work(w), ServerNext, UNCHANGED cli PROVE SessionInv'
  <2>1. /\ UNCHANGED <<main, backlog, peer>> /\ thr[w].pc # "none"
        /\ \A c \in Conns \ {w} : thr'[c] = thr[c]
    BY <1>2, WorkerAlive
  <2>2. Unspawned' /\ LoginName'
    BY <1>0, <1>2, <2>1, UnspawnedKept DEF SessionInv, LoginName
  <2> QED BY <1>0, <1>2, <2>2, WorkerSessions, ServerSent DEF SessionInv
<1>3. ASSUME NEW f \in Fwds, Forwarder(f), ServerNext, UNCHANGED cli PROVE SessionInv'
  <2>1. /\ UNCHANGED <<main, sub, client, backlog, peer, fdt, loc, handed, intact>>
        /\ \A c \in Conns : thr'[c] = thr[c]
    BY <1>3, ForwarderSessions
  <2>2. Unspawned' /\ LoginName'
    BY <1>0, <1>3, <2>1, UnspawnedKept DEF SessionInv, LoginName
  <2>3. Sessions'
    BY <1>3, <2>1, SessionsKept DEF SessionInv
  <2> QED BY <1>0, <1>3, <2>2, <2>3, ServerSent DEF SessionInv
<1>4. CASE ClientNext /\ UNCHANGED serverVars
  BY <1>0, <1>4, ClientSessions DEF SessionInv
<1>5. CASE UNCHANGED vars
  <2>1. /\ UNCHANGED <<main, sub, client, backlog, peer, fdt, up, loc, handed, intact, cli, thr>>
    BY <1>5 DEF vars, netVars, serverVars, histVars
  <2>2. Sessions' /\ Unspawned' /\ LoginName' /\ SentAs'
    BY <1>0, <2>1, SessionsKept, UnspawnedKept, SentKept DEF SessionInv, LoginName
  <2> QED BY <1>0, <2>2 DEF SessionInv
<1> QED BY <1>1, <1>2, <1>3, <1>4, <1>5 DEF Next, ServerNext

LEMMA SessionsCorrect == Spec => []SessionInv
BY InitSessions, StepSessions, PTL DEF Spec

(* As long as every worker found its own entry in &sub, an entry that is   *)
(* online has one worker, its user's name and its user's connection,       *)
(* whoever logs in and out at once (my_server.c:59-78, 100-156).           *)
THEOREM EntriesHaveOwners == Spec => []SessionOwned
<1>1. SessionInv => SessionOwned
  <2> SUFFICES ASSUME SessionInv, intact, NEW s \in Slots,
                      client[s].online, ~BeingAllocated(s)
               PROVE  \E w \in Conns :
                        /\ {v \in Conns : InSession(v) /\ EntryOf(v) = s} = {w}
                        /\ client[s].name = cli[w].me
                        /\ fdt[client[s].fd] = w \/ thr[w].pc = "offline"
    BY DEF SessionOwned
  <2>1. PICK w \in Conns : Stands(w, s)
    BY DEF SessionInv, Sessions, SomeWorker
  <2>2. {v \in Conns : InSession(v) /\ EntryOf(v) = s} = {w}
    BY <2>1 DEF SessionInv, Sessions, OneWorker, Stands
  <2>3. Owned(w, s)
    BY <2>1 DEF SessionInv, Sessions, EntriesOwned
  <2> QED BY <2>2, <2>3 DEF Owned
<1> QED BY <1>1, SessionsCorrect, PTL

(* On the same condition a worker reads and closes its own user's          *)
(* connection only, although descriptors are reused and the entry is given *)
(* up after the descriptor (my_server.c:74-78).                            *)
THEOREM WorkersKeepApart == Spec => []OwnConnection
<1>1. SessionInv => OwnConnection
  <2> SUFFICES ASSUME SessionInv, intact, NEW w \in Conns,
                      thr[w].pc \in {"recv", "block", "store", "close"}
               PROVE  /\ fdt[loc[w].fd] = w
                      /\ thr[w].pc = "block" => loc[w].sock = w
    BY DEF OwnConnection
  <2>1. InSession(w) /\ loc[w].sub \in Slots
    BY DEF SessionInv, Sessions, HaveEntries, InSession
  <2>2. Owned(w, loc[w].sub)
    BY <2>1 DEF SessionInv, Sessions, EntriesOwned, Stands, EntryOf
  <2> QED BY <2>2 DEF Owned
<1> QED BY <1>1, SessionsCorrect, PTL

(* main never fills an entry that a worker still stands for                *)
(* (my_server.c:100-105, 152-155), on the same condition.                  *)
THEOREM EntriesFilledOnce == Spec => NoTakeover
<1>1. SessionInv /\ [Next]_vars
        => [main.pc = "online" /\ main'.pc = "fd" /\ sub # -1 /\ intact
              => \A w \in Conns : InSession(w) => EntryOf(w) # sub]_vars
  <2> SUFFICES ASSUME SessionInv, main.pc = "online", sub # -1, intact,
                      NEW w \in Conns, InSession(w)
               PROVE  EntryOf(w) # sub
    OBVIOUS
  <2>1. sub \in Cells
    BY DEF SessionInv, TypeInv, TypeOK, ServerTypeOK, TableTypeOK
  <2>2. sub \in Slots
    BY <2>1, ServerAssumption DEF Cells, Slots
  <2> QED BY <2>2 DEF SessionInv, Sessions, Allocating, Stands
<1> QED BY <1>1, SessionsCorrect, PTL DEF Spec, NoTakeover

-----------------------------------------------------------------------------
(* Authors.  A text travels with its author's name: in the buffer of the   *)
(* author's worker, in the copy of a forwarder, and to the clients.        *)

TextSigned(m) ==
  m.body[1] = "text" =>
    \E c \in Conns : m.body[2].by = c /\ m.head.from \in {cli[c].me, Nobody}

Authors ==
  /\ \A w \in Conns : Signed(rmsg[w], w)
  /\ \A w \in Conns : thr[w].pc = "store" => Signed(thr[w].msg, w)
  /\ \A f \in Fwds : thr[f].pc = "body" =>
                       thr[f].msg.head.from \in {cli[arg[f]].me, Nobody}
  /\ \A t \in Threads : thr[t].pc \in {"scan", "send"} => TextSigned(thr[t].msg)
  /\ \A c \in Conns : \A m \in got[c] : TextSigned(m)

AuthorInv == SessionInv /\ (intact => Authors)

LEMMA AuthorsStep ==
  ASSUME TypeInv', \A c \in Conns : cli'[c].me = cli[c].me,
         \A w \in Conns : Signed(rmsg'[w], w),
         \A w \in Conns : thr'[w].pc = "store" => Signed(thr'[w].msg, w),
         \A f \in Fwds : thr'[f].pc = "body" =>
                           thr'[f].msg.head.from \in {cli[arg'[f]].me, Nobody},
         \A t \in Threads : thr'[t].pc \in {"scan", "send"} => TextSigned(thr'[t].msg),
         \A c \in Conns : \A m \in got'[c] : TextSigned(m)
  PROVE  Authors'
<1>1. \A f \in Fwds : thr'[f].pc = "body" => arg'[f] \in Conns
  BY DEF TypeInv, BufKnown
<1>2. \A w \in Conns : \A m : Signed(m, w)' <=> Signed(m, w)
  BY DEF Signed
<1>3. \A m : TextSigned(m)' <=> TextSigned(m)
  BY DEF TextSigned
<1> QED BY <1>1, <1>2, <1>3 DEF Authors

(* What is sent reaches one client at most.                                *)
LEMMA SendGot ==
  ASSUME got \in [Conns -> SUBSET Msg], NEW m, NEW fd, chat_send(m, fd)
  PROVE  \A c \in Conns : got[c] \subseteq got'[c] /\ got'[c] \subseteq got[c] \cup {m}
<1>1. CASE got' = got
  BY <1>1
<1>2. ASSUME NEW c \in Conns, got' = [got EXCEPT ![c] = @ \cup {m}]
      PROVE  \A d \in Conns : got[d] \subseteq got'[d] /\ got'[d] \subseteq got[d] \cup {m}
  BY <1>2
<1> QED BY <1>1, <1>2 DEF chat_send

LEMMA ZeroSigned == \A c \in Conns : Signed(ZeroMsg, c)
BY DEF Signed, ZeroMsg, Message

LEMMA SignedText == ASSUME NEW c \in Conns, NEW m, Signed(m, c) PROVE TextSigned(m)
BY DEF Signed, TextSigned

(* Every step of msg_forward delivers what the thread was given, or a list *)
(* of names.                                                               *)
LEMMA ForwardAuthors ==
  ASSUME SessionInv, Authors, TypeInv', NEW t \in Threads, msg_forward(t), UNCHANGED cli
  PROVE  Authors'
<1>1. /\ UNCHANGED <<rmsg, arg>>
      /\ \A u \in Threads \ {t} : thr'[u] = thr[u]
      /\ thr[t].pc \in {"scan", "send"}
      /\ \/ thr'[t].pc \in {"scan", "send"} /\ thr'[t].ret = thr[t].ret
         \/ thr'[t].pc = thr[t].ret /\ thr[t].ret \in {"recv", "exit"}
  BY ForwardSessions
<1>2. thr'[t].pc \in {"scan", "send"} => thr'[t].msg = thr[t].msg
  <2>1. thr \in [Threads -> [pc : WorkerPcs \cup FwdPcs, msg : Msg, i : 0 .. MaxClient,
                             ret : {"recv", "exit"}]]
    BY DEF SessionInv, TypeInv, TypeOK, ServerTypeOK, ThreadTypeOK
  <2>2. CASE Return(t)
    BY <2>1, <2>2 DEF Return
  <2>3. CASE ~Return(t)
    BY <2>1, <2>3 DEF msg_forward, ForwardTest, ForwardSend, Goto
  <2> QED BY <2>2, <2>3
<1>3. TextSigned(thr[t].msg)
  BY <1>1 DEF Authors
<1>4. \A c \in Conns : \A m \in got'[c] : TextSigned(m)
  <2>1. TextSigned(Outgoing(thr[t].msg))
    <3>1. TextSigned(Message(thr[t].msg.head.from, thr[t].msg.head.to, 2, <<"list", Nobody>>))
      BY DEF TextSigned, Message
    <3> QED BY <1>3, <3>1 DEF Outgoing
  <2>2. got \in [Conns -> SUBSET Msg]
    BY DEF SessionInv, TypeInv, TypeOK, NetTypeOK
  <2>3. CASE ForwardSend(t)
    <3>1. chat_send(Outgoing(thr[t].msg), client[thr[t].i].fd)
      BY <2>3 DEF ForwardSend
    <3>2. \A c \in Conns : got'[c] \subseteq got[c] \cup {Outgoing(thr[t].msg)}
      BY <2>2, <3>1, SendGot
    <3> QED BY <2>1, <3>2 DEF Authors
  <2>4. CASE ForwardTest(t)
    BY <2>4 DEF ForwardTest, netVars, Authors
  <2> QED BY <2>3, <2>4 DEF msg_forward
<1>5. \A u \in Threads : thr'[u].pc \in {"scan", "send"} => TextSigned(thr'[u].msg)
  BY <1>1, <1>2, <1>3 DEF Authors
<1>6. \A u \in Threads : thr'[u].pc \in {"store", "body"} => thr'[u] = thr[u]
  BY <1>1
<1>7. /\ \A w \in Conns : thr'[w].pc = "store" => Signed(thr'[w].msg, w)
      /\ \A f \in Fwds : thr'[f].pc = "body" =>
                           thr'[f].msg.head.from \in {cli[arg'[f]].me, Nobody}
  BY <1>1, <1>6, ConnsThreads DEF Authors
<1> QED BY <1>1, <1>4, <1>5, <1>7, AuthorsStep DEF Authors

LEMMA MainAuthors ==
  ASSUME SessionInv, Authors, TypeInv', Main, UNCHANGED cli
  PROVE  Authors'
<1>1. UNCHANGED <<rmsg, arg>>
  BY DEF Main, accept, RecvLogin, RecvLoginFails, check_online, Refuse, Greet, find_sub,
         SetOnline, SetFd, SetName, SpawnWorker
<1>2. \A t \in Threads : thr'[t] = thr[t] \/ thr'[t].pc = "start"
  <2>1. CASE SpawnWorker
    <3>1. thr \in [Threads -> [pc : WorkerPcs \cup FwdPcs, msg : Msg, i : 0 .. MaxClient,
                               ret : {"recv", "exit"}]]
      BY DEF SessionInv, TypeInv, TypeOK, ServerTypeOK, ThreadTypeOK
    <3> QED BY <2>1, <3>1 DEF SpawnWorker, Goto
  <2>2. CASE UNCHANGED thr
    BY <2>2
  <2> QED BY <2>1, <2>2 DEF Main, accept, RecvLogin, RecvLoginFails, check_online, Refuse,
                            Greet, find_sub, SetOnline, SetFd, SetName
<1>3. \A c \in Conns : \A m \in got'[c] : TextSigned(m)
  <2>1. TextSigned(Already) /\ TextSigned(Welcome)
    BY DEF TextSigned, Already, Welcome, Message
  <2>2. got \in [Conns -> SUBSET Msg]
    BY DEF SessionInv, TypeInv, TypeOK, NetTypeOK
  <2>3. CASE Refuse
    <3>1. \A c \in Conns : got'[c] \subseteq got[c] \cup {Already}
      BY <2>2, <2>3, SendGot DEF Refuse
    <3> QED BY <2>1, <3>1 DEF Authors
  <2>4. CASE Greet
    <3>1. \A c \in Conns : got'[c] \subseteq got[c] \cup {Welcome}
      BY <2>2, <2>4, SendGot DEF Greet
    <3> QED BY <2>1, <3>1 DEF Authors
  <2>5. CASE UNCHANGED got
    BY <2>5 DEF Authors
  <2> QED BY <2>3, <2>4, <2>5 DEF Main, accept, RecvLogin, RecvLoginFails, check_online,
                                  find_sub, SetOnline, SetFd, SetName, SpawnWorker, netVars
<1>4. /\ \A w \in Conns : thr'[w].pc = "store" => Signed(thr'[w].msg, w)
      /\ \A f \in Fwds : thr'[f].pc = "body" =>
                           thr'[f].msg.head.from \in {cli[arg'[f]].me, Nobody}
      /\ \A t \in Threads : thr'[t].pc \in {"scan", "send"} => TextSigned(thr'[t].msg)
  BY <1>1, <1>2, ConnsThreads DEF Authors
<1> QED BY <1>1, <1>3, <1>4, AuthorsStep DEF Authors

LEMMA ForwarderAuthors ==
  ASSUME SessionInv, Authors, TypeInv', NEW f \in Fwds, Forwarder(f), UNCHANGED cli
  PROVE  Authors'
<1>0. /\ f \in Threads /\ f \notin Conns
      /\ thr \in [Threads -> [pc : WorkerPcs \cup FwdPcs, msg : Msg, i : 0 .. MaxClient,
                              ret : {"recv", "exit"}]]
  BY ConnsThreads DEF SessionInv, TypeInv, TypeOK, ServerTypeOK, ThreadTypeOK
<1>1. CASE msg_forward(f)
  BY <1>0, <1>1, ForwardAuthors
<1>2. \A t \in Threads \ {f} : thr'[t] = thr[t]
  BY ForwarderSessions
<1>3. ASSUME UNCHANGED <<rmsg, arg, got>>,
             thr'[f].pc = "body" => thr'[f].msg.head.from \in {cli[arg[f]].me, Nobody},
             thr'[f].pc \in {"scan", "send"} => TextSigned(thr'[f].msg)
      PROVE  Authors'
  <2>1. /\ \A w \in Conns : thr'[w].pc = "store" => Signed(thr'[w].msg, w)
        /\ \A g \in Fwds : thr'[g].pc = "body" =>
                             thr'[g].msg.head.from \in {cli[arg'[g]].me, Nobody}
        /\ \A t \in Threads : thr'[t].pc \in {"scan", "send"} => TextSigned(thr'[t].msg)
    BY <1>0, <1>2, <1>3, ConnsThreads DEF Authors
  <2> QED BY <1>3, <2>1, AuthorsStep DEF Authors
<1>4. thr[f].pc \in {"head", "body"} => arg[f] \in Conns /\ Signed(rmsg[arg[f]], arg[f])
  BY DEF SessionInv, TypeInv, BufKnown, Authors
<1>5. CASE CopyHead(f)
  <2>1. /\ UNCHANGED <<rmsg, arg, got>> /\ thr[f].pc = "head"
        /\ thr'[f].pc = "body" /\ thr'[f].msg.head = rmsg[arg[f]].head
    <3>1. thr[f].msg \in [head : Heads, body : Bodies]
      BY <1>0 DEF Msg
    <3>2. /\ UNCHANGED <<rmsg, arg, got>> /\ thr[f].pc = "head"
          /\ thr' = [thr EXCEPT ![f].pc = "body", ![f].msg.head = rmsg[arg[f]].head]
      BY <1>5 DEF CopyHead, netVars
    <3> QED BY <1>0, <3>1, <3>2
  <2>2. thr'[f].msg.head.from \in {cli[arg[f]].me, Nobody}
    BY <1>4, <2>1 DEF Signed
  <2> QED BY <1>3, <2>1, <2>2
<1>6. CASE CopyBody(f)
  <2>1. thr[f].msg \in [head : Heads, body : Bodies] /\ thr[f].pc = "body"
    BY <1>0, <1>6 DEF Msg, CopyBody
  <2>2. PICK m : m = [thr[f].msg EXCEPT !.body = rmsg[arg[f]].body]
    OBVIOUS
  <2>3. m.head = thr[f].msg.head /\ m.body = rmsg[arg[f]].body
    BY <2>1, <2>2
  <2>4. UNCHANGED <<rmsg, arg, got>> /\ thr'[f].pc = "scan" /\ thr'[f].msg = m
    BY <1>0, <1>6, <2>2 DEF CopyBody, CallForward, netVars
  <2>5. TextSigned(m)
    <3>1. thr[f].msg.head.from \in {cli[arg[f]].me, Nobody}
      BY <2>1 DEF Authors
    <3> QED BY <1>4, <2>1, <2>3, <3>1 DEF Signed, TextSigned
  <2> QED BY <1>3, <2>4, <2>5
<1> QED BY <1>1, <1>5, <1>6 DEF Forwarder

LEMMA NoticeText ==
  \A w \in Conns : TextSigned(Notice("online", w)) /\ TextSigned(Notice("offline", w))
BY DEF TextSigned, Notice, Message

LEMMA WorkerAuthors ==
  ASSUME SessionInv, intact, Authors, TypeInv', NEW w \in Conns, work(w), UNCHANGED cli
  PROVE  Authors'
<1>0. /\ w \in Threads /\ w \notin Fwds
      /\ thr \in [Threads -> [pc : WorkerPcs \cup FwdPcs, msg : Msg, i : 0 .. MaxClient,
                              ret : {"recv", "exit"}]]
      /\ rmsg \in [Conns -> Msg]
      /\ thr[w].msg \in [head : Heads, body : Bodies]
      /\ rmsg[w] \in [head : Heads, body : Bodies]
  BY ConnsThreads DEF SessionInv, TypeInv, TypeOK, ServerTypeOK, ThreadTypeOK, LocalTypeOK, Msg
<1>1. Signed(rmsg[w], w) /\ (thr[w].pc = "store" => Signed(thr[w].msg, w))
  BY DEF Authors
<1>2. CASE msg_forward(w)
  BY <1>0, <1>2, ForwardAuthors
(* Steps that hand nothing to a forwarder.                                 *)
<1>3. ASSUME UNCHANGED <<arg, got>>,
             \A t \in Threads \ {w} : thr'[t] = thr[t],
             \A v \in Conns \ {w} : rmsg'[v] = rmsg[v],
             Signed(rmsg'[w], w),
             thr'[w].pc = "store" => Signed(thr'[w].msg, w),
             thr'[w].pc \in {"scan", "send"} => TextSigned(thr'[w].msg)
      PROVE  Authors'
  <2>1. /\ \A v \in Conns : thr'[v].pc = "store" => Signed(thr'[v].msg, v)
        /\ \A g \in Fwds : thr'[g].pc = "body" =>
                             thr'[g].msg.head.from \in {cli[arg'[g]].me, Nobody}
        /\ \A t \in Threads : thr'[t].pc \in {"scan", "send"} => TextSigned(thr'[t].msg)
        /\ \A v \in Conns : Signed(rmsg'[v], v)
    BY <1>0, <1>3, ConnsThreads DEF Authors
  <2> QED BY <1>3, <2>1, AuthorsStep DEF Authors
<1>4. CASE ReadSub(w) \/ ReadFd(w) \/ CloseFd(w) \/ SetOffline(w)
  <2>1. UNCHANGED <<arg, got, rmsg>>
    BY <1>4 DEF ReadSub, ReadFd, CloseFd, SetOffline, netVars
  <2>2. \E pc \in {"fd", "greet", "offline", "bye"} : Goto(w, pc)
    BY <1>4 DEF ReadSub, ReadFd, CloseFd, SetOffline
  <2>3. thr'[w].pc \in {"fd", "greet", "offline", "bye"} /\ \A t \in Threads \ {w} : thr'[t] = thr[t]
    BY <1>0, <2>2 DEF Goto
  <2> QED BY <1>1, <1>3, <2>1, <2>3
<1>5. CASE LoginNotice(w) \/ LogoutNotice(w)
  <2>1. UNCHANGED <<arg, got, rmsg>>
    BY <1>5 DEF LoginNotice, LogoutNotice, netVars
  <2>2. PICK m, pc : CallForward(w, m, pc) /\ TextSigned(m)
    BY <1>5, NoticeText DEF LoginNotice, LogoutNotice
  <2>3. thr'[w].pc = "scan" /\ thr'[w].msg = m /\ \A t \in Threads \ {w} : thr'[t] = thr[t]
    BY <1>0, <2>2 DEF CallForward
  <2> QED BY <1>1, <1>3, <2>1, <2>2, <2>3
(* A message, or the zeros of a failed recv(), into the worker's buffer.   *)
<1>6. ASSUME NEW m, Signed(m, w), UNCHANGED <<arg, got>>,
             thr' = [thr EXCEPT ![w].pc = "store", ![w].msg = m],
             rmsg' = [rmsg EXCEPT ![w].head = m.head]
      PROVE  Authors'
  <2>1. thr'[w].msg = m /\ thr'[w].pc = "store" /\ \A t \in Threads \ {w} : thr'[t] = thr[t]
    BY <1>0, <1>6
  <2>2. /\ rmsg'[w].head = m.head /\ rmsg'[w].body = rmsg[w].body
        /\ \A v \in Conns \ {w} : rmsg'[v] = rmsg[v]
    BY <1>0, <1>6
  <2>3. Signed(rmsg'[w], w)
    BY <1>1, <1>6, <2>2 DEF Signed
  <2> QED BY <1>3, <1>6, <2>1, <2>2, <2>3
<1>7. CASE CallRecv(w)
  <2>1. CASE Goto(w, "block") /\ UNCHANGED rmsg
    <3>1. thr'[w].pc = "block" /\ \A t \in Threads \ {w} : thr'[t] = thr[t]
      BY <1>0, <2>1 DEF Goto
    <3> QED BY <1>1, <1>3, <1>7, <2>1, <3>1 DEF CallRecv, netVars
  <2>2. CASE /\ thr' = [thr EXCEPT ![w].pc = "store", ![w].msg = ZeroMsg]
             /\ rmsg' = [rmsg EXCEPT ![w].head = ZeroMsg.head]
    BY <1>6, <1>7, <2>2, ZeroSigned DEF CallRecv, netVars
  <2> QED BY <1>7, <2>1, <2>2 DEF CallRecv, Buffer
<1>8. CASE RecvMsg(w)
  <2>1. loc[w].sock = w
    <3>1. thr[w].pc = "block"
      BY <1>8 DEF RecvMsg
    <3>2. loc[w].sub \in Slots /\ Stands(w, loc[w].sub)
      BY <3>1 DEF SessionInv, Sessions, HaveEntries, InSession, Stands, EntryOf
    <3> QED BY <3>1, <3>2 DEF SessionInv, Sessions, EntriesOwned, Owned
  <2>2. up[w] # <<>> /\ up[w] \in Seq(Msg)
    BY <1>8, <2>1 DEF RecvMsg, chat_recv, SessionInv, TypeInv, TypeOK, NetTypeOK
  <2>3. 1 \in DOMAIN up[w] /\ Head(up[w]) = up[w][1]
    BY <2>2
  <2>4. Signed(Head(up[w]), w)
    BY <2>3 DEF SessionInv, SentAs
  <2> QED BY <1>6, <1>8, <2>1, <2>4 DEF RecvMsg, Buffer
<1>9. CASE RecvEnd(w)
  BY <1>6, <1>9, ZeroSigned DEF RecvEnd, Buffer, netVars
<1>10. CASE Dispatch(w)
  <2>1. /\ rmsg' = [rmsg EXCEPT ![w].body = thr[w].msg.body]
        /\ thr[w].pc = "store" /\ got' = got
    BY <1>10 DEF Dispatch, Buffer, netVars
  <2>2. /\ rmsg'[w].head = rmsg[w].head /\ rmsg'[w].body = thr[w].msg.body
        /\ \A v \in Conns \ {w} : rmsg'[v] = rmsg[v]
    BY <1>0, <2>1
  <2>3. Signed(rmsg'[w], w)
    BY <1>1, <2>1, <2>2 DEF Signed
  <2>4. ASSUME NEW pc \in {"recv", "close"}, UNCHANGED arg,
               Goto(w, pc) \/ thr' = [thr EXCEPT ![w].pc = pc, ![w].msg = ZeroMsg]
        PROVE  Authors'
    <3>1. thr'[w].pc = pc /\ \A t \in Threads \ {w} : thr'[t] = thr[t]
      BY <1>0, <2>4 DEF Goto
    <3> QED BY <1>3, <2>1, <2>2, <2>3, <2>4, <3>1
  <2>5. ASSUME NEW f \in Fwds, arg' = [arg EXCEPT ![f] = w],
               thr' = [thr EXCEPT ![w].pc = "recv", ![w].msg = ZeroMsg, ![f].pc = "head"]
        PROVE  Authors'
    <3>1. w # f /\ f \in Threads /\ f \notin Conns
      BY <1>0, ConnsThreads
    <3>2. /\ thr'[w].pc = "recv" /\ thr'[f].pc = "head"
          /\ \A u \in Threads \ {w, f} : thr'[u] = thr[u]
      BY <1>0, <2>5, <3>1, HandOverType DEF SessionInv
    <3>3. \A g \in Fwds \ {f} : arg'[g] = arg[g]
      BY <2>5 DEF SessionInv, TypeInv, TypeOK, ServerTypeOK, LocalTypeOK
    <3>4. /\ \A v \in Conns : thr'[v].pc = "store" => Signed(thr'[v].msg, v)
          /\ \A g \in Fwds : thr'[g].pc = "body" =>
                               thr'[g].msg.head.from \in {cli[arg'[g]].me, Nobody}
          /\ \A t \in Threads : thr'[t].pc \in {"scan", "send"} => TextSigned(thr'[t].msg)
          /\ \A v \in Conns : Signed(rmsg'[v], v)
      BY <1>0, <2>2, <2>3, <3>1, <3>2, <3>3, ConnsThreads DEF Authors
    <3> QED BY <2>1, <3>4, AuthorsStep DEF Authors
  <2> QED BY <1>10, <2>4, <2>5 DEF Dispatch, Buffer
<1> QED
  BY <1>2, <1>4, <1>5, <1>7, <1>8, <1>9, <1>10 DEF work

LEMMA ClientNames ==
  ASSUME SessionInv, ClientNext
  PROVE  \A d \in Conns : cli'[d].me = cli[d].me /\ got'[d] \subseteq got[d]
<1>0. /\ cli \in [Conns -> [pc : ClientPcs, me : Users, sent : 0 .. MaxSend]]
      /\ got \in [Conns -> SUBSET Msg]
  BY DEF SessionInv, TypeInv, TypeOK, ClientTypeOK, NetTypeOK
<1>1. PICK c \in Conns : \/ socket_connect(c) \/ SendLogin(c) \/ RecvReply(c)
                        \/ client_send(c) \/ Leave(c)
  BY DEF ClientNext
<1>2. ASSUME NEW pc, Step(c, pc) PROVE \A d \in Conns : cli'[d].me = cli[d].me
  BY <1>0, <1>2 DEF Step
<1>3. ASSUME Quit(c) PROVE \A d \in Conns : cli'[d].me = cli[d].me /\ got'[d] \subseteq got[d]
  BY <1>0, <1>2, <1>3 DEF Quit
<1>4. CASE socket_connect(c) \/ SendLogin(c)
  BY <1>2, <1>4 DEF socket_connect, SendLogin
<1>5. CASE RecvReply(c) \/ Leave(c)
  BY <1>2, <1>3, <1>5 DEF RecvReply, Leave
<1>6. CASE client_send(c)
  BY <1>0, <1>6 DEF client_send
<1> QED BY <1>1, <1>4, <1>5, <1>6

LEMMA QuietAuthors ==
  ASSUME Authors, TypeInv', UNCHANGED <<thr, rmsg, arg>>,
         \A d \in Conns : cli'[d].me = cli[d].me /\ got'[d] \subseteq got[d]
  PROVE  Authors'
<1>1. \A c \in Conns : \A m \in got'[c] : TextSigned(m)
  BY DEF Authors
<1> QED BY <1>1, AuthorsStep DEF Authors

(* Nobody's text is delivered under another user's name, although a        *)
(* forwarder copies a buffer its worker may be receiving into              *)
(* (my_server.c:74, 94), as long as every worker found its own entry.      *)
THEOREM AuthorsKept == Spec => []Attribution
<1>1. Init => AuthorInv
  <2> SUFFICES ASSUME Init PROVE Authors
    BY InitSessions DEF AuthorInv
  <2>1. /\ \A t \in Threads : thr[t].pc = "none"
        /\ \A c \in Conns : rmsg[c] = ZeroMsg /\ got[c] = {}
    BY DEF Init, ServerInit, NetInit
  <2>2. \A t \in Threads : thr[t].pc \notin {"store", "body", "scan", "send"}
    BY <2>1
  <2> QED BY <2>1, <2>2, ZeroSigned, ConnsThreads DEF Authors
<1>2. AuthorInv /\ [Next]_vars => AuthorInv'
  <2> SUFFICES ASSUME AuthorInv, [Next]_vars, intact' PROVE Authors'
    BY StepSessions DEF AuthorInv
  <2>1. SessionInv /\ TypeInv'
    BY StepSessions DEF AuthorInv, SessionInv
  <2>2. intact /\ Authors
    <3>1. intact
      BY DEF Next, ServerNext, Main, accept, RecvLogin, RecvLoginFails, check_online, Refuse,
             Greet, find_sub, SetOnline, SetFd, SetName, SpawnWorker, work, ReadSub, ReadFd,
             LoginNotice, CallRecv, RecvMsg, RecvEnd, Dispatch, CloseFd, SetOffline,
             LogoutNotice, msg_forward, ForwardTest, ForwardSend, Forwarder, CopyHead,
             CopyBody, serverVars, histVars, vars
    <3> QED BY <3>1 DEF AuthorInv
  <2>3. CASE ServerNext /\ UNCHANGED cli
    BY <2>1, <2>2, <2>3, MainAuthors, WorkerAuthors, ForwarderAuthors DEF ServerNext
  <2>4. CASE ClientNext /\ UNCHANGED serverVars
    BY <2>1, <2>2, <2>4, ClientNames, QuietAuthors DEF serverVars
  <2>5. CASE UNCHANGED vars
    BY <2>1, <2>2, <2>5, QuietAuthors DEF vars, serverVars, netVars
  <2> QED BY <2>3, <2>4, <2>5 DEF Next
<1>3. AuthorInv => Attribution
  BY DEF AuthorInv, Authors, Attribution, TextSigned
<1> QED BY <1>1, <1>2, <1>3, PTL DEF Spec

-----------------------------------------------------------------------------
(* Delivery.  Who was online when a forward began and is still connected   *)
(* keeps an entry that the scan has yet to reach, or has the message.      *)

(* Resets come from clients that have left.                                *)
Honest ==
  /\ \A c \in Conns : rst[c] => ~peer[c] /\ cli[c].pc # "start"
  /\ \A c \in Conns : (\E fd \in Fds : fdt[fd] = c) => cli[c].pc # "start"

(* Who is still connected is not being logged out.                         *)
Stays == \A d \in Conns : peer[d] /\ InSession(d) =>
           /\ thr[d].pc \notin {"close", "offline"}
           /\ thr[d].pc = "store" => thr[d].msg # ZeroMsg

Reached(m, d) == /\ m.head.flag \in {0, 2}
                 /\ m.body[1] \in Recorded => m \in got[d]

Reaching ==
  \A t \in Threads : \A d \in due[t] :
    /\ thr[t].pc \in {"scan", "send"}
    /\ cli[d].pc # "start"
    /\ peer[d] => \E s \in Slots :
                    /\ Stands(d, s)
                    /\ IsFor(thr[t].msg, d) =>
                         s >= thr[t].i \/ Reached(thr[t].msg, d)

DeliveryInv == SessionInv /\ Honest /\ (intact => Stays /\ Reaching)

-----------------------------------------------------------------------------
LEMMA SendHonest ==
  ASSUME Honest, rst \in [Conns -> BOOLEAN], NEW m, NEW fd \in Fds, chat_send(m, fd),
         UNCHANGED <<peer, cli>>
  PROVE  \A c \in Conns : rst'[c] => ~peer'[c] /\ cli'[c].pc # "start"
<1>1. CASE rst' = rst
  BY <1>1 DEF Honest
<1>2. ASSUME NEW c \in Conns, fdt[fd] = c, ~peer[c], rst' = [rst EXCEPT ![c] = TRUE]
      PROVE  \A d \in Conns : rst'[d] => ~peer'[d] /\ cli'[d].pc # "start"
  BY <1>2 DEF Honest
<1> QED BY <1>1, <1>2 DEF chat_send

LEMMA ServerHonest ==
  ASSUME SessionInv, Honest, ServerNext, UNCHANGED cli
  PROVE  Honest'
<1>0. /\ rst \in [Conns -> BOOLEAN] /\ fdt \in [Fds -> Conns \cup {None, Stdin}]
      /\ backlog \in Seq(Conns)
      /\ main.fd \in Fds
      /\ client \in [Cells -> [online : BOOLEAN, fd : Fds, name : Names]]
      /\ \A t \in Threads : thr[t].pc = "send" => thr[t].i \in Slots
  <2>1. \A t \in Threads : thr[t].i \in 0 .. MaxClient
    BY DEF SessionInv, TypeInv, TypeOK, ServerTypeOK, ThreadTypeOK
  <2>2. \A t \in Threads : thr[t].pc = "send" => thr[t].i \in Slots
    BY <2>1, ServerAssumption DEF SessionInv, TypeInv, InTable, Slots
  <2> QED
    BY <2>2 DEF SessionInv, TypeInv, TypeOK, NetTypeOK, ServerTypeOK, MainTypeOK, TableTypeOK
<1>1. ASSUME \A c \in Conns : rst'[c] => ~peer'[c] /\ cli'[c].pc # "start",
             \A fd \in Fds : fdt'[fd] = fdt[fd] \/ fdt'[fd] = None
      PROVE  Honest'
  BY <1>1, NetAssumption DEF Honest
<1>2. ASSUME UNCHANGED <<peer, rst>>,
             \A fd \in Fds : fdt'[fd] = fdt[fd] \/ fdt'[fd] = None
      PROVE  Honest'
  BY <1>1, <1>2 DEF Honest
<1>3. CASE accept
  <2>1. PICK fd \in Fds : fdt' = [fdt EXCEPT ![fd] = Head(backlog)]
    BY <1>3 DEF accept
  <2>2. backlog # <<>> /\ UNCHANGED <<peer, rst>>
    BY <1>3 DEF accept
  <2>3. 1 \in DOMAIN backlog /\ Head(backlog) = backlog[1] /\ backlog[1] \in Conns
    BY <1>0, <2>2
  <2>4. cli[backlog[1]].pc # "start"
    BY <2>3 DEF SessionInv, Unspawned
  <2> QED BY <1>0, <2>1, <2>2, <2>3, <2>4 DEF Honest
<1>4. CASE Refuse
  <2>1. chat_send(Already, main.fd) /\ UNCHANGED peer
        /\ \A fd \in Fds : fdt'[fd] = fdt[fd] \/ fdt'[fd] = None
    BY <1>0, <1>4 DEF Refuse, close
  <2> QED BY <1>0, <1>1, <2>1, SendHonest
<1>5. CASE Greet
  <2>1. chat_send(Welcome, main.fd) /\ UNCHANGED <<peer, fdt>>
    BY <1>5 DEF Greet
  <2> QED BY <1>0, <1>1, <2>1, SendHonest
<1>6. CASE RecvLoginFails
  BY <1>0, <1>2, <1>6 DEF RecvLoginFails, close
<1>7. CASE RecvLogin \/ check_online \/ find_sub \/ SetOnline \/ SetFd \/ SetName \/ SpawnWorker
  BY <1>2, <1>7 DEF RecvLogin, check_online, find_sub, SetOnline, SetFd, SetName,
                    SpawnWorker, netVars
<1>8. ASSUME NEW t \in Threads, msg_forward(t) PROVE Honest'
  <2>1. CASE ForwardSend(t)
    <3>1. chat_send(Outgoing(thr[t].msg), client[thr[t].i].fd) /\ UNCHANGED <<peer, fdt>>
      BY <2>1 DEF ForwardSend
    <3>2. client[thr[t].i].fd \in Fds
      BY <1>0, <2>1, ConnsThreads DEF ForwardSend
    <3> QED BY <1>0, <1>1, <3>1, <3>2, SendHonest
  <2>2. CASE ForwardTest(t)
    BY <1>2, <2>2 DEF ForwardTest, netVars
  <2> QED BY <1>8, <2>1, <2>2 DEF msg_forward
<1>9. ASSUME NEW w \in Conns, work(w), ~msg_forward(w) PROVE Honest'
  <2>1. UNCHANGED <<peer, rst>> /\ (fdt' = fdt \/ \E fd : close(fd))
    BY <1>9 DEF work, ReadSub, ReadFd, LoginNotice, CallRecv, RecvMsg, RecvEnd, Dispatch,
                CloseFd, SetOffline, LogoutNotice, netVars
  <2> QED BY <1>0, <1>2, <2>1 DEF close
<1>10. ASSUME NEW f \in Fwds, Forwarder(f) PROVE Honest'
  <2>1. CASE CopyHead(f) \/ CopyBody(f)
    BY <1>2, <2>1 DEF CopyHead, CopyBody, netVars
  <2> QED BY <1>8, <1>10, <2>1, ConnsThreads DEF Forwarder
<1> QED
  BY <1>3, <1>4, <1>5, <1>6, <1>7, <1>8, <1>9, <1>10, ConnsThreads DEF ServerNext, Main

(* What the clients do to this argument: they leave, or connect at first.  *)
LEMMA ClientPeers ==
  ASSUME SessionInv, ClientNext
  PROVE  /\ UNCHANGED <<fdt, rst>>
         /\ \A d \in Conns : /\ peer'[d] => peer[d] \/ cli[d].pc = "start"
                             /\ cli'[d].pc = "start" => cli[d].pc = "start"
                             /\ peer'[d] => got[d] \subseteq got'[d]
                             /\ cli[d].pc = "start" /\ peer'[d] => cli'[d].pc # "start"
<1>0. /\ cli \in [Conns -> [pc : ClientPcs, me : Users, sent : 0 .. MaxSend]]
      /\ got \in [Conns -> SUBSET Msg] /\ peer \in [Conns -> BOOLEAN]
      /\ \A d \in Conns : cli[d].pc = "start" => ~peer[d]
  BY DEF SessionInv, TypeInv, TypeOK, ClientTypeOK, NetTypeOK, Unspawned
<1>1. PICK c \in Conns : \/ socket_connect(c) \/ SendLogin(c) \/ RecvReply(c)
                        \/ client_send(c) \/ Leave(c)
  BY DEF ClientNext
<1>2. UNCHANGED <<fdt, rst>>
  BY <1>1 DEF socket_connect, SendLogin, RecvReply, client_send, Leave
<1> DEFINE P(d) == /\ peer'[d] => peer[d] \/ cli[d].pc = "start"
                   /\ cli'[d].pc = "start" => cli[d].pc = "start"
                   /\ peer'[d] => got[d] \subseteq got'[d]
                   /\ cli[d].pc = "start" /\ peer'[d] => cli'[d].pc # "start"
<1>3. ASSUME NEW pc \in {"login", "await", "chat", "end"}, Step(c, pc)
      PROVE  cli'[c].pc # "start" /\ \A d \in Conns \ {c} : cli'[d] = cli[d]
  BY <1>0, <1>3 DEF Step
<1>4. CASE socket_connect(c)
  <2>1. cli'[c].pc # "start" /\ \A d \in Conns \ {c} : cli'[d] = cli[d]
    BY <1>3, <1>4 DEF socket_connect
  <2>2. cli[c].pc = "start" /\ got' = got /\ \A d \in Conns \ {c} : peer'[d] = peer[d]
    BY <1>0, <1>4 DEF socket_connect
  <2>3. \A d \in Conns : P(d)
    BY <1>0, <2>1, <2>2
  <2> QED BY <1>2, <2>3
<1>5. CASE Quit(c)
  <2>1. cli'[c].pc # "start" /\ \A d \in Conns \ {c} : cli'[d] = cli[d]
    BY <1>3, <1>5 DEF Quit
  <2>2. ~peer'[c] /\ \A d \in Conns \ {c} : peer'[d] = peer[d] /\ got'[d] = got[d]
    BY <1>0, <1>5 DEF Quit
  <2>3. \A d \in Conns : P(d)
    BY <1>0, <2>1, <2>2
  <2> QED BY <1>2, <2>3
<1>6. CASE UNCHANGED <<peer, got>> /\ \A d \in Conns : cli'[d].pc = "start" => cli[d].pc = "start"
  <2>1. \A d \in Conns : P(d)
    BY <1>0, <1>6
  <2> QED BY <1>2, <2>1
<1>7. CASE SendLogin(c) \/ (RecvReply(c) /\ ~Quit(c))
  <2>1. UNCHANGED <<peer, got>> /\ (Step(c, "await") \/ Step(c, "chat"))
    BY <1>7 DEF SendLogin, RecvReply
  <2>2. cli'[c].pc # "start" /\ \A d \in Conns \ {c} : cli'[d] = cli[d]
    BY <1>3, <2>1
  <2> QED BY <1>6, <2>1, <2>2
<1>8. CASE client_send(c)
  <2>1. UNCHANGED <<peer, got>> /\ \A d \in Conns : cli'[d].pc = cli[d].pc
    BY <1>0, <1>8 DEF client_send
  <2> QED BY <1>6, <2>1
<1> QED BY <1>1, <1>4, <1>5, <1>7, <1>8 DEF Leave

-----------------------------------------------------------------------------
(* A client that stays connected keeps its entry.                          *)

LEMMA WorkerStays ==
  ASSUME SessionInv, Honest, Stays, intact, intact', NEW w \in Conns, work(w), UNCHANGED cli
  PROVE  /\ Stays'
         /\ \A d \in Conns, s \in Slots : peer[d] /\ Stands(d, s) => Stands(d, s)'
<1>0. /\ thr \in [Threads -> [pc : WorkerPcs \cup FwdPcs, msg : Msg, i : 0 .. MaxClient,
                              ret : {"recv", "exit"}]]
      /\ loc \in [Conns -> [sub : Cells, fd : Fds, sock : Conns \cup {None}]]
      /\ handed \in [Conns -> Cells]
      /\ w \in Threads
  BY ConnsThreads DEF SessionInv, TypeInv, TypeOK, ServerTypeOK, ThreadTypeOK, LocalTypeOK,
                      HistoryTypeOK
<1>1. /\ peer' = peer
      /\ \A c \in Conns \ {w} : thr'[c] = thr[c]
  BY WorkerAlive
<1>2. \A c \in Conns \ {w} : loc'[c] = loc[c] /\ handed'[c] = handed[c]
  <2>1. CASE ReadSub(w) \/ ReadFd(w) \/ CallRecv(w)
    BY <1>0, <2>1 DEF ReadSub, ReadFd, CallRecv, histVars
  <2>2. CASE RecvMsg(w) \/ RecvEnd(w) \/ LogoutNotice(w)
    BY <1>0, <2>2 DEF RecvMsg, RecvEnd, LogoutNotice, histVars
  <2>3. CASE LoginNotice(w) \/ Dispatch(w) \/ CloseFd(w) \/ SetOffline(w) \/ msg_forward(w)
    BY <2>3 DEF LoginNotice, Dispatch, CloseFd, SetOffline, msg_forward, ForwardTest,
                ForwardSend, histVars
  <2> QED BY <2>1, <2>2, <2>3 DEF work
<1>3. \A d \in Conns \ {w}, s \in Slots : Stands(d, s) => Stands(d, s)'
  BY <1>1, <1>2 DEF Stands, InSession, EntryOf
(* What is to be shown of w itself.                                        *)
<1>4. ASSUME peer[w] /\ InSession(w)' =>
               /\ thr'[w].pc \notin {"close", "offline"}
               /\ thr'[w].pc = "store" => thr'[w].msg # ZeroMsg,
             \A s \in Slots : peer[w] /\ Stands(w, s) => Stands(w, s)'
      PROVE  /\ Stays'
             /\ \A d \in Conns, s \in Slots : peer[d] /\ Stands(d, s) => Stands(d, s)'
  BY <1>1, <1>3, <1>4 DEF Stays, InSession
<1>5. CASE ~peer[w]
  BY <1>4, <1>5
<1>6. InSession(w) => Owned(w, EntryOf(w)) \/ thr[w].pc = "start"
  BY DEF SessionInv, Sessions, EntriesOwned, HaveEntries, Stands, EntryOf
(* From one program counter in session to another.                         *)
<1>7. ASSUME UNCHANGED handed, loc'[w].sub = loc[w].sub,
             thr[w].pc # "start", InSession(w)', thr'[w].pc # "start",
             thr'[w].pc \notin {"close", "offline"},
             thr'[w].pc = "store" => thr'[w].msg # ZeroMsg
      PROVE  /\ Stays'
             /\ \A d \in Conns, s \in Slots : peer[d] /\ Stands(d, s) => Stands(d, s)'
  BY <1>4, <1>7 DEF Stands, EntryOf
<1>8. CASE ReadSub(w)
  <2>1. /\ thr[w].pc = "start" /\ sub = handed[w] /\ loc'[w].sub = sub
        /\ thr'[w].pc = "fd"
    BY <1>0, <1>8 DEF ReadSub, Goto
  <2> QED BY <1>4, <2>1 DEF Stands, InSession, EntryOf
<1>9. CASE ReadFd(w)
  <2>1. thr[w].pc = "fd" /\ loc'[w].sub = loc[w].sub /\ thr'[w].pc = "greet" /\ UNCHANGED handed
    BY <1>0, <1>9 DEF ReadFd, Goto, histVars
  <2> QED BY <1>7, <2>1 DEF InSession
<1>10. CASE LoginNotice(w)
  <2>1. /\ thr[w].pc = "greet" /\ loc' = loc /\ thr'[w].pc = "scan" /\ thr'[w].ret = "recv"
        /\ UNCHANGED handed
    BY <1>0, <1>10 DEF LoginNotice, CallForward
  <2> QED BY <1>7, <2>1 DEF InSession
<1>11. CASE CallRecv(w)
  <2>1. thr[w].pc = "recv" /\ InSession(w)
    BY <1>11 DEF CallRecv, InSession
  <2>2. fdt[loc[w].fd] = w
    BY <1>6, <2>1 DEF Owned
  <2>3. thr'[w].pc = "block" /\ loc'[w].sub = loc[w].sub /\ UNCHANGED handed
    BY <1>0, <1>11, <2>2 DEF CallRecv, Goto, histVars
  <2> QED BY <1>7, <2>1, <2>3 DEF InSession
<1>12. CASE RecvMsg(w)
  <2>1. thr[w].pc = "block" /\ InSession(w)
    BY <1>12 DEF RecvMsg, InSession
  <2>2. loc[w].sock = w
    BY <1>6, <2>1 DEF Owned
  <2>3. up[w] # <<>> /\ up[w] \in Seq(Msg)
    BY <1>12, <2>2 DEF RecvMsg, chat_recv, SessionInv, TypeInv, TypeOK, NetTypeOK
  <2>4. 1 \in DOMAIN up[w] /\ Head(up[w]) = up[w][1]
    BY <2>3
  <2>5. Head(up[w]) # ZeroMsg
    <3>1. Head(up[w]).head.from = cli[w].me
      BY <2>4 DEF SessionInv, SentAs
    <3>2. cli[w].me # Nobody
      BY NetAssumption DEF SessionInv, TypeInv, TypeOK, ClientTypeOK
    <3> QED BY <3>1, <3>2 DEF ZeroMsg, Message
  <2>6. /\ thr'[w].pc = "store" /\ thr'[w].msg = Head(up[w]) /\ loc'[w].sub = loc[w].sub
        /\ UNCHANGED handed
    BY <1>0, <1>12, <2>2 DEF RecvMsg, histVars
  <2> QED BY <1>7, <2>1, <2>5, <2>6 DEF InSession
<1>13. CASE RecvEnd(w)
  <2>1. thr[w].pc = "block" /\ InSession(w) /\ RecvFails(loc[w].sock)
    BY <1>13 DEF RecvEnd, InSession
  <2>2. loc[w].sock = w
    BY <1>6, <2>1 DEF Owned
  <2>3. ~peer[w]
    BY <2>1, <2>2 DEF RecvFails, Honest
  <2> QED BY <1>5, <2>3
<1>14. CASE Dispatch(w)
  <2>1. thr[w].pc = "store" /\ UNCHANGED <<loc, handed>> /\ InSession(w)
    BY <1>14 DEF Dispatch, histVars, InSession
  <2>2. CASE thr[w].msg = ZeroMsg
    BY <1>5, <2>1, <2>2 DEF Stays
  <2>3. CASE thr[w].msg # ZeroMsg
    <3>1. ASSUME NEW f \in Fwds,
                 thr' = [thr EXCEPT ![w].pc = "recv", ![w].msg = ZeroMsg, ![f].pc = "head"]
          PROVE  thr'[w].pc = "recv"
      <4>1. w # f /\ f \in Threads
        BY ConnsThreads
      <4> QED BY <1>0, <3>1, <4>1, HandOverType DEF SessionInv
    <3>2. ASSUME thr' = [thr EXCEPT ![w].pc = "recv", ![w].msg = ZeroMsg]
          PROVE  thr'[w].pc = "recv"
      BY <1>0, <3>2
    <3>3. thr'[w].pc = "recv"
      BY <1>0, <1>14, <2>3, <3>1, <3>2 DEF Dispatch
    <3> QED BY <1>7, <2>1, <3>3 DEF InSession
  <2> QED BY <2>2, <2>3
<1>15. CASE CloseFd(w) \/ SetOffline(w)
  <2>1. InSession(w) /\ thr[w].pc \in {"close", "offline"}
    BY <1>15 DEF CloseFd, SetOffline, InSession
  <2> QED BY <1>5, <2>1 DEF Stays
<1>16. CASE LogoutNotice(w)
  <2>1. thr[w].pc = "bye" /\ thr'[w].pc = "scan" /\ thr'[w].ret = "exit"
    BY <1>0, <1>16 DEF LogoutNotice, CallForward
  <2> QED BY <1>4, <2>1 DEF Stands, InSession
<1>17. CASE msg_forward(w)
  <2>1. /\ UNCHANGED <<loc, handed>>
        /\ thr[w].pc \in {"scan", "send"}
        /\ \/ thr'[w].pc \in {"scan", "send"} /\ thr'[w].ret = thr[w].ret
           \/ thr'[w].pc = thr[w].ret /\ thr[w].ret \in {"recv", "exit"}
    BY <1>0, <1>17, ForwardSessions
  <2>2. CASE thr[w].ret = "recv"
    BY <1>7, <2>1, <2>2 DEF InSession
  <2>3. CASE thr[w].ret # "recv"
    BY <1>4, <2>1, <2>3 DEF Stands, InSession
  <2> QED BY <2>2, <2>3
<1> QED
  BY <1>8, <1>9, <1>10, <1>11, <1>12, <1>13, <1>14, <1>15, <1>16, <1>17 DEF work

(* The steps of main, of a forwarder, and of clients.                      *)
LEMMA OthersStay ==
  ASSUME Stays, UNCHANGED loc,
         \A d \in Conns : \/ thr'[d] = thr[d] /\ handed'[d] = handed[d]
                          \/ thr[d].pc = "none" /\ thr'[d].pc = "start",
         \A d \in Conns : peer'[d] => peer[d] \/ thr'[d].pc = "none"
  PROVE  /\ Stays'
         /\ \A d \in Conns, s \in Slots : Stands(d, s) => Stands(d, s)'
<1>1. \A d \in Conns, s \in Slots : Stands(d, s) => Stands(d, s)'
  BY DEF Stands, InSession, EntryOf
<1>2. Stays'
  BY DEF Stays, InSession
<1> QED BY <1>1, <1>2

-----------------------------------------------------------------------------
(* Scans.  X has the threads whose part of Reaching is shown by hand.      *)
LEMMA ReachingStep ==
  ASSUME Reaching, NEW X \in SUBSET Threads, due \in [Threads -> SUBSET Conns],
         \A d \in Conns : /\ cli'[d].me = cli[d].me
                          /\ peer'[d] => peer[d] \/ cli[d].pc = "start"
                          /\ cli'[d].pc = "start" => cli[d].pc = "start"
                          /\ peer'[d] => got[d] \subseteq got'[d],
         \A d \in Conns, s \in Slots : peer[d] /\ Stands(d, s) => Stands(d, s)',
         \A t \in Threads \ X : /\ due'[t] = due[t]
                                /\ thr'[t] = thr[t] \/ thr[t].pc \notin {"scan", "send"},
         \A t \in X : \A d \in due'[t] :
           /\ thr'[t].pc \in {"scan", "send"}
           /\ cli'[d].pc # "start"
           /\ peer'[d] => \E s \in Slots :
                /\ Stands(d, s)'
                /\ IsFor(thr'[t].msg, d) =>
                     \/ s >= thr'[t].i
                     \/ /\ thr'[t].msg.head.flag \in {0, 2}
                        /\ thr'[t].msg.body[1] \in Recorded => thr'[t].msg \in got'[d],
         \A t \in X : due'[t] \subseteq Conns
  PROVE  Reaching'
<1>1. \A m, d : d \in Conns => (IsFor(m, d)' <=> IsFor(m, d))
  BY DEF IsFor
<1>2. ASSUME NEW t \in Threads, NEW d \in due'[t], t \in X
      PROVE  /\ thr'[t].pc \in {"scan", "send"}
             /\ cli'[d].pc # "start"
             /\ peer'[d] => \E s \in Slots :
                  /\ Stands(d, s)'
                  /\ (IsFor(thr[t].msg, d))' => s >= thr'[t].i \/ (Reached(thr[t].msg, d))'
  <2>1. d \in Conns
    BY <1>2
  <2> QED BY <1>2, <2>1 DEF IsFor, Reached
<1>3. ASSUME NEW t \in Threads, NEW d \in due'[t], t \notin X
      PROVE  /\ thr'[t].pc \in {"scan", "send"}
             /\ cli'[d].pc # "start"
             /\ peer'[d] => \E s \in Slots :
                  /\ Stands(d, s)'
                  /\ (IsFor(thr[t].msg, d))' => s >= thr'[t].i \/ (Reached(thr[t].msg, d))'
  <2>1. d \in Conns /\ d \in due[t]
    BY <1>3
  <2>2. thr[t].pc \in {"scan", "send"} /\ cli[d].pc # "start"
    BY <2>1 DEF Reaching
  <2>3. thr'[t] = thr[t] /\ cli'[d].pc # "start"
    BY <1>3, <2>1, <2>2
  <2>4. ASSUME peer'[d]
        PROVE  \E s \in Slots :
                 /\ Stands(d, s)'
                 /\ (IsFor(thr[t].msg, d))' => s >= thr'[t].i \/ (Reached(thr[t].msg, d))'
    <3>1. peer[d] /\ got[d] \subseteq got'[d]
      BY <2>1, <2>2, <2>4
    <3>2. PICK s \in Slots : /\ Stands(d, s)
                             /\ IsFor(thr[t].msg, d) =>
                                  s >= thr[t].i \/ Reached(thr[t].msg, d)
      BY <2>1, <3>1 DEF Reaching
    <3>3. Stands(d, s)'
      BY <2>1, <3>1, <3>2
    <3>4. (IsFor(thr[t].msg, d))' => IsFor(thr[t].msg, d)
      BY <2>1, <2>3 DEF IsFor
    <3>5. Reached(thr[t].msg, d) => (Reached(thr[t].msg, d))'
      BY <2>3, <3>1 DEF Reached
    <3> QED BY <2>3, <3>2, <3>3, <3>4, <3>5
  <2> QED BY <2>2, <2>3, <2>4
<1> QED BY <1>2, <1>3 DEF Reaching

(* A call of msg_forward begins with everyone who is online.               *)
LEMMA CallReaches ==
  ASSUME SessionInv, Reaching, NEW t \in Threads, NEW m, NEW pc, CallForward(t, m, pc),
         UNCHANGED <<cli, peer, got>>,
         \A u \in Threads \ {t} : thr'[u] = thr[u] \/ thr[u].pc \notin {"scan", "send"},
         \A d \in Conns, s \in Slots : peer[d] /\ Stands(d, s) => Stands(d, s)'
  PROVE  Reaching'
<1>0. /\ thr \in [Threads -> [pc : WorkerPcs \cup FwdPcs, msg : Msg, i : 0 .. MaxClient,
                              ret : {"recv", "exit"}]]
      /\ due \in [Threads -> SUBSET Conns]
  BY DEF SessionInv, TypeInv, TypeOK, ServerTypeOK, ThreadTypeOK, HistoryTypeOK
<1>1. /\ thr'[t].pc = "scan" /\ thr'[t].i = 0
      /\ due'[t] = Online /\ \A u \in Threads \ {t} : due'[u] = due[u]
  BY <1>0 DEF CallForward
<1>2. ASSUME NEW d \in Online
      PROVE  /\ d \in Conns /\ cli[d].pc # "start"
             /\ peer[d] => \E s \in Slots : Stands(d, s)' /\ s >= 0
  <2>1. d \in Conns /\ InSession(d) /\ EntryOf(d) \in Slots
    BY DEF Online
  <2>2. thr[d].pc # "none"
    BY <2>1 DEF InSession
  <2>3. cli[d].pc # "start"
    BY <2>1, <2>2 DEF SessionInv, Unspawned
  <2>4. PICK s \in Slots : Stands(d, s)
    BY <2>1 DEF Stands
  <2>5. s >= 0
    BY DEF Slots
  <2> QED BY <2>1, <2>3, <2>4, <2>5
<1>3. {t} \in SUBSET Threads
  OBVIOUS
<1>4. \A u \in {t} : \A d \in due'[u] :
        /\ thr'[u].pc \in {"scan", "send"}
        /\ cli'[d].pc # "start"
        /\ peer'[d] => \E s \in Slots :
             /\ Stands(d, s)'
             /\ IsFor(thr'[u].msg, d) =>
                  \/ s >= thr'[u].i
                  \/ /\ thr'[u].msg.head.flag \in {0, 2}
                     /\ thr'[u].msg.body[1] \in Recorded => thr'[u].msg \in got'[d]
  BY <1>1, <1>2
<1>5. \A u \in {t} : due'[u] \subseteq Conns
  BY <1>1, <1>2
<1> QED BY <1>0, <1>1, <1>3, <1>4, <1>5, ReachingStep

(* A step of a scan: who has the entry under the index is addressed, and   *)
(* sent the message over the connection of his own.                        *)
LEMMA ForwardReaches ==
  ASSUME SessionInv, Honest, intact, Stays, Reaching, NEW t \in Threads, msg_forward(t),
         UNCHANGED cli,
         \A d \in Conns, s \in Slots : peer[d] /\ Stands(d, s) => Stands(d, s)'
  PROVE  Reaching'
<1>0. /\ thr \in [Threads -> [pc : WorkerPcs \cup FwdPcs, msg : Msg, i : 0 .. MaxClient,
                              ret : {"recv", "exit"}]]
      /\ due \in [Threads -> SUBSET Conns]
      /\ got \in [Conns -> SUBSET Msg]
  BY DEF SessionInv, TypeInv, TypeOK, ServerTypeOK, ThreadTypeOK, HistoryTypeOK, NetTypeOK
<1>1. peer' = peer /\ \A u \in Threads \ {t} : thr'[u] = thr[u]
  BY ForwardSessions
<1>2. \A d \in Conns : got[d] \subseteq got'[d]
  <2>1. CASE ForwardSend(t)
    <3>1. chat_send(Outgoing(thr[t].msg), client[thr[t].i].fd)
      BY <2>1 DEF ForwardSend
    <3> QED BY <1>0, <3>1, SendGot
  <2>2. CASE ForwardTest(t)
    BY <2>2 DEF ForwardTest, netVars
  <2> QED BY <2>1, <2>2 DEF msg_forward
<1>3. ASSUME \A u \in Threads \ {t} : due'[u] = due[u], due'[t] \subseteq Conns,
             \A d \in due'[t] :
               /\ thr'[t].pc \in {"scan", "send"}
               /\ cli[d].pc # "start"
               /\ peer[d] => \E s \in Slots :
                    /\ Stands(d, s)
                    /\ IsFor(thr'[t].msg, d) =>
                         \/ s >= thr'[t].i
                         \/ /\ thr'[t].msg.head.flag \in {0, 2}
                            /\ thr'[t].msg.body[1] \in Recorded => thr'[t].msg \in got'[d]
      PROVE  Reaching'
  <2>1. \A u \in {t} : \A d \in due'[u] :
          /\ thr'[u].pc \in {"scan", "send"}
          /\ cli'[d].pc # "start"
          /\ peer'[d] => \E s \in Slots :
               /\ Stands(d, s)'
               /\ IsFor(thr'[u].msg, d) =>
                    \/ s >= thr'[u].i
                    \/ /\ thr'[u].msg.head.flag \in {0, 2}
                       /\ thr'[u].msg.body[1] \in Recorded => thr'[u].msg \in got'[d]
    <3> SUFFICES ASSUME NEW d \in due'[t], peer[d]
                 PROVE  \E s \in Slots :
                          /\ Stands(d, s)'
                          /\ IsFor(thr'[t].msg, d) =>
                               \/ s >= thr'[t].i
                               \/ /\ thr'[t].msg.head.flag \in {0, 2}
                                  /\ thr'[t].msg.body[1] \in Recorded => thr'[t].msg \in got'[d]
      BY <1>1, <1>3
    <3>1. PICK s \in Slots :
            /\ Stands(d, s)
            /\ IsFor(thr'[t].msg, d) =>
                 \/ s >= thr'[t].i
                 \/ /\ thr'[t].msg.head.flag \in {0, 2}
                    /\ thr'[t].msg.body[1] \in Recorded => thr'[t].msg \in got'[d]
      BY <1>3
    <3> QED BY <1>3, <3>1
  <2>2. {t} \in SUBSET Threads /\ \A u \in {t} : due'[u] \subseteq Conns
    BY <1>3
  <2> QED BY <1>0, <1>1, <1>2, <1>3, <2>1, <2>2, ReachingStep
(* The thread's part of the invariant before the step.                     *)
<1>4. ASSUME NEW d \in due[t]
      PROVE  /\ d \in Conns /\ cli[d].pc # "start"
             /\ peer[d] => \E s \in Slots :
                  /\ Stands(d, s) /\ Owned(d, s) /\ fdt[client[s].fd] = d
                  /\ IsFor(thr[t].msg, d) => s >= thr[t].i \/ Reached(thr[t].msg, d)
  <2>1. d \in Conns /\ cli[d].pc # "start"
    BY <1>0 DEF Reaching
  <2>2. ASSUME peer[d]
        PROVE  \E s \in Slots :
                  /\ Stands(d, s) /\ Owned(d, s) /\ fdt[client[s].fd] = d
                  /\ IsFor(thr[t].msg, d) => s >= thr[t].i \/ Reached(thr[t].msg, d)
    <3>1. PICK s \in Slots :
            /\ Stands(d, s)
            /\ IsFor(thr[t].msg, d) => s >= thr[t].i \/ Reached(thr[t].msg, d)
      BY <2>2 DEF Reaching
    <3>2. Owned(d, s)
      BY <2>1, <3>1 DEF SessionInv, Sessions, EntriesOwned
    <3>3. thr[d].pc # "offline"
      BY <2>1, <2>2, <3>1 DEF Stays, Stands
    <3> QED BY <3>1, <3>2, <3>3 DEF Owned
  <2> QED BY <2>1, <2>2
<1>5. CASE Return(t)
  <2>1. due'[t] = {} /\ \A u \in Threads \ {t} : due'[u] = due[u]
    BY <1>0, <1>5 DEF Return
  <2> QED BY <1>3, <2>1
<1>6. CASE Goto(t, "send") /\ UNCHANGED due
  <2>1. thr'[t].pc = "send" /\ thr'[t].msg = thr[t].msg /\ thr'[t].i = thr[t].i
    BY <1>0, <1>6 DEF Goto
  <2> QED BY <1>2, <1>3, <1>4, <1>6, <2>1 DEF Reached
<1>7. ASSUME thr[t].pc \in {"scan", "send"}, UNCHANGED due,
             thr'[t].pc = "scan", thr'[t].i = thr[t].i + 1, thr'[t].msg = thr[t].msg,
             \A d \in due[t], s \in Slots :
               peer[d] /\ IsFor(thr[t].msg, d) /\ s = thr[t].i
                 /\ Owned(d, s) /\ fdt[client[s].fd] = d
               => /\ thr[t].msg.head.flag \in {0, 2}
                  /\ thr[t].msg.body[1] \in Recorded => thr[t].msg \in got'[d]
      PROVE  Reaching'
  <2>1. ASSUME NEW d \in due[t], peer[d]
        PROVE  \E s \in Slots :
                 /\ Stands(d, s)
                 /\ IsFor(thr[t].msg, d) =>
                      \/ s >= thr[t].i + 1
                      \/ /\ thr[t].msg.head.flag \in {0, 2}
                         /\ thr[t].msg.body[1] \in Recorded => thr[t].msg \in got'[d]
    <3>1. PICK s \in Slots :
            /\ Stands(d, s) /\ Owned(d, s) /\ fdt[client[s].fd] = d
            /\ IsFor(thr[t].msg, d) => s >= thr[t].i \/ Reached(thr[t].msg, d)
      BY <1>4, <2>1
    <3>2. Reached(thr[t].msg, d) => /\ thr[t].msg.head.flag \in {0, 2}
                                    /\ thr[t].msg.body[1] \in Recorded => thr[t].msg \in got'[d]
      BY <1>2, <1>4 DEF Reached
    <3>a. s \in Int /\ thr[t].i \in Int
      BY <1>0 DEF Slots
    <3>3. s >= thr[t].i => s = thr[t].i \/ s >= thr[t].i + 1
      BY <3>a
    <3> QED BY <1>7, <2>1, <3>1, <3>2, <3>3
  <2> QED BY <1>3, <1>4, <1>7, <2>1
<1>8. CASE ForwardTest(t) /\ ~Return(t) /\ ~Goto(t, "send")
  <2>1. /\ thr' = [thr EXCEPT ![t].i = @ + 1] /\ UNCHANGED due /\ thr[t].pc = "scan"
        /\ ~Addressed(thr[t].msg, thr[t].i)
    BY <1>8 DEF ForwardTest
  <2>2. thr'[t].pc = "scan" /\ thr'[t].i = thr[t].i + 1 /\ thr'[t].msg = thr[t].msg
    BY <1>0, <2>1
  <2>3. \A d \in due[t], s \in Slots :
          ~(IsFor(thr[t].msg, d) /\ s = thr[t].i /\ Owned(d, s))
    BY <2>1 DEF IsFor, Addressed, Owned
  <2> QED BY <1>7, <2>1, <2>2, <2>3
<1>9. CASE ForwardSend(t) /\ ~Return(t)
  <2>1. /\ thr' = [thr EXCEPT ![t].pc = "scan", ![t].i = @ + 1] /\ UNCHANGED due
        /\ thr[t].pc = "send" /\ thr[t].msg.head.flag \notin {1, 4}
        /\ chat_send(Outgoing(thr[t].msg), client[thr[t].i].fd)
    BY <1>9 DEF ForwardSend
  <2>2. thr'[t].pc = "scan" /\ thr'[t].i = thr[t].i + 1 /\ thr'[t].msg = thr[t].msg
    BY <1>0, <2>1
  <2>3. Outgoing(thr[t].msg) = thr[t].msg
    BY <2>1 DEF Outgoing
  <2>4. ASSUME NEW d \in due[t], NEW s \in Slots, peer[d], IsFor(thr[t].msg, d),
               s = thr[t].i, fdt[client[s].fd] = d
        PROVE  /\ thr[t].msg.head.flag \in {0, 2}
               /\ thr[t].msg.body[1] \in Recorded => thr[t].msg \in got'[d]
    <3>1. thr[t].msg.head.flag \in {0, 2}
      BY <2>1, <2>4 DEF IsFor
    <3>2. d \in Conns /\ ~rst[d]
      BY <1>4, <2>4 DEF Honest
    <3>3. got' = IF thr[t].msg.body[1] \in Recorded
                   THEN [got EXCEPT ![d] = @ \cup {thr[t].msg}]
                   ELSE got
      BY <2>1, <2>3, <2>4, <3>2 DEF chat_send
    <3> QED BY <1>0, <3>1, <3>2, <3>3
  <2> QED BY <1>7, <2>1, <2>2, <2>4
<1>10. ForwardTest(t) => Return(t) \/ UNCHANGED due
  BY DEF ForwardTest
<1> QED BY <1>5, <1>6, <1>8, <1>9, <1>10 DEF msg_forward

-----------------------------------------------------------------------------
LEMMA WorkerReaches ==
  ASSUME SessionInv, Honest, Stays, Reaching, intact, intact', NEW w \in Conns, work(w),
         UNCHANGED cli
  PROVE  Stays' /\ Reaching'
<1>0. /\ w \in Threads
      /\ due \in [Threads -> SUBSET Conns]
      /\ thr \in [Threads -> [pc : WorkerPcs \cup FwdPcs, msg : Msg, i : 0 .. MaxClient,
                              ret : {"recv", "exit"}]]
  BY ConnsThreads DEF SessionInv, TypeInv, TypeOK, ServerTypeOK, HistoryTypeOK, ThreadTypeOK
<1>1. /\ Stays'
      /\ \A d \in Conns, s \in Slots : peer[d] /\ Stands(d, s) => Stands(d, s)'
  BY WorkerStays
<1>2. CASE msg_forward(w)
  BY <1>0, <1>1, <1>2, ForwardReaches
<1>3. CASE LoginNotice(w) \/ LogoutNotice(w)
  <2>1. PICK m, pc : CallForward(w, m, pc)
    BY <1>3 DEF LoginNotice, LogoutNotice
  <2>2. UNCHANGED <<peer, got>> /\ \A u \in Threads \ {w} : thr'[u] = thr[u]
    BY <1>0, <1>3, <2>1 DEF LoginNotice, LogoutNotice, CallForward, netVars
  <2> QED BY <1>0, <1>1, <2>1, <2>2, CallReaches
<1>4. ASSUME UNCHANGED <<peer, got, due>>,
             \A t \in Threads : thr'[t] = thr[t] \/ thr[t].pc \notin {"scan", "send"}
      PROVE  Reaching'
  <2>1. {} \in SUBSET Threads
    OBVIOUS
  <2> QED BY <1>0, <1>1, <1>4, <2>1, ReachingStep
<1>5. CASE Dispatch(w)
  <2>1. UNCHANGED <<peer, got, due>> /\ thr[w].pc = "store"
    BY <1>5 DEF Dispatch, netVars, histVars
  <2>2. ASSUME NEW f \in Fwds, IsIdle(f),
               thr' = [thr EXCEPT ![w].pc = "recv", ![w].msg = ZeroMsg, ![f].pc = "head"]
        PROVE  \A t \in Threads : thr'[t] = thr[t] \/ thr[t].pc \notin {"scan", "send"}
    <3>1. w # f /\ f \in Threads
      BY ConnsThreads
    <3>2. \A u \in Threads \ {w, f} : thr'[u] = thr[u]
      BY <1>0, <2>2, <3>1, HandOverType DEF SessionInv
    <3> QED BY <2>1, <2>2, <3>2 DEF IsIdle
  <2>3. ASSUME Goto(w, "close") \/ thr' = [thr EXCEPT ![w].pc = "recv", ![w].msg = ZeroMsg]
        PROVE  \A t \in Threads : thr'[t] = thr[t] \/ thr[t].pc \notin {"scan", "send"}
    BY <1>0, <2>1, <2>3 DEF Goto
  <2>4. \A t \in Threads : thr'[t] = thr[t] \/ thr[t].pc \notin {"scan", "send"}
    BY <1>5, <2>2, <2>3 DEF Dispatch
  <2> QED BY <1>1, <1>4, <2>1, <2>4
<1>6. CASE ReadSub(w) \/ ReadFd(w) \/ CallRecv(w) \/ CloseFd(w) \/ SetOffline(w)
             \/ RecvMsg(w) \/ RecvEnd(w)
  <2>1. /\ UNCHANGED <<peer, got, due>> /\ thr[w].pc \notin {"scan", "send"}
        /\ \/ \E pc : Goto(w, pc)
           \/ \E m : thr' = [thr EXCEPT ![w].pc = "store", ![w].msg = m]
    BY <1>6 DEF ReadSub, ReadFd, CallRecv, CloseFd, SetOffline, RecvMsg, RecvEnd, netVars,
                histVars
  <2>2. \A t \in Threads \ {w} : thr'[t] = thr[t]
    BY <1>0, <2>1 DEF Goto
  <2> QED BY <1>1, <1>4, <2>1, <2>2
<1> QED BY <1>1, <1>2, <1>3, <1>5, <1>6 DEF work

LEMMA ForwarderReaches ==
  ASSUME SessionInv, Honest, Stays, Reaching, intact, NEW f \in Fwds, Forwarder(f), UNCHANGED cli
  PROVE  Stays' /\ Reaching'
<1>0. /\ f \in Threads
      /\ due \in [Threads -> SUBSET Conns]
      /\ thr \in [Threads -> [pc : WorkerPcs \cup FwdPcs, msg : Msg, i : 0 .. MaxClient,
                              ret : {"recv", "exit"}]]
  BY ConnsThreads DEF SessionInv, TypeInv, TypeOK, ServerTypeOK, HistoryTypeOK, ThreadTypeOK
<1>1. /\ UNCHANGED <<peer, loc, handed>>
      /\ \A t \in Threads \ {f} : thr'[t] = thr[t]
      /\ \A c \in Conns : thr'[c] = thr[c]
  BY ForwarderSessions
<1>2. Stays' /\ \A d \in Conns, s \in Slots : Stands(d, s) => Stands(d, s)'
  BY <1>1, OthersStay
<1>3. CASE msg_forward(f)
  BY <1>0, <1>2, <1>3, ForwardReaches
<1>4. CASE CopyHead(f)
  <2>1. UNCHANGED <<peer, got, due>> /\ thr[f].pc = "head" /\ {} \in SUBSET Threads
    BY <1>4 DEF CopyHead, netVars, histVars
  <2>2. \A t \in Threads : thr'[t] = thr[t] \/ thr[t].pc \notin {"scan", "send"}
    BY <1>1, <2>1
  <2>3. Reaching'
    BY <1>0, <1>2, <2>1, <2>2, ReachingStep
  <2> QED BY <1>2, <2>3
<1>5. CASE CopyBody(f)
  <2>1. UNCHANGED <<peer, got>>
    BY <1>5 DEF CopyBody, netVars
  <2>2. PICK m : CallForward(f, m, "exit")
    BY <1>5 DEF CopyBody
  <2>3. Reaching'
    BY <1>0, <1>1, <1>2, <2>1, <2>2, CallReaches
  <2> QED BY <1>2, <2>3
<1> QED BY <1>2, <1>3, <1>4, <1>5 DEF Forwarder

LEMMA MainReaches ==
  ASSUME SessionInv, Stays, Reaching, Main, UNCHANGED cli
  PROVE  Stays' /\ Reaching'
<1>0. /\ due \in [Threads -> SUBSET Conns]
      /\ thr \in [Threads -> [pc : WorkerPcs \cup FwdPcs, msg : Msg, i : 0 .. MaxClient,
                              ret : {"recv", "exit"}]]
      /\ handed \in [Conns -> Cells]
      /\ got \in [Conns -> SUBSET Msg]
  BY DEF SessionInv, TypeInv, TypeOK, ServerTypeOK, HistoryTypeOK, ThreadTypeOK, NetTypeOK
<1>1. UNCHANGED <<peer, loc, due>>
  BY DEF Main, accept, RecvLogin, RecvLoginFails, check_online, Refuse, Greet, find_sub,
         SetOnline, SetFd, SetName, SpawnWorker, netVars, histVars
<1>2. \A d \in Conns : got[d] \subseteq got'[d]
  <2>1. CASE Refuse \/ Greet
    <3>1. \E m, fd : chat_send(m, fd)
      BY <2>1 DEF Refuse, Greet
    <3> QED BY <1>0, <3>1, SendGot
  <2>2. CASE UNCHANGED got
    BY <2>2
  <2> QED BY <2>1, <2>2 DEF Main, accept, RecvLogin, RecvLoginFails, check_online, find_sub,
                            SetOnline, SetFd, SetName, SpawnWorker, netVars
<1>3. /\ \A d \in Conns : \/ thr'[d] = thr[d] /\ handed'[d] = handed[d]
                          \/ thr[d].pc = "none" /\ thr'[d].pc = "start"
      /\ \A t \in Threads : thr'[t] = thr[t] \/ thr[t].pc \notin {"scan", "send"}
  <2>1. CASE SpawnWorker
    <3>1. main.conn \in Conns /\ thr[main.conn].pc = "none"
      BY <2>1 DEF SpawnWorker, SessionInv, Unspawned, TypeInv, ConnKnown
    <3>2. /\ thr'[main.conn].pc = "start"
          /\ \A t \in Threads \ {main.conn} : thr'[t] = thr[t]
          /\ \A d \in Conns \ {main.conn} : handed'[d] = handed[d]
      BY <1>0, <2>1, <3>1, ConnsThreads DEF SpawnWorker, Goto
    <3> QED BY <3>1, <3>2, ConnsThreads
  <2>2. CASE UNCHANGED <<thr, handed>>
    BY <2>2
  <2> QED BY <2>1, <2>2 DEF Main, accept, RecvLogin, RecvLoginFails, check_online, Refuse,
                            Greet, find_sub, SetOnline, SetFd, SetName, histVars
<1>4. Stays' /\ \A d \in Conns, s \in Slots : Stands(d, s) => Stands(d, s)'
  BY <1>1, <1>3, OthersStay
<1>5. {} \in SUBSET Threads
  OBVIOUS
<1> QED BY <1>0, <1>1, <1>2, <1>3, <1>4, <1>5, ReachingStep

LEMMA ClientReaches ==
  ASSUME SessionInv, Honest, Stays, Reaching, UNCHANGED serverVars,
         ClientNext \/ UNCHANGED vars
  PROVE  Stays' /\ Reaching'
<1>1. \A d \in Conns : /\ cli'[d].me = cli[d].me
                       /\ peer'[d] => peer[d] \/ cli[d].pc = "start"
                       /\ cli'[d].pc = "start" => cli[d].pc = "start"
                       /\ peer'[d] => got[d] \subseteq got'[d]
  BY ClientNames, ClientPeers DEF vars, netVars
<1>2. UNCHANGED <<thr, loc, handed, due>>
  BY DEF serverVars, histVars
<1>3. \A d \in Conns : peer'[d] => peer[d] \/ thr'[d].pc = "none"
  BY <1>1, <1>2 DEF SessionInv, Unspawned
<1>4. Stays' /\ \A d \in Conns, s \in Slots : Stands(d, s) => Stands(d, s)'
  BY <1>2, <1>3, OthersStay
<1>5. {} \in SUBSET Threads /\ due \in [Threads -> SUBSET Conns]
  BY DEF SessionInv, TypeInv, TypeOK, ServerTypeOK, HistoryTypeOK
<1> QED BY <1>1, <1>2, <1>4, <1>5, ReachingStep

(* No scan misses a client who was online when it began and is still       *)
(* connected, whoever comes and goes meanwhile (my_server.c:26-57), for    *)
(* any number of clients, entries and messages, as long as every worker    *)
(* found its own entry.                                                    *)
THEOREM NobodyMissed == Spec => []ForwardComplete
<1>1. Init => DeliveryInv
  <2> SUFFICES ASSUME Init PROVE Honest /\ Stays /\ Reaching
    BY InitSessions DEF DeliveryInv
  <2>1. /\ \A t \in Threads : thr[t].pc = "none" /\ due[t] = {}
        /\ \A c \in Conns : ~rst[c] /\ ~peer[c]
        /\ \A fd \in Fds : fdt[fd] \in {None, Stdin}
    BY DEF Init, ServerInit, NetInit
  <2> QED BY <2>1, NetAssumption DEF Honest, Stays, Reaching
<1>2. DeliveryInv /\ [Next]_vars => DeliveryInv'
  <2> SUFFICES ASSUME DeliveryInv, [Next]_vars PROVE DeliveryInv'
    OBVIOUS
  <2>1. SessionInv /\ SessionInv' /\ Honest
    BY StepSessions DEF DeliveryInv
  <2>2. intact' => intact /\ Stays /\ Reaching
    <3>1. intact' => intact
      BY DEF Next, ServerNext, Main, accept, RecvLogin, RecvLoginFails, check_online, Refuse,
             Greet, find_sub, SetOnline, SetFd, SetName, SpawnWorker, work, ReadSub, ReadFd,
             LoginNotice, CallRecv, RecvMsg, RecvEnd, Dispatch, CloseFd, SetOffline,
             LogoutNotice, msg_forward, ForwardTest, ForwardSend, Forwarder, CopyHead,
             CopyBody, serverVars, histVars, vars
    <3> QED BY <3>1 DEF DeliveryInv
  <2>3. CASE ServerNext /\ UNCHANGED cli
    <3>1. Honest'
      BY <2>1, <2>3, ServerHonest
    <3>2. intact' => Stays' /\ Reaching'
      BY <2>1, <2>2, <2>3, MainReaches, WorkerReaches, ForwarderReaches DEF ServerNext
    <3> QED BY <2>1, <3>1, <3>2 DEF DeliveryInv
  <2>4. CASE ClientNext /\ UNCHANGED serverVars
    <3>1. Honest'
      BY <2>1, <2>4, ClientPeers DEF Honest
    <3>2. intact' => Stays' /\ Reaching'
      BY <2>1, <2>2, <2>4, ClientReaches
    <3> QED BY <2>1, <3>1, <3>2 DEF DeliveryInv
  <2>5. CASE UNCHANGED vars
    <3>1. Honest' /\ UNCHANGED serverVars
      BY <2>1, <2>5 DEF Honest, vars, netVars
    <3>2. intact' => Stays' /\ Reaching'
      BY <2>1, <2>2, <2>5, <3>1, ClientReaches
    <3> QED BY <2>1, <3>1, <3>2 DEF DeliveryInv
  <2> QED BY <2>3, <2>4, <2>5 DEF Next
<1>3. DeliveryInv => ForwardComplete
  <2> SUFFICES ASSUME DeliveryInv, intact, NEW t \in Threads,
                      thr[t].pc = "scan", thr[t].i >= ScanEnd,
                      NEW d \in due[t], peer[d], IsFor(thr[t].msg, d)
               PROVE  Reached(thr[t].msg, d)
    BY DEF ForwardComplete, Reached
  <2>1. PICK s \in Slots : s >= thr[t].i \/ Reached(thr[t].msg, d)
    BY DEF DeliveryInv, Reaching
  <2>2. thr[t].i \in 0 .. MaxClient
    BY DEF DeliveryInv, SessionInv, TypeInv, TypeOK, ServerTypeOK, ThreadTypeOK
  <2>3. ~(s >= thr[t].i)
    BY <2>2, ServerAssumption DEF ScanEnd, Slots
  <2> QED BY <2>1, <2>3
<1> QED BY <1>1, <1>2, <1>3, PTL DEF Spec
=============================================================================
