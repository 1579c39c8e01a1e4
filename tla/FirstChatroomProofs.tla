------------------------ MODULE FirstChatroomProofs ------------------------
(***************************************************************************)
(* Proofs about the first version of the chat room, for any number of      *)
(* clients, users, descriptors and entries of the table: its types, that   *)
(* no user is online twice, and, as long as every worker found the entry   *)
(* allocated for it and no two threads changed sum at once, that sum is    *)
(* the number of users online and that a public message then reaches       *)
(* everyone send_all has to reach.                                         *)
(***************************************************************************)
EXTENDS FirstChatroom, FiniteSetTheorems, TLAPS

(* The types, with what the program counters say of the locals.            *)
ConnKnown == main.pc # "accept" => main.conn \in Conns

MainType   == [pc : MainPcs, fd : Fds, conn : Conns \cup {None}, from : Names,
               i : 0 .. MaxClient, n : Int]
EntryType  == [online : BOOLEAN, name : Names, fd : Fds]
WorkType   == [pc : WorkPcs, sub : Cells, fd : Fds, sock : Conns \cup {None},
               msg : Msg, i : Nat, n : Int]

(* A worker's locals, program counter and all.                             *)
WorkOK(r) == /\ r \in WorkType
             /\ r.pc = "send" => r.i \in Slots
             /\ r.pc = "block" => r.sock \in Conns

TypeInv == /\ NetTypeOK /\ ClientTypeOK
           /\ main \in MainType /\ ConnKnown
           /\ sub \in Cells /\ sum \in Int
           /\ client \in [Cells -> EntryType]
           /\ thr \in [Conns -> WorkType] /\ \A w \in Conns : WorkOK(thr[w])
           /\ handed \in [Conns -> Cells]
           /\ intact \in BOOLEAN /\ counted \in BOOLEAN
           /\ due \in [Conns -> SUBSET Conns]

LEMMA Sizes == MaxClient \in Nat \ {0}
BY FirstAssumption, Zenon

-----------------------------------------------------------------------------
LEMMA MessageType ==
  ASSUME NEW from \in Names, NEW to \in Names, NEW flag \in Flags,
         NEW body \in Bodies
  PROVE  Message(from, to, flag, body) \in Msg
BY DEF Message, Msg, Heads

LEMMA NoticeType ==
  ASSUME NEW from \in Names, NEW flag \in {2, 3}, NEW text \in {"already", "welcome", "offline"}
  PROVE  Notice(from, flag, text) \in Msg
<1>1. Nobody \in Names /\ flag \in Flags
  BY DEF Names, Flags
<1>2. <<text, Nobody>> \in Bodies
  BY DEF Bodies, Names
<1> QED BY <1>1, <1>2, MessageType DEF Notice

LEMMA ZeroType == ZeroMsg \in Msg
<1>1. Nobody \in Names /\ 0 \in Flags
  BY DEF Names, Flags
<1>2. <<"empty", Nobody>> \in Bodies
  BY DEF Bodies
<1> QED BY <1>1, <1>2, MessageType DEF ZeroMsg

LEMMA Zeros == 0 \in Fds /\ 0 \in Slots /\ 0 \in Cells /\ Nobody \in Names /\ Slots \subseteq Cells
BY NetAssumption, Sizes DEF Fds, Cells, Slots, Names

LEMMA IdleOK == WorkOK(Idle)
BY Zeros, ZeroType DEF WorkOK, WorkType, Idle, WorkPcs

LEMMA SendType ==
  ASSUME NetTypeOK, NEW m \in Msg, NEW fd, chat_send(m, fd)
  PROVE  /\ alive' \in BOOLEAN
         /\ reply' \in [Conns -> Flags \cup {NoReply}]
         /\ got' \in [Conns -> SUBSET Msg]
         /\ rst' \in [Conns -> BOOLEAN]
<1>1. m.head.flag \in Flags
  BY DEF Msg, Heads
<1>2. CASE UNCHANGED <<alive, reply, got, rst>>
  BY <1>2 DEF NetTypeOK
<1>3. ASSUME NEW c \in Conns,
             reply' = [reply EXCEPT ![c] = IF @ = NoReply THEN m.head.flag ELSE @],
             got' = IF m.body[1] \in Recorded
                      THEN [got EXCEPT ![c] = @ \cup {m}]
                      ELSE got,
             UNCHANGED <<alive, rst>>
      PROVE  /\ alive' \in BOOLEAN
             /\ reply' \in [Conns -> Flags \cup {NoReply}]
             /\ got' \in [Conns -> SUBSET Msg]
             /\ rst' \in [Conns -> BOOLEAN]
  <2>1. reply' \in [Conns -> Flags \cup {NoReply}]
    BY <1>1, <1>3 DEF NetTypeOK
  <2>2. got' \in [Conns -> SUBSET Msg]
    BY <1>3 DEF NetTypeOK
  <2> QED BY <1>3, <2>1, <2>2 DEF NetTypeOK
<1>4. ASSUME NEW c \in Conns, rst' = [rst EXCEPT ![c] = TRUE],
             UNCHANGED <<alive, reply, got>>
      PROVE  /\ alive' \in BOOLEAN
             /\ reply' \in [Conns -> Flags \cup {NoReply}]
             /\ got' \in [Conns -> SUBSET Msg]
             /\ rst' \in [Conns -> BOOLEAN]
  BY <1>4 DEF NetTypeOK
<1>5. CASE alive' = FALSE /\ UNCHANGED <<reply, got, rst>>
  BY <1>5 DEF NetTypeOK
<1> QED BY <1>2, <1>3, <1>4, <1>5 DEF chat_send

-----------------------------------------------------------------------------
LEMMA InitType == Init => TypeInv
<1> SUFFICES ASSUME Init PROVE TypeInv
  OBVIOUS
<1> USE DEF Init, NetInit, ClientInit
<1>1. NetTypeOK
  BY DEF NetTypeOK, Flags, NoReply, Fds
<1>2. ClientTypeOK
  BY NetAssumption DEF ClientTypeOK, ClientPcs
<1>3. /\ main \in [pc : MainPcs, fd : Fds, conn : Conns \cup {None}, from : Names,
                    i : 0 .. MaxClient, n : Int]
      /\ main.pc = "accept"
  BY Zeros, Sizes DEF Accepting, MainPcs
<1>4. sub \in Cells /\ sum \in Int /\ client \in [Cells -> EntryType]
  BY Zeros DEF EntryType
<1>5. thr \in [Conns -> WorkType] /\ \A w \in Conns : thr[w].pc = "none"
  BY IdleOK DEF WorkOK, Idle
<1>6. handed \in [Conns -> Cells] /\ intact \in BOOLEAN /\ counted \in BOOLEAN
      /\ due \in [Conns -> SUBSET Conns]
  BY Zeros
<1> QED
  BY <1>1, <1>2, <1>3, <1>4, <1>5, <1>6 DEF TypeInv, ConnKnown, MainType, WorkOK

LEMMA MainTypes ==
  ASSUME TypeInv, Main, UNCHANGED cli
  PROVE  TypeInv'
<1>0. /\ NetTypeOK /\ ClientTypeOK
      /\ main \in MainType /\ ConnKnown
      /\ sub \in Cells /\ sum \in Int
      /\ client \in [Cells -> EntryType]
      /\ thr \in [Conns -> WorkType] /\ \A w \in Conns : WorkOK(thr[w])
      /\ handed \in [Conns -> Cells]
      /\ intact \in BOOLEAN /\ counted \in BOOLEAN
      /\ due \in [Conns -> SUBSET Conns]
  BY DEF TypeInv
<1>1. Accepting \in MainType /\ Accepting.pc = "accept"
  BY Zeros, Sizes DEF Accepting, MainType, MainPcs
<1>2. ASSUME NetTypeOK', main' \in MainType, ConnKnown',
             UNCHANGED <<sub, sum, client, thr, handed, intact, counted, due>>
      PROVE  TypeInv'
  <2>1. ClientTypeOK'
    BY <1>0 DEF ClientTypeOK
  <2> QED BY <1>0, <1>2, <2>1 DEF TypeInv, ConnKnown
<1>3. CASE accept
  <2>1. backlog # <<>> /\ Head(backlog) \in Conns /\ Tail(backlog) \in Seq(Conns)
    BY <1>0, <1>3 DEF accept, NetTypeOK
  <2>2. PICK fd \in Fds :
          /\ fdt' = [fdt EXCEPT ![fd] = Head(backlog)]
          /\ main' = [main EXCEPT !.pc = "recv", !.fd = fd, !.conn = Head(backlog)]
    BY <1>3 DEF accept
  <2>3. main' \in MainType /\ ConnKnown'
    BY <1>0, <2>1, <2>2 DEF MainType, MainPcs, ConnKnown
  <2>4. NetTypeOK'
    BY <1>0, <1>3, <2>1, <2>2 DEF accept, NetTypeOK
  <2> QED BY <1>2, <1>3, <2>3, <2>4 DEF accept
<1>4. CASE RecvLogin
  <2>1. main.conn \in Conns /\ main.pc = "recv"
    BY <1>0, <1>4 DEF RecvLogin, ConnKnown
  <2>2. CASE chat_recv(main.conn) /\ UNCHANGED fdt
             /\ main' = [main EXCEPT !.pc = "check", !.from = Head(up[main.conn]).head.from]
    <3>1. up[main.conn] \in Seq(Msg) /\ up[main.conn] # <<>>
      BY <1>0, <2>1, <2>2 DEF NetTypeOK, chat_recv
    <3>2. Head(up[main.conn]) \in Msg /\ Tail(up[main.conn]) \in Seq(Msg)
      BY <3>1
    <3>3. Head(up[main.conn]).head.from \in Names
      BY <3>2 DEF Msg, Heads
    <3>4. main' \in MainType /\ ConnKnown'
      BY <1>0, <2>1, <2>2, <3>3 DEF MainType, MainPcs, ConnKnown
    <3>5. NetTypeOK'
      BY <1>0, <1>4, <2>2, <3>2 DEF RecvLogin, chat_recv, NetTypeOK
    <3> QED BY <1>2, <1>4, <3>4, <3>5 DEF RecvLogin
  <2>3. CASE close(main.fd) /\ main' = Accepting /\ UNCHANGED up
    <3>1. NetTypeOK'
      BY <1>0, <1>4, <2>3 DEF RecvLogin, close, NetTypeOK
    <3> QED BY <1>1, <1>2, <1>4, <2>3, <3>1 DEF RecvLogin, ConnKnown
  <2> QED BY <1>4, <2>2, <2>3 DEF RecvLogin
<1>5. CASE check_online
  <2>1. main' \in MainType /\ ConnKnown'
    BY <1>0, <1>5 DEF check_online, MainType, MainPcs, ConnKnown
  <2>2. NetTypeOK'
    BY <1>0, <1>5 DEF check_online, netVars, NetTypeOK
  <2> QED BY <1>2, <1>5, <2>1, <2>2 DEF check_online
<1>6. CASE Refuse
  <2>1. Notice(Nobody, 3, "already") \in Msg
    BY NoticeType, Zeros
  <2>2. /\ alive' \in BOOLEAN /\ reply' \in [Conns -> Flags \cup {NoReply}]
        /\ got' \in [Conns -> SUBSET Msg] /\ rst' \in [Conns -> BOOLEAN]
    BY <1>0, <1>6, <2>1, SendType DEF Refuse
  <2>3. NetTypeOK'
    BY <1>0, <1>6, <2>2 DEF Refuse, close, NetTypeOK
  <2> QED BY <1>1, <1>2, <1>6, <2>3 DEF Refuse, ConnKnown
<1>7. CASE Greet
  <2>1. Notice(Nobody, 2, "welcome") \in Msg
    BY NoticeType, Zeros
  <2>2. /\ alive' \in BOOLEAN /\ reply' \in [Conns -> Flags \cup {NoReply}]
        /\ got' \in [Conns -> SUBSET Msg] /\ rst' \in [Conns -> BOOLEAN]
    BY <1>0, <1>7, <2>1, SendType DEF Greet
  <2>3. NetTypeOK'
    BY <1>0, <1>7, <2>2 DEF Greet, NetTypeOK
  <2>4. main' \in MainType /\ ConnKnown'
    BY <1>0, <1>7 DEF Greet, Then, MainType, MainPcs, ConnKnown
  <2> QED BY <1>2, <1>7, <2>3, <2>4 DEF Greet
<1>8. ASSUME UNCHANGED <<netVars, thr, handed, due>>, main' \in MainType, ConnKnown',
             sub' \in Cells, sum' \in Int, client' \in [Cells -> EntryType],
             intact' \in BOOLEAN, counted' \in BOOLEAN
      PROVE  TypeInv'
  <2>1. NetTypeOK' /\ ClientTypeOK'
    BY <1>0, <1>8 DEF netVars, NetTypeOK, ClientTypeOK
  <2> QED BY <1>0, <1>8, <2>1 DEF TypeInv
<1>9. CASE CountUp
  <2>1. main' \in MainType /\ ConnKnown'
    <3>1. main.pc # "accept" /\ main.n \in Int
      BY <1>0, <1>9 DEF CountUp, MainType
    <3>2. Then("load") = "store" /\ Then("store") = "find"
      BY DEF Then
    <3>3. \/ main.pc = "load" /\ main' = [main EXCEPT !.pc = Then(main.pc), !.n = sum]
          \/ main.pc = "store" /\ main' = [main EXCEPT !.pc = Then(main.pc), !.n = 0]
      BY <1>9 DEF CountUp
    <3>4. Then(main.pc) \in MainPcs /\ main.conn \in Conns
      BY <1>0, <3>1, <3>2, <3>3 DEF MainPcs, ConnKnown
    <3>5. ASSUME NEW n \in Int, main' = [main EXCEPT !.pc = Then(main.pc), !.n = n]
          PROVE  main' \in MainType /\ ConnKnown'
      BY <1>0, <3>4, <3>5 DEF MainType, ConnKnown
    <3>6. sum \in Int /\ 0 \in Int
      BY <1>0
    <3> QED BY <3>3, <3>5, <3>6
  <2>2. sum' \in Int
    BY <1>0, <1>9 DEF CountUp, MainType
  <2>3. counted' \in BOOLEAN
    BY <1>0, <1>9, Zenon DEF CountUp
  <2> QED BY <1>0, <1>8, <1>9, <2>1, <2>2, <2>3 DEF CountUp
<1>10. CASE find_sub
  <2>1. main' \in MainType /\ ConnKnown'
    <3>1. main.i \in 0 .. MaxClient /\ 0 \in 0 .. MaxClient
      BY <1>0, Sizes DEF MainType
    <3>2. Online(main.i) => main.i + 1 \in 0 .. MaxClient
      BY <3>1, Sizes DEF Online, Slots
    <3> QED BY <1>0, <1>10, <3>1, <3>2 DEF find_sub, Then, MainType, MainPcs, ConnKnown
  <2>2. sub' \in Cells /\ intact' \in BOOLEAN
    <3>1. Found(main.i) \in Cells
      BY <1>0, Sizes DEF MainType, Found, Cells
    <3> QED BY <1>0, <1>10, <3>1 DEF find_sub
  <2> QED BY <1>0, <1>8, <1>10, <2>1, <2>2 DEF find_sub
<1>11. CASE FillEntry
  <2>1. main' \in MainType /\ ConnKnown'
    BY <1>0, <1>11 DEF FillEntry, Then, MainType, MainPcs, ConnKnown
  <2>2. client' \in [Cells -> EntryType]
    <3>1. main.fd \in Fds /\ main.from \in Names
      BY <1>0 DEF MainType
    <3>2. \/ client' = [client EXCEPT ![sub].online = TRUE]
          \/ client' = [client EXCEPT ![sub].fd = main.fd]
          \/ client' = [client EXCEPT ![sub].name = main.from]
      BY <1>11 DEF FillEntry
    <3>3. /\ [client[sub] EXCEPT !.online = TRUE] \in EntryType
          /\ [client[sub] EXCEPT !.fd = main.fd] \in EntryType
          /\ [client[sub] EXCEPT !.name = main.from] \in EntryType
      BY <1>0, <3>1 DEF EntryType
    <3> QED BY <1>0, <3>2, <3>3
  <2>3. NetTypeOK' /\ ClientTypeOK'
    <3>1. alive' \in BOOLEAN
      BY <1>0, <1>11 DEF FillEntry, NetTypeOK
    <3>2. UNCHANGED <<backlog, peer, fdt, up, reply, got, rst, cli>>
      BY <1>11 DEF FillEntry
    <3> QED BY <1>0, <3>1, <3>2 DEF NetTypeOK, ClientTypeOK
  <2>4. UNCHANGED <<sub, sum, thr, handed, intact, counted, due>>
    BY <1>11 DEF FillEntry
  <2> QED BY <1>0, <2>1, <2>2, <2>3, <2>4 DEF TypeInv
<1>12. CASE SpawnWorker
  <2>1. main.conn \in Conns /\ main' = Accepting
    BY <1>0, <1>12 DEF SpawnWorker, ConnKnown
  <2>2. thr' \in [Conns -> WorkType] /\ \A w \in Conns : WorkOK(thr'[w])
    BY <1>0, <1>12, <2>1 DEF SpawnWorker, WorkOK, WorkType, WorkPcs
  <2>3. handed' \in [Conns -> Cells]
    BY <1>0, <1>12 DEF SpawnWorker
  <2>4. NetTypeOK' /\ ClientTypeOK' /\ ConnKnown'
    BY <1>0, <1>1, <1>12, <2>1 DEF SpawnWorker, netVars, NetTypeOK, ClientTypeOK, ConnKnown
  <2>5. UNCHANGED <<sub, sum, client, intact, counted, due>>
    BY <1>12 DEF SpawnWorker
  <2> QED BY <1>0, <1>1, <2>1, <2>2, <2>3, <2>4, <2>5 DEF TypeInv
<1> QED BY <1>3, <1>4, <1>5, <1>6, <1>7, <1>9, <1>10, <1>11, <1>12 DEF Main

(* A worker's step changes its own locals and little else.                 *)
LEMMA WorkerTypes ==
  ASSUME TypeInv, NEW w \in Conns, work(w), UNCHANGED cli
  PROVE  TypeInv'
<1>0. /\ NetTypeOK /\ ClientTypeOK
      /\ main \in MainType /\ ConnKnown
      /\ sub \in Cells /\ sum \in Int
      /\ client \in [Cells -> EntryType]
      /\ thr \in [Conns -> WorkType] /\ \A v \in Conns : WorkOK(thr[v])
      /\ handed \in [Conns -> Cells]
      /\ intact \in BOOLEAN /\ counted \in BOOLEAN
      /\ due \in [Conns -> SUBSET Conns]
  BY DEF TypeInv
<1>1. UNCHANGED <<main, sub, handed>> /\ ClientTypeOK' /\ ConnKnown'
  BY <1>0 DEF work, ReadSub, ReadFd, CallRecv, RecvMsg, RecvEnd, send_all, check_name, SendOne,
         TellOffline, CloseFd, SetOffline, CountDown, ClientTypeOK, ConnKnown
<1>2. ASSUME NEW r, thr' = [thr EXCEPT ![w] = r], WorkOK(r),
             NetTypeOK', sum' \in Int, client' \in [Cells -> EntryType],
             intact' \in BOOLEAN, counted' \in BOOLEAN, due' \in [Conns -> SUBSET Conns]
      PROVE  TypeInv'
  <2>1. thr' \in [Conns -> WorkType] /\ \A v \in Conns : WorkOK(thr'[v])
    BY <1>0, <1>2 DEF WorkOK
  <2> QED BY <1>0, <1>1, <1>2, <2>1 DEF TypeInv
<1>3. ASSUME NEW r, thr' = [thr EXCEPT ![w] = r], WorkOK(r),
             UNCHANGED <<netVars, sum, client, counted>>, intact' \in BOOLEAN,
             due' \in [Conns -> SUBSET Conns]
      PROVE  TypeInv'
  <2>1. NetTypeOK'
    BY <1>0, <1>3 DEF netVars, NetTypeOK
  <2> QED BY <1>0, <1>2, <1>3, <2>1
<1>4. thr[w] \in WorkType /\ WorkOK(thr[w])
  BY <1>0
<1>5. ASSUME NEW pc \in WorkPcs \ {"send", "block"}
      PROVE  WorkOK([thr[w] EXCEPT !.pc = pc])
  BY <1>4 DEF WorkOK, WorkType
<1>6. CASE ReadSub(w)
  <2>1. WorkOK([thr[w] EXCEPT !.pc = "fd", !.sub = sub])
    BY <1>0, <1>4 DEF WorkOK, WorkType, WorkPcs
  <2> QED BY <1>0, <1>3, <1>6, <2>1 DEF ReadSub
<1>7. CASE ReadFd(w)
  <2>1. client[thr[w].sub].fd \in Fds
    BY <1>0, <1>4 DEF WorkType, EntryType
  <2>2. WorkOK([thr[w] EXCEPT !.pc = "recv", !.fd = client[thr[w].sub].fd])
    BY <1>4, <2>1 DEF WorkOK, WorkType, WorkPcs
  <2> QED BY <1>0, <1>3, <1>7, <2>2 DEF ReadFd
<1>8. CASE CallRecv(w)
  <2>1. CASE fdt[thr[w].fd] \in Conns
    <3>1. WorkOK([thr[w] EXCEPT !.pc = "block", !.sock = fdt[thr[w].fd]])
      BY <1>4, <2>1 DEF WorkOK, WorkType, WorkPcs
    <3> QED BY <1>0, <1>3, <1>8, <2>1, <3>1 DEF CallRecv
  <2>2. CASE fdt[thr[w].fd] \notin Conns
    <3>1. WorkOK([thr[w] EXCEPT !.pc = "close"])
      BY <1>5 DEF WorkPcs
    <3> QED BY <1>0, <1>3, <1>8, <2>2, <3>1 DEF CallRecv, Goto
  <2> QED BY <2>1, <2>2
<1>9. CASE RecvMsg(w)
  <2>1. thr[w].sock \in Conns
    BY <1>4, <1>9 DEF RecvMsg, WorkOK
  <2>2. up[thr[w].sock] \in Seq(Msg) /\ up[thr[w].sock] # <<>>
    BY <1>0, <1>9, <2>1 DEF NetTypeOK, RecvMsg, chat_recv
  <2> DEFINE m == Head(up[thr[w].sock])
             pc == CASE m.head.flag = 0 -> "all" [] m.head.flag = 1 -> "who" [] OTHER -> "recv"
  <2>3. m \in Msg /\ Tail(up[thr[w].sock]) \in Seq(Msg)
    BY <2>2
  <2>4. WorkOK([thr[w] EXCEPT !.sock = None, !.msg = m, !.pc = pc])
    <3>1. pc \in {"all", "who", "recv"}
      OBVIOUS
    <3> HIDE DEF pc, m
    <3> QED BY <1>4, <2>3, <3>1 DEF WorkOK, WorkType, WorkPcs
  <2>5. /\ thr' = [thr EXCEPT ![w] = [thr[w] EXCEPT !.sock = None, !.msg = m, !.pc = pc]]
        /\ due' = [due EXCEPT ![w] = IF m.head.flag = 0 /\ NoGap THEN Members ELSE {}]
    <3>1. /\ thr' = [thr EXCEPT ![w].sock = None, ![w].msg = m, ![w].pc = pc]
          /\ due' = [due EXCEPT ![w] = IF m.head.flag = 0 /\ NoGap THEN Members ELSE {}]
      BY <1>9 DEF RecvMsg
    <3> HIDE DEF pc, m
    <3> QED BY <1>0, <3>1
  <2>6. due' \in [Conns -> SUBSET Conns]
    BY <1>0, <2>5 DEF Members
  <2>7. NetTypeOK'
    BY <1>0, <1>9, <2>1, <2>3 DEF RecvMsg, chat_recv, NetTypeOK
  <2>8. UNCHANGED <<sum, client, intact, counted>>
    BY <1>9 DEF RecvMsg
  <2> HIDE DEF pc, m
  <2> QED BY <1>0, <1>2, <2>4, <2>5, <2>6, <2>7, <2>8
<1>10. CASE RecvEnd(w)
  <2>1. WorkOK([thr[w] EXCEPT !.pc = "close", !.sock = None])
    BY <1>4 DEF WorkOK, WorkType, WorkPcs
  <2> QED BY <1>0, <1>3, <1>10, <2>1 DEF RecvEnd
<1>11. WorkOK([thr[w] EXCEPT !.pc = "recv", !.msg = ZeroMsg, !.i = 0])
  BY <1>4, ZeroType DEF WorkOK, WorkType, WorkPcs
<1>12. Online(thr[w].i) => WorkOK([thr[w] EXCEPT !.pc = "send"])
  BY <1>4 DEF WorkOK, WorkType, WorkPcs, Online
<1>13. ASSUME NEW pc \in {"all", "who"} PROVE WorkOK([thr[w] EXCEPT !.pc = pc, !.i = @ + 1])
  <2>1. thr[w].i + 1 \in Nat
    BY <1>4 DEF WorkType
  <2>2. pc \in WorkPcs \ {"send", "block"}
    BY <1>13 DEF WorkPcs
  <2> QED BY <1>4, <2>1, <2>2 DEF WorkOK, WorkType
<1>14. thr[w].pc \in {"all", "who"} => WorkOK([thr[w] EXCEPT !.i = @ + 1])
  BY <1>4 DEF WorkOK, WorkType
<1>15. Served(w) => due' \in [Conns -> SUBSET Conns]
  BY <1>0 DEF Served
<1>16. CASE send_all(w)
  <2>1. UNCHANGED <<netVars, sum, client, intact, counted>>
    BY <1>16 DEF send_all
  <2>2. CASE Served(w)
    BY <1>0, <1>3, <1>11, <1>15, <2>1, <2>2 DEF Served
  <2>3. CASE Online(thr[w].i) /\ Goto(w, "send") /\ UNCHANGED due
    BY <1>0, <1>3, <1>12, <2>1, <2>3 DEF Goto
  <2>4. CASE thr' = [thr EXCEPT ![w].i = @ + 1] /\ thr[w].pc = "all" /\ UNCHANGED due
    BY <1>0, <1>3, <1>14, <2>1, <2>4
  <2> QED BY <1>16, <2>2, <2>3, <2>4 DEF send_all
<1>17. CASE check_name(w)
  <2>1. WorkOK([thr[w] EXCEPT !.pc = "tell"])
    BY <1>5 DEF WorkPcs
  <2> QED BY <1>0, <1>3, <1>12, <1>14, <1>17, <2>1 DEF check_name, Goto
<1>18. ASSUME NEW m \in Msg, NEW fd, chat_send(m, fd), UNCHANGED <<backlog, peer, fdt, up>>
       PROVE  NetTypeOK'
  BY <1>0, <1>18, SendType DEF NetTypeOK
<1>19. thr[w].msg \in Msg /\ thr[w].msg.head.from \in Names
  BY <1>4 DEF WorkType, Msg, Heads
<1>20. CASE SendOne(w)
  <2>1. NetTypeOK'
    BY <1>18, <1>19, <1>20 DEF SendOne
  <2>2. UNCHANGED <<sum, client, intact, counted>>
    BY <1>20 DEF SendOne
  <2>3. CASE thr' = [thr EXCEPT ![w].pc = "all", ![w].i = @ + 1] /\ UNCHANGED due
    BY <1>0, <1>2, <1>13, <2>1, <2>2, <2>3
  <2>4. CASE Served(w)
    BY <1>0, <1>2, <1>11, <1>15, <2>1, <2>2, <2>4 DEF Served
  <2> QED BY <1>20, <2>3, <2>4 DEF SendOne
<1>21. CASE TellOffline(w)
  <2>1. Notice(thr[w].msg.head.from, 2, "offline") \in Msg
    BY <1>19, NoticeType
  <2>2. NetTypeOK'
    BY <1>18, <1>21, <2>1 DEF TellOffline
  <2> QED BY <1>0, <1>2, <1>11, <1>15, <1>21, <2>2 DEF TellOffline, Served
<1>22. CASE CloseFd(w)
  <2>1. NetTypeOK'
    BY <1>0, <1>22 DEF CloseFd, close, NetTypeOK
  <2>2. WorkOK([thr[w] EXCEPT !.pc = "offline"])
    BY <1>5 DEF WorkPcs
  <2> QED BY <1>0, <1>2, <1>22, <2>1, <2>2 DEF CloseFd, Goto
<1>23. CASE SetOffline(w)
  <2>1. NetTypeOK'
    BY <1>0, <1>23 DEF SetOffline, netVars, NetTypeOK
  <2>2. WorkOK([thr[w] EXCEPT !.pc = "load"])
    BY <1>5 DEF WorkPcs
  <2>3. client' \in [Cells -> EntryType] /\ due' \in [Conns -> SUBSET Conns]
    BY <1>0, <1>23 DEF SetOffline, EntryType
  <2> QED BY <1>0, <1>2, <1>23, <2>1, <2>2, <2>3 DEF SetOffline, Goto
<1>24. CASE CountDown(w)
  <2>1. WorkOK([thr[w] EXCEPT !.pc = "store", !.n = sum])
    BY <1>0, <1>4 DEF WorkOK, WorkType, WorkPcs
  <2>2. WorkOK([Idle EXCEPT !.pc = "exit"])
    BY IdleOK DEF WorkOK, WorkType, WorkPcs
  <2>3. NetTypeOK'
    BY <1>0, <1>24 DEF CountDown, netVars, NetTypeOK
  <2>4. sum' \in Int
    BY <1>0, <1>4, <1>24 DEF CountDown, WorkType
  <2>5. counted' \in BOOLEAN
    BY <1>0, <1>24, Zenon DEF CountDown
  <2> QED BY <1>0, <1>2, <1>24, <2>1, <2>2, <2>3, <2>4, <2>5 DEF CountDown
<1> QED
  BY <1>6, <1>7, <1>8, <1>9, <1>10, <1>16, <1>17, <1>20, <1>21, <1>22, <1>23, <1>24 DEF work

LEMMA ClientType ==
  ASSUME TypeInv, ClientNext, UNCHANGED serverVars
  PROVE  TypeInv'
<1> USE DEF TypeInv
<1>1. ASSUME NetTypeOK', ClientTypeOK' PROVE TypeInv'
  BY <1>1 DEF serverVars, ConnKnown
<1>2. PICK c \in Conns : \/ socket_connect(c) \/ SendLogin(c) \/ RecvReply(c)
                        \/ client_send(c) \/ Leave(c)
  BY DEF ClientNext
<1>3. cli[c].me \in Names /\ Nobody \in Names
  BY DEF ClientTypeOK, Names
<1>4. ASSUME NEW m \in Msg, Transmit(c, m) PROVE up' \in [Conns -> Seq(Msg)]
  <2>1. up \in [Conns -> Seq(Msg)] /\ up[c] \in Seq(Msg)
    BY DEF NetTypeOK
  <2>2. Append(up[c], m) \in Seq(Msg)
    BY <2>1
  <2> QED BY <1>4, <2>1, <2>2 DEF Transmit
<1>5. ASSUME Quit(c), UNCHANGED <<alive, backlog, fdt, up, rst>>
      PROVE  NetTypeOK' /\ ClientTypeOK'
  BY <1>5 DEF Quit, Step, NetTypeOK, ClientTypeOK, ClientPcs
<1>6. CASE socket_connect(c)
  <2>1. backlog' \in Seq(Conns) /\ peer' \in [Conns -> BOOLEAN]
    BY <1>6 DEF socket_connect, NetTypeOK
  <2>2. ClientTypeOK'
    BY <1>6 DEF socket_connect, Step, ClientTypeOK, ClientPcs
  <2>3. NetTypeOK'
    BY <1>6, <2>1 DEF socket_connect, NetTypeOK
  <2> QED BY <1>1, <2>2, <2>3
<1>7. CASE SendLogin(c)
  <2>1. Message(cli[c].me, Nobody, 2, <<"empty", Nobody>>) \in Msg
    BY <1>3, MessageType DEF Flags, Bodies
  <2>2. NetTypeOK' /\ ClientTypeOK'
    <3>1. up' \in [Conns -> Seq(Msg)]
      BY <1>4, <1>7, <2>1 DEF SendLogin
    <3>2. ClientTypeOK'
      BY <1>7 DEF SendLogin, Step, ClientTypeOK, ClientPcs
    <3> QED BY <1>7, <3>1, <3>2 DEF SendLogin, NetTypeOK
  <2> QED BY <1>1, <2>2
<1>8. CASE RecvReply(c)
  <2>1. CASE Quit(c)
    BY <1>1, <1>5, <1>8, <2>1 DEF RecvReply
  <2>2. CASE Step(c, "chat") /\ UNCHANGED <<peer, reply, got>>
    <3>1. NetTypeOK' /\ ClientTypeOK'
      BY <1>8, <2>2 DEF RecvReply, Step, NetTypeOK, ClientTypeOK, ClientPcs
    <3> QED BY <1>1, <3>1
  <2> QED BY <1>8, <2>1, <2>2 DEF RecvReply
<1>9. CASE client_send(c)
  <2>1. cli[c].sent + 1 \in 1 .. MaxSend
    BY <1>9, NetAssumption DEF client_send, ClientTypeOK
  <2>2. PICK line \in Lines :
          Transmit(c, Message(cli[c].me, line.word, FlagOf(line), <<"text",
                        [by |-> c, no |-> cli[c].sent + 1,
                         flag |-> FlagOf(line), to |-> line.word]>>))
    BY <1>9 DEF client_send
  <2>3. line.word \in Names /\ FlagOf(line) \in Flags
    <3>1. line.word \in Users \cup {Nobody}
      BY <2>2, ClientAssumption
    <3>2. FlagOf(line) \in {0, 1, 4}
      BY DEF FlagOf
    <3> QED BY <3>1, <3>2 DEF Names, Flags
  <2>4. <<"text", [by |-> c, no |-> cli[c].sent + 1,
                   flag |-> FlagOf(line), to |-> line.word]>> \in Bodies
    BY <2>1, <2>3 DEF Bodies, Texts
  <2>5. up' \in [Conns -> Seq(Msg)]
    BY <1>3, <1>4, <2>2, <2>3, <2>4, MessageType
  <2>6. cli[c].sent + 1 \in 0 .. MaxSend
    BY <2>1
  <2>7. NetTypeOK' /\ ClientTypeOK'
    BY <1>9, <2>5, <2>6 DEF client_send, NetTypeOK, ClientTypeOK
  <2> QED BY <1>1, <2>7
<1>10. CASE Leave(c)
  BY <1>1, <1>5, <1>10 DEF Leave
<1> QED BY <1>2, <1>6, <1>7, <1>8, <1>9, <1>10

LEMMA StepType ==
  ASSUME TypeInv, [Next]_vars
  PROVE  TypeInv'
<1>1. CASE ServerNext /\ UNCHANGED cli
  BY <1>1, MainTypes, WorkerTypes DEF ServerNext
<1>2. CASE Client
  BY <1>2, ClientType DEF Client
<1>3. CASE UNCHANGED vars
  BY <1>3 DEF vars, netVars, serverVars, TypeInv, NetTypeOK, ClientTypeOK, ConnKnown
<1> QED BY <1>1, <1>2, <1>3 DEF Next

(* Every variable keeps its type: no worker sends to an entry outside the  *)
(* table or waits on a socket that is none (server/server.c:25-90).        *)
THEOREM FirstTypeCorrect == Spec => []TypeOK
<1>1. TypeInv => TypeOK
  BY DEF TypeInv, TypeOK, MainType, EntryType, WorkType, WorkOK
<1> QED BY <1>1, InitType, StepType, PTL DEF Spec

-----------------------------------------------------------------------------
(* Sessions.                                                               *)

Standing(w) == thr[w].pc \notin {"none", "load", "store", "exit"}

(* A connection that main has not handed over has no worker.               *)
Unspawned ==
  /\ \A i \in DOMAIN backlog :
       /\ thr[backlog[i]].pc = "none"
       /\ cli[backlog[i]].pc # "start"
       /\ main.pc # "accept" => backlog[i] # main.conn
       /\ \A j \in DOMAIN backlog : backlog[i] = backlog[j] => i = j
  /\ main.pc # "accept" => /\ thr[main.conn].pc = "none"
                           /\ cli[main.conn].pc # "start"
  /\ \A c \in Conns : cli[c].pc = "start" => thr[c].pc = "none" /\ ~peer[c]

(* Resets come from clients that have left.                                *)
Honest ==
  /\ \A c \in Conns : rst[c] => ~peer[c] /\ cli[c].pc # "start"
  /\ \A c \in Conns : (\E fd \in Fds : fdt[fd] = c) => cli[c].pc # "start"

(* The entry main allocated for w is w's.                                  *)
Owns(w) ==
  /\ handed[w] \in Slots /\ client[handed[w]].online
  /\ thr[w].pc # "start" => thr[w].sub = handed[w]
  /\ thr[w].pc # "offline" => fdt[client[handed[w]].fd] = w
  /\ thr[w].pc \notin {"start", "fd"} => thr[w].fd = client[handed[w]].fd
  /\ thr[w].pc = "block" => thr[w].sock = w
  /\ thr[w].pc \in {"close", "offline"} => ~peer[w]

AllOwn == \A w \in Conns : Standing(w) => Owns(w)

OneOwner == \A v, w \in Conns : Standing(v) /\ Standing(w) /\ handed[v] = handed[w] => v = w

Filling(s) == main.pc \in {"fd", "name", "spawn"} /\ s = sub

SomeOwner == \A s \in Slots : client[s].online /\ ~Filling(s) =>
               \E w \in Conns : Standing(w) /\ handed[w] = s

(* The entry main is filling is nobody's.                                  *)
Allocating ==
  main.pc \in {"online", "fd", "name", "spawn"} =>
    /\ sub \in Slots
    /\ \A w \in Conns : Standing(w) => handed[w] # sub
    /\ client[sub].online <=> main.pc # "online"
    /\ main.pc \in {"name", "spawn"} => client[sub].fd = main.fd

MainOwns == main.pc # "accept" => fdt[main.fd] = main.conn

Sessions == AllOwn /\ OneOwner /\ SomeOwner /\ Allocating /\ MainOwns

SessionInv == TypeInv /\ Unspawned /\ Honest /\ (intact => Sessions)

-----------------------------------------------------------------------------
LEMMA InitSessions == Init => Unspawned /\ Honest /\ Sessions
<1> SUFFICES ASSUME Init PROVE Unspawned /\ Honest /\ Sessions
  OBVIOUS
<1>1. /\ main.pc = "accept" /\ backlog = <<>>
      /\ \A c \in Conns : /\ thr[c].pc = "none" /\ ~peer[c] /\ ~rst[c]
                          /\ \A fd \in Fds : fdt[fd] # c
      /\ \A s \in Slots : ~client[s].online
  BY Zeros, NetAssumption DEF Init, NetInit, Accepting, Idle
<1> QED
  BY <1>1 DEF Unspawned, Honest, Sessions, AllOwn, OneOwner, SomeOwner, Allocating, MainOwns,
              Standing

(* What every step of a worker leaves alone.                               *)
LEMMA WorkerEffects ==
  ASSUME TypeInv, NEW w \in Conns, work(w)
  PROVE  /\ UNCHANGED <<main, sub, handed, peer, backlog>>
         /\ \A v \in Conns \ {w} : thr'[v] = thr[v]
         /\ thr[w].pc # "none" /\ thr'[w].pc # "none"
         /\ intact' => intact
<1>1. thr \in [Conns -> WorkType]
  BY DEF TypeInv
<1>2. /\ UNCHANGED <<main, sub, handed, peer, backlog>>
      /\ thr[w].pc # "none" /\ (intact' => intact)
  <2>1. CASE ReadSub(w)
    <3>1. UNCHANGED <<main, sub, handed, peer, backlog>> /\ thr[w].pc # "none"
      BY <2>1 DEF ReadSub, netVars
    <3>2. intact' => intact
      BY <2>1, Zenon DEF ReadSub
    <3> QED BY <3>1, <3>2
  <2>2. CASE ReadFd(w) \/ RecvEnd(w)
    BY <2>2 DEF ReadFd, RecvEnd, netVars
  <2>3. CASE CallRecv(w)
    BY <2>3 DEF CallRecv, netVars
  <2>4. CASE RecvMsg(w)
    <3>1. UNCHANGED <<main, sub, handed, peer, backlog, intact>>
      BY <2>4 DEF RecvMsg
    <3>2. thr[w].pc = "block"
      BY <2>4 DEF RecvMsg
    <3> QED BY <3>1, <3>2
  <2>5. CASE SendOne(w)
    BY <2>5 DEF SendOne
  <2>6. CASE TellOffline(w) \/ CloseFd(w)
    BY <2>6 DEF TellOffline, CloseFd
  <2>7. CASE send_all(w)
    BY <2>7 DEF send_all, netVars
  <2>8. CASE check_name(w)
    BY <2>8 DEF check_name, netVars
  <2>9. CASE SetOffline(w) \/ CountDown(w)
    BY <2>9 DEF SetOffline, CountDown, netVars
  <2> QED BY <2>1, <2>2, <2>3, <2>4, <2>5, <2>6, <2>7, <2>8, <2>9 DEF work
<1>3. \A v \in Conns \ {w} : thr'[v] = thr[v]
  BY <1>1 DEF work, ReadSub, ReadFd, CallRecv, RecvMsg, RecvEnd, send_all, check_name, SendOne,
         TellOffline, CloseFd, SetOffline, CountDown, Goto, Served
<1>4. thr'[w].pc # "none"
  <2>1. CASE \E pc : thr' = [thr EXCEPT ![w].pc = pc] /\ pc # "none"
    BY <1>1, <2>1 DEF WorkType
  <2>2. CASE RecvMsg(w)
    BY <1>1, <2>2 DEF RecvMsg, WorkType
  <2>3. CASE ReadSub(w) \/ ReadFd(w) \/ CallRecv(w) \/ RecvEnd(w) \/ CloseFd(w) \/ SetOffline(w)
    BY <1>1, <2>3 DEF ReadSub, ReadFd, CallRecv, RecvEnd, CloseFd, SetOffline, Goto, WorkType
  <2>4. CASE send_all(w) \/ check_name(w) \/ TellOffline(w)
    BY <1>1, <2>4 DEF send_all, check_name, TellOffline, Goto, Served, WorkType
  <2>5. CASE SendOne(w)
    BY <1>1, <2>5 DEF SendOne, Served, WorkType
  <2>6. CASE CountDown(w)
    BY <1>1, <2>6 DEF CountDown, Idle, WorkType
  <2> QED BY <2>2, <2>3, <2>4, <2>5, <2>6 DEF work
<1> QED BY <1>2, <1>3, <1>4

(* Whatever is sent, resets come from clients that have left.              *)
LEMMA SendHonest ==
  ASSUME Honest, rst \in [Conns -> BOOLEAN], NEW m, NEW fd \in Fds, chat_send(m, fd),
         UNCHANGED <<peer, cli>>
  PROVE  \A c \in Conns : rst'[c] => ~peer'[c] /\ cli'[c].pc # "start"
<1>1. CASE rst' = rst
  BY <1>1 DEF Honest
<1>2. ASSUME NEW c \in Conns, fdt[fd] = c, ~peer[c], rst' = [rst EXCEPT ![c] = TRUE]
      PROVE  \A d \in Conns : rst'[d] => ~peer'[d] /\ cli'[d].pc # "start"
  BY <1>2 DEF Honest
<1> QED BY <1>1, <1>2 DEF chat_send

LEMMA WorkerHonest ==
  ASSUME TypeInv, Unspawned, Honest, NEW w \in Conns, work(w), UNCHANGED cli
  PROVE  Unspawned' /\ Honest'
<1>0. /\ rst \in [Conns -> BOOLEAN] /\ fdt \in [Fds -> Conns \cup {None, Stdin}]
      /\ backlog \in Seq(Conns)
      /\ client \in [Cells -> EntryType]
      /\ thr \in [Conns -> WorkType] /\ WorkOK(thr[w])
      /\ main.pc # "accept" => main.conn \in Conns
  BY DEF TypeInv, NetTypeOK, ConnKnown
<1>1. Unspawned'
  <2>1. \A i \in DOMAIN backlog : backlog[i] \in Conns
    BY <1>0
  <2> QED BY <1>0, <2>1, WorkerEffects DEF Unspawned
<1>2. ASSUME \A c \in Conns : rst'[c] => ~peer'[c] /\ cli'[c].pc # "start",
             \A fd \in Fds : fdt'[fd] = fdt[fd] \/ fdt'[fd] = None
      PROVE  Honest'
  BY <1>2, NetAssumption DEF Honest
<1>3. CASE SendOne(w)
  <2>1. chat_send(thr[w].msg, client[thr[w].i].fd) /\ UNCHANGED <<peer, fdt>>
    BY <1>3 DEF SendOne
  <2>2. client[thr[w].i].fd \in Fds
    BY <1>0, <1>3, Zeros DEF SendOne, WorkOK, EntryType
  <2> QED BY <1>0, <1>1, <1>2, <2>1, <2>2, SendHonest
<1>4. CASE TellOffline(w)
  <2>1. thr[w].fd \in Fds
    BY <1>0 DEF WorkType
  <2>2. /\ chat_send(Notice(thr[w].msg.head.from, 2, "offline"), thr[w].fd)
        /\ UNCHANGED <<peer, fdt>>
    BY <1>4 DEF TellOffline
  <2> QED BY <1>0, <1>1, <1>2, <2>1, <2>2, SendHonest
<1>5. ASSUME UNCHANGED <<peer, rst>>, fdt' = fdt \/ close(thr[w].fd) PROVE Honest'
  <2>1. \A fd \in Fds : fdt'[fd] = fdt[fd] \/ fdt'[fd] = None
    BY <1>0, <1>5 DEF close
  <2> QED BY <1>2, <1>5, <2>1 DEF Honest
<1>6. CASE ReadSub(w) \/ ReadFd(w) \/ CallRecv(w) \/ RecvEnd(w) \/ SetOffline(w)
  <2>1. UNCHANGED netVars
    BY <1>6 DEF ReadSub, ReadFd, CallRecv, RecvEnd, SetOffline
  <2> QED BY <1>1, <1>5, <2>1 DEF netVars
<1>7. CASE RecvMsg(w) \/ CloseFd(w)
  <2>1. UNCHANGED <<peer, rst>> /\ (fdt' = fdt \/ close(thr[w].fd))
    BY <1>7 DEF RecvMsg, CloseFd
  <2> QED BY <1>1, <1>5, <2>1
<1>8. CASE send_all(w) \/ check_name(w) \/ CountDown(w)
  <2>1. UNCHANGED netVars
    BY <1>8 DEF send_all, check_name, CountDown
  <2> QED BY <1>1, <1>5, <2>1 DEF netVars
<1> QED BY <1>3, <1>4, <1>6, <1>7, <1>8 DEF work

LEMMA MainHonest ==
  ASSUME TypeInv, Unspawned, Honest, Main, UNCHANGED cli
  PROVE  Unspawned' /\ Honest'
<1>0. /\ rst \in [Conns -> BOOLEAN] /\ fdt \in [Fds -> Conns \cup {None, Stdin}]
      /\ backlog \in Seq(Conns)
      /\ main \in MainType /\ main.fd \in Fds
      /\ thr \in [Conns -> WorkType]
      /\ main.pc # "accept" => main.conn \in Conns
  BY DEF TypeInv, NetTypeOK, ConnKnown, MainType
<1>1. \A i \in DOMAIN backlog : backlog[i] \in Conns
  BY <1>0
<1>2. ASSUME \A c \in Conns : rst'[c] => ~peer'[c] /\ cli'[c].pc # "start",
             \A fd \in Fds : fdt'[fd] = fdt[fd] \/ fdt'[fd] = None,
             UNCHANGED <<backlog, peer, thr>>,
             main.pc # "accept",
             main'.pc = "accept" \/ main'.conn = main.conn
      PROVE  Unspawned' /\ Honest'
  BY <1>2, NetAssumption DEF Unspawned, Honest
<1>3. CASE accept
  <2>1. PICK fd \in Fds : /\ fdt' = [fdt EXCEPT ![fd] = Head(backlog)]
                          /\ main' = [main EXCEPT !.pc = "recv", !.fd = fd, !.conn = Head(backlog)]
    BY <1>3 DEF accept
  <2>2. /\ backlog # <<>> /\ backlog' = Tail(backlog)
        /\ UNCHANGED <<peer, rst, thr>>
    BY <1>3 DEF accept
  <2>3. 1 \in DOMAIN backlog /\ Head(backlog) = backlog[1] /\ backlog[1] \in Conns
    BY <1>0, <2>2
  <2>4. cli[backlog[1]].pc # "start" /\ thr[backlog[1]].pc = "none"
    BY <2>3 DEF Unspawned
  <2>5. \A i \in DOMAIN backlog' : /\ i + 1 \in DOMAIN backlog /\ backlog'[i] = backlog[i + 1]
                                   /\ i + 1 # 1 /\ i \in Nat
    BY <1>0, <2>2
  <2>6. main'.conn = backlog[1]
    BY <1>0, <2>1, <2>3 DEF MainType
  <2>7. Honest'
    BY <1>0, <2>1, <2>2, <2>3, <2>4 DEF Honest
  <2>8. \A i \in DOMAIN backlog' :
          /\ thr'[backlog'[i]].pc = "none" /\ cli'[backlog'[i]].pc # "start"
          /\ backlog'[i] # main'.conn
    BY <2>2, <2>3, <2>5, <2>6 DEF Unspawned
  <2>9. \A i, j \in DOMAIN backlog' : backlog'[i] = backlog'[j] => i = j
    <3> SUFFICES ASSUME NEW i \in DOMAIN backlog', NEW j \in DOMAIN backlog',
                        backlog'[i] = backlog'[j]
                 PROVE  i = j
      OBVIOUS
    <3>1. i + 1 = j + 1
      BY <2>5 DEF Unspawned
    <3> QED BY <2>5, <3>1
  <2>10. \A c \in Conns : cli'[c].pc = "start" => thr'[c].pc = "none" /\ ~peer'[c]
    BY <2>2 DEF Unspawned
  <2>11. thr'[main'.conn].pc = "none" /\ cli'[main'.conn].pc # "start"
    BY <2>2, <2>4, <2>6
  <2> QED BY <2>7, <2>8, <2>9, <2>10, <2>11 DEF Unspawned
<1>4. CASE RecvLogin
  <2>1. /\ UNCHANGED <<backlog, peer, thr, rst>> /\ main.pc = "recv"
        /\ main'.pc = "accept" \/ main'.conn = main.conn
        /\ fdt' = fdt \/ close(main.fd)
    <3>1. CASE main' = Accepting /\ close(main.fd)
      BY <1>4, <3>1 DEF RecvLogin, Accepting
    <3>2. CASE /\ main' = [main EXCEPT !.pc = "check", !.from = Head(up[main.conn]).head.from]
               /\ UNCHANGED fdt
      BY <1>0, <1>4, <3>2 DEF RecvLogin, MainType
    <3> QED BY <1>4, <3>1, <3>2 DEF RecvLogin
  <2>2. \A fd \in Fds : fdt'[fd] = fdt[fd] \/ fdt'[fd] = None
    BY <1>0, <2>1 DEF close
  <2>3. \A c \in Conns : rst'[c] => ~peer'[c] /\ cli'[c].pc # "start"
    BY <2>1 DEF Honest
  <2> QED BY <1>2, <2>1, <2>2, <2>3
<1>5. CASE Refuse
  <2>1. /\ chat_send(Notice(Nobody, 3, "already"), main.fd) /\ close(main.fd)
        /\ UNCHANGED <<backlog, peer, thr>> /\ main.pc = "refuse" /\ main'.pc = "accept"
    BY <1>5 DEF Refuse, Accepting
  <2>2. \A fd \in Fds : fdt'[fd] = fdt[fd] \/ fdt'[fd] = None
    BY <1>0, <2>1 DEF close
  <2>3. \A c \in Conns : rst'[c] => ~peer'[c] /\ cli'[c].pc # "start"
    BY <1>0, <2>1, SendHonest
  <2> QED BY <1>2, <2>1, <2>2, <2>3
<1>6. CASE Greet
  <2>1. /\ chat_send(Notice(Nobody, 2, "welcome"), main.fd)
        /\ UNCHANGED <<backlog, peer, thr, fdt>> /\ main.pc = "welcome" /\ main'.conn = main.conn
    BY <1>0, <1>6 DEF Greet, MainType
  <2>2. \A c \in Conns : rst'[c] => ~peer'[c] /\ cli'[c].pc # "start"
    BY <1>0, <2>1, SendHonest
  <2> QED BY <1>2, <2>1, <2>2
<1>7. CASE check_online \/ CountUp \/ find_sub \/ FillEntry
  <2>1. /\ UNCHANGED <<backlog, peer, thr, fdt, rst>> /\ main.pc # "accept"
        /\ main'.conn = main.conn
    BY <1>0, <1>7 DEF check_online, CountUp, find_sub, FillEntry, netVars, MainType
  <2>2. \A c \in Conns : rst'[c] => ~peer'[c] /\ cli'[c].pc # "start"
    BY <2>1 DEF Honest
  <2> QED BY <1>2, <2>1, <2>2
<1>8. CASE SpawnWorker
  <2>1. /\ UNCHANGED <<backlog, peer, fdt, rst>> /\ main.pc = "spawn" /\ main'.pc = "accept"
        /\ \A c \in Conns \ {main.conn} : thr'[c] = thr[c]
    BY <1>0, <1>8 DEF SpawnWorker, netVars, Accepting
  <2>2. Honest'
    BY <2>1 DEF Honest
  <2>3. Unspawned'
    BY <1>1, <2>1 DEF Unspawned
  <2> QED BY <2>2, <2>3
<1> QED BY <1>3, <1>4, <1>5, <1>6, <1>7, <1>8 DEF Main

(* What the clients do to this argument: they leave, or connect at first.  *)
LEMMA ClientPeers ==
  ASSUME TypeInv, Unspawned, Honest, Client
  PROVE  /\ UNCHANGED <<serverVars, fdt, rst>>
         /\ \A d \in Conns : /\ peer'[d] => peer[d] \/ cli[d].pc = "start"
                             /\ cli'[d].pc = "start" => cli[d].pc = "start" /\ (peer'[d] => peer[d])
         /\ \/ backlog' = backlog
            \/ \E c \in Conns : /\ cli[c].pc = "start" /\ cli'[c].pc # "start"
                                /\ backlog' = Append(backlog, c)
<1>0. cli \in [Conns -> [pc : ClientPcs, me : Users, sent : 0 .. MaxSend]]
      /\ peer \in [Conns -> BOOLEAN]
  BY DEF TypeInv, ClientTypeOK, NetTypeOK
<1>1. PICK c \in Conns : \/ socket_connect(c) \/ SendLogin(c) \/ RecvReply(c)
                        \/ client_send(c) \/ Leave(c)
  BY DEF Client, ClientNext
<1>2. UNCHANGED serverVars
  BY DEF Client
<1>3. CASE socket_connect(c)
  BY <1>0, <1>2, <1>3 DEF socket_connect, Step
<1>4. CASE SendLogin(c)
  BY <1>0, <1>2, <1>4 DEF SendLogin, Step
<1>5. CASE RecvReply(c)
  BY <1>0, <1>2, <1>5 DEF RecvReply, Step, Quit
<1>6. CASE client_send(c)
  BY <1>0, <1>2, <1>6 DEF client_send
<1>7. CASE Leave(c)
  BY <1>0, <1>2, <1>7 DEF Leave, Step, Quit
<1> QED BY <1>1, <1>3, <1>4, <1>5, <1>6, <1>7

LEMMA ClientHonest ==
  ASSUME TypeInv, Unspawned, Honest, Client
  PROVE  Unspawned' /\ Honest'
<1>0. backlog \in Seq(Conns) /\ (main.pc # "accept" => main.conn \in Conns)
  BY DEF TypeInv, NetTypeOK, ConnKnown
<1>1. \A i \in DOMAIN backlog : backlog[i] \in Conns
  BY <1>0
<1>2. Honest'
  BY ClientPeers DEF Honest
<1>3. UNCHANGED <<thr, main>>
  BY ClientPeers DEF serverVars
<1>4. CASE backlog' = backlog
  <2>1. \A c \in Conns : cli'[c].pc = "start" => cli[c].pc = "start" /\ (peer'[c] => peer[c])
    BY ClientPeers
  <2> QED BY <1>0, <1>1, <1>2, <1>3, <1>4, <2>1 DEF Unspawned
<1>5. CASE backlog' # backlog
  <2>1. PICK c \in Conns : /\ cli[c].pc = "start" /\ cli'[c].pc # "start"
                          /\ backlog' = Append(backlog, c)
    BY <1>5, ClientPeers
  <2>2. thr[c].pc = "none" /\ (main.pc # "accept" => main.conn # c)
        /\ \A i \in DOMAIN backlog : backlog[i] # c
    BY <2>1 DEF Unspawned
  <2>3. \A i \in DOMAIN backlog' : \/ i \in DOMAIN backlog /\ backlog'[i] = backlog[i]
                                   \/ i = Len(backlog) + 1 /\ backlog'[i] = c
    BY <1>0, <2>1
  <2>4. \A i \in DOMAIN backlog' :
          /\ thr'[backlog'[i]].pc = "none" /\ cli'[backlog'[i]].pc # "start"
          /\ main'.pc # "accept" => backlog'[i] # main'.conn
    BY <1>1, <1>3, <2>1, <2>2, <2>3, ClientPeers DEF Unspawned
  <2>5. \A i, j \in DOMAIN backlog' : backlog'[i] = backlog'[j] => i = j
    BY <2>2, <2>3 DEF Unspawned
  <2>6. \A d \in Conns : cli'[d].pc = "start" => thr'[d].pc = "none" /\ ~peer'[d]
    BY <1>3, ClientPeers DEF Unspawned
  <2>7. main'.pc # "accept" => thr'[main'.conn].pc = "none" /\ cli'[main'.conn].pc # "start"
    BY <1>0, <1>3, ClientPeers DEF Unspawned
  <2> QED BY <1>2, <2>4, <2>5, <2>6, <2>7 DEF Unspawned
<1> QED BY <1>4, <1>5

(* A step of worker w that touches no entry and no descriptor but its own. *)
LEMMA KeepSession ==
  ASSUME TypeInv, Unspawned, Sessions, NEW w \in Conns, thr[w].pc # "none",
         UNCHANGED <<main, sub, client, handed, peer>>,
         \A v \in Conns \ {w} : thr'[v] = thr[v],
         \A fd \in Fds : fdt[fd] # w => fdt'[fd] = fdt[fd],
         Standing(w)' <=> Standing(w),
         Standing(w) => Owns(w)'
  PROVE  Sessions'
<1>0. /\ client \in [Cells -> EntryType] /\ Slots \subseteq Cells
      /\ main.fd \in Fds /\ (main.pc # "accept" => main.conn \in Conns)
  BY Zeros DEF TypeInv, MainType, ConnKnown
<1>1. \A v \in Conns : Standing(v)' <=> Standing(v)
  BY DEF Standing
<1>2. AllOwn'
  <2> SUFFICES ASSUME NEW v \in Conns, Standing(v), v # w PROVE Owns(v)'
    BY <1>1 DEF AllOwn, Sessions
  <2>1. Owns(v) /\ client[handed[v]].fd \in Fds
    BY <1>0 DEF Sessions, AllOwn, Owns, EntryType
  <2> QED BY <2>1 DEF Owns
<1>3. OneOwner' /\ SomeOwner'
  BY <1>1 DEF Sessions, OneOwner, SomeOwner, Filling
<1>4. Allocating'
  BY <1>1 DEF Sessions, Allocating
<1>5. MainOwns'
  BY <1>0 DEF Sessions, MainOwns, Unspawned
<1> QED BY <1>2, <1>3, <1>4, <1>5 DEF Sessions

LEMMA WorkerSessions ==
  ASSUME TypeInv, Unspawned, Honest, Sessions, NEW w \in Conns, work(w), UNCHANGED cli, intact'
  PROVE  Sessions'
<1>0. /\ thr \in [Conns -> WorkType] /\ client \in [Cells -> EntryType] /\ Slots \subseteq Cells
      /\ fdt \in [Fds -> Conns \cup {None, Stdin}]
      /\ UNCHANGED <<main, sub, handed, peer, backlog>>
      /\ \A v \in Conns \ {w} : thr'[v] = thr[v]
      /\ thr[w].pc # "none" /\ thr'[w].pc # "none"
  BY WorkerEffects, Zeros DEF TypeInv, NetTypeOK
<1>1. Standing(w) => Owns(w)
  BY DEF Sessions, AllOwn
<1>2. ASSUME UNCHANGED <<fdt, client>>, Standing(w)' <=> Standing(w), Standing(w) => Owns(w)'
      PROVE  Sessions'
  BY <1>0, <1>2, KeepSession
<1>3. ASSUME UNCHANGED <<fdt, client>>, Standing(w),
             thr'[w].pc \in {"recv", "all", "who", "send", "tell"},
             thr[w].pc \notin {"start", "fd", "offline"},
             thr'[w].sub = thr[w].sub, thr'[w].fd = thr[w].fd
      PROVE  Sessions'
  <2>1. Standing(w)'
    BY <1>3 DEF Standing
  <2>2. Owns(w)'
    BY <1>0, <1>1, <1>3 DEF Owns
  <2> QED BY <1>2, <1>3, <2>1, <2>2
<1>4. CASE ReadSub(w)
  <2>1. /\ thr[w].pc = "start" /\ thr'[w].pc = "fd" /\ thr'[w].sub = sub
        /\ UNCHANGED <<fdt, client>>
    BY <1>0, <1>4 DEF ReadSub, WorkType, netVars
  <2>2. sub = handed[w]
    BY <1>4, Zenon DEF ReadSub
  <2>3. Standing(w)' /\ Standing(w)
    BY <2>1 DEF Standing
  <2> QED BY <1>0, <1>1, <1>2, <2>1, <2>2, <2>3 DEF Owns
<1>5. CASE ReadFd(w)
  <2>1. /\ thr[w].pc = "fd" /\ thr'[w].pc = "recv" /\ thr'[w].sub = thr[w].sub
        /\ thr'[w].fd = client[thr[w].sub].fd
        /\ UNCHANGED <<fdt, client>>
    BY <1>0, <1>5 DEF ReadFd, WorkType, netVars
  <2>2. Standing(w)' /\ Standing(w)
    BY <2>1 DEF Standing
  <2> QED BY <1>0, <1>1, <1>2, <2>1, <2>2 DEF Owns
<1>6. CASE CallRecv(w)
  <2>1. thr[w].pc = "recv" /\ UNCHANGED <<fdt, client>> /\ Standing(w)
    BY <1>6 DEF CallRecv, netVars, Standing
  <2>2. fdt[thr[w].fd] = w
    BY <1>1, <2>1 DEF Owns
  <2>3. thr' = [thr EXCEPT ![w].pc = "block", ![w].sock = w]
    BY <1>6, <2>2 DEF CallRecv
  <2>4. /\ thr'[w].pc = "block" /\ thr'[w].sock = w
        /\ thr'[w].sub = thr[w].sub /\ thr'[w].fd = thr[w].fd
    BY <1>0, <2>3 DEF WorkType
  <2>5. Standing(w)'
    BY <2>4 DEF Standing
  <2> QED BY <1>0, <1>1, <1>2, <2>1, <2>4, <2>5 DEF Owns
<1>7. CASE RecvMsg(w)
  <2> DEFINE m == Head(up[thr[w].sock])
             pc == CASE m.head.flag = 0 -> "all" [] m.head.flag = 1 -> "who" [] OTHER -> "recv"
  <2>1. /\ thr' = [thr EXCEPT ![w].sock = None, ![w].msg = m, ![w].pc = pc]
        /\ thr[w].pc = "block" /\ UNCHANGED <<fdt, client>>
    BY <1>7 DEF RecvMsg
  <2>2. pc \in {"all", "who", "recv"}
    OBVIOUS
  <2> HIDE DEF m, pc
  <2>3. thr'[w].pc = pc /\ thr'[w].sub = thr[w].sub /\ thr'[w].fd = thr[w].fd /\ Standing(w)
    BY <1>0, <2>1 DEF WorkType, Standing
  <2> QED BY <1>3, <2>1, <2>2, <2>3
<1>8. CASE RecvEnd(w)
  <2>1. /\ thr[w].pc = "block" /\ UNCHANGED <<fdt, client>>
        /\ thr'[w].pc = "close" /\ thr'[w].sub = thr[w].sub /\ thr'[w].fd = thr[w].fd
        /\ RecvFails(thr[w].sock)
    BY <1>0, <1>8 DEF RecvEnd, WorkType, netVars
  <2>2. Standing(w) /\ Standing(w)'
    BY <2>1 DEF Standing
  <2>3. thr[w].sock = w
    BY <1>1, <2>1, <2>2 DEF Owns
  <2>4. ~peer[w]
    BY <2>1, <2>3 DEF RecvFails, Honest
  <2> QED BY <1>0, <1>1, <1>2, <2>1, <2>2, <2>4 DEF Owns
<1>9. ASSUME Served(w), thr[w].pc \in {"all", "send", "tell"}, UNCHANGED <<fdt, client>>
      PROVE  Sessions'
  <2>1. thr'[w].pc = "recv" /\ thr'[w].sub = thr[w].sub /\ thr'[w].fd = thr[w].fd
    BY <1>0, <1>9 DEF Served, WorkType
  <2> QED BY <1>3, <1>9, <2>1 DEF Standing
<1>10. ASSUME NEW pc \in {"send", "tell"}, Goto(w, pc), thr[w].pc \in {"all", "who"},
              UNCHANGED <<fdt, client>>
       PROVE  Sessions'
  <2>1. thr'[w].pc = pc /\ thr'[w].sub = thr[w].sub /\ thr'[w].fd = thr[w].fd
    BY <1>0, <1>10 DEF Goto, WorkType
  <2> QED BY <1>3, <1>10, <2>1 DEF Standing
<1>11. ASSUME thr' = [thr EXCEPT ![w].i = @ + 1], thr[w].pc \in {"all", "who"},
              UNCHANGED <<fdt, client>>
       PROVE  Sessions'
  <2>1. thr'[w].pc = thr[w].pc /\ thr'[w].sub = thr[w].sub /\ thr'[w].fd = thr[w].fd
    BY <1>0, <1>11 DEF WorkType
  <2> QED BY <1>3, <1>11, <2>1 DEF Standing
<1>12. CASE send_all(w)
  <2>1. thr[w].pc = "all" /\ UNCHANGED <<fdt, client>>
    BY <1>12 DEF send_all, netVars
  <2>2. Served(w) \/ Goto(w, "send") \/ thr' = [thr EXCEPT ![w].i = @ + 1]
    BY <1>12 DEF send_all
  <2> QED BY <1>9, <1>10, <1>11, <2>1, <2>2
<1>13. CASE check_name(w)
  <2>1. thr[w].pc = "who" /\ UNCHANGED <<fdt, client>>
    BY <1>13 DEF check_name, netVars
  <2>2. Goto(w, "tell") \/ Goto(w, "send") \/ thr' = [thr EXCEPT ![w].i = @ + 1]
    BY <1>13 DEF check_name
  <2> QED BY <1>10, <1>11, <2>1, <2>2
<1>14. CASE SendOne(w)
  <2>1. thr[w].pc = "send" /\ UNCHANGED <<fdt, client>>
    BY <1>14 DEF SendOne
  <2>2. CASE thr' = [thr EXCEPT ![w].pc = "all", ![w].i = @ + 1]
    <3>1. thr'[w].pc = "all" /\ thr'[w].sub = thr[w].sub /\ thr'[w].fd = thr[w].fd
      BY <1>0, <2>2 DEF WorkType
    <3> QED BY <1>3, <2>1, <3>1 DEF Standing
  <2> QED BY <1>9, <1>14, <2>1, <2>2 DEF SendOne
<1>15. CASE TellOffline(w)
  BY <1>9, <1>15 DEF TellOffline
<1>16. CASE CloseFd(w)
  <2>1. /\ thr[w].pc = "close" /\ fdt' = [fdt EXCEPT ![thr[w].fd] = None] /\ UNCHANGED client
        /\ thr'[w].pc = "offline" /\ thr'[w].sub = thr[w].sub /\ thr'[w].fd = thr[w].fd
    BY <1>0, <1>16 DEF CloseFd, close, Goto, WorkType
  <2>2. Standing(w) /\ Standing(w)'
    BY <2>1 DEF Standing
  <2>3. fdt[thr[w].fd] = w
    BY <1>1, <2>1, <2>2 DEF Owns
  <2>4. \A fd \in Fds : fdt[fd] # w => fdt'[fd] = fdt[fd]
    BY <1>0, <2>1, <2>3
  <2>5. Owns(w)'
    BY <1>0, <1>1, <2>1, <2>2 DEF Owns
  <2> QED BY <1>0, <2>1, <2>2, <2>4, <2>5, KeepSession
<1>17. CASE SetOffline(w)
  <2>1. /\ thr[w].pc = "offline" /\ thr'[w].pc = "load" /\ UNCHANGED fdt
        /\ client' = [client EXCEPT ![thr[w].sub].online = FALSE]
    BY <1>0, <1>17 DEF SetOffline, Goto, netVars, WorkType
  <2>2. Standing(w) /\ thr[w].sub = handed[w] /\ handed[w] \in Slots
    BY <1>1, <2>1 DEF Standing, Owns
  <2>3. /\ \A s \in Slots : client'[s].fd = client[s].fd
        /\ \A s \in Slots : s # handed[w] => client'[s] = client[s]
        /\ ~client'[handed[w]].online
    BY <1>0, <2>1, <2>2 DEF EntryType
  <2>4. \A v \in Conns : Standing(v)' <=> Standing(v) /\ v # w
    BY <1>0, <2>1 DEF Standing
  <2>5. AllOwn'
    <3> SUFFICES ASSUME NEW v \in Conns, Standing(v), v # w PROVE Owns(v)'
      BY <2>4 DEF AllOwn
    <3>1. Owns(v) /\ handed[v] # handed[w]
      BY <2>2 DEF Sessions, AllOwn, OneOwner
    <3> QED BY <1>0, <2>1, <2>3, <3>1 DEF Owns
  <2>6. OneOwner'
    BY <1>0, <2>4 DEF Sessions, OneOwner
  <2>7. SomeOwner'
    <3> SUFFICES ASSUME NEW s \in Slots, client'[s].online, ~Filling(s)
                 PROVE  \E v \in Conns : Standing(v)' /\ handed'[v] = s
      BY <1>0 DEF SomeOwner, Filling
    <3>1. s # handed[w] /\ client[s].online
      BY <2>3
    <3>2. PICK v \in Conns : Standing(v) /\ handed[v] = s
      BY <3>1 DEF Sessions, SomeOwner
    <3> QED BY <1>0, <2>4, <3>1, <3>2
  <2>8. Allocating'
    <3>1. main.pc \in {"online", "fd", "name", "spawn"} => sub \in Slots /\ sub # handed[w]
      BY <2>2 DEF Sessions, Allocating
    <3> QED BY <1>0, <2>3, <2>4, <3>1 DEF Sessions, Allocating
  <2>9. MainOwns'
    BY <1>0, <2>1 DEF Sessions, MainOwns
  <2> QED BY <2>5, <2>6, <2>7, <2>8, <2>9 DEF Sessions
<1>18. CASE CountDown(w)
  <2>1. thr[w].pc \in {"load", "store"} /\ thr'[w].pc \in {"store", "exit"}
        /\ UNCHANGED <<fdt, client>>
    BY <1>0, <1>18 DEF CountDown, netVars, Idle, WorkType
  <2> QED BY <1>2, <2>1 DEF Standing
<1> QED
  BY <1>4, <1>5, <1>6, <1>7, <1>8, <1>12, <1>13, <1>14, <1>15, <1>16, <1>17, <1>18 DEF work

(* A step of main that changes no entry and no worker, and no descriptor   *)
(* but its own.                                                            *)
Spares == \A fd \in Fds :
            \/ fdt'[fd] = fdt[fd] \/ fdt[fd] = None
            \/ main.pc # "accept" /\ fdt[fd] = main.conn

LEMMA KeepOwners ==
  ASSUME TypeInv, Unspawned, Sessions, UNCHANGED <<thr, client, handed, peer>>,
         Spares
  PROVE  AllOwn' /\ OneOwner' /\ \A w \in Conns : Standing(w)' <=> Standing(w)
<1>0. /\ client \in [Cells -> EntryType] /\ Slots \subseteq Cells
      /\ main.pc # "accept" => main.conn \in Conns /\ ~Standing(main.conn)
  BY Zeros DEF TypeInv, ConnKnown, Unspawned, Standing
<1>1. \A w \in Conns : Standing(w)' <=> Standing(w)
  BY DEF Standing
<1>2. AllOwn'
  <2> SUFFICES ASSUME NEW w \in Conns, Standing(w) PROVE Owns(w)'
    BY <1>1 DEF AllOwn
  <2>1. Owns(w) /\ client[handed[w]].fd \in Fds
    BY <1>0 DEF Sessions, AllOwn, Owns, EntryType
  <2>2. fdt[client[handed[w]].fd] = w => fdt'[client[handed[w]].fd] = w
    BY <1>0, <2>1, NetAssumption DEF Spares
  <2> QED BY <2>1, <2>2 DEF Owns
<1>3. OneOwner'
  BY <1>1 DEF Sessions, OneOwner
<1> QED BY <1>1, <1>2, <1>3

LEMMA MainSessions ==
  ASSUME TypeInv, Unspawned, Sessions, Main, intact'
  PROVE  Sessions'
<1>0. /\ main \in MainType /\ main.fd \in Fds
      /\ client \in [Cells -> EntryType] /\ Slots \subseteq Cells
      /\ fdt \in [Fds -> Conns \cup {None, Stdin}]
      /\ thr \in [Conns -> WorkType] /\ handed \in [Conns -> Cells]
      /\ sub \in Cells /\ intact \in BOOLEAN
      /\ main.pc # "accept" => main.conn \in Conns
  BY Zeros DEF TypeInv, NetTypeOK, ConnKnown, MainType
<1> DEFINE Busy == {"online", "fd", "name", "spawn"}
<1>1. ASSUME UNCHANGED <<thr, client, handed, peer>>, main.pc \notin Busy, main'.pc \notin Busy,
             MainOwns',
             Spares
      PROVE  Sessions'
  <2>1. AllOwn' /\ OneOwner' /\ \A w \in Conns : Standing(w)' <=> Standing(w)
    BY <1>1, KeepOwners
  <2>2. SomeOwner' /\ Allocating'
    BY <1>1, <2>1 DEF Sessions, SomeOwner, Allocating, Filling
  <2> QED BY <1>1, <2>1, <2>2 DEF Sessions
<1>2. ASSUME main'.pc = "accept", main.pc \in {"recv", "refuse"}, close(main.fd),
             UNCHANGED <<thr, client, handed, peer>>
      PROVE  Sessions'
  <2>1. fdt[main.fd] = main.conn
    BY <1>2 DEF Sessions, MainOwns
  <2> QED BY <1>0, <1>1, <1>2, <2>1 DEF close, MainOwns, Spares
<1>3. ASSUME main.pc \notin Busy \cup {"accept"}, main'.pc \notin Busy,
             main'.fd = main.fd, main'.conn = main.conn,
             UNCHANGED <<fdt, thr, client, handed, peer>>
      PROVE  Sessions'
  <2>1. MainOwns'
    BY <1>3 DEF Sessions, MainOwns
  <2> QED BY <1>1, <1>3, <2>1 DEF Spares
<1>4. CASE accept
  <2>1. PICK fd \in Fds : /\ IsLowestFree(fd)
                          /\ fdt' = [fdt EXCEPT ![fd] = Head(backlog)]
                          /\ main' = [main EXCEPT !.pc = "recv", !.fd = fd, !.conn = Head(backlog)]
    BY <1>4 DEF accept
  <2>2. main.pc = "accept" /\ UNCHANGED <<thr, client, handed, peer>>
    BY <1>4 DEF accept
  <2>3. main'.pc = "recv" /\ main'.fd = fd /\ main'.conn = Head(backlog)
    BY <1>0, <2>1 DEF MainType
  <2>4. MainOwns'
    BY <1>0, <2>1, <2>3 DEF MainOwns
  <2> QED BY <1>0, <1>1, <2>1, <2>2, <2>3, <2>4 DEF IsLowestFree, Spares
<1>5. CASE RecvLogin
  <2>0. main.pc = "recv" /\ UNCHANGED <<thr, client, handed, peer>>
    BY <1>5 DEF RecvLogin
  <2>1. CASE main' = Accepting /\ close(main.fd)
    BY <1>2, <2>0, <2>1 DEF Accepting
  <2>2. CASE /\ main' = [main EXCEPT !.pc = "check", !.from = Head(up[main.conn]).head.from]
             /\ UNCHANGED fdt
    <3>1. main'.pc = "check" /\ main'.fd = main.fd /\ main'.conn = main.conn
      BY <1>0, <2>2 DEF MainType
    <3> QED BY <1>3, <2>0, <2>2, <3>1
  <2> QED BY <1>5, <2>1, <2>2 DEF RecvLogin
<1>6. CASE check_online
  <2>1. /\ main.pc = "check" /\ main'.pc \in {"refuse", "welcome"}
        /\ main'.fd = main.fd /\ main'.conn = main.conn
        /\ UNCHANGED <<fdt, thr, client, handed, peer>>
    BY <1>0, <1>6 DEF check_online, netVars, MainType
  <2> QED BY <1>3, <2>1
<1>7. CASE Refuse
  BY <1>2, <1>7 DEF Refuse, Accepting
<1>8. CASE Greet
  <2>1. /\ main.pc = "welcome" /\ main'.pc = "load"
        /\ main'.fd = main.fd /\ main'.conn = main.conn
        /\ UNCHANGED <<fdt, thr, client, handed, peer>>
    BY <1>0, <1>8 DEF Greet, Then, MainType
  <2> QED BY <1>3, <2>1
<1>9. CASE CountUp
  <2>1. /\ main.pc \in {"load", "store"}
        /\ UNCHANGED <<fdt, thr, client, handed, peer>>
    BY <1>9 DEF CountUp, netVars
  <2>2. Then("load") = "store" /\ Then("store") = "find"
    BY DEF Then
  <2>3. \E n : main' = [main EXCEPT !.pc = Then(main.pc), !.n = n]
    BY <1>9 DEF CountUp
  <2>4. main'.pc \in {"store", "find"} /\ main'.fd = main.fd /\ main'.conn = main.conn
    BY <1>0, <2>1, <2>2, <2>3 DEF MainType
  <2> QED BY <1>3, <2>1, <2>4
<1>10. CASE find_sub
  <2>0. main.pc = "find" /\ UNCHANGED <<fdt, thr, client, handed, peer>>
    BY <1>10 DEF find_sub, netVars
  <2>1. CASE main' = [main EXCEPT !.i = @ + 1]
    <3>1. main'.pc = "find" /\ main'.fd = main.fd /\ main'.conn = main.conn
      BY <1>0, <2>0, <2>1 DEF MainType
    <3> QED BY <1>3, <2>0, <3>1
  <2>2. CASE /\ ~Online(main.i) /\ sub' = Found(main.i)
             /\ intact' = (intact /\ main.i < MaxClient)
             /\ main' = [main EXCEPT !.pc = Then(@), !.i = 0]
    <3>1. main'.pc = "online" /\ main'.fd = main.fd /\ main'.conn = main.conn
      BY <1>0, <2>0, <2>2 DEF MainType, Then
    <3>2. main.i < MaxClient
      BY <2>2
    <3>3. main.i \in Slots /\ sub' = main.i
      BY <1>0, <2>2, <3>2, Sizes DEF Found, MainType, Slots
    <3>4. ~client[main.i].online
      BY <2>2, <3>3 DEF Online
    <3>5. AllOwn' /\ OneOwner' /\ \A w \in Conns : Standing(w)' <=> Standing(w)
      BY <2>0, KeepOwners DEF Spares
    <3>6. \A w \in Conns : Standing(w) => handed[w] # main.i
      BY <3>4 DEF Sessions, AllOwn, Owns
    <3>7. SomeOwner'
      BY <2>0, <3>1, <3>5 DEF Sessions, SomeOwner, Filling
    <3>8. Allocating' /\ MainOwns'
      BY <2>0, <3>1, <3>3, <3>4, <3>5, <3>6 DEF Sessions, Allocating, MainOwns
    <3> QED BY <3>5, <3>7, <3>8 DEF Sessions
  <2> QED BY <1>10, <2>1, <2>2 DEF find_sub
<1>11. CASE FillEntry
  <2>0. UNCHANGED <<fdt, thr, handed, peer, sub>>
    BY <1>11 DEF FillEntry
  <2>1. /\ main.pc \in {"online", "fd", "name"}
        /\ main.pc = "online" => main'.pc = "fd" /\ client' = [client EXCEPT ![sub].online = TRUE]
        /\ main.pc = "fd" => main'.pc = "name" /\ client' = [client EXCEPT ![sub].fd = main.fd]
        /\ main.pc = "name" => main'.pc = "spawn" /\ client' = [client EXCEPT ![sub].name = main.from]
        /\ main'.fd = main.fd /\ main'.conn = main.conn
    <3>1. Then("online") = "fd" /\ Then("fd") = "name" /\ Then("name") = "spawn"
      BY DEF Then
    <3>2. \/ main.pc = "online" /\ client' = [client EXCEPT ![sub].online = TRUE]
          \/ main.pc = "fd" /\ client' = [client EXCEPT ![sub].fd = main.fd]
          \/ main.pc = "name" /\ client' = [client EXCEPT ![sub].name = main.from]
      BY <1>11 DEF FillEntry
    <3>3. main' = [main EXCEPT !.pc = Then(main.pc)]
      BY <1>11 DEF FillEntry
    <3>4. main'.pc = Then(main.pc) /\ main'.fd = main.fd /\ main'.conn = main.conn
      BY <1>0, <3>3 DEF MainType
    <3> QED BY <3>1, <3>2, <3>4
  <2>2. /\ sub \in Slots
        /\ \A w \in Conns : Standing(w) => handed[w] # sub
        /\ client[sub].online <=> main.pc # "online"
        /\ main.pc = "name" => client[sub].fd = main.fd
    BY <2>1 DEF Sessions, Allocating
  <2>3. /\ \A s \in Slots : s # sub => client'[s] = client[s]
        /\ client'[sub].online
        /\ main.pc \in {"fd", "name"} => client'[sub].fd = main.fd
    BY <1>0, <2>1, <2>2 DEF EntryType
  <2>4. \A w \in Conns : Standing(w)' <=> Standing(w)
    BY <2>0 DEF Standing
  <2>5. AllOwn'
    <3> SUFFICES ASSUME NEW w \in Conns, Standing(w) PROVE Owns(w)'
      BY <2>4 DEF AllOwn
    <3>1. Owns(w) /\ handed[w] # sub
      BY <2>2 DEF Sessions, AllOwn
    <3> QED BY <2>0, <2>3, <3>1 DEF Owns
  <2>6. OneOwner'
    BY <2>0, <2>4 DEF Sessions, OneOwner
  <2>7. SomeOwner'
    <3> SUFFICES ASSUME NEW s \in Slots, client'[s].online, s # sub
                 PROVE  \E w \in Conns : Standing(w)' /\ handed'[w] = s
      BY <2>0, <2>1 DEF SomeOwner, Filling
    <3> QED BY <2>0, <2>3, <2>4 DEF Sessions, SomeOwner, Filling
  <2>8. Allocating'
    BY <2>0, <2>1, <2>2, <2>3, <2>4 DEF Allocating
  <2>9. MainOwns'
    BY <2>0, <2>1 DEF Sessions, MainOwns
  <2> QED BY <2>5, <2>6, <2>7, <2>8, <2>9 DEF Sessions
<1>12. CASE SpawnWorker
  <2>1. /\ main.pc = "spawn" /\ main'.pc = "accept" /\ main.conn \in Conns
        /\ UNCHANGED <<fdt, client, peer>>
        /\ thr' = [thr EXCEPT ![main.conn].pc = "start"]
        /\ handed' = [handed EXCEPT ![main.conn] = sub]
    BY <1>0, <1>12 DEF SpawnWorker, netVars, Accepting
  <2>2. /\ sub \in Slots /\ client[sub].online /\ client[sub].fd = main.fd
        /\ \A w \in Conns : Standing(w) => handed[w] # sub
        /\ fdt[main.fd] = main.conn
    BY <2>1 DEF Sessions, Allocating, MainOwns
  <2>3. /\ thr'[main.conn].pc = "start" /\ handed'[main.conn] = sub
        /\ \A w \in Conns \ {main.conn} : thr'[w] = thr[w] /\ handed'[w] = handed[w]
    BY <1>0, <2>1 DEF WorkType
  <2>4. ~Standing(main.conn) /\ thr'[main.conn].pc \notin {"none", "load", "store", "exit"}
        /\ \A w \in Conns \ {main.conn} : Standing(w)' <=> Standing(w)
    BY <2>1, <2>3 DEF Unspawned, Standing
  <2>5. AllOwn'
    <3> SUFFICES ASSUME NEW w \in Conns, Standing(w)' PROVE Owns(w)'
      BY DEF AllOwn
    <3>1. CASE w = main.conn
      BY <2>1, <2>2, <2>3, <3>1 DEF Owns
    <3>2. CASE w # main.conn
      <4>1. Owns(w)
        BY <2>4, <3>2 DEF Sessions, AllOwn
      <4> QED BY <2>1, <2>3, <3>2, <4>1 DEF Owns
    <3> QED BY <3>1, <3>2
  <2>6. OneOwner'
    BY <2>1, <2>2, <2>3, <2>4 DEF Sessions, OneOwner
  <2>7. SomeOwner'
    <3> SUFFICES ASSUME NEW s \in Slots, client[s].online
                 PROVE  \E w \in Conns : Standing(w)' /\ handed'[w] = s
      BY <2>1 DEF SomeOwner
    <3>1. CASE s = sub
      BY <2>1, <2>3, <3>1 DEF Standing
    <3>2. CASE s # sub
      <4>1. PICK w \in Conns : Standing(w) /\ handed[w] = s
        BY <3>2 DEF Sessions, SomeOwner, Filling
      <4> QED BY <2>3, <2>4, <4>1
    <3> QED BY <3>1, <3>2
  <2>8. Allocating' /\ MainOwns'
    BY <2>1 DEF Allocating, MainOwns
  <2> QED BY <2>5, <2>6, <2>7, <2>8 DEF Sessions
<1> QED
  BY <1>4, <1>5, <1>6, <1>7, <1>8, <1>9, <1>10, <1>11, <1>12 DEF Main

(* Clients change no entry; who has left stays away.                       *)
LEMMA ClientSessions ==
  ASSUME TypeInv, Unspawned, Honest, Sessions, Client
  PROVE  Sessions'
<1>1. UNCHANGED <<thr, main, sub, client, handed, fdt>>
  BY ClientPeers DEF serverVars
<1>2. \A w \in Conns : Standing(w)' <=> Standing(w)
  BY <1>1 DEF Standing
<1>3. \A w \in Conns : Standing(w) => cli[w].pc # "start"
  BY DEF Unspawned, Standing
<1>4. AllOwn'
  <2> SUFFICES ASSUME NEW w \in Conns, Standing(w) PROVE Owns(w)'
    BY <1>2 DEF AllOwn
  <2>1. Owns(w) /\ (peer'[w] => peer[w])
    BY <1>3, ClientPeers DEF Sessions, AllOwn
  <2> QED BY <1>1, <2>1 DEF Owns
<1>5. OneOwner' /\ SomeOwner' /\ Allocating' /\ MainOwns'
  BY <1>1, <1>2 DEF Sessions, OneOwner, SomeOwner, Allocating, MainOwns, Filling
<1> QED BY <1>4, <1>5 DEF Sessions

LEMMA StepSessions ==
  ASSUME SessionInv, [Next]_vars
  PROVE  SessionInv'
<1>1. TypeInv'
  BY StepType DEF SessionInv
<1>2. CASE ServerNext /\ UNCHANGED cli
  <2>1. CASE Main
    <3>1. intact' => intact
      <4>1. CASE find_sub
        BY <4>1, Zenon DEF find_sub
      <4>2. CASE ~find_sub
        BY <2>1, <4>2 DEF Main, accept, RecvLogin, check_online, Refuse, Greet, CountUp, FillEntry,
              SpawnWorker
      <4> QED BY <4>1, <4>2
    <3> QED BY <1>1, <1>2, <2>1, <3>1, MainHonest, MainSessions DEF SessionInv
  <2>2. CASE \E w \in Conns : work(w)
    BY <1>1, <1>2, <2>2, WorkerEffects, WorkerHonest, WorkerSessions DEF SessionInv
  <2> QED BY <1>2, <2>1, <2>2 DEF ServerNext
<1>3. CASE Client
  <2>1. intact' = intact
    BY <1>3 DEF Client, serverVars
  <2> QED BY <1>1, <1>3, <2>1, ClientHonest, ClientSessions DEF SessionInv
<1>4. CASE UNCHANGED vars
  BY <1>1, <1>4 DEF vars, netVars, serverVars, SessionInv, Unspawned, Honest, Sessions, AllOwn, OneOwner,
              SomeOwner, Allocating, MainOwns, Owns, Standing, Filling
<1> QED BY <1>2, <1>3, <1>4 DEF Next

-----------------------------------------------------------------------------
(* The number of users online.  It is exact when every worker that leaves  *)
(* takes its own entry offline, which is what Sessions says.               *)

OnlineSet  == {s \in Slots : Online(s)}
LeavingSet == {w \in Conns : thr[w].pc \in {"load", "store"}}

SumInv == SessionInv /\ IsFiniteSet(LeavingSet) /\ SumExact

(* Between start and offline a worker changes neither entries nor sum.     *)
LEMMA WorkerMoves ==
  ASSUME TypeInv, NEW w \in Conns, work(w), ~SetOffline(w), ~CountDown(w)
  PROVE  Standing(w) /\ Standing(w)' /\ UNCHANGED <<client, sum, counted>>
<1>0. thr \in [Conns -> WorkType]
  BY DEF TypeInv
<1>1. CASE ReadSub(w) \/ ReadFd(w) \/ RecvEnd(w) \/ CloseFd(w)
  BY <1>0, <1>1 DEF ReadSub, ReadFd, RecvEnd, CloseFd, Goto, Standing, WorkType
<1>2. CASE CallRecv(w)
  <2>1. thr[w].pc = "recv" /\ UNCHANGED <<client, sum, counted>>
    BY <1>2 DEF CallRecv
  <2>2. thr'[w].pc \in {"block", "close"}
    BY <1>0, <1>2 DEF CallRecv, Goto, WorkType
  <2> QED BY <2>1, <2>2 DEF Standing
<1>3. CASE RecvMsg(w)
  <2> DEFINE m == Head(up[thr[w].sock])
             pc == CASE m.head.flag = 0 -> "all" [] m.head.flag = 1 -> "who" [] OTHER -> "recv"
  <2>1. /\ thr' = [thr EXCEPT ![w].sock = None, ![w].msg = m, ![w].pc = pc]
        /\ thr[w].pc = "block" /\ UNCHANGED <<client, sum, counted>>
    BY <1>3 DEF RecvMsg
  <2>2. pc \in {"all", "who", "recv"}
    OBVIOUS
  <2> HIDE DEF m, pc
  <2>3. thr'[w].pc = pc
    BY <1>0, <2>1 DEF WorkType
  <2> QED BY <2>1, <2>2, <2>3 DEF Standing
<1>4. CASE send_all(w)
  <2>1. thr[w].pc = "all" /\ UNCHANGED <<client, sum, counted>>
    BY <1>4 DEF send_all
  <2>2. Served(w) \/ Goto(w, "send") \/ thr' = [thr EXCEPT ![w].i = @ + 1]
    BY <1>4 DEF send_all
  <2>3. thr'[w].pc \in {"recv", "send", "all"}
    BY <1>0, <2>1, <2>2 DEF Served, Goto, WorkType
  <2> QED BY <2>1, <2>3 DEF Standing
<1>5. CASE check_name(w)
  <2>1. thr[w].pc = "who" /\ UNCHANGED <<client, sum, counted>>
    BY <1>5 DEF check_name
  <2>2. Goto(w, "tell") \/ Goto(w, "send") \/ thr' = [thr EXCEPT ![w].i = @ + 1]
    BY <1>5 DEF check_name
  <2>3. thr'[w].pc \in {"tell", "send", "who"}
    BY <1>0, <2>1, <2>2 DEF Goto, WorkType
  <2> QED BY <2>1, <2>3 DEF Standing
<1>6. CASE SendOne(w)
  <2>1. thr[w].pc = "send" /\ UNCHANGED <<client, sum, counted>>
    BY <1>6 DEF SendOne
  <2>2. Served(w) \/ thr' = [thr EXCEPT ![w].pc = "all", ![w].i = @ + 1]
    BY <1>6 DEF SendOne
  <2>3. thr'[w].pc \in {"recv", "all"}
    BY <1>0, <2>2 DEF Served, WorkType
  <2> QED BY <2>1, <2>3 DEF Standing
<1>7. CASE TellOffline(w)
  BY <1>0, <1>7 DEF TellOffline, Served, Standing, WorkType
<1> QED BY <1>1, <1>2, <1>3, <1>4, <1>5, <1>6, <1>7 DEF work

LEMMA SumIs ==
  /\ SumExact <=> (intact /\ counted =>
                     sum = Cardinality(OnlineSet) + Cardinality(LeavingSet) + Joining)
  /\ IsFiniteSet(OnlineSet) /\ Cardinality(OnlineSet) \in Nat
  /\ IsFiniteSet(LeavingSet) => Cardinality(LeavingSet) \in Nat
<1>1. IsFiniteSet(Slots)
  BY Sizes, FS_Interval DEF Slots
<1>2. IsFiniteSet(OnlineSet) /\ Cardinality(OnlineSet) \in Nat
  BY <1>1, FS_Subset, FS_CardinalityType DEF OnlineSet
<1> QED BY <1>2, FS_CardinalityType DEF SumExact, OnlineSet, LeavingSet, Leaving

LEMMA WorkerSum ==
  ASSUME SumInv, NEW w \in Conns, work(w)
  PROVE  IsFiniteSet(LeavingSet)' /\ SumExact'
<1>0. /\ TypeInv /\ (intact => Sessions)
      /\ thr \in [Conns -> WorkType] /\ client \in [Cells -> EntryType] /\ Slots \subseteq Cells
      /\ sum \in Int /\ intact \in BOOLEAN /\ counted \in BOOLEAN
      /\ UNCHANGED main /\ Joining' = Joining /\ Joining \in {0, 1}
      /\ \A v \in Conns \ {w} : thr'[v] = thr[v]
      /\ intact' => intact
  BY WorkerEffects, Zeros DEF SumInv, SessionInv, TypeInv, Joining
<1>1. /\ IsFiniteSet(LeavingSet)
      /\ intact /\ counted =>
           sum = Cardinality(OnlineSet) + Cardinality(LeavingSet) + Joining
      /\ IsFiniteSet(OnlineSet) /\ Cardinality(OnlineSet) \in Nat
      /\ Cardinality(LeavingSet) \in Nat
  BY SumIs DEF SumInv
<1>2. ASSUME IsFiniteSet(LeavingSet)',
             intact' /\ counted' =>
               sum' = Cardinality(OnlineSet)' + Cardinality(LeavingSet)' + Joining'
      PROVE  IsFiniteSet(LeavingSet)' /\ SumExact'
  BY <1>2 DEF SumExact, OnlineSet, LeavingSet, Leaving
<1>3. CASE ~SetOffline(w) /\ ~CountDown(w)
  <2>1. Standing(w) /\ Standing(w)' /\ UNCHANGED <<client, sum, counted>>
    BY <1>0, <1>3, WorkerMoves
  <2>2. LeavingSet' = LeavingSet
    BY <1>0, <2>1 DEF LeavingSet, Standing
  <2>3. OnlineSet' = OnlineSet
    BY <2>1 DEF OnlineSet, Online
  <2> QED BY <1>0, <1>1, <1>2, <2>1, <2>2, <2>3
<1>4. CASE SetOffline(w)
  <2>1. /\ thr[w].pc = "offline" /\ thr'[w].pc = "load" /\ UNCHANGED <<sum, counted>>
        /\ client' = [client EXCEPT ![thr[w].sub].online = FALSE]
    BY <1>0, <1>4 DEF SetOffline, Goto, WorkType
  <2>2. LeavingSet' = LeavingSet \cup {w} /\ w \notin LeavingSet
    BY <1>0, <2>1 DEF LeavingSet
  <2>3. /\ IsFiniteSet(LeavingSet)'
        /\ Cardinality(LeavingSet)' = Cardinality(LeavingSet) + 1
    BY <1>1, <2>2, FS_AddElement
  <2>4. ASSUME intact PROVE Cardinality(OnlineSet)' = Cardinality(OnlineSet) - 1
    <3>1. /\ thr[w].sub = handed[w] /\ handed[w] \in Slots /\ client[handed[w]].online
      BY <1>0, <2>1, <2>4 DEF Sessions, AllOwn, Owns, Standing
    <3>2. OnlineSet' = OnlineSet \ {handed[w]} /\ handed[w] \in OnlineSet
      BY <1>0, <2>1, <3>1 DEF OnlineSet, Online, EntryType
    <3> QED BY <1>1, <3>2, FS_RemoveElement
  <2> QED BY <1>0, <1>1, <1>2, <2>1, <2>3, <2>4
<1>5. CASE CountDown(w)
  <2>1. UNCHANGED client /\ intact' = intact
    BY <1>5 DEF CountDown
  <2>2. OnlineSet' = OnlineSet
    BY <2>1 DEF OnlineSet, Online
  <2>3. CASE thr[w].pc = "load" /\ thr' = [thr EXCEPT ![w].pc = "store", ![w].n = sum]
             /\ UNCHANGED <<sum, counted>>
    <3>1. thr'[w].pc = "store"
      BY <1>0, <2>3 DEF WorkType
    <3>2. LeavingSet' = LeavingSet
      BY <1>0, <2>3, <3>1 DEF LeavingSet
    <3> QED BY <1>0, <1>1, <1>2, <2>1, <2>2, <2>3, <3>2
  <2>4. CASE /\ thr[w].pc = "store" /\ sum' = thr[w].n - 1
             /\ counted' = (counted /\ sum = thr[w].n)
             /\ thr' = [thr EXCEPT ![w] = [Idle EXCEPT !.pc = "exit"]]
    <3>1. thr'[w].pc = "exit"
      BY <1>0, <2>4 DEF Idle, WorkType
    <3>2. LeavingSet' = LeavingSet \ {w} /\ w \in LeavingSet
      BY <1>0, <2>4, <3>1 DEF LeavingSet
    <3>3. /\ IsFiniteSet(LeavingSet)'
          /\ Cardinality(LeavingSet)' = Cardinality(LeavingSet) - 1
      BY <1>1, <3>2, FS_RemoveElement
    <3>4. counted' => counted /\ sum = thr[w].n
      BY <2>4, Zenon
    <3>5. counted' => sum' = sum - 1
      BY <2>4, <3>4
    <3> QED BY <1>0, <1>1, <1>2, <2>1, <2>2, <3>3, <3>4, <3>5
  <2> QED BY <1>5, <2>3, <2>4 DEF CountDown
<1> QED BY <1>3, <1>4, <1>5

LEMMA MainSum ==
  ASSUME SumInv, Main
  PROVE  IsFiniteSet(LeavingSet)' /\ SumExact'
<1>0. /\ TypeInv /\ (intact => Sessions)
      /\ main \in MainType /\ (main.pc # "accept" => main.conn \in Conns)
      /\ thr \in [Conns -> WorkType] /\ client \in [Cells -> EntryType] /\ Slots \subseteq Cells
      /\ sum \in Int /\ intact \in BOOLEAN /\ counted \in BOOLEAN
  BY Zeros DEF SumInv, SessionInv, TypeInv, ConnKnown
<1>1. /\ IsFiniteSet(LeavingSet)
      /\ intact /\ counted =>
           sum = Cardinality(OnlineSet) + Cardinality(LeavingSet) + Joining
      /\ IsFiniteSet(OnlineSet) /\ Cardinality(OnlineSet) \in Nat
      /\ Cardinality(LeavingSet) \in Nat
  BY SumIs DEF SumInv
<1>2. ASSUME IsFiniteSet(LeavingSet)',
             intact' /\ counted' =>
               sum' = Cardinality(OnlineSet)' + Cardinality(LeavingSet)' + Joining'
      PROVE  IsFiniteSet(LeavingSet)' /\ SumExact'
  BY <1>2 DEF SumExact, OnlineSet, LeavingSet, Leaving
<1>3. ASSUME UNCHANGED <<client, thr, sum, counted>>, Joining' = Joining, intact' => intact
      PROVE  IsFiniteSet(LeavingSet)' /\ SumExact'
  <2>1. LeavingSet' = LeavingSet /\ OnlineSet' = OnlineSet
    BY <1>3 DEF LeavingSet, OnlineSet, Online
  <2> QED BY <1>1, <1>2, <1>3, <2>1
<1>4. CASE accept
  <2>1. main.pc = "accept" /\ main'.pc = "recv" /\ UNCHANGED <<client, thr, sum, counted, intact>>
    BY <1>0, <1>4 DEF accept, MainType
  <2> QED BY <1>3, <2>1 DEF Joining
<1>5. CASE RecvLogin
  <2>1. /\ main.pc = "recv" /\ UNCHANGED <<client, thr, sum, counted, intact>>
        /\ \/ main' = Accepting
           \/ main' = [main EXCEPT !.pc = "check", !.from = Head(up[main.conn]).head.from]
    BY <1>5 DEF RecvLogin
  <2>2. main'.pc \in {"accept", "check"}
    <3>1. CASE main' = Accepting
      BY <3>1 DEF Accepting
    <3>2. CASE main' = [main EXCEPT !.pc = "check", !.from = Head(up[main.conn]).head.from]
      BY <1>0, <3>2 DEF MainType
    <3> QED BY <2>1, <3>1, <3>2
  <2> QED BY <1>3, <2>1, <2>2 DEF Joining
<1>6. CASE check_online
  <2>1. /\ main.pc = "check" /\ main'.pc \in {"refuse", "welcome"}
        /\ UNCHANGED <<client, thr, sum, counted, intact>>
    BY <1>0, <1>6 DEF check_online, MainType
  <2> QED BY <1>3, <2>1 DEF Joining
<1>7. CASE Refuse
  <2>1. main.pc = "refuse" /\ main'.pc = "accept" /\ UNCHANGED <<client, thr, sum, counted, intact>>
    BY <1>7 DEF Refuse, Accepting
  <2> QED BY <1>3, <2>1 DEF Joining
<1>8. CASE Greet
  <2>1. main.pc = "welcome" /\ main'.pc = "load" /\ UNCHANGED <<client, thr, sum, counted, intact>>
    BY <1>0, <1>8 DEF Greet, Then, MainType
  <2> QED BY <1>3, <2>1 DEF Joining
<1>9. CASE CountUp
  <2>0. UNCHANGED <<client, thr, intact>>
    BY <1>9 DEF CountUp
  <2>1. CASE main.pc = "load" /\ main' = [main EXCEPT !.pc = Then(@), !.n = sum]
             /\ UNCHANGED <<sum, counted>>
    <3>1. main'.pc = "store"
      BY <1>0, <2>1 DEF MainType, Then
    <3> QED BY <1>3, <2>0, <2>1, <3>1 DEF Joining
  <2>2. CASE main.pc = "store" /\ sum' = main.n + 1
             /\ counted' = (counted /\ sum = main.n)
             /\ main' = [main EXCEPT !.pc = Then(@), !.n = 0]
    <3>1. main'.pc = "find"
      BY <1>0, <2>2 DEF MainType, Then
    <3>2. counted' => counted /\ sum = main.n
      BY <2>2, Zenon
    <3>3. counted' => sum' = sum + 1
      BY <2>2, <3>2
    <3>4. Joining = 0 /\ Joining' = 1
      BY <2>2, <3>1 DEF Joining
    <3>5. LeavingSet' = LeavingSet /\ OnlineSet' = OnlineSet
      BY <2>0 DEF LeavingSet, OnlineSet, Online
    <3> QED BY <1>0, <1>1, <1>2, <2>0, <3>2, <3>3, <3>4, <3>5
  <2> QED BY <1>9, <2>1, <2>2 DEF CountUp
<1>10. CASE find_sub
  <2>1. main.pc = "find" /\ UNCHANGED <<client, thr, sum, counted>>
    BY <1>10 DEF find_sub
  <2>2. main'.pc \in {"find", "online"}
    <3>1. main' = [main EXCEPT !.i = @ + 1] \/ main' = [main EXCEPT !.pc = Then(@), !.i = 0]
      BY <1>10 DEF find_sub
    <3>2. Then("find") = "online"
      BY DEF Then
    <3> QED BY <1>0, <2>1, <3>1, <3>2 DEF MainType
  <2>3. intact' => intact
    BY <1>10, Zenon DEF find_sub
  <2> QED BY <1>3, <2>1, <2>2, <2>3 DEF Joining
<1>11. CASE FillEntry
  <2>0. UNCHANGED <<thr, sum, counted, intact>>
    BY <1>11 DEF FillEntry
  <2>1. main' = [main EXCEPT !.pc = Then(main.pc)]
    BY <1>11 DEF FillEntry
  <2>2. Then("online") = "fd" /\ Then("fd") = "name" /\ Then("name") = "spawn"
    BY DEF Then
  <2>3. main'.pc = Then(main.pc)
    BY <1>0, <2>1 DEF MainType
  <2>4. LeavingSet' = LeavingSet
    BY <2>0 DEF LeavingSet
  <2>5. CASE main.pc = "online" /\ client' = [client EXCEPT ![sub].online = TRUE]
    <3>1. Joining = 1 /\ Joining' = 0
      BY <2>2, <2>3, <2>5 DEF Joining
    <3>2. ASSUME intact PROVE Cardinality(OnlineSet)' = Cardinality(OnlineSet) + 1
      <4>1. sub \in Slots /\ ~client[sub].online
        BY <1>0, <2>5, <3>2 DEF Sessions, Allocating
      <4>2. OnlineSet' = OnlineSet \cup {sub} /\ sub \notin OnlineSet
        BY <1>0, <2>5, <4>1 DEF OnlineSet, Online, EntryType
      <4> QED BY <1>1, <4>2, FS_AddElement
    <3> QED BY <1>0, <1>1, <1>2, <2>0, <2>4, <3>1, <3>2
  <2>6. CASE \/ main.pc = "fd" /\ client' = [client EXCEPT ![sub].fd = main.fd]
             \/ main.pc = "name" /\ client' = [client EXCEPT ![sub].name = main.from]
    <3>1. Joining = 0 /\ Joining' = 0
      BY <2>2, <2>3, <2>6 DEF Joining
    <3>2. \A s \in Slots : client'[s].online = client[s].online
      BY <1>0, <2>6 DEF EntryType
    <3>3. OnlineSet' = OnlineSet
      BY <3>2 DEF OnlineSet, Online
    <3> QED BY <1>0, <1>1, <1>2, <2>0, <2>4, <3>1, <3>3
  <2> QED BY <1>11, <2>5, <2>6 DEF FillEntry
<1>12. CASE SpawnWorker
  <2>1. /\ main.pc = "spawn" /\ main'.pc = "accept" /\ UNCHANGED <<client, sum, counted, intact>>
        /\ thr' = [thr EXCEPT ![main.conn].pc = "start"]
        /\ thr[main.conn].pc = "none" /\ main.conn \in Conns
    BY <1>0, <1>12 DEF SpawnWorker, Accepting, SumInv, SessionInv, Unspawned
  <2>2. thr'[main.conn].pc = "start" /\ \A w \in Conns \ {main.conn} : thr'[w] = thr[w]
    BY <1>0, <2>1 DEF WorkType
  <2>3. LeavingSet' = LeavingSet /\ OnlineSet' = OnlineSet
    BY <2>1, <2>2 DEF LeavingSet, OnlineSet, Online
  <2>4. Joining' = Joining
    BY <2>1 DEF Joining
  <2> QED BY <1>1, <1>2, <2>1, <2>3, <2>4
<1> QED
  BY <1>4, <1>5, <1>6, <1>7, <1>8, <1>9, <1>10, <1>11, <1>12 DEF Main

LEMMA StepSum ==
  ASSUME SumInv, [Next]_vars
  PROVE  SumInv'
<1>1. SessionInv'
  BY StepSessions DEF SumInv
<1>2. CASE ServerNext
  BY <1>1, <1>2, MainSum, WorkerSum DEF ServerNext, SumInv
<1>3. CASE UNCHANGED serverVars
  BY <1>1, <1>3 DEF serverVars, SumInv, SumExact, LeavingSet, Leaving, Joining, Online
<1> QED BY <1>2, <1>3 DEF Next, Client, vars

LEMMA InitSum == Init => SumInv
<1> SUFFICES ASSUME Init PROVE SumInv
  OBVIOUS
<1>1. /\ \A c \in Conns : thr[c].pc = "none"
      /\ \A s \in Slots : ~client[s].online
      /\ main.pc = "accept" /\ sum = 0
  BY Zeros DEF Init, Accepting, Idle
<1>2. LeavingSet = {} /\ OnlineSet = {} /\ Joining = 0
  BY <1>1 DEF LeavingSet, OnlineSet, Online, Joining
<1> QED BY <1>1, <1>2, InitType, InitSessions, SumIs, FS_EmptySet DEF SumInv, SessionInv

(* As long as every worker found its own entry and no two threads changed  *)
(* sum at once, it is the number of users online, for every number of      *)
(* clients and entries (server/server.c:53-54, 137-139).                   *)
THEOREM SumCounts == Spec => []SumExact
<1>1. SumInv => SumExact
  BY DEF SumInv
<1> QED BY <1>1, InitSum, StepSum, PTL DEF Spec

-----------------------------------------------------------------------------
(* Names.  What check_online has seen stays true until main has filled the *)
(* entry, because only main puts an entry online or names it.              *)

NameFree ==
  main.pc \in {"welcome", "load", "store", "find", "online", "fd", "name"} =>
    \A s \in Slots : client[s].online /\ ~BeingFilled(s) => client[s].name # main.from

UniqueInv == TypeInv /\ UniqueNames /\ NameFree

(* Steps of all but main.                                                  *)
LEMMA OnlyOffline ==
  ASSUME UniqueNames, NameFree, UNCHANGED <<main, sub>>,
         \A s \in Slots : /\ client'[s].name = client[s].name
                          /\ client'[s].online => client[s].online
  PROVE  UniqueNames' /\ NameFree'
BY DEF UniqueNames, NameFree, Online, BeingFilled

LEMMA WorkerUnique ==
  ASSUME UniqueInv, NEW w \in Conns, work(w)
  PROVE  UniqueNames' /\ NameFree'
<1>0. client \in [Cells -> EntryType] /\ Slots \subseteq Cells /\ UNCHANGED <<main, sub>>
  BY Zeros, WorkerEffects DEF UniqueInv, TypeInv
<1>1. CASE SetOffline(w)
  <2>1. client' = [client EXCEPT ![thr[w].sub].online = FALSE]
    BY <1>1 DEF SetOffline
  <2>2. \A s \in Slots : /\ client'[s].name = client[s].name
                         /\ client'[s].online => client[s].online
    BY <1>0, <2>1 DEF EntryType
  <2> QED BY <1>0, <2>2, OnlyOffline DEF UniqueInv
<1>2. CASE CountDown(w)
  BY <1>0, <1>2, OnlyOffline DEF CountDown, UniqueInv
<1>3. CASE ~SetOffline(w) /\ ~CountDown(w)
  BY <1>0, <1>3, OnlyOffline, WorkerMoves DEF UniqueInv
<1> QED BY <1>1, <1>2, <1>3

LEMMA MainUnique ==
  ASSUME UniqueInv, Main
  PROVE  UniqueNames' /\ NameFree'
<1>0. /\ main \in MainType /\ client \in [Cells -> EntryType] /\ Slots \subseteq Cells
      /\ sub \in Cells /\ UniqueNames /\ NameFree
  BY Zeros DEF UniqueInv, TypeInv
<1> DEFINE Named == {"welcome", "load", "store", "find", "online", "fd", "name"}
<1>1. ASSUME UNCHANGED client, main.pc \notin {"fd", "name"}, main'.pc \notin Named
      PROVE  UniqueNames' /\ NameFree'
  BY <1>0, <1>1 DEF UniqueNames, NameFree, Online, BeingFilled
<1>2. ASSUME UNCHANGED client, main.pc \in Named \ {"fd", "name"},
             main'.pc \notin {"fd", "name"}, main'.from = main.from
      PROVE  UniqueNames' /\ NameFree'
  BY <1>0, <1>2 DEF UniqueNames, NameFree, Online, BeingFilled
<1>3. CASE accept
  <2>1. main.pc = "accept" /\ main'.pc = "recv" /\ UNCHANGED client
    BY <1>0, <1>3 DEF accept, MainType
  <2> QED BY <1>1, <2>1
<1>4. CASE RecvLogin
  <2>1. /\ main.pc = "recv" /\ UNCHANGED client
        /\ \/ main' = Accepting
           \/ main' = [main EXCEPT !.pc = "check", !.from = Head(up[main.conn]).head.from]
    BY <1>4 DEF RecvLogin
  <2>2. CASE main' = Accepting
    BY <1>1, <2>1, <2>2 DEF Accepting
  <2>3. CASE main' = [main EXCEPT !.pc = "check", !.from = Head(up[main.conn]).head.from]
    <3>1. main'.pc = "check"
      BY <1>0, <2>3 DEF MainType
    <3> QED BY <1>1, <2>1, <3>1
  <2> QED BY <2>1, <2>2, <2>3
<1>5. CASE check_online
  <2>1. main.pc = "check" /\ UNCHANGED client
    BY <1>5 DEF check_online
  <2>2. CASE \E s \in Slots : Online(s) /\ NameIs(s, main.from)
    <3>1. main'.pc = "refuse"
      BY <1>0, <1>5, <2>2 DEF check_online, MainType
    <3> QED BY <1>1, <2>1, <3>1
  <2>3. CASE ~\E s \in Slots : Online(s) /\ NameIs(s, main.from)
    <3>1. main'.pc = "welcome" /\ main'.from = main.from
      BY <1>0, <1>5, <2>3 DEF check_online, MainType
    <3>2. \A s \in Slots : client[s].online => client[s].name # main.from
      BY <2>3 DEF Online, NameIs
    <3> QED BY <1>0, <2>1, <3>1, <3>2 DEF UniqueNames, NameFree, Online, BeingFilled
  <2> QED BY <2>2, <2>3
<1>6. CASE Refuse \/ SpawnWorker
  <2>1. main.pc \in {"refuse", "spawn"} /\ main'.pc = "accept" /\ UNCHANGED client
    BY <1>6 DEF Refuse, SpawnWorker, Accepting
  <2> QED BY <1>1, <2>1
<1>7. CASE Greet
  <2>1. main.pc = "welcome" /\ main'.pc = "load" /\ main'.from = main.from /\ UNCHANGED client
    BY <1>0, <1>7 DEF Greet, Then, MainType
  <2> QED BY <1>2, <2>1
<1>8. CASE CountUp
  <2>1. main.pc \in {"load", "store"} /\ UNCHANGED client
    BY <1>8 DEF CountUp
  <2>2. Then("load") = "store" /\ Then("store") = "find"
    BY DEF Then
  <2>3. \E n : main' = [main EXCEPT !.pc = Then(main.pc), !.n = n]
    BY <1>8 DEF CountUp
  <2>4. main'.pc \in {"store", "find"} /\ main'.from = main.from
    BY <1>0, <2>1, <2>2, <2>3 DEF MainType
  <2> QED BY <1>2, <2>1, <2>4
<1>9. CASE find_sub
  <2>1. main.pc = "find" /\ UNCHANGED client
    BY <1>9 DEF find_sub
  <2>2. Then("find") = "online"
    BY DEF Then
  <2>3. main' = [main EXCEPT !.i = @ + 1] \/ main' = [main EXCEPT !.pc = Then(@), !.i = 0]
    BY <1>9 DEF find_sub
  <2>4. main'.pc \in {"find", "online"} /\ main'.from = main.from
    BY <1>0, <2>1, <2>2, <2>3 DEF MainType
  <2> QED BY <1>2, <2>1, <2>4
<1>10. CASE FillEntry
  <2>1. Then("online") = "fd" /\ Then("fd") = "name" /\ Then("name") = "spawn"
    BY DEF Then
  <2>2. main' = [main EXCEPT !.pc = Then(main.pc)] /\ sub' = sub
    BY <1>10 DEF FillEntry
  <2>3. main'.pc = Then(main.pc) /\ main'.from = main.from
    BY <1>0, <2>2 DEF MainType
  <2>4. CASE main.pc = "online" /\ client' = [client EXCEPT ![sub].online = TRUE]
    <3>1. \A s \in Slots : s # sub => client'[s] = client[s]
      BY <1>0, <2>4
    <3> QED BY <1>0, <2>1, <2>2, <2>3, <2>4, <3>1 DEF UniqueNames, NameFree, Online, BeingFilled
  <2>5. CASE main.pc = "fd" /\ client' = [client EXCEPT ![sub].fd = main.fd]
    <3>1. \A s \in Slots : s # sub => client'[s] = client[s]
      BY <1>0, <2>5
    <3> QED BY <1>0, <2>1, <2>2, <2>3, <2>5, <3>1 DEF UniqueNames, NameFree, Online, BeingFilled
  <2>6. CASE main.pc = "name" /\ client' = [client EXCEPT ![sub].name = main.from]
    <3>1. \A s \in Slots : /\ s # sub => client'[s] = client[s]
                           /\ s = sub => client'[s].name = main.from
      BY <1>0, <2>6 DEF EntryType
    <3> QED BY <1>0, <2>1, <2>2, <2>3, <2>6, <3>1 DEF UniqueNames, NameFree, Online, BeingFilled
  <2> QED BY <1>10, <2>4, <2>5, <2>6 DEF FillEntry
<1> QED
  BY <1>3, <1>4, <1>5, <1>6, <1>7, <1>8, <1>9, <1>10 DEF Main

(* No user is online twice in the first chat room either, whatever races,  *)
(* overflows and disconnections there are (server/server.c:92-100).        *)
THEOREM FirstOneSession == Spec => []UniqueNames
<1>1. Init => UniqueInv
  <2>1. Init => UniqueNames /\ NameFree
    BY Zeros DEF Init, UniqueNames, NameFree, Online, Accepting
  <2> QED BY <2>1, InitType DEF UniqueInv
<1>2. UniqueInv /\ [Next]_vars => UniqueInv'
  <2> SUFFICES ASSUME UniqueInv, [Next]_vars PROVE UniqueNames' /\ NameFree'
    BY StepType DEF UniqueInv
  <2>1. CASE ServerNext
    BY <2>1, MainUnique, WorkerUnique DEF ServerNext
  <2>2. CASE UNCHANGED serverVars
    BY <2>2, OnlyOffline DEF serverVars, UniqueInv
  <2> QED BY <2>1, <2>2 DEF Next, Client, vars
<1>3. UniqueInv => UniqueNames
  BY DEF UniqueInv
<1> QED BY <1>1, <1>2, <1>3, PTL DEF Spec


-----------------------------------------------------------------------------
(* A public message reaches whoever has to be reached.  What is still due  *)
(* lies ahead of the loop: the entry of the user is not passed yet, and no *)
(* entry before it is offline.                                             *)
PublicText(m) == m.head.flag = 0 => m.body[1] = "text"

TextsPublic == \A c \in Conns : \A k \in 1 .. Len(up[c]) : PublicText(up[c][k])

AtZero == \A w \in Conns :
            thr[w].pc \in {"none", "start", "fd", "recv", "block"} => thr[w].i = 0

Addressed ==
  \A w \in Conns : \A d \in due[w] :
    /\ thr[w].pc \in {"all", "send"}
    /\ thr[w].msg.head.flag = 0 /\ thr[w].msg.body[1] = "text"
    /\ cli[d].pc # "start"

Prefix(s) == \A t \in Slots : t <= s => client[t].online

Holds(d, s) == \/ Standing(d) /\ handed[d] = s /\ thr[d].pc # "offline"
               \/ main.pc = "spawn" /\ main.conn = d /\ sub = s

Ahead(w, d) == \E s \in Slots : s >= thr[w].i /\ Prefix(s) /\ Holds(d, s)

Reached(w, d) == peer[d] => thr[w].msg \in got[d] \/ Ahead(w, d)

Reaching == \A w \in Conns : \A d \in due[w] : Reached(w, d)

DeliveryInv == SumInv /\ TextsPublic /\ AtZero /\ Addressed /\ (intact => Reaching)

LEMMA InitDelivery == Init => TextsPublic /\ AtZero /\ Addressed /\ Reaching
<1> SUFFICES ASSUME Init PROVE TextsPublic /\ AtZero /\ Addressed /\ Reaching
  OBVIOUS
<1>1. \A w \in Conns : up[w] = <<>> /\ thr[w].i = 0 /\ due[w] = {}
  BY DEF Init, NetInit, Idle
<1> QED BY <1>1 DEF TextsPublic, AtZero, Addressed, Reaching

LEMMA TakeTexts ==
  ASSUME up \in [Conns -> Seq(Msg)], TextsPublic, NEW c \in Conns, chat_recv(c)
  PROVE  TextsPublic' /\ PublicText(Head(up[c]))
<1>1. up[c] # <<>> /\ up' = [up EXCEPT ![c] = Tail(up[c])] /\ up[c] \in Seq(Msg)
  BY DEF chat_recv
<1>2. Len(up[c]) \in Nat \ {0} /\ Head(up[c]) = up[c][1]
  BY <1>1
<1>3. Len(Tail(up[c])) = Len(up[c]) - 1
      /\ \A k \in 1 .. Len(Tail(up[c])) : Tail(up[c])[k] = up[c][k + 1]
  BY <1>1
<1>4. \A d \in Conns : up'[d] = IF d = c THEN Tail(up[c]) ELSE up[d]
  BY <1>1
<1>5. \A k \in 1 .. Len(up[c]) : PublicText(up[c][k])
  BY DEF TextsPublic
<1>6. \A k \in 1 .. Len(Tail(up[c])) : PublicText(Tail(up[c])[k])
  <2> SUFFICES ASSUME NEW k \in 1 .. Len(Tail(up[c])) PROVE PublicText(Tail(up[c])[k])
    OBVIOUS
  <2>1. k \in 1 .. Len(up[c]) - 1 /\ Tail(up[c])[k] = up[c][k + 1]
    BY <1>3
  <2>2. \A n \in Nat : k \in 1 .. n - 1 => k + 1 \in 1 .. n
    OBVIOUS
  <2>3. k + 1 \in 1 .. Len(up[c])
    BY <1>2, <2>1, <2>2
  <2> QED BY <1>5, <2>1, <2>3
<1>7. PublicText(Head(up[c]))
  <2>1. 1 \in 1 .. Len(up[c])
    BY <1>2
  <2> QED BY <1>2, <1>5, <2>1
<1>8. TextsPublic'
  <2>1. \A d \in Conns : d # c => \A k \in 1 .. Len(up[d]) : PublicText(up[d][k])
    BY DEF TextsPublic
  <2> QED BY <1>4, <1>6, <2>1 DEF TextsPublic
<1> QED BY <1>7, <1>8

LEMMA SentTexts ==
  ASSUME up \in [Conns -> Seq(Msg)], TextsPublic, NEW c \in Conns, NEW m, PublicText(m), Transmit(c, m)
  PROVE  TextsPublic'
<1>1. CASE up' = up
  BY <1>1 DEF TextsPublic
<1>2. CASE up' = [up EXCEPT ![c] = Append(@, m)]
  <2>1. up[c] \in Seq(Msg)
    OBVIOUS
  <2>2. Len(Append(up[c], m)) = Len(up[c]) + 1 /\ Len(up[c]) \in Nat
        /\ \A k \in 1 .. Len(up[c]) + 1 :
             Append(up[c], m)[k] = IF k = Len(up[c]) + 1 THEN m ELSE up[c][k]
    BY <2>1
  <2>3. \A d \in Conns : up'[d] = IF d = c THEN Append(up[c], m) ELSE up[d]
    BY <1>2
  <2>4. \A k \in 1 .. Len(up[c]) : PublicText(up[c][k])
    BY DEF TextsPublic
  <2>5. \A k \in 1 .. Len(Append(up[c], m)) : PublicText(Append(up[c], m)[k])
    <3> SUFFICES ASSUME NEW k \in 1 .. Len(Append(up[c], m)) PROVE PublicText(Append(up[c], m)[k])
      OBVIOUS
    <3>1. CASE k = Len(up[c]) + 1
      <4>1. Append(up[c], m)[k] = m
        BY <2>2, <3>1
      <4> QED BY <4>1
    <3>2. CASE k # Len(up[c]) + 1
      <4>1. k \in 1 .. Len(up[c]) /\ Append(up[c], m)[k] = up[c][k]
        BY <2>2, <3>2
      <4> QED BY <2>4, <4>1
    <3> QED BY <3>1, <3>2
  <2> QED BY <2>3, <2>5 DEF TextsPublic
<1> QED BY <1>1, <1>2 DEF Transmit

LEMMA SendGot ==
  ASSUME got \in [Conns -> SUBSET Msg], NEW m, NEW fd, chat_send(m, fd)
  PROVE  \A d \in Conns : got[d] \subseteq got'[d]
<1>1. CASE got' = got
  BY <1>1
<1>2. ASSUME NEW c \in Conns, got' = [got EXCEPT ![c] = @ \cup {m}]
      PROVE  \A d \in Conns : got[d] \subseteq got'[d]
  BY <1>2
<1> QED BY <1>1, <1>2 DEF chat_send

(* What a step of main or of a client leaves as it was.                    *)
LEMMA KeepMail ==
  ASSUME TypeInv, TextsPublic', AtZero, Addressed, UNCHANGED due,
         \A w \in Conns : /\ thr'[w].i = thr[w].i /\ thr'[w].msg = thr[w].msg
                          /\ thr'[w].pc = thr[w].pc \/ (thr[w].pc = "none" /\ thr'[w].pc = "start"),
         \A d \in Conns : cli'[d].pc = "start" => cli[d].pc = "start"
  PROVE  TextsPublic' /\ AtZero' /\ Addressed'
<1>1. due \in [Conns -> SUBSET Conns]
  BY DEF TypeInv
<1>2. AtZero'
  BY DEF AtZero
<1>3. Addressed'
  BY <1>1 DEF Addressed
<1> QED BY <1>2, <1>3

LEMMA KeepReached ==
  ASSUME NEW w \in Conns, NEW d \in Conns, Reached(w, d),
         thr'[w].i = thr[w].i, thr'[w].msg = thr[w].msg,
         peer'[d] => peer[d] /\ got[d] \subseteq got'[d],
         \A s \in Slots : client[s].online => client'[s].online,
         peer'[d] => \A s \in Slots : Holds(d, s) => Holds(d, s)'
  PROVE  Reached(w, d)'
<1>1. \A s \in Slots : Prefix(s) => Prefix(s)'
  BY DEF Prefix
<1>2. ASSUME peer'[d], Ahead(w, d) PROVE Ahead(w, d)'
  BY <1>1, <1>2 DEF Ahead
<1> QED BY <1>2 DEF Reached

LEMMA ClientDelivers ==
  ASSUME SessionInv, TextsPublic, AtZero, Addressed, intact => Reaching, Client
  PROVE  TextsPublic' /\ AtZero' /\ Addressed' /\ (intact' => Reaching')
<1>0. /\ TypeInv /\ Unspawned /\ Honest
      /\ up \in [Conns -> Seq(Msg)] /\ got \in [Conns -> SUBSET Msg]
      /\ peer \in [Conns -> BOOLEAN] /\ due \in [Conns -> SUBSET Conns]
  BY DEF SessionInv, TypeInv, NetTypeOK
<1>1. /\ UNCHANGED <<main, sub, client, thr, handed, intact, due>>
      /\ \A d \in Conns : /\ peer'[d] => peer[d] \/ cli[d].pc = "start"
                          /\ cli'[d].pc = "start" => cli[d].pc = "start"
  BY <1>0, ClientPeers DEF serverVars
<1>2. PICK c \in Conns : \/ socket_connect(c) \/ SendLogin(c) \/ RecvReply(c)
                        \/ client_send(c) \/ Leave(c)
  BY DEF Client, ClientNext
<1>3. TextsPublic'
  <2>1. CASE SendLogin(c)
    <3>1. PICK m : Transmit(c, m) /\ PublicText(m)
      <4>1. Message(cli[c].me, Nobody, 2, <<"empty", Nobody>>).head.flag = 2
        BY DEF Message
      <4> QED BY <2>1, <4>1 DEF SendLogin, PublicText
    <3> QED BY <1>0, <3>1, SentTexts
  <2>2. CASE client_send(c)
    <3>1. PICK line \in Lines :
            Transmit(c, Message(cli[c].me, line.word, FlagOf(line), <<"text",
                          [by |-> c, no |-> cli[c].sent + 1,
                           flag |-> FlagOf(line), to |-> line.word]>>))
      BY <2>2 DEF client_send
    <3>2. PICK m : Transmit(c, m) /\ m.body[1] = "text"
      BY <3>1 DEF Message
    <3> QED BY <1>0, <3>2, SentTexts DEF PublicText
  <2>3. CASE socket_connect(c) \/ RecvReply(c) \/ Leave(c)
    <3>1. up' = up
      BY <2>3 DEF socket_connect, RecvReply, Leave
    <3> QED BY <3>1 DEF TextsPublic
  <2> QED BY <1>2, <2>1, <2>2, <2>3
<1>4. AtZero' /\ Addressed'
  BY <1>0, <1>1, <1>3, KeepMail
<1>5. \A d \in Conns : peer'[d] => cli[d].pc = "start" \/ got'[d] = got[d]
  <2>1. CASE Quit(c)
    BY <1>0, <2>1 DEF Quit
  <2>2. CASE got' = got
    BY <2>2
  <2> QED BY <1>2, <2>1, <2>2 DEF socket_connect, SendLogin, RecvReply, client_send, Leave
<1>6. ASSUME intact' PROVE Reaching'
  <2> SUFFICES ASSUME NEW w \in Conns, NEW d \in due[w] PROVE Reached(w, d)'
    BY <1>1 DEF Reaching
  <2>1. d \in Conns /\ Reached(w, d) /\ cli[d].pc # "start"
    BY <1>0, <1>1, <1>6 DEF Reaching, Addressed
  <2>2. \A s \in Slots : Holds(d, s) => Holds(d, s)'
    BY <1>1 DEF Holds, Standing
  <2> QED BY <1>1, <1>5, <2>1, <2>2, KeepReached
<1> QED BY <1>3, <1>4, <1>6

LEMMA MainDelivers ==
  ASSUME SessionInv, TextsPublic, AtZero, Addressed, intact => Reaching, Main, UNCHANGED cli
  PROVE  TextsPublic' /\ AtZero' /\ Addressed' /\ (intact' => Reaching')
<1>0. /\ TypeInv /\ Unspawned /\ (main.pc # "accept" => main.conn \in Conns)
      /\ up \in [Conns -> Seq(Msg)] /\ got \in [Conns -> SUBSET Msg]
      /\ due \in [Conns -> SUBSET Conns] /\ thr \in [Conns -> WorkType]
      /\ client \in [Cells -> EntryType] /\ Slots \subseteq Cells /\ sub \in Cells
      /\ handed \in [Conns -> Cells]
  BY Zeros DEF SessionInv, TypeInv, NetTypeOK, ConnKnown
<1>1. UNCHANGED <<due, peer>>
  BY DEF Main, accept, RecvLogin, check_online, Refuse, Greet, CountUp, find_sub, FillEntry,
         SpawnWorker, netVars
<1>2. intact' => intact
  <2>1. CASE find_sub
    BY <2>1, Zenon DEF find_sub
  <2>2. CASE ~find_sub
    BY <2>2 DEF Main, accept, RecvLogin, check_online, Refuse, Greet, CountUp, FillEntry,
                SpawnWorker
  <2> QED BY <2>1, <2>2
<1>3. TextsPublic'
  <2>1. CASE RecvLogin
    <3>1. chat_recv(main.conn) \/ up' = up
      BY <2>1 DEF RecvLogin
    <3>2. main.conn \in Conns
      BY <1>0, <2>1 DEF RecvLogin
    <3>3. CASE chat_recv(main.conn)
      BY <1>0, <3>2, <3>3, TakeTexts
    <3>4. CASE up' = up
      BY <3>4 DEF TextsPublic
    <3> QED BY <3>1, <3>3, <3>4
  <2>2. CASE ~RecvLogin
    <3>1. up' = up
      BY <2>2 DEF Main, accept, check_online, Refuse, Greet, CountUp, find_sub, FillEntry,
                  SpawnWorker, netVars
    <3> QED BY <3>1 DEF TextsPublic
  <2> QED BY <2>1, <2>2
<1>4. \A d \in Conns : got[d] \subseteq got'[d]
  <2>1. CASE Refuse
    BY <1>0, <2>1, SendGot DEF Refuse
  <2>2. CASE Greet
    BY <1>0, <2>2, SendGot DEF Greet
  <2>3. CASE ~Refuse /\ ~Greet
    BY <2>3 DEF Main, accept, RecvLogin, check_online, CountUp, find_sub, FillEntry,
                SpawnWorker, netVars
  <2> QED BY <2>1, <2>2, <2>3
<1>5. \A s \in Slots : client[s].online => client'[s].online
  <2>1. CASE FillEntry
    <3>1. \/ client' = [client EXCEPT ![sub].online = TRUE]
          \/ client' = [client EXCEPT ![sub].fd = main.fd]
          \/ client' = [client EXCEPT ![sub].name = main.from]
      BY <2>1 DEF FillEntry
    <3>2. CASE client' = [client EXCEPT ![sub].online = TRUE]
      BY <1>0, <3>2 DEF EntryType
    <3>3. CASE client' = [client EXCEPT ![sub].fd = main.fd]
      BY <1>0, <3>3 DEF EntryType
    <3>4. CASE client' = [client EXCEPT ![sub].name = main.from]
      BY <1>0, <3>4 DEF EntryType
    <3> QED BY <3>1, <3>2, <3>3, <3>4
  <2>2. CASE ~FillEntry
    BY <2>2 DEF Main, accept, RecvLogin, check_online, Refuse, Greet, CountUp, find_sub,
                SpawnWorker
  <2> QED BY <2>1, <2>2
<1>6. /\ \A w \in Conns : /\ thr'[w].i = thr[w].i /\ thr'[w].msg = thr[w].msg
                          /\ \/ thr'[w].pc = thr[w].pc
                             \/ thr[w].pc = "none" /\ thr'[w].pc = "start"
      /\ \A d \in Conns : \A s \in Slots : Holds(d, s) => Holds(d, s)'
  <2>1. CASE SpawnWorker
    <3>1. /\ main.pc = "spawn" /\ main.conn \in Conns /\ thr[main.conn].pc = "none"
          /\ thr' = [thr EXCEPT ![main.conn].pc = "start"]
          /\ handed' = [handed EXCEPT ![main.conn] = sub]
      BY <1>0, <2>1 DEF SpawnWorker, Unspawned
    <3>2. /\ \A w \in Conns \ {main.conn} : thr'[w] = thr[w] /\ handed'[w] = handed[w]
          /\ thr'[main.conn].pc = "start" /\ handed'[main.conn] = sub
          /\ thr'[main.conn].i = thr[main.conn].i /\ thr'[main.conn].msg = thr[main.conn].msg
      BY <1>0, <3>1 DEF WorkType
    <3> QED BY <3>1, <3>2 DEF Holds, Standing
  <2>2. CASE ~SpawnWorker
    <3>1. UNCHANGED <<thr, handed>> /\ main.pc # "spawn"
      BY <2>2 DEF Main, accept, RecvLogin, check_online, Refuse, Greet, CountUp, find_sub,
                  FillEntry
    <3> QED BY <3>1 DEF Holds, Standing
  <2> QED BY <2>1, <2>2
<1>7. AtZero' /\ Addressed'
  BY <1>0, <1>1, <1>3, <1>6, KeepMail
<1>8. ASSUME intact' PROVE Reaching'
  <2> SUFFICES ASSUME NEW w \in Conns, NEW d \in due[w] PROVE Reached(w, d)'
    BY <1>1 DEF Reaching
  <2>1. d \in Conns /\ Reached(w, d)
    BY <1>0, <1>2, <1>8 DEF Reaching
  <2> QED BY <1>1, <1>4, <1>5, <1>6, <2>1, KeepReached
<1> QED BY <1>3, <1>7, <1>8

(* Only the worker itself changes what is due to its message.              *)
LEMMA DueOf ==
  ASSUME TypeInv, NEW w \in Conns, work(w), NEW v \in Conns \ {w}
  PROVE  due'[v] \subseteq due[v]
<1>0. due \in [Conns -> SUBSET Conns]
  BY DEF TypeInv
<1>1. CASE RecvMsg(w)
  <2>1. \E S : due' = [due EXCEPT ![w] = S]
    BY <1>1 DEF RecvMsg
  <2> QED BY <1>0, <2>1
<1>2. CASE SetOffline(w)
  BY <1>2 DEF SetOffline
<1>3. CASE Served(w)
  BY <1>0, <1>3 DEF Served
<1>4. CASE due' = due
  BY <1>4
<1> QED
  BY <1>1, <1>2, <1>3, <1>4 DEF work, ReadSub, ReadFd, CallRecv, RecvEnd, send_all, check_name,
     SendOne, TellOffline, CloseFd, CountDown

(* How a step of a worker changes its place in the loop and what is due.   *)
LEMMA WorkerPlace ==
  ASSUME TypeInv, TextsPublic, AtZero, Addressed, NEW w \in Conns, work(w)
  PROVE  /\ thr'[w].pc \in {"none", "start", "fd", "recv", "block"} => thr'[w].i = 0
         /\ \A d \in due'[w] : /\ thr'[w].pc \in {"all", "send"}
                               /\ thr'[w].msg.head.flag = 0 /\ thr'[w].msg.body[1] = "text"
                               /\ d \in due[w] \/ RecvMsg(w)
<1>0. /\ due \in [Conns -> SUBSET Conns] /\ thr \in [Conns -> WorkType] /\ WorkOK(thr[w])
      /\ up \in [Conns -> Seq(Msg)]
      /\ thr[w].pc \in {"none", "start", "fd", "recv", "block"} => thr[w].i = 0
      /\ \A d \in due[w] : /\ thr[w].pc \in {"all", "send"}
                           /\ thr[w].msg.head.flag = 0 /\ thr[w].msg.body[1] = "text"
  BY DEF TypeInv, NetTypeOK, AtZero, Addressed
<1> DEFINE Zero == {"none", "start", "fd", "recv", "block"}
<1>10. ASSUME due' = due, thr[w].pc \notin {"all", "send"},
             thr'[w].pc \in Zero => thr[w].pc \in Zero /\ thr'[w].i = thr[w].i
      PROVE  /\ thr'[w].pc \in Zero => thr'[w].i = 0
             /\ due'[w] = {}
  BY <1>0, <1>10
<1>1. CASE ReadSub(w) \/ ReadFd(w) \/ CloseFd(w) \/ RecvEnd(w)
  <2>1. /\ due' = due /\ thr[w].pc \notin {"all", "send"}
    BY <1>1 DEF ReadSub, ReadFd, CloseFd, RecvEnd
  <2>2. thr'[w].pc \in Zero => thr[w].pc \in Zero /\ thr'[w].i = thr[w].i
    BY <1>0, <1>1 DEF ReadSub, ReadFd, CloseFd, RecvEnd, Goto, WorkType
  <2> QED BY <1>10, <2>1, <2>2
<1>2. CASE CallRecv(w)
  <2>1. /\ due' = due /\ thr[w].pc = "recv"
        /\ \/ thr' = [thr EXCEPT ![w].pc = "block", ![w].sock = fdt[thr[w].fd]]
           \/ thr' = [thr EXCEPT ![w].pc = "close"]
    BY <1>2 DEF CallRecv, Goto
  <2>2. thr'[w].i = thr[w].i
    BY <1>0, <2>1 DEF WorkType
  <2> QED BY <1>10, <2>1, <2>2
<1>3. CASE RecvMsg(w)
  <2> DEFINE m == Head(up[thr[w].sock])
             pc == CASE m.head.flag = 0 -> "all" [] m.head.flag = 1 -> "who" [] OTHER -> "recv"
             S == IF m.head.flag = 0 /\ NoGap THEN Members ELSE {}
  <2>1. /\ thr' = [thr EXCEPT ![w].sock = None, ![w].msg = m, ![w].pc = pc]
        /\ due' = [due EXCEPT ![w] = S]
        /\ thr[w].pc = "block" /\ chat_recv(thr[w].sock)
    BY <1>3 DEF RecvMsg
  <2>2. PublicText(m)
    BY <1>0, <2>1, TakeTexts DEF WorkOK
  <2>3. m.head.flag = 0 => pc = "all"
    OBVIOUS
  <2>4. S # {} => m.head.flag = 0
    OBVIOUS
  <2> HIDE DEF m, pc, S
  <2>5. thr'[w].pc = pc /\ thr'[w].i = thr[w].i /\ thr'[w].msg = m /\ due'[w] = S
    BY <1>0, <2>1 DEF WorkType
  <2> QED BY <1>0, <1>3, <2>1, <2>2, <2>3, <2>4, <2>5 DEF PublicText
<1>4. CASE Served(w)
  BY <1>0, <1>4 DEF Served, WorkType
<1>5. CASE send_all(w) /\ ~Served(w)
  <2>1. /\ thr[w].pc = "all" /\ due' = due
        /\ thr' = [thr EXCEPT ![w].pc = "send"] \/ thr' = [thr EXCEPT ![w].i = @ + 1]
    BY <1>5 DEF send_all, Goto
  <2>2. thr'[w].pc \in {"all", "send"} /\ thr'[w].msg = thr[w].msg
    BY <1>0, <2>1 DEF WorkType
  <2> QED BY <1>0, <2>1, <2>2
<1>6. CASE check_name(w)
  <2>1. /\ thr[w].pc = "who" /\ due' = due
        /\ \/ thr' = [thr EXCEPT ![w].pc = "tell"]
           \/ thr' = [thr EXCEPT ![w].pc = "send"]
           \/ thr' = [thr EXCEPT ![w].i = @ + 1]
    BY <1>6 DEF check_name, Goto
  <2>2. CASE thr' = [thr EXCEPT ![w].pc = "tell"]
    BY <1>0, <1>10, <2>1, <2>2 DEF WorkType
  <2>3. CASE thr' = [thr EXCEPT ![w].pc = "send"]
    BY <1>0, <1>10, <2>1, <2>3 DEF WorkType
  <2>4. CASE thr' = [thr EXCEPT ![w].i = @ + 1]
    BY <1>0, <1>10, <2>1, <2>4 DEF WorkType
  <2> QED BY <2>1, <2>2, <2>3, <2>4
<1>7. CASE SendOne(w) /\ ~Served(w)
  <2>1. due' = due /\ thr' = [thr EXCEPT ![w].pc = "all", ![w].i = @ + 1]
    BY <1>7 DEF SendOne
  <2> QED BY <1>0, <2>1 DEF WorkType
<1>8. CASE SetOffline(w)
  BY <1>0, <1>8 DEF SetOffline, Goto, WorkType
<1>9. CASE CountDown(w)
  <2>1. /\ due' = due /\ thr[w].pc \in {"load", "store"}
        /\ \/ thr' = [thr EXCEPT ![w].pc = "store", ![w].n = sum]
           \/ thr' = [thr EXCEPT ![w] = [Idle EXCEPT !.pc = "exit"]]
    BY <1>9 DEF CountDown
  <2>2. [Idle EXCEPT !.pc = "exit"].pc = "exit"
    BY DEF Idle
  <2>3. CASE thr' = [thr EXCEPT ![w].pc = "store", ![w].n = sum]
    BY <1>0, <1>10, <2>1, <2>3 DEF WorkType
  <2>4. CASE thr' = [thr EXCEPT ![w] = [Idle EXCEPT !.pc = "exit"]]
    <3>1. thr'[w] = [Idle EXCEPT !.pc = "exit"]
      BY <1>0, <2>4
    <3> QED BY <1>10, <2>1, <2>2, <3>1
  <2> QED BY <2>1, <2>3, <2>4
<1> QED
  BY <1>1, <1>2, <1>3, <1>4, <1>5, <1>6, <1>7, <1>8, <1>9 DEF work, TellOffline

LEMMA WorkerMail ==
  ASSUME TypeInv, Honest, TextsPublic, AtZero, Addressed, NEW w \in Conns, work(w), UNCHANGED cli
  PROVE  TextsPublic' /\ AtZero' /\ Addressed'
<1>0. /\ due \in [Conns -> SUBSET Conns] /\ WorkOK(thr[w])
      /\ up \in [Conns -> Seq(Msg)] /\ client \in [Cells -> EntryType] /\ Slots \subseteq Cells
      /\ \A v \in Conns \ {w} : thr'[v] = thr[v]
  BY WorkerEffects, Zeros DEF TypeInv, NetTypeOK
<1>1. TextsPublic'
  <2>1. CASE RecvMsg(w)
    <3>1. chat_recv(thr[w].sock) /\ thr[w].sock \in Conns
      BY <1>0, <2>1 DEF RecvMsg, WorkOK
    <3> QED BY <1>0, <3>1, TakeTexts
  <2>2. CASE ~RecvMsg(w)
    <3>1. up' = up
      BY <2>2 DEF work, ReadSub, ReadFd, CallRecv, RecvEnd, send_all, check_name, SendOne,
                  TellOffline, CloseFd, SetOffline, CountDown, netVars
    <3> QED BY <3>1 DEF TextsPublic
  <2> QED BY <2>1, <2>2
<1>2. AtZero'
  BY <1>0, WorkerPlace DEF AtZero
<1>3. Addressed'
  <2> SUFFICES ASSUME NEW v \in Conns, NEW d \in due'[v]
               PROVE  /\ thr'[v].pc \in {"all", "send"}
                      /\ thr'[v].msg.head.flag = 0 /\ thr'[v].msg.body[1] = "text"
                      /\ cli'[d].pc # "start"
    BY DEF Addressed
  <2>1. CASE v # w
    BY <1>0, <2>1, DueOf DEF Addressed
  <2>2. CASE v = w
    <3>1. ASSUME d \notin due[w] PROVE cli[d].pc # "start"
      <4>1. RecvMsg(w)
        BY <2>2, <3>1, WorkerPlace
      <4>2. d \in Members
        BY <1>0, <2>2, <4>1 DEF RecvMsg
      <4> QED BY <1>0, <4>2 DEF Members, Honest, EntryType
    <3> QED BY <2>2, <3>1, WorkerPlace DEF Addressed
  <2> QED BY <2>1, <2>2
<1> QED BY <1>1, <1>2, <1>3

(* Whom RecvMsg finds online has a worker, or main is about to create it.  *)
LEMMA MembersHeld ==
  ASSUME TypeInv, Sessions, NEW d \in Members
  PROVE  \E s \in Slots : client[s].online /\ Holds(d, s)
<1>1. PICK s \in Slots : /\ Online(s) /\ ~BeingFilled(s) /\ ~BeingLeft(s)
                        /\ fdt[client[s].fd] = d
  BY DEF Members
<1>2. client[s].online /\ d \in Conns
  BY <1>1 DEF Online, Members
<1>3. CASE Filling(s)
  <2>1. main.pc = "spawn" /\ s = sub
    BY <1>1, <1>3 DEF Filling, BeingFilled
  <2>2. main.conn = d
    BY <1>1, <2>1 DEF Sessions, Allocating, MainOwns
  <2> QED BY <1>2, <2>1, <2>2 DEF Holds
<1>4. CASE ~Filling(s)
  <2>1. PICK w \in Conns : Standing(w) /\ handed[w] = s
    BY <1>2, <1>4 DEF Sessions, SomeOwner
  <2>2. Owns(w)
    BY <2>1 DEF Sessions, AllOwn
  <2>3. thr[w].pc # "offline"
    BY <1>1, <2>1, <2>2 DEF Owns, BeingLeft
  <2>4. w = d
    BY <1>1, <2>1, <2>2, <2>3 DEF Owns
  <2> QED BY <1>2, <2>1, <2>3, <2>4 DEF Holds
<1> QED BY <1>3, <1>4

(* What the loop sends at the entry a user holds reaches the user.         *)
LEMMA SendReaches ==
  ASSUME "text" \in Recorded, TypeInv, Honest, Sessions, NEW d \in Conns, peer[d],
         NEW s \in Slots, Holds(d, s), NEW m \in Msg, m.body[1] = "text",
         chat_send(m, client[s].fd)
  PROVE  m \in got'[d]
<1>0. got \in [Conns -> SUBSET Msg] /\ None \notin Conns /\ Stdin \notin Conns
  BY NetAssumption DEF TypeInv, NetTypeOK
<1>1. fdt[client[s].fd] = d
  <2>1. CASE Standing(d) /\ handed[d] = s /\ thr[d].pc # "offline"
    BY <2>1 DEF Sessions, AllOwn, Owns
  <2>2. CASE main.pc = "spawn" /\ main.conn = d /\ sub = s
    BY <2>2 DEF Sessions, Allocating, MainOwns
  <2> QED BY <2>1, <2>2 DEF Holds
<1>2. ~rst[d]
  BY DEF Honest
<1>3. got' = [got EXCEPT ![d] = @ \cup {m}]
  BY <1>1, <1>2 DEF chat_send
<1> QED BY <1>0, <1>3

LEMMA WorkerDelivers ==
  ASSUME "text" \in Recorded, SessionInv, TextsPublic, AtZero, Addressed, Sessions, Reaching,
         NEW w \in Conns, work(w), UNCHANGED cli, Sessions'
  PROVE  Reaching'
<1>0. /\ TypeInv /\ Honest
      /\ due \in [Conns -> SUBSET Conns] /\ thr \in [Conns -> WorkType] /\ WorkOK(thr[w])
      /\ got \in [Conns -> SUBSET Msg] /\ client \in [Cells -> EntryType] /\ Slots \subseteq Cells
      /\ UNCHANGED <<main, sub, handed, peer>>
      /\ \A v \in Conns \ {w} : thr'[v] = thr[v]
  BY WorkerEffects, Zeros DEF SessionInv, TypeInv, NetTypeOK
<1>1. CASE SetOffline(w)
  BY <1>1 DEF SetOffline, Reaching
<1>2. CASE ~SetOffline(w)
  <2>1. client' = client
    BY <1>0, <1>2, WorkerMoves DEF CountDown
  <2>2. \A d \in Conns : got[d] \subseteq got'[d]
    <3>1. CASE SendOne(w)
      BY <1>0, <3>1, SendGot DEF SendOne
    <3>2. CASE TellOffline(w)
      BY <1>0, <3>2, SendGot DEF TellOffline
    <3>3. CASE ~SendOne(w) /\ ~TellOffline(w)
      BY <1>2, <3>3 DEF work, ReadSub, ReadFd, CallRecv, RecvMsg, RecvEnd, send_all, check_name,
                  CloseFd, CountDown, netVars
    <3> QED BY <3>1, <3>2, <3>3
  <2>3. \A d \in Conns : peer'[d] => \A s \in Slots : Holds(d, s) => Holds(d, s)'
    <3> SUFFICES ASSUME NEW d \in Conns, peer'[d], NEW s \in Slots, Holds(d, s)
                 PROVE  Holds(d, s)'
      OBVIOUS
    <3>1. CASE main.pc = "spawn" /\ main.conn = d /\ sub = s
      BY <1>0, <3>1 DEF Holds
    <3>2. CASE d # w /\ Standing(d) /\ handed[d] = s /\ thr[d].pc # "offline"
      BY <1>0, <3>2 DEF Holds, Standing
    <3>3. CASE d = w /\ Standing(d) /\ handed[d] = s
      <4>1. ~CountDown(w)
        BY <3>3 DEF CountDown, Standing
      <4>2. Standing(w)'
        BY <1>0, <1>2, <4>1, WorkerMoves
      <4>3. thr'[w].pc # "offline"
        BY <3>3, <4>2 DEF Sessions, AllOwn, Owns
      <4> QED BY <1>0, <3>3, <4>2, <4>3 DEF Holds
    <3> QED BY <3>1, <3>2, <3>3 DEF Holds
  <2> SUFFICES ASSUME NEW v \in Conns, NEW d \in due'[v] PROVE Reached(v, d)'
    BY DEF Reaching
  <2>4. ASSUME d \in due[v], thr'[v].i = thr[v].i, thr'[v].msg = thr[v].msg PROVE Reached(v, d)'
    <3>1. d \in Conns /\ Reached(v, d)
      BY <1>0, <2>4 DEF Reaching
    <3> QED BY <1>0, <2>1, <2>2, <2>3, <2>4, <3>1, KeepReached
  <2>5. CASE v # w
    BY <1>0, <2>4, <2>5, DueOf
  <2>6. CASE v = w /\ RecvMsg(w)
    <3> DEFINE m == Head(up[thr[w].sock])
               pc == CASE m.head.flag = 0 -> "all" [] m.head.flag = 1 -> "who" [] OTHER -> "recv"
    <3>1. /\ thr' = [thr EXCEPT ![w].sock = None, ![w].msg = m, ![w].pc = pc]
          /\ thr[w].pc = "block"
      BY <2>6 DEF RecvMsg
    <3>2. thr'[w].i = 0
      <4> HIDE DEF m, pc
      <4>1. thr'[w].i = thr[w].i
        BY <1>0, <3>1 DEF WorkType
      <4> QED BY <3>1, <4>1 DEF AtZero
    <3>3. d \in Members /\ NoGap
      BY <1>0, <2>6 DEF RecvMsg
    <3>4. PICK s \in Slots : client[s].online /\ Holds(d, s)
      BY <1>0, <3>3, MembersHeld
    <3>5. Prefix(s)' /\ s >= 0
      BY <2>1, <3>3, <3>4, Sizes DEF NoGap, Online, Prefix, Slots
    <3>6. peer'[d] => Holds(d, s)'
      BY <2>3, <3>3, <3>4 DEF Members
    <3> QED BY <2>6, <3>2, <3>5, <3>6 DEF Reached, Ahead
  <2>7. CASE v = w /\ ~RecvMsg(w)
    <3>1. d \in due[w] /\ d \in Conns /\ Reached(w, d)
      BY <1>0, <2>7, WorkerPlace DEF SessionInv, Reaching
    <3>2. thr[w].pc \in {"all", "send"} /\ thr[w].msg.head.flag = 0 /\ thr[w].msg.body[1] = "text"
      BY <3>1 DEF Addressed
    <3>3. ~Served(w)
      BY <1>0, <2>7 DEF Served
    <3>4. ASSUME \/ thr' = [thr EXCEPT ![w].i = @ + 1]
                 \/ thr' = [thr EXCEPT ![w].pc = "all", ![w].i = @ + 1]
          PROVE  thr'[w].i = thr[w].i + 1 /\ thr'[w].msg = thr[w].msg
      BY <1>0, <3>4 DEF WorkType
    <3>5. ASSUME thr'[w].i = thr[w].i + 1, thr'[w].msg = thr[w].msg,
                 \A s \in Slots : peer[d] /\ s = thr[w].i /\ Prefix(s) /\ Holds(d, s) =>
                                    thr[w].msg \in got'[d]
          PROVE  Reached(w, d)'
      <4> SUFFICES ASSUME peer'[d], thr[w].msg \notin got'[d] PROVE Ahead(w, d)'
        BY <3>5 DEF Reached
      <4>1. peer[d] /\ thr[w].msg \notin got[d]
        BY <1>0, <2>2, <3>1
      <4>2. PICK s \in Slots : s >= thr[w].i /\ Prefix(s) /\ Holds(d, s)
        BY <3>1, <4>1 DEF Reached, Ahead
      <4>3. s # thr[w].i
        BY <3>5, <4>1, <4>2
      <4>4. s \in Int /\ thr[w].i \in Int
        BY <1>0, Sizes DEF WorkType, Slots
      <4>5. s >= thr'[w].i
        BY <3>5, <4>2, <4>3, <4>4
      <4>6. Prefix(s)' /\ Holds(d, s)'
        BY <2>1, <2>3, <3>1, <4>2 DEF Prefix
      <4> QED BY <4>5, <4>6 DEF Ahead
    <3>6. CASE send_all(w)
      <4>1. CASE Goto(w, "send")
        BY <1>0, <2>4, <2>7, <3>1, <4>1 DEF Goto, WorkType
      <4>2. CASE ~Online(thr[w].i) /\ thr' = [thr EXCEPT ![w].i = @ + 1]
        BY <3>4, <3>5, <4>2, <2>7, Sizes DEF Prefix, Online, Slots
      <4> QED BY <3>3, <3>6, <4>1, <4>2 DEF send_all
    <3>7. CASE SendOne(w)
      <4>1. /\ chat_send(thr[w].msg, client[thr[w].i].fd)
            /\ thr' = [thr EXCEPT ![w].pc = "all", ![w].i = @ + 1]
        BY <3>2, <3>3, <3>7 DEF SendOne
      <4>2. thr[w].msg \in Msg
        BY <1>0 DEF WorkType
      <4>3. \A s \in Slots : peer[d] /\ s = thr[w].i /\ Holds(d, s) => thr[w].msg \in got'[d]
        BY <1>0, <3>1, <3>2, <4>1, <4>2, SendReaches
      <4> QED BY <2>7, <3>4, <3>5, <4>1, <4>3
    <3> QED
      BY <1>2, <2>7, <3>2, <3>3, <3>6, <3>7 DEF work, ReadSub, ReadFd, CallRecv, RecvEnd, check_name,
         TellOffline, CloseFd, CountDown
  <2> QED BY <2>5, <2>6, <2>7
<1> QED BY <1>1, <1>2

LEMMA StepDelivery ==
  ASSUME "text" \in Recorded, DeliveryInv, [Next]_vars
  PROVE  DeliveryInv'
<1>0. SumInv /\ SessionInv /\ TypeInv /\ Honest /\ TextsPublic /\ AtZero /\ Addressed
      /\ (intact => Sessions /\ Reaching)
  BY DEF DeliveryInv, SumInv, SessionInv
<1>1. SumInv' /\ SessionInv' /\ (intact' => Sessions')
  BY <1>0, StepSum, StepSessions DEF SessionInv
<1>2. CASE Main /\ UNCHANGED cli
  BY <1>0, <1>1, <1>2, MainDelivers DEF DeliveryInv
<1>3. ASSUME NEW w \in Conns, work(w), UNCHANGED cli PROVE DeliveryInv'
  <2>1. TextsPublic' /\ AtZero' /\ Addressed'
    BY <1>0, <1>3, WorkerMail
  <2>2. intact' => Reaching'
    BY <1>0, <1>1, <1>3, WorkerEffects, WorkerDelivers
  <2> QED BY <1>1, <2>1, <2>2 DEF DeliveryInv
<1>4. CASE Client
  BY <1>0, <1>1, <1>4, ClientDelivers DEF DeliveryInv
<1>5. CASE UNCHANGED vars
  <2>1. TextsPublic' /\ AtZero' /\ Addressed'
    BY <1>0, <1>5 DEF vars, netVars, serverVars, TextsPublic, AtZero, Addressed
  <2>2. intact' => Reaching'
    BY <1>0, <1>5 DEF vars, netVars, serverVars, Reaching, Reached, Ahead, Holds, Prefix, Standing
  <2> QED BY <1>1, <2>1, <2>2 DEF DeliveryInv
<1> QED BY <1>2, <1>3, <1>4, <1>5 DEF Next, ServerNext

(* The loop does not end before the entry of a user it still has to reach: *)
(* with this entry and those before it online, sum is larger than it.      *)
LEMMA LoopPasses == DeliveryInv => PublicReaches
<1> SUFFICES ASSUME DeliveryInv, intact, counted, NEW w \in Conns, thr[w].i >= sum,
                    NEW d \in due[w], peer[d], thr[w].msg \notin got[d]
             PROVE  FALSE
  BY DEF PublicReaches
<1>1. PICK s \in Slots : s >= thr[w].i /\ Prefix(s)
  BY DEF DeliveryInv, Reaching, Reached, Ahead
<1>2. /\ IsFiniteSet(OnlineSet) /\ Cardinality(OnlineSet) \in Nat
      /\ Cardinality(LeavingSet) \in Nat /\ Joining \in {0, 1}
      /\ sum = Cardinality(OnlineSet) + Cardinality(LeavingSet) + Joining
  BY SumIs DEF DeliveryInv, SumInv, Joining
<1>3. s \in Nat /\ thr[w].i \in Nat /\ sum \in Int
  BY Sizes DEF DeliveryInv, SumInv, SessionInv, TypeInv, WorkType, Slots
<1>4. 0 .. s \subseteq OnlineSet
  BY <1>1, <1>3, Sizes DEF Prefix, OnlineSet, Online, Slots
<1>5. IsFiniteSet(0 .. s) /\ Cardinality(0 .. s) = s + 1
  BY <1>3, FS_Interval
<1>6. s + 1 <= Cardinality(OnlineSet)
  BY <1>2, <1>4, <1>5, FS_Subset
<1> QED BY <1>1, <1>2, <1>3, <1>6

(* On these conditions a public message reaches everyone online who can be *)
(* reached (server/server.c:26-32): no login in between makes the loop of  *)
(* send_all end early, and no entry it sends to is another user's.         *)
THEOREM PublicReached ==
  ASSUME "text" \in Recorded
  PROVE  Spec => []PublicReaches
<1>1. Init => DeliveryInv
  BY InitSum, InitDelivery DEF DeliveryInv
<1>2. DeliveryInv /\ [Next]_vars => DeliveryInv'
  BY StepDelivery
<1>3. DeliveryInv => PublicReaches
  BY LoopPasses
<1> QED BY <1>1, <1>2, <1>3, PTL DEF Spec
=============================================================================
