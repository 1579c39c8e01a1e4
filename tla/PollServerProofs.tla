-------------------------- MODULE PollServerProofs --------------------------
(***************************************************************************)
(* Proofs about the poll server, for any number of clients, descriptors    *)
(* and entries: its types, that entries and open connections stay in step, *)
(* that a round serves everything that was ready, and that what a client   *)
(* sends is answered byte for byte.                                        *)
(***************************************************************************)
EXTENDS PollServer, FiniteSetTheorems, SequenceTheorems, TLAPS

(* What a client's connection says of its history.                         *)
Honest == \A c \in Conns : unread[c] <= said[c] /\ (rst[c] => peer[c] = "closed")

(* The entries this round has looked at are those before the next one.     *)
Upcoming == IF main.pc = "send" THEN main.i + 1 ELSE main.i

(* retval counts what is left to serve, and that is what poll() found      *)
(* ready among the entries that come.                                      *)
RetvalCounts ==
  /\ main.pc = "accept" => backlog # <<>> /\ main.retval = Cardinality(todo) + 1
  /\ main.pc \in {"scan", "send"} => main.retval = Cardinality(todo)
  /\ main.pc = "send" => main.i \in Entries /\ event_set[main.i] # 0
  /\ main.pc # "poll" => \A j \in Entries :
       /\ j \in todo <=> j \in revents /\ j >= Upcoming
       /\ j \in todo => event_set[j] # 0

(* EchoExact, for clients that have not connected yet too.                 *)
EchoSoFar ==
  \A c \in Conns :
    peer[c] # "closed" /\ c \notin filled => echoed[c] + InHand(c) + unread[c] = said[c]

PollInv == TypeOK /\ Honest /\ EntriesExact /\ RetvalCounts /\ EchoSoFar

LEMMA EntriesFinite == IsFiniteSet(Entries) /\ Cardinality(Entries) = PollSize - 1
BY FS_Interval, PollAssumption DEF Entries

LEMMA TodoFinite ==
  ASSUME NEW S \in SUBSET Entries
  PROVE  IsFiniteSet(S) /\ Cardinality(S) \in 0 .. PollSize - 1
<1>1. IsFiniteSet(S) /\ Cardinality(S) \in Nat /\ Cardinality(S) <= PollSize - 1
  BY EntriesFinite, FS_Subset, FS_CardinalityType
<1> QED BY <1>1, PollAssumption

LEMMA TodoCount ==
  ASSUME TypeOK
  PROVE  todo \in SUBSET Entries /\ IsFiniteSet(todo) /\ Cardinality(todo) \in 0 .. PollSize - 1
<1>1. todo \in SUBSET Entries
  BY DEF TypeOK
<1> QED BY <1>1, TodoFinite

(* The number poll() returns: the listener is one more.                    *)
LEMMA FoundCount ==
  ASSUME NEW S, S \ {0} \in SUBSET Entries
  PROVE  /\ Cardinality(S) \in 0 .. PollSize
         /\ Cardinality(S) = IF 0 \in S THEN Cardinality(S \ {0}) + 1 ELSE Cardinality(S \ {0})
<1>1. IsFiniteSet(S \ {0}) /\ Cardinality(S \ {0}) \in 0 .. PollSize - 1
  BY TodoFinite
<1>2. CASE 0 \in S
  <2>1. S = (S \ {0}) \cup {0}
    BY <1>2
  <2>2. Cardinality((S \ {0}) \cup {0}) = Cardinality(S \ {0}) + 1
    BY <1>1, FS_AddElement
  <2>3. Cardinality(S) = Cardinality(S \ {0}) + 1
    BY <2>1, <2>2
  <2> QED BY <1>1, <1>2, <2>3, PollAssumption
<1>3. CASE 0 \notin S
  <2>1. S \ {0} = S
    BY <1>3
  <2> QED BY <1>1, <1>3, <2>1, PollAssumption
<1> QED BY <1>2, <1>3

(* Serving an entry that was ready takes one off what is left.             *)
LEMMA OneLess ==
  ASSUME NEW S \in SUBSET Entries, NEW i \in S
  PROVE  Cardinality(S \ {i}) = Cardinality(S) - 1
BY TodoFinite, FS_RemoveElement

LEMMA NothingLeft ==
  ASSUME NEW S \in SUBSET Entries, Cardinality(S) <= 0
  PROVE  S = {}
<1>1. Cardinality(S) = 0
  BY TodoFinite
<1> QED BY <1>1, TodoFinite, FS_EmptySet

(* The entry that is served is one the round has not looked at.            *)
LEMMA ServedIsTodo ==
  ASSUME TypeOK, RetvalCounts, NEW i \in Entries, IsServed(i)
  PROVE  /\ i \in todo /\ main.retval = Cardinality(todo)
         /\ Cardinality(todo \ {i}) = main.retval - 1
         /\ todo \ {i} \in SUBSET Entries
         /\ main.retval - 1 \in 0 .. PollSize
<1>1. i \in todo /\ main.retval = Cardinality(todo)
  BY DEF TypeOK, RetvalCounts, IsServed, Upcoming, Entries
<1>2. todo \in SUBSET Entries /\ todo \ {i} \in SUBSET Entries
  BY DEF TypeOK
<1>3. Cardinality(todo \ {i}) = main.retval - 1
  BY <1>1, <1>2, OneLess
<1>4. Cardinality(todo \ {i}) \in 0 .. PollSize - 1
  BY <1>2, TodoFinite
<1>5. main.retval - 1 \in 0 .. PollSize
  BY <1>3, <1>4, PollAssumption
<1> QED BY <1>1, <1>2, <1>3, <1>5

(* The connection of an entry in use.                                      *)
LEMMA InUse ==
  ASSUME TypeOK, EntriesExact, NEW i \in Entries, event_set[i] # 0
  PROVE  event_set[i] \in Fds /\ ConnOf(i) \in Conns /\ ConnOf(i) = fdt[event_set[i]]
BY DEF TypeOK, EntriesExact, ConnOf

LEMMA InitPoll == Init => PollInv
<1> SUFFICES ASSUME Init PROVE PollInv
  OBVIOUS
<1>1. TypeOK
  BY PollAssumption DEF Init, TypeOK, MainPcs
<1>2. Honest /\ EntriesExact /\ RetvalCounts /\ EchoSoFar
  BY PollAssumption DEF Init, Honest, EntriesExact, RetvalCounts, EchoSoFar, InHand
<1> QED BY <1>1, <1>2 DEF PollInv

-----------------------------------------------------------------------------
(* Types.                                                                  *)

(* What a round goes on with is a state of the program counter.            *)
LEMMA AfterType ==
  ASSUME TypeOK, NEW r \in 0 .. PollSize, main.i \in Entries
  PROVE  After(r) \in [pc : MainPcs, retval : 0 .. PollSize, i : 1 .. PollSize, n : 0 .. BuffSize + 1]
BY PollAssumption DEF After, Polling, TypeOK, MainPcs, Entries

LEMMA StepType ==
  ASSUME PollInv, [Next]_vars
  PROVE  TypeOK'
<1> USE PollAssumption DEF PollInv
<1>1. CASE poll
  <2> DEFINE found == {i \in Entries : event_set[i] # 0 /\ Ready(ConnOf(i))}
                        \cup (IF backlog # <<>> THEN {0} ELSE {})
  <2>1. found \ {0} \in SUBSET Entries /\ found \in SUBSET ({0} \cup Entries)
    BY DEF Entries
  <2>4. Cardinality(found) \in 0 .. PollSize
    BY <2>1, FoundCount
  <2>5. revents' = found /\ todo' = found \ {0}
        /\ main' = [pc |-> IF 0 \in found THEN "accept" ELSE "scan",
                    retval |-> Cardinality(found), i |-> 1, n |-> 0]
    BY <1>1 DEF poll
  <2> HIDE DEF found
  <2>6. main' \in [pc : MainPcs, retval : 0 .. PollSize, i : 1 .. PollSize, n : 0 .. BuffSize + 1]
    BY <2>4, <2>5 DEF MainPcs
  <2> QED BY <1>1, <2>1, <2>5, <2>6 DEF poll, TypeOK, clientVars, echoVars
<1>2. CASE accept
  <2>1. Head(backlog) \in Conns /\ Tail(backlog) \in Seq(Conns)
    BY <1>2 DEF accept, RetvalCounts, TypeOK
  <2>2. main.retval - 1 \in 0 .. PollSize
    BY <1>2, TodoCount DEF accept, RetvalCounts
  <2>3. main' \in [pc : MainPcs, retval : 0 .. PollSize, i : 1 .. PollSize, n : 0 .. BuffSize + 1]
    BY <1>2, <2>2 DEF accept, Scanning, TypeOK, MainPcs
  <2>4. fdt' \in [Fds -> Conns \cup {None}] /\ event_set' \in [Entries -> Fds \cup {0}]
    <3>1. PICK n \in Fds :
            \/ \E i \in Entries : /\ event_set' = [event_set EXCEPT ![i] = n]
                                 /\ fdt' = [fdt EXCEPT ![n] = Head(backlog)]
            \/ UNCHANGED <<event_set, fdt>>
      BY <1>2 DEF accept
    <3>2. ASSUME NEW i \in Entries, event_set' = [event_set EXCEPT ![i] = n],
                 fdt' = [fdt EXCEPT ![n] = Head(backlog)]
          PROVE  fdt' \in [Fds -> Conns \cup {None}] /\ event_set' \in [Entries -> Fds \cup {0}]
      <4>1. fdt' \in [Fds -> Conns \cup {None}]
        BY <2>1, <3>2 DEF TypeOK
      <4>2. event_set' \in [Entries -> Fds \cup {0}]
        BY <3>2 DEF TypeOK
      <4> QED BY <4>1, <4>2
    <3> QED BY <3>1, <3>2 DEF TypeOK
  <2> QED BY <1>2, <2>1, <2>3, <2>4 DEF accept, TypeOK, clientVars, echoVars
<1>3. CASE AcceptFails
  <2>1. main' \in [pc : MainPcs, retval : 0 .. PollSize, i : 1 .. PollSize, n : 0 .. BuffSize + 1]
    <3>1. 0 \in 0 .. PollSize /\ 1 \in 1 .. PollSize /\ "poll" \in MainPcs
      BY DEF MainPcs
    <3>2. main.n \in 0 .. BuffSize + 1
      BY DEF TypeOK
    <3>3. main' = [pc |-> "poll", retval |-> 0, i |-> 1, n |-> main.n]
      BY <1>3 DEF AcceptFails, TypeOK
    <3> QED BY <3>1, <3>2, <3>3
  <2> QED BY <1>3, <2>1 DEF AcceptFails, TypeOK, clientVars, echoVars
<1>4. CASE Skip
  <2>1. main' \in [pc : MainPcs, retval : 0 .. PollSize, i : 1 .. PollSize, n : 0 .. BuffSize + 1]
    <3>1. main.retval \in 0 .. PollSize
      BY DEF TypeOK
    <3>2. CASE main' = After(main.retval) /\ main.i \in Entries
      BY <3>1, <3>2, AfterType
    <3>3. CASE main' = Polling
      BY <3>3 DEF Polling, MainPcs
    <3>4. CASE main' = [main EXCEPT !.i = @ + 1] /\ main.i \in Entries
      <4>1. main.i + 1 \in 1 .. PollSize
        BY <3>4 DEF Entries
      <4> QED BY <3>4, <4>1 DEF TypeOK
    <3> QED BY <1>4, <3>2, <3>3, <3>4 DEF Skip
  <2> QED BY <1>4, <2>1 DEF Skip, TypeOK, clientVars, echoVars
<1>5. CASE \E i \in Entries : Recv(i)
  <2>1. PICK i \in Entries : Recv(i)
    BY <1>5
  <2>2. IsServed(i) /\ event_set[i] # 0
    BY <2>1 DEF Recv, IsServed
  <2>3. ConnOf(i) \in Conns
    BY <2>2, InUse
  <2> DEFINE k == Least(unread[ConnOf(i)], BuffSize)
  <2>a. unread[ConnOf(i)] \in 0 .. MaxSay
    BY <2>3 DEF TypeOK
  <2>4. k \in 0 .. BuffSize /\ k <= unread[ConnOf(i)]
    BY <2>a DEF Least
  <2>5. unread' = [unread EXCEPT ![ConnOf(i)] = @ - k] /\ todo' = todo \ {i}
        /\ filled' = IF k < BuffSize THEN filled ELSE filled \cup {ConnOf(i)}
    BY <2>1 DEF Recv
  <2>6. PICK n \in {k, k + 1} :
          /\ n \in (IF k < BuffSize THEN {k} ELSE {k, k + 1})
          /\ main' = [main EXCEPT !.pc = "send", !.retval = @ - 1, !.n = n]
    BY <2>1 DEF Recv
  <2> HIDE DEF k
  <2>7. main.retval - 1 \in 0 .. PollSize
    BY <2>2, ServedIsTodo
  <2>8. main' \in [pc : MainPcs, retval : 0 .. PollSize, i : 1 .. PollSize, n : 0 .. BuffSize + 1]
    <3>1. n \in 0 .. BuffSize + 1
      BY <2>4, <2>6
    <3> QED BY <2>6, <2>7, <3>1 DEF TypeOK, MainPcs
  <2>9. unread' \in [Conns -> 0 .. MaxSay]
    BY <2>a, <2>3, <2>4, <2>5 DEF TypeOK
  <2> QED BY <2>1, <2>3, <2>5, <2>8, <2>9 DEF Recv, TypeOK, clientVars, echoVars
<1>6. CASE \E i \in Entries : Logout(i)
  <2>1. PICK i \in Entries : Logout(i)
    BY <1>6
  <2>2. IsServed(i) /\ event_set[i] # 0 /\ main.i \in Entries
    BY <2>1 DEF Logout, IsServed
  <2>3. main.retval - 1 \in 0 .. PollSize
    BY <2>2, ServedIsTodo
  <2>4. main' \in [pc : MainPcs, retval : 0 .. PollSize, i : 1 .. PollSize, n : 0 .. BuffSize + 1]
    BY <2>1, <2>2, <2>3, AfterType DEF Logout
  <2> QED BY <2>1, <2>4 DEF Logout, TypeOK, clientVars, echoVars
<1>7. CASE \E i \in Entries : Send(i)
  <2>1. PICK i \in Entries : Send(i)
    BY <1>7
  <2>2. main.i \in Entries /\ ConnOf(i) \in Conns
    BY <2>1, InUse DEF Send, RetvalCounts
  <2>3. main' \in [pc : MainPcs, retval : 0 .. PollSize, i : 1 .. PollSize, n : 0 .. BuffSize + 1]
    <3>1. main' = After(main.retval) /\ main.retval \in 0 .. PollSize
      BY <2>1 DEF Send, TypeOK
    <3> QED BY <2>2, <3>1, AfterType
  <2>4. /\ alive' \in BOOLEAN
        /\ echo' \in [Conns -> 0 .. Window]
        /\ echoed' \in [Conns -> Nat]
        /\ rst' \in [Conns -> BOOLEAN]
    <3>a. main.n \in 0 .. BuffSize + 1 /\ echo[ConnOf(i)] \in 0 .. Window /\ echoed[ConnOf(i)] \in Nat
      BY <2>2 DEF TypeOK
    <3>1. main.n \in Nat /\ echo[ConnOf(i)] + main.n \in Nat /\ echoed[ConnOf(i)] + main.n \in Nat
      BY <3>a
    <3>2. CASE /\ echo[ConnOf(i)] + main.n <= Window
               /\ echo' = [echo EXCEPT ![ConnOf(i)] = @ + main.n]
               /\ echoed' = [echoed EXCEPT ![ConnOf(i)] = @ + main.n]
               /\ UNCHANGED <<alive, rst>>
      <4>1. echo[ConnOf(i)] + main.n \in 0 .. Window
        BY <3>1, <3>2
      <4>2. echo' \in [Conns -> 0 .. Window]
        BY <2>2, <3>2, <4>1 DEF TypeOK
      <4>3. echoed' \in [Conns -> Nat]
        BY <2>2, <3>1, <3>2 DEF TypeOK
      <4> QED BY <3>2, <4>2, <4>3 DEF TypeOK
    <3>3. CASE UNCHANGED echoVars /\ (alive' = alive \/ alive' = FALSE)
               /\ (rst' = rst \/ rst' = [rst EXCEPT ![ConnOf(i)] = TRUE])
      BY <2>2, <3>3 DEF TypeOK, echoVars
    <3> QED BY <2>1, <3>2, <3>3 DEF Send
  <2>5. UNCHANGED <<backlog, fdt, clientVars, unread, event_set, revents, todo, filled>>
    BY <2>1 DEF Send
  <2> QED BY <2>3, <2>4, <2>5 DEF TypeOK, clientVars
<1>8. CASE \E c \in Conns : Client(c)
  <2>1. PICK c \in Conns : Client(c)
    BY <1>8
  <2>2. CASE Connect(c)
    <3>1. peer' \in [Conns -> {"none", "open", "closed"}] /\ backlog' \in Seq(Conns)
      BY <2>2 DEF Connect, TypeOK
    <3> QED BY <2>2, <3>1 DEF Connect, TypeOK, echoVars
  <2>3. CASE Say(c)
    <3>1. PICK k \in 1 .. MaxSay - said[c] :
            /\ said' = [said EXCEPT ![c] = @ + k]
            /\ unread' = [unread EXCEPT ![c] = @ + k]
      BY <2>3 DEF Say
    <3>a. said[c] \in 0 .. MaxSay /\ unread[c] \in 0 .. MaxSay /\ unread[c] <= said[c]
      BY DEF TypeOK, Honest
    <3>2. said[c] + k \in 0 .. MaxSay /\ unread[c] + k \in 0 .. MaxSay
      BY <3>a
    <3>3. said' \in [Conns -> 0 .. MaxSay] /\ unread' \in [Conns -> 0 .. MaxSay]
      BY <3>1, <3>2 DEF TypeOK
    <3> QED BY <2>3, <3>3 DEF Say, TypeOK, echoVars
  <2>4. CASE Collect(c)
    <3>1. echo' \in [Conns -> 0 .. Window]
      BY <2>4 DEF Collect, TypeOK
    <3> QED BY <2>4, <3>1 DEF Collect, TypeOK, clientVars
  <2>5. CASE Leave(c)
    BY <2>5 DEF Leave, TypeOK, echoVars
  <2> QED BY <2>1, <2>2, <2>3, <2>4, <2>5 DEF Client
<1>9. CASE UNCHANGED vars
  BY <1>9 DEF vars, TypeOK
<1> QED BY <1>1, <1>2, <1>3, <1>4, <1>5, <1>6, <1>7, <1>8, <1>9 DEF Next, Main

-----------------------------------------------------------------------------
(* Entries and descriptors.                                                *)

LEMMA StepHonest ==
  ASSUME PollInv, [Next]_vars
  PROVE  Honest'
<1> USE DEF PollInv
<1>1. CASE \E i \in Entries : Recv(i)
  <2>1. PICK i \in Entries : Recv(i)
    BY <1>1
  <2>2. IsServed(i) /\ event_set[i] # 0
    BY <2>1 DEF Recv, IsServed
  <2>3. ConnOf(i) \in Conns
    BY <2>2, InUse
  <2> DEFINE k == Least(unread[ConnOf(i)], BuffSize)
  <2>4. unread[ConnOf(i)] \in Nat /\ said[ConnOf(i)] \in Nat
    BY <2>3 DEF TypeOK
  <2>5. unread' = [unread EXCEPT ![ConnOf(i)] = @ - k] /\ UNCHANGED <<said, rst, peer>>
    BY <2>1 DEF Recv, clientVars
  <2>6. k \in Nat
    BY <2>4, PollAssumption DEF Least
  <2> HIDE DEF k
  <2> QED BY <2>3, <2>4, <2>5, <2>6 DEF Honest, TypeOK
<1>2. CASE \E i \in Entries : Send(i)
  <2>1. PICK i \in Entries : Send(i)
    BY <1>2
  <2>2. UNCHANGED <<unread, said, peer>>
    BY <2>1 DEF Send, clientVars
  <2>3. rst' = rst \/ (peer[ConnOf(i)] = "closed" /\ rst' = [rst EXCEPT ![ConnOf(i)] = TRUE])
    BY <2>1 DEF Send
  <2> QED BY <2>2, <2>3 DEF Honest, TypeOK
<1>3. CASE \E c \in Conns : Client(c)
  <2>1. PICK c \in Conns : Client(c)
    BY <1>3
  <2>2. CASE Connect(c)
    BY <2>2 DEF Connect, Honest, TypeOK
  <2>3. CASE Say(c)
    <3>1. PICK k \in 1 .. MaxSay - said[c] :
            /\ said' = [said EXCEPT ![c] = @ + k]
            /\ unread' = [unread EXCEPT ![c] = @ + k]
      BY <2>3 DEF Say
    <3>2. said[c] \in Nat /\ unread[c] \in Nat /\ k \in Nat
      BY PollAssumption DEF TypeOK
    <3>3. /\ said'[c] = said[c] + k /\ unread'[c] = unread[c] + k
          /\ \A d \in Conns \ {c} : said'[d] = said[d] /\ unread'[d] = unread[d]
      BY <3>1 DEF TypeOK
    <3>4. UNCHANGED <<peer, rst>> /\ peer[c] = "open"
      BY <2>3 DEF Say
    <3> QED BY <3>2, <3>3, <3>4 DEF Honest
  <2>4. CASE Collect(c)
    BY <2>4 DEF Collect, Honest, clientVars
  <2>5. CASE Leave(c)
    BY <2>5 DEF Leave, Honest, TypeOK
  <2> QED BY <2>1, <2>2, <2>3, <2>4, <2>5 DEF Client
<1>4. CASE UNCHANGED <<unread, said, rst, peer>>
  BY <1>4 DEF Honest
<1> QED BY <1>1, <1>2, <1>3, <1>4
        DEF Next, Main, poll, accept, AcceptFails, Skip, Logout, clientVars, vars

LEMMA StepEntries ==
  ASSUME PollInv, [Next]_vars
  PROVE  EntriesExact'
<1> USE DEF PollInv
<1>1. CASE accept
  <2>1. PICK n \in Fds :
          /\ fdt[n] = None
          /\ \/ \E i \in Entries : /\ event_set[i] = 0
                                  /\ event_set' = [event_set EXCEPT ![i] = n]
                                  /\ fdt' = [fdt EXCEPT ![n] = Head(backlog)]
             \/ UNCHANGED <<event_set, fdt>>
    BY <1>1 DEF accept, Opens
  <2>2. CASE UNCHANGED <<event_set, fdt>>
    BY <2>2 DEF EntriesExact, ConnOf
  <2>3. ASSUME NEW i \in Entries, event_set[i] = 0,
               event_set' = [event_set EXCEPT ![i] = n], fdt' = [fdt EXCEPT ![n] = Head(backlog)]
        PROVE  EntriesExact'
    <3>1. Head(backlog) # None
      <4>1. main.pc = "accept"
        BY <1>1 DEF accept
      <4>2. backlog # <<>> /\ backlog \in Seq(Conns)
        BY <4>1 DEF RetvalCounts, TypeOK
      <4>3. Head(backlog) \in Conns
        BY <4>2, HeadTailProperties
      <4> QED BY <4>3, PollAssumption
    <3>2. n # 0 /\ \A j \in Entries : event_set[j] # n
      BY <2>1 DEF EntriesExact, ConnOf, Fds
    <3>3. /\ event_set'[i] = n /\ \A j \in Entries \ {i} : event_set'[j] = event_set[j]
          /\ fdt'[n] # None /\ \A m \in Fds \ {n} : fdt'[m] = fdt[m]
      BY <2>3, <3>1 DEF TypeOK
    <3>4. \A m \in Fds : fdt'[m] # None => \E j \in Entries : event_set'[j] = m
      <4>1. ASSUME NEW m \in Fds, fdt'[m] # None, m # n
            PROVE  \E j \in Entries : event_set'[j] = m
        <5>1. PICK j \in Entries : event_set[j] = m
          BY <3>3, <4>1 DEF EntriesExact
        <5>2. j # i
          BY <2>3, <5>1 DEF Fds
        <5> QED BY <3>3, <5>1, <5>2
      <4> QED BY <3>3, <4>1
    <3>5. \A j \in Entries : event_set'[j] # 0 => fdt'[event_set'[j]] # None
      <4>1. ASSUME NEW j \in Entries, event_set'[j] # 0, j # i
            PROVE  fdt'[event_set'[j]] # None
        <5>1. event_set'[j] = event_set[j] /\ event_set[j] \in Fds \ {n}
          BY <3>2, <3>3, <4>1 DEF TypeOK
        <5>2. fdt[event_set[j]] # None
          BY <4>1, <5>1 DEF EntriesExact, ConnOf
        <5> QED BY <3>3, <5>1, <5>2
      <4> QED BY <3>3, <4>1
    <3>6. \A j, k \in Entries : event_set'[j] = event_set'[k] /\ event_set'[j] # 0 => j = k
      BY <3>2, <3>3 DEF EntriesExact
    <3> QED BY <3>4, <3>5, <3>6 DEF EntriesExact, ConnOf
  <2> QED BY <2>1, <2>2, <2>3
<1>2. CASE \E i \in Entries : Logout(i)
  <2>1. PICK i \in Entries : Logout(i)
    BY <1>2
  <2>2. event_set[i] # 0 /\ event_set[i] \in Fds
    BY <2>1 DEF Logout, IsServed, TypeOK
  <2>3. /\ event_set'[i] = 0 /\ \A j \in Entries \ {i} : event_set'[j] = event_set[j]
        /\ fdt'[event_set[i]] = None /\ \A m \in Fds \ {event_set[i]} : fdt'[m] = fdt[m]
    BY <2>1, <2>2 DEF Logout, TypeOK
  <2>4. \A m \in Fds : fdt'[m] # None => \E j \in Entries : event_set'[j] = m
    <3>1. ASSUME NEW m \in Fds, fdt'[m] # None
          PROVE  \E j \in Entries : event_set'[j] = m
      <4>1. m # event_set[i] /\ fdt[m] # None
        BY <2>3, <3>1
      <4>2. PICK j \in Entries : event_set[j] = m
        BY <4>1 DEF EntriesExact
      <4> QED BY <2>3, <4>1, <4>2
    <3> QED BY <3>1
  <2>5. \A j \in Entries : event_set'[j] # 0 => fdt'[event_set'[j]] # None
    <3>1. ASSUME NEW j \in Entries, event_set'[j] # 0
          PROVE  fdt'[event_set'[j]] # None
      <4>1. j # i /\ event_set'[j] = event_set[j] /\ event_set[j] \in Fds
        BY <2>3, <3>1 DEF TypeOK
      <4>2. event_set[j] # event_set[i] /\ fdt[event_set[j]] # None
        BY <2>2, <3>1, <4>1 DEF EntriesExact, ConnOf
      <4> QED BY <2>3, <4>1, <4>2
    <3> QED BY <3>1
  <2>6. \A j, k \in Entries : event_set'[j] = event_set'[k] /\ event_set'[j] # 0 => j = k
    BY <2>3 DEF EntriesExact
  <2> QED BY <2>4, <2>5, <2>6 DEF EntriesExact, ConnOf
<1>3. CASE UNCHANGED <<event_set, fdt>>
  BY <1>3 DEF EntriesExact, ConnOf
<1> QED BY <1>1, <1>2, <1>3
        DEF Next, Main, poll, AcceptFails, Skip, Recv, Send, Client, Connect, Say, Collect, Leave, vars

-----------------------------------------------------------------------------
(* Rounds.                                                                 *)

(* How a round goes on after entry main.i, with S left to serve.           *)
LEMMA AfterCounts ==
  ASSUME TypeOK, main.i \in Entries, NEW S \in SUBSET Entries, todo' = S, revents' = revents,
         main' = After(Cardinality(S)),
         \A j \in Entries : j \in S <=> j \in revents /\ j >= main.i + 1,
         \A j \in S : event_set'[j] # 0
  PROVE  RetvalCounts'
<1>1. CASE main'.pc = "poll"
  BY <1>1 DEF RetvalCounts
<1>2. CASE main' = [pc |-> "scan", retval |-> Cardinality(S), i |-> main.i + 1, n |-> 0]
  BY <1>2 DEF RetvalCounts, Upcoming
<1> QED BY <1>1, <1>2 DEF After, Polling

LEMMA StepCounts ==
  ASSUME PollInv, [Next]_vars
  PROVE  RetvalCounts'
<1> USE DEF PollInv
<1>1. CASE poll
  <2> DEFINE found == {i \in Entries : event_set[i] # 0 /\ Ready(ConnOf(i))}
                        \cup (IF backlog # <<>> THEN {0} ELSE {})
  <2>1. found \ {0} \in SUBSET Entries
    BY DEF Entries
  <2>2. Cardinality(found) = IF 0 \in found THEN Cardinality(found \ {0}) + 1
                                            ELSE Cardinality(found \ {0})
    BY <2>1, FoundCount
  <2>3. 0 \in found => backlog # <<>>
    BY DEF Entries
  <2>4. \A j \in Entries : /\ j \in found \ {0} <=> j \in found /\ j >= 1
                           /\ j \in found => event_set[j] # 0
    BY DEF Entries
  <2>5. revents' = found /\ todo' = found \ {0} /\ UNCHANGED <<backlog, event_set>>
        /\ main' = [pc |-> IF 0 \in found THEN "accept" ELSE "scan",
                    retval |-> Cardinality(found), i |-> 1, n |-> 0]
    BY <1>1 DEF poll
  <2> HIDE DEF found
  <2>6. CASE 0 \in found
    BY <2>2, <2>3, <2>4, <2>5, <2>6 DEF RetvalCounts, Upcoming
  <2>7. CASE 0 \notin found
    BY <2>2, <2>4, <2>5, <2>7 DEF RetvalCounts, Upcoming
  <2> QED BY <2>6, <2>7
<1>2. CASE accept
  <2>1. UNCHANGED <<todo, revents>>
    BY <1>2 DEF accept
  <2>2. main'.pc = "scan" /\ main'.retval = Cardinality(todo) /\ main'.i = main.i /\ main.pc = "accept"
    <3>1. main.retval = Cardinality(todo) + 1 /\ main.pc = "accept"
      BY <1>2 DEF accept, RetvalCounts
    <3>2. main.retval - 1 = Cardinality(todo)
      BY <3>1, TodoCount
    <3> QED BY <1>2, <3>1, <3>2 DEF accept, Scanning, TypeOK
  <2>3. \A j \in Entries : event_set[j] # 0 => event_set'[j] # 0
    BY <1>2 DEF accept, TypeOK, Fds
  <2> QED BY <2>1, <2>2, <2>3 DEF RetvalCounts, Upcoming
<1>3. CASE AcceptFails
  BY <1>3 DEF AcceptFails, RetvalCounts, TypeOK
<1>4. CASE Skip
  <2>1. UNCHANGED <<todo, revents, event_set>> /\ main.pc = "scan" /\ main.retval = Cardinality(todo)
    BY <1>4 DEF Skip, RetvalCounts
  <2>2. CASE main.i = PollSize /\ main' = Polling
    BY <2>2 DEF Polling, RetvalCounts
  <2>3. CASE main.i \in Entries /\ event_set[main.i] = 0 /\ main' = [main EXCEPT !.i = @ + 1]
    <3>1. main.i \notin todo
      BY <2>1, <2>3 DEF RetvalCounts
    <3>2. \A j \in Entries : j \in todo <=> j \in revents /\ j >= main.i + 1
      BY <2>1, <2>3, <3>1 DEF RetvalCounts, Upcoming, Entries
    <3>3. main'.pc = "scan" /\ main'.i = main.i + 1 /\ main'.retval = main.retval
      BY <2>1, <2>3 DEF TypeOK
    <3> QED BY <2>1, <3>2, <3>3 DEF RetvalCounts, Upcoming
  <2>4. CASE main.i \in Entries /\ main.i \notin revents /\ main' = After(main.retval)
    <3>1. \A j \in Entries : j \in todo <=> j \in revents /\ j >= main.i + 1
      BY <2>1, <2>4 DEF RetvalCounts, Upcoming, Entries
    <3>2. todo \in SUBSET Entries /\ \A j \in todo : event_set'[j] # 0
      BY <2>1 DEF RetvalCounts, TypeOK
    <3> QED BY <2>1, <2>4, <3>1, <3>2, AfterCounts
  <2> QED BY <1>4, <2>2, <2>3, <2>4 DEF Skip
<1>5. CASE \E i \in Entries : Recv(i)
  <2>1. PICK i \in Entries : Recv(i)
    BY <1>5
  <2>2. IsServed(i) /\ main.i = i /\ main.pc = "scan" /\ event_set[i] # 0
    BY <2>1 DEF Recv, IsServed
  <2>3. main'.pc = "send" /\ main'.retval = main.retval - 1 /\ main'.i = i
    BY <2>1, <2>2 DEF Recv, TypeOK
  <2>4. todo' = todo \ {i} /\ UNCHANGED <<revents, event_set>>
    BY <2>1 DEF Recv
  <2>5. \A j \in Entries : j \in todo \ {i} <=> j \in revents /\ j >= i + 1
    BY <2>2, ServedIsTodo DEF RetvalCounts, Upcoming, Entries
  <2> QED BY <2>2, <2>3, <2>4, <2>5, ServedIsTodo DEF RetvalCounts, Upcoming
<1>6. CASE \E i \in Entries : Logout(i)
  <2>1. PICK i \in Entries : Logout(i)
    BY <1>6
  <2>2. IsServed(i) /\ main.i = i /\ main.pc = "scan" /\ event_set[i] # 0
    BY <2>1 DEF Logout, IsServed
  <2>3. todo' = todo \ {i} /\ revents' = revents /\ main' = After(main.retval - 1)
    BY <2>1 DEF Logout
  <2>4. \A j \in Entries : j \in todo \ {i} <=> j \in revents /\ j >= i + 1
    BY <2>2, ServedIsTodo DEF RetvalCounts, Upcoming, Entries
  <2>5. \A j \in todo \ {i} : event_set'[j] # 0
    BY <2>1, <2>2 DEF Logout, RetvalCounts, TypeOK
  <2> QED BY <2>2, <2>3, <2>4, <2>5, ServedIsTodo, AfterCounts
<1>7. CASE \E i \in Entries : Send(i)
  <2>1. PICK i \in Entries : Send(i)
    BY <1>7
  <2>2. /\ main.pc = "send" /\ main.i \in Entries /\ main.retval = Cardinality(todo)
        /\ main' = After(main.retval) /\ UNCHANGED <<todo, revents, event_set>>
    BY <2>1 DEF Send, RetvalCounts
  <2>3. \A j \in Entries : j \in todo <=> j \in revents /\ j >= main.i + 1
    <3>1. Upcoming = main.i + 1
      BY <2>2 DEF Upcoming
    <3> QED BY <2>2, <3>1 DEF RetvalCounts
  <2>4. todo \in SUBSET Entries /\ \A j \in todo : event_set'[j] # 0
    BY <2>2 DEF RetvalCounts, TypeOK
  <2>5. main' = After(Cardinality(todo)) /\ todo' = todo /\ revents' = revents
    BY <2>2
  <2>6. TypeOK /\ main.i \in Entries /\ todo \in SUBSET Entries
        /\ \A j \in todo : event_set'[j] # 0
    BY <2>2, <2>4
  <2> HIDE DEF PollInv
  <2> QED BY <2>3, <2>5, <2>6, AfterCounts
<1>8. CASE \E c \in Conns : Client(c)
  <2>1. UNCHANGED <<main, todo, revents, event_set>> /\ (backlog # <<>> => backlog' # <<>>)
    <3>1. PICK c \in Conns : Client(c)
      BY <1>8
    <3>2. CASE Connect(c)
      <4>1. backlog' = Append(backlog, c) /\ backlog \in Seq(Conns)
        BY <3>2 DEF Connect, TypeOK
      <4>2. backlog' # <<>>
        BY <4>1, AppendProperties
      <4> QED BY <3>2, <4>2 DEF Connect
    <3>3. CASE Say(c)
      BY <3>3 DEF Say
    <3>4. CASE Collect(c)
      BY <3>4 DEF Collect
    <3>5. CASE Leave(c)
      BY <3>5 DEF Leave
    <3> QED BY <3>1, <3>2, <3>3, <3>4, <3>5 DEF Client
  <2> QED BY <2>1 DEF RetvalCounts, Upcoming
<1>9. CASE UNCHANGED vars
  BY <1>9 DEF vars, RetvalCounts, Upcoming
<1> QED BY <1>1, <1>2, <1>3, <1>4, <1>5, <1>6, <1>7, <1>8, <1>9 DEF Next, Main

-----------------------------------------------------------------------------
(* Answers.                                                                *)

LEMMA StepEcho ==
  ASSUME PollInv, [Next]_vars
  PROVE  EchoSoFar'
<1> USE DEF PollInv
<1>1. ASSUME UNCHANGED <<peer, filled, echoed, unread, said>>,
             main.pc # "send", main'.pc # "send"
      PROVE  EchoSoFar'
  BY <1>1 DEF EchoSoFar, InHand
<1>2. CASE \E i \in Entries : Recv(i)
  <2>1. PICK i \in Entries : Recv(i)
    BY <1>2
  <2>2. IsServed(i) /\ event_set[i] # 0 /\ main.pc = "scan" /\ main.i = i
    BY <2>1 DEF Recv, IsServed
  <2>3. ConnOf(i) \in Conns
    BY <2>2, InUse
  <2> DEFINE k == Least(unread[ConnOf(i)], BuffSize)
  <2>4. unread[ConnOf(i)] \in Nat
    BY <2>3 DEF TypeOK
  <2>5. k \in Nat
    BY <2>4, PollAssumption DEF Least
  <2>6. /\ unread' = [unread EXCEPT ![ConnOf(i)] = @ - k]
        /\ filled' = IF k < BuffSize THEN filled ELSE filled \cup {ConnOf(i)}
        /\ k < BuffSize => main' = [main EXCEPT !.pc = "send", !.retval = @ - 1, !.n = k]
        /\ main'.i = i
        /\ UNCHANGED <<peer, said, echoed, fdt, event_set>>
    BY <2>1, <2>2 DEF Recv, clientVars, echoVars, TypeOK
  <2> HIDE DEF k
  <2>7. k < BuffSize => main'.pc = "send" /\ main'.n = k
    BY <2>6 DEF TypeOK
  <2>8. ASSUME NEW c \in Conns, peer[c] # "closed", c \notin filled', c = ConnOf(i)
        PROVE  echoed'[c] + InHand(c)' + unread'[c] = said'[c]
    <3>1. k < BuffSize
      BY <2>6, <2>8
    <3>2. InHand(c)' = k
      BY <2>6, <2>7, <2>8, <3>1 DEF InHand, ConnOf
    <3>3. echoed[c] + unread[c] = said[c]
      BY <2>2, <2>4, <2>6, <2>8, <3>1 DEF EchoSoFar, InHand, TypeOK
    <3>4. unread'[c] = unread[c] - k /\ echoed'[c] = echoed[c] /\ said'[c] = said[c]
      BY <2>6, <2>8 DEF TypeOK
    <3>5. echoed[c] \in Nat /\ unread[c] \in Nat /\ said[c] \in Nat
      BY PollAssumption DEF TypeOK
    <3> QED BY <2>5, <3>2, <3>3, <3>4, <3>5
  <2>9. ASSUME NEW c \in Conns, peer[c] # "closed", c \notin filled', c # ConnOf(i)
        PROVE  echoed'[c] + InHand(c)' + unread'[c] = said'[c]
    <3>1. InHand(c) = 0 /\ InHand(c)' = 0
      BY <2>2, <2>6, <2>9 DEF InHand, ConnOf
    <3>2. c \notin filled /\ unread'[c] = unread[c] /\ echoed'[c] = echoed[c] /\ said'[c] = said[c]
      BY <2>6, <2>9 DEF TypeOK
    <3> QED BY <2>9, <3>1, <3>2 DEF EchoSoFar
  <2> QED BY <2>6, <2>8, <2>9 DEF EchoSoFar
<1>3. CASE \E i \in Entries : Logout(i)
  <2>1. PICK i \in Entries : Logout(i)
    BY <1>3
  <2>2. main.pc = "scan" /\ UNCHANGED <<peer, filled, echoed, unread, said>>
    BY <2>1 DEF Logout, IsServed, clientVars, echoVars
  <2>3. main'.pc # "send"
    BY <2>1 DEF Logout, After, Polling
  <2> QED BY <1>1, <2>2, <2>3
<1>4. CASE \E i \in Entries : Send(i)
  <2>1. PICK i \in Entries : Send(i)
    BY <1>4
  <2>2. /\ main.pc = "send" /\ main.i = i /\ ConnOf(i) \in Conns
        /\ UNCHANGED <<peer, filled, unread, said>>
    BY <2>1, InUse DEF Send, RetvalCounts, clientVars
  <2>3. main'.pc # "send"
    BY <2>1 DEF Send, After, Polling
  <2>4. \A c \in Conns : InHand(c)' = 0
    BY <2>3 DEF InHand
  <2>5. ASSUME NEW c \in Conns, peer[c] # "closed", c \notin filled, c # ConnOf(i)
        PROVE  echoed'[c] + InHand(c)' + unread'[c] = said'[c]
    <3>1. echoed'[c] = echoed[c]
      BY <2>1, <2>2, <2>5 DEF Send, TypeOK, echoVars
    <3>2. InHand(c) = 0
      BY <2>2, <2>5 DEF InHand
    <3> QED BY <2>2, <2>4, <2>5, <3>1, <3>2 DEF EchoSoFar
  <2>6. ASSUME NEW c \in Conns, peer[c] # "closed", c \notin filled, c = ConnOf(i)
        PROVE  echoed'[c] + InHand(c)' + unread'[c] = said'[c]
    <3>1. echoed'[c] = echoed[c] + main.n
      BY <2>1, <2>2, <2>6 DEF Send, TypeOK, Honest
    <3>2. InHand(c) = main.n
      BY <2>2, <2>6 DEF InHand
    <3>3. echoed[c] + main.n + unread[c] = said[c]
      BY <2>6, <3>2 DEF EchoSoFar
    <3>4. echoed[c] \in Nat /\ unread[c] \in Nat /\ main.n \in Nat
      BY PollAssumption DEF TypeOK
    <3> QED BY <2>2, <2>4, <3>1, <3>3, <3>4
  <2> QED BY <2>2, <2>5, <2>6 DEF EchoSoFar
<1>5. CASE \E c \in Conns : Client(c)
  <2>1. PICK d \in Conns : Client(d)
    BY <1>5
  <2>2. UNCHANGED <<main, fdt, event_set, filled, echoed>> /\ \A c \in Conns : InHand(c)' = InHand(c)
    BY <2>1 DEF Client, Connect, Say, Collect, Leave, InHand, ConnOf, echoVars
  <2>3. CASE Say(d)
    <3>1. PICK k \in 1 .. MaxSay - said[d] :
            /\ said' = [said EXCEPT ![d] = @ + k]
            /\ unread' = [unread EXCEPT ![d] = @ + k]
      BY <2>3 DEF Say
    <3>2. peer' = peer
      BY <2>3 DEF Say
    <3>3. ASSUME NEW c \in Conns, peer[c] # "closed", c \notin filled, c # d
          PROVE  echoed'[c] + InHand(c)' + unread'[c] = said'[c]
      BY <2>2, <3>1, <3>3 DEF EchoSoFar, TypeOK
    <3>4. ASSUME peer[d] # "closed", d \notin filled
          PROVE  echoed'[d] + InHand(d)' + unread'[d] = said'[d]
      <4>1. echoed[d] + InHand(d) + unread[d] = said[d]
        BY <3>4 DEF EchoSoFar
      <4>2. unread'[d] = unread[d] + k /\ said'[d] = said[d] + k
        BY <3>1 DEF TypeOK
      <4>3. unread[d] \in Nat /\ said[d] \in Nat /\ echoed[d] \in Nat /\ k \in Nat /\ InHand(d) \in Nat
        BY PollAssumption DEF TypeOK, InHand
      <4> QED BY <2>2, <4>1, <4>2, <4>3
    <3> QED BY <2>2, <3>2, <3>3, <3>4 DEF EchoSoFar
  <2>4. CASE Connect(d) \/ Collect(d) \/ Leave(d)
    <3>1. UNCHANGED <<unread, said>> /\ \A c \in Conns : peer'[c] # "closed" => peer[c] # "closed"
      BY <2>4 DEF Connect, Collect, Leave, clientVars, TypeOK
    <3> QED BY <2>2, <3>1 DEF EchoSoFar
  <2> QED BY <2>1, <2>3, <2>4 DEF Client
<1>6. CASE poll \/ accept \/ AcceptFails \/ Skip
  <2>1. main.pc # "send" /\ main'.pc # "send" /\ UNCHANGED <<peer, filled, echoed, unread, said>>
    <3>1. CASE poll
      BY <3>1 DEF poll, clientVars, echoVars
    <3>2. CASE accept
      BY <3>2 DEF accept, Scanning, TypeOK, clientVars, echoVars
    <3>3. CASE AcceptFails
      BY <3>3 DEF AcceptFails, TypeOK, clientVars, echoVars
    <3>4. CASE Skip
      BY <3>4 DEF Skip, After, Polling, TypeOK, clientVars, echoVars
    <3> QED BY <1>6, <3>1, <3>2, <3>3, <3>4
  <2> QED BY <1>1, <2>1
<1>7. CASE UNCHANGED vars
  BY <1>7 DEF vars, EchoSoFar, InHand, ConnOf
<1> QED BY <1>2, <1>3, <1>4, <1>5, <1>6, <1>7 DEF Next, Main

-----------------------------------------------------------------------------
LEMMA PollInvariant == Spec => []PollInv
<1>1. PollInv /\ [Next]_vars => PollInv'
  BY StepType, StepHonest, StepEntries, StepCounts, StepEcho DEF PollInv
<1> QED BY <1>1, InitPoll, PTL DEF Spec

(* Every variable keeps its type; retval never leaves 0 .. POLLSIZE.       *)
THEOREM PollTypeCorrect == Spec => []TypeOK
<1>1. PollInv => TypeOK
  BY DEF PollInv
<1> QED BY <1>1, PollInvariant, PTL

(* No connection without an entry, no entry without a connection, and no   *)
(* two entries for one descriptor (server.c:59-70, 85-86).                 *)
THEOREM EntriesInStep == Spec => []EntriesExact
<1>1. PollInv => EntriesExact
  BY DEF PollInv
<1> QED BY <1>1, PollInvariant, PTL

(* A round ends with nothing left to serve, unless accept() fails, for any *)
(* number of entries (server.c:57, 76, 90).                                *)
THEOREM RoundsComplete == Spec => RoundComplete
<1>1. ASSUME PollInv, [Next]_vars
      PROVE  [main.pc # "poll" /\ main'.pc = "poll" => main.pc = "accept" \/ todo' = {}]_vars
  <2> SUFFICES ASSUME Next, main.pc # "poll", main'.pc = "poll", main.pc # "accept"
               PROVE  todo' = {}
    BY <1>1
  <2> USE <1>1 DEF PollInv
  <2>1. CASE Skip
    <3>1. main.pc = "scan" /\ todo' = todo /\ todo \in SUBSET Entries /\ main.retval = Cardinality(todo)
      BY <2>1, TodoCount DEF Skip, RetvalCounts
    <3>2. CASE main.i = PollSize
      <4>1. \A j \in todo : j \in Entries /\ j >= PollSize
        BY <3>1, <3>2 DEF RetvalCounts, Upcoming
      <4> QED BY <3>1, <4>1, PollAssumption DEF Entries
    <3>3. CASE main' = After(main.retval)
      BY <3>1, <3>3, NothingLeft DEF After, Polling
    <3>4. CASE main' = [main EXCEPT !.i = @ + 1]
      BY <3>1, <3>4 DEF TypeOK
    <3> QED BY <2>1, <3>2, <3>3, <3>4 DEF Skip
  <2>2. ASSUME NEW i \in Entries, Logout(i)
        PROVE  todo' = {}
    <3>1. IsServed(i) /\ todo' = todo \ {i} /\ main' = After(main.retval - 1)
      BY <2>2 DEF Logout, IsServed
    <3>2. Cardinality(todo \ {i}) = main.retval - 1 /\ todo \ {i} \in SUBSET Entries
      BY <3>1, ServedIsTodo
    <3>3. main.retval - 1 <= 0
      BY <3>1 DEF After, Polling
    <3> QED BY <3>1, <3>2, <3>3, NothingLeft
  <2>3. ASSUME NEW i \in Entries, Send(i)
        PROVE  todo' = {}
    <3>1. main' = After(main.retval) /\ todo' = todo /\ main.retval = Cardinality(todo)
      BY <2>3 DEF Send, RetvalCounts
    <3>2. main.retval <= 0
      BY <3>1 DEF After, Polling
    <3> QED BY <3>1, <3>2, TodoCount, NothingLeft
  <2>4. ASSUME NEW i \in Entries, Recv(i)
        PROVE  FALSE
    BY <2>4 DEF Recv, TypeOK
  <2>5. CASE \E c \in Conns : Client(c)
    BY <2>5 DEF Client, Connect, Say, Collect, Leave
  <2> QED BY <2>1, <2>2, <2>3, <2>4, <2>5 DEF Next, Main, poll, accept, AcceptFails
<1> QED BY <1>1, PollInvariant, PTL DEF Spec, RoundComplete

(* What a client has sent is answered, in buff or unread, byte for byte,   *)
(* as long as it never filled the buffer (server.c:77-83).                 *)
THEOREM EchoedExactly == Spec => []EchoExact
<1>1. PollInv => EchoExact
  BY DEF PollInv, EchoSoFar, EchoExact
<1> QED BY <1>1, PollInvariant, PTL
=============================================================================
