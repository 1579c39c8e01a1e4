---------------------------- MODULE BackupProofs ----------------------------
(***************************************************************************)
(* Proofs about two of the echo servers under server/backup. They have no  *)
(* name in common, and neither part uses the other.                        *)
(*                                                                         *)
(* The thread pool (ThreadPool), for any number of threads and descriptors *)
(* and any size of the ring: its types, mutual exclusion, that no wake-up  *)
(* is lost, and that its queue is a FIFO that drops what waits when it is  *)
(* full.                                                                   *)
(*                                                                         *)
(* The epoll server (EpollServer), for any number of clients, descriptors  *)
(* and events at a time, and any sizes: its types, that what epoll_wait()  *)
(* reported still holds when its turn comes, that a client that does not   *)
(* fill the buffer is not forgotten, and that its bytes are echoed. What   *)
(* is invariant besides is that a connection has one descriptor, and what  *)
(* a reset says about its client.                                          *)
(***************************************************************************)
EXTENDS ThreadPool, EpollServer, FiniteSetTheorems, SequenceTheorems, TLAPS

-----------------------------------------------------------------------------
(***************************************************************************)
(* The thread pool.                                                        *)
(***************************************************************************)

LEMMA AdvanceType == ASSUME NEW p \in Positions PROVE Advance(p) \in Positions
BY PoolAssumption DEF Positions, Advance

(* The owner of the mutex is who is at work on the ring, and conversely    *)
(* only a thread in pthread_cond_wait is waiting.                          *)
Owned ==
  /\ MainInside => mutex = MainThread
  /\ \A w \in Pool : ThreadInside(w) => mutex = w

PoolInv == PoolTypeOK /\ Owned

LEMMA InitPool == PoolInit => PoolInv
<1> SUFFICES ASSUME PoolInit PROVE PoolTypeOK /\ Owned
  BY DEF PoolInv
<1>1. client \in [Sockets -> ClientStates] /\ lines \in [Sockets -> Nat] /\ lost \subseteq Sockets
      /\ killed \in BOOLEAN
  BY DEF PoolInit, ClientStates
<1>2. main \in [pc : MainPcs, fd : Sockets \cup {0}]
      /\ thread \in [Pool -> [pc : ThreadPcs, fd : Sockets \cup {0}]]
  BY DEF PoolInit, MainPcs, ThreadPcs
<1>3. ring \in [Positions -> Sockets \cup {0}] /\ head \in Positions /\ tail \in Positions
      /\ opened \in 0 .. MaxOpened
  BY PoolAssumption DEF PoolInit, Positions
<1> QED BY <1>1, <1>2, <1>3 DEF PoolInit, PoolTypeOK, Owned, MainInside, ThreadInside

LEMMA PendingType == ASSUME PoolTypeOK PROVE Pending \in 0 .. Sum - 1
BY PoolAssumption DEF PoolTypeOK, Pending, Positions

LEMMA InRingType == ASSUME PoolTypeOK PROVE InRing \subseteq Sockets \cup {0}
<1> SUFFICES ASSUME NEW k \in 1 .. Pending PROVE TaskAt(k) \in Sockets \cup {0}
  BY DEF InRing
<1>1. Pending \in 0 .. Sum - 1
  BY PendingType
<1>2. (IF head + k - 1 < Sum THEN head + k - 1 ELSE head + k - 1 - Sum) \in Positions
  BY <1>1, PoolAssumption DEF PoolTypeOK, Positions
<1> QED BY <1>2 DEF PoolTypeOK, TaskAt

LEMMA StepPool ==
  ASSUME PoolInv, [PoolNext]_poolVars
  PROVE  PoolInv'
<1> USE PoolAssumption DEF PoolInv, PoolTypeOK, Owned, MainInside, ThreadInside, ringVars, echoVars
<1>1. CASE Accept
  BY <1>1 DEF Accept, MainPcs, Sockets
<1>2. CASE AcceptEnds
  BY <1>2 DEF AcceptEnds, MainPcs
<1>3. CASE PushLock
  BY <1>3 DEF PushLock, MainPcs
<1>4. CASE PushStore
  BY <1>4 DEF PushStore, MainPcs
<1>5. CASE PushAdvance
  BY <1>5, AdvanceType, InRingType DEF PushAdvance, MainPcs
<1>6. CASE PushSignal
  BY <1>6 DEF PushSignal, MainPcs
<1>7. CASE PushUnlock
  BY <1>7 DEF PushUnlock, MainPcs
<1>8. ASSUME NEW w \in Pool, thread_run(w)
      PROVE  PoolInv'
  <2> USE DEF Goto, ThreadPcs
  <2>1. CASE PopLock(w)
    BY <2>1 DEF PopLock
  <2>2. CASE PopWait(w)
    BY <2>2 DEF PopWait
  <2>3. CASE PopWake(w)
    BY <2>3 DEF PopWake
  <2>4. CASE PopTest(w)
    BY <2>4 DEF PopTest
  <2>5. CASE PopTake(w)
    BY <2>5 DEF PopTake
  <2>6. CASE PopAdvance(w)
    BY <2>6, AdvanceType DEF PopAdvance
  <2>7. CASE PopUnlock(w)
    BY <2>7 DEF PopUnlock
  <2>8. CASE EchoRecv(w)
    <3>1. lines' \in [Sockets -> Nat]
      <4>1. CASE thread[w].fd \in Sockets
        BY <2>8, <4>1 DEF EchoRecv
      <4>2. CASE thread[w].fd \notin Sockets
        BY <2>8, <4>2 DEF EchoRecv
      <4> QED BY <4>1, <4>2
    <3>2. thread' \in [Pool -> [pc : ThreadPcs, fd : Sockets \cup {0}]]
      BY <2>8 DEF EchoRecv
    <3> QED BY <2>8, <3>1, <3>2 DEF EchoRecv
  <2>9. CASE EchoSend(w)
    BY <2>9 DEF EchoSend, ClientStates
  <2>10. CASE SendFails(w)
    BY <2>10 DEF SendFails
  <2>11. CASE EchoEnds(w)
    BY <2>11 DEF EchoEnds
  <2> QED
    BY <1>8, <2>1, <2>2, <2>3, <2>4, <2>5, <2>6, <2>7, <2>8, <2>9, <2>10, <2>11
       DEF thread_run, TaskQueuePop, do_echo
<1>9. ASSUME NEW w \in Pool, SpuriousWakeup(w)
      PROVE  PoolInv'
  BY <1>9 DEF SpuriousWakeup
<1>10. ASSUME NEW n \in Sockets, Peer(n)
       PROVE  PoolInv'
  BY <1>10 DEF Peer, ClientSays, ClientCloses, ResetComes, ClientStates
<1>11. CASE UNCHANGED poolVars
  BY <1>11 DEF poolVars
<1> QED
  BY <1>1, <1>2, <1>3, <1>4, <1>5, <1>6, <1>7, <1>8, <1>9, <1>10, <1>11
     DEF PoolNext, MainNext

(* Indexes stay inside the ring (lines 63 and 78).                         *)
THEOREM PoolTypeCorrect == PoolSpec => []PoolTypeOK
<1>1. PoolInit => PoolInv
  BY InitPool
<1>2. PoolInv /\ [PoolNext]_poolVars => PoolInv'
  BY StepPool
<1>3. PoolInv => PoolTypeOK
  BY DEF PoolInv
<1> QED BY <1>1, <1>2, <1>3, PTL DEF PoolSpec

(* The ring is touched by one thread at a time, for any number of threads, *)
(* wake-ups without a signal included (lines 60-68 and 72-82).             *)
THEOREM MutualExclusion == PoolSpec => []Exclusive
<1>1. PoolInit => PoolInv
  BY InitPool
<1>2. PoolInv /\ [PoolNext]_poolVars => PoolInv'
  BY StepPool
<1>3. PoolInv => Exclusive
  BY PoolAssumption DEF PoolInv, Owned, Exclusive
<1> QED BY <1>1, <1>2, <1>3, PTL DEF PoolSpec

-----------------------------------------------------------------------------
(* Wake-ups.  Threads that wait for the condition are in                   *)
(* pthread_cond_wait, and one that is about to take a task has found one.  *)
WakeInv ==
  /\ PoolInv
  /\ \A w \in waiting : thread[w].pc = "wait"
  /\ \A w \in Pool : thread[w].pc \in {"take", "advance"} => tail # head
  /\ NoLostWakeup

Announced == IF main.pc = "signal" THEN 1 ELSE 0

LEMMA AwakeFinite == IsFiniteSet(Awake) /\ Cardinality(Awake) \in Nat
BY FS_Subset, FS_CardinalityType, PoolAssumption DEF Awake

(* More tasks need more threads awake or a signal to come.                 *)
LEMMA StillEnough ==
  ASSUME NoLostWakeup, PoolTypeOK, PoolTypeOK', waiting' # {} => waiting # {},
         Awake \subseteq Awake',
         Pending' - Announced' <= Pending - Announced
  PROVE  NoLostWakeup'
<1>1. Cardinality(Awake) <= Cardinality(Awake')
  <2>1. IsFiniteSet(Awake')
    BY FS_Subset, PoolAssumption DEF Awake
  <2> QED BY <2>1, FS_Subset
<1>2. Cardinality(Awake) \in Nat /\ Cardinality(Awake') \in Nat
  BY FS_Subset, FS_CardinalityType, PoolAssumption DEF Awake
<1>3. Pending \in Int /\ Pending' \in Int
  BY PoolAssumption DEF PoolTypeOK, Pending, Positions
<1>4. Announced \in Int /\ Announced' \in Int
  BY DEF Announced
<1> SUFFICES ASSUME waiting' # {}
             PROVE  Pending' <= Cardinality(Awake') + Announced'
  BY DEF NoLostWakeup, Announced
<1>5. Pending <= Cardinality(Awake) + Announced
  BY DEF NoLostWakeup, Announced
<1>6. PICK p, q, s, t, a, b \in Int :
        /\ p = Pending /\ q = Pending' /\ s = Announced /\ t = Announced'
        /\ a = Cardinality(Awake) /\ b = Cardinality(Awake')
  BY <1>2, <1>3, <1>4
<1>7. p <= a + s /\ a <= b /\ q - t <= p - s
  BY <1>1, <1>5, <1>6
<1>8. q <= b + t
  BY <1>7
<1> QED BY <1>6, <1>8

LEMMA InitWake == PoolInit => WakeInv
<1> SUFFICES ASSUME PoolInit PROVE WakeInv
  OBVIOUS
<1>1. PoolInv
  BY InitPool
<1> QED BY <1>1 DEF PoolInit, WakeInv, NoLostWakeup

(* A step that leaves the ring's indexes and the signal to come.           *)
LEMMA WakeQuiet ==
  ASSUME WakeInv, PoolInv', UNCHANGED <<head, tail>>,
         main'.pc = "signal" <=> main.pc = "signal",
         waiting' \subseteq waiting,
         \A w \in waiting' : thread'[w].pc = "wait",
         \A w \in Pool : thread'[w].pc \in {"take", "advance"} => tail # head,
         \A w \in Pool : thread[w].pc \in {"lock", "wait", "test", "take", "advance"} =>
                           thread'[w].pc \in {"lock", "wait", "test", "take", "advance"}
  PROVE  WakeInv'
<1> USE DEF WakeInv
<1>1. Awake \subseteq Awake'
  BY DEF Awake
<1>2. Pending' = Pending /\ Announced' = Announced
  BY DEF Pending, Announced
<1>3. Pending \in Int /\ Announced \in Int
  BY PoolAssumption DEF PoolInv, PoolTypeOK, Pending, Positions, Announced
<1>4. Pending' - Announced' <= Pending - Announced
  BY <1>2, <1>3
<1>5. NoLostWakeup'
  BY <1>1, <1>4, StillEnough DEF PoolInv
<1> QED BY <1>5

LEMMA WakeMain ==
  ASSUME WakeInv, Running, MainNext
  PROVE  WakeInv'
<1> USE DEF WakeInv
<1>1. PoolInv'
  BY StepPool DEF PoolNext
<1>2. CASE Accept \/ AcceptEnds \/ PushLock \/ PushStore \/ PushUnlock
  <2>1. /\ UNCHANGED <<head, tail, waiting, thread>>
        /\ main.pc # "signal" /\ main'.pc # "signal"
    BY <1>2 DEF Accept, AcceptEnds, PushLock, PushStore, PushUnlock, PoolInv, PoolTypeOK, ringVars
  <2> QED BY <1>1, <2>1, WakeQuiet
<1>3. CASE PushAdvance
  <2>1. /\ tail' = Advance(tail) /\ UNCHANGED <<head, waiting, thread>>
        /\ main.pc = "advance" /\ main'.pc = "signal"
    BY <1>3 DEF PushAdvance, PoolInv, PoolTypeOK
  <2>2. head \in Positions /\ tail \in Positions
    BY DEF PoolInv, PoolTypeOK
  <2>3. Pending' <= Pending + 1 /\ Pending \in Int /\ Pending' \in Int
    BY <2>1, <2>2, PoolAssumption DEF Pending, Advance, Positions
  <2>4. Announced = 0 /\ Announced' = 1
    BY <2>1 DEF Announced
  <2>5. Awake' = Awake
    BY <2>1 DEF Awake
  <2>6. NoLostWakeup'
    BY <1>1, <2>1, <2>3, <2>4, <2>5, StillEnough DEF PoolInv
  <2>7. \A w \in Pool : thread[w].pc \notin {"take", "advance"}
    BY <2>1, PoolAssumption DEF PoolInv, Owned, MainInside, ThreadInside
  <2> QED BY <1>1, <2>1, <2>6, <2>7
<1>4. CASE PushSignal
  <2>1. /\ UNCHANGED <<head, tail, thread>>
        /\ main.pc = "signal" /\ main'.pc = "unlock"
        /\ waiting' \subseteq waiting
    BY <1>4 DEF PushSignal, PoolInv, PoolTypeOK, ringVars
  <2>2. CASE waiting = {}
    BY <1>1, <2>1, <2>2 DEF NoLostWakeup
  <2>3. CASE waiting # {}
    <3>1. PICK w \in waiting : waiting' = waiting \ {w}
      BY <1>4, <2>3 DEF PushSignal
    <3>2. w \in Pool /\ thread[w].pc = "wait"
      BY <3>1 DEF PoolInv, PoolTypeOK
    <3>3. w \notin Awake /\ Awake' = Awake \cup {w}
      BY <2>1, <3>1, <3>2 DEF Awake
    <3>4. Cardinality(Awake') = Cardinality(Awake) + 1
      BY <3>3, AwakeFinite, FS_AddElement
    <3>5. Pending' = Pending /\ Pending \in Int
      BY <2>1, PoolAssumption DEF Pending, PoolInv, PoolTypeOK, Positions
    <3>6. Pending <= Cardinality(Awake) + 1
      BY <2>1, <2>3 DEF NoLostWakeup
    <3>7. Pending' <= Cardinality(Awake') + 0
      BY <3>4, <3>5, <3>6, AwakeFinite
    <3>8. NoLostWakeup'
      BY <2>1, <3>7 DEF NoLostWakeup
    <3> QED BY <1>1, <2>1, <3>8
  <2> QED BY <2>2, <2>3
<1> QED BY <1>2, <1>3, <1>4 DEF MainNext

LEMMA WakeThread ==
  ASSUME WakeInv, NEW w \in Pool, thread_run(w) \/ SpuriousWakeup(w), Running
  PROVE  WakeInv'
<1> USE DEF WakeInv
<1>1. PoolInv'
  BY StepPool DEF PoolNext
<1>2. CASE SpuriousWakeup(w) \/ PopLock(w) \/ PopWake(w) \/ PopTest(w) \/ PopTake(w) \/ PopUnlock(w) \/ do_echo(w)
  <2>1. /\ UNCHANGED <<head, tail, main>> /\ waiting' \subseteq waiting
        /\ \A v \in Pool \ {w} : thread'[v] = thread[v]
    BY <1>2 DEF SpuriousWakeup, PopLock, PopWake, PopTest, PopTake, PopUnlock, Goto,
                do_echo, EchoRecv, EchoSend, SendFails, EchoEnds, PoolInv, PoolTypeOK, ringVars
  <2>2. \/ thread'[w].pc = thread[w].pc
        \/ /\ w \notin waiting
           /\ \/ thread[w].pc \in {"lock", "wait"} /\ thread'[w].pc = "test"
              \/ thread[w].pc = "test" /\ thread'[w].pc = "take" /\ tail # head
              \/ thread[w].pc = "take" /\ thread'[w].pc = "advance"
              \/ thread[w].pc = "unlock" /\ thread'[w].pc = "echo"
              \/ thread[w].pc \in {"echo", "send"} /\ thread'[w].pc \in {"echo", "send", "lock"}
    BY <1>2 DEF SpuriousWakeup, PopLock, PopWake, PopTest, PopTake, PopUnlock, Goto,
                do_echo, EchoRecv, EchoSend, SendFails, EchoEnds, PoolInv, PoolTypeOK, ringVars
  <2>3. \A v \in waiting' : thread'[v].pc = "wait"
    BY <2>1, <2>2 DEF PoolInv, PoolTypeOK
  <2>4. \A v \in Pool : thread'[v].pc \in {"take", "advance"} => tail # head
    BY <2>1, <2>2
  <2>5. \A v \in Pool : thread[v].pc \in {"lock", "wait", "test", "take", "advance"} =>
                          thread'[v].pc \in {"lock", "wait", "test", "take", "advance"}
    BY <2>1, <2>2
  <2> QED BY <1>1, <2>1, <2>3, <2>4, <2>5, WakeQuiet
<1>3. CASE PopWait(w)
  <2>1. /\ UNCHANGED <<head, tail>> /\ tail = head
        /\ waiting' = waiting \cup {w}
        /\ \A v \in Pool \ {w} : thread'[v] = thread[v]
        /\ thread'[w].pc = "wait"
    BY <1>3 DEF PopWait, Goto, PoolInv, PoolTypeOK, ringVars
  <2>2. Pending' = 0
    BY <2>1, PoolAssumption DEF Pending, PoolInv, PoolTypeOK, Positions
  <2>3. Cardinality(Awake') \in Nat
    BY FS_Subset, FS_CardinalityType, PoolAssumption DEF Awake
  <2>4. NoLostWakeup'
    BY <2>2, <2>3 DEF NoLostWakeup
  <2> QED BY <1>1, <2>1, <2>4 DEF PoolInv, PoolTypeOK
<1>4. CASE PopAdvance(w)
  <2>1. /\ head' = Advance(head) /\ UNCHANGED <<tail, main, waiting>>
        /\ \A v \in Pool \ {w} : thread'[v] = thread[v]
        /\ thread[w].pc = "advance" /\ thread'[w].pc = "unlock"
    BY <1>4 DEF PopAdvance, Goto, PoolInv, PoolTypeOK
  <2>2. head \in Positions /\ tail \in Positions /\ tail # head
    BY <2>1 DEF PoolInv, PoolTypeOK
  <2>3. Pending' = Pending - 1 /\ Pending \in Int
    BY <2>1, <2>2, PoolAssumption DEF Pending, Advance, Positions
  <2>4. w \notin waiting
    BY <2>1
  <2>5. w \in Awake /\ Awake' = Awake \ {w}
    BY <2>1, <2>4 DEF Awake
  <2>6. Cardinality(Awake') = Cardinality(Awake) - 1
    BY <2>5, AwakeFinite, FS_RemoveElement
  <2>7. Announced' = Announced /\ Announced \in Int
    BY <2>1 DEF Announced
  <2>8. ASSUME waiting' # {} PROVE Pending' <= Cardinality(Awake') + Announced'
    <3>1. Pending <= Cardinality(Awake) + Announced
      BY <2>1, <2>8 DEF NoLostWakeup, Announced
    <3> HIDE DEF WakeInv
    <3> QED BY <2>3, <2>6, <2>7, <3>1, AwakeFinite
  <2>9. NoLostWakeup'
    BY <2>8 DEF NoLostWakeup, Announced
  <2>10. \A v \in Pool : thread'[v].pc \notin {"take", "advance"}
    BY <2>1 DEF PoolInv, Owned, ThreadInside
  <2>11. \A v \in waiting' : thread'[v].pc = "wait"
    BY <2>1, <2>4 DEF PoolInv, PoolTypeOK
  <2> QED BY <1>1, <2>9, <2>10, <2>11
<1> QED BY <1>2, <1>3, <1>4 DEF thread_run, TaskQueuePop

(* One signal per push is enough, for any number of threads and any size   *)
(* of the ring, one that overflows included: while a thread waits for the  *)
(* condition, threads are awake or about to be woken for all tasks in the  *)
(* ring (lines 60-82).                                                     *)
THEOREM SignalsSuffice == PoolSpec => []NoLostWakeup
<1>1. WakeInv /\ [PoolNext]_poolVars => WakeInv'
  <2> SUFFICES ASSUME WakeInv, [PoolNext]_poolVars PROVE WakeInv'
    OBVIOUS
  <2>1. CASE Running /\ MainNext
    BY <2>1, WakeMain
  <2>2. ASSUME NEW w \in Pool, Running, thread_run(w) \/ SpuriousWakeup(w)
        PROVE  WakeInv'
    BY <2>2, WakeThread
  <2>3. ASSUME NEW n \in Sockets, Peer(n), Running PROVE WakeInv'
    <3>1. PoolInv'
      BY <2>3, StepPool DEF PoolNext, WakeInv
    <3>2. UNCHANGED <<main, thread, head, tail, waiting>>
      BY <2>3 DEF Peer, ClientSays, ClientCloses, ResetComes, ringVars
    <3> QED BY <3>1, <3>2, WakeQuiet DEF WakeInv
  <2>4. CASE UNCHANGED poolVars
    <3>1. PoolInv'
      BY <2>4, StepPool DEF WakeInv
    <3> QED BY <2>4, <3>1, WakeQuiet DEF WakeInv, poolVars, ringVars
  <2> QED BY <2>1, <2>2, <2>3, <2>4 DEF PoolNext
<1>2. WakeInv => NoLostWakeup
  BY DEF WakeInv
<1> QED BY <1>1, <1>2, InitWake, PTL DEF PoolSpec

-----------------------------------------------------------------------------
(* The queue as a FIFO.  First the arithmetic of the ring.                 *)

LEMMA StoreRing ==
  ASSUME PoolTypeOK, UNCHANGED <<head, tail>>, NEW fd, ring' = [ring EXCEPT ![tail] = fd]
  PROVE  \A k \in 1 .. Pending : TaskAt(k)' = TaskAt(k)
<1> SUFFICES ASSUME NEW k \in 1 .. Pending PROVE TaskAt(k)' = TaskAt(k)
  OBVIOUS
<1> DEFINE p == IF head + k - 1 < Sum THEN head + k - 1 ELSE head + k - 1 - Sum
<1>1. p \in Positions /\ p # tail
  BY PoolAssumption DEF PoolTypeOK, Pending, Positions
<1>2. ring'[p] = ring[p]
  BY <1>1 DEF PoolTypeOK
<1> QED BY <1>1, <1>2 DEF TaskAt

(* A push into a ring with room.                                           *)
LEMMA PushRing ==
  ASSUME PoolTypeOK, Pending < Sum - 1, tail' = Advance(tail), UNCHANGED <<head, ring>>
  PROVE  /\ Pending' = Pending + 1
         /\ \A k \in 1 .. Pending : TaskAt(k)' = TaskAt(k)
         /\ \A k : k = Pending + 1 => TaskAt(k)' = ring[tail]
<1>1. Pending' = Pending + 1
  BY PoolAssumption DEF PoolTypeOK, Pending, Positions, Advance
<1>2. \A k \in 1 .. Pending : TaskAt(k)' = TaskAt(k)
  BY DEF TaskAt
<1>3. ASSUME NEW k, k = Pending + 1 PROVE TaskAt(k)' = ring[tail]
  BY <1>3, PoolAssumption DEF PoolTypeOK, Pending, Positions, TaskAt
<1> QED BY <1>1, <1>2, <1>3

(* A push into a full ring empties it.                                     *)
LEMMA PushFull ==
  ASSUME PoolTypeOK, tail' = Advance(tail), UNCHANGED head
  PROVE  /\ Advance(tail) = head <=> Pending = Sum - 1
         /\ Pending = Sum - 1 => Pending' = 0
BY PoolAssumption DEF PoolTypeOK, Pending, Positions, Advance

(* A pop from a ring with a task.                                          *)
LEMMA PopRing ==
  ASSUME PoolTypeOK, head # tail, head' = Advance(head), UNCHANGED <<tail, ring>>
  PROVE  /\ Pending > 0 /\ Pending' = Pending - 1
         /\ \A k \in 1 .. Pending - 1 : TaskAt(k)' = TaskAt(k + 1)
         /\ TaskAt(1) = ring[head]
<1>1. Pending > 0 /\ Pending' = Pending - 1
  BY PoolAssumption DEF PoolTypeOK, Pending, Positions, Advance
<1>2. \A k \in 1 .. Pending - 1 : TaskAt(k)' = TaskAt(k + 1)
  BY PoolAssumption DEF PoolTypeOK, Pending, Positions, TaskAt, Advance
<1>3. TaskAt(1) = ring[head]
  BY PoolAssumption DEF PoolTypeOK, Positions, TaskAt
<1> QED BY <1>1, <1>2, <1>3

-----------------------------------------------------------------------------
(* main has a connection that is not in the queue yet.                     *)
Holding == main.pc \in {"lock", "store", "advance"}

(* The connections that are, or have been, in the queue.                   *)
Queued == IF Holding THEN opened - 1 ELSE opened

FifoInv ==
  /\ PoolInv
  /\ Holding => main.fd = opened /\ opened > 0
  /\ main.pc = "advance" => ring[tail] = main.fd
  /\ \A k \in 1 .. Pending : TaskAt(k) \in 1 .. Queued
  /\ \A w \in Pool :
       /\ thread[w].pc \in {"take", "advance"} => head # tail
       /\ thread[w].pc = "advance" => thread[w].fd = ring[head]
       /\ thread[w].pc \in {"unlock", "echo", "send"} => thread[w].fd \in 1 .. Queued
  /\ lost \subseteq 1 .. Queued

LEMMA InitFifo == PoolInit => FifoInv
<1> SUFFICES ASSUME PoolInit PROVE FifoInv
  OBVIOUS
<1>1. PoolInv
  BY InitPool
<1>2. Pending = 0
  BY DEF PoolInit, Pending
<1> QED BY <1>1, <1>2 DEF PoolInit, FifoInv, Holding

LEMMA StepFifo ==
  ASSUME FifoInv, [PoolNext]_poolVars
  PROVE  FifoInv'
<1> USE PoolAssumption DEF ringVars
<1>a. PoolInv'
  BY StepPool DEF FifoInv
<1>b. PoolTypeOK /\ Owned /\ PoolTypeOK' /\ Owned'
  BY <1>a DEF FifoInv, PoolInv
<1>c. Pending \in 0 .. Sum - 1
  BY <1>b, PendingType
<1>d. main.fd \in Nat /\ opened \in Nat /\ Queued \in Int
  BY <1>b DEF PoolTypeOK, Queued, Sockets
<1>1. CASE Accept
  <2>1. /\ ~Holding /\ Holding' /\ opened' = opened + 1 /\ Queued' = opened
        /\ Queued = opened /\ main'.fd = opened' /\ main'.pc = "lock"
    BY <1>1, <1>d DEF Accept, Holding, Queued
  <2>2. Pending' = Pending /\ \A k : TaskAt(k)' = TaskAt(k)
    BY <1>1 DEF Accept, Pending, TaskAt
  <2>3. opened' > 0
    BY <1>1, <1>b DEF Accept, PoolTypeOK
  <2> QED BY <1>1, <1>a, <2>1, <2>2, <2>3 DEF FifoInv, Accept
<1>2. CASE /\ UNCHANGED <<ring, head, tail, lost, thread, opened>>
           /\ main'.fd = main.fd
           /\ \/ main.pc = "accept" /\ main'.pc = "exit"
              \/ main.pc = "lock" /\ main'.pc = "store"
              \/ main.pc = "signal" /\ main'.pc = "unlock"
              \/ main' = main
  <2>1. Pending' = Pending /\ \A k : TaskAt(k)' = TaskAt(k)
    BY <1>2 DEF Pending, TaskAt
  <2>2. (Holding' <=> Holding) /\ Queued' = Queued /\ (main'.pc = "advance" => main.pc = "advance")
    BY <1>2 DEF Holding, Queued
  <2> QED BY <1>2, <1>a, <2>1, <2>2 DEF FifoInv
<1>3. CASE PushUnlock
  <2>1. Pending' = Pending /\ \A k : TaskAt(k)' = TaskAt(k)
    BY <1>3 DEF PushUnlock, Pending, TaskAt
  <2>2. ~Holding' /\ Queued' = Queued /\ main'.pc = "accept"
    BY <1>3 DEF PushUnlock, Holding, Queued
  <2> QED BY <1>3, <1>a, <2>1, <2>2 DEF FifoInv, PushUnlock
<1>4. CASE PushStore
  <2>1. Pending' = Pending /\ Holding /\ Holding' /\ Queued' = Queued /\ main'.pc = "advance"
        /\ main'.fd = main.fd
    BY <1>4, <1>b DEF PushStore, Pending, Holding, Queued, PoolTypeOK
  <2>2. ring'[tail] = main.fd 
    BY <1>4, <1>b DEF PushStore, PoolTypeOK
  <2>3. \A k \in 1 .. Pending : TaskAt(k)' = TaskAt(k)
    BY <1>4, <1>b, StoreRing DEF PushStore
  <2>4. \A w \in Pool : ~ThreadInside(w)
    BY <1>4, <1>b DEF PushStore, Owned, MainInside
  <2>5. \A w \in Pool : thread'[w] = thread[w] /\ thread[w].pc \notin {"take", "advance"}
    BY <1>4, <2>4 DEF PushStore, ThreadInside
  <2> QED BY <1>4, <1>a, <2>1, <2>2, <2>3, <2>5 DEF FifoInv, PushStore
<1>5. CASE PushAdvance
  <2>1. Holding /\ ~Holding' /\ opened' = opened /\ Queued = opened - 1 /\ Queued' = opened
        /\ main.fd = opened /\ ring[tail] = opened /\ main'.pc = "signal"
    BY <1>5, <1>b DEF PushAdvance, Holding, Queued, FifoInv, PoolTypeOK
  <2>2. opened > 0
    BY <2>1 DEF FifoInv
  <2>3. \A k \in 1 .. Pending' : TaskAt(k)' \in 1 .. Queued'
    <3>1. CASE Pending = Sum - 1
      BY <1>5, <1>b, <3>1, PushFull DEF PushAdvance
    <3>2. CASE Pending < Sum - 1
      <4>1. /\ Pending' = Pending + 1
            /\ \A k \in 1 .. Pending : TaskAt(k)' = TaskAt(k)
            /\ \A k : k = Pending + 1 => TaskAt(k)' = ring[tail]
        BY <1>5, <1>b, <3>2, PushRing DEF PushAdvance
      <4> SUFFICES ASSUME NEW k \in 1 .. Pending' PROVE TaskAt(k)' \in 1 .. Queued'
        OBVIOUS
      <4>2. CASE k = Pending + 1
        BY <1>d, <2>1, <2>2, <4>1, <4>2
      <4>3. CASE k \in 1 .. Pending
        BY <1>d, <2>1, <4>1, <4>3 DEF FifoInv
      <4> QED BY <1>c, <4>1, <4>2, <4>3
    <3> QED BY <1>c, <3>1, <3>2
  <2>4. lost' \subseteq 1 .. Queued'
    <3>1. InRing \subseteq 1 .. Queued /\ lost \subseteq 1 .. Queued
      BY DEF FifoInv, InRing
    <3> QED BY <1>5, <1>d, <2>1, <2>2, <3>1 DEF PushAdvance
  <2>5. \A w \in Pool : thread'[w] = thread[w] /\ thread[w].pc \notin {"take", "advance"}
    BY <1>5, <1>b DEF PushAdvance, Owned, MainInside, ThreadInside
  <2> QED BY <1>5, <1>a, <1>d, <2>1, <2>3, <2>4, <2>5 DEF FifoInv, PushAdvance
<1>6. ASSUME NEW w \in Pool, PopTake(w) \/ PopTest(w) \/ PopLock(w) \/ PopWait(w)
                \/ PopWake(w) \/ PopUnlock(w) \/ do_echo(w)
      PROVE  FifoInv'
  <2>1. UNCHANGED <<ring, head, tail, lost, main, opened>>
    BY <1>6 DEF PopTake, PopTest, PopLock, PopWait, PopWake, PopUnlock,
                do_echo, EchoRecv, EchoSend, SendFails, EchoEnds
  <2>2. /\ Pending' = Pending /\ (\A k : TaskAt(k)' = TaskAt(k))
        /\ Queued' = Queued /\ (Holding' <=> Holding)
    BY <2>1 DEF Pending, TaskAt, Queued, Holding
  <2>3. \A v \in Pool \ {w} : thread'[v] = thread[v]
    BY <1>6, <1>b DEF PopTake, PopTest, PopLock, PopWait, PopWake, PopUnlock,
                      do_echo, EchoRecv, EchoSend, SendFails, EchoEnds, PoolTypeOK, Goto
  <2>4. /\ thread'[w].pc \in {"take", "advance"} => head # tail
        /\ thread'[w].pc = "advance" => thread'[w].fd = ring[head]
        /\ thread'[w].pc \in {"unlock", "echo", "send"} => thread'[w].fd \in 1 .. Queued
    BY <1>6, <1>b DEF PopTake, PopTest, PopLock, PopWait, PopWake, PopUnlock,
                      do_echo, EchoRecv, EchoSend, SendFails, EchoEnds, PoolTypeOK, Goto, FifoInv
  <2> QED BY <1>a, <2>1, <2>2, <2>3, <2>4 DEF FifoInv
<1>7. ASSUME NEW w \in Pool, PopAdvance(w)
      PROVE  FifoInv'
  <2>1. /\ head # tail /\ thread[w].fd = ring[head] /\ UNCHANGED <<main, opened, lost>>
        /\ Queued' = Queued /\ (Holding' <=> Holding)
    BY <1>7 DEF PopAdvance, FifoInv, Queued, Holding
  <2>2. /\ Pending > 0 /\ Pending' = Pending - 1
        /\ \A k \in 1 .. Pending - 1 : TaskAt(k)' = TaskAt(k + 1)
        /\ TaskAt(1) = ring[head]
    BY <1>7, <1>b, <2>1, PopRing DEF PopAdvance
  <2>3. thread[w].fd \in 1 .. Queued
    BY <1>c, <2>1, <2>2 DEF FifoInv
  <2>4. \A k \in 1 .. Pending' : TaskAt(k)' \in 1 .. Queued'
    BY <1>c, <2>1, <2>2 DEF FifoInv
  <2>5. \A v \in Pool \ {w} : thread'[v] = thread[v] /\ ~ThreadInside(v)
    BY <1>7, <1>b DEF PopAdvance, Goto, PoolTypeOK, Owned, ThreadInside
  <2>6. thread'[w].pc = "unlock" /\ thread'[w].fd = thread[w].fd
    BY <1>7, <1>b DEF PopAdvance, Goto, PoolTypeOK
  <2>7. main.pc # "advance"
    BY <1>7, <1>b DEF PopAdvance, Owned, MainInside, ThreadInside
  <2> QED
    BY <1>a, <2>1, <2>3, <2>4, <2>5, <2>6, <2>7 DEF FifoInv, ThreadInside
<1>8. CASE AcceptEnds \/ PushLock \/ PushSignal
  <2>1. UNCHANGED <<ring, head, tail, lost, thread, opened>>
    BY <1>8 DEF AcceptEnds, PushLock, PushSignal
  <2>2. \/ main.pc = "accept" /\ main' = [main EXCEPT !.pc = "exit"]
        \/ main.pc = "lock" /\ main' = [main EXCEPT !.pc = "store"]
        \/ main.pc = "signal" /\ main' = [main EXCEPT !.pc = "unlock"]
    BY <1>8 DEF AcceptEnds, PushLock, PushSignal
  <2>3. /\ main'.fd = main.fd
        /\ \/ main.pc = "accept" /\ main'.pc = "exit"
           \/ main.pc = "lock" /\ main'.pc = "store"
           \/ main.pc = "signal" /\ main'.pc = "unlock"
    BY <1>b, <2>2 DEF PoolTypeOK
  <2> QED BY <1>2, <2>1, <2>3
<1>9. ASSUME NEW w \in Pool, thread_run(w) PROVE FifoInv'
  BY <1>6, <1>7, <1>9 DEF thread_run, TaskQueuePop
<1>10. ASSUME NEW w \in Pool, SpuriousWakeup(w) PROVE FifoInv'
  BY <1>2, <1>10 DEF SpuriousWakeup
<1>11. ASSUME NEW n \in Sockets, Peer(n) PROVE FifoInv'
  BY <1>2, <1>11 DEF Peer, ClientSays, ClientCloses, ResetComes
<1>12. CASE UNCHANGED poolVars
  BY <1>2, <1>12 DEF poolVars
<1>13. CASE MainNext
  BY <1>1, <1>3, <1>4, <1>5, <1>8, <1>13 DEF MainNext
<1> QED
  BY <1>9, <1>10, <1>11, <1>12, <1>13 DEF PoolNext

-----------------------------------------------------------------------------
(* The refinement.                                                         *)

LEMMA TasksType == FifoInv => Tasks \in Seq(Sockets) /\ Len(Tasks) = Pending
<1> SUFFICES ASSUME FifoInv PROVE Tasks \in Seq(Sockets) /\ Len(Tasks) = Pending
  OBVIOUS
<1>1. Pending \in Nat
  BY PendingType, PoolAssumption DEF FifoInv, PoolInv
<1>2. \A k \in 1 .. Pending : TaskAt(k) \in Sockets
  BY PoolAssumption DEF FifoInv, PoolInv, PoolTypeOK, Queued, Sockets
<1>3. Tasks \in [1 .. Pending -> Sockets]
  BY <1>2 DEF Tasks
<1> QED BY <1>1, <1>3

LEMMA StepRefines ==
  ASSUME FifoInv, FifoInv', [PoolNext]_poolVars
  PROVE  [Fifo!Next]_<<Tasks, Serving, lost>>
<1> USE PoolAssumption DEF ringVars
<1>a. PoolTypeOK /\ PoolTypeOK' /\ Owned
  BY DEF FifoInv, PoolInv
<1>b. Tasks \in Seq(Sockets) /\ Len(Tasks) = Pending /\ Tasks' \in Seq(Sockets) /\ Len(Tasks') = Pending'
  <2>1. FifoInv' => (Tasks \in Seq(Sockets) /\ Len(Tasks) = Pending)'
    BY TasksType, PTL
  <2> QED BY TasksType, <2>1
<1>c. Pending \in 0 .. Sum - 1
  BY <1>a, PendingType
<1>1. CASE PushAdvance
  <2>1. /\ main.fd = opened /\ opened > 0 /\ Queued = opened - 1 /\ ring[tail] = main.fd
        /\ main.fd \in Sockets
    BY <1>1, <1>a DEF PushAdvance, FifoInv, Holding, Queued, PoolTypeOK
  <2>2. Serving' = Serving
    BY <1>1 DEF PushAdvance, Serving
  <2>3. DOMAIN Tasks = 1 .. Pending /\ Fifo!Waiting = InRing
    BY DEF Tasks, Fifo!Waiting, InRing
  <2>4. Fifo!New(main.fd)
    <3>1. \A w \in Pool : Serving[w] # main.fd
      BY <1>a, <2>1 DEF Serving, FifoInv, PoolTypeOK
    <3>2. main.fd \notin InRing \cup lost
      BY <1>a, <2>1 DEF InRing, FifoInv, PoolTypeOK
    <3> QED BY <2>3, <3>1, <3>2 DEF Fifo!New
  <2>5. CASE Pending = Sum - 1
    <3>1. Pending' = 0 /\ lost' = lost \cup InRing \cup {main.fd}
      BY <1>1, <1>a, <2>5, PushFull DEF PushAdvance
    <3>2. Tasks' = <<>>
      BY <1>b, <3>1, EmptySeq
    <3> QED BY <1>b, <2>1, <2>2, <2>3, <2>4, <2>5, <3>1, <3>2 DEF Fifo!Next, Fifo!Overflow
  <2>6. CASE Pending < Sum - 1
    <3>1. /\ Pending' = Pending + 1
          /\ \A k \in 1 .. Pending : TaskAt(k)' = TaskAt(k)
          /\ \A k : k = Pending + 1 => TaskAt(k)' = ring[tail]
      BY <1>1, <1>a, <2>6, PushRing DEF PushAdvance
    <3>2. Append(Tasks, main.fd) \in Seq(Sockets) /\ Len(Append(Tasks, main.fd)) = Pending'
      BY <1>b, <2>1, <3>1, AppendProperties
    <3>3. \A k \in 1 .. Pending' : Tasks'[k] = Append(Tasks, main.fd)[k]
      BY <1>b, <1>c, <2>1, <3>1, AppendProperties DEF Tasks
    <3>4. Tasks' = Append(Tasks, main.fd)
      BY <1>b, <3>2, <3>3, SeqEqual
    <3>5. lost' = lost
      BY <1>1, <1>a, <2>6, <1>c, PushFull DEF PushAdvance
    <3> QED BY <1>b, <2>1, <2>2, <2>4, <2>6, <3>4, <3>5 DEF Fifo!Next, Fifo!Push
  <2> QED BY <1>c, <2>5, <2>6
<1>2. ASSUME NEW w \in Pool, PopAdvance(w)
      PROVE  Fifo!Pop(w)
  <2>1. head # tail /\ thread[w].fd = ring[head]
    BY <1>2 DEF PopAdvance, FifoInv
  <2>2. /\ Pending > 0 /\ Pending' = Pending - 1
        /\ \A k \in 1 .. Pending - 1 : TaskAt(k)' = TaskAt(k + 1)
        /\ TaskAt(1) = ring[head]
    BY <1>2, <1>a, <2>1, PopRing DEF PopAdvance
  <2>3. Tasks # <<>> /\ Head(Tasks) = thread[w].fd
    BY <1>b, <1>c, <2>1, <2>2 DEF Tasks
  <2>4. Tasks' = Tail(Tasks)
    <3>1. Tail(Tasks) \in Seq(Sockets) /\ Len(Tail(Tasks)) = Pending'
      BY <1>b, <2>2, <2>3, HeadTailProperties
    <3>2. \A k \in 1 .. Pending' : Tail(Tasks)[k] = Tasks[k + 1]
      BY <1>b, <2>3, <3>1, HeadTailProperties
    <3>3. \A k \in 1 .. Pending' : Tasks'[k] = Tasks[k + 1]
      BY <1>c, <2>2 DEF Tasks
    <3>4. \A k \in 1 .. Pending' : Tasks'[k] = Tail(Tasks)[k]
      BY <3>2, <3>3
    <3> QED BY <1>b, <3>1, <3>4, SeqEqual
  <2>5. Serving[w] = 0
    BY <1>2 DEF PopAdvance, Serving
  <2>6. Serving' = [Serving EXCEPT ![w] = thread[w].fd]
    BY <1>2, <1>a DEF PopAdvance, Goto, Serving, PoolTypeOK
  <2> QED BY <1>2, <2>3, <2>4, <2>5, <2>6 DEF PopAdvance, Fifo!Pop
<1>3. ASSUME NEW w \in Pool, EchoEnds(w)
      PROVE  Fifo!Finish(w)
  <2>1. Tasks' = Tasks
    BY <1>3 DEF EchoEnds, Tasks, Pending, TaskAt
  <2>2. Serving[w] # 0
    BY <1>3 DEF EchoEnds, Serving, FifoInv
  <2>3. Serving' = [Serving EXCEPT ![w] = 0]
    BY <1>3, <1>a DEF EchoEnds, Serving, PoolTypeOK
  <2> QED BY <1>3, <2>1, <2>2, <2>3 DEF EchoEnds, Fifo!Finish
<1>4. CASE PushStore
  <2>1. \A k \in 1 .. Pending : TaskAt(k)' = TaskAt(k)
    BY <1>4, StoreRing, <1>a DEF PushStore
  <2>2. Pending' = Pending /\ Serving' = Serving
    BY <1>4 DEF PushStore, Pending, Serving
  <2> QED BY <1>4, <2>1, <2>2 DEF PushStore, Tasks
<1>5. CASE Accept \/ AcceptEnds \/ PushLock \/ PushSignal \/ PushUnlock \/ UNCHANGED poolVars
  BY <1>5 DEF Accept, AcceptEnds, PushLock, PushSignal, PushUnlock, poolVars,
              Tasks, Serving, Pending, TaskAt
<1>6. ASSUME NEW w \in Pool, PopLock(w) \/ PopWait(w) \/ PopWake(w) \/ PopTest(w)
                \/ PopTake(w) \/ PopUnlock(w)
                \/ EchoRecv(w) \/ EchoSend(w) \/ SendFails(w)
      PROVE  UNCHANGED <<Tasks, Serving, lost>>
  <2>1. Tasks' = Tasks /\ lost' = lost
    BY <1>6 DEF PopLock, PopWait, PopWake, PopTest, PopTake, PopUnlock,
                EchoRecv, EchoSend, SendFails, Tasks, Pending, TaskAt
  <2>2. \A v \in Pool : Serving'[v] = Serving[v]
    BY <1>6, <1>a DEF PopLock, PopWait, PopWake, PopTest, PopTake, PopUnlock, Goto,
                      EchoRecv, EchoSend, SendFails, Serving, PoolTypeOK
  <2> QED BY <2>1, <2>2 DEF Serving
<1>7. ASSUME NEW w \in Pool, SpuriousWakeup(w)
      PROVE  UNCHANGED <<Tasks, Serving, lost>>
  BY <1>7 DEF SpuriousWakeup, Tasks, Serving, Pending, TaskAt
<1>8. ASSUME NEW n \in Sockets, Peer(n)
      PROVE  UNCHANGED <<Tasks, Serving, lost>>
  BY <1>8 DEF Peer, ClientSays, ClientCloses, ResetComes, Tasks, Serving, Pending, TaskAt
<1>9. ASSUME NEW w \in Pool, thread_run(w)
      PROVE  [Fifo!Next]_<<Tasks, Serving, lost>>
  BY <1>2, <1>3, <1>6, <1>9 DEF thread_run, TaskQueuePop, do_echo, Fifo!Next
<1>10. CASE MainNext
  BY <1>1, <1>4, <1>5, <1>10 DEF MainNext
<1> QED
  BY <1>5, <1>7, <1>8, <1>9, <1>10 DEF PoolNext

(* The ring with its lock and its condition implements a FIFO queue with   *)
(* room for one connection less than it has entries: none is overtaken or  *)
(* served twice, and none is lost but by the push that finds it full, when *)
(* all are (lines 59-96).                                                  *)
THEOREM QueueIsFifo == PoolSpec => ImplementsFifo
<1>1. PoolInit => FifoInv
  BY InitFifo
<1>2. FifoInv /\ [PoolNext]_poolVars => FifoInv'
  BY StepFifo
<1>3. PoolInit => Fifo!Init
  <2> SUFFICES ASSUME PoolInit PROVE Fifo!Init
    OBVIOUS
  <2>1. Pending = 0
    BY DEF PoolInit, Pending
  <2>2. Tasks = <<>>
    BY <2>1, <1>1, TasksType, EmptySeq
  <2> QED BY <2>2 DEF PoolInit, Fifo!Init, Serving
<1>4. FifoInv /\ FifoInv' /\ [PoolNext]_poolVars => [Fifo!Next]_<<Tasks, Serving, lost>>
  BY StepRefines
<1> QED BY <1>1, <1>2, <1>3, <1>4, PTL DEF PoolSpec, ImplementsFifo, Fifo!Spec

-----------------------------------------------------------------------------
(***************************************************************************)
(* The epoll server.                                                       *)
(***************************************************************************)

(* A connection is accepted once, from the backlog, and only when its      *)
(* client has connected.                                                   *)
Fresh ==
  /\ \A i \in DOMAIN backlog :
       /\ peer[backlog[i]] # "none"
       /\ \A n \in Fds : fdt[n] # backlog[i]
       /\ \A j \in DOMAIN backlog : backlog[i] = backlog[j] => i = j
  /\ \A c \in Conns : peer[c] = "none" => \A n \in Fds : fdt[n] # c

(* A connection has one descriptor at most.                                *)
Single == \A m, n \in Fds : fdt[m] \in Conns /\ fdt[m] = fdt[n] => m = n

(* What a client has not sent is not received, and only one that has left  *)
(* resets its connection: when it has left answers, or is sent one more.   *)
Honest(c) ==
  /\ peer[c] = "none" => unread[c] = 0
  /\ rst[c] # "none" => peer[c] = "closed"
  /\ rst[c] # "none" /\ TookAnswers(c) /\ c \notin filled => unread[c] = 0

(* EchoExact, for clients that have not connected yet too.                 *)
EchoSoFar(c) ==
  peer[c] # "closed" /\ c \notin filled \cup short => echoed[c] + unread[c] = said[c]

EpollInv ==
  /\ TypeOK
  /\ Fresh
  /\ Single
  /\ \A c \in Conns : Honest(c) /\ EchoSoFar(c)
  /\ EventsFresh
  /\ NotForgotten

-----------------------------------------------------------------------------
(* The lists of the kernel and of the loop: no descriptor is there twice.  *)
LEMMA ListedKeeps ==
  ASSUME NEW S, NEW list \in Seq(S), IsInjective(list), NEW f \in S
  PROVE  /\ Listed(list, f) \in Seq(S)
         /\ IsInjective(Listed(list, f))
         /\ Range(list) \cup {f} \subseteq Range(Listed(list, f))
<1>1. CASE f \in Range(list)
  BY <1>1 DEF Listed
<1>2. CASE f \notin Range(list)
  <2> DEFINE w == Append(list, f)
  <2>1. Listed(list, f) = w
    BY <1>2 DEF Listed
  <2>2. /\ w \in Seq(S) /\ Len(w) = Len(list) + 1
        /\ \A i \in 1 .. Len(list) : w[i] = list[i]
        /\ w[Len(list) + 1] = f
    BY AppendProperties
  <2>3. /\ Len(list) \in Nat /\ DOMAIN list = 1 .. Len(list)
        /\ DOMAIN w = 1 .. Len(list) + 1
    BY <2>2, LenProperties
  <2> HIDE DEF w
  <2>4. \A i \in DOMAIN list : list[i] # f
    BY <1>2 DEF Range
  <2>5. \A i \in DOMAIN w : i \in DOMAIN list \/ i = Len(list) + 1
    BY <2>3
  <2>6. IsInjective(w)
    <3> SUFFICES ASSUME NEW i \in DOMAIN w, NEW j \in DOMAIN w, w[i] = w[j] PROVE i = j
      BY DEF IsInjective
    <3>1. CASE i \in DOMAIN list /\ j \in DOMAIN list
      BY <2>2, <2>3, <3>1 DEF IsInjective
    <3>2. CASE i \in DOMAIN list /\ j = Len(list) + 1
      BY <2>2, <2>3, <2>4, <3>2
    <3>3. CASE i = Len(list) + 1 /\ j \in DOMAIN list
      BY <2>2, <2>3, <2>4, <3>3
    <3> QED BY <2>5, <3>1, <3>2, <3>3
  <2>7. Range(list) \cup {f} \subseteq Range(w)
    <3>1. \A i \in DOMAIN list : i \in DOMAIN w /\ w[i] = list[i]
      BY <2>2, <2>3
    <3>2. Len(list) + 1 \in DOMAIN w
      BY <2>3
    <3> QED BY <2>2, <3>1, <3>2 DEF Range
  <2> QED BY <2>1, <2>2, <2>6, <2>7
<1> QED BY <1>1, <1>2

LEMMA TailKeeps ==
  ASSUME NEW S, NEW list \in Seq(S), IsInjective(list), list # <<>>
  PROVE  /\ Tail(list) \in Seq(S) /\ Len(Tail(list)) <= Len(list)
         /\ IsInjective(Tail(list))
         /\ Head(list) \in S
         /\ Range(Tail(list)) = Range(list) \ {Head(list)}
<1>1. /\ Head(list) \in S /\ Tail(list) \in Seq(S)
      /\ Len(Tail(list)) = Len(list) - 1
      /\ \A i \in 1 .. Len(Tail(list)) : Tail(list)[i] = list[i + 1]
  BY HeadTailProperties
<1>2. /\ Len(list) \in Nat /\ Len(list) # 0 /\ DOMAIN list = 1 .. Len(list)
      /\ DOMAIN Tail(list) = 1 .. Len(Tail(list))
  BY <1>1, LenProperties, EmptySeq
<1>3. Head(list) = list[1] /\ 1 \in DOMAIN list
  BY <1>2
<1>4. \A i \in DOMAIN Tail(list) : i + 1 \in DOMAIN list /\ i \in Nat /\ i + 1 # 1
  BY <1>1, <1>2
<1>5. \A i \in DOMAIN list : i = 1 \/ (i - 1 \in DOMAIN Tail(list) /\ (i - 1) + 1 = i)
  BY <1>1, <1>2
<1> DEFINE t == Tail(list)
<1>6. \A i \in DOMAIN t : t[i] = list[i + 1]
  BY <1>1, <1>2
<1> HIDE DEF t
<1>7. IsInjective(t)
  BY <1>4, <1>6 DEF IsInjective, t
<1>8. Range(t) \subseteq Range(list) \ {Head(list)}
  BY <1>3, <1>4, <1>6 DEF IsInjective, Range, t
<1>9. Range(list) \ {Head(list)} \subseteq Range(t)
  <2> SUFFICES ASSUME NEW i \in DOMAIN list, list[i] # list[1] PROVE list[i] \in Range(t)
    BY <1>3 DEF Range
  <2>1. i - 1 \in DOMAIN t /\ t[i - 1] = list[i]
    BY <1>5, <1>6 DEF t
  <2> QED BY <2>1 DEF Range
<1>10. Len(Tail(list)) <= Len(list)
  BY <1>1, <1>2
<1> QED BY <1>1, <1>7, <1>8, <1>9, <1>10 DEF t

(* The end of a list.                                                      *)
LEMMA RestKeeps ==
  ASSUME NEW S, NEW list \in Seq(S), IsInjective(list), NEW k \in 0 .. Len(list)
  PROVE  LET rest == SubSeq(list, k + 1, Len(list))
         IN  /\ rest \in Seq(S)
             /\ IsInjective(rest)
             /\ Range(rest) = {list[i] : i \in k + 1 .. Len(list)}
<1> DEFINE n == Len(list)
           rest == SubSeq(list, k + 1, n)
<1>1. n \in Nat /\ DOMAIN list = 1 .. n /\ \A i \in 1 .. n : list[i] \in S
  BY LenProperties, ElementOfSeq
<1>2. \A i \in k + 1 .. n : list[i] \in S
  BY <1>1
<1>3. k + 1 \in Int /\ n \in Int
  BY <1>1
<1>4. /\ rest \in Seq(S)
      /\ Len(rest) = IF k + 1 <= n THEN n - (k + 1) + 1 ELSE 0
      /\ \A i \in 1 .. n - (k + 1) + 1 : rest[i] = list[k + 1 + i - 1]
  BY <1>2, <1>3, SubSeqProperties
<1> HIDE DEF rest, n
<1>5. Len(rest) = n - k /\ DOMAIN rest = 1 .. n - k
  <2>1. k <= n
    BY <1>1 DEF n
  <2>2. Len(rest) = n - k
    BY <1>1, <1>4, <2>1
  <2> QED BY <1>4, <2>2, LenProperties
<1>6. \A i \in 1 .. n - k : rest[i] = list[k + i] /\ k + i \in k + 1 .. n /\ k + i \in 1 .. n
  <2> SUFFICES ASSUME NEW i \in 1 .. n - k
               PROVE  rest[i] = list[k + i] /\ k + i \in k + 1 .. n /\ k + i \in 1 .. n
    OBVIOUS
  <2>1. i \in 1 .. n - (k + 1) + 1 /\ k + 1 + i - 1 = k + i
    BY <1>1
  <2>2. k + i \in k + 1 .. n /\ k + i \in 1 .. n
    BY <1>1
  <2> QED BY <1>4, <2>1, <2>2
<1>7. \A i \in k + 1 .. n : i - k \in 1 .. n - k /\ k + (i - k) = i
  BY <1>1
<1>8. IsInjective(rest)
  <2> SUFFICES ASSUME NEW i \in 1 .. n - k, NEW j \in 1 .. n - k, rest[i] = rest[j] PROVE i = j
    BY <1>5 DEF IsInjective
  <2>1. k + i = k + j
    BY <1>1, <1>6 DEF IsInjective
  <2> QED BY <2>1
<1>9. Range(rest) = {list[i] : i \in k + 1 .. n}
  <2>1. Range(rest) \subseteq {list[i] : i \in k + 1 .. n}
    BY <1>5, <1>6 DEF Range
  <2>2. ASSUME NEW i \in k + 1 .. n PROVE list[i] \in Range(rest)
    <3>1. i - k \in 1 .. n - k /\ rest[i - k] = list[i]
      BY <1>6, <1>7
    <3> QED BY <1>5, <3>1 DEF Range
  <2> QED BY <2>1, <2>2
<1> QED BY <1>4, <1>8, <1>9 DEF rest, n

(* A descriptor is taken off a list, and the others stay on it.            *)
LEMMA UnlistedKeeps ==
  ASSUME NEW S, NEW list \in Seq(S), IsInjective(list), NEW f
  PROVE  /\ Unlisted(list, f) \in Seq(S)
         /\ IsInjective(Unlisted(list, f))
         /\ Range(list) \ {f} \subseteq Range(Unlisted(list, f))
<1>1. CASE f \notin Range(list)
  BY <1>1 DEF Unlisted
<1>2. CASE f \in Range(list)
  <2> DEFINE i == CHOOSE j \in DOMAIN list : list[j] = f
             n == Len(list)
             a == SubSeq(list, 1, i - 1)
             b == SubSeq(list, i + 1, n)
             w == a \o b
  <2>1. i \in DOMAIN list /\ list[i] = f
    BY <1>2 DEF Range
  <2>2. n \in Nat /\ DOMAIN list = 1 .. n /\ \A j \in 1 .. n : list[j] \in S
    BY LenProperties, ElementOfSeq
  <2>3. Unlisted(list, f) = w
    BY <1>2 DEF Unlisted
  <2> HIDE DEF i, n
  <2>4. /\ i - 1 \in Int /\ i + 1 \in Int /\ 1 \in Int /\ n \in Int
        /\ \A j \in 1 .. i - 1 : list[j] \in S
        /\ \A j \in i + 1 .. n : list[j] \in S
    BY <2>1, <2>2
  <2>5. /\ a \in Seq(S)
        /\ Len(a) = IF 1 <= i - 1 THEN i - 1 - 1 + 1 ELSE 0
        /\ \A j \in 1 .. i - 1 - 1 + 1 : a[j] = list[1 + j - 1]
    BY <2>4, SubSeqProperties
  <2>6. /\ b \in Seq(S)
        /\ Len(b) = IF i + 1 <= n THEN n - (i + 1) + 1 ELSE 0
        /\ \A j \in 1 .. n - (i + 1) + 1 : b[j] = list[i + 1 + j - 1]
    BY <2>4, SubSeqProperties
  <2> HIDE DEF a, b
  <2>7. /\ w \in Seq(S) /\ Len(w) = Len(a) + Len(b)
        /\ \A j \in 1 .. Len(a) + Len(b) : w[j] = IF j <= Len(a) THEN a[j] ELSE b[j - Len(a)]
    BY <2>5, <2>6, ConcatProperties
  <2> HIDE DEF w
  <2>8. Len(a) = i - 1 /\ Len(b) = n - i /\ i \in 1 .. n
    BY <2>1, <2>2, <2>5, <2>6
  <2>9. DOMAIN w = 1 .. n - 1
    <3>1. Len(w) = n - 1
      BY <2>2, <2>7, <2>8
    <3> QED BY <2>7, <3>1, LenProperties
  <2>10. \A j \in 1 .. n - 1 : w[j] = IF j < i THEN list[j] ELSE list[j + 1]
    <3> SUFFICES ASSUME NEW j \in 1 .. n - 1
                 PROVE  w[j] = IF j < i THEN list[j] ELSE list[j + 1]
      OBVIOUS
    <3>1. j \in 1 .. Len(a) + Len(b)
      BY <2>2, <2>8
    <3>2. CASE j < i
      <4>1. j <= Len(a) /\ j \in 1 .. i - 1 - 1 + 1 /\ 1 + j - 1 = j
        BY <2>2, <2>8, <3>2
      <4> QED BY <2>5, <2>7, <3>1, <3>2, <4>1
    <3>3. CASE ~(j < i)
      <4>1. ~(j <= Len(a)) /\ j - Len(a) \in 1 .. n - (i + 1) + 1
              /\ i + 1 + (j - Len(a)) - 1 = j + 1
        BY <2>2, <2>8, <3>3
      <4>2. w[j] = b[j - Len(a)]
        BY <2>7, <3>1, <4>1
      <4>3. b[j - Len(a)] = list[j + 1]
        BY <2>6, <4>1
      <4> QED BY <3>3, <4>2, <4>3
    <3> QED BY <3>2, <3>3
  <2> DEFINE p(j) == IF j < i THEN j ELSE j + 1
  <2>11. \A j \in 1 .. n - 1 : p(j) \in 1 .. n /\ w[j] = list[p(j)]
    BY <2>2, <2>8, <2>10
  <2>12. \A j, k \in 1 .. n - 1 : p(j) = p(k) => j = k
    BY <2>2, <2>8
  <2>13. IsInjective(w)
    <3> SUFFICES ASSUME NEW j \in 1 .. n - 1, NEW k \in 1 .. n - 1, w[j] = w[k] PROVE j = k
      BY <2>9 DEF IsInjective
    <3> HIDE DEF p
    <3>1. p(j) = p(k)
      BY <2>2, <2>11 DEF IsInjective
    <3> QED BY <2>12, <3>1
  <2>14. Range(list) \ {f} \subseteq Range(w)
    <3> SUFFICES ASSUME NEW j \in 1 .. n, list[j] # f PROVE list[j] \in Range(w)
      BY <2>2 DEF Range
    <3>1. j # i
      BY <2>1
    <3>2. \E k \in 1 .. n - 1 : p(k) = j
      <4>1. CASE j < i
        <5>1. j \in 1 .. n - 1 /\ p(j) = j
          BY <2>2, <2>8, <4>1
        <5> QED BY <5>1
      <4>2. CASE ~(j < i)
        <5>1. j - 1 \in 1 .. n - 1 /\ p(j - 1) = j
          BY <2>2, <2>8, <3>1, <4>2
        <5> QED BY <5>1
      <4> QED BY <4>1, <4>2
    <3> HIDE DEF p
    <3> QED BY <2>9, <2>11, <3>2 DEF Range
  <2> QED BY <2>3, <2>7, <2>13, <2>14
<1> QED BY <1>1, <1>2

-----------------------------------------------------------------------------

Ids == {Listener} \cup Fds

LEMMA Lists ==
  ASSUME TypeOK
  PROVE  /\ ready \in Seq(Ids) /\ IsInjective(ready)
         /\ events \in Seq(Ids) /\ Len(events) <= MaxEvents
BY DEF TypeOK, Ids

LEMMA InitEpoll == Init => EpollInv
<1> SUFFICES ASSUME Init PROVE EpollInv
  OBVIOUS
<1>1. TypeOK
  <2>1. \A S : <<>> \in Seq(S) /\ Len(<<>>) = 0 /\ IsInjective(<<>>)
    BY DEF IsInjective
  <2>2. 0 <= MaxEvents /\ 0 \in 0 .. Window
    BY EpollAssumption
  <2>3. \A c \in Conns : 0 <= MaxSay[c] /\ 0 \in 0 .. 0
    BY EpollAssumption
  <2> QED BY <2>1, <2>2, <2>3 DEF Init, TypeOK
<1>2. Fresh /\ Single
  BY EpollAssumption DEF Init, Fresh, Single
<1>3. \A c \in Conns : Honest(c) /\ EchoSoFar(c)
  BY DEF Init, Honest, EchoSoFar
<1>4. EventsFresh /\ NotForgotten
  BY DEF Init, EventsFresh, NotForgotten, IsInjective
<1> QED BY <1>1, <1>2, <1>3, <1>4 DEF EpollInv

(* An event on c lists its descriptor, if it has one, and takes none away. *)
LEMMA WakeKeeps ==
  ASSUME EpollInv, NEW c \in Conns, Wake(c)
  PROVE  /\ ready' \in Seq(Ids) /\ IsInjective(ready')
         /\ Range(ready) \subseteq Range(ready')
         /\ \A n \in Fds : fdt[n] = c => n \in Range(ready')
<1>1. ready \in Seq(Ids) /\ IsInjective(ready)
  BY Lists DEF EpollInv
<1>2. CASE \E n \in Fds : fdt[n] = c
  <2> DEFINE m == CHOOSE n \in Fds : fdt[n] = c
  <2>1. m \in Fds /\ fdt[m] = c
    BY <1>2
  <2>2. ready' = Listed(ready, m)
    BY <1>2 DEF Wake
  <2> HIDE DEF m
  <2>3. \A n \in Fds : fdt[n] = c => n = m
    BY <2>1 DEF EpollInv, Single
  <2>4. m \in Ids
    BY <2>1 DEF Ids
  <2>5. /\ ready' \in Seq(Ids) /\ IsInjective(ready')
        /\ Range(ready) \cup {m} \subseteq Range(ready')
    BY <1>1, <2>2, <2>4, ListedKeeps
  <2> QED BY <2>3, <2>5
<1>3. CASE ~\E n \in Fds : fdt[n] = c
  <2>1. ready' = ready
    BY <1>3 DEF Wake
  <2> QED BY <1>1, <1>3, <2>1
<1> QED BY <1>2, <1>3

(* The loop goes on to the next event.                                     *)
LEMMA NextEvent ==
  ASSUME EpollInv, events # <<>>, events' = Tail(events)
  PROVE  /\ events' \in Seq(Ids) /\ Len(events') <= MaxEvents
         /\ IsInjective(events')
         /\ Head(events) \in Ids
         /\ Range(events') = Range(events) \ {Head(events)}
<1>1. events \in Seq(Ids) /\ Len(events) <= MaxEvents /\ IsInjective(events)
  BY Lists DEF EpollInv, EventsFresh
<1>2. /\ Tail(events) \in Seq(Ids) /\ Len(Tail(events)) <= Len(events)
      /\ IsInjective(Tail(events)) /\ Head(events) \in Ids
      /\ Range(Tail(events)) = Range(events) \ {Head(events)}
  BY <1>1, TailKeeps
<1>3. Len(Tail(events)) <= MaxEvents
  <2>1. Len(Tail(events)) \in Nat /\ Len(events) \in Nat /\ MaxEvents \in Nat
    BY <1>1, <1>2, LenProperties, EpollAssumption
  <2> QED BY <1>1, <1>2, <2>1
<1> QED BY <1>2, <1>3

(* What EventsFresh says, without places.                                  *)
LEMMA FreshEvents == EventsFresh <=> IsInjective(events) /\ \A f \in Range(events) : IsReady(f)
BY DEF EventsFresh, Range

-----------------------------------------------------------------------------
(* Clients, and the kernel at their end.                                   *)

(* A client makes nothing less ready; what it makes ready is listed.       *)
LEMMA ClientKeeps ==
  ASSUME EpollInv, fdt' = fdt, events' = events, filled' = filled,
         backlog # <<>> => backlog' # <<>>,
         Range(ready) \subseteq Range(ready'),
         \A d \in Conns : Ready(d) => Ready(d)',
         \A n \in Fds :
           fdt[n] # None /\ Ready(fdt[n])' /\ TookAnswers(fdt[n])' =>
             \/ /\ Ready(fdt[n]) /\ TookAnswers(fdt[n])
                /\ rst[fdt[n]] = "due" => rst'[fdt[n]] = "due"
             \/ n \in Range(ready')
  PROVE  EventsFresh' /\ NotForgotten'
<1>1. fdt \in [Fds -> Conns \cup {None}] /\ None \notin Conns /\ events \in Seq(Ids)
  BY EpollAssumption, Lists DEF EpollInv, TypeOK
<1>2. EventsFresh /\ NotForgotten
  BY DEF EpollInv
<1>3. \A f \in Ids : IsReady(f) => IsReady(f)'
  <2> SUFFICES ASSUME NEW f \in Ids, IsReady(f) PROVE IsReady(f)'
    OBVIOUS
  <2>1. CASE f = Listener
    BY <2>1 DEF IsReady
  <2>2. CASE f # Listener
    <3>1. f \in Fds /\ fdt[f] # None /\ Ready(fdt[f])
      BY <2>2 DEF IsReady, Ids
    <3>2. fdt[f] \in Conns
      BY <1>1, <3>1
    <3>3. Ready(fdt[f])'
      BY <3>2, <3>1
    <3> QED BY <2>2, <3>1, <3>3 DEF IsReady
  <2> QED BY <2>1, <2>2
<1>4. EventsFresh'
  <2>1. \A k \in DOMAIN events : events[k] \in Ids
    BY <1>1
  <2> QED BY <1>2, <1>3, <2>1 DEF EventsFresh
<1>5. NotForgotten'
  BY <1>2 DEF NotForgotten
<1> QED BY <1>4, <1>5

LEMMA ConnectStep ==
  ASSUME EpollInv, NEW c \in Conns, Connect(c)
  PROVE  EpollInv'
<1>1. /\ peer[c] = "none" /\ peer' = [peer EXCEPT ![c] = "open"]
      /\ backlog' = Append(backlog, c) /\ ready' = Listed(ready, Listener)
      /\ UNCHANGED <<alive, fdt, events, said, unread, echo, echoed, rst, filled, short>>
  BY DEF Connect, historyVars
<1>2. TypeOK /\ Fresh /\ Single /\ \A d \in Conns : Honest(d) /\ EchoSoFar(d)
  BY DEF EpollInv
<1>3. ready \in Seq(Ids) /\ IsInjective(ready) /\ Listener \in Ids
  BY <1>2, Lists DEF Ids
<1>4. ready' \in Seq(Ids) /\ IsInjective(ready') /\ Range(ready) \subseteq Range(ready')
  BY <1>1, <1>3, ListedKeeps
<1>5. /\ peer \in [Conns -> {"none", "open", "closed"}] /\ backlog \in Seq(Conns)
      /\ fdt \in [Fds -> Conns \cup {None}]
  BY <1>2 DEF TypeOK
<1>6. /\ backlog' \in Seq(Conns) /\ backlog' # <<>>
      /\ \A k \in DOMAIN backlog' :
           \/ k \in DOMAIN backlog /\ backlog'[k] = backlog[k]
           \/ k = Len(backlog) + 1 /\ backlog'[k] = c
  BY <1>1, <1>5
<1>7. /\ peer'[c] = "open" /\ \A d \in Conns \ {c} : peer'[d] = peer[d]
      /\ peer' \in [Conns -> {"none", "open", "closed"}]
  BY <1>1, <1>5
<1>8. TypeOK'
  BY <1>1, <1>2, <1>4, <1>6, <1>7 DEF TypeOK, Ids
<1>9. (\A n \in Fds : fdt[n] # c) /\ (\A k \in DOMAIN backlog : backlog[k] # c)
  BY <1>1, <1>2 DEF Fresh
<1>10. Fresh'
  <2>1. \A k \in DOMAIN backlog : backlog[k] \in Conns /\ peer'[backlog[k]] # "none"
    BY <1>2, <1>5, <1>7, <1>9 DEF Fresh
  <2>2. \A k \in DOMAIN backlog' : peer'[backlog'[k]] # "none" /\ \A n \in Fds : fdt'[n] # backlog'[k]
    <3> SUFFICES ASSUME NEW k \in DOMAIN backlog'
                 PROVE  peer'[backlog'[k]] # "none" /\ \A n \in Fds : fdt'[n] # backlog'[k]
      OBVIOUS
    <3>1. CASE k \in DOMAIN backlog /\ backlog'[k] = backlog[k]
      BY <1>1, <1>2, <2>1, <3>1 DEF Fresh
    <3>2. CASE backlog'[k] = c
      BY <1>1, <1>7, <1>9, <3>2
    <3> QED BY <1>6, <3>1, <3>2
  <2>3. \A k, l \in DOMAIN backlog' : backlog'[k] = backlog'[l] => k = l
    <3>1. \A k, l \in DOMAIN backlog : backlog[k] = backlog[l] => k = l
      BY <1>2 DEF Fresh
    <3> QED BY <1>6, <1>9, <3>1
  <2>4. \A d \in Conns : peer'[d] = "none" => \A n \in Fds : fdt'[n] # d
    BY <1>1, <1>2, <1>7 DEF Fresh
  <2> QED BY <2>2, <2>3, <2>4 DEF Fresh
<1>11. Single'
  BY <1>1, <1>2 DEF Single
<1>12. ASSUME NEW d \in Conns PROVE Honest(d)' /\ EchoSoFar(d)'
  <2>1. Honest(d) /\ EchoSoFar(d)
    BY <1>2
  <2>2. CASE d = c
    <3>1. rst[c] = "none"
      BY <1>1, <2>1, <2>2 DEF Honest
    <3> QED BY <1>1, <1>7, <2>1, <2>2, <3>1 DEF Honest, EchoSoFar, TookAnswers
  <2>3. CASE d # c
    <3>1. peer'[d] = peer[d]
      BY <1>7, <2>3
    <3> QED BY <1>1, <2>1, <3>1 DEF Honest, EchoSoFar, TookAnswers
  <2> QED BY <2>2, <2>3
<1>13. EventsFresh' /\ NotForgotten'
  <2>1. \A d \in Conns : Ready(d) => Ready(d)'
    BY <1>1, <1>7 DEF Ready
  <2>2. ASSUME NEW n \in Fds, fdt[n] # None
        PROVE  /\ Ready(fdt[n])' => Ready(fdt[n])
               /\ TookAnswers(fdt[n])' => TookAnswers(fdt[n])
    <3>1. fdt[n] \in Conns /\ fdt[n] # c
      BY <1>5, <1>9, <2>2
    <3>2. peer'[fdt[n]] = peer[fdt[n]]
      BY <1>7, <3>1
    <3> QED BY <1>1, <3>2 DEF Ready, TookAnswers
  <2> QED BY <1>1, <1>4, <1>6, <2>1, <2>2, ClientKeeps
<1> QED BY <1>8, <1>10, <1>11, <1>12, <1>13 DEF EpollInv

LEMMA SayStep ==
  ASSUME EpollInv, NEW c \in Conns, Say(c)
  PROVE  EpollInv'
<1>1. /\ peer[c] = "open" /\ Wake(c)
      /\ UNCHANGED <<alive, backlog, fdt, events, peer, echo, echoed, rst, filled, short>>
  BY DEF Say, historyVars
<1>2. PICK k \in 1 .. MaxSay[c] - said[c] :
        said' = [said EXCEPT ![c] = @ + k] /\ unread' = [unread EXCEPT ![c] = @ + k]
  BY DEF Say
<1>3. TypeOK /\ Fresh /\ Single /\ \A d \in Conns : Honest(d) /\ EchoSoFar(d)
  BY DEF EpollInv
<1>4. /\ ready' \in Seq(Ids) /\ IsInjective(ready') /\ Range(ready) \subseteq Range(ready')
      /\ \A n \in Fds : fdt[n] = c => n \in Range(ready')
  BY <1>1, WakeKeeps
<1>5. /\ said \in [Conns -> Nat] /\ unread \in [Conns -> Nat] /\ echoed \in [Conns -> Nat]
      /\ MaxSay[c] \in Nat /\ said[c] <= MaxSay[c] /\ unread[c] <= said[c]
      /\ fdt \in [Fds -> Conns \cup {None}]
  BY <1>3, EpollAssumption DEF TypeOK
<1>6. said[c] \in Nat /\ unread[c] \in Nat /\ echoed[c] \in Nat
  BY <1>5
<1>7. /\ k \in Nat /\ said[c] + k \in Nat /\ unread[c] + k \in Nat /\ unread[c] + k > 0
      /\ said[c] + k <= MaxSay[c] /\ unread[c] + k <= said[c] + k
  BY <1>2, <1>5, <1>6
<1>8. /\ said'[c] = said[c] + k /\ unread'[c] = unread[c] + k
      /\ said' \in [Conns -> Nat] /\ unread' \in [Conns -> Nat]
      /\ \A d \in Conns \ {c} : said'[d] = said[d] /\ unread'[d] = unread[d]
  BY <1>2, <1>5, <1>7
<1>9. TypeOK'
  <2>1. \A d \in Conns : said'[d] <= MaxSay[d] /\ unread'[d] \in 0 .. said'[d]
    <3> SUFFICES ASSUME NEW d \in Conns PROVE said'[d] <= MaxSay[d] /\ unread'[d] \in 0 .. said'[d]
      OBVIOUS
    <3>1. CASE d = c
      BY <1>7, <1>8, <3>1
    <3>2. CASE d # c
      BY <1>3, <1>8, <3>2 DEF TypeOK
    <3> QED BY <3>1, <3>2
  <2> QED BY <1>1, <1>3, <1>4, <1>8, <2>1 DEF TypeOK, Ids
<1>10. Fresh' /\ Single'
  BY <1>1, <1>3 DEF Fresh, Single
<1>11. ASSUME NEW d \in Conns PROVE Honest(d)' /\ EchoSoFar(d)'
  <2>1. Honest(d) /\ EchoSoFar(d)
    BY <1>3
  <2>2. CASE d = c
    <3>1. Honest(c)'
      BY <1>1, <2>1, <2>2 DEF Honest
    <3>2. EchoSoFar(c)'
      BY <1>1, <1>6, <1>7, <1>8, <2>1, <2>2 DEF EchoSoFar
    <3> QED BY <2>2, <3>1, <3>2
  <2>3. CASE d # c
    <3>1. said'[d] = said[d] /\ unread'[d] = unread[d]
      BY <1>8, <2>3
    <3> QED BY <1>1, <2>1, <3>1 DEF Honest, EchoSoFar, TookAnswers
  <2> QED BY <2>2, <2>3
<1>12. EventsFresh' /\ NotForgotten'
  <2>1. \A d \in Conns : Ready(d) => Ready(d)'
    <3> SUFFICES ASSUME NEW d \in Conns, Ready(d) PROVE Ready(d)'
      OBVIOUS
    <3>1. CASE d = c
      BY <1>7, <1>8, <3>1 DEF Ready
    <3>2. CASE d # c
      <4>1. unread'[d] = unread[d]
        BY <1>8, <3>2
      <4> QED BY <1>1, <4>1 DEF Ready
    <3> QED BY <3>1, <3>2
  <2>2. ASSUME NEW n \in Fds, fdt[n] # None
        PROVE  \/ n \in Range(ready')
               \/ /\ Ready(fdt[n])' => Ready(fdt[n])
                  /\ TookAnswers(fdt[n])' => TookAnswers(fdt[n])
    <3>1. CASE fdt[n] = c
      BY <1>4, <3>1
    <3>2. CASE fdt[n] # c
      <4>1. fdt[n] \in Conns \ {c}
        BY <1>5, <2>2, <3>2
      <4>2. unread'[fdt[n]] = unread[fdt[n]]
        BY <1>8, <4>1
      <4> QED BY <1>1, <4>2 DEF Ready, TookAnswers
    <3> QED BY <3>1, <3>2
  <2> QED BY <1>1, <1>4, <2>1, <2>2, ClientKeeps
<1> QED BY <1>9, <1>10, <1>11, <1>12 DEF EpollInv

(* The client reads, leaves, or its kernel resets the connection.          *)
LEMMA OtherStep ==
  ASSUME EpollInv, NEW c \in Conns, Collect(c) \/ Leave(c) \/ Reset(c)
  PROVE  EpollInv'
<1>1. UNCHANGED <<alive, backlog, fdt, events, said, unread, echoed, filled, short>>
  BY DEF Collect, Leave, Reset, historyVars
<1>2. TypeOK /\ Fresh /\ Single /\ \A d \in Conns : Honest(d) /\ EchoSoFar(d)
  BY DEF EpollInv
<1>3. /\ peer \in [Conns -> {"none", "open", "closed"}] /\ rst \in [Conns -> {"none", "due", "come"}]
      /\ echo \in [Conns -> 0 .. Window] /\ fdt \in [Fds -> Conns \cup {None}]
      /\ 0 \in 0 .. Window
  BY <1>2, EpollAssumption DEF TypeOK
<1>4. /\ peer' \in [Conns -> {"none", "open", "closed"}] /\ rst' \in [Conns -> {"none", "due", "come"}]
      /\ echo' \in [Conns -> 0 .. Window]
      /\ \A d \in Conns \ {c} : peer'[d] = peer[d] /\ rst'[d] = rst[d] /\ echo'[d] = echo[d]
  BY <1>3 DEF Collect, Leave, Reset
<1>5. \/ peer[c] = "open" /\ peer'[c] = "open" /\ rst'[c] = rst[c] /\ ready' = ready
      \/ /\ Wake(c) /\ peer[c] = "open" /\ peer'[c] = "closed" /\ echo'[c] = echo[c]
         /\ rst'[c] = IF echo[c] > 0 THEN "come" ELSE rst[c]
      \/ /\ Wake(c) /\ rst[c] = "due" /\ rst'[c] = "come"
         /\ peer'[c] = peer[c] /\ echo'[c] = echo[c]
  BY <1>3 DEF Collect, Leave, Reset
<1>6. /\ ready' \in Seq(Ids) /\ IsInjective(ready') /\ Range(ready) \subseteq Range(ready')
      /\ ready' = ready \/ \A n \in Fds : fdt[n] = c => n \in Range(ready')
  <2>1. CASE Wake(c)
    BY <2>1, WakeKeeps
  <2>2. CASE ready' = ready
    BY <1>2, <2>2, Lists
  <2> QED BY <1>5, <2>1, <2>2
<1>7. TypeOK'
  BY <1>1, <1>2, <1>4, <1>6 DEF TypeOK, Ids
<1>8. \A d \in Conns : peer'[d] = "none" <=> peer[d] = "none"
  BY <1>4, <1>5
<1>9. Fresh' /\ Single'
  <2>1. \A k \in DOMAIN backlog : backlog[k] \in Conns
    BY <1>2 DEF TypeOK
  <2>2. Fresh'
    BY <1>1, <1>2, <1>8, <2>1 DEF Fresh
  <2> QED BY <1>1, <1>2, <2>2 DEF Single
<1>10. ASSUME NEW d \in Conns PROVE Honest(d)' /\ EchoSoFar(d)'
  <2>1. Honest(d) /\ EchoSoFar(d)
    BY <1>2
  <2>2. CASE d = c
    <3>1. echo[c] \in Nat
      BY <1>3, EpollAssumption
    <3>2. Honest(c)'
      BY <1>1, <1>5, <2>1, <2>2, <3>1 DEF Honest, TookAnswers
    <3>3. EchoSoFar(c)'
      BY <1>1, <1>5, <2>1, <2>2 DEF EchoSoFar, Honest
    <3> QED BY <2>2, <3>2, <3>3
  <2>3. CASE d # c
    <3>1. peer'[d] = peer[d] /\ rst'[d] = rst[d] /\ echo'[d] = echo[d]
      BY <1>4, <2>3
    <3> QED BY <1>1, <2>1, <3>1 DEF Honest, EchoSoFar, TookAnswers
  <2> QED BY <2>2, <2>3
<1>11. EventsFresh' /\ NotForgotten'
  <2>1. \A d \in Conns : Ready(d) => Ready(d)'
    <3> SUFFICES ASSUME NEW d \in Conns, Ready(d) PROVE Ready(d)'
      OBVIOUS
    <3>1. CASE d = c
      BY <1>1, <1>5, <3>1 DEF Ready
    <3>2. CASE d # c
      <4>1. peer'[d] = peer[d] /\ rst'[d] = rst[d]
        BY <1>4, <3>2
      <4> QED BY <1>1, <4>1 DEF Ready
    <3> QED BY <3>1, <3>2
  <2>2. ASSUME NEW n \in Fds, fdt[n] # None
        PROVE  \/ n \in Range(ready')
               \/ /\ Ready(fdt[n])' => Ready(fdt[n])
                  /\ TookAnswers(fdt[n])' => TookAnswers(fdt[n])
                  /\ rst[fdt[n]] = "due" => rst'[fdt[n]] = "due"
    <3>1. CASE fdt[n] = c
      <4>1. CASE peer[c] = "open" /\ peer'[c] = "open" /\ rst'[c] = rst[c]
        BY <1>1, <3>1, <4>1 DEF Ready, TookAnswers
      <4>2. CASE Wake(c)
        BY <3>1, <4>2, WakeKeeps
      <4> QED BY <1>5, <4>1, <4>2
    <3>2. CASE fdt[n] # c
      <4>1. fdt[n] \in Conns \ {c}
        BY <1>3, <2>2, <3>2
      <4>2. /\ peer'[fdt[n]] = peer[fdt[n]] /\ rst'[fdt[n]] = rst[fdt[n]]
            /\ echo'[fdt[n]] = echo[fdt[n]]
        BY <1>4, <4>1
      <4> QED BY <1>1, <4>2 DEF Ready, TookAnswers
    <3> QED BY <3>1, <3>2
  <2> QED BY <1>1, <1>6, <2>1, <2>2, ClientKeeps
<1> QED BY <1>7, <1>9, <1>10, <1>11 DEF EpollInv

-----------------------------------------------------------------------------
(* The loop.                                                               *)

(* epoll_wait() reports different descriptors that are ready; of those that *)
(* are, it leaves the ones it does not report on the list.                 *)
LEMMA WaitKeeps ==
  ASSUME EpollInv, epoll_wait
  PROVE  /\ ready' \in Seq(Ids) /\ IsInjective(ready')
         /\ events' \in Seq(Ids) /\ Len(events') <= MaxEvents /\ IsInjective(events')
         /\ \A f \in Range(events') : IsReady(f)
         /\ \A f \in Range(ready) : IsReady(f) => f \in Range(ready') \cup Range(events')
<1> DEFINE L == Len(ready)
<1>1. PICK n \in 1 .. Least(MaxEvents, L) : \E place \in [1 .. n -> DOMAIN ready] :
        /\ Reported(place, n)
        /\ events' = [i \in 1 .. n |-> ready[place[i]]]
        /\ LET rest == SubSeq(ready, Seen(place, n) + 1, L)
           IN  ready' = IF Listener \in Range(events') THEN AfterWait(rest) ELSE rest
  BY DEF epoll_wait
<1>2. PICK place \in [1 .. n -> DOMAIN ready] :
        /\ Reported(place, n)
        /\ events' = [i \in 1 .. n |-> ready[place[i]]]
        /\ LET rest == SubSeq(ready, Seen(place, n) + 1, L)
           IN  ready' = IF Listener \in Range(events') THEN AfterWait(rest) ELSE rest
  BY <1>1
<1> DEFINE s == Seen(place, n)
           rest == SubSeq(ready, s + 1, L)
<1>3. ready' = IF Listener \in Range(events') THEN Append(rest, Listener) ELSE rest
  BY <1>2 DEF AfterWait
<1>4. /\ ready \in Seq(Ids) /\ IsInjective(ready) /\ L \in Nat /\ DOMAIN ready = 1 .. L
      /\ \A k \in 1 .. L : ready[k] \in Ids
  BY Lists, LenProperties, ElementOfSeq DEF EpollInv
<1>5. MaxEvents \in Nat /\ n \in Nat /\ n >= 1 /\ n <= MaxEvents
  BY <1>1, <1>4, EpollAssumption DEF Least
<1>6. /\ \A i \in 1 .. n : place[i] \in 1 .. L /\ IsReady(ready[place[i]])
      /\ \A i, j \in 1 .. n : i < j => place[i] < place[j]
      /\ \A k \in 1 .. L : IsReady(ready[k]) =>
           (\E i \in 1 .. n : place[i] = k) \/ k > place[n]
  BY <1>2, <1>4 DEF Reported
<1>7. s = IF \E k \in 1 .. L : k > place[n] /\ IsReady(ready[k]) THEN place[n] ELSE L
  BY <1>4 DEF Seen
<1> HIDE DEF L, s
<1>8. /\ n \in 1 .. n /\ place[n] \in 1 .. L
      /\ \A i \in 1 .. n : place[i] <= place[n]
  <2>1. n \in 1 .. n /\ place[n] \in 1 .. L
    BY <1>5, <1>6
  <2>2. ASSUME NEW i \in 1 .. n PROVE place[i] <= place[n]
    <3>1. i = n \/ i < n
      BY <1>5
    <3>2. place[i] \in 1 .. L
      BY <1>6
    <3> QED BY <1>6, <2>1, <3>1, <3>2
  <2> QED BY <2>1, <2>2
<1>9. /\ s \in 0 .. L
      /\ \A i \in 1 .. n : place[i] <= s
      /\ \A k \in 1 .. s : k \in 1 .. L /\ (IsReady(ready[k]) => \E i \in 1 .. n : place[i] = k)
  <2>1. CASE \E k \in 1 .. L : k > place[n] /\ IsReady(ready[k])
    <3>1. s = place[n]
      BY <1>7, <2>1
    <3>2. \A k \in 1 .. s : k \in 1 .. L /\ ~(k > place[n])
      BY <1>4, <1>8, <3>1
    <3>3. s \in 0 .. L
      BY <1>4, <1>8, <3>1
    <3> QED BY <1>6, <1>8, <3>1, <3>2, <3>3
  <2>2. CASE ~\E k \in 1 .. L : k > place[n] /\ IsReady(ready[k])
    <3>1. s = L
      BY <1>7, <2>2
    <3>2. s \in 0 .. L
      BY <1>4, <3>1
    <3>3. \A i \in 1 .. n : place[i] <= s
      BY <1>4, <1>6, <3>1
    <3> QED BY <1>6, <2>2, <3>1, <3>2, <3>3
  <2> QED BY <2>1, <2>2
<1>10. /\ events' \in Seq(Ids) /\ Len(events') = n /\ DOMAIN events' = 1 .. n
       /\ \A i \in 1 .. n : events'[i] = ready[place[i]]
  <2>1. \A i \in 1 .. n : ready[place[i]] \in Ids
    BY <1>4, <1>6
  <2>2. events' = [i \in 1 .. n |-> ready[place[i]]]
    BY <1>2
  <2>3. events' \in [1 .. n -> Ids]
    BY <2>1, <2>2
  <2>4. events' \in Seq(Ids) /\ Len(events') = n
    BY <1>5, <2>3, SeqDef, LenProperties
  <2> QED BY <2>2, <2>4
<1>11. IsInjective(events')
  <2> SUFFICES ASSUME NEW i \in 1 .. n, NEW j \in 1 .. n, events'[i] = events'[j] PROVE i = j
    BY <1>10 DEF IsInjective
  <2>1. place[i] = place[j]
    BY <1>4, <1>6, <1>10 DEF IsInjective
  <2>2. i = j \/ i < j \/ j < i
    BY <1>5
  <2>3. place[i] \in Nat /\ place[j] \in Nat
    BY <1>4, <1>6
  <2> QED BY <1>6, <2>1, <2>2, <2>3
<1>12. /\ rest \in Seq(Ids) /\ IsInjective(rest)
       /\ Range(rest) = {ready[k] : k \in s + 1 .. L}
  BY <1>4, <1>9, RestKeeps DEF L
<1> HIDE DEF rest
<1>13. /\ ready' \in Seq(Ids) /\ IsInjective(ready')
       /\ Range(rest) \subseteq Range(ready')
  <2>1. CASE Listener \in Range(events')
    <3>1. PICK i \in 1 .. n : ready[place[i]] = Listener
      BY <1>10, <2>1 DEF Range
    <3>2. Listener \notin Range(rest)
      <4> SUFFICES ASSUME NEW k \in s + 1 .. L, ready[k] = Listener PROVE FALSE
        BY <1>12
      <4>1. k \in 1 .. L /\ place[i] \in 1 .. L /\ place[i] <= s /\ place[i] < k
        BY <1>4, <1>6, <1>9
      <4>2. place[i] = k
        BY <1>4, <3>1, <4>1 DEF IsInjective
      <4> QED BY <4>1, <4>2
    <3>3. ready' = Listed(rest, Listener) /\ Listener \in Ids
      BY <1>3, <2>1, <3>2 DEF Listed, Ids
    <3> QED BY <1>12, <3>3, ListedKeeps
  <2>2. CASE Listener \notin Range(events')
    BY <1>3, <1>12, <2>2
  <2> QED BY <2>1, <2>2
<1>14. \A f \in Range(events') : IsReady(f)
  BY <1>6, <1>10 DEF Range
<1>15. ASSUME NEW k \in 1 .. L, IsReady(ready[k])
       PROVE  ready[k] \in Range(ready') \cup Range(events')
  <2>1. CASE k <= s
    <3>1. k \in 1 .. s
      BY <1>9, <2>1
    <3>2. PICK i \in 1 .. n : place[i] = k
      BY <1>9, <1>15, <3>1
    <3> QED BY <1>10, <3>2 DEF Range
  <2>2. CASE ~(k <= s)
    <3>1. k \in s + 1 .. L
      BY <1>4, <1>9, <2>2
    <3> QED BY <1>12, <1>13, <3>1
  <2> QED BY <2>1, <2>2
<1>16. \A f \in Range(ready) : IsReady(f) => f \in Range(ready') \cup Range(events')
  BY <1>4, <1>15 DEF Range
<1> QED BY <1>5, <1>10, <1>11, <1>13, <1>14, <1>16

LEMMA WaitStep ==
  ASSUME EpollInv, epoll_wait
  PROVE  EpollInv'
<1>1. /\ events = <<>>
      /\ UNCHANGED <<alive, backlog, fdt, peer, said, unread, echo, echoed, rst, filled, short>>
  BY DEF epoll_wait, connVars, historyVars
<1>2. /\ ready' \in Seq(Ids) /\ IsInjective(ready')
      /\ events' \in Seq(Ids) /\ Len(events') <= MaxEvents /\ IsInjective(events')
      /\ \A f \in Range(events') : IsReady(f)
      /\ \A f \in Range(ready) : IsReady(f) => f \in Range(ready') \cup Range(events')
  BY WaitKeeps
<1>3. TypeOK'
  BY <1>1, <1>2 DEF EpollInv, TypeOK, Ids
<1>4. Fresh' /\ Single' /\ \A c \in Conns : Honest(c)' /\ EchoSoFar(c)'
  BY <1>1 DEF EpollInv, Fresh, Single, Honest, EchoSoFar, TookAnswers
<1>5. EventsFresh'
  <2>1. \A k \in DOMAIN events' : IsReady(events'[k])
    BY <1>2 DEF Range
  <2>2. \A k \in DOMAIN events' : IsReady(events[k])'
    BY <1>1, <2>1 DEF IsReady, Ready
  <2> QED BY <1>2, <2>2 DEF EventsFresh
<1>6. NotForgotten'
  <2> SUFFICES ASSUME NEW n \in Fds, fdt[n] # None, Ready(fdt[n]), fdt[n] \notin filled,
                      TookAnswers(fdt[n])
               PROVE  n \in Range(ready') \cup Range(events') \/ rst[fdt[n]] = "due"
    BY <1>1 DEF NotForgotten, Ready, TookAnswers
  <2>1. n \in Range(ready) \cup Range(events) \/ rst[fdt[n]] = "due"
    BY DEF EpollInv, NotForgotten
  <2>2. Range(events) = {}
    BY <1>1 DEF Range
  <2>3. IsReady(n)
    BY DEF IsReady, Listener, Fds
  <2> QED BY <1>2, <2>1, <2>2, <2>3
<1> QED BY <1>3, <1>4, <1>5, <1>6 DEF EpollInv

(* An event is done with: what was reported besides is still ready, and    *)
(* what is ready and not done with is still known.                         *)
LEMMA ServedKeeps ==
  ASSUME EpollInv, events # <<>>, events' = Tail(events), filled \subseteq filled',
         Range(ready) \ {Head(events)} \subseteq Range(ready'),
         \A f \in Ids \ {Head(events)} : IsReady(f) => IsReady(f)',
         \A m \in Fds :
           fdt'[m] # None /\ Ready(fdt[m])' /\ fdt'[m] \notin filled' /\ TookAnswers(fdt[m])' =>
             \/ m \in Range(ready') \/ rst'[fdt'[m]] = "due"
             \/ /\ m # Head(events) /\ fdt'[m] = fdt[m]
                /\ Ready(fdt[m]) /\ TookAnswers(fdt[m])
                /\ rst[fdt[m]] = "due" => rst'[fdt[m]] = "due"
  PROVE  EventsFresh' /\ NotForgotten'
<1>1. /\ events' \in Seq(Ids) /\ IsInjective(events')
      /\ Range(events') = Range(events) \ {Head(events)}
  BY NextEvent
<1>2. EventsFresh /\ NotForgotten
  BY DEF EpollInv
<1>3. \A f \in Range(events') : f \in Ids /\ IsReady(f)'
  <2>1. \A f \in Range(events') : f \in Ids
    BY <1>1 DEF Range
  <2>2. \A f \in Range(events) : IsReady(f)
    BY <1>2, FreshEvents
  <2> QED BY <1>1, <2>1, <2>2
<1>4. EventsFresh'
  <2>1. \A k \in DOMAIN events' : IsReady(events[k])'
    BY <1>3 DEF Range
  <2> QED BY <1>1, <2>1 DEF EventsFresh
<1>5. NotForgotten'
  <2> SUFFICES ASSUME NEW m \in Fds, fdt'[m] # None, Ready(fdt[m])', fdt'[m] \notin filled',
                      TookAnswers(fdt[m])'
               PROVE  m \in Range(ready') \cup Range(events') \/ rst'[fdt'[m]] = "due"
    BY DEF NotForgotten
  <2>1. CASE /\ m # Head(events) /\ fdt'[m] = fdt[m]
             /\ Ready(fdt[m]) /\ TookAnswers(fdt[m])
             /\ rst[fdt[m]] = "due" => rst'[fdt[m]] = "due"
    <3>1. m \in Range(ready) \cup Range(events) \/ rst[fdt[m]] = "due"
      BY <1>2, <2>1 DEF NotForgotten
    <3> QED BY <1>1, <2>1, <3>1
  <2> QED BY <2>1
<1> QED BY <1>4, <1>5

LEMMA AcceptStep ==
  ASSUME EpollInv, accept
  PROVE  EpollInv'
<1> DEFINE c == Head(backlog)
<1>1. /\ events # <<>> /\ Head(events) = Listener /\ backlog # <<>>
      /\ backlog' = Tail(backlog) /\ events' = Tail(events)
      /\ UNCHANGED <<alive, peer, said, unread, echo, echoed, rst, filled, short>>
  BY DEF accept, connVars, historyVars
<1>2. PICK n \in Fds : /\ fdt[n] = None /\ fdt' = [fdt EXCEPT ![n] = c]
                       /\ ready' = IF Ready(c) THEN Listed(ready, n) ELSE ready
  BY DEF accept, Opens
<1>3. TypeOK /\ Fresh /\ Single /\ \A d \in Conns : Honest(d) /\ EchoSoFar(d)
  BY DEF EpollInv
<1>4. fdt \in [Fds -> Conns \cup {None}] /\ None \notin Conns /\ backlog \in Seq(Conns)
  BY <1>3, EpollAssumption DEF TypeOK
<1>5. /\ backlog' \in Seq(Conns) /\ 1 \in DOMAIN backlog /\ c = backlog[1] /\ c \in Conns
      /\ \A k \in DOMAIN backlog' : /\ k + 1 \in DOMAIN backlog /\ k \in Nat \ {0}
                                    /\ backlog'[k] = backlog[k + 1]
  <2>1. /\ c \in Conns /\ Tail(backlog) \in Seq(Conns)
        /\ Len(Tail(backlog)) = Len(backlog) - 1
        /\ \A k \in 1 .. Len(Tail(backlog)) : Tail(backlog)[k] = backlog[k + 1]
    BY <1>1, <1>4, HeadTailProperties
  <2>2. /\ Len(backlog) \in Nat /\ Len(backlog) # 0 /\ DOMAIN backlog = 1 .. Len(backlog)
        /\ DOMAIN Tail(backlog) = 1 .. Len(Tail(backlog))
    BY <1>1, <1>4, <2>1, LenProperties, EmptySeq
  <2>3. 1 \in DOMAIN backlog /\ c = backlog[1]
    BY <2>2
  <2>4. \A k \in 1 .. Len(backlog) - 1 : k + 1 \in 1 .. Len(backlog) /\ k \in Nat \ {0}
    BY <2>2
  <2> QED BY <1>1, <2>1, <2>2, <2>3, <2>4
<1> HIDE DEF c
<1>6. \A m \in Fds : fdt[m] # c
  BY <1>3, <1>5 DEF Fresh
<1>7. peer[c] # "none"
  BY <1>3, <1>5 DEF Fresh
<1>8. /\ fdt' \in [Fds -> Conns \cup {None}] /\ fdt'[n] = c
      /\ \A m \in Fds : m # n => fdt'[m] = fdt[m]
  BY <1>2, <1>4, <1>5
<1>9. /\ ready \in Seq(Ids) /\ IsInjective(ready) /\ n \in Ids
      /\ events' \in Seq(Ids) /\ Len(events') <= MaxEvents
  BY <1>1, <1>3, Lists, NextEvent DEF Ids
<1>10. /\ ready' \in Seq(Ids) /\ IsInjective(ready') /\ Range(ready) \subseteq Range(ready')
       /\ Ready(c) => n \in Range(ready')
  BY <1>2, <1>9, ListedKeeps
<1>11. TypeOK'
  BY <1>1, <1>3, <1>5, <1>8, <1>9, <1>10 DEF TypeOK, Ids
<1>12. Fresh'
  <2>1. ASSUME NEW k \in DOMAIN backlog'
        PROVE  /\ peer'[backlog'[k]] # "none"
               /\ \A m \in Fds : fdt'[m] # backlog'[k]
               /\ \A j \in DOMAIN backlog' : backlog'[k] = backlog'[j] => k = j
    <3>1. k + 1 \in DOMAIN backlog /\ backlog'[k] = backlog[k + 1] /\ k \in Nat \ {0}
      BY <1>5
    <3>2. peer[backlog[k + 1]] # "none" /\ \A m \in Fds : fdt[m] # backlog[k + 1]
      BY <1>3, <3>1 DEF Fresh
    <3>3. backlog[k + 1] # c
      <4>1. k + 1 # 1
        BY <3>1
      <4>2. \A i, j \in DOMAIN backlog : backlog[i] = backlog[j] => i = j
        BY <1>3 DEF Fresh
      <4> QED BY <1>5, <3>1, <4>1, <4>2
    <3>4. \A m \in Fds : fdt'[m] # backlog'[k]
      BY <1>8, <3>1, <3>2, <3>3
    <3>5. ASSUME NEW j \in DOMAIN backlog', backlog'[k] = backlog'[j] PROVE k = j
      <4>1. j + 1 \in DOMAIN backlog /\ backlog'[j] = backlog[j + 1] /\ j \in Nat
        BY <1>5
      <4>2. k + 1 = j + 1
        BY <1>3, <3>1, <3>5, <4>1 DEF Fresh
      <4> QED BY <3>1, <4>1, <4>2
    <3> QED BY <1>1, <3>1, <3>2, <3>4, <3>5
  <2>2. \A d \in Conns : peer'[d] = "none" => \A m \in Fds : fdt'[m] # d
    BY <1>1, <1>3, <1>7, <1>8 DEF Fresh
  <2> QED BY <2>1, <2>2 DEF Fresh
<1>13. Single'
  BY <1>3, <1>6, <1>8 DEF Single
<1>14. \A d \in Conns : Honest(d)' /\ EchoSoFar(d)'
  BY <1>1, <1>3 DEF Honest, EchoSoFar, TookAnswers
<1>15. EventsFresh' /\ NotForgotten'
  <2>1. ASSUME NEW f \in Ids \ {Head(events)}, IsReady(f) PROVE IsReady(f)'
    <3>1. f # Listener /\ f \in Fds
      BY <1>1 DEF Ids
    <3>2. fdt[f] # None /\ Ready(fdt[f])
      BY <2>1, <3>1 DEF IsReady
    <3>3. fdt'[f] = fdt[f]
      BY <1>2, <1>8, <3>1, <3>2
    <3> QED BY <1>1, <3>1, <3>2, <3>3 DEF IsReady, Ready
  <2>2. ASSUME NEW m \in Fds, Ready(fdt[m])', TookAnswers(fdt[m])'
        PROVE  \/ m \in Range(ready')
               \/ /\ m # Head(events) /\ fdt'[m] = fdt[m]
                  /\ Ready(fdt[m]) /\ TookAnswers(fdt[m])
    <3>1. m # Listener
      BY DEF Fds, Listener
    <3>2. CASE m = n
      BY <1>1, <1>8, <1>10, <2>2, <3>2 DEF Ready
    <3>3. CASE m # n
      <4>1. fdt'[m] = fdt[m]
        BY <1>8, <3>3
      <4> QED BY <1>1, <2>2, <3>1, <4>1 DEF Ready, TookAnswers
    <3> QED BY <3>2, <3>3
  <2> QED BY <1>1, <1>10, <2>1, <2>2, ServedKeeps
<1> QED BY <1>11, <1>12, <1>13, <1>14, <1>15 DEF EpollInv

LEMMA ExitStep ==
  ASSUME EpollInv, AcceptFails \/ UNCHANGED vars
  PROVE  EpollInv'
<1>1. /\ alive' \in BOOLEAN
      /\ UNCHANGED <<backlog, fdt, ready, events, peer, said, unread, echo, echoed, rst, filled, short>>
  BY DEF AcceptFails, connVars, historyVars, vars, EpollInv, TypeOK
<1>2. TypeOK' /\ Fresh' /\ Single'
  BY <1>1 DEF EpollInv, TypeOK, Fresh, Single
<1>3. \A c \in Conns : Honest(c)' /\ EchoSoFar(c)'
  BY <1>1 DEF EpollInv, Honest, EchoSoFar, TookAnswers
<1>4. EventsFresh' /\ NotForgotten'
  BY <1>1 DEF EpollInv, EventsFresh, NotForgotten, IsReady, Ready, TookAnswers
<1> QED BY <1>2, <1>3, <1>4 DEF EpollInv

LEMMA LogoutStep ==
  ASSUME EpollInv, NEW n \in Fds, Logout(n)
  PROVE  EpollInv'
<1>1. /\ events # <<>> /\ Head(events) = n /\ fdt[n] # None
      /\ fdt' = [fdt EXCEPT ![n] = None]
      /\ ready' = Unlisted(ready, n) /\ events' = Tail(events)
      /\ UNCHANGED <<alive, backlog, peer, said, unread, echo, echoed, rst, filled, short>>
  BY DEF Logout, IsServed, connVars, historyVars
<1>2. TypeOK /\ Fresh /\ Single /\ \A d \in Conns : Honest(d) /\ EchoSoFar(d)
  BY DEF EpollInv
<1>3. fdt \in [Fds -> Conns \cup {None}] /\ None \notin Conns /\ backlog \in Seq(Conns)
  BY <1>2, EpollAssumption DEF TypeOK
<1>4. /\ fdt' \in [Fds -> Conns \cup {None}] /\ fdt'[n] = None
      /\ \A m \in Fds : m # n => fdt'[m] = fdt[m]
  BY <1>1, <1>3
<1>5. /\ ready \in Seq(Ids) /\ IsInjective(ready)
      /\ events' \in Seq(Ids) /\ Len(events') <= MaxEvents
  BY <1>1, <1>2, Lists, NextEvent
<1>6. /\ ready' \in Seq(Ids) /\ IsInjective(ready')
      /\ Range(ready) \ {n} \subseteq Range(ready')
  BY <1>1, <1>5, UnlistedKeeps
<1>7. TypeOK'
  BY <1>1, <1>2, <1>4, <1>5, <1>6 DEF TypeOK, Ids
<1>8. Fresh'
  <2>1. \A k \in DOMAIN backlog : backlog[k] \in Conns
    BY <1>3
  <2>2. \A d \in Conns : (\A m \in Fds : fdt[m] # d) => \A m \in Fds : fdt'[m] # d
    BY <1>3, <1>4
  <2> QED BY <1>1, <1>2, <2>1, <2>2 DEF Fresh
<1>9. Single'
  BY <1>2, <1>3, <1>4 DEF Single
<1>10. \A d \in Conns : Honest(d)' /\ EchoSoFar(d)'
  BY <1>1, <1>2 DEF Honest, EchoSoFar, TookAnswers
<1>11. EventsFresh' /\ NotForgotten'
  <2>1. ASSUME NEW f \in Ids \ {Head(events)}, IsReady(f) PROVE IsReady(f)'
    <3>1. CASE f = Listener
      BY <1>1, <2>1, <3>1 DEF IsReady
    <3>2. CASE f # Listener
      <4>1. f \in Fds /\ fdt'[f] = fdt[f]
        BY <1>1, <1>4, <3>2 DEF Ids
      <4> QED BY <1>1, <2>1, <3>2, <4>1 DEF IsReady, Ready
    <3> QED BY <3>1, <3>2
  <2>2. ASSUME NEW m \in Fds, fdt'[m] # None, Ready(fdt[m])', TookAnswers(fdt[m])'
        PROVE  /\ m # Head(events) /\ fdt'[m] = fdt[m]
               /\ Ready(fdt[m]) /\ TookAnswers(fdt[m])
    <3>1. m # n /\ fdt'[m] = fdt[m]
      BY <1>4, <2>2
    <3> QED BY <1>1, <2>2, <3>1 DEF Ready, TookAnswers
  <2> QED BY <1>1, <1>6, <2>1, <2>2, ServedKeeps
<1> QED BY <1>7, <1>8, <1>9, <1>10, <1>11 DEF EpollInv

(* What send() does to c: the answer is taken, or the client has left, or  *)
(* its reset has come.                                                     *)
LEMMA SendKeeps ==
  ASSUME TypeOK, NEW c \in Conns, NEW length \in Nat, send(c, length)
  PROVE  /\ alive' \in BOOLEAN
         /\ echo' \in [Conns -> 0 .. Window] /\ echoed' \in [Conns -> Nat]
         /\ rst' \in [Conns -> {"none", "due", "come"}] /\ short' \subseteq Conns
         /\ \A d \in Conns \ {c} : /\ echo'[d] = echo[d] /\ echoed'[d] = echoed[d]
                                   /\ rst'[d] = rst[d] /\ (d \in short' <=> d \in short)
         /\ \/ /\ peer[c] = "open" /\ rst'[c] = rst[c] /\ short \subseteq short'
               /\ c \notin short' => echoed'[c] = echoed[c] + length
            \/ /\ peer[c] = "closed" /\ rst'[c] = "due"
               /\ echo' = echo /\ echoed' = echoed /\ short' = short
            \/ /\ rst[c] = "come" /\ rst'[c] = "come"
               /\ echo' = echo /\ echoed' = echoed /\ short' = short
<1>1. /\ alive \in BOOLEAN /\ Window \in Nat
      /\ echo \in [Conns -> 0 .. Window] /\ echoed \in [Conns -> Nat]
      /\ rst \in [Conns -> {"none", "due", "come"}] /\ short \subseteq Conns
  BY EpollAssumption DEF TypeOK
<1>2. CASE /\ peer[c] = "open"
           /\ LET k == Least(length, Window - echo[c])
              IN  /\ echo' = [echo EXCEPT ![c] = @ + k]
                  /\ echoed' = [echoed EXCEPT ![c] = @ + k]
                  /\ short' = IF k < length THEN short \cup {c} ELSE short
           /\ UNCHANGED <<alive, rst>>
  <2> DEFINE k == Least(length, Window - echo[c])
  <2>1. /\ echo' = [echo EXCEPT ![c] = @ + k] /\ echoed' = [echoed EXCEPT ![c] = @ + k]
        /\ short' = IF k < length THEN short \cup {c} ELSE short
        /\ UNCHANGED <<alive, rst>>
    BY <1>2
  <2>2. echo[c] \in Nat /\ echo[c] <= Window /\ echoed[c] \in Nat
    BY <1>1
  <2>3. k \in Nat /\ k <= length /\ echo[c] + k <= Window
    BY <1>1, <2>2 DEF Least
  <2> HIDE DEF k
  <2>4. echo[c] + k \in 0 .. Window /\ echoed[c] + k \in Nat /\ (~(k < length) => k = length)
    BY <1>1, <2>2, <2>3
  <2>5. /\ echo' \in [Conns -> 0 .. Window] /\ echoed' \in [Conns -> Nat]
        /\ echoed'[c] = echoed[c] + k
        /\ \A d \in Conns \ {c} : echo'[d] = echo[d] /\ echoed'[d] = echoed[d]
    BY <1>1, <2>1, <2>4
  <2>6. /\ short' \subseteq Conns /\ short \subseteq short'
        /\ \A d \in Conns \ {c} : d \in short' <=> d \in short
        /\ c \notin short' => k = length
    BY <1>1, <2>1, <2>4
  <2> QED BY <1>1, <1>2, <2>1, <2>5, <2>6
<1>3. CASE /\ peer[c] = "closed"
           /\ rst' = [rst EXCEPT ![c] = "due"]
           /\ UNCHANGED <<alive, echo, echoed, short>>
  <2>1. /\ rst' \in [Conns -> {"none", "due", "come"}] /\ rst'[c] = "due"
        /\ \A d \in Conns \ {c} : rst'[d] = rst[d]
    BY <1>1, <1>3
  <2> QED BY <1>1, <1>3, <2>1
<1>4. CASE /\ rst[c] = "come" /\ alive' \in BOOLEAN
           /\ UNCHANGED <<rst, echo, echoed, short>>
  BY <1>1, <1>4
<1> QED BY <1>2, <1>3, <1>4 DEF send

LEMMA ServeStep ==
  ASSUME EpollInv, NEW n \in Fds, RecvSend(n)
  PROVE  EpollInv'
<1>0. PICK c : c = fdt[n]
  OBVIOUS
<1> DEFINE k == Least(unread[c], BuffSize)
<1>1. /\ events # <<>> /\ Head(events) = n /\ c # None /\ unread[c] > 0
      /\ events' = Tail(events)
      /\ UNCHANGED <<backlog, fdt, ready, peer, said>>
      /\ unread' = [unread EXCEPT ![c] = @ - k]
      /\ filled' = IF k < BuffSize THEN filled ELSE filled \cup {c}
  BY <1>0 DEF RecvSend, IsServed
<1>2. PICK length \in (IF k < BuffSize THEN {k} ELSE {k, k + 1}) : send(c, length)
  BY <1>0 DEF RecvSend
<1>3. TypeOK /\ Fresh /\ Single /\ \A d \in Conns : Honest(d) /\ EchoSoFar(d)
  BY DEF EpollInv
<1>4. /\ fdt \in [Fds -> Conns \cup {None}] /\ None \notin Conns
      /\ said \in [Conns -> Nat] /\ unread \in [Conns -> Nat] /\ echoed \in [Conns -> Nat]
      /\ \A d \in Conns : said[d] <= MaxSay[d] /\ unread[d] \in 0 .. said[d]
      /\ peer \in [Conns -> {"none", "open", "closed"}]
      /\ filled \subseteq Conns /\ BuffSize \in Nat
  BY <1>3, EpollAssumption DEF TypeOK
<1>5. c \in Conns
  BY <1>0, <1>1, <1>4
<1>6. unread[c] \in Nat /\ said[c] \in Nat /\ echoed[c] \in Nat /\ unread[c] <= said[c]
  BY <1>4, <1>5
<1>7. k \in Nat /\ k <= unread[c] /\ (k < BuffSize => k = unread[c])
  BY <1>4, <1>6 DEF Least
<1> HIDE DEF k
<1>8. length \in Nat /\ (k < BuffSize => length = unread[c])
  BY <1>2, <1>7
<1>9. /\ unread' \in [Conns -> Nat] /\ unread'[c] = unread[c] - k
      /\ unread[c] - k \in 0 .. said[c]
      /\ \A d \in Conns \ {c} : unread'[d] = unread[d]
  <2>1. unread[c] - k \in Nat /\ unread[c] - k \in 0 .. said[c]
    BY <1>6, <1>7
  <2> QED BY <1>1, <1>4, <1>5, <2>1
<1>10. /\ filled \subseteq filled' /\ filled' \subseteq Conns
       /\ \A d \in Conns \ {c} : d \in filled' <=> d \in filled
       /\ c \notin filled' => c \notin filled /\ unread'[c] = 0 /\ length = unread[c]
  <2>1. CASE k < BuffSize
    <3>1. unread'[c] = 0
      BY <1>6, <1>7, <1>9, <2>1
    <3> QED BY <1>1, <1>4, <1>8, <2>1, <3>1
  <2>2. CASE ~(k < BuffSize)
    BY <1>1, <1>4, <1>5, <2>2
  <2> QED BY <2>1, <2>2
<1>11. /\ alive' \in BOOLEAN
       /\ echo' \in [Conns -> 0 .. Window] /\ echoed' \in [Conns -> Nat]
       /\ rst' \in [Conns -> {"none", "due", "come"}] /\ short' \subseteq Conns
       /\ \A d \in Conns \ {c} : /\ echo'[d] = echo[d] /\ echoed'[d] = echoed[d]
                                 /\ rst'[d] = rst[d] /\ (d \in short' <=> d \in short)
       /\ \/ /\ peer[c] = "open" /\ rst'[c] = rst[c] /\ short \subseteq short'
             /\ c \notin short' => echoed'[c] = echoed[c] + length
          \/ /\ peer[c] = "closed" /\ rst'[c] = "due"
             /\ echo' = echo /\ echoed' = echoed /\ short' = short
          \/ /\ rst[c] = "come" /\ rst'[c] = "come"
             /\ echo' = echo /\ echoed' = echoed /\ short' = short
  BY <1>2, <1>3, <1>5, <1>8, SendKeeps
<1>12. events' \in Seq(Ids) /\ Len(events') <= MaxEvents
  BY <1>1, NextEvent
<1>13. TypeOK'
  <2>1. \A d \in Conns : said'[d] <= MaxSay[d] /\ unread'[d] \in 0 .. said'[d]
    BY <1>1, <1>4, <1>9
  <2> QED BY <1>1, <1>3, <1>9, <1>10, <1>11, <1>12, <2>1 DEF TypeOK, Ids
<1>14. Fresh' /\ Single'
  BY <1>1, <1>3 DEF Fresh, Single
<1>15. /\ peer[c] # "none" /\ (rst[c] # "none" => peer[c] = "closed")
       /\ rst[c] # "none" /\ TookAnswers(c) => c \in filled
  <2>1. Honest(c)
    BY <1>3, <1>5
  <2>2. peer[c] # "none"
    BY <1>0, <1>3, <1>5 DEF Fresh
  <2>3. unread[c] # 0
    BY <1>1, <1>6
  <2> QED BY <2>1, <2>2, <2>3 DEF Honest
<1>16. Honest(c)' /\ EchoSoFar(c)'
  <2>1. Honest(c)'
    BY <1>1, <1>10, <1>11, <1>15 DEF Honest, TookAnswers
  <2>2. EchoSoFar(c)'
    <3> SUFFICES ASSUME peer[c] # "closed", c \notin filled', c \notin short'
                 PROVE  echoed'[c] + unread'[c] = said[c]
      BY <1>1 DEF EchoSoFar
    <3>1. rst[c] = "none"
      BY <1>15
    <3>2. echoed'[c] = echoed[c] + length /\ short \subseteq short'
      BY <1>11, <3>1
    <3>3. echoed[c] + unread[c] = said[c]
      <4>1. EchoSoFar(c)
        BY <1>3, <1>5
      <4> QED BY <1>10, <3>2, <4>1 DEF EchoSoFar
    <3>4. unread'[c] = 0 /\ length = unread[c]
      BY <1>10
    <3> QED BY <1>6, <3>2, <3>3, <3>4
  <2> QED BY <2>1, <2>2
<1>17. ASSUME NEW d \in Conns \ {c} PROVE Honest(d)' /\ EchoSoFar(d)'
  <2>1. Honest(d) /\ EchoSoFar(d)
    BY <1>3
  <2>2. /\ unread'[d] = unread[d] /\ echo'[d] = echo[d] /\ echoed'[d] = echoed[d]
        /\ rst'[d] = rst[d] /\ (d \in short' <=> d \in short) /\ (d \in filled' <=> d \in filled)
    BY <1>9, <1>10, <1>11
  <2> QED BY <1>1, <2>1, <2>2 DEF Honest, EchoSoFar, TookAnswers
<1>18. EventsFresh' /\ NotForgotten'
  <2>1. \A m \in Fds : m # n /\ fdt[m] # None => fdt[m] \in Conns \ {c}
    BY <1>0, <1>3, <1>4, <1>5 DEF Single
  <2>2. ASSUME NEW m \in Fds, m # n, fdt[m] # None
        PROVE  /\ Ready(fdt[m])' <=> Ready(fdt[m])
               /\ TookAnswers(fdt[m])' <=> TookAnswers(fdt[m])
               /\ rst'[fdt[m]] = rst[fdt[m]]
    <3>1. fdt[m] \in Conns \ {c}
      BY <2>1, <2>2
    <3>2. /\ unread'[fdt[m]] = unread[fdt[m]] /\ echo'[fdt[m]] = echo[fdt[m]]
          /\ rst'[fdt[m]] = rst[fdt[m]]
      BY <1>9, <1>11, <3>1
    <3> QED BY <1>1, <3>2 DEF Ready, TookAnswers
  <2>3. ASSUME NEW f \in Ids \ {Head(events)}, IsReady(f) PROVE IsReady(f)'
    <3>1. CASE f = Listener
      BY <1>1, <2>3, <3>1 DEF IsReady
    <3>2. CASE f # Listener
      <4>1. f \in Fds /\ f # n /\ fdt[f] # None /\ Ready(fdt[f])
        BY <1>1, <2>3, <3>2 DEF IsReady, Ids
      <4> QED BY <1>1, <2>2, <3>2, <4>1 DEF IsReady
    <3> QED BY <3>1, <3>2
  <2>4. ASSUME NEW m \in Fds, fdt'[m] # None, Ready(fdt[m])', fdt'[m] \notin filled',
               TookAnswers(fdt[m])'
        PROVE  \/ rst'[fdt'[m]] = "due"
               \/ /\ m # Head(events) /\ fdt'[m] = fdt[m]
                  /\ Ready(fdt[m]) /\ TookAnswers(fdt[m])
                  /\ rst[fdt[m]] = "due" => rst'[fdt[m]] = "due"
    <3>1. CASE m = n
      <4>1. fdt'[m] = c
        BY <1>0, <1>1, <3>1
      <4>2. c \notin filled' /\ Ready(c)' /\ TookAnswers(c)'
        BY <1>1, <2>4, <4>1 DEF Ready, TookAnswers
      <4>3. unread'[c] = 0 /\ c \notin filled
        BY <1>10, <4>2
      <4>4. peer[c] = "closed" \/ rst'[c] = "come"
        BY <1>1, <4>2, <4>3 DEF Ready
      <4>5. CASE rst'[c] = "due"
        BY <4>1, <4>5
      <4>6. CASE peer[c] = "open" /\ rst'[c] = rst[c]
        BY <1>15, <4>4, <4>6
      <4>7. CASE rst[c] = "come" /\ echo' = echo
        <5>1. TookAnswers(c)
          BY <1>1, <4>2, <4>7 DEF TookAnswers
        <5> QED BY <1>15, <4>3, <4>7, <5>1
      <4> QED BY <1>11, <4>5, <4>6, <4>7
    <3>2. CASE m # n
      BY <1>1, <2>2, <2>4, <3>2 DEF Ready, TookAnswers
    <3> QED BY <3>1, <3>2
  <2> QED BY <1>1, <1>10, <2>3, <2>4, ServedKeeps
<1> QED BY <1>13, <1>14, <1>16, <1>17, <1>18 DEF EpollInv

-----------------------------------------------------------------------------

LEMMA EpollStep == EpollInv /\ [Next]_vars => EpollInv'
<1> SUFFICES ASSUME EpollInv, [Next]_vars PROVE EpollInv'
  OBVIOUS
<1>1. CASE \E c \in Conns : Client(c)
  BY <1>1, ConnectStep, SayStep, OtherStep DEF Client
<1>2. CASE Main
  BY <1>2, WaitStep, AcceptStep, ExitStep, ServeStep, LogoutStep DEF Main
<1>3. CASE UNCHANGED vars
  BY <1>3, ExitStep
<1> QED BY <1>1, <1>2, <1>3 DEF Next

LEMMA EpollInvariant == Spec => []EpollInv
<1> QED BY InitEpoll, EpollStep, PTL DEF Spec

(* Every variable of the server, the kernel and the clients keeps its type.*)
THEOREM EpollTypes == Spec => []TypeOK
<1>1. EpollInv => TypeOK
  BY DEF EpollInv
<1> QED BY <1>1, EpollInvariant, PTL

(* While the loop goes through the events of one epoll_wait(), accepting   *)
(* and closing, no event becomes void: accept() does not wait and no recv()*)
(* fails for want of bytes (lines 50-80).                                  *)
THEOREM EventsStayFresh == Spec => []EventsFresh
<1>1. EpollInv => EventsFresh
  BY DEF EpollInv
<1> QED BY <1>1, EpollInvariant, PTL

(* One recv() for an edge-triggered event is enough for a client that never*)
(* fills the buffer: if there is something left to be told, it has an event*)
(* or will have one (lines 57, 67).                                        *)
THEOREM NoneForgotten == Spec => []NotForgotten
<1>1. EpollInv => NotForgotten
  BY DEF EpollInv
<1> QED BY <1>1, EpollInvariant, PTL

(* A client that does not fill the buffer and takes what it is sent gets   *)
(* every byte back, as soon as it has been received (lines 66-72).         *)
THEOREM EchoedByteForByte == Spec => []EchoExact
<1>1. EpollInv => EchoExact
  BY DEF EpollInv, EchoSoFar, EchoExact
<1> QED BY <1>1, EpollInvariant, PTL
=============================================================================
