------------------------- MODULE SelectServerProofs -------------------------
(***************************************************************************)
(* Proofs about the select server, for any number of clients, descriptors  *)
(* and words: its types, that buffers and connections stay in step, that   *)
(* the mark for sending is set exactly as long as something is to be sent, *)
(* and that what a client is sent is what it said, in capitals.            *)
(***************************************************************************)
EXTENDS SelectServer, SequenceTheorems, TLAPS

(* What select() found is still there when its turn comes: a connection to *)
(* accept, and words to send.                                              *)
FoundHolds ==
  /\ 0 \in rfds => backlog # <<>>
  /\ \A n \in wfds : buffer[n].flag = 1

SelectInv == TypeOK /\ BuffersExact /\ MarkExact /\ FoundHolds

(* One recv() of RecvToBuffer: the words it returns, and what the buffer   *)
(* holds with them.                                                        *)
Got(n) == First(Unreceived(fdt[n]), BuffSize)
Now(n) == buffer[n].buff \o Capitals(First(Got(n), BuffSize - Len(buffer[n].buff)))

-----------------------------------------------------------------------------
(* The operators on sequences.                                             *)

LEMMA FirstOf ==
  ASSUME NEW S, NEW s \in Seq(S), NEW k \in Nat
  PROVE  First(s, k) \in Seq(S) /\ Len(First(s, k)) = Least(k, Len(s))
<1>1. Least(k, Len(s)) \in Nat /\ Least(k, Len(s)) <= Len(s)
  BY LenProperties DEF Least
<1>2. \A j \in 1 .. Least(k, Len(s)) : s[j] \in S
  BY <1>1, ElementOfSeq, LenProperties
<1> QED BY <1>1, <1>2, SubSeqProperties DEF First

LEMMA FromOf ==
  ASSUME NEW S, NEW s \in Seq(S), NEW k \in 0 .. Len(s)
  PROVE  From(s, k) \in Seq(S) /\ Len(From(s, k)) = Len(s) - k
<1>1. Len(s) \in Nat /\ k + 1 \in 1 .. Len(s) + 1 /\ k \in Nat
  BY LenProperties
<1>2. \A j \in k + 1 .. Len(s) : s[j] \in S
  BY <1>1, ElementOfSeq, LenProperties
<1> QED BY <1>1, <1>2, SubSeqProperties DEF From

LEMMA CapitalsOf ==
  ASSUME NEW s \in Seq(Word)
  PROVE  Capitals(s) \in Seq(Word) /\ Len(Capitals(s)) = Len(s)
<1>1. Len(s) \in Nat /\ DOMAIN s = 1 .. Len(s)
  BY LenProperties
<1>2. ASSUME NEW w \in Word PROVE ch_char(w) \in Word
  <2>1. w \in [from : Conns, no : Nat, word : {"text", "TEXT", "end"}]
    BY DEF Word
  <2>2. [w EXCEPT !.word = "TEXT"] \in [from : Conns, no : Nat, word : {"text", "TEXT", "end"}]
    BY <2>1
  <2> QED BY <2>1, <2>2 DEF ch_char, Word
<1>3. \A k \in 1 .. Len(s) : ch_char(s[k]) \in Word
  BY <1>2, ElementOfSeq
<1>4. Capitals(s) \in [1 .. Len(s) -> Word]
  BY <1>1, <1>3 DEF Capitals
<1> QED BY <1>1, <1>4

LEMMA BufferOf ==
  ASSUME TypeOK, NEW n \in Buffers
  PROVE  /\ buffer[n] \in Buffer /\ buffer[n].buff \in Seq(Word)
         /\ buffer[n].send_index \in Nat /\ Len(buffer[n].buff) \in 0 .. BuffSize
         /\ buffer[n].send_index \in 0 .. Len(buffer[n].buff)
         /\ Unsent(n) \in Seq(Word)
         /\ Len(Unsent(n)) = Len(buffer[n].buff) - buffer[n].send_index
<1>1. /\ buffer[n] \in Buffer /\ buffer[n].buff \in Seq(Word)
      /\ buffer[n].send_index \in 0 .. BuffSize
  BY DEF TypeOK, Buffer
<1>2. Len(buffer[n].buff) <= BuffSize /\ buffer[n].send_index <= Len(buffer[n].buff)
  BY DEF TypeOK
<1>3. Len(buffer[n].buff) \in Nat
  BY <1>1, LenProperties
<1>4. buffer[n].send_index \in 0 .. Len(buffer[n].buff) /\ Len(buffer[n].buff) \in 0 .. BuffSize
  BY <1>1, <1>2, <1>3, SelectAssumption
<1>5. /\ From(buffer[n].buff, buffer[n].send_index) \in Seq(Word)
      /\ Len(From(buffer[n].buff, buffer[n].send_index))
           = Len(buffer[n].buff) - buffer[n].send_index
  BY <1>1, <1>4, FromOf
<1> QED BY <1>1, <1>4, <1>5, SelectAssumption DEF Unsent

LEMMA SeqOfSome ==
  ASSUME NEW S, NEW s \in Seq(S), NEW t \in Seq(S)
  PROVE  /\ s \o t \in Seq(S) /\ Len(s \o t) = Len(s) + Len(t)
         /\ \A k \in DOMAIN s : k \in DOMAIN (s \o t) /\ (s \o t)[k] = s[k]
BY ConcatProperties, LenProperties

(* recv() returns something, the buffer then holds something, and still    *)
(* begins with what it held.                                               *)
LEMMA Received ==
  ASSUME TypeOK, NEW n \in Buffers, fdt[n] \in Conns, unread[fdt[n]] > 0
  PROVE  /\ Len(Got(n)) \in 1 .. unread[fdt[n]]
         /\ Now(n) \in Seq(Word)
         /\ Len(Now(n)) \in 1 .. BuffSize
         /\ Len(buffer[n].buff) <= Len(Now(n))
         /\ \A k \in DOMAIN buffer[n].buff :
              k \in DOMAIN Now(n) /\ Now(n)[k] = buffer[n].buff[k]
<1> DEFINE c == fdt[n]
           room == BuffSize - Len(buffer[n].buff)
           some == First(Got(n), room)
<1>1. /\ said[c] \in Seq(Word) /\ unread[c] \in Nat /\ unread[c] <= Len(said[c])
      /\ Len(said[c]) \in Nat
  BY LenProperties DEF TypeOK
<1>2. Len(said[c]) - unread[c] \in 0 .. Len(said[c])
  BY <1>1
<1>3. Unreceived(c) \in Seq(Word) /\ Len(Unreceived(c)) = unread[c]
  <2> DEFINE k == Len(said[c]) - unread[c]
  <2>1. From(said[c], k) \in Seq(Word) /\ Len(From(said[c], k)) = Len(said[c]) - k
    BY <1>1, <1>2, FromOf
  <2>2. Len(said[c]) - k = unread[c]
    BY <1>1
  <2> QED BY <2>1, <2>2 DEF Unreceived
<1>4. Got(n) \in Seq(Word) /\ Len(Got(n)) = Least(BuffSize, unread[c])
  BY <1>3, FirstOf, SelectAssumption DEF Got
<1>5. Len(Got(n)) \in 1 .. unread[c]
  BY <1>1, <1>4, SelectAssumption DEF Least
<1>6. buffer[n].buff \in Seq(Word) /\ room \in Nat /\ Len(buffer[n].buff) \in 0 .. BuffSize
  BY BufferOf, SelectAssumption
<1>7. some \in Seq(Word) /\ Len(some) = Least(room, Len(Got(n)))
  BY <1>4, <1>6, FirstOf
<1>8. Capitals(some) \in Seq(Word) /\ Len(Capitals(some)) = Len(some)
  BY <1>7, CapitalsOf
<1>9. Len(some) \in 0 .. room /\ (room # 0 => Len(some) # 0)
  BY <1>1, <1>5, <1>6, <1>7 DEF Least
<1>10. Now(n) = buffer[n].buff \o Capitals(some)
  BY DEF Now
<1> HIDE DEF some
<1>11. /\ Now(n) \in Seq(Word) /\ Len(Now(n)) = Len(buffer[n].buff) + Len(Capitals(some))
       /\ \A k \in DOMAIN buffer[n].buff :
            k \in DOMAIN Now(n) /\ Now(n)[k] = buffer[n].buff[k]
  <2> DEFINE s == buffer[n].buff
             t == Capitals(some)
  <2>1. s \in Seq(Word) /\ t \in Seq(Word)
    BY <1>6, <1>8
  <2> HIDE DEF s, t
  <2>2. /\ s \o t \in Seq(Word) /\ Len(s \o t) = Len(s) + Len(t)
        /\ \A k \in DOMAIN s : k \in DOMAIN (s \o t) /\ (s \o t)[k] = s[k]
    BY <2>1, SeqOfSome
  <2> QED BY <1>10, <2>2 DEF s, t
<1>12. Len(Now(n)) \in 1 .. BuffSize /\ Len(buffer[n].buff) <= Len(Now(n))
  <2>1. Len(some) \in Nat /\ Len(some) <= BuffSize - Len(buffer[n].buff)
    BY <1>6, <1>9
  <2>2. Len(Now(n)) = Len(buffer[n].buff) + Len(some)
    BY <1>8, <1>11
  <2>3. Len(buffer[n].buff) = 0 => Len(some) # 0
    BY <1>9, SelectAssumption
  <2>4. Len(buffer[n].buff) \in Nat
    BY <1>6
  <2> QED BY <2>1, <2>2, <2>3, <2>4, SelectAssumption
<1> QED BY <1>5, <1>11, <1>12

-----------------------------------------------------------------------------
(* Buffers.                                                                *)

(* A buffer of the right type, whose mark is right.                        *)
Marked(b) ==
  IF b.flag = 1
  THEN (\E k \in DOMAIN b.buff : b.buff[k].word = "end") /\ b.send_index < Len(b.buff)
  ELSE b.send_index = 0

Good(b) == /\ b \in Buffer
           /\ Len(b.buff) <= BuffSize
           /\ b.send_index <= Len(b.buff)
           /\ Marked(b)

BufferTypes ==
  /\ buffer \in [Buffers -> Buffer]
  /\ \A n \in Buffers : /\ Len(buffer[n].buff) <= BuffSize
                        /\ buffer[n].send_index <= Len(buffer[n].buff)

AllGood == buffer \in [Buffers -> Buffer] /\ \A n \in Buffers : Good(buffer[n])

LEMMA LeftOver ==
  ASSUME NEW s \in Seq(Word), NEW k \in Nat, k <= Len(s)
  PROVE  From(s, k) # <<>> <=> k < Len(s)
<1>1. From(s, k) \in Seq(Word) /\ Len(From(s, k)) = Len(s) - k /\ Len(s) \in Nat
  BY FromOf, LenProperties
<1>2. CASE k < Len(s)
  BY <1>1, <1>2, EmptySeq
<1>3. CASE k = Len(s)
  <2>1. Len(From(s, k)) = 0
    BY <1>1, <1>3
  <2>2. From(s, k) = <<>>
    BY <1>1, <2>1, EmptySeq
  <2> QED BY <2>2, <1>3, <1>1
<1> QED BY <1>1, <1>2, <1>3

LEMMA GoodIsExact == AllGood <=> BufferTypes /\ MarkExact
<1>1. ASSUME NEW n \in Buffers, buffer[n] \in Buffer,
             Len(buffer[n].buff) <= BuffSize, buffer[n].send_index <= Len(buffer[n].buff)
      PROVE  Unsent(n) # <<>> <=> buffer[n].send_index < Len(buffer[n].buff)
  <2>1. buffer[n].buff \in Seq(Word) /\ buffer[n].send_index \in Nat
    BY <1>1, SelectAssumption DEF Buffer
  <2> QED BY <1>1, <2>1, LeftOver DEF Unsent
<1>2. AllGood => BufferTypes /\ MarkExact
  BY <1>1 DEF AllGood, BufferTypes, MarkExact, Good, Marked
<1>3. BufferTypes /\ MarkExact => AllGood
  BY <1>1 DEF AllGood, BufferTypes, MarkExact, Good, Marked
<1> QED BY <1>2, <1>3

(* An action changes one buffer, to one that is good again.                *)
LEMMA OneChanged ==
  ASSUME AllGood, NEW n \in Buffers, NEW b, Good(b), buffer' = [buffer EXCEPT ![n] = b]
  PROVE  AllGood'
<1>1. b \in Buffer
  BY DEF Good
<1>2. buffer' \in [Buffers -> Buffer]
  BY <1>1 DEF AllGood
<1>3. ASSUME NEW m \in Buffers PROVE Good(buffer'[m])
  <2>1. CASE m = n
    BY <2>1 DEF AllGood
  <2>2. CASE m # n
    <3>1. buffer'[m] = buffer[m]
      BY <2>2 DEF AllGood
    <3> QED BY <3>1 DEF AllGood
  <2> QED BY <2>1, <2>2
<1>4. ASSUME NEW m \in Buffers PROVE Good(buffer[m])'
  BY <1>3 DEF Good, Marked
<1> QED BY <1>2, <1>4 DEF AllGood

(* Only the descriptor of a buffer changes.                                *)
LEMMA GoodFd ==
  ASSUME NEW b, Good(b), NEW f \in Fds \cup {-1}
  PROVE  Good([b EXCEPT !.fd = f])
BY DEF Good, Buffer, Marked

(* After a recv().                                                         *)
LEMMA GoodReceived ==
  ASSUME TypeOK, AllGood, NEW n \in Buffers, fdt[n] \in Conns, unread[fdt[n]] > 0
  PROVE  Good([buffer[n] EXCEPT !.buff = Now(n), !.flag = Mark(n, Now(n))])
<1> DEFINE b == [buffer[n] EXCEPT !.buff = Now(n), !.flag = Mark(n, Now(n))]
<1>1. /\ Now(n) \in Seq(Word) /\ Len(Now(n)) \in 1 .. BuffSize
      /\ Len(buffer[n].buff) <= Len(Now(n))
      /\ \A k \in DOMAIN buffer[n].buff :
           k \in DOMAIN Now(n) /\ Now(n)[k] = buffer[n].buff[k]
  BY Received
<1>2. buffer[n] \in Buffer /\ Good(buffer[n])
  BY DEF AllGood
<1>3. Mark(n, Now(n)) \in {0, 1}
  BY <1>2 DEF Mark, Buffer
<1>4. /\ b.buff = Now(n) /\ b.flag = Mark(n, Now(n)) /\ b.send_index = buffer[n].send_index
      /\ b \in Buffer
  BY <1>1, <1>2, <1>3 DEF Buffer
<1>5. /\ buffer[n].send_index \in Nat /\ Len(buffer[n].buff) \in Nat
      /\ buffer[n].send_index <= Len(buffer[n].buff)
  BY <1>2, SelectAssumption, BufferOf
<1>6. Len(b.buff) <= BuffSize /\ b.send_index <= Len(b.buff)
  BY <1>1, <1>4, <1>5, SelectAssumption
<1>7. CASE buffer[n].flag = 1
  <2>1. b.flag = 1
    BY <1>4, <1>7 DEF Mark
  <2>2. PICK k \in DOMAIN buffer[n].buff : buffer[n].buff[k].word = "end"
    BY <1>2, <1>7 DEF Good, Marked
  <2>3. k \in DOMAIN b.buff /\ b.buff[k].word = "end"
    BY <1>1, <1>4, <2>2
  <2>4. b.send_index < Len(b.buff)
    <3>1. buffer[n].send_index < Len(buffer[n].buff)
      BY <1>2, <1>7 DEF Good, Marked
    <3> QED BY <3>1, <1>1, <1>4, <1>5
  <2> QED BY <1>4, <1>6, <2>1, <2>3, <2>4 DEF Good, Marked
<1>8. CASE buffer[n].flag # 1
  <2>1. b.send_index = 0
    BY <1>2, <1>4, <1>8 DEF Good, Marked
  <2>2. b.send_index < Len(b.buff)
    BY <2>1, <1>1, <1>4, SelectAssumption
  <2>3. ASSUME b.flag = 1 PROVE \E k \in DOMAIN b.buff : b.buff[k].word = "end"
    <3>1. Last(Now(n)).word = "end"
      BY <1>4, <1>8, <2>3 DEF Mark
    <3>2. Len(Now(n)) \in DOMAIN Now(n)
      BY <1>1, LenProperties
    <3> QED BY <3>1, <3>2, <1>4 DEF Last
  <2> HIDE DEF b
  <2>4. Good(b)
    BY <1>4, <1>6, <2>1, <2>2, <2>3 DEF Good, Marked
  <2> QED BY <2>4 DEF b
<1> QED BY <1>7, <1>8

(* After a send() of k words, of a buffer that is marked.                  *)
LEMMA GoodSent ==
  ASSUME AllGood, NEW n \in Buffers, buffer[n].flag = 1, NEW k \in Nat, Sent(n, k)
  PROVE  AllGood' /\ wfds' \subseteq wfds /\ (buffer'[n].flag = 1 \/ n \notin wfds')
<1>1. buffer[n] \in Buffer /\ Good(buffer[n])
  BY DEF AllGood
<1>2. buffer[n].send_index \in Nat /\ buffer[n].buff \in Seq(Word)
  BY <1>1, SelectAssumption DEF Buffer
<1>3. CASE buffer[n].send_index + k < Len(buffer[n].buff)
  <2> DEFINE b == [buffer[n] EXCEPT !.send_index = @ + k]
  <2>1. buffer' = [buffer EXCEPT ![n] = b] /\ wfds' = wfds
    BY <1>3 DEF Sent, AllGood
  <2>2. Len(buffer[n].buff) \in Nat /\ Len(buffer[n].buff) <= BuffSize
    BY <1>1, <1>2, LenProperties DEF Good
  <2>3. buffer[n].send_index + k \in 0 .. BuffSize
    BY <1>2, <1>3, <2>2, SelectAssumption
  <2>4. /\ b \in Buffer /\ b.send_index = buffer[n].send_index + k
        /\ b.flag = 1 /\ b.buff = buffer[n].buff
    BY <1>1, <2>3 DEF Buffer
  <2> HIDE DEF b
  <2>5. b.send_index < Len(b.buff) /\ b.send_index <= Len(b.buff)
    BY <1>2, <1>3, <2>2, <2>4
  <2>6. Good(b)
    BY <1>1, <2>2, <2>4, <2>5 DEF Good, Marked
  <2>7. AllGood'
    BY <2>1, <2>6, OneChanged
  <2>8. buffer'[n].flag = 1
    BY <2>1, <2>4 DEF AllGood
  <2> QED BY <2>1, <2>7, <2>8
<1>4. CASE ~ (buffer[n].send_index + k < Len(buffer[n].buff))
  <2> DEFINE b == [buffer[n] EXCEPT !.send_index = 0, !.buff = <<>>, !.flag = 0]
  <2>1. buffer' = [buffer EXCEPT ![n] = b] /\ wfds' = wfds \ {n}
    BY <1>4 DEF Sent, AllGood
  <2>2. <<>> \in Seq(Word) /\ Len(<<>>) = 0 /\ 0 \in 0 .. BuffSize
    BY EmptySeq, SelectAssumption
  <2>3. b \in Buffer /\ b.send_index = 0 /\ b.flag = 0 /\ b.buff = <<>>
    BY <1>1, <2>2 DEF Buffer
  <2> HIDE DEF b
  <2>4. Good(b)
    BY <2>2, <2>3, SelectAssumption DEF Good, Marked
  <2>5. AllGood'
    BY <2>1, <2>4, OneChanged
  <2> QED BY <2>1, <2>5
<1> QED BY <1>3, <1>4
-----------------------------------------------------------------------------
(* The steps.                                                              *)

(* The types of what clients and connections have, and of the rest.        *)
OtherTypes ==
  /\ peer \in [Conns -> {"none", "open", "closed"}]
  /\ rst \in [Conns -> BOOLEAN]
  /\ said \in [Conns -> Seq(Word)]
  /\ unread \in [Conns -> Nat]
  /\ \A c \in Conns : unread[c] \in 0 .. Len(said[c]) /\ Len(said[c]) <= MaxSay[c]
  /\ echoed \in [Conns -> Seq(Word)]
  /\ held \in [Conns -> 0 .. Window]
  /\ left \in [Conns -> Seq(Word)]
  /\ overrun \subseteq Conns

ServerTypes ==
  /\ alive \in BOOLEAN
  /\ backlog \in Seq(Conns)
  /\ fdt \in [Fds -> Conns \cup {None}]
  /\ rfds \subseteq {0} \cup Buffers
  /\ wfds \subseteq Buffers

LEMMA InvParts ==
  SelectInv <=> ServerTypes /\ OtherTypes /\ AllGood /\ BuffersExact /\ FoundHolds
<1>1. TypeOK <=> ServerTypes /\ OtherTypes /\ BufferTypes
  BY DEF TypeOK, ServerTypes, OtherTypes, BufferTypes
<1> QED BY <1>1, GoodIsExact DEF SelectInv

LEMMA InvAgain ==
  ServerTypes' /\ OtherTypes' /\ AllGood' /\ BuffersExact' /\ FoundHolds' => SelectInv'
BY InvParts, PTL

LEMMA InitSelect == Init => SelectInv
<1> SUFFICES ASSUME Init PROVE SelectInv
  OBVIOUS
<1>1. <<>> \in Seq(Word) /\ Len(<<>>) = 0 /\ <<>> \in Seq(Conns) /\ 0 \in 0 .. BuffSize
  BY EmptySeq, SelectAssumption
<1>2. ServerTypes
  BY <1>1 DEF Init, ServerTypes
<1>3. OtherTypes
  <2>1. \A c \in Conns : MaxSay[c] \in Nat
    BY SelectAssumption
  <2> QED BY <1>1, <2>1, SelectAssumption DEF Init, OtherTypes
<1>4. Good(AllocBuffer)
  BY <1>1, SelectAssumption DEF Good, Marked, Buffer, AllocBuffer
<1>5. AllGood
  BY <1>4 DEF Init, AllGood, Good
<1>6. BuffersExact
  BY DEF Init, BuffersExact, AllocBuffer, Buffers
<1>7. FoundHolds
  BY DEF Init, FoundHolds
<1> QED BY <1>2, <1>3, <1>5, <1>6, <1>7, InvParts

(* Descriptor 0 is the listener's, and n is not.                           *)
LEMMA BufferIsFd == \A n \in Buffers : n \in Fds /\ n # 0 /\ n \in Nat
BY SelectAssumption DEF Buffers, Fds

(* A descriptor whose turn it is belongs to a connection.                  *)
LEMMA TurnIsOpen ==
  ASSUME SelectInv, NEW n \in Buffers, n \in rfds \cup wfds
  PROVE  fdt[n] \in Conns /\ fdt[n] # None
BY BufferIsFd DEF SelectInv, TypeOK, BuffersExact

LEMMA SelectStep == ASSUME SelectInv, select PROVE SelectInv'
<1>1. /\ rfds' = {n \in Buffers : buffer[n].fd = n /\ Readable(fdt[n])}
                    \cup (IF backlog # <<>> THEN {0} ELSE {})
      /\ wfds' = {n \in Buffers : buffer[n].fd = n /\ buffer[n].flag = 1 /\ Writable(fdt[n])}
  BY DEF select
<1>2. UNCHANGED <<alive, backlog, fdt, buffer, peer, rst, said, unread, echoed, held, left, overrun>>
  BY DEF select, echoVars, historyVars
<1>3. ServerTypes'
  BY <1>1, <1>2, InvParts DEF ServerTypes
<1>4. OtherTypes'
  BY <1>2, InvParts DEF OtherTypes
<1>5. AllGood'
  BY <1>2, InvParts DEF AllGood, Good, Marked
<1>6. BuffersExact'
  BY <1>1, <1>2, BufferIsFd DEF SelectInv, BuffersExact
<1>7. FoundHolds'
  BY <1>1, <1>2, BufferIsFd DEF FoundHolds
<1> QED BY <1>3, <1>4, <1>5, <1>6, <1>7, InvAgain

LEMMA AcceptStep == ASSUME SelectInv, accept PROVE SelectInv'
<1> USE DEF SelectInv
<1>1. backlog \in Seq(Conns) /\ backlog # <<>>
  BY DEF accept, FoundHolds, TypeOK
<1>2. Head(backlog) \in Conns /\ Tail(backlog) \in Seq(Conns) /\ Head(backlog) # None
  BY <1>1, HeadTailProperties, SelectAssumption
<1>3. UNCHANGED <<peer, rst, said, unread, echoed, held, wfds, overrun>>
  BY DEF accept, echoVars
<1>4. backlog' = Tail(backlog) /\ rfds' = rfds \ {0}
  BY DEF accept
<1>5. PICK n \in Fds :
        /\ fdt[n] = None
        /\ \/ /\ n > MaxClients
              /\ UNCHANGED <<alive, fdt, buffer, left>>
           \/ /\ n = MaxClients
              /\ fdt' = [fdt EXCEPT ![n] = Head(backlog)]
              /\ alive' \in BOOLEAN
              /\ UNCHANGED <<buffer, left>>
           \/ /\ n < MaxClients
              /\ fdt' = [fdt EXCEPT ![n] = Head(backlog)]
              /\ buffer' = [buffer EXCEPT ![n].fd = n]
              /\ left' = [left EXCEPT ![Head(backlog)] = Unsent(n)]
              /\ UNCHANGED alive
  BY DEF accept, Opens
<1>6. n \in Buffers <=> n < MaxClients
  BY DEF Buffers
<1>7. n \in Nat /\ n \in Int
  BY SelectAssumption DEF Fds
<1>8. ServerTypes'
  <2>1. backlog' \in Seq(Conns) /\ rfds' \subseteq {0} \cup Buffers
    BY <1>2, <1>4 DEF TypeOK
  <2>2. fdt' \in [Fds -> Conns \cup {None}]
    BY <1>2, <1>5 DEF TypeOK
  <2>3. alive' \in BOOLEAN
    BY <1>5 DEF TypeOK
  <2> QED BY <1>3, <2>1, <2>2, <2>3 DEF TypeOK, ServerTypes
<1>9. OtherTypes'
  <2>1. left' \in [Conns -> Seq(Word)]
    <3>1. CASE n < MaxClients
      <4>1. Unsent(n) \in Seq(Word)
        BY <1>6, <3>1, BufferOf
      <4>2. left' = [left EXCEPT ![Head(backlog)] = Unsent(n)] 
        BY <1>5, <1>7, <3>1, SelectAssumption
      <4> QED BY <4>1, <4>2 DEF TypeOK
    <3>2. CASE ~ (n < MaxClients)
      BY <1>5, <3>2 DEF TypeOK
    <3> QED BY <3>1, <3>2
  <2> QED BY <1>3, <2>1 DEF TypeOK, OtherTypes
<1>10. AllGood /\ FoundHolds /\ BuffersExact
  BY InvParts
<1>11. CASE n < MaxClients
  <2>1. n \in Buffers /\ Good([buffer[n] EXCEPT !.fd = n])
    BY <1>6, <1>10, <1>11, GoodFd DEF AllGood
  <2>2. /\ fdt' = [fdt EXCEPT ![n] = Head(backlog)]
        /\ buffer' = [buffer EXCEPT ![n] = [buffer[n] EXCEPT !.fd = n]]
    BY <1>5, <1>7, <1>11, SelectAssumption
  <2>3. AllGood'
    BY <1>10, <2>1, <2>2, OneChanged
  <2>4. ASSUME NEW m \in Buffers
        PROVE  /\ buffer'[m].fd = (IF m = n THEN n ELSE buffer[m].fd)
               /\ buffer'[m].flag = buffer[m].flag
               /\ fdt'[m] = IF m = n THEN Head(backlog) ELSE fdt[m]
    BY <2>1, <2>2, BufferIsFd DEF TypeOK, Buffer
  <2>5. BuffersExact'
    BY <1>2, <1>3, <1>4, <1>5, <1>10, <2>4 DEF BuffersExact
  <2>6. FoundHolds'
    BY <1>3, <1>4, <1>10, <2>4 DEF FoundHolds, TypeOK
  <2> QED BY <1>8, <1>9, <2>3, <2>5, <2>6, InvAgain
<1>12. CASE ~ (n < MaxClients)
  <2>1. buffer' = buffer /\ \A m \in Buffers : fdt'[m] = fdt[m]
    BY <1>5, <1>6, <1>12, BufferIsFd DEF TypeOK
  <2>2. AllGood'
    BY <1>10, <2>1 DEF AllGood, Good, Marked
  <2>3. BuffersExact'
    BY <1>3, <1>4, <1>10, <2>1 DEF BuffersExact
  <2>4. FoundHolds'
    BY <1>3, <1>4, <1>10, <2>1 DEF FoundHolds
  <2> QED BY <1>8, <1>9, <2>2, <2>3, <2>4, InvAgain
<1> QED BY <1>11, <1>12

LEMMA AcceptFailsStep == ASSUME SelectInv, AcceptFails PROVE SelectInv'
<1>1. /\ alive' = FALSE
      /\ UNCHANGED <<backlog, fdt, peer, rst, said, unread, echoed, held, buffer, rfds,
                     wfds, left, overrun>>
  BY DEF AcceptFails, echoVars, historyVars
<1>2. ServerTypes' /\ OtherTypes'
  BY <1>1, InvParts DEF ServerTypes, OtherTypes
<1>3. AllGood' /\ BuffersExact' /\ FoundHolds'
  BY <1>1, InvParts DEF AllGood, Good, Marked, BuffersExact, FoundHolds
<1> QED BY <1>2, <1>3, InvAgain

LEMMA RecvStep ==
  ASSUME SelectInv, NEW n \in Buffers, RecvToBuffer(n)
  PROVE  SelectInv'
<1> DEFINE c == fdt[n]
           b == [buffer[n] EXCEPT !.buff = Now(n), !.flag = Mark(n, Now(n))]
<1>1. c \in Conns /\ unread[c] > 0
  BY TurnIsOpen DEF RecvToBuffer
<1>2. /\ unread' = [unread EXCEPT ![c] = @ - Len(Got(n))]
      /\ buffer' = [buffer EXCEPT ![n].buff = Now(n), ![n].flag = Mark(n, Now(n))]
      /\ overrun' = overrun \cup {c} \/ overrun' = overrun
      /\ UNCHANGED <<alive, backlog, fdt, peer, rst, said, echoed, held, rfds, wfds, left>>
  BY DEF RecvToBuffer, Got, Now, echoVars
<1>3. TypeOK /\ AllGood /\ BuffersExact /\ FoundHolds
  BY InvParts DEF SelectInv
<1>4. buffer' = [buffer EXCEPT ![n] = b] /\ buffer \in [Buffers -> Buffer]
  BY <1>2, <1>3 DEF AllGood
<1>5. Good(b) /\ Len(Got(n)) \in 1 .. unread[c]
  BY <1>1, <1>3, GoodReceived, Received
<1>6. b.fd = buffer[n].fd /\ (buffer[n].flag = 1 => b.flag = 1)
  BY <1>3 DEF AllGood, Good, Buffer, Mark
<1> HIDE DEF b
<1>7. AllGood'
  BY <1>3, <1>4, <1>5, OneChanged
<1>8. ServerTypes'
  BY <1>2, InvParts DEF ServerTypes
<1>9. OtherTypes'
  <2>1. unread[c] - Len(Got(n)) \in Nat /\ unread[c] - Len(Got(n)) <= unread[c]
    <3>1. unread[c] \in Nat
      BY <1>1, <1>3 DEF TypeOK
    <3> QED BY <1>5, <3>1
  <2>2. unread' \in [Conns -> Nat] /\ \A d \in Conns : unread'[d] <= unread[d]
    BY <1>1, <1>2, <1>3, <2>1 DEF TypeOK
  <2>3. overrun' \subseteq Conns
    BY <1>1, <1>2, <1>3 DEF TypeOK
  <2>4. \A d \in Conns : unread'[d] \in 0 .. Len(said[d]) /\ Len(said[d]) <= MaxSay[d]
    <3> SUFFICES ASSUME NEW d \in Conns
                 PROVE  unread'[d] \in 0 .. Len(said[d]) /\ Len(said[d]) <= MaxSay[d]
      OBVIOUS
    <3>1. unread[d] \in 0 .. Len(said[d]) /\ Len(said[d]) <= MaxSay[d] /\ Len(said[d]) \in Nat
      BY <1>3, LenProperties DEF TypeOK
    <3>2. unread'[d] \in Nat /\ unread'[d] <= unread[d]
      BY <2>2
    <3> QED BY <3>1, <3>2
  <2> QED BY <1>2, <1>3, <2>2, <2>3, <2>4 DEF TypeOK, OtherTypes
<1>10. \A m \in Buffers : /\ buffer'[m].fd = buffer[m].fd
                          /\ buffer[m].flag = 1 => buffer'[m].flag = 1
  BY <1>4, <1>6
<1>11. UNCHANGED <<fdt, backlog, rfds, wfds>> /\ wfds \subseteq Buffers
  BY <1>2, <1>3 DEF TypeOK
<1>12. BuffersExact'
  BY <1>3, <1>10, <1>11 DEF BuffersExact
<1>13. FoundHolds'
  BY <1>3, <1>10, <1>11 DEF FoundHolds
<1> QED BY <1>7, <1>8, <1>9, <1>12, <1>13, InvAgain

LEMMA RecvDoneStep ==
  ASSUME SelectInv, NEW n \in Buffers, RecvDone(n) \/ SendAgain(n)
  PROVE  SelectInv'
<1>1. /\ UNCHANGED <<alive, backlog, fdt, peer, rst, said, unread, echoed, held, buffer,
                     left, overrun>>
      /\ rfds' \subseteq rfds /\ wfds' \subseteq wfds
  BY DEF RecvDone, SendAgain, echoVars, historyVars
<1>2. ServerTypes' /\ OtherTypes'
  BY <1>1, InvParts DEF ServerTypes, OtherTypes
<1>3. AllGood' /\ BuffersExact' /\ FoundHolds'
  BY <1>1, InvParts DEF AllGood, Good, Marked, BuffersExact, FoundHolds
<1> QED BY <1>2, <1>3, InvAgain

(* The parts of the invariant Closed() touches.                            *)
LEMMA ClosedStep ==
  ASSUME SelectInv, NEW n \in Buffers, n \in rfds \cup wfds, Closed(n),
         UNCHANGED backlog
  PROVE  /\ AllGood' /\ BuffersExact' /\ FoundHolds'
         /\ fdt' \in [Fds -> Conns \cup {None}]
         /\ rfds' \subseteq {0} \cup Buffers /\ wfds' \subseteq Buffers
<1> DEFINE b == [buffer[n] EXCEPT !.fd = -1]
<1>1. TypeOK /\ AllGood /\ BuffersExact /\ FoundHolds
  BY InvParts DEF SelectInv
<1>2. /\ buffer' = [buffer EXCEPT ![n] = b]
      /\ fdt' = [fdt EXCEPT ![n] = None]
      /\ rfds' = rfds \ {n} /\ wfds' = wfds \ {n}
  BY <1>1 DEF Closed
<1>3. Good(b)
  BY <1>1, GoodFd DEF AllGood
<1>4. b.fd = -1 /\ b.flag = buffer[n].flag
  BY <1>1 DEF AllGood, Buffer
<1> HIDE DEF b
<1>5. AllGood'
  BY <1>1, <1>2, <1>3, OneChanged
<1>6. ASSUME NEW m \in Buffers
      PROVE  /\ buffer'[m].fd = (IF m = n THEN -1 ELSE buffer[m].fd)
             /\ buffer'[m].flag = buffer[m].flag
             /\ fdt'[m] = IF m = n THEN None ELSE fdt[m]
  BY <1>1, <1>2, <1>4, BufferIsFd DEF TypeOK
<1>7. BuffersExact'
  BY <1>1, <1>2, <1>6 DEF BuffersExact
<1>8. FoundHolds'
  BY <1>1, <1>2, <1>6 DEF FoundHolds, TypeOK
<1> QED BY <1>1, <1>2, <1>5, <1>7, <1>8, BufferIsFd DEF TypeOK

LEMMA LogoutStep ==
  ASSUME SelectInv, NEW n \in Buffers, Logout(n)
  PROVE  SelectInv'
<1>1. /\ n \in rfds \cup wfds /\ Closed(n)
      /\ UNCHANGED <<alive, backlog, peer, rst, said, unread, echoed, held, left, overrun>>
  BY DEF Logout, echoVars, historyVars
<1>2. OtherTypes'
  BY <1>1, InvParts DEF OtherTypes
<1>3. ServerTypes'
  BY <1>1, ClosedStep, InvParts DEF ServerTypes
<1> QED BY <1>1, <1>2, <1>3, ClosedStep, InvAgain

LEMMA SendFailsStep ==
  ASSUME SelectInv, NEW n \in Buffers, SendFails(n)
  PROVE  SelectInv'
<1>1. /\ n \in rfds \cup wfds
      /\ UNCHANGED <<backlog, peer, rst, said, unread, echoed, held, left, overrun>>
  BY DEF SendFails, IsSent, IsTurn, echoVars, historyVars
<1>2. OtherTypes'
  BY <1>1, InvParts DEF OtherTypes
<1>3. CASE Closed(n) /\ UNCHANGED alive
  <2>1. ServerTypes'
    BY <1>1, <1>3, ClosedStep, InvParts DEF ServerTypes
  <2> QED BY <1>1, <1>2, <1>3, <2>1, ClosedStep, InvAgain
<1>4. CASE alive' = FALSE /\ UNCHANGED <<fdt, buffer, rfds, wfds>>
  <2>1. ServerTypes' /\ AllGood' /\ BuffersExact' /\ FoundHolds'
    BY <1>1, <1>4, InvParts DEF ServerTypes, AllGood, Good, Marked, BuffersExact, FoundHolds
  <2> QED BY <1>2, <2>1, InvAgain
<1> QED BY <1>3, <1>4 DEF SendFails

LEMMA SendStep ==
  ASSUME SelectInv, NEW n \in Buffers, SendFromBuffer(n)
  PROVE  SelectInv'
<1> DEFINE c   == fdt[n]
           out == First(Unsent(n), Window - held[c])
<1>1. TypeOK /\ AllGood /\ BuffersExact /\ FoundHolds
  BY InvParts DEF SelectInv
<1>2. n \in wfds /\ n \in rfds \cup wfds /\ c \in Conns
  BY TurnIsOpen DEF SendFromBuffer, IsSent, IsTurn
<1>3. buffer[n].flag = 1
  BY <1>1, <1>2 DEF FoundHolds
<1>4. UNCHANGED <<alive, backlog, fdt, peer, said, unread, rfds, left, overrun>>
  BY DEF SendFromBuffer, historyVars
<1>5. Unsent(n) \in Seq(Word) /\ Len(Unsent(n)) \in Nat
  BY <1>1, BufferOf, LenProperties
<1>6. PICK k \in Nat :
        /\ Sent(n, k)
        /\ \/ /\ echoed' = [echoed EXCEPT ![c] = @ \o out]
              /\ held' = [held EXCEPT ![c] = @ + Len(out)]
              /\ out \in Seq(Word)
              /\ held[c] + Len(out) \in 0 .. Window
              /\ UNCHANGED rst
           \/ /\ rst' = [rst EXCEPT ![c] = TRUE]
              /\ UNCHANGED <<echoed, held>>
  <2>1. CASE /\ held[c] < Window
             /\ echoed' = [echoed EXCEPT ![c] = @ \o out]
             /\ held' = [held EXCEPT ![c] = @ + Len(out)]
             /\ Sent(n, Len(out))
             /\ UNCHANGED rst
    <3>1. held[c] \in 0 .. Window /\ Window - held[c] \in Nat
      BY <1>1, <1>2, <2>1, SelectAssumption DEF TypeOK
    <3>2. out \in Seq(Word) /\ Len(out) = Least(Window - held[c], Len(Unsent(n)))
      BY <1>5, <3>1, FirstOf
    <3>3. Len(out) \in Nat /\ Len(out) <= Window - held[c]
      BY <1>5, <3>1, <3>2 DEF Least
    <3>4. held[c] + Len(out) \in 0 .. Window
      BY <3>1, <3>3, SelectAssumption
    <3> HIDE DEF out
    <3> QED BY <2>1, <3>2, <3>3, <3>4
  <2>2. CASE /\ rst' = [rst EXCEPT ![c] = TRUE]
             /\ Sent(n, Len(Unsent(n)))
             /\ UNCHANGED echoVars
    BY <1>5, <2>2 DEF echoVars
  <2> QED BY <2>1, <2>2 DEF SendFromBuffer
<1> HIDE DEF out
<1>7. OtherTypes'
  <2>1. /\ echoed' \in [Conns -> Seq(Word)]
        /\ held' \in [Conns -> 0 .. Window]
        /\ rst' \in [Conns -> BOOLEAN]
    <3>1. out \in Seq(Word) => echoed[c] \o out \in Seq(Word)
      BY <1>1, <1>2, ConcatProperties DEF TypeOK
    <3>a. /\ echoed \in [Conns -> Seq(Word)] /\ held \in [Conns -> 0 .. Window]
          /\ rst \in [Conns -> BOOLEAN]
      BY <1>1 DEF TypeOK
    <3> QED BY <1>2, <1>6, <3>1, <3>a
  <2> QED BY <1>1, <1>4, <2>1 DEF TypeOK, OtherTypes
<1>8. AllGood' /\ wfds' \subseteq wfds /\ (buffer'[n].flag = 1 \/ n \notin wfds')
  BY <1>1, <1>3, <1>6, GoodSent
<1>9. \A m \in Buffers : /\ buffer'[m].fd = buffer[m].fd
                         /\ m # n => buffer'[m].flag = buffer[m].flag
  BY <1>1, <1>6 DEF Sent, AllGood, Buffer
<1>10. ServerTypes'
  BY <1>4, <1>8, InvParts DEF ServerTypes
<1>11. UNCHANGED <<fdt, backlog, rfds>> /\ wfds \subseteq Buffers
  BY <1>1, <1>4 DEF TypeOK
<1>12. BuffersExact'
  BY <1>1, <1>8, <1>9, <1>11 DEF BuffersExact
<1>13. FoundHolds'
  BY <1>1, <1>8, <1>9, <1>11 DEF FoundHolds
<1> QED BY <1>7, <1>8, <1>10, <1>12, <1>13, InvAgain

LEMMA ClientStep ==
  ASSUME SelectInv, NEW c \in Conns, Client(c)
  PROVE  SelectInv'
<1>1. UNCHANGED <<alive, fdt, buffer, rfds, wfds, echoed, left, overrun>>
  BY DEF Client, Connect, Say, Collect, Leave, echoVars, historyVars
<1>2. TypeOK
  BY DEF SelectInv
<1>3. backlog' \in Seq(Conns) /\ (backlog # <<>> => backlog' # <<>>)
  <2>1. backlog \in Seq(Conns)
    BY <1>2 DEF TypeOK
  <2>2. Append(backlog, c) \in Seq(Conns) /\ Append(backlog, c) # <<>>
    BY <2>1, AppendProperties
  <2> QED BY <2>1, <2>2 DEF Client, Connect, Say, Collect, Leave
<1>4. OtherTypes'
  <2>1. CASE Connect(c) \/ Leave(c)
    <3>1. UNCHANGED <<said, unread, held>>
      BY <2>1 DEF Connect, Leave, echoVars
    <3>2. peer' \in [Conns -> {"none", "open", "closed"}]
      BY <1>2, <2>1 DEF TypeOK, Connect, Leave
    <3>3. rst' \in [Conns -> BOOLEAN]
      <4>1. rst \in [Conns -> BOOLEAN]
        BY <1>2 DEF TypeOK
      <4>2. CASE Connect(c)
        BY <4>1, <4>2 DEF Connect
      <4>3. CASE Leave(c)
        <5> DEFINE v == held[c] > 0
        <5>1. v \in BOOLEAN /\ rst' = [rst EXCEPT ![c] = v]
          BY <4>3 DEF Leave
        <5> HIDE DEF v
        <5> QED BY <4>1, <5>1
      <4> QED BY <2>1, <4>2, <4>3
    <3> QED BY <1>1, <1>2, <3>1, <3>2, <3>3 DEF TypeOK, OtherTypes
  <2>2. CASE Collect(c)
    BY <1>1, <1>2, <2>2, SelectAssumption DEF TypeOK, OtherTypes, Collect
  <2>3. CASE Say(c)
    <3>1. PICK w \in {"text", "end"} :
            said' = [said EXCEPT ![c] =
                       Append(said[c], [from |-> c, no |-> Len(said[c]) + 1, word |-> w])]
      BY <2>3 DEF Say
    <3> DEFINE v == [from |-> c, no |-> Len(said[c]) + 1, word |-> w]
    <3>2. said[c] \in Seq(Word) /\ Len(said[c]) \in Nat
      BY <1>2, LenProperties DEF TypeOK
    <3>3. v \in Word
      BY <3>2 DEF Word
    <3> HIDE DEF v
    <3>4. Append(said[c], v) \in Seq(Word) /\ Len(Append(said[c], v)) = Len(said[c]) + 1
      BY <3>2, <3>3, AppendProperties
    <3>5. said' = [said EXCEPT ![c] = Append(said[c], v)]
      BY <3>1 DEF v
    <3>6. /\ Len(said[c]) < MaxSay[c] /\ unread' = [unread EXCEPT ![c] = @ + 1]
          /\ UNCHANGED <<peer, rst, held>>
      BY <2>3 DEF Say, echoVars
    <3>7. said' \in [Conns -> Seq(Word)] /\ unread' \in [Conns -> Nat]
      BY <1>2, <3>4, <3>5, <3>6 DEF TypeOK
    <3>8. ASSUME NEW d \in Conns
          PROVE  unread'[d] \in 0 .. Len(said'[d]) /\ Len(said'[d]) <= MaxSay[d]
      <4>1. CASE d = c
        <5>1. Len(said'[d]) = Len(said[c]) + 1 /\ unread'[d] = unread[c] + 1
          BY <1>2, <3>4, <3>5, <3>6, <4>1 DEF TypeOK
        <5>2. unread[c] \in Nat /\ unread[c] <= Len(said[c]) /\ MaxSay[c] \in Nat
          BY <1>2, SelectAssumption DEF TypeOK
        <5> QED BY <3>2, <3>6, <4>1, <5>1, <5>2
      <4>2. CASE d # c
        BY <1>2, <3>5, <3>6, <4>2 DEF TypeOK
      <4> QED BY <4>1, <4>2
    <3> QED BY <1>1, <1>2, <3>6, <3>7, <3>8 DEF TypeOK, OtherTypes
  <2> QED BY <2>1, <2>2, <2>3 DEF Client
<1>5. ServerTypes'
  BY <1>1, <1>2, <1>3 DEF TypeOK, ServerTypes
<1>6. AllGood' /\ BuffersExact' /\ FoundHolds'
  BY <1>1, <1>3, InvParts DEF AllGood, Good, Marked, BuffersExact, FoundHolds
<1> QED BY <1>4, <1>5, <1>6, InvAgain

-----------------------------------------------------------------------------
(* The theorems.                                                           *)

LEMMA NextSelect == SelectInv /\ [Next]_vars => SelectInv'
<1> SUFFICES ASSUME SelectInv, [Next]_vars PROVE SelectInv'
  OBVIOUS
<1>1. CASE Next
  <2>1. CASE select
    BY <2>1, SelectStep
  <2>2. CASE accept
    BY <2>2, AcceptStep
  <2>3. CASE AcceptFails
    BY <2>3, AcceptFailsStep
  <2>4. ASSUME NEW n \in Buffers,
               \/ RecvToBuffer(n) \/ RecvDone(n) \/ Logout(n)
               \/ SendFromBuffer(n) \/ SendAgain(n) \/ SendFails(n)
        PROVE  SelectInv'
    BY <2>4, RecvStep, RecvDoneStep, LogoutStep, SendStep, SendFailsStep
  <2>5. ASSUME NEW c \in Conns, Client(c) PROVE SelectInv'
    BY <2>5, ClientStep
  <2> QED BY <1>1, <2>1, <2>2, <2>3, <2>4, <2>5 DEF Next, Main
<1>2. CASE UNCHANGED vars
  <2>1. ServerTypes' /\ OtherTypes'
    BY <1>2, InvParts DEF vars, ServerTypes, OtherTypes
  <2>2. AllGood' /\ BuffersExact' /\ FoundHolds'
    BY <1>2, InvParts DEF vars, AllGood, Good, Marked, BuffersExact, FoundHolds
  <2> QED BY <2>1, <2>2, InvAgain
<1> QED BY <1>1, <1>2

(* The inductive invariant: descriptors, buffers and marks, and what a     *)
(* round has found and not yet served.                                     *)
THEOREM SelectInvariant == Spec => []SelectInv
BY InitSelect, NextSelect, PTL DEF Spec

(* Every variable of the select server keeps its type: no buffer is filled *)
(* beyond its length, nor sent beyond what it holds.                       *)
THEOREM SelectTypeCorrect == Spec => []TypeOK
<1>1. SelectInv => TypeOK
  BY DEF SelectInv
<1> QED BY <1>1, SelectInvariant, PTL

(* Buffers and connections stay in step, whatever a round closes.          *)
THEOREM BuffersInStep == Spec => []BuffersExact
<1>1. SelectInv => BuffersExact
  BY DEF SelectInv
<1> QED BY <1>1, SelectInvariant, PTL

(* A buffer is marked as long as something of a request is to be sent, and *)
(* a marked buffer always has something to send.                           *)
THEOREM MarksHold == Spec => []MarkExact
<1>1. SelectInv => MarkExact
  BY DEF SelectInv
<1> QED BY <1>1, SelectInvariant, PTL
-----------------------------------------------------------------------------
(* Parts of sequences, and sequences of words.                             *)

LEMMA FromAt ==
  ASSUME NEW S, NEW s \in Seq(S), NEW k \in 0 .. Len(s)
  PROVE  \A i \in 1 .. Len(s) - k : From(s, k)[i] = s[k + i]
<1>1. Len(s) \in Nat /\ k + 1 \in Int /\ k \in Nat
  BY LenProperties
<1>2. \A j \in k + 1 .. Len(s) : s[j] \in S
  BY <1>1, ElementOfSeq, LenProperties
<1>3. \A i \in 1 .. Len(s) - (k + 1) + 1 : SubSeq(s, k + 1, Len(s))[i] = s[k + 1 + i - 1]
  BY <1>1, <1>2, SubSeqProperties
<1>4. \A i \in 1 .. Len(s) - k : i \in 1 .. Len(s) - (k + 1) + 1 /\ k + 1 + i - 1 = k + i
  BY <1>1
<1> QED BY <1>3, <1>4 DEF From

LEMMA FirstAndFrom ==
  ASSUME NEW S, NEW s \in Seq(S), NEW k \in 0 .. Len(s)
  PROVE  First(s, k) \o From(s, k) = s
<1>1. Len(s) \in Nat /\ k \in Nat /\ Least(k, Len(s)) = k
  BY LenProperties DEF Least
<1>2. 1 \in 1 .. Len(s) + 1 /\ k \in 1 - 1 .. Len(s) /\ Len(s) \in k .. Len(s)
  BY <1>1
<1>3. SubSeq(s, 1, k) \o SubSeq(s, k + 1, Len(s)) = SubSeq(s, 1, Len(s))
  BY <1>2, ConcatAdjacentSubSeq
<1> QED BY <1>1, <1>3, SubSeqFull DEF First, From

LEMMA FromOfFrom ==
  ASSUME NEW S, NEW s \in Seq(S), NEW a \in 0 .. Len(s), NEW b \in 0 .. Len(s) - a
  PROVE  From(From(s, a), b) = From(s, a + b)
<1> DEFINE t == From(s, a)
<1>1. Len(s) \in Nat /\ a \in Nat /\ b \in Nat /\ a + b \in 0 .. Len(s)
  BY LenProperties
<1>2. t \in Seq(S) /\ Len(t) = Len(s) - a /\ \A i \in 1 .. Len(s) - a : t[i] = s[a + i]
  <2>1. t \in Seq(S) /\ Len(t) = Len(s) - a
    BY FromOf
  <2>2. \A i \in 1 .. Len(s) - a : t[i] = s[a + i]
    BY FromAt
  <2> QED BY <2>1, <2>2
<1> HIDE DEF t
<1>3. b \in 0 .. Len(t)
  BY <1>2
<1>4. /\ From(t, b) \in Seq(S) /\ Len(From(t, b)) = Len(t) - b
      /\ \A i \in 1 .. Len(t) - b : From(t, b)[i] = t[b + i]
  BY <1>2, <1>3, FromOf, FromAt
<1>5. /\ From(s, a + b) \in Seq(S) /\ Len(From(s, a + b)) = Len(s) - (a + b)
      /\ \A i \in 1 .. Len(s) - (a + b) : From(s, a + b)[i] = s[a + b + i]
  BY <1>1, FromOf, FromAt
<1>6. Len(From(t, b)) = Len(From(s, a + b))
  <2>1. Len(From(t, b)) = Len(t) - b /\ Len(t) = Len(s) - a
    BY <1>2, <1>4
  <2>2. Len(From(s, a + b)) = Len(s) - (a + b)
    BY <1>5
  <2> QED BY <1>1, <2>1, <2>2
<1>7. ASSUME NEW i \in 1 .. Len(From(t, b)) PROVE From(t, b)[i] = From(s, a + b)[i]
  <2>1. /\ i \in 1 .. Len(t) - b /\ b + i \in 1 .. Len(s) - a
        /\ i \in 1 .. Len(s) - (a + b) /\ a + (b + i) = a + b + i
    BY <1>1, <1>2, <1>4
  <2>2. From(t, b)[i] = t[b + i] /\ t[b + i] = s[a + (b + i)]
    BY <2>1, <1>2, <1>4
  <2>3. From(s, a + b)[i] = s[a + b + i]
    BY <2>1, <1>5
  <2> QED BY <2>1, <2>2, <2>3
<1>8. From(t, b) = From(s, a + b)
  BY <1>4, <1>5, <1>6, <1>7, SeqEqual
<1> QED BY <1>8 DEF t

LEMMA FromOfConcat ==
  ASSUME NEW S, NEW s \in Seq(S), NEW t \in Seq(S), NEW k \in 0 .. Len(s)
  PROVE  From(s \o t, k) = From(s, k) \o t
<1> DEFINE u == s \o t
           f == From(s, k)
<1>1. Len(s) \in Nat /\ Len(t) \in Nat /\ k \in Nat
  BY LenProperties
<1>2. /\ u \in Seq(S) /\ Len(u) = Len(s) + Len(t)
      /\ \A i \in 1 .. Len(s) + Len(t) : u[i] = IF i <= Len(s) THEN s[i] ELSE t[i - Len(s)]
  BY ConcatProperties
<1>3. f \in Seq(S) /\ Len(f) = Len(s) - k /\ \A i \in 1 .. Len(s) - k : f[i] = s[k + i]
  BY FromOf, FromAt
<1> HIDE DEF u, f
<1>4. /\ f \o t \in Seq(S) /\ Len(f \o t) = Len(f) + Len(t)
      /\ \A i \in 1 .. Len(f) + Len(t) : (f \o t)[i] = IF i <= Len(f) THEN f[i] ELSE t[i - Len(f)]
  BY <1>3, ConcatProperties
<1>5. k \in 0 .. Len(u)
  BY <1>1, <1>2
<1>6. /\ From(u, k) \in Seq(S) /\ Len(From(u, k)) = Len(u) - k
      /\ \A i \in 1 .. Len(u) - k : From(u, k)[i] = u[k + i]
  BY <1>2, <1>5, FromOf, FromAt
<1>7. Len(From(u, k)) = Len(f \o t)
  BY <1>1, <1>2, <1>3, <1>4, <1>6
<1>8. ASSUME NEW i \in 1 .. Len(From(u, k)) PROVE From(u, k)[i] = (f \o t)[i]
  <2>1. /\ i \in 1 .. Len(u) - k /\ k + i \in 1 .. Len(s) + Len(t)
        /\ i \in 1 .. Len(f) + Len(t) /\ i \in Nat
    BY <1>1, <1>2, <1>3, <1>6
  <2>2. CASE i <= Len(f)
    <3>1. i \in 1 .. Len(s) - k /\ k + i <= Len(s)
      BY <1>1, <1>3, <2>1, <2>2
    <3> QED BY <1>2, <1>3, <1>4, <1>6, <2>1, <2>2, <3>1
  <2>3. CASE ~ (i <= Len(f))
    <3>1. ~ (k + i <= Len(s)) /\ k + i - Len(s) = i - Len(f)
      BY <1>1, <1>3, <2>1, <2>3
    <3>2. (f \o t)[i] = t[i - Len(f)]
      BY <1>4, <2>1, <2>3
    <3>3. u[k + i] = t[k + i - Len(s)]
      BY <1>2, <2>1, <3>1
    <3>4. From(u, k)[i] = u[k + i]
      BY <1>6, <2>1
    <3> QED BY <3>1, <3>2, <3>3, <3>4
  <2> QED BY <2>2, <2>3
<1>9. From(u, k) = f \o t
  BY <1>4, <1>6, <1>7, <1>8, SeqEqual
<1> QED BY <1>9 DEF u, f

LEMMA Joined ==
  \A s, t \in Seq(Word) : s \o t \in Seq(Word) /\ Len(s \o t) = Len(s) + Len(t)
BY ConcatProperties

(* Three sequences, put together in either order.                          *)
Regroups(s, t, u) == (s \o t) \o u = s \o (t \o u)

LEMMA Regrouped == \A s, t, u \in Seq(Word) : Regroups(s, t, u)
BY ConcatAssociative DEF Regroups

LEMMA CapitalsOfConcat ==
  ASSUME NEW s \in Seq(Word), NEW t \in Seq(Word)
  PROVE  Capitals(s \o t) = Capitals(s) \o Capitals(t)
<1> DEFINE u == s \o t
           p == Capitals(s)
           q == Capitals(t)
<1>1. Len(s) \in Nat /\ Len(t) \in Nat
  BY LenProperties
<1>2. /\ u \in Seq(Word) /\ Len(u) = Len(s) + Len(t)
      /\ \A i \in 1 .. Len(s) + Len(t) : u[i] = IF i <= Len(s) THEN s[i] ELSE t[i - Len(s)]
  BY ConcatProperties
<1>3. ASSUME NEW r \in Seq(Word)
      PROVE  /\ Capitals(r) \in Seq(Word) /\ Len(Capitals(r)) = Len(r)
             /\ \A i \in 1 .. Len(r) : Capitals(r)[i] = ch_char(r[i])
  BY CapitalsOf, LenProperties DEF Capitals
<1>4. /\ p \in Seq(Word) /\ Len(p) = Len(s) /\ \A i \in 1 .. Len(s) : p[i] = ch_char(s[i])
      /\ q \in Seq(Word) /\ Len(q) = Len(t) /\ \A i \in 1 .. Len(t) : q[i] = ch_char(t[i])
  BY <1>3
<1> HIDE DEF u, p, q
<1>5. /\ Capitals(u) \in Seq(Word) /\ Len(Capitals(u)) = Len(u)
      /\ \A i \in 1 .. Len(u) : Capitals(u)[i] = ch_char(u[i])
  BY <1>2, <1>3
<1>6. /\ p \o q \in Seq(Word) /\ Len(p \o q) = Len(p) + Len(q)
      /\ \A i \in 1 .. Len(p) + Len(q) : (p \o q)[i] = IF i <= Len(p) THEN p[i] ELSE q[i - Len(p)]
  <2>1. p \in Seq(Word) /\ q \in Seq(Word)
    BY <1>4
  <2> QED BY <2>1, ConcatProperties
<1>7. ASSUME NEW i \in 1 .. Len(Capitals(u)) PROVE Capitals(u)[i] = (p \o q)[i]
  <2>1. i \in 1 .. Len(s) + Len(t) /\ i \in Nat
    BY <1>1, <1>2, <1>5
  <2>2. CASE i <= Len(s)
    <3>1. i \in 1 .. Len(s)
      BY <2>1, <2>2
    <3> QED BY <1>2, <1>4, <1>5, <1>6, <2>1, <2>2, <3>1
  <2>3. CASE ~ (i <= Len(s))
    <3>1. i - Len(s) \in 1 .. Len(t)
      BY <1>1, <2>1, <2>3
    <3> QED BY <1>2, <1>4, <1>5, <1>6, <2>1, <2>3, <3>1
  <2> QED BY <2>2, <2>3
<1>8. Len(Capitals(u)) = Len(p \o q)
  BY <1>2, <1>4, <1>5, <1>6
<1>9. Capitals(u) = p \o q
  BY <1>5, <1>6, <1>7, <1>8, SeqEqual
<1> QED BY <1>9 DEF u, p, q

-----------------------------------------------------------------------------
(* StreamExact of one connection: what it was sent, the buffer, how many   *)
(* words are unreceived, what it found and what it said.                   *)
Stream(e, b, u, l, s) ==
  e \o From(b.buff, b.send_index) \o Capitals(From(s, Len(s) - u)) = l \o Capitals(s)

(* A buffer whose next word to be sent is one it holds.                    *)
InRange(b) == b.buff \in Seq(Word) /\ b.send_index \in 0 .. Len(b.buff)

LEMMA StreamBegins ==
  ASSUME NEW b, InRange(b), NEW s \in Seq(Word)
  PROVE  Stream(<<>>, b, Len(s), From(b.buff, b.send_index), s)
<1>1. Len(s) \in Nat /\ Len(s) - Len(s) = 0
  BY LenProperties
<1>2. From(s, 0) = s
  BY <1>1, SubSeqFull DEF From
<1>3. From(b.buff, b.send_index) \in Seq(Word)
  BY FromOf DEF InRange
<1>4. <<>> \o From(b.buff, b.send_index) = From(b.buff, b.send_index)
  BY <1>3, ConcatEmptySeq
<1> QED BY <1>1, <1>2, <1>4 DEF Stream

LEMMA StreamSaid ==
  ASSUME NEW e \in Seq(Word), NEW b, InRange(b), NEW l \in Seq(Word), NEW s \in Seq(Word),
         NEW u \in 0 .. Len(s), NEW w \in Word, Stream(e, b, u, l, s)
  PROVE  Stream(e, b, u + 1, l, Append(s, w))
<1> DEFINE k == Len(s) - u
           h == e \o From(b.buff, b.send_index)
           one == <<w>>
           t == s \o one
<1>1. Len(s) \in Nat /\ k \in 0 .. Len(s)
  BY LenProperties
<1>2. one \in Seq(Word) /\ Len(one) = 1
  OBVIOUS
<1>3. Append(s, w) = t
  BY AppendIsConcat
<1>4. h \in Seq(Word)
  BY FromOf, ConcatProperties DEF InRange
<1> HIDE DEF one, h, k
<1>5. Len(t) = Len(s) + 1
  <2>1. Len(Append(s, w)) = Len(s) + 1
    BY AppendProperties
  <2> QED BY <1>3, <2>1
<1>6. Len(t) - (u + 1) = k
  BY <1>1, <1>5 DEF k
<1>7. From(t, k) = From(s, k) \o one /\ From(s, k) \in Seq(Word)
  BY <1>1, <1>2, FromOfConcat, FromOf
<1>8. /\ Capitals(From(t, k)) = Capitals(From(s, k)) \o Capitals(one)
      /\ Capitals(t) = Capitals(s) \o Capitals(one)
      /\ Capitals(From(s, k)) \in Seq(Word) /\ Capitals(one) \in Seq(Word)
      /\ Capitals(s) \in Seq(Word)
  BY <1>2, <1>7, CapitalsOfConcat, CapitalsOf
<1>9. h \o Capitals(From(s, k)) = l \o Capitals(s)
  BY DEF Stream, h, k
<1>10. /\ h \o (Capitals(From(s, k)) \o Capitals(one)) = (h \o Capitals(From(s, k))) \o Capitals(one)
       /\ l \o (Capitals(s) \o Capitals(one)) = (l \o Capitals(s)) \o Capitals(one)
  <2>1. /\ Regroups(h, Capitals(From(s, k)), Capitals(one))
        /\ Regroups(l, Capitals(s), Capitals(one))
    BY <1>4, <1>8, Regrouped, Zenon
  <2> QED BY <2>1 DEF Regroups
<1>11. h \o Capitals(From(t, k)) = l \o Capitals(t)
  BY <1>8, <1>9, <1>10
<1> HIDE DEF t
<1> QED BY <1>3, <1>6, <1>11 DEF Stream, h

LEMMA StreamReceived ==
  ASSUME NEW e \in Seq(Word), NEW b, InRange(b), NEW l \in Seq(Word), NEW s \in Seq(Word),
         NEW u \in 0 .. Len(s), NEW k \in 0 .. u, Stream(e, b, u, l, s),
         NEW c, c.send_index = b.send_index,
         c.buff = b.buff \o Capitals(First(From(s, Len(s) - u), k))
  PROVE  Stream(e, c, u - k, l, s)
<1> DEFINE a == Len(s) - u
           rest == From(s, a)
           got == Capitals(First(rest, k))
           f == From(b.buff, b.send_index)
           to == Capitals(From(rest, k))
<1>1. Len(s) \in Nat /\ a \in 0 .. Len(s) /\ Len(s) - a = u /\ k \in Nat
  BY LenProperties
<1>2. rest \in Seq(Word) /\ Len(rest) = u
  BY <1>1, FromOf
<1>3. Len(s) - (u - k) = a + k /\ k \in 0 .. Len(s) - a
  BY <1>1
<1>4. From(s, Len(s) - (u - k)) = From(rest, k)
  <2>1. a \in 0 .. Len(s) /\ k \in 0 .. Len(s) - a
    BY <1>1, <1>3
  <2> HIDE DEF a
  <2>2. From(From(s, a), k) = From(s, a + k)
    BY <2>1, FromOfFrom
  <2> QED BY <1>3, <2>2
<1> HIDE DEF a, rest
<1>5. k \in 0 .. Len(rest)
  BY <1>2
<1>6. First(rest, k) \in Seq(Word) /\ From(rest, k) \in Seq(Word)
  BY <1>1, <1>2, <1>5, FirstOf, FromOf
<1>7. First(rest, k) \o From(rest, k) = rest
  BY <1>2, <1>5, FirstAndFrom
<1>8. got \in Seq(Word) /\ to \in Seq(Word) /\ Capitals(rest) = got \o to
  <2>1. Capitals(First(rest, k) \o From(rest, k)) = got \o to
    BY <1>6, CapitalsOfConcat
  <2> QED BY <1>6, <1>7, <2>1, CapitalsOf
<1>9. f \in Seq(Word)
  BY FromOf DEF InRange
<1> HIDE DEF got, to
<1>10. From(b.buff \o got, b.send_index) = f \o got
  BY <1>8, FromOfConcat DEF InRange
<1>11. From(c.buff, c.send_index) = f \o got
  BY <1>10 DEF got, a, rest
<1>12. e \o f \o Capitals(rest) = l \o Capitals(s)
  BY DEF Stream, a, rest
<1> HIDE DEF f
<1>13. e \o f \in Seq(Word)
  BY <1>9, ConcatProperties
<1>14. (e \o f) \o (got \o to) = ((e \o f) \o got) \o to
  <2>1. Regroups(e \o f, got, to)
    BY <1>8, <1>13, Regrouped, Zenon
  <2> QED BY <2>1 DEF Regroups
<1>15. (e \o f) \o got = e \o (f \o got)
  <2>1. Regroups(e, f, got)
    BY <1>8, <1>9, Regrouped, Zenon
  <2> QED BY <2>1 DEF Regroups
<1>16. e \o (f \o got) \o to = l \o Capitals(s)
  BY <1>8, <1>12, <1>14, <1>15
<1> QED BY <1>4, <1>11, <1>16 DEF Stream, to

LEMMA StreamSent ==
  ASSUME NEW e \in Seq(Word), NEW b, InRange(b), NEW l, NEW s \in Seq(Word),
         NEW u \in 0 .. Len(s), NEW k \in 0 .. Len(b.buff) - b.send_index,
         Stream(e, b, u, l, s), NEW c,
         From(c.buff, c.send_index) = From(From(b.buff, b.send_index), k)
  PROVE  Stream(e \o First(From(b.buff, b.send_index), k), c, u, l, s)
<1> DEFINE f == From(b.buff, b.send_index)
<1>1. f \in Seq(Word) /\ Len(f) = Len(b.buff) - b.send_index
  BY FromOf DEF InRange
<1>2. k \in 0 .. Len(f) /\ k \in Nat
  BY <1>1
<1> HIDE DEF f
<1>3. First(f, k) \in Seq(Word) /\ From(f, k) \in Seq(Word) /\ First(f, k) \o From(f, k) = f
  BY <1>1, <1>2, FirstOf, FromOf, FirstAndFrom
<1>4. e \o First(f, k) \o From(f, k) = e \o f
  <2> DEFINE x == First(f, k)
             y == From(f, k)
  <2>1. x \in Seq(Word) /\ y \in Seq(Word) /\ x \o y = f
    BY <1>3
  <2> HIDE DEF x, y
  <2>2. (e \o x) \o y = e \o (x \o y)
    <3>1. Regroups(e, x, y)
      BY <2>1, Regrouped, Zenon
    <3> QED BY <3>1 DEF Regroups
  <2> QED BY <2>1, <2>2 DEF x, y
<1> QED BY <1>4 DEF Stream, f

-----------------------------------------------------------------------------
(* Each connection is served once, and nothing was read from it or sent to *)
(* it before it is accepted.                                               *)

Waits(c) == \E i \in DOMAIN backlog : backlog[i] = c

Fresh(c) == /\ \A n \in Fds : fdt[n] # c
            /\ echoed[c] = <<>>
            /\ unread[c] = Len(said[c])

OnceOnly ==
  /\ \A c \in Conns : peer[c] = "none" \/ Waits(c) => Fresh(c)
  /\ \A c \in Conns : peer[c] = "none" => ~Waits(c)
  /\ \A i, j \in DOMAIN backlog : backlog[i] = backlog[j] => i = j
  /\ \A n, m \in Fds : fdt[n] = fdt[m] /\ fdt[n] # None => n = m

(* StreamExact, connection by connection.                                  *)
StreamsExact ==
  \A n \in Buffers, c \in Conns :
    fdt[n] = c /\ c \notin overrun /\ peer[c] = "open" =>
      Stream(echoed[c], buffer[n], unread[c], left[c], said[c])

StreamInv == SelectInv /\ OnceOnly /\ StreamsExact

LEMMA StreamsAreExact == StreamInv => StreamExact
<1> SUFFICES ASSUME StreamInv PROVE StreamExact
  OBVIOUS
<1>1. \A n \in Buffers : fdt[n] # None => fdt[n] \in Conns
  BY BufferIsFd DEF StreamInv, SelectInv, TypeOK
<1> QED BY <1>1 DEF StreamInv, StreamsExact, StreamExact, Stream, Unsent, Unreceived

(* A step that accepts nothing, and in which no client connects.           *)
LEMMA OnceKept ==
  ASSUME OnceOnly, backlog' = backlog,
         \A c \in Conns : peer'[c] = "none" => peer[c] = "none",
         \A n \in Fds : fdt'[n] = fdt[n] \/ fdt'[n] = None,
         \A c \in Conns : Fresh(c) => echoed'[c] = <<>> /\ unread'[c] = Len(said'[c])
  PROVE  OnceOnly'
<1>1. ASSUME NEW c \in Conns, Fresh(c) PROVE Fresh(c)'
  BY <1>1, SelectAssumption DEF Fresh
<1>2. ASSUME NEW c \in Conns, Waits(c)' PROVE Waits(c)
  BY <1>2 DEF Waits
<1>3. \A c \in Conns : (peer[c] = "none" \/ Waits(c) => Fresh(c))'
  BY <1>1, <1>2 DEF OnceOnly
<1>4. \A c \in Conns : (peer[c] = "none" => ~Waits(c))'
  BY <1>2 DEF OnceOnly
<1>5. (\A n, m \in Fds : fdt[n] = fdt[m] /\ fdt[n] # None => n = m)'
  BY DEF OnceOnly
<1>6. (\A i, j \in DOMAIN backlog : backlog[i] = backlog[j] => i = j)'
  BY DEF OnceOnly
<1> QED BY <1>3, <1>4, <1>5, <1>6 DEF OnceOnly

(* A step that leaves the streams of all that stay connected alone.        *)
LEMMA StreamKept ==
  ASSUME StreamsExact,
         UNCHANGED <<echoed, unread, left, said, overrun>>,
         \A n \in Buffers : /\ fdt'[n] = fdt[n] \/ fdt'[n] = None
                            /\ buffer'[n].buff = buffer[n].buff
                            /\ buffer'[n].send_index = buffer[n].send_index,
         \A n \in Buffers : peer'[fdt[n]] = "open" => peer[fdt[n]] = "open"
  PROVE  StreamsExact'
<1> SUFFICES ASSUME NEW n \in Buffers, NEW c \in Conns,
                    fdt'[n] = c, c \notin overrun', peer'[c] = "open"
             PROVE  Stream(echoed'[c], buffer'[n], unread'[c], left'[c], said'[c])
  BY DEF StreamsExact, Stream
<1>1. fdt[n] = c /\ peer[c] = "open" /\ c \notin overrun
  BY SelectAssumption
<1>2. Stream(echoed[c], buffer[n], unread[c], left[c], said[c])
  BY <1>1 DEF StreamsExact
<1> QED BY <1>2 DEF Stream

LEMMA StreamInit == Init => StreamInv
<1> SUFFICES ASSUME Init PROVE StreamInv
  OBVIOUS
<1>1. SelectInv
  BY InitSelect
<1>2. Len(<<>>) = 0 /\ DOMAIN <<>> = {}
  OBVIOUS
<1>3. OnceOnly
  BY <1>2, SelectAssumption DEF Init, OnceOnly, Waits, Fresh
<1>4. StreamsExact
  BY BufferIsFd, SelectAssumption DEF Init, StreamsExact
<1> QED BY <1>1, <1>3, <1>4 DEF StreamInv

(* A client that is waiting is not among those served.                     *)
LEMMA HeadIsFresh ==
  ASSUME SelectInv, OnceOnly, 0 \in rfds
  PROVE  /\ backlog \in Seq(Conns) /\ backlog # <<>>
         /\ Head(backlog) \in Conns /\ Head(backlog) = backlog[1] /\ 1 \in DOMAIN backlog
         /\ Fresh(Head(backlog)) /\ peer[Head(backlog)] # "none"
         /\ DOMAIN Tail(backlog) \subseteq Nat
         /\ \A i \in DOMAIN Tail(backlog) : i + 1 \in DOMAIN backlog /\ i + 1 # 1
                                            /\ Tail(backlog)[i] = backlog[i + 1]
<1>1. backlog \in Seq(Conns) /\ backlog # <<>>
  BY DEF SelectInv, FoundHolds, TypeOK
<1>2. /\ Head(backlog) \in Conns /\ Tail(backlog) \in Seq(Conns)
      /\ Len(Tail(backlog)) = Len(backlog) - 1
      /\ \A i \in 1 .. Len(Tail(backlog)) : Tail(backlog)[i] = backlog[i + 1]
  BY <1>1, HeadTailProperties
<1>3. /\ Len(backlog) \in Nat \ {0} /\ DOMAIN backlog = 1 .. Len(backlog)
      /\ DOMAIN Tail(backlog) = 1 .. Len(Tail(backlog))
  BY <1>1, <1>2, LenProperties, EmptySeq
<1>4. 1 \in DOMAIN backlog /\ Head(backlog) = backlog[1]
  BY <1>1, <1>3
<1>5. Waits(Head(backlog))
  BY <1>4 DEF Waits
<1>6. Fresh(Head(backlog)) /\ peer[Head(backlog)] # "none"
  BY <1>2, <1>5 DEF OnceOnly
<1>7. \A i \in DOMAIN Tail(backlog) : i \in Nat /\ i + 1 \in DOMAIN backlog /\ i + 1 # 1
  BY <1>2, <1>3
<1> QED BY <1>1, <1>2, <1>3, <1>4, <1>6, <1>7

LEMMA StreamAccept ==
  ASSUME StreamInv, accept
  PROVE  OnceOnly' /\ StreamsExact'
<1> DEFINE h == Head(backlog)
<1>1. SelectInv /\ OnceOnly /\ StreamsExact /\ TypeOK
  BY DEF StreamInv, SelectInv
<1>2. PICK n \in Fds :
        /\ fdt[n] = None
        /\ \/ /\ n >= MaxClients
              /\ fdt' = fdt \/ fdt' = [fdt EXCEPT ![n] = h]
              /\ UNCHANGED <<buffer, left>>
           \/ /\ n < MaxClients
              /\ fdt' = [fdt EXCEPT ![n] = h]
              /\ buffer' = [buffer EXCEPT ![n].fd = n]
              /\ left' = [left EXCEPT ![h] = Unsent(n)]
  <2>1. MaxClients \in Nat /\ \A n \in Fds : n \in Nat
    BY SelectAssumption DEF Fds
  <2> QED BY <2>1 DEF accept, Opens
<1>3. /\ 0 \in rfds /\ backlog' = Tail(backlog)
      /\ UNCHANGED <<peer, said, unread, echoed, overrun>>
  BY DEF accept, echoVars
<1>4. /\ h \in Conns /\ h = backlog[1] /\ 1 \in DOMAIN backlog /\ Fresh(h) /\ peer[h] # "none"
      /\ \A i \in DOMAIN Tail(backlog) : i + 1 \in DOMAIN backlog /\ i + 1 # 1
                                         /\ Tail(backlog)[i] = backlog[i + 1]
      /\ DOMAIN Tail(backlog) \subseteq Nat
  BY <1>1, <1>3, HeadIsFresh
<1> HIDE DEF h
<1>5. \A m \in Fds : fdt'[m] = fdt[m] \/ (m = n /\ fdt'[m] = h)
  BY <1>1, <1>2 DEF TypeOK
<1>6. ASSUME NEW c \in Conns, Waits(c)' PROVE Waits(c) /\ c # h
  <2>1. PICK i \in DOMAIN Tail(backlog) : Tail(backlog)[i] = c
    BY <1>3, <1>6 DEF Waits
  <2>2. i + 1 \in DOMAIN backlog /\ backlog[i + 1] = c /\ i + 1 # 1
    BY <1>4, <2>1
  <2> QED BY <1>1, <1>4, <2>2 DEF Waits, OnceOnly
<1>7. ASSUME NEW c \in Conns, Fresh(c), c # h PROVE Fresh(c)'
  BY <1>3, <1>5, <1>7 DEF Fresh
<1>8. OnceOnly'
  <2>1. \A c \in Conns : (peer[c] = "none" \/ Waits(c) => Fresh(c))'
    BY <1>1, <1>3, <1>4, <1>6, <1>7 DEF OnceOnly
  <2>2. \A c \in Conns : (peer[c] = "none" => ~Waits(c))'
    BY <1>1, <1>3, <1>6 DEF OnceOnly
  <2>3. (\A i, j \in DOMAIN backlog : backlog[i] = backlog[j] => i = j)'
    <3> SUFFICES ASSUME NEW i \in DOMAIN Tail(backlog), NEW j \in DOMAIN Tail(backlog),
                        Tail(backlog)[i] = Tail(backlog)[j]
                 PROVE  i = j
      BY <1>3
    <3>1. i + 1 = j + 1 /\ i \in Nat /\ j \in Nat
      BY <1>1, <1>4 DEF OnceOnly
    <3> QED BY <3>1
  <2>4. (\A a, b \in Fds : fdt[a] = fdt[b] /\ fdt[a] # None => a = b)'
    BY <1>1, <1>4, <1>5 DEF OnceOnly, Fresh
  <2> QED BY <2>1, <2>2, <2>3, <2>4 DEF OnceOnly
<1>9. StreamsExact'
  <2> SUFFICES ASSUME NEW m \in Buffers, NEW c \in Conns,
                      fdt'[m] = c, c \notin overrun', peer'[c] = "open"
               PROVE  Stream(echoed'[c], buffer'[m], unread'[c], left'[c], said'[c])
    BY DEF StreamsExact, Stream
  <2>1. m \in Fds /\ m < MaxClients /\ m \in Nat /\ MaxClients \in Nat
    BY SelectAssumption DEF Buffers, Fds
  <2>2. /\ buffer'[m].buff = buffer[m].buff
        /\ buffer'[m].send_index = buffer[m].send_index
    <3>1. buffer \in [Buffers -> Buffer] /\ buffer[m] \in Buffer
      BY <1>1 DEF TypeOK
    <3>2. CASE buffer' = buffer
      BY <3>2
    <3>3. CASE buffer' = [buffer EXCEPT ![n].fd = n]
      <4>1. buffer'[m] = IF m = n THEN [buffer[m] EXCEPT !.fd = n] ELSE buffer[m]
        BY <3>1, <3>3
      <4> QED BY <3>1, <4>1 DEF Buffer
    <3> QED BY <1>2, <3>2, <3>3
  <2>3. CASE fdt[m] = c
    <3>1. c # h
      BY <1>4, <2>1, <2>3 DEF Fresh
    <3>2. left'[c] = left[c]
      BY <1>1, <1>2, <3>1 DEF TypeOK
    <3>3. Stream(echoed[c], buffer[m], unread[c], left[c], said[c])
      BY <1>1, <1>3, <2>3 DEF StreamsExact
    <3> QED BY <1>3, <2>2, <3>2, <3>3 DEF Stream
  <2>4. CASE fdt[m] # c
    <3>1. m = n /\ c = h
      BY <1>5, <2>1, <2>4
    <3>2. left'[c] = From(buffer[m].buff, buffer[m].send_index)
      BY <1>1, <1>2, <2>1, <3>1 DEF TypeOK, Unsent
    <3>3. InRange(buffer[m]) /\ said[c] \in Seq(Word)
      BY <1>1, BufferOf DEF InRange, TypeOK
    <3>4. Stream(<<>>, buffer[m], Len(said[c]), From(buffer[m].buff, buffer[m].send_index), said[c])
      BY <3>3, StreamBegins
    <3>5. echoed[c] = <<>> /\ unread[c] = Len(said[c])
      BY <1>4, <3>1 DEF Fresh
    <3> QED BY <1>3, <2>2, <3>2, <3>4, <3>5 DEF Stream
  <2> QED BY <2>3, <2>4
<1> QED BY <1>8, <1>9

LEMMA FirstAll ==
  ASSUME NEW S, NEW s \in Seq(S), NEW k \in Nat
  PROVE  /\ First(s, k) = First(s, Least(k, Len(s)))
         /\ k >= Len(s) => First(s, k) = s
<1>1. Len(s) \in Nat
  BY LenProperties
<1>2. Least(Least(k, Len(s)), Len(s)) = Least(k, Len(s))
  BY <1>1 DEF Least
<1>3. k >= Len(s) => Least(k, Len(s)) = Len(s)
  BY <1>1 DEF Least
<1> QED BY <1>2, <1>3, SubSeqFull DEF First

LEMMA StreamRecv ==
  ASSUME StreamInv, NEW n \in Buffers, RecvToBuffer(n)
  PROVE  OnceOnly' /\ StreamsExact'
<1> DEFINE c == fdt[n]
           k == Len(Got(n))
<1>1. SelectInv /\ OnceOnly /\ StreamsExact /\ TypeOK
  BY DEF StreamInv, SelectInv
<1>2. c \in Conns /\ unread[c] > 0
  BY <1>1, TurnIsOpen DEF RecvToBuffer
<1>3. /\ unread' = [unread EXCEPT ![c] = @ - k]
      /\ buffer' = [buffer EXCEPT ![n].buff = Now(n), ![n].flag = Mark(n, Now(n))]
      /\ overrun' = IF Len(buffer[n].buff) + k > BuffSize THEN overrun \cup {c} ELSE overrun
      /\ UNCHANGED <<backlog, fdt, peer, said, echoed, left>>
  BY DEF RecvToBuffer, Got, Now, echoVars
<1>4. OnceOnly'
  <2>1. ASSUME NEW d \in Conns, Fresh(d) PROVE echoed'[d] = <<>> /\ unread'[d] = Len(said'[d])
    <3>1. d # c
      BY <2>1, BufferIsFd DEF Fresh
    <3> QED BY <1>1, <1>3, <2>1, <3>1 DEF Fresh, TypeOK
  <2>2. UNCHANGED <<backlog, peer, fdt>>
    BY <1>3
  <2> QED BY <1>1, <2>1, <2>2, OnceKept
<1>5. StreamsExact'
  <2> SUFFICES ASSUME NEW m \in Buffers, NEW d \in Conns,
                      fdt'[m] = d, d \notin overrun', peer'[d] = "open"
               PROVE  Stream(echoed'[d], buffer'[m], unread'[d], left'[d], said'[d])
    BY DEF StreamsExact, Stream
  <2>1. fdt[m] = d /\ d \notin overrun /\ peer[d] = "open"
    BY <1>3
  <2>2. Stream(echoed[d], buffer[m], unread[d], left[d], said[d])
    BY <1>1, <2>1 DEF StreamsExact
  <2>3. CASE m # n
    <3>1. d # c
      BY <1>1, <1>2, <2>1, <2>3, BufferIsFd, SelectAssumption DEF OnceOnly
    <3>2. unread'[d] = unread[d]
      BY <1>1, <1>3, <3>1 DEF TypeOK
    <3>3. buffer'[m] = buffer[m]
      BY <1>1, <1>3, <2>3 DEF TypeOK
    <3> QED BY <1>3, <2>2, <3>2, <3>3
  <2>4. CASE m = n
    <3>1. d = c
      BY <2>1, <2>4
    <3> DEFINE b    == buffer[n]
               s    == said[c]
               u    == unread[c]
               rest == From(s, Len(s) - u)
    <3>2. s \in Seq(Word) /\ u \in Nat /\ u <= Len(s) /\ Len(s) \in Nat
      BY <1>1, <1>2, LenProperties DEF TypeOK
    <3>3. Len(s) - u \in 0 .. Len(s) /\ u \in 0 .. Len(s)
      BY <3>2
    <3>4. rest \in Seq(Word)
      BY <3>2, <3>3, FromOf
    <3>5. Got(n) = First(rest, BuffSize)
      BY DEF Got, Unreceived
    <3>6. BuffSize \in Nat
      BY SelectAssumption
    <3> HIDE DEF rest
    <3>7. Got(n) \in Seq(Word) /\ k = Least(BuffSize, Len(rest)) /\ Got(n) = First(rest, k)
      BY <3>4, <3>5, <3>6, FirstOf, FirstAll
    <3>8. k \in 1 .. u /\ Len(b.buff) \in 0 .. BuffSize /\ InRange(b)
      BY <1>1, <1>2, Received, BufferOf DEF InRange
    <3>9. Len(b.buff) + k <= BuffSize
      <4>1. ~ (Len(b.buff) + k > BuffSize)
        BY <1>3, <3>1
      <4> QED BY <3>6, <3>8, <4>1
    <3>10. BuffSize - Len(b.buff) \in Nat /\ BuffSize - Len(b.buff) >= k /\ k \in 0 .. u
      BY <3>2, <3>6, <3>8, <3>9
    <3>11. First(Got(n), BuffSize - Len(b.buff)) = Got(n)
      BY <3>7, <3>10, FirstAll
    <3>12. Now(n) = b.buff \o Capitals(First(rest, k))
      BY <3>7, <3>11 DEF Now
    <3>13. /\ buffer'[n].buff = b.buff \o Capitals(First(rest, k))
           /\ buffer'[n].send_index = b.send_index
      <4>1. buffer'[n] = [buffer[n] EXCEPT !.buff = Now(n), !.flag = Mark(n, Now(n))]
        BY <1>1, <1>3 DEF TypeOK
      <4>2. buffer[n] \in Buffer
        BY <1>1 DEF TypeOK
      <4> QED BY <3>12, <4>1, <4>2 DEF Buffer
    <3>14. echoed[c] \in Seq(Word) /\ left[c] \in Seq(Word)
      BY <1>1, <1>2 DEF TypeOK
    <3>15. Stream(echoed[c], b, u, left[c], s)
      BY <2>2, <2>4, <3>1
    <3> HIDE DEF b, s, u, k
    <3>16. Stream(echoed[c], buffer'[n], u - k, left[c], s)
      BY <3>2, <3>3, <3>8, <3>10, <3>13, <3>14, <3>15, StreamReceived DEF rest
    <3>17. unread'[c] = u - k
      BY <1>1, <1>2, <1>3 DEF TypeOK, u
    <3> QED BY <1>3, <2>4, <3>1, <3>16, <3>17 DEF s
  <2> QED BY <2>3, <2>4
<1> QED BY <1>4, <1>5

LEMMA StreamSend ==
  ASSUME StreamInv, NEW n \in Buffers, SendFromBuffer(n)
  PROVE  OnceOnly' /\ StreamsExact'
<1> DEFINE c   == fdt[n]
           b   == buffer[n]
           out == First(Unsent(n), Window - held[c])
<1>1. SelectInv /\ OnceOnly /\ StreamsExact /\ TypeOK
  BY DEF StreamInv, SelectInv
<1>2. c \in Conns
  BY <1>1, TurnIsOpen DEF SendFromBuffer, IsSent, IsTurn
<1>3. /\ UNCHANGED <<backlog, fdt, peer, said, unread, left, overrun>>
      /\ echoed' = echoed \/ echoed' = [echoed EXCEPT ![c] = @ \o out]
      /\ \E k : Sent(n, k)
      /\ peer[c] = "open" => /\ held[c] < Window
                             /\ echoed' = [echoed EXCEPT ![c] = @ \o out]
                             /\ Sent(n, Len(out))
  BY DEF SendFromBuffer, historyVars, echoVars
<1> HIDE DEF out
<1>4. OnceOnly'
  <2>1. ASSUME NEW d \in Conns, Fresh(d) PROVE echoed'[d] = <<>> /\ unread'[d] = Len(said'[d])
    <3>1. d # c
      BY <2>1, BufferIsFd DEF Fresh
    <3>2. echoed'[d] = echoed[d]
      BY <1>1, <1>3, <3>1 DEF TypeOK
    <3> QED BY <1>3, <2>1, <3>2 DEF Fresh
  <2>2. UNCHANGED <<backlog, peer, fdt>>
    BY <1>3
  <2> QED BY <1>1, <2>1, <2>2, OnceKept
<1>5. StreamsExact'
  <2> SUFFICES ASSUME NEW m \in Buffers, NEW d \in Conns,
                      fdt'[m] = d, d \notin overrun', peer'[d] = "open"
               PROVE  Stream(echoed'[d], buffer'[m], unread'[d], left'[d], said'[d])
    BY DEF StreamsExact, Stream
  <2>1. fdt[m] = d /\ d \notin overrun /\ peer[d] = "open"
    BY <1>3
  <2>2. Stream(echoed[d], buffer[m], unread[d], left[d], said[d])
    BY <1>1, <2>1 DEF StreamsExact
  <2>3. CASE m # n
    <3>1. d # c
      BY <1>1, <1>2, <2>1, <2>3, BufferIsFd, SelectAssumption DEF OnceOnly
    <3>2. echoed'[d] = echoed[d]
      BY <1>1, <1>3, <3>1 DEF TypeOK
    <3>3. buffer'[m] = buffer[m]
      BY <1>1, <1>3, <2>3 DEF TypeOK, Sent
    <3> QED BY <1>3, <2>2, <3>2, <3>3
  <2>4. CASE m = n
    <3> DEFINE f == From(b.buff, b.send_index)
               k == Len(out)
    <3>1. d = c /\ peer[c] = "open"
      BY <2>1, <2>4
    <3>2. held[c] \in 0 .. Window /\ Window - held[c] \in Nat
      BY <1>1, <1>2, <1>3, <3>1, SelectAssumption DEF TypeOK
    <3>3. /\ InRange(b) /\ Unsent(n) = f /\ f \in Seq(Word)
          /\ Len(f) = Len(b.buff) - b.send_index /\ Len(f) \in Nat
      BY <1>1, BufferOf, LenProperties DEF InRange, Unsent
    <3> HIDE DEF f
    <3>4. k = Least(Window - held[c], Len(f)) /\ out = First(f, k)
      <4> DEFINE w == Window - held[c]
      <4>1. out = First(f, w)
        BY <3>3 DEF out
      <4>2. w \in Nat
        BY <3>2
      <4> HIDE DEF w
      <4>3. Len(out) = Least(w, Len(f)) /\ out = First(f, Least(w, Len(f)))
        BY <3>3, <4>1, <4>2, FirstOf, FirstAll
      <4> QED BY <4>3 DEF w
    <3>5. k \in 0 .. Len(f)
      BY <3>2, <3>3, <3>4 DEF Least
    <3>6. From(buffer'[n].buff, buffer'[n].send_index) = From(f, k)
      <4>1. b \in Buffer /\ buffer \in [Buffers -> Buffer] /\ Sent(n, k)
        BY <1>1, <1>3, <3>1 DEF TypeOK
      <4>2. CASE b.send_index + k < Len(b.buff)
        <5>1. buffer'[n].buff = b.buff /\ buffer'[n].send_index = b.send_index + k
          BY <4>1, <4>2 DEF Sent, Buffer
        <5>2. From(f, k) = From(b.buff, b.send_index + k)
          <6>1. k \in 0 .. Len(b.buff) - b.send_index
            BY <3>3, <3>5
          <6> QED BY <3>3, <6>1, FromOfFrom DEF InRange, f
        <5> QED BY <5>1, <5>2
      <4>3. CASE ~ (b.send_index + k < Len(b.buff))
        <5>1. buffer'[n].buff = <<>> /\ buffer'[n].send_index = 0
          BY <4>1, <4>3 DEF Sent, Buffer
        <5>2. k = Len(f)
          <6>1. b.send_index \in Nat /\ Len(b.buff) \in Nat
            BY <3>3, LenProperties DEF InRange
          <6> QED BY <3>3, <3>5, <4>3, <6>1
        <5>3. From(f, k) \in Seq(Word) /\ Len(From(f, k)) = 0
          <6>1. From(f, k) \in Seq(Word) /\ Len(From(f, k)) = Len(f) - k
            BY <3>3, <3>5, FromOf
          <6> QED BY <3>3, <5>2, <6>1
        <5>4. From(f, k) = <<>>
          BY <5>3, EmptySeq
        <5>5. <<>> \in Seq(Word) /\ Len(<<>>) = 0
          BY EmptySeq
        <5>6. From(<<>>, 0) \in Seq(Word) /\ Len(From(<<>>, 0)) = 0
          <6>1. 0 \in 0 .. Len(<<>>) /\ Len(<<>>) - 0 = 0
            BY <5>5
          <6> QED BY <5>5, <6>1, FromOf
        <5>7. From(<<>>, 0) = <<>>
          BY <5>6, EmptySeq
        <5> QED BY <5>1, <5>4, <5>7
      <4> QED BY <4>2, <4>3
    <3>7. /\ echoed[c] \in Seq(Word) /\ said[c] \in Seq(Word)
          /\ unread[c] \in 0 .. Len(said[c]) /\ k \in 0 .. Len(b.buff) - b.send_index
      BY <1>1, <1>2, <3>3, <3>5 DEF TypeOK
    <3>8. Stream(echoed[c], b, unread[c], left[c], said[c])
      BY <2>2, <2>4, <3>1
    <3> HIDE DEF b, k
    <3>9. Stream(echoed[c] \o First(f, k), buffer'[n], unread[c], left[c], said[c])
      BY <3>3, <3>6, <3>7, <3>8, StreamSent DEF f
    <3>10. echoed'[c] = echoed[c] \o First(f, k)
      BY <1>1, <1>2, <1>3, <3>1, <3>4 DEF TypeOK
    <3> QED BY <1>3, <2>4, <3>1, <3>9, <3>10
  <2> QED BY <2>3, <2>4
<1> QED BY <1>4, <1>5

LEMMA StreamClient ==
  ASSUME StreamInv, NEW c \in Conns, Client(c)
  PROVE  OnceOnly' /\ StreamsExact'
<1>1. SelectInv /\ OnceOnly /\ StreamsExact /\ TypeOK
  BY DEF StreamInv, SelectInv
<1>2. UNCHANGED <<fdt, buffer, echoed, left, overrun>>
  BY DEF Client, Connect, Say, Collect, Leave, echoVars, historyVars
<1>3. CASE Collect(c) \/ Leave(c)
  <2>1. /\ UNCHANGED <<backlog, said, unread>>
        /\ \A d \in Conns : peer'[d] = "none" => peer[d] = "none"
        /\ \A d \in Conns : peer'[d] = "open" => peer[d] = "open"
    BY <1>1, <1>3 DEF Collect, Leave, TypeOK, echoVars
  <2>2. OnceOnly'
    BY <1>1, <1>2, <2>1, OnceKept DEF Fresh
  <2>3. StreamsExact'
    <3> SUFFICES ASSUME NEW n \in Buffers, NEW d \in Conns,
                        fdt'[n] = d, d \notin overrun', peer'[d] = "open"
                 PROVE  Stream(echoed'[d], buffer'[n], unread'[d], left'[d], said'[d])
      BY DEF StreamsExact, Stream
    <3>1. fdt[n] = d /\ d \notin overrun /\ peer[d] = "open"
      BY <1>2, <2>1
    <3> QED BY <1>1, <1>2, <2>1, <3>1 DEF StreamsExact
  <2> QED BY <2>2, <2>3
<1>4. CASE Connect(c)
  <2>1. /\ peer[c] = "none" /\ backlog' = Append(backlog, c)
        /\ peer' = [peer EXCEPT ![c] = "open"]
        /\ UNCHANGED <<said, unread>>
    BY <1>4 DEF Connect
  <2>2. Fresh(c) /\ ~Waits(c)
    BY <1>1, <2>1 DEF OnceOnly
  <2>3. \A d \in Conns : Fresh(d)' <=> Fresh(d)
    BY <1>2, <2>1 DEF Fresh
  <2>4. \A d \in Conns : peer'[d] = IF d = c THEN "open" ELSE peer[d]
    BY <1>1, <2>1 DEF TypeOK
  <2>5. backlog \in Seq(Conns) /\ Len(backlog) \in Nat /\ DOMAIN backlog = 1 .. Len(backlog)
    BY <1>1, LenProperties DEF TypeOK
  <2>6. /\ DOMAIN backlog' = 1 .. Len(backlog) + 1
        /\ backlog'[Len(backlog) + 1] = c
        /\ \A i \in 1 .. Len(backlog) : backlog'[i] = backlog[i]
    <3>1. /\ Append(backlog, c) \in Seq(Conns) /\ Len(Append(backlog, c)) = Len(backlog) + 1
          /\ \A i \in 1 .. Len(backlog) : Append(backlog, c)[i] = backlog[i]
          /\ Append(backlog, c)[Len(backlog) + 1] = c
      BY <2>5, AppendProperties
    <3>2. DOMAIN Append(backlog, c) = 1 .. Len(Append(backlog, c))
      BY <3>1, LenProperties
    <3> QED BY <2>1, <3>1, <3>2
  <2>7. \A i \in DOMAIN backlog' : i \in DOMAIN backlog \/ i = Len(backlog) + 1
    BY <2>5, <2>6
  <2>8. ASSUME NEW d \in Conns, Waits(d)' PROVE Waits(d) \/ d = c
    BY <2>5, <2>6, <2>7, <2>8 DEF Waits
  <2>9. \A d \in Conns : (peer[d] = "none" \/ Waits(d) => Fresh(d))'
    BY <1>1, <2>2, <2>3, <2>4, <2>8 DEF OnceOnly
  <2>10. \A d \in Conns : (peer[d] = "none" => ~Waits(d))'
    BY <1>1, <2>4, <2>8 DEF OnceOnly
  <2>11. (\A i, j \in DOMAIN backlog : backlog[i] = backlog[j] => i = j)'
    <3> SUFFICES ASSUME NEW i \in DOMAIN backlog', NEW j \in DOMAIN backlog',
                        backlog'[i] = backlog'[j]
                 PROVE  i = j
      OBVIOUS
    <3>1. \A k \in DOMAIN backlog : backlog[k] # c
      BY <2>2 DEF Waits
    <3> QED BY <1>1, <2>5, <2>6, <2>7, <3>1 DEF OnceOnly
  <2>12. (\A n, m \in Fds : fdt[n] = fdt[m] /\ fdt[n] # None => n = m)'
    BY <1>1, <1>2 DEF OnceOnly
  <2>13. OnceOnly'
    BY <2>9, <2>10, <2>11, <2>12 DEF OnceOnly
  <2>14. StreamsExact'
    <3> SUFFICES ASSUME NEW n \in Buffers, NEW d \in Conns,
                        fdt'[n] = d, d \notin overrun', peer'[d] = "open"
                 PROVE  Stream(echoed'[d], buffer'[n], unread'[d], left'[d], said'[d])
      BY DEF StreamsExact, Stream
    <3>1. d # c
      BY <1>2, <2>2, BufferIsFd DEF Fresh
    <3>2. fdt[n] = d /\ d \notin overrun /\ peer[d] = "open"
      BY <1>2, <2>4, <3>1
    <3> QED BY <1>1, <1>2, <2>1, <3>2 DEF StreamsExact
  <2> QED BY <2>13, <2>14
<1>5. CASE Say(c)
  <2>1. PICK v \in {"text", "end"} :
          said' = [said EXCEPT ![c] =
                     Append(said[c], [from |-> c, no |-> Len(said[c]) + 1, word |-> v])]
    BY <1>5 DEF Say
  <2> DEFINE w == [from |-> c, no |-> Len(said[c]) + 1, word |-> v]
  <2>2. said[c] \in Seq(Word) /\ Len(said[c]) \in Nat
    BY <1>1, LenProperties DEF TypeOK
  <2>3. w \in Word
    BY <2>2 DEF Word
  <2> HIDE DEF w
  <2>4. /\ said' = [said EXCEPT ![c] = Append(said[c], w)]
        /\ unread' = [unread EXCEPT ![c] = @ + 1]
        /\ UNCHANGED <<backlog, peer>>
    BY <1>5, <2>1 DEF Say, w
  <2>5. Len(Append(said[c], w)) = Len(said[c]) + 1
    BY <2>2, <2>3, AppendProperties
  <2>6. /\ said'[c] = Append(said[c], w) /\ unread'[c] = unread[c] + 1
        /\ \A d \in Conns : d # c => said'[d] = said[d] /\ unread'[d] = unread[d]
    BY <1>1, <2>4 DEF TypeOK
  <2>7. OnceOnly'
    <3>1. ASSUME NEW d \in Conns, Fresh(d) PROVE echoed'[d] = <<>> /\ unread'[d] = Len(said'[d])
      BY <1>2, <2>5, <2>6, <3>1 DEF Fresh
    <3> QED BY <1>1, <1>2, <2>4, <3>1, OnceKept
  <2>8. StreamsExact'
    <3> SUFFICES ASSUME NEW n \in Buffers, NEW d \in Conns,
                        fdt'[n] = d, d \notin overrun', peer'[d] = "open"
                 PROVE  Stream(echoed'[d], buffer'[n], unread'[d], left'[d], said'[d])
      BY DEF StreamsExact, Stream
    <3>1. Stream(echoed[d], buffer[n], unread[d], left[d], said[d])
      BY <1>1, <1>2, <2>4 DEF StreamsExact
    <3>2. CASE d # c
      BY <1>2, <2>6, <3>1, <3>2
    <3>3. CASE d = c
      <4>1. /\ echoed[c] \in Seq(Word) /\ left[c] \in Seq(Word) /\ InRange(buffer[n])
            /\ unread[c] \in 0 .. Len(said[c])
        BY <1>1, BufferOf DEF TypeOK, InRange
      <4>2. Stream(echoed[c], buffer[n], unread[c] + 1, left[c], Append(said[c], w))
        BY <2>2, <2>3, <3>1, <3>3, <4>1, StreamSaid
      <4> QED BY <1>2, <2>6, <3>3, <4>2
    <3> QED BY <3>2, <3>3
  <2> QED BY <2>7, <2>8
<1> QED BY <1>3, <1>4, <1>5 DEF Client

(* The steps that receive, send and connect nothing.                       *)
LEMMA StreamOther ==
  ASSUME StreamInv, NEW n,
         \/ select \/ AcceptFails \/ RecvDone(n) \/ SendAgain(n) \/ Logout(n) \/ SendFails(n)
  PROVE  OnceOnly' /\ StreamsExact'
<1>1. SelectInv /\ OnceOnly /\ StreamsExact /\ TypeOK
  BY DEF StreamInv, SelectInv
<1>2. UNCHANGED <<backlog, peer, said, unread, echoed, left, overrun>>
  BY DEF select, AcceptFails, RecvDone, SendAgain, Logout, SendFails, echoVars, historyVars
<1>3. \/ UNCHANGED <<fdt, buffer>>
      \/ fdt' = [fdt EXCEPT ![n] = None] /\ buffer' = [buffer EXCEPT ![n].fd = -1]
  BY DEF select, AcceptFails, RecvDone, SendAgain, Logout, SendFails, Closed
<1>4. \A m \in Fds : fdt'[m] = fdt[m] \/ fdt'[m] = None
  BY <1>1, <1>3 DEF TypeOK
<1>5. \A m \in Buffers : /\ buffer'[m].buff = buffer[m].buff
                         /\ buffer'[m].send_index = buffer[m].send_index
  <2>1. buffer \in [Buffers -> Buffer] /\ \A m \in Buffers : buffer[m] \in Buffer
    BY <1>1 DEF TypeOK
  <2>2. CASE buffer' = buffer
    BY <2>2
  <2>3. CASE buffer' = [buffer EXCEPT ![n].fd = -1]
    <3>1. \A m \in Buffers :
            buffer'[m] = IF m = n THEN [buffer[m] EXCEPT !.fd = -1] ELSE buffer[m]
      BY <2>1, <2>3
    <3> QED BY <2>1, <3>1 DEF Buffer
  <2> QED BY <1>3, <2>2, <2>3
<1>6. OnceOnly'
  BY <1>1, <1>2, <1>4, OnceKept DEF Fresh
<1>7. StreamsExact'
  BY <1>1, <1>2, <1>4, <1>5, StreamKept, BufferIsFd
<1> QED BY <1>6, <1>7

LEMMA StreamNext == StreamInv /\ [Next]_vars => StreamInv'
<1> SUFFICES ASSUME StreamInv, [Next]_vars PROVE StreamInv'
  OBVIOUS
<1>1. SelectInv'
  BY NextSelect DEF StreamInv
<1>2. OnceOnly' /\ StreamsExact'
  <2>1. CASE accept
    BY <2>1, StreamAccept
  <2>2. ASSUME NEW n \in Buffers, RecvToBuffer(n) \/ SendFromBuffer(n)
        PROVE  OnceOnly' /\ StreamsExact'
    BY <2>2, StreamRecv, StreamSend
  <2>3. ASSUME NEW n,
               \/ select \/ AcceptFails \/ RecvDone(n) \/ SendAgain(n) \/ Logout(n) \/ SendFails(n)
        PROVE  OnceOnly' /\ StreamsExact'
    BY <2>3, StreamOther
  <2>4. CASE select \/ AcceptFails
    BY <2>3, <2>4
  <2>5. ASSUME NEW c \in Conns, Client(c) PROVE OnceOnly' /\ StreamsExact'
    BY <2>5, StreamClient
  <2>6. CASE UNCHANGED vars
    BY <2>6 DEF vars, StreamInv, OnceOnly, Fresh, Waits, StreamsExact, Stream
  <2> QED BY <2>1, <2>2, <2>3, <2>4, <2>5, <2>6 DEF Next, Main
<1> QED BY <1>1, <1>2 DEF StreamInv

(* With it, that a connection is accepted once, before anything was read   *)
(* from it, and that the stream of each one served is intact.              *)
THEOREM StreamInvariant == Spec => []StreamInv
BY StreamInit, StreamNext, PTL DEF Spec

(* What a client is sent, what the buffer holds for it and what it sent    *)
(* and is not received are together what it said, in capitals and in order *)
(* and behind what it found in the buffer: RecvToBuffer and SendFromBuffer *)
(* neither lose, repeat nor reorder anything that fits.                    *)
THEOREM StreamsEchoed == Spec => []StreamExact
BY StreamInvariant, StreamsAreExact, PTL
=============================================================================
