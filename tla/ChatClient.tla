----------------------------- MODULE ChatClient -----------------------------
(***************************************************************************)
(* The chat client, chatroom/client/my_client.c: it logs in, waits for the *)
(* reply and then sends what the user types while a second thread prints   *)
(* what arrives.  One run of the program is one connection.                *)
(***************************************************************************)
EXTENDS ChatNet

CONSTANTS
  Lines,       \* what the user may type: a mark ("", "@" or "#") and, after
               \* "@", the word up to the first blank (Nobody: no blank)
  Chatters,    \* bound: the clients that send, MaxSend messages each
  Leavers      \* bound: the clients that may leave

ASSUME ClientAssumption ==
  Lines \subseteq [mark : {"", "@", "#"}, word : Users \cup {Nobody}]

VARIABLE cli   \* cli[c]: program counter, MY_NAME, number of messages sent

ClientPcs == {"start", "login", "await", "chat", "end"}

Step(c, pc) == cli' = [cli EXCEPT ![c].pc = pc]

(* The client's end closes; what it printed is not looked at any more.     *)
Quit(c) == /\ peer' = [peer EXCEPT ![c] = FALSE]
           /\ reply' = [reply EXCEPT ![c] = NoReply]
           /\ got' = [got EXCEPT ![c] = {}]
           /\ Step(c, "end")

socket_connect(c) ==
  /\ cli[c].pc = "start"
  /\ alive
  /\ backlog' = Append(backlog, c)
  /\ peer' = [peer EXCEPT ![c] = TRUE]
  /\ Step(c, "login")
  /\ UNCHANGED <<alive, fdt, up, reply, got, rst>>

(* What the client sends is lost once the server has closed its end and no *)
(* recv() holds on to the socket.                                          *)
Transmit(c, m) == \/ up' = [up EXCEPT ![c] = Append(@, m)]
                  \/ ~Serving(c) /\ UNCHANGED up

SendLogin(c) ==
  /\ cli[c].pc = "login"
  /\ Transmit(c, Message(cli[c].me, Nobody, 2, <<"empty", Nobody>>))
  /\ Step(c, "await")
  /\ UNCHANGED <<alive, backlog, peer, fdt, reply, got, rst>>

(* The first message is taken for the reply to the login: flag 3 ends the  *)
(* client, anything else lets it in.  The stream may also end.             *)
RecvReply(c) ==
  /\ cli[c].pc = "await"
  /\ \/ /\ reply[c] \in Flags \ {3}
        /\ Step(c, "chat")
        /\ UNCHANGED <<peer, reply, got>>
     \/ /\ reply[c] = 3
        /\ Quit(c)
     \/ /\ reply[c] = NoReply
        /\ ~Serving(c)
        /\ Quit(c)
  /\ UNCHANGED <<alive, backlog, fdt, up, rst>>

(* "@name text" is private, "#..." asks for the list, and everything else, *)
(* "@name" without a blank included, is public.                            *)
FlagOf(line) ==
  IF line.mark = "@" /\ line.word # Nobody THEN 1
  ELSE IF line.mark = "#" THEN 4 ELSE 0

client_send(c) ==
  /\ c \in Chatters
  /\ cli[c].pc = "chat"
  /\ cli[c].sent < MaxSend
  /\ \E line \in Lines :
       Transmit(c, Message(cli[c].me, line.word, FlagOf(line), <<"text",
                     [by |-> c, no |-> cli[c].sent + 1,
                      flag |-> FlagOf(line), to |-> line.word]>>))
  /\ cli' = [cli EXCEPT ![c].sent = @ + 1]
  /\ UNCHANGED <<alive, backlog, peer, fdt, reply, got, rst>>

(* ^C (logout), the end of input, after which the loop sends what it read  *)
(* last once more as a line of its own, or the process is killed.          *)
Leave(c) ==
  /\ c \in Leavers
  /\ cli[c].pc \in {"login", "await", "chat"}
  /\ Quit(c)
  /\ UNCHANGED <<alive, backlog, fdt, up, rst>>

ClientNext ==
  \E c \in Conns : \/ socket_connect(c) \/ SendLogin(c) \/ RecvReply(c)
                   \/ client_send(c) \/ Leave(c)

ClientInit == cli \in [Conns -> [pc : {"start"}, me : Users, sent : {0}]]

ClientTypeOK ==
  cli \in [Conns -> [pc : ClientPcs, me : Users, sent : 0 .. MaxSend]]
=============================================================================
