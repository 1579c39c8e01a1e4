# Socket-Project in TLA+

Models, model-checking runs and machine-checked proofs for the programs of
this repository: a chat room, several echo servers that share their work in
different ways (thread pool, `poll`, `select`, `epoll`, a thread per client,
a semaphore), two file transfers and a few UDP and helper programs, all in C
over BSD sockets and POSIX threads.

`tlc -config X.cfg M` checks run `X` of module `M`; `tlapm M.tla` checks the
proofs of `M`. `PROJECT.json` lists the runs, the mutants that show each
property can fail, the lines of code each definition stands for, the hazards
and the theorems.

## 1. The system

### 1.1 Inventory

| component | sources | state | operations | what is hard |
|---|---|---|---|---|
| chat room, second version, server | `chatroom/server/my_server.c`, `common/my_chatroom.h` | table `client[]` of users (name, online, fd), `main`'s variable `sub`, a receive buffer `rmsg` per worker | accept, login (`check_online`, `find_sub`), worker (login notice, receive, dispatch by flag, logout), `msg_forward` (public, private, notice, list of users) in a thread per message | no lock anywhere; pointers to `main`'s and the worker's stack are handed to threads; entries and descriptors are reused |
| chat room, second version, client | `chatroom/client/my_client.c` | two threads, one that types and one that prints | login, typing (`@name text`, `#1`, plain text), printing, leaving | the threads share the connection; either end may disappear |
| chat room, first version | `chatroom/server/server.c`, `chatroom/client/client.c`, `common/chatroom.h` | the same, and `sum`, the number of users online; the client is a parent and a child process | the same, without the list | `sum` is changed by all threads and bounds the loops; `check_name` is used with the wrong sense |
| thread pool server | `server/backup/server_thread_pool.c` | ring `fd[]`, `head`, `tail`, mutex, condition | push, pop, echo | condition variable, a ring without a test for full, threads held by their clients, an answer to a client that is gone |
| poll server | `server/server.c` (copy in `server/backup/server_poll_io_multiplexing.c`) | array `event_set`, `retval` | poll, accept, receive and answer, close | counting down the ready entries, full array, slow clients |
| select server | `server/backup/server_select_io_multiplexing.c` | per descriptor a buffer and its indexes, two `fd_set`s | select, accept, receive, send lines back | partial input and output, buffers that survive their clients |
| epoll server | `server/backup/server_epoll_io_multiplexing.c` | the kernel's ready list, the events reported and not yet served, `buff` | `epoll_wait`, accept, receive and answer | edge-triggered with one bounded read per event; events that are old when they are served |
| thread-per-client server | `server/backup/old_server.c` | table `client[]` in memory nobody has cleared, `sub`, handed to threads by address | accept, `find_sub`, echo, give an entry up | a thread reads `sub` again at its end, and gives up the entry of whoever came last |
| connecting with a timeout | `common/tcp_client.c`, `client/client.c` | the state of one socket | nonblocking `connect`, `select`, `getsockopt`, give up | the answer may come when the time is up |
| agents server | `sem/server.c` | System V semaphore, `&fd` handed to threads | accept, wait for an agent, echo, give the agent back | threads may share a descriptor, order of `semaphore_v` and `close` |
| file transfer with reassembly | `transfer/Example/sender.c`, `receiver.c` | packet under construction, `packet_pre`, `offset`, `flag`, size so far; the parent's `fd` and children | send packets; receive, cut, join, write; accept, fork, reap | the stream keeps no packet boundaries, either end may die; `SIGCHLD` is not queued |
| file transfer | `transfer/transfer_server.c`, `transfer_client.c` | `sockfd`, handed to threads by address, descriptors, open files | send name, then contents; a thread per client that receives | name and contents are not separated; descriptors are shared, closed under another thread and used again |
| UDP server and client | `server/server_udp.c`, `client/client_udp.c`, `common/udp_server.*` | none | receive, answer | lost datagrams |
| helpers | `common/common.c`, `tcp_server.c`, headers | `conf_ans` | configuration file, listen | |
| small programs | `tcp_daemon/test_o_non_block.c`, `push.sh` | none | | |

The programs do not share code beyond `common/`; every server is a system of
its own together with its clients and the kernel's sockets between them.

### 1.2 How the parts interact

*Chat room.* Clients connect and send a login message; `main` reads it,
answers with a `Welcome` or a refusal, fills an entry of `client[]` in three
steps and starts a worker with a pointer to its own variable `sub`. The worker
announces the login, then reads messages from its user and, for each, starts a
forwarder thread with a pointer to its buffer. Forwarders and workers read the
table while `main` fills it and workers give entries up.

*Thread pool.* `main` pushes accepted descriptors; threads pop them under a
mutex, wait on a condition variable while the ring is empty, and serve what
they popped until its client leaves. An answer to a client that has reset its
connection raises `SIGPIPE`, which ends the process with all that waits.

*Agents.* `main` starts one thread per connection, with a pointer to its own
`fd`; the threads compete for `MAX` agents, which the semaphore counts.

*poll/select/epoll.* One thread; the interaction is with the kernel, which
decides what is ready, and with clients that come, go, or stop reading.

*File transfer with reassembly.* A sender and a receiver's child joined by a
byte stream; the child shares the connection with its parent, which forks a
child for every connection and reaps them in a handler of `SIGCHLD`.

*File transfer.* `main` starts a thread per connection, with a pointer to its
own `sockfd`; all threads share the process's descriptors and its files.

*Thread-per-client server.* `main` fills an entry of the table and starts a
thread with a pointer to its variable `sub`; the thread reads it at its
beginning and at its end. The clients race the server and their own clock.

### 1.3 What makes each part correct

* Chat room: a user is online at most once; an entry belongs to one worker,
  whose connection it names; every message reaches exactly those it is for,
  under its author's name; a private message reaches nobody else; logins are
  answered and logouts take effect.
* Thread pool: the ring is touched by one thread at a time, no wake-up is
  lost, tasks are taken in order, once each, none is lost unless the ring is
  full, and the others are served in the end.
* First chat room: `sum` is the number of users online; a public message
  reaches all of them.
* Select server: a client gets back what it sent, once, whole and in order,
  over however many rounds; a mark for sending neither outlives its request
  nor is forgotten.
* Poll server: everything `poll` reports is served in its round; entries and
  open descriptors stay in step; bytes are answered exactly.
* Agents: no agent is lost or invented; at most `MAX` clients are served.
* File transfer with reassembly: what is written is a beginning of what was
  read, all of it at the end; neither process waits for the other for ever;
  the handler never waits for a child that still runs.
* File transfer: what was sent is what came with the name, then the file,
  then what is still on its way; no descriptor is used after it was closed,
  and none stays open behind a thread; every thread comes to its end.
* Epoll server: what is reported is still so when it is served; what comes
  later is reported again; what is sent is answered exactly once; whoever has
  left is closed.
* Thread-per-client server: no more threads than taken entries; whoever is
  told that it is connected was; a connection given up is not kept.

The lines where these can go wrong are listed under `hazards` in
`PROJECT.json`, with the properties that watch them.

## 2. Modules

| module | models | composed of |
|---|---|---|
| `ChatNet` | sockets: backlog, descriptor table with lowest-free allocation, streams of messages both ways, reset and `SIGPIPE` | |
| `ChatServer` | `my_server.c`: `main`, workers, forwarders | EXTENDS `ChatNet` |
| `ChatClient` | `my_client.c`: both threads of a client as one actor | EXTENDS `ChatNet` |
| `Chatroom` | the whole: actions of server and clients, properties, fairness | EXTENDS `ChatServer`, `ChatClient` |
| `ThreadPool` | `server_thread_pool.c` | refines `TaskFifo` |
| `TaskFifo` | what the task queue does, without its ring: push, pop in order, finish, and the push into a full queue that drops what waits | |
| `FileTransfer` | `sender.c`, and parent and child of `receiver.c` | |
| `AgentServer` | `sem/server.c` | |
| `PollServer` | `server/server.c` | |
| `SelectServer` | `server_select_io_multiplexing.c` | |
| `EpollServer` | `server_epoll_io_multiplexing.c` and the kernel's ready list | |
| `TimedConnect` | `socket_connect_timeout` of `tcp_client.c`, as `client/client.c` calls it, the kernels and the backlog | |
| `OldServer` | `old_server.c` | EXTENDS `TimedConnect` |
| `TransferServer` | `transfer_server.c` and `transfer_client.c` | |
| `FirstChatroom` | `chatroom/server/server.c`, `chatroom/client/client.c` | EXTENDS `ChatClient`, `ChatNet` |
| `MC*` | symmetry sets and line sets for the runs | EXTENDS the module |
| `ChatroomProofs`, `FirstChatroomProofs`, `PollServerProofs`, `SelectServerProofs`, `TransferServerProofs`, `AgentServerProofs` | theorems | EXTENDS the module it is named after |
| `BackupProofs` | theorems about two servers of `server/backup` | EXTENDS `ThreadPool`, `EpollServer` |
| `PerClientProofs` | theorems about two programs that start a process or thread per connection | EXTENDS `FileTransfer`, `OldServer` |

Definitions keep the names of the C functions where there is one (`accept`,
`check_online`, `find_sub`, `msg_forward`, `work`, `semaphore_p`, `poll`,
`child_do`). Where a module of proofs extends two specifications, one of them
carries a prefix: `PoolInit`, `PoolNext`, `PoolSpec` and `PoolTypeOK` in
`ThreadPool`, and `FileInit`, `FileNext`, `FileSpec`, `FileTypeOK`, with
`ParentAccept`, `ParentClose` and `ChildRecv` for the calls `accept`, `close`
and `recv`, in `FileTransfer`. Program counters name the call a thread makes next. Definitions
with a suffix after the name of another one (`ParentClose_Late`) are mutants:
plausible bugs that must break a property.

### 2.1 Grain

In the chat room one action is one access to shared data: a field of the
table, `main`'s `sub`, the worker's buffer (routing fields and text apart, as
the structure assignment of `my_server.c:74` may be seen half done), a socket.
The bytes of a name are not split (`strcpy` of a name is one step).

In the thread pool every access to the ring is an action between lock and
unlock, so that mutual exclusion is a result and not an assumption; of `do_echo`, the
receiving of a line, its `send` and the end are actions. In the
agents server `main`'s write of `fd` and the thread's read of it are two
actions. In the poll and select servers one system call with the bookkeeping
up to the next one is an action. In the first chat room the grain is that of
the second, with two actions for each change of `sum`; `check_online` is one
action, since entries only go offline while it looks: what it finds one entry
at a time it would have found at its end at once. The client is the second
version's, whose lines are limited to those the first version treats alike.

In the file transfer with reassembly one `recv`, `send` or `fwrite` is one
action, and so are `accept`, `fork`, `close`, the delivery of `SIGCHLD` and
`wait` of the parent. A `recv` that waits looks at its descriptor when it
returns, in the simple file transfer and in the thread-per-client server; the
kernel looks when it is called. The two differ only when somebody else closes
the descriptor in between, which happens only when `intact` is false already.
In the simple file transfer reading `sockfd`, the first
`recv`, `open`, each `read` with its `write`, and the final `close` of both
descriptors are actions of the thread. In the epoll server `epoll_wait` is
one action, and the serving of one event another. In the thread-per-client
server each access to the table and to `sub` is an action of its own, except
that `main` stores `flag` and `fd` in one: nobody reads `fd` of an entry
before `sub` names it and its thread runs. `select` and `getsockopt` of the
connecting client are one action, since a result that is there stays; either
may fail as well, and the socket is closed as it is (`SelectFails`).

### 2.2 Undefined behaviour

* `my_server.c:152`: with a full table `find_sub` returns -1, and entry -1 is
  written. The table has a cell -1 (the memory below it); what becomes of a
  server that goes on with it is in the model, and the history variable
  `intact` is false once its worker has read that number.
* `&sub`, `&fd` and `rmsg` shared with threads: every interleaving of the
  accesses.
* `server.c:77-83`: with a full buffer `strlen` runs on; 0 or 1 more byte.
* `server_select_io_multiplexing.c:149-154`: descriptor `MAX_CLIENTS` passes
  the test and indexes behind the array: the process ends, or the word read
  there says "in use" and the client is left without a buffer. Line 62 reads
  `buff[-1]` when three bytes have come; it is the highest byte of
  `recv_index`, 0, and no carriage return.
* `chatroom/server/server.c:137, 54`: `sum` is changed by several threads;
  reading and writing it are two actions.
* `old_server.c:80`: the table is `malloc`ed and read before it was
  written: any entry may look taken at the beginning (`flag` in `Init` is
  arbitrary). It has the size of `MAXCLIENT` pointers while as many structures
  are used; `Fit` says how many of them there is room for, and the model stops in
  `"undefined"` when `main` goes beyond. A thread that reads `sub` when it is
  -1 takes the memory before the table, zeroes, for its entry: standard
  input, on which every call it makes fails. That it closes descriptor 0 at
  the end is left out. The stores are in program order, as an unoptimised
  build has them.
* `transfer_server.c:71`: `&sockfd` as above; a descriptor number that was
  closed may stand for another connection or a file when it is used.
* `server_epoll_io_multiplexing.c:70-74`: with a full buffer `strlen` runs
  on, as in the poll server.
* `receiver.c:59-81`: `fopen` fails and `fclose(NULL)` crashes; a packet
  without a header names any file (`spoiled`).

### 2.3 History variables

`handed`, `intact`, `due` (chat room), `told`, `intact` (agents), `todo`,
`filled`, `echoed` (poll), `echoed`, `filled`, `short` (epoll), `left`,
`overrun` (select), `lost` (thread pool),
`counted` (first chat room), `first`, `ended` (file
transfer with reassembly), `taken`, `intact` (file transfer), `intact`
(thread-per-client) record the past for the properties. No guard reads them.

`intact` says that so far every thread found in the shared variable what was
put there for it (and, in the chat room, that there was a free entry). The
shared-pointer races are real (section 3.2); the properties that are
conditional on `intact` show that nothing *else* goes wrong, and those that
are not (`UniqueNames`, `Permits`, `AtMostAgents`, `ThreadsFit`) hold in spite
of them. A conditional property does not watch the race that ends its
condition: `hazards` in `PROJECT.json` names for each of those which
unconditional property sees its effects, if one does, or why none can.

## 3. Runs

Deadlock checking is off everywhere: a client need not connect or type, every
client may have left, and a server that was killed by `SIGPIPE`, or called
`exit`, stops.

### 3.1 The runs

| run | question | constants and why they are enough |
|---|---|---|
| `chat_sessions` | is a user ever online twice, an entry taken over or left without its worker, somebody else's connection read or closed? | 3 clients of 2 users, 2 descriptors, 2 entries, one client leaves at any time: two clients of one user race, descriptors and entries are used again between any two steps of a logout |
| `chat_messages` | do messages of every kind reach those they are for, under their author's name? | 2 clients that type one line of any kind each, one leaves at any time, 2 forwarders: every point of a scan meets every step of a login, of a logout and of the other scan |
| `chat_live` | are logins answered and logouts carried out? | 2 clients, both may leave: a login meets a logout of the same user |
| `first_chat` | is a user ever online twice, does `sum` count the users, and does a public message reach everyone? | 3 clients of 3 users for 2 descriptors and 2 entries: the table overflows when a worker has closed its descriptor and not yet its entry, and `main` and a worker change `sum` at once |
| `pool` | mutual exclusion, wake-ups, the queue, and is every connection served? | 3 threads: one runs, one waits, one is woken; 4 connections for a ring of 3, which they wrap, and which is full when a third one waits; one client sends lines, two ahead of the server, and leaves them unanswered or an answer unread, so that `SIGPIPE` comes while others wait |
| `file` | is what is written a beginning of the file, and whole at the end; does either process wait for the other, or the handler for a child, for ever? | files of no, one, two and three packets; a connection that holds less than two packets, so that packets are cut and meet in one `recv`; 2 transfers; a second connection whose child ends at any time; either end fails at any time, either `fork` may fail |
| `agent` | are agents lost, or more clients served than there are agents; does a waiting thread get an agent? | 3 clients, 2 descriptors, 1 agent: two threads wait for one agent, threads find each other's descriptor, numbers are used again |
| `poll` | is every ready entry served in its round, and are bytes answered exactly? | 3 clients, of whom 2 send, for 2 entries: the array is full, entries and descriptors are used again; a buffer of 2 that 2 bytes fill; `accept` may fail |
| `select` | does each client get its own stream back, whole, in order and in the end? | 4 clients: 2 buffers, one descriptor without a buffer, one refused; 2 send two words each, the first of them leaves; a buffer of 3 words overflows when what was left in it is added; a client's end takes one word at a time, so that every answer takes several rounds |
| `epoll` | are events still true when they are served, is later input reported again, are bytes answered exactly, and is whoever left closed? | 3 clients for 2 descriptors, which are used again while events for them wait; 2 events at a time of 3 that may be ready; one client sends 3 bytes to a buffer of 2, so that input is left behind; a client's end takes 2 bytes |
| `transfer` | is a file stored as it was sent, are descriptors used only by their thread and closed after it, and does every thread end? | 3 clients for 3 descriptors, of which a transfer takes two: opening a file may fail, and `accept`; a file that ends inside a block, over a longer one at the server, one that ends with a block, a client without a file; contents may come with the name, since both fit into one `recv`; one client breaks off |
| `old_server` | does the table bound the threads, is whoever is told it is connected connected, and is a connection given up closed? | 2 clients, one of them with a network that may be unreachable, and an `accept` that fails once: three threads for two entries, which may look taken from the beginning; a backlog of 1 puts a handshake off until the time is up |

Each property is broken by at least one mutant of the definitions it depends
on (`mutants` in `PROJECT.json`).

### 3.2 What was found on the way

These are results about the code that the properties take as they are.

* The pool's ring loses all waiting tasks when it is full, because a full
  ring looks like an empty one (`server_thread_pool.c:61-66, 73`), and their
  clients wait for ever on open connections. Nothing keeps it from filling.
  `TaskFifo` has this as a step of its own, `Overflow`; `Served` names it.
* One client ends the thread pool server for all: a line sent to a client
  that has reset its connection raises `SIGPIPE` (`server_thread_pool.c:35`),
  while other connections wait in the ring or are served. `Served` names it.
* Two logins in a row to the chat room: both workers read the same `sub`, and
  one user is never announced, although "When a user logged in, notify all
  online users" (`my_server.c:60, 65`).
* With the table full `find_sub` returns -1 (`my_server.c:100-105`) and the
  user is entered in front of the table, where no scan looks. The proof of
  `ForwardComplete` showed that for a moment, until its worker has read `sub`,
  such a client is online by every other test; `Online` excludes it, so the
  property promises nothing to a user who got no entry.
* A second message overwrites the worker's buffer while a forwarder copies
  it: a private text goes out with the routing of another message
  (`my_server.c:94`). `Attribution` says what is left: the author.
* `check_name` of the first chat room (`chatroom/server/server.c:36`) tests
  `strcmp` without `!`: a private message goes to the first user online whose
  name is another one. The model has it as it is.
* A public message of the first chat room does not reach the last users of
  the table once somebody in front of them has left (`server.c:27`), which is
  why `PublicReaches` asks for a table without a gap.
* A client of the select server gets what its descriptor's last client left
  in the buffer (`server_select_io_multiplexing.c:173`); `StreamExact` says
  exactly this, with `left` for what was found there.
* Nothing enforces the capacity that `sem/server.c:19` gives the queue of
  waiting clients.
* The reassembling receiver says "Received completely" of a file whose sender
  died in the middle of it: the last packet is written again until the size
  is right (`receiver.c:34, 74`). `Faithful` therefore ends where the stream
  does.
* When `fork` fails the receiver's parent keeps the connection open
  (`receiver.c:106`), and the sender waits for ever once it is full.
  `BothStop` and `Delivered` name this case. Of two children that end at once
  one may stay a zombie (`receiver.c:19`): `WaitReturns` says that at least
  the handler never waits.
* The simple transfer says "File received successfully!" although bytes that
  came with the name are lost, blocks are padded, and the rest of a longer
  file of that name stays, since it is opened without `O_TRUNC`.
  `Stored` says exactly which bytes are where.
* A thread of it that cannot open its file leaves its connection open. With
  no descriptor left `accept` fails, `sockfd` becomes -1, and a thread that
  reads it then ends the whole server (`transfer_server.c:64, 84`).
* A connection that fails at once is still waited for in `select`, which
  finds the socket writable and `SO_ERROR` 0: the program says "Socket
  connected." (`tcp_client.c:57-82`). `ConnectTruth` leaves out clients whose
  network cannot be reached.
* The table of the thread-per-client server has room for fewer clients than
  it is used for (`old_server.c:80`), see 2.2.

### 3.3 Bounds

`Conns`, `Users` are small sets, `MaxFd` and `MaxOpened` small numbers of
descriptors. `MaxSend`, `MaxSends`, `MaxSay`
bound what is typed or sent (`MaxSay[c]` for each client in `EpollServer` and
`OldServer`); `Lines`, `Chatters`, `Leavers`, `Speakers` say
which lines are typed and by whom, and who may leave; `Fwds` bounds the
forwarder threads there may ever be (a worker waits to start another one; the
code would start it; the runs have one for each message);
`Recorded` says which kinds of delivered messages are remembered;
`Talkers` and `MaxLines` say whose lines the thread pool receives and how many
may be on their way; `Capacity` and `Window` what a
connection holds; `LinkFails` says whether connections may break, `Shortage`
whether `accept` may fail for reasons outside the process. `Others` are the
connections of the receiver beside the one that is modelled in full, and
`Unforked` those whose `fork` may fail; `Strays` counts the times that
`accept` of the thread-per-client server fails (each time it starts a thread),
`Unreached` are the clients whose network may be out of reach, `Backlog` is
the argument of `listen`, 20 in the code and 1 in the run; `Faulty` are the
clients of the simple transfer that may break off or find the disk full,
`Told` and `Size` the files they may be told to send. Each is an upper
bound in a guard, so a run explores every behaviour below it.

### 3.4 Fairness

* `chat_live`: weak fairness of `main` and of each worker and forwarder while
  the process is alive (the kernel schedules threads), and of a client's
  login. Clients need not connect, type or leave.
* `pool`: weak fairness of `main` and of the threads, strong fairness of
  taking the mutex, since a mutex released again and again is not withheld
  from one thread for ever. `send` may wait for ever for a client that does
  not read, and there is no fairness of clients: `Served` is conditional
  on some thread being free again and again.
* `agent`: the same for the semaphore. `AgentComes` is conditional on there
  being moments, again and again, at which nobody who was told to speak is
  still connected: agents come back when their clients leave.
* `poll`: the one thread runs, and a shortage passes (strong fairness of an
  `accept` that succeeds). `Received` is conditional on `send` not waiting
  for ever for a client that does not read.
* `select`: the one thread runs. `Answered` allows the server to wait while
  the client has unread answers to the limit; a client that reads gets the
  rest, as the property starts again at each reading.
* `file`: sender, child and parent run; faults (`RecvFails`, `OpenFails`,
  `Kill`, `ForkFails`) and commands need not happen, and nothing is assumed
  of the other connections.
* `epoll`: the one thread runs, and a reset that is due comes. `DepartedClosed`
  is about clients that have left; those that stay need not read.
* `transfer`: `main` starts a thread for the connection it has, and the
  threads run. Nothing is assumed of the clients: `Completed` begins when a
  client has left.
* `old_server`: `main`, the threads, the kernels and a client whose `select`
  has returned run on; strong fairness of an `accept` that succeeds, which
  may fail any number of times between (`Strays` bounds it in the model).

## 4. Proofs

All theorems hold for every value of the constants that satisfies the named
`ASSUME`s (sizes are natural numbers, sets of threads or clients that are
counted are finite, markers such as `None` are not members of the sets they
mark). TLC evaluates those on every run.

### 4.1 `ChatroomProofs`

* `TypeCorrect`: `Spec => []TypeOK`. Inductive invariant `TypeInv`, the types
  together with what a program counter says of the locals it makes valid.
* `OneSessionPerUser`: `Spec => []UniqueNames`. `check_online` reads one
  field at a time while workers put entries offline, so uniqueness is not
  inductive: `NameFree` says that the entries `main` has passed do not bear
  the name of the user who logs in, and stays true because only `main` puts
  entries online and writes names. It holds even when the table overflows.
* `EntriesHaveOwners` (`SessionOwned`), `WorkersKeepApart` (`OwnConnection`)
  and `EntriesFilledOnce` (`NoTakeover`) follow from `SessionInv`. Like the
  properties it speaks of states in which every worker found its own entry in
  `&sub` (`intact`). There, a worker that stands for an entry (`Stands`) has
  it online with its user's name and descriptor (`Owned`), no two stand for
  one, and an entry that `main` is filling has none (`Allocating`). This needs
  three facts about everybody else: connections that wait in the backlog have
  no worker (`Unspawned`), the descriptor in `main`'s hands is its own
  (`MainOwns`), and what a client sends bears its name (`SentAs`).
* `AuthorsKept` (`Attribution`): `AuthorInv` follows the author from the
  client through the worker's buffer, `main`'s and the forwarders' copies, at
  each of which the text may already be another message's, but of the same
  client.
* `NobodyMissed` (`ForwardComplete`): `DeliveryInv` says of everyone who was
  online when a forward began and is still connected that its entry is one the
  scan has yet to reach, or that the message is with it (`Reaching`). It needs
  that resets come only from clients that left (`Honest`) and that nobody who
  is connected is being logged out (`Stays`).

### 4.2 `BackupProofs`: the thread pool

* `PoolTypeCorrect`, `MutualExclusion`: from `PoolInv`, which relates the
  owner of the mutex with the program counters, spurious wake-ups included.
* `QueueIsFifo`: `PoolSpec => ImplementsFifo`, for every size of the ring and
  any number of connections. `FifoInv` says where the connection is that
  `main` pushes and that everything in the ring, in a thread's hands or lost
  was pushed before; every step is a push, an overflow, a pop, a finish or a
  stutter of `TaskFifo`. `PushRing`, `PushFull` and `PopRing` have the
  arithmetic: the push that finds one entry to spare lets `tail` meet `head`
  and empties the ring, any other adds one task at the end.
* `SignalsSuffice`: `PoolSpec => []NoLostWakeup`. `WakeInv` adds that the threads
  which wait for the condition are all in `pthread_cond_wait` and that one
  about to take a task has found one. Each step keeps the balance of tasks
  against threads awake (`StillEnough`): a push owes a signal, a signal wakes
  a thread or finds none waiting, and a thread goes to wait only when it has
  seen the ring empty under the mutex. An overflow only makes tasks fewer.

### 4.3 `FirstChatroomProofs`

* `FirstTypeCorrect`: from `TypeInv`, the types with what a program counter
  says of the locals: the entry a worker is about to send to is in the table,
  the socket `recv` waits on is a connection.
* `FirstOneSession` (`UniqueNames`): as in the second version, `NameFree` says
  that the name of the user who logs in is not in the table, and stays true
  until `main` has filled the entry, because workers only put entries offline
  (`OnlyOffline`). It holds when entries are mixed up or the table overflows.
* `SumCounts` (`SumExact`): from `SumInv`, which rests on `SessionInv`, what is
  true of the table as long as every worker found the entry allocated for it
  (`intact`): a worker that stands for an entry has it online, and one that
  has closed its descriptor has lost its client (`Owns`), no two stand for one
  (`OneOwner`), every entry online that `main` is not filling has its worker
  (`SomeOwner`), and the entry `main` fills is nobody's (`Allocating`). So each
  logout takes exactly one entry offline, and `sum` follows the count of
  entries online through every interleaving in which no two threads change it
  at once.
* `PublicReached` (`PublicReaches`): from `DeliveryInv`. Whoever is due and
  still connected has the message, or its entry is ahead of the loop with no
  entry offline before it (`Ahead`). The entry belongs to its worker, or to
  `main` that is about to create it (`Holds`), so a send to it reaches this
  user and no other. The loop cannot end before: with an entry `s` and all
  before it online, `SumExact` makes `sum` at least `s + 1` (`LoopPasses`).
  The theorem assumes that the history `got` records texts (`Recorded`), which
  is how the property can tell what has arrived.

### 4.4 `PollServerProofs`

* `PollTypeCorrect`, `EntriesInStep` (`EntriesExact`), `RoundsComplete`
  (`RoundComplete`), `EchoedExactly` (`EchoExact`): from `PollInv`. Its core
  is `RetvalCounts`: `retval` is the number of entries that `poll` found ready
  among those still to come, plus one while the listener is to be served. It
  needs `EntriesExact` (an entry in use has a connection), and the bytes need
  `Honest` (a reset only answers a client that has left).

### 4.5 `SelectServerProofs`

* `SelectTypeCorrect`, `BuffersInStep` (`BuffersExact`), `MarksHold`
  (`MarkExact`): from `SelectInv`, which adds `FoundHolds`, that what
  `select` reported is still so when its turn comes: the listener has a
  connection, a writable descriptor's buffer is marked. Without it a send
  from an empty buffer could not be excluded.
* `StreamsEchoed`: `Spec => []StreamExact`. `StreamInv` adds `OnceOnly`: a
  connection waits once and is served under one descriptor, and nothing was
  read from or sent to one that is not accepted yet. Each step is then an
  equation on sequences: `StreamReceived` (words move from the unreceived to
  the buffer), `StreamSent` (from the buffer to the client, the last ones
  with the reset of the indexes), `StreamSaid`, `StreamBegins`. They rest on
  lemmas about parts of sequences (`FromOfFrom`, `FromOfConcat`,
  `FirstAndFrom`) and on `Capitals` distributing over concatenation.

### 4.6 `BackupProofs`: the epoll server

* `EpollTypes`, `EventsStayFresh` (`EventsFresh`), `NoneForgotten`
  (`NotForgotten`), `EchoedByteForByte` (`EchoExact`): from `EpollInv`, which
  adds three facts. A connection in the backlog has no descriptor and no
  history (`Fresh`) and later has one at most (`Single`): otherwise a `close`
  could take the ground from under another event. A reset only answers a
  client that has left (`Honest`): otherwise bytes could be lost that the
  client waits for. The kernel's ready list and the events of one
  `epoll_wait` are sequences; lemmas say that putting an entry on the list
  (`ListedKeeps`), taking one off and reporting the first ones keep them free
  of repetitions and lose none. `EchoExact` is `EchoSoFar`, the same equation
  for clients that have not connected yet too.

### 4.7 `PerClientProofs`: the file transfer with reassembly

* `HandlerNeverWaits`: `FileSpec => []WaitReturns`. The invariant is about sizes:
  the signals that are pending or being handled are never more than the
  zombies, since each child that ends makes one zombie and at most one
  signal, and each `wait` takes one of each. It needs the types of the
  parent's variables only.
* `FileTypeCorrect` and `FileFaithful` (`Faithful`): from `FileInv`. The
  packet being put together, the bytes read ahead, the stream and the
  sender's buffer are read as one line of units (`At`, `Length`). With `j`
  packets written, that line is the packets of the first file from the `j`-th
  on, as far as the file goes (`Aligned`), and the sender is either that many
  packets further in the same file or past its end (`Ahead`). Whatever number
  of units `recv` returns, and wherever a packet is cut, the line is the same
  line: the steps between move units along it, and the write takes off its
  first packet. `Faithful` is proved with the invariant, of which it is a
  part.

### 4.8 `TransferServerProofs`

* `DescriptorsKept`: `Spec => []DescriptorsExact`. `TransferInv` adds that a
  connection has one descriptor at most (`Single`), none while it waits
  (`Fresh`), and that files which threads have open, or have left open, are
  each their own (`FilesExact`): without the last, closing a file could close
  another thread's. One lemma for each of reading `sockfd`, opening and
  finishing, one for the steps between.
* `TransferTypes`, `StoredKept` (`Stored`): from `StoredInv`. Nothing of the
  stream is lost before the file is open (`Untouched`); from then on, what was
  taken, followed by what is in the file up to the thread's offset and what
  is still in the stream, is what the client sent (`Kept`), for a thread whose
  file nobody else writes. That a thread never writes behind the end of its
  file (`Within`) holds for shared files too.

### 4.9 `AgentServerProofs`

* `AgentTypeCorrect`, `NoAgentLost` (`Permits`): from `AgentInv`, which adds
  that a thread runs only for an accepted connection (`Accepted`) and that a
  connection gets one thread (`Fresh`). Threads may share a descriptor: agents
  are counted per thread and the result does not depend on `intact`.
* `ServedBounded`: `Spec => []AtMostAgents`. `SpeakInv` says that each client
  being served has a thread in `recv()` that holds an agent and reads that
  client's descriptor (`ToldBy`), that a connection has one descriptor at most
  (`Single`), that one not accepted yet has none (`Unspoken`), and that only a
  client that has left is reset (`Honest`). This is an
  injection from clients served to agents held, of which `Permits` says there
  are at most `Agents`.

### 4.10 `PerClientProofs`: the thread-per-client server

* `OldTypeCorrect`, `TableBoundsThreads` (`ThreadsFit`): from `OldInv`,
  which adds `Entering`: the entry `main` has found is still free when it
  takes it. Every thread that ends gives up at most one entry, whoever's it
  is, so the count of taken entries falls with the count of threads; lemmas
  `Fit*` have the arithmetic of cardinalities.
* `ConnectedIsTrue` (`ConnectTruth`): `socket_connect_timeout` reports a
  connection only when there is one. `TruthInv` adds `Reached`: only a server
  that may be out of reach leaves an attempt without an answer, and that is
  the one case in which `select` can time out.

### 4.11 Only model-checked

Liveness: `LoginAnswered`, `LogoutCleared`, `Served`, `Delivered`, `BothStop`,
`AgentComes`, `Received`, `Answered`, `DepartedClosed`, `Completed` and
`GivenUp`. The prover has no rules for fairness and ENABLED. Every invariant of
the runs, and the refinement of `TaskFifo`, is stated by a theorem about the
specification that its run checks.

## 5. What is not modelled, and why

* Chat room: a message received in parts, names split by a concurrent
  `strcpy`, full socket buffers, `pthread_create` failing. Clients send only
  what the client program sends: flag 3 is never sent by it and is covered by
  the third case of `Dispatch`. A message's fields that are uninitialised are
  never read by the code that receives it.
* Thread pool: the characters of `do_echo`, its buffer, and lines that are not
  finished; what a client does before a thread serves it is taken to happen
  then, and what clients do after the server has ended is left out.
* File transfer with reassembly: a full disk, the wording of commands; of
  connections beside the modelled one, all but what the parent does for them.
* Simple file transfer: what clients do after the server has ended. Contents
  that are taken for a name, by a thread that reads another one's connection,
  name one of the clients' files or none.
* Agents: the bytes echoed; a second instance of the program, which would
  reset the semaphore (`SETVAL`).
* Poll: the contents of the bytes; NUL bytes in them.
* Select: a client that never stops sending, which would keep the server in
  `RecvToBuffer` for ever; `select` itself failing.
* First chat room: what the client prints (for a private message it prints
  its own `msg`, `client.c:97`).
* Epoll: the contents of the bytes; NUL bytes in them.
* Thread-per-client server: the texts, which are only counted; what the
  process does after it has written behind its table.
* UDP server and client: each turn of the server's loop receives a datagram
  and answers it, and keeps nothing; the client sends one and waits.
* `get_value` (`common/common.c`) reads a configuration file line by line, for
  programs that are not in the repository; `socket_create` and
  `socket_create_udp` are straight-line calls, and what they do to
  connections (backlog, linger) is in the modules that need it.
* `tcp_daemon/test_o_non_block.c`, `push.sh`, `color.h`, `head.h` have no
  state or behaviour worth a model.

## 6. Plan

Done: all programs of the repository that keep state, and a proof of every
invariant of the runs. What is left to do is to keep both true to the code;
the hazards without a property are in `PROJECT.json` with the reason.
