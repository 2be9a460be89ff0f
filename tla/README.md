# G-h: specifications of the match server, its network library and its client

G-h is a two-player ball game. A Windows server written in C++ matches players
and relays what they do; a Unity client in C# shows the game. This directory
holds TLA+ models of the parts that carry the logic of the program, the TLC
configurations that check them on small instances, and TLAPS proofs.

Paths below are relative to the repository root, `libnet` is
`src/SrvSocket/libnet`, `libbase` is `src/SrvSocket/libbase`, `unity` is
`src/New Unity Project`.

## 1. The system

```
  Unity client                                  server process
  ------------                                  --------------
  window thread: buttons, game                  one I/O thread: main() loop
     |   m_state, Game.m_state                     |
  socket thread: RecvData                       GHS_Lobby  players, queue
     |                                          GHS_Player state of a session
  TcpCSFramework (TcpCli, Session,              GHS_Game   two players
     DatagramResolver)                             |  onCon/onDisCon/onRead, send
     |                                          Win_IOCP_IOService
     |                                             |  PeerManager -> peer -> 3 SockBuf
     +------------- TCP ----------------------- completion port of Windows
```

### Components

| component | state | operations | interacts with | hard | what makes it correct |
|---|---|---|---|---|---|
| **SockBuf** `libnet/src/sockbuf.cpp` | a block of memory, its size, read and write index | reset, readMove, writeMove, ensureWritableBytes (makeSpace), apendBuf | the I/O thread; the system writes into it and reads from it | when to move and when to allocate; exceptions after the index has moved | it is a FIFO queue: every byte once, in order; never an uninitialized byte; bounded memory |
| **PeerManager** `libnet/src/peer_manager.cpp` | an array of slots: socket, serial, three buffers, send flag; the next serial | newPeer, deletePeer, getPeer | Win_IOCP_IOService | a slot is reused; old handles are still around | (slot, serial) reaches at most one connection, ever |
| **Win_IOCP_IOService** `libnet/src/Win_IOCP_io_service.cpp` | the slots, the I/O contexts in the hands of the system | eventLoop (onAcceptTick, onEventTick), registerSocket, send, closePeer, connectPeer | system by posted operations and completions; application by onCon, onDisCon, onRead | completions arrive late, partly, with errors, or after the slot has a new user; callbacks call send in the middle of a handler; a post can fail anywhere | one receive and at most one send under way; no byte lost, doubled or stranded; each onCon has its onDisCon; posted memory is left alone |
| **GHS server** `libnet/proj.win32` (GHS_Lobby, GHS_Player, GHS_Game, ghs_server) | table of players, queue, per player: game, opponent, ready, role | onCon, onDisCon, onRead to recv (7 messages), process | library by callbacks and send | players leave while queued or matched; pointers to players that are gone; cancellation crosses the match; flags that are never reset | opponents are mutual; exactly one drives the ball; a start only when both are ready; nobody is forgotten |
| **Unity client** `unity/Assets/script/Client.cs`, `Game.cs`, `InputMgr.cs` | state of the window, state and role of the game | buttons, RecvData, ClientClose, keep-alive | server by messages | two threads assign the same state; the game goes on after a disconnect | the window agrees with the server; what arrives is the opponent's |
| **Framing** `ghs_server.cpp` onRead, `GHS_Lobby::send`; `src/CliSocket` Session.addBuff, TcpCli.Send | the bytes of a connection, the read buffers of both ends, the last packet and its read offset | send, receive a piece, take a message | IocpService below, Lobby and the client above | the network cuts the stream anywhere; one message is taken per notification; the client raises its event without a message as well | messages arrive whole, in order, once; none stays behind for ever |
| **Keep-alive** `GHS_Player::process`, `Client.FixedUpdate` | times of the last send and receive, round trip | process, FixedUpdate, receive | the same connection | 32-bit clocks that wrap; two threads of the client | a living side never looks dead; the round trip is one |
| **TcpCSFramework** `src/CliSocket` TcpSvr, TcpCli, DatagramResolver | session table, client count, the client's session and flags, partial datagrams | start, stop, connect, close, accept, receive callbacks | the client and a C# test server | callbacks run in threads of the pool without locks; a send may be pending when its session is closed; a datagram, or a character of it, may be split or joined | what has arrived is delivered once, in order; the count is the number of sessions; a session has one receive; no callback dies of an exception |
| **TcpSession** `unity/Network` | connection, listening thread, queue of packets | connect, listen, reset | the older network layer of the client | reset races with the listening thread | no packet of the old connection in the new |
| **CmdPacket** `libnet/src/cmdpacket.cpp` | two kinds of memory, one length, read and write offset | BeginWrite, BeginRead, write and read of fields | GHS_Player, test client | one length serves both directions; sizes at the boundary; the halves of a 64-bit number | reads and writes stay inside; what is written is read back |
| **SelectIOService** `libnet/src/Select_IOService.cpp` | slots, the list of those in use, two sets of sockets | select, accept, read, write, close, send | alternative behind `IO_SELECT`; part of it (`connectPeer`) calls a signature that does not exist at this commit | the callbacks change the list the loop walks through | list, slots and the application's table agree in every state; no byte lost |
| **libbase** queue, free list, threads, timer, log, search tree, hash map | arrays and lists, some guarded by mutexes, semaphores and locks | append, remove, alloc, free, open, close, register, run, logging, insert, get | not used by the server, but for the log | counts and tests outside of the lock; exceptions inside; failing starts | no element lost or given away twice; the lock always comes back |
| **test client** `src/SrvSocket/test_client/main.cpp` | a peer | a console thread sends, the I/O thread runs | Win_IOCP_IOService | calls `send` outside of the I/O thread | as Win_IOCP_IOService |

Files, processes, the physics of the ball and the vendored code (Lua, tinyxml,
json, FastDelegate, md5) carry no logic of this kind.

## 2. Modules

| module | models | code |
|---|---|---|
| `SockBufIndex` | the arithmetic of SockBuf on (size, read index, write index), as operators without variables | sockbuf.cpp |
| `SockBuf` | a SockBuf with its memory, byte by byte; extends `SockBufIndex` | sockbuf.cpp |
| `ByteQueue` | what a SockBuf promises: a FIFO queue of bytes, which may refuse for good | (abstract) |
| `PeerManager` | the slots; extends `SockBufIndex`, since here only the number of bytes in a buffer matters | peer_manager.* |
| `IocpService` | the I/O thread, the application as an arbitrary caller, and the system; extends `PeerManager` | Win_IOCP_io_service.* |
| `SelectService` | the other I/O thread, its application and the sockets; extends `PeerManager` | Select_IOService.* |
| `MessageStream` | what a connection, and what a queue between threads promises: messages, each once, in order | (abstract) |
| `Framing` | the header of a message, shared by both directions | GHS_Lobby::send, TcpCli.Send |
| `ServerFraming` | client to server: TcpCli.Send, onRead; implements `MessageStream` | ghs_server.cpp |
| `ClientFraming` | server to client: GHS_Lobby::send, RecvData, addBuff, the reading handler; implements `MessageStream` | FrameWork.cs, Session.cs |
| `KeepAlive` | the clocks of both sides and the messages that carry them | ghs_player.cpp, Client.cs |
| `CmdPacket` | writing and reading of fields | cmdpacket.cpp |
| `Lobby` | the game server, with clients that send what they like | GHS_Lobby, ghs_player, ghs_game |
| `Match` | the server with the Unity client; extends `Lobby` | Client.cs, Game.cs, InputMgr.cs |
| `Resolver` | datagrams that end in a tag, from bytes that are decoded piece by piece | DatagramResolver.cs, Coder.cs, FrameWork.cs |
| `TcpSvr`, `TcpCli` | server and client class with their callbacks as interleaved steps | FrameWork.cs |
| `TcpSession` | the main thread and the listening thread of the older network layer | TcpSession.cs |
| `MsgQueue` | the queue between threads; implements `MessageStream` | yy_queue.h |
| `FreeList` | the free list and its lock | yy_freelist.h |
| `ThreadPool` | the class Thread | yy_thread.cpp |
| `Timer` | the timers and their run loop | yy_time.cpp |
| `Log` | the log, its lock and files | yy_log.cpp |
| `SearchTree`, `HashMap` | the containers | yy_bstree.h, yy_algorithm.h |
| `MCSockBuf`, `MCIocp`, `MCLobby`, `MCMatch`, `MCTcpSvr` | instances for TLC of one module | |
| `Net` | SelectService, CmdPacket, KeepAlive, TcpSvr, TcpCli and TcpSession side by side, which three proof modules are about | |
| `LibBase` | the seven components of libbase side by side, which one proof module is about | libbase |
| `MCServerLive`, `MCNet`, `MCLibBase`, `MCLive` | instances for TLC of many: see 3 | |
| `SockBufIndex_proofs`, `SockBuf_proofs`, `IocpService_proofs`, `Match_proofs`, `NetServer_proofs`, `NetSession_proofs`, `NetTcp_proofs`, `LibBase_proofs` | lemmas, theorems, proofs | |

The buffer is modelled twice on purpose. `SockBuf` knows what each byte is and
shows that a buffer is a queue; `IocpService` uses only `SockBufIndex`, the same
operators without the memory, and counts bytes.

An operator with a suffix (`Reset_KeepsReadIndex`, `Notify_Never`, ...) is a
deviation from the code: it stands in front of the operator it deviates from,
its comment starts with "Deviation", and nothing uses it. It documents a bug
that the property named in `PROJECT.json` under "mutants" would catch.

### How the state corresponds to the code

*SockBuf.* `buf.size`, `buf.read_index`, `buf.write_index` are the members of
the class, `mem` is the block behind `buf_`; a byte that nobody has stored
(`new` does not initialize) is `Undefined`. An exception (`THROWNEXCEPT`) sets
`thrown`; in `readMove` and `writeMove` the index is moved before it is tested,
so the object is left in the moved state, in the model as well. One action per
member function. `DoReceive` is what the system and `processRead` do together:
bytes appear behind the write index and `writeMove` takes them in.

*PeerManager, IocpService.* The array of `peer` structures is a function of the
slot for each member. `net`, `key`, `recvs`, `sends`, `rest` and `cq` belong to
the operating system: the state of a TCP connection, the completion key of its
socket, the overlapped operations posted on it, and the queue of the completion
port. `pc` is the place in `main()` and `eventLoop()`: accept, event, or a frame
of the game. One action per path of `onEventTick()` up to its return
(`EventTimeout`, `EventNetnameDeleted`, `EventOtherError`, `EventSlotFree`,
`EventShutdown`, `EventRead`, `EventWrite`), with everything `processRead` and
`processWrite` do inside: a handler runs in one thread without interruption, but
the system acts between any two of them. `players` is the table the application
keeps in `onCon` and `onDisCon`; the application reads as much as it likes, may
send to any handle it was ever given, and may ask for the connection to be
closed. `down` names the exception that ended the process. A failing
`WSARecv` or `WSASend` is a choice of the handler that posts.

*Lobby.* A session is named by its serial. `m_queue`, `m_game`, `m_other`,
`m_ready`, `m_bSer` are the members of GHS_Lobby and GHS_Player; `m_games` keeps
the GHS_Game objects, which the code never deletes. One action per message of
`GHS_Player::recv`, with the calls it makes (`enqueue`, `makeGame`, `init`,
`start`, `send`) inside. The channels `toServer` and `toClient` are the two
directions of the connection.

*Match.* `m_state` is `Client.m_state`; `started` says that `Game.m_state` is
Start or Running, `drives` is `Game.m_bSer`. One action per button, one for
`RecvData`, one for `ClientClose`. With `GuiRace` a button is two steps (send,
then assign the state) between which `RecvData` may run in its own thread.

*SelectService.* The slots are those of `PeerManager`; `m_online_peers` is the
list, `m_read_set` and `m_write_set` are what `select` has left. The loop over the
list is `pos` and `current`, one step per connection and one per callback,
since a callback closes whom it likes. The system is `net`, `inbox`, `rest`.

*ServerFraming, ClientFraming.* `wire` holds bytes; a receive takes any prefix of
it up to the size of the room. `read_buf` is the content of the peer's buffer,
`RecvBuffer` and `RecvPacket` are the members of the C# session. `Receive` is the
whole handler: take the piece, look for one message, call the reader. What the
reader has got last is `last`, and `parity` tells two equal messages in
succession apart, so that `MessageStream` sees both. `deaf` says that an exception
has left `RecvData` before the next `BeginReceive`.

*KeepAlive.* Time is counted in units; a clock shows time plus an offset, modulo
`Word`, as `GetTickCount` does. One action for `GHS_Player::process`, one for each
half of `FixedUpdate` (read the clock; compare and send), one for a received
message. Between two halves `RecvData` may run when `Serial` is false.

*CmdPacket.* `m_pData`, `m_nLen` and both offsets are the members; `m_pReadData` is
the caller's memory. `fields` and `back` are the history the properties compare. A
value is its bytes in memory. `htons` and `htonl` turn them around, a float and a
byte string are left, and a number of 64 bits goes through `hton64`, which does
what the code does: the half that becomes the lower one is a signed `long`, and or-ing a
negative one sets the other half. `hton64` and `ntoh64` are the same function.

*Resolver.* `Datagram` is the rest kept in the session, `raised` the datagrams the
event has reported. A character is the sequence of its bytes. The network carries
bytes and cuts them anywhere; `GetEncodingString` makes characters of one receive, so that
half a character at its end is read as "?" and the other half opens the next
piece. The encoding is one of one and two bytes, as the default of a Chinese
Windows. `torn` says that a receive has ended inside of a character.

*TcpSvr, TcpCli.* `table`, `count`, `isRun`, `session`, `isConnected` are the
members. A callback is a program counter (`acceptor`, `worker[c]`,
`connecting[s]`, `receiving[s]`); each access to a member the threads share is a
step, what lies between is one. An exception inside a callback is caught or not
as in the code; `fault` and `dead` record one that is not, with its cause. `sends`
counts the sends under way on a socket. `Send` posts one, from the application's thread or
from the handler of an event, where a failing one is caught by the callback
around it (`ReceiveThrows`, `Answers`); `SendDataEnd` is its callback, whose `EndSend`
throws on a socket that was closed, may throw when the other end has gone, and is caught by nobody.

*TcpSession.* `at` is the place of each listening thread in `ListenThread` and
`Process`, `mainAt` that of the main thread in `Connect` and `SendPacket`;
`m_state` is read and assigned in single steps, `lock` is the lock of the packet
to send.

*MsgQueue.* A step is a call of Windows or an access to the array: the wait, the
release of the semaphore (which returns `prev_count`), the write, the release of
the mutex. *FreeList*: the test before the lock, the test under it, and each
assignment of a link. *ThreadPool*: the loops of `open` and `close`, and each
thread's test of the flag. *Timer*: one step per slot of `run`, and what the
callbacks do in between. *Log*: entering, then `logging` under its lock as one step
with its outcomes. *SearchTree*, *HashMap*: one action per call, per outcome.

## 3. Runs

Every number below is the size of the instance, not of the theorem: see 5.

| run | instance | states | what it shows |
|---|---|---|---|
| `sockbuf` | two byte values, pieces of 1 or 2, at most 3 unread, initial size 1 | 6 thousand | every call sequence: no uninitialized byte readable, size bounded, only `readMove` throws, the buffer implements `ByteQueue` |
| `iocp_reuse` | 2 slots, 2 connections, 1 byte each way, early reuse, hard errors | 1.8 million | table of the application exact, handles unique, no accepted byte stranded: these hold even when completions of the past arrive in the present |
| `iocp_exact` | 1 slot, used by 2 connections, 2 bytes each way, no early reuse | 1.9 million | one receive, one send; bytes conserved and no buffer throws; contexts lost are bounded; posted memory untouched |
| `lobby` | 3 sessions, 2 games, arbitrary clients | 1.1 million | queue at most one, players agree with their game, start only when ready, one driver |
| `match_play` | 3 users who leave and reconnect, buttons torn by `RecvData`, shots and positions | 1.6 million | opponents mutual; running games agree; a client hears its opponent only |
| `match_cancel` | 3 users who cancel and ask again, keep-alives | 1.9 million | who waits is queued, nobody plays alone |
| `server_live` | 2 users, with disconnects, or with cancellation; 1 slot, 2 connections, 1 byte; fair | 80 thousand | two who wait are matched; two who are ready play; accepted bytes are sent or the connection ends, whose end is noticed |
| `net` | 15 cases, below | 0.6 million | framing in both directions, packets, datagrams, keep-alive, TcpSvr, TcpCli, TcpSession, SelectIOService |
| `libbase` | 7 cases, below | 0.6 million | queue, free list, thread pool, timers, log, containers |
| `live` | 11 cases, below; fair | 84 thousand | liveness of the same components |
| `iocp_stale_close` | 1 slot, 2 connections, early reuse | violation | see 6 |
| `tcpsvr_max` | 4 clients, a limit of 2, callbacks that overlap | violation | see 6 |

### Many components in one run

The components of `net`, `libbase` and `live` share no state in the code, and every property is about one of them. `MCServerLive`, `Net`, `LibBase` and `MCLive` therefore
hold one instance of each; a behaviour chooses one at the start (`moves`), which
takes its steps while the others stay as they were made. Nothing is lost: the
behaviours of a component are exactly those of the case with its name, and the
state count is the sum of the cases. A property of these modules
is a conjunction "in the case x, property y of component X"; y is stated, with its
reason, in the component's module. `LibBase` and `Net` have the constants of their components
as their own, and so are proved about as well. `MCLibBase` adds to the first that the threads of
the queue and the list are interchangeable, `MCNet` to the second that the clients of TcpSvr are,
and the framing and the resolver, whose operators are recursive functions over bounded data. `MCLive` restates the fairness of the
components' own `FairSpec` for the chosen case.

| cases of `net` | instance |
|---|---|
| server, server_unmerged | byte of 2 values, receives of up to 5 bytes, at most 12 under way; any piece, or pieces that do not end two messages |
| client | byte of 3 values, receives of up to 8, at most 14 under way |
| resolver_short, resolver_long | a tag of one character, of two; every text of up to 5 characters of one and two bytes, whose bytes include those of the tag, cut anywhere |
| alive, alive_threads | clocks modulo 8, interval 2, timeout 5, delay at most 1, time up to 6, two messages on their way (`FewMessages`); in the second, with one offset and time up to 5, time may pass inside `FixedUpdate` |
| packet | memory of 8 growing to 9, two fields: a short, four numbers of 64 bits (without the bits 31 and 39, 2^31, 2^39, -1), a string; three foreign packets |
| svr, svr_threads | 3 clients; a limit of 2, calls that do not overlap, closing and stopping; a limit of 2, everything interleaved; one send under way, to one client, in the second while two have connected (`FewSends`) |
| cli, cli_threads | 2 connects, without overlap of calls; with, the second after the end of the first; one send under way on each socket |
| threads, threads_again | sequence numbers modulo 3, one connection, both threads interleaved; two connections, calls that do not overlap |
| select | 2 slots, 3 connections, sets of 3 sockets; one connection receives a byte and is given one to send, the others come and go (`FewBytes`) |

| cases of `libbase` | instance |
|---|---|
| queue | 3 threads, 2 messages, room for 2, 4 appends |
| list | 3 threads, 3 nodes |
| pool | 5 threads at most, with starts that fail, opened twice |
| timers | 2 slots, half seconds, clock modulo 16, 4 registrations |
| logs | 2 threads, a new file every 2 lines, failing files, 3 calls |
| tree, map | 3 keys, 5 nodes; 4 keys with every choice of hash values |

### Bounds

- *Bytes.* A buffer distinguishes: the piece fits behind the write index; it fits
  after moving; it does not fit. With pieces of up to 2 on blocks that start at
  1, each occurs, also with bytes in front and at equality. The proofs of
  section 5 remove this bound.
- *Connections.* Two connections are enough for every stale-handle question: the
  old and the new user of a slot. Two slots are needed for "smallest free slot"
  and for handles that reach the wrong peer; one slot with two connections for
  the exact accounting.
- *`MaxOut` = 2* lets a send be partial and a second message queue up behind it;
  this is the case where both write buffers hold bytes.
- *Framing.* With 2 values of a byte a message of two bytes needs the high byte of
  the header, and a message can look like a header. The room of a receive holds
  more than one message and cuts one inside the header and inside the body; the
  stream holds three.
- *Keep-alive.* The modulus is a little more than the timeout, the offsets make the clocks wrap
  within the time of the run, at different moments on the two sides. The code
  has 30 seconds against 49 days: more room, not less.
- *TcpSvr.* A limit of 2 and a third client is the least where the count, the
  limit and a refusal meet; the lost update needs a client more.
- *Sends of TcpSvr and TcpCli.* One under way is enough for it to be pending when its
  session is closed or ends, which is the only thing it can meet. `live` has the client
  twice: with calls that overlap and without sends (`cli`), and the other way round (`cli_sends`).
- *Datagrams.* Two bytes to a character, one of them also a bracket, are the least
  where a cut makes a tag that was not sent or hides one that was.
- *Numbers.* One of 64 bits for each outcome of the two signs in `hton64`.
- *Queue, list, pool.* Three threads: the one inside the lock, one that has passed
  the test before it, and one that waits. Room for two: empty, partly filled,
  full.
- *Sessions.* Three: a pair and a third who meets what one of the pair has left
  behind. Two games, so that a player can be matched again.
- *Channels.* `MaxChan` bounds what one client has on the way. In `match_cancel`
  it is 3 because request, cancel and request again must be on the way at once.
  `MaxUnread` makes the server wait until the clients have read; it bounds how
  far the clients lag.
- *Keep-alives* in `Match` are sent when nothing is on the way
  (`NothingOnTheWay`): they follow ten seconds of silence, far longer than a
  message takes.

Runs with bounded counters may stop at the bounds, and so may clients who all
have left; hence CHECK_DEADLOCK FALSE.

### Fairness

`server_live`, the service: the I/O thread loops for ever (`main` has `while(1)`), hence weak
fairness of `IoThread`. For the system: a posted send completes on a connection
whose remote side goes on taking data, a posted receive returns once the remote
side has closed, and operations on a closed or reset socket are cancelled. No
fairness on incoming data, connections, or on which outcome a post has.

`server_live`, the lobby: the server handles what has arrived, a client handles what has
arrived, and a button that has sent also assigns. Nobody has to press a button.

`live`, by component: framing, the receive and the keep-alive of the other side
(both sides send one every ten seconds), nothing else; TcpSvr, the accept,
receive and send callbacks the system has promised; TcpCli, the same for connects, receives and sends, and a `Close` once
begun; TcpSession, the main thread inside `SendPacket`, time, and strong fairness
of the listening thread, which sleeps and tries again for the lock; MsgQueue, a
thread inside a call goes on, and somebody polls; Thread, the owner inside `open`
and `close` goes on and the function the threads call returns; Timer, time and
the loop; Log, a thread inside `logging` goes on; SelectIOService, the loop.

## 4. Properties worth a word

`NoStrandedBytes` (IocpService). `send` puts bytes into the backup buffer and
posts a wake-up only if `wsa_send` is false; `processWrite` clears the flag when
both buffers are empty. Nobody else looks at the backup buffer. The property
says that whenever either buffer holds bytes a completion is on its way, and it
survives early reuse: a stale write completion of an old connection only makes
the thread look once more.

`PlayersAreThePeers` (IocpService) relates the application's table to the slots
in every state, through failing posts inside `registerSocket`, closes inside the
read callback, and cancelled operations that arrive after the slot was freed.
The application may not see onDisCon twice, because `GHS_Lobby::removePlayer`
asserts.

`BytesConserved` (IocpService) counts the bytes that the system has reported against those in
the two buffers, with the completions that are still in the queue.

`OneDriver`, `PlayerKnowsItsGame`, `StartOnlyWhenReady` (Lobby) hold for clients
that send anything in any order. `OpponentsMutual`, `RunningGamesAgree`,
`OnlyOpponentHeard` and `WaitingIsQueued` need the client as
it is: they rest on which buttons the window shows in which state.

`StreamsDelivered` and `StreamsMakeUp` (framing). Safety: what the readers act on
is what was sent, a refinement of `MessageStream`. The code takes one message per
notification although a piece may hold several, so the reader lags: while no
piece ends two messages nothing is left behind (`NothingLeftBehind`), and in
general the keep-alives go on pushing (`NothingRots`).

`SelectListRight` (SelectService) is asked in every state, also inside the
callbacks, because those are where `closePeer` takes an element out of the list
the loop walks through.

`QueueStreamSpec` (MsgQueue). `append` writes to the place that the semaphore's
previous count names. It is right only because `remove` waits for mutex and
semaphore together; with one after the other the count would lag behind the array.

`SessionThreadsAgree`, `SessionTableRight`, `ClientSessionRight` each consist of
what holds for every interleaving of the callbacks and what holds when they do
not overlap (`Serial`). The difference is the list of races of section 6. Callbacks can
die even without overlap: `CallbacksSurvive` names the causes that remain, a send
that was pending when its session was closed or ended, and in the client a connection
that is refused or fails.

`PacketsWhole` says of 64-bit numbers which ones come back: all but those with bit 31 or 39
set, and of these only -1 (`Exact`). It is an equivalence, so it also says
that the others do not.

`StreamsDelivered`, for the datagrams: characters are delivered as they were sent while no receive ends
inside of one. Whatever the cuts, the bytes are those that were sent, in order, but for first bytes that
became "?" (`NothingLost`), every datagram ends in the tag (`EndsInTag`), and two are glued only
behind an empty one (`GluedIsEmpty`).

### Where these properties stop

- *Torn buttons.* With `GuiRace` the handler of "Automatch" sends and then
  assigns `WaitingToMatch`, and a `GameInit` that arrives between the two is
  overwritten, so that the window waits for an answer it has already had. `WaitingIsQueued`
  names this case (the server has the game) and is proved with torn buttons, while
  `match_cancel` checks it with atomic ones. `NotBothWaitForever` is checked with
  atomic buttons and fails with torn ones.
- *Cancellation.* `OpponentsMutual`, `RunningGamesAgree` and `OnlyOpponentHeard` are
  checked and proved without it. If "Cancel Match" crosses `GameInit`, the user sees
  "Connected" after having a game, can ask again, and is given a second opponent
  while the first still points to the player; `m_ready` is never reset. `StartOnlyWhenReady`
  takes it as the code keeps it, so an old ready message that starts a second game does not
  violate it, nor does the crossing itself violate `WaitingIsQueued` or `NobodyPlaysAlone`.
- *Leaving the queue.* `OnDisCon` does not take a player out of the queue. The next one is matched
  with it and waits alone; no property forbids that, since no text of the
  repository does.
- *Early reuse.* `OneRecvOneSend`, `BytesConserved` and `PostedMemoryFixed` need that
  no completion of a closed connection is handled after its slot has a new user
  (`ReuseRace` = FALSE), and so do not find what goes wrong otherwise. The code accepts and takes one completion in turn, so the
  window is short but open: see 6.
- *Framing.* The client's handler must have read the whole packet (`ReadsBody`
  is all known commands): the driving client ignores `Synch_Pos` and leaves its
  rest, which an event without a new packet would read as a command. The first
  piece must hold a message (`WholeFirst`): before the first packet the handler
  reads a null array, and the exception leaves `RecvData` before the next receive.
- *Keep-alive.* A frame begins at least once per unit of time, and the timeout is longer
  than an interval, a delay and a frame or two (`KeepAliveAssumption`; 30, 10 seconds in the code).
- *CmdPacket.* A `long` has 32 bits, as on Windows. A packet is smaller than the range of the `short` its lengths are written in, and
  a field has at least a byte, since a string carries its zero (`CmdPacketAssumption`).
- *Datagrams.* One encoding of one and two bytes. A surrogate pair of Unicode and a sequence of UTF-8 can be
  torn in the same way, but decode to other substitutes.
- *TcpSvr, TcpCli.* The hash table is taken to be atomic, the server is started
  once. Liveness is asked until the callback of a send dies. Without overlap the count is the table; with it an update is lost. In the
  threaded case of the client "Connect" is not pressed while a connect is under
  way (`Patient`), at most one receive callback per socket is in the middle, and
  closing a session whose socket was reset is taken not to throw.
- *TcpSession.* A flush sends whole packets; a connect follows an end. `FreshStart`
  holds where calls do not overlap, `SocketIsThere` for one connection.
- *Thread.* That every thread has ended and every handle is closed is asked after
  one open, no failed start (`Regular`), and no close but the destructor's; a second
  close waits for 2^32-1 handles.
- *Timer.* The clock never steps back. That a late timer is called needs a clock that does not pass its whole
  range between two frames (`ClockSuffices`). Exactness (`TimersExact`) is checked and
  proved without callbacks that register timers, liveness is checked with them; its
  proof needs that the 32-bit word holds every interval.
- *SelectIOService.* The remote side reads, so a socket can always be written; the
  application does not close the peer its `onDisCon` is about; liveness assumes
  that the sockets fit into the sets (`FD_SETSIZE`), that a slot is free, and that `accept` fails with
  nothing but would-block (any other error is an exception, `socket_wrap.h` line 144). `send` to a
  handle that is closed leaves its bytes in the free slot, which the next user's
  registration resets.

## 5. Proofs

TLAPS checks the following for every value of the constants. No theorem assumes
more than the named assumptions of the modules, which TLC evaluates in every
run: sizes, lengths and bounds are natural numbers (`SizeAssumption`,
`PeerAssumption`, `ServiceAssumption`, `LobbyAssumption`), and the mark for an
uninitialized byte is not a byte (`UndefinedAssumption`).

**SockBuf** (`SockBufIndex_proofs`, `SockBuf_proofs`). `SockBufIndex_proofs`
states once what each operator returns: every operation keeps the indices in
order, `makeSpace` keeps the content and makes enough room, and therefore
`apendBuf` never throws. `SockBuf_proofs` adds the memory. "Only written bytes
are readable" is not inductive alone: `makeSpace` copies by index, so one has to
know that the block is as large as `size` says and that the indices are in order;
that the size is bounded needs the bound on the unread bytes. The invariant
`IInv` is the conjunction: types, the block has the claimed size, the size is
bounded, and, until an exception, indices in order, unread bytes bounded, content
written. From it follow

- `TypeCorrect`, `IndicesStayInOrder`, `NobodyReadsUndefined`, `SizeStaysBounded`;
- `InsertingNeverThrows`: only a `readMove` beyond the content throws;
- `ImplementsQueue`: `Spec => QueueSpec`, the refinement to `ByteQueue`, where the
  queue is the content between the indices. Each action maps to an enqueue, a
  dequeue, a clear, a refusal or (growing, moving) a stutter.

**IocpService** (`IocpService_proofs`). Proved with early reuse and hard errors
allowed, so also for the histories behind the findings of section 6:

- `TableIsExact` (`PlayersAreThePeers`), `HandlesAreUnique` (`HandlesReachOne`),
  `NothingIsStranded` (`NoStrandedBytes`), `TypeCorrect`.

`PlayersAreThePeers` is not inductive: `closePeer` removes by serial, so serials of
slots in use must differ. `SlotsMatch` says more: the slot is the completion key of
its socket and its serial is the number of the connection, and `Numbered` that
`m_serial` counts the connections made. `NoStrandedBytes` needs what the code
means by `wsa_send` (`SendsUnderWay`): whoever has bytes has it set, and with it
set a write completion is pending or queued. `BuffersInOrder` holds for all slots,
used or free, and makes `readMove` and `writeMove` total where the model uses them.

**Lobby** (`Match_proofs`), for any number of sessions and clients that send
anything in any order:

- `QueueStaysShort`, `GamesAgree`, `NobodyStartsUnready`, `OneOfTwoDrives`,
  `TypeCorrect`.

The four properties are inductive together: a start goes to the players of the
game object while the test was made on `m_other`, so `NobodyStartsUnready` needs
`PlayerKnowsItsGame`; and `OneDriver` survives a second match because no player has
a game with a number that is still to be given, again from `PlayerKnowsItsGame`.

**Match** (`Match_proofs`), for any number of users, sessions, games and messages
on the way:

- `NobodyAlone` (`NobodyPlaysAlone`), `LobbyStillRight` (the four properties of the
  lobby), `ClientTypes`: whatever users press, cancel or leave, with torn buttons;
- `WaitersQueued` (`WaitingIsQueued`) for the same;
- `Mutual` (`OpponentsMutual`), `OpponentHeard` (`OnlyOpponentHeard`) and
  `GamesRunAgreed` (`RunningGamesAgree`) for `MayCancel` = FALSE, with disconnects
  and torn buttons.

The hypothesis is that of section 4, "Where these properties stop": without
it the properties fail, in the model as in the code.

All of it rests on one argument. `enqueue` does not look whether the player is
queued or in a game. What keeps it from being matched with itself is the order of
its messages: `AsksInTurn` says that in the channel of a client two requests have a
cancellation between them (`Alternate`), that one who is in the queue has a
cancellation before its next request (`CancelledBefore`), and that one whose window
offers "Automatch" has one behind its last (`CancelledBehind`). Reading a message
takes one end of this, pressing a button adds to the other. A torn button is
covered because the window offers nothing until it has assigned (`MayAsk`).

`WaitersWait` adds for the client that waits, between two buttons: a request of it is not followed by a
cancellation, or there is no cancellation on the way and it is queued, the answer
is in its inbox, or a button was torn and the server has its game. The last stays true because a game is
never taken from a player (`GamesLast`). Without cancellation `GamelessAsk` follows from the same
invariant: whoever may ask, has asked or is queued has no game, hence is matched at
most once per session. Therefore what a player has is never overwritten (`Grows`),
and a message that was true when it was sent (`TrueTo`: a start with the role of a
ready player with a ready opponent, a shot with the name of the opponent) is true
when it is read, however late. Three of the four properties are corollaries.

**IocpService, exact accounting** (`IocpService_proofs` too), for any number of slots,
connections and bytes, with posts and operations that fail, and under the
hypothesis `ReuseRace` = FALSE, that no slot is given away before the completions
of its last user have been handled:

- `OneOfEach` (`OneRecvOneSend`), `NothingLost` (`BytesConserved`, with it that no
  buffer throws), and `PostedIsFixed` (`PostedMemoryFixed`).

To the invariant above it adds, per connection, `ReadOK`: the receive is pending
for the whole room of the buffer, or it is in the queue, alone, with bytes that
fit; and `WriteOK`: nothing is under way and `wsa_send` is false, or the whole of
the first buffer is pending, or one completion is in the queue with the bytes it
has sent. `Addressed` says that a completion carries the slot of the connection
that posted it, `PastIsOver` that a slot in use has none of another connection,
`Fresh` that a connection to come has no history. The hypothesis is used once,
where an accepted connection enters a slot; every other step preserves
the invariant whatever the setting.

`LeaksBounded` (`LeakBounded`), under the same hypothesis, is about the contexts that
are lost: a failing post and a completion that finds its slot free each lose one.
The invariant `LInv` adds that each direction of a connection has at most one
operation, posted or completed, also after the connection has closed (`GoneAlone`),
that a connection is open exactly while a slot holds it (`OpenIsHeld`), and the
account: what was lost, and the operations of closed connections that are still to
come back, are together at most two for each closed connection. Closing opens
an account of two, a completion that is dropped moves one from the second
part to the first.

**Net** (`NetServer_proofs`, `NetSession_proofs`, `NetTcp_proofs`). In a behaviour of `Net` one component moves. Each
has an inductive invariant about its own variables, shown to survive a step of that component, and
a short theorem per component lifts it to `Spec`. Callbacks that overlap and callbacks that do
not are two instances of one module, with different invariants.

- `SelectListCorrect` (`SelectListRight`), for any number of slots, connections and bytes, and sets
  smaller than the number of sockets. `SelectIInv` says where the loop stands: the list names
  the slots in use, each once (`ListRight`), so that removing at a place removes exactly
  one slot whoever the callbacks close; a slot in use has a connection of its own that exists
  (`SlotsRight`), so that a connection just accepted is in no slot yet (`FreshConns`); between
  removal and `onDisCon` the table of the application lacks exactly `current` (`TableRight`). The
  bytes of a connection are those of its slot's buffers (`BytesOf`), which need every buffer
  in order, also in free slots, because `send` writes to whoever is asked for.
- `PacketsCorrect` (`PacketsWhole`), for any sizes, fields and foreign packets. `hton64` applied twice
  is the identity exactly on the numbers `Kept` names, which is a lemma of its own about eight bytes. That what was written
  is read back is not inductive over bytes: one has to know where each field lies. The
  invariant `PacketIInv` has a witness for it, a function `lay` from fields to places
  (`LaidOut`): each field lies behind the one before, as its image in network order; the writer
  stands behind the last (`Written`), the reader in front of the next (`ReadSoFar`). A field
  that only its length fitted leaves `half` set and the layout as it was.
- `SessionTableCorrect` (`SessionTableRight`), for any set of clients and any limit. On threads
  (`SvtIInv`): a session that is in the table has a posted receive, or a callback at work, or
  the accept callback that is about to post one, or a socket that has failed (`SvtHeard`). Without
  overlap (`SvsIInv`): nobody is inside, or one of accept, one receive, close or stop is, at a
  place that says by how much count and table differ (`SvsClosePhase`, `SvsAcceptPhase`) and
  which events each client has had. That is `SvsAlive`; once a send's callback has died
  (`SvsDead`) nothing moves but clients and their connections, and what the property says of
  the tables was true before.
- `ClientSessionCorrect` (`ClientSessionRight`), for any number of sockets. On threads
  (`CltIInv`): who is online and between two steps of the main thread has a session whose socket
  is open; that needs that one connect is under way at a time, which `Patient` gives.
  Without overlap (`ClsIInv`): `posted` counts receives per pair of socket and session, and
  that a receive being served was posted needs each to have an origin (`ClsPosted`, a witness as for
  the packets); and as long as no two calls have overlapped, the client is at rest, connecting,
  serving one receive or closing, unless a callback has died of one of the three causes (`ClsAlone`). `overlapped` only ever goes from false to true, and
  what `ClientSessionRight` says when it is true is what `ClsBase` and `ClsPosted` say alone.
- `SessionThreadsCorrect` (`SessionThreadsAgree`), for any width of the sequence number and any
  bounds. With one connection and both threads at any place (`ThrIInv`): the session is before,
  connecting, connected, failed or after, and each says where the listening thread can be and what
  the game has been told (`ThrBefore` to `ThrAfter`); the lock belongs to the thread between
  taking the number and putting the packet into the queue (`ThrLock`); the queue continues
  the numbers sent one by one, and while the lock is held `m_seq` is one ahead of it
  (`ThrSends`). For any number of connections without overlap (`AgnIInv`): at most one listening
  thread is at work, and a session that has ended is empty unless that thread is still to
  close it (`AgnFresh`).
- `KeepAliveCorrect` (`KeepAliveTruthful`), for any word, interval, delay, number of messages and
  what the clocks show at first. `AlvIInv` has the times behind the wrapped numbers: that of
  the last send is `sentAt`, that of the last receive a witness (`AlvHears`), that of
  a message is in it (`Carries`). A side is silent no longer than an interval, the frame to come and,
  on threads, the frame it is in (`Gap`, `AlvSends`); the first message that is still on its way
  follows the last one heard by as much, and is a delay old at most (`Follows`, `OnTime`).
  Together that is less than the timeout, and less than a word, so that the wrapped
  difference is the true one (`MinusExact`, proved from the definition of remainder). The
  client that sends between reading the clock and comparing makes the difference
  wrap; then it sends once too often, and is not silent.

**libbase** (`LibBase_proofs`). A step of `LibBase` is a step of each component or leaves
it as it is (`StepOfEach`), so each has an invariant of its own:

- `QueueAgrees` (`QueueInv`) and `ImplementsStream` (`QueueStreamSpec`), for any threads,
  messages and size: the mutex belongs to the one thread between lock and
  unlock, also after an exception, the semaphore agrees with the array, and every
  behaviour is one of `MessageStream`. Between the release of the semaphore and the
  write the count runs ahead of the array, between the wait and the read behind
  it; `HeldByPlace` says by how much, and `SemaphoreRoom` that it stays in range. The
  refinement maps the array up to `Held` to the channel: the write is a put, the
  read a take, and every other step stutters.
- `ElementsHaveOneUser` (`FreeListInv`), for any threads and nodes. The free list is the
  least set that holds the head and the successor of each member but the last
  (`Listed`), so that taking the head off and putting a node before it are statements
  about sets, without recursion along the links. `ListIInv` adds what the thread
  under the lock has read (`AtWork`), that no two links point at the same node and none
  at the head (`ListInOrder`), and that a node on its way to the list is in one pair of
  hands (`Hands`).
- `PoolIsClosed` (`PoolInv`), for any number of threads and of starts that fail. The
  invariant follows the loops of `open` and `close`: the threads that were started are
  those of the handles below the counter, with those already closed (`Accounted`).
- `LogIsInOrder` (`LogInv`), for any threads, limits and time stamps and whatever fails. One
  thread is inside the lock (`OneInside`); a thread that is about to count has written
  the line it counts (`Counted`); and no line of a file is later than the time that
  thread carries (`InTime`), so that its own line comes last.
- `TimersRight` (`TimersExact`), when the word holds every interval. Each timer that is
  wanted has one slot and no slot another (`OneSlotEach`), so that a registration that
  finds none free has found a bijection; and while `run` is in its loop no stamp is
  later than the time it has read (`InRun`), so that the unsigned difference is the
  true one.

### What is only model-checked

- Liveness: the prover supports neither fairness nor ENABLED.
- `StreamsDelivered`, with it the datagrams, and `ContainersFind`. Their modules compute with recursive
  functions over texts, streams or paths, or relate a concatenation to what was sent; that such
  a function returns the same for every input is induction over data, which no
  installed prover can do.

## 6. Findings

Two runs end in a violation on purpose:

1. *A cancelled operation closes the next connection* (`iocp_stale_close`).
   `onEventTick` finds the peer by the completion key, the slot. After
   `ERROR_NETNAME_DELETED` it calls `closePeer(index, p->serial)` with the serial
   that is in the slot now, so that the test of the serial can not fail;
   `Win_IOCP_io_service.h` line 85 says that array and serial guarantee uniqueness.
   It needs a connection that is accepted while a completion of the slot's last
   user is still to come; `newPeer` takes the smallest free slot, so the slot freed
   last is often the one given away next.
2. *More clients than allowed* (`tcpsvr_max`). An accept and a close that overlap
   lose an increment of `_clientCount`, and the limit is tested by equality with it;
   `FrameWork.cs` line 54 calls `_maxClient` the most connections allowed.

Met while modelling, and left as observations:

- *64-bit numbers.* `hton64` and `ntoh64` (`cmdpacket.cpp` lines 11 to 38) or the half
  that becomes the lower one to the other as a signed `long`: 0x0000008000000000 is
  written as eight bytes of which four are 255, and read back as -1. The numbers with bit 31 or
  39 set do not come back, but for -1 itself.
- *A pending send.* `SendDataEnd` of TcpSvr and of TcpCli (`FrameWork.cs` lines 507 and 729)
  calls `EndSend` outside of any `try`: if the session is closed, or its other end
  resets it, while a send is pending, the exception ends the process. No two
  callbacks need to overlap for that.
- *Characters across receives.* `ReceiveData` decodes each receive by itself
  (`FrameWork.cs` line 429). A character of two bytes that is cut becomes a "?" and
  whatever its second byte begins, which may be a tag that was not sent or hide one that was.
- *Free list.* `clear` (`yy_freelist.h` lines 95 to 111) moves on before it deletes: a list of
  one node leaks it; of a longer one the second node is deleted and then read.
- A successful completion of a slot's last user is handled as one of the present
  one, and `processRead` then posts a second receive, against the comment in
  `peer_manager.h` line 22; the same early reuse as above.
- `closePeer` closes the socket at once; `io_service.h` line 50 says that what is in
  the send buffer is sent.
- The client raises `ReceivedDatagram` for every receive, complete message or not
  (`FrameWork.cs` line 785), and reads a null array before the first.
- `IsConnected` of TcpCli stays true on some paths after the connection has ended.
- A tag that arrives alone is glued to the datagram behind it (Resolve).
- TcpSession's protocol error ends the thread without `OnDisconnect` and leaves the
  socket open.
- `Thread::close` after a failed start waits for a handle that is none; a second
  close waits for 2^32-1.
- An interval of a timer above 71 minutes overflows when it is multiplied. A timer
  that a callback registers in a later slot is called at once: its stamp is later
  than the time the loop has read, and the difference is unsigned. The static
  `last_time_stamp` is never set again, so the test for a whole second delays only
  the first calls.
- A search for a key that is absent answers with a default value that is also a
  legal one.

## 7. What is not modelled

Of the parts in section 1: the physics of the ball and the thirty seconds of a
game (a game that has ended sends nothing, which the model allows at any time);
drawing, addresses and ports. The wrappers of sockets, files, processes, shared
memory, YYTask, YYVar and yy_utility: calls of the operating system and conversions. The
second thread of the test client, which calls `send` against the rule of
`io_service.h` that there is one thread. `SelectIOService::connectPeer` and
`CBsTree::remove`, which name functions that do not exist. `CBsTree::clear`, which leaves
`m_pRoot` pointing at a deleted node. Coder but for the decoding of a receive, the forms of the
example programs, `CmdPacket::CloneFrom`, and the C# CmdPacket and NetPacket, whose
bytes no property here depends on.

Vendored code: Lua, tinyxml, json, FastDelegate, md5 and lua_tinker are about four
fifths of the lines of the repository and are third-party. What the models cover is
therefore a small share of all lines, and most of those the project wrote.

## 8. Plan

Done: the components of section 1 with their safety and, where they wait for
something, liveness; four refinements (SockBuf, both framings, the queue against
their abstract specifications); the proofs of section 5.

Left, in this order:

1. That `ServerFraming` and `ClientFraming` implement `MessageStream` for every size:
   the header is a division, the buffer a suffix of a concatenation.
2. `SearchTree` and `HashMap`, with the least set of a path as in `FreeList`.
3. `Match` over the explicit lag of the framing.
