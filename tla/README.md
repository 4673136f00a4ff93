# neofrp, verified

TLA+ models of neofrp, a reverse proxy: a client behind a firewall connects to a
public server over TLS/TCP or QUIC, names the server ports it wants, and the
server relays every connection on these ports to a local service of the client.
The models follow the Go code in `src/`; `PROJECT.json` maps each definition to
the lines it stands for.

## The system

| Component | Code | State | Operations | Talks to |
|---|---|---|---|---|
| TCP stream multiplexer | `common/multidialer` 173-551 | stream map, ID counter, accept queue, closed flag per session; buffer, error, flags per stream | open, accept, close a session; read, write, close a stream; the read loop | the TLS connection; its peer |
| QUIC adapter | `common/multidialer` 116-171 | none of its own | passes calls to quic-go | quic-go |
| Control plane | `server/server.go`, `server/control.go`, `client/client.go` 26-125, `client/control.go` | current configuration, session contexts, control channel, last keep-alive | accept, handshake, negotiate, register, control loop, cleanup, reload, shutdown | control stream; session lists |
| Keep-alive | `server/control.go` 260-348, `client/control.go` 160-242 | time of the last keep-alive, three tickers | send, handle, check | control stream |
| Reloads | `server/server.go` 99-105, 124-203 | the current configuration, debounce timer, signal channel | watch, debounce, SIGHUP, parse, store | control plane |
| Configuration | `common/config`, `common/parser` | none | reading, look-ups, access rules, validation | control plane |
| Session lists | `common/constant/type.go` 63-124 | list of sessions of a port, one per port | push, remove, round-robin | control plane writes, port listeners read |
| TCP port listener | `server/listener.go` 18-117 | round-robin index | accept, pick, open, write the header, relay | session list; multiplexer |
| UDP port listener | `server/listener.go` 119-271 | round-robin index, source map | receive, look up or open a stream, write; a response goroutine per stream | session list; multiplexer |
| Client relay | `client/client.go` 163-400 | none shared | accept a stream, read the header, dial the service, copy both ways | multiplexer |
| TLS, templates and JSON, command lines, debugging aids, tests | the rest | - | - | - |

What makes it hard:

- **Multiplexer.** One read loop serves all the streams of a session; callers
  write and close a stream from different goroutines; a stream ends when the
  *peer's* zero-length frame is read; a session may close, or lose its
  connection, under all of it. Correct means: a stream is a FIFO that loses and
  repeats nothing; io.EOF means the end; IDs never collide; nobody waits for
  ever; nothing leaks.
- **Control plane.** Client and server go through a handshake while the
  configuration may be reloaded, the client may die at any point and the
  server may be told to stop. Correct means: only authorised sessions get a
  port's traffic; every path out of `handleSession` takes the session out of
  the lists; a close is honoured; a dead client is noticed; a shutdown ends.
- **Port listeners.** They use the lists while sessions come and go; one loop
  serves all users of a port and waits for clients in the middle of it; the UDP
  listener shares its source map with goroutines that end on their own. Correct
  means: connections are spread evenly; everybody is served or turned away; a
  source has one stream; nothing leaks.
- **Relays.** Four copies and two handlers serve one connection, and each of them
  may end first. Correct means: what arrives is in order and has no holes; a clean
  end means that all has arrived; both sides are released; nothing blocks for good.
- **Time and reloads.** Tickers, a debounce timer and two goroutines that reload
  are unsynchronised. Correct means: a live client stays, a dead one is found; the
  last file wins.

`PROJECT.json` lists each hazard at its line, with the properties that cover it.

## The modules

| Module | What it is |
|---|---|
| `TCPMux` | The multiplexer: both ends of a session, everything they share |
| `MCTCPMux` | How many streams each caller opens and accepts, for TLC |
| `StreamPipe` | What a stream promises its callers, one direction: a pipe with an end |
| `TCPMuxProofs` | Type correctness and uniqueness of stream IDs, proved |
| `TCPMuxStreamProofs` | What a stream and a Close promise, proved |
| `StreamPipeProofs` | Order of a pipe, proved |
| `SessionList` | The list operations, one operator each |
| `RoundRobin` | A session list under its users |
| `TCPListener` | The accept loop of a TCP port, on top of `RoundRobin` |
| `TCPListenerProofs` | Even distribution, the step from the loop to `RoundRobin`, nothing leaks, proved |
| `Relay` | One TCP connection end to end: user, two relays, service |
| `RelayProofs` | Order, completeness and clean ends of a relayed connection, proved |
| `UDPListener` | A UDP port end to end: receive loop, response goroutines, the client's `handleUDPStream` |
| `UDPListenerProofs` | Streams and map entries have somebody to clean them up, proved |
| `ServerConfig` | Configurations as data: reading, look-ups, access decisions, validation |
| `ControlPlane` | Sessions from accept to cleanup, on top of `ServerConfig` and `SessionList` |
| `MCControlPlane` | Configuration files and clients for TLC |
| `ControlPlaneProofs` | What the lists hold and who may run, proved |
| `KeepAlive` | Keep-alives in one direction, with a clock |
| `KeepAliveProofs` | Both of its properties, proved |
| `ConfigReload` | The goroutines that reload the configuration |

They stand on each other as the code does. `TCPMux` implements `StreamPipe`, and
`Relay`, `UDPListener` and `ControlPlane` take their streams to be such pipes.
`TCPListener` opens a stream and writes its header, and `Relay` starts where it
ends. `ControlPlane` puts sessions on the lists from which the listeners pick;
`KeepAlive` and `ConfigReload` look into two things that are single steps there.

Mutated definitions, each the way a slip in the code would have it, stand right
before the definition they change and are marked `mutant`; no specification uses
them.

### TCPMux

The state is that of the Go objects: `streams[e]` is the sync.Map of endpoint
`e`, `st[p]` the fields of the stream object `p`, `acceptChan`, `nextStreamID`
and `wire` what their names say, `closePc` the progress of the closeOnce body of
`Close`, `rl`, `frame` and `offer` the read loop and its locals. An action is what
one goroutine does between two points where another one can matter:
`OpenStream` is two (test of `s.closed`; the rest), `Write` one per frame plus
its first test, stream `Close` two (the flag, the frame), session `Close` three
(flag, connection, Range), the read loop three (read, dispatch, queue).

Data are positions: a frame says "the n-th frame of its stream", which is enough
to see loss, repetition and reordering. A Read returns any number of whole
frames; that it may also return a part changes no property here. Frames of
different streams share the wire, in order.

The callers may do what the interfaces allow, from several goroutines. In
particular a stream may be closed in the middle of a Write, as both relays do
(`client/client.go` 290-312, `server/listener.go` 92-113), in every run and in every
theorem. `late` marks the frames that follow the zero-length frame of their own
stream, and `over` counts them; both are history, the code has neither. A second
stream that such a frame makes at the peer is called a *ghost*, and the first one
under an ID its *origin*. `MayClose` is what callers take care of: who opened a stream
has written its header before he closes it, unless writing failed. `MaxOpens` and
`MaxAccepts` say how many streams the caller of each end opens and accepts;
neofrp's server accepts the control stream and no other (`server.go` 247), its client
accepts in a loop (`client.go` 163-193). `SessionClose` lets the caller of either end
close the session. A connection that an end closes without having read all is
reset and may lose what it carries, in either direction (`Reset`, `Lose`); with
`TransportLoss` it may break at any time. `AcceptStream` leaves out the return with an
error, which changes nothing.

### StreamPipe

The direction from `e` to its peer is a pipe: writes `1, 2, ...` that come out once
and in order, and an end. io.EOF may be returned after the writer's Close, or when
the session went down and nothing is missing; any other error only when it went
down. `TCPMux!ArePipes` maps each direction of a stream to it with `INSTANCE ...
WITH`: `pipe` is what is in the frame on the wire, in the hands of the read loop
and in the buffer, as far as the reader will still get it. What StreamPipe adds to
TCPMux's own properties is that errors and data agree over time: an end is never
followed by data, no Write succeeds once its reader was told io.EOF, and no error
comes from nowhere. Late frames are no part of a pipe, and the mapping ends where a
ghost writes under the same ID or the connection fails: the code promises nothing
there.

### ServerConfig, SessionList, ControlPlane

A session is one run of a client. `sv[s]` is where the server's `handleSession`
stands and `cl[s]` where the client's `Run` does; both ends share the control
stream, a FIFO in each direction (`c2s`, `s2c`), which is what TCPMux shows a
stream to be. A handshake message is one item: `io.ReadFull` waits for all of
it, so a part of one is the same as none. After the handshake the items are
single bytes and a Read takes up to `ReadMax` at once. `portMap` holds the lists;
`registered[s]` holds the elements the cleanup will remove. `cfg[s]` is the
configuration `handleSession` was given, `currentConfig` the one in force.
`negotiated[s]` maps the places of the accepted ports in the client's request to
the ports, so that an element of a list is the session with such a place.

A configuration file is what its JSON says, not yet what the program makes of it:
a port list may have items that `UnmarshalJSON` drops, and `ReloadConfig` goes
through `ParseServerConfig` and `ValidateServerConfig` before anything is stored.
The properties of access speak of the *files*: who may use a port is what the
administrator wrote. Clients may be neofrp's own, whose configuration went through
`ValidateClientConfig` and whose ports are cut to two bytes on the wire (`OnWire`),
or another version that the handshake refuses. A port list is a function on places
in the file: its order matters (the first entry of a port wins), and an item that is
dropped leaves the order of the others. What TLC is given and the proofs assume
of files and clients is `FileAssumption` and `ClientAssumption`, the forms that JSON and
the one-byte count of the handshake leave, and `ConfigAssumption`: a server starts
with a valid file. `KeepAliveTimeout` may fire whenever a monitor
runs, since keep-alives may be late on a live connection; it *must* fire only
when no keep-alive can come any more (`Silent`). The server's keep-alives to the
client are left out: the model lets the client leave for any reason at any time,
which covers what it does about their absence. `ClientVanishes` is a
crash of the client or of its network, at any point.

`Stall` is a client that stops reading while relays write to it, until `Drain`, if it comes.
From then on `Waits(s)`: the `handleSession` that returns is in `controlConn.Close()`
(`sv[s] = "closing"`), which needs `writeMu` and room on the connection; the cleanup is
deferred behind it.

### RoundRobin, TCPListener

`RoundRobin` is a list with its three users, and counts the picks of each element
since the list last changed. `TCPListener` adds the accept loop as it is: `pc` and
its locals `cur` (conn) and `comp`, so that a session may leave the list, die,
stall or run into its limit between the pick, the OpenStream and the write of the
header. `WaitsForStream` is the difference between the transports: QUIC's
OpenStreamSync waits for a stream to be free, `tcpSession` fails once its IDs are
used up.

### Relay

`Sides` are the server's relay, next to the user, and the client's, next to the
service; the code of the two is the same but for the order of the deferred closes
and for what the client does before (accept, header, dial). `copyOut` and `copyIn`
are the two `io.Copy` of a relay with the chunk each holds, `out` and `in` the
local socket, `pipe[x]` the stream towards `x`. Applications may close one
direction (`Fin`), or all (`Leave`), at any time; the session may end at any time
with any part of what is under way; the client may be stopped. A socket that is
closed with input unread resets the connection, as operating systems do
(`SeeEnd`).

### UDPListener

The receive loop (`pc` and its locals), one `handleUDPStreamResponse` per stream
(`handler[p]`), the map between them, sessions that register, leave and die from
outside, and at the other end `handleUDPStream` with its two goroutines
(`client[p]`, `inbound[p]`). `HasDeadline` is the difference between the
transports: QUIC's stream has SetReadDeadline, tcpStream has not. The loop of the
response goroutine is there step by step: the look at `lastActivity`, the deadline, and
a Read that returns data, a timeout or an error. Time comes in ticks of one read
deadline: `since[p]` counts them from the last response up to one more than
`IdleLimit`, `deadline[p]` says whether the one of the running Read has passed. A
session may stall here, too: the receive loop waits in its Write, and over TCP the
goroutine in its Close.

### KeepAlive

A discrete clock and one direction: the sender's ticker, the receiver's main loop
and its monitor with a ticker of its own. The constants are the two periods and
what the environment may add: `MaxDelay` from a tick to `lastKA.Store`, `MaxSkew`
between the starts of the two ends, `MaxLag` of the monitor.

### ConfigReload

`reload[r]` is where each goroutine is in `reloadConfig`, and `newConfig[r]` the
version it has parsed. The file may be written in place, which makes an event, or
replaced by a rename, which ends the watch: the loop reacts to Write and Create
only, and a watch of a file sees no Create for its successor. A file may be invalid
at any time, as one half-written is.

## What is checked

Runs that pass:

| Run | Properties | Distinct states | Bounds |
|---|---|---|---|
| `mux_stream` | `TypeOK`, `InOrder`, `NothingLost`, `NoLeak`, `GhostsAreLate`, `OpenedIDsUnique` | 1.6 M | a stream of each end and ghosts, IDs up to 2, Writes of up to 2 frames, 1 frame on the wire, closes at any point of a Write |
| `mux_close` | `EOFComplete`, `CloseReleasesStreams`, `EOFIsFinal`, `ArePipes`, `CloseSpreads`, `Delivered` | 0.2 M | one stream and a ghost, one frame and the end each way; both sessions close, the connection is reset or breaks |
| `tcp_accept` | `EvenShare`, `StreamsOwned`, `AtMostOneLate`, `EveryoneAnswered` | 1.2 M | 2 sessions, 3 users, one stream per session at a time |
| `relay` | `InOrder`, `Intact`, `EndMeansAll`, `Released`, `Arrives` | 0.6 M | 2 chunks one way, 1 the other, sockets of 1 |
| `cp_lists` | `NoStaleRegistration`, `AcceptedIsRegistered` | 4.2 M | 2 sessions on 2 shared ports and one that a reload adds |
| `cp_life` | `TypeOK`, `RegisteredAuthorized`, `RunningClientAuthorized`, `DeadLeavesLists`, `ShutdownCompletes` | 0.2 M | one session, every kind of client and file, 2 reloads, 2 control bytes in flight, a client that may stop reading |
| `keepalive` | `AliveKept`, `DeadFound` | 23 k | interval 3, timeout 6, delay 2, skew 1, lag 1, clock to 26 |
| `reload` | `LatestStays`, `AskedStays` | 25 k | 3 changes of the file, 2 timer goroutines at a time |
| `udp_map` | `OpenIsOwned`, `MappedIsServed`, `IdleStreamsClosed`, `BothEndsReturn` | 0.2 M | 1 session, 1 source, 2 streams, QUIC, idle limit of one deadline |

The bounds are small but hold every case the code distinguishes. One stream shows
what is true of each, since streams share only the wire, the map and the queue;
two of them, one of each end, share these in `mux_stream`. A Write of two frames is the
shortest that a Close can overtake in the middle. IDs up to 2 leave the client's second
OpenStream without one. Two sessions on the
same two ports register and leave in every order; the configurations differ in
what a token may use and in the ports. Three users of a port with two sessions are one round and
one more, with a relay in each session when the third comes. Two chunks in a
relay with sockets of one are enough for every buffer to be full behind a full
one, and for a chunk to be in each place when something ends. A clock to 26 has
four checks of the monitor and the two timeouts that `DeadFound` is about. Three
changes of the file leave an old reload, a newer one and a signal under way at
once. Two streams of one source are enough for one to replace the
other; sources share nothing but the receive loop, which handles one datagram at
a time.

Deadlock is not checked: callers stop opening and writing, users and services are
served, clients exit, files are left alone, the clock stops at its bound, and the
server returns.

Runs that fail, each for something the code or its comments say:

| Run | Property | What happens |
|---|---|---|
| `mux_ghost` | `OneStreamPerID` | a late frame of a closed stream makes the peer create a new one under its ID |
| `mux_flood` | `ReadLoopNeverBlocks` | ghosts fill the accept queue of the server, which nobody empties; its read loop waits for good |
| `udp_aba` | `OneStreamPerSource` | an old response goroutine deletes the entry of a newer stream |

The first needs only that a connection ends in both directions at once, which
relays do, and a Write of more than one frame or a ReadFrom. What it means for users: the
connection it belongs to is being closed anyway and loses the late data. The ghost
lives on. When the server closed, the client accepts the ghost like any stream
(`client.go` 163-193), and `handleStream` reads three bytes of user data as its
header: it gives up on an unknown type or port, and where the bytes happen to be the header
of a port of its file, it dials that service and sends it the rest. When the client closed, the ghost
stays in the server's accept queue; 128 of them, over the life of a session, are what `mux_flood` is
about. `Relay` is about the connection itself and has no ghosts.

The passing runs hold under conditions, and each condition matters. Each is a
constant or a part of a formula that a reader can take away to look at the
trace:

| Change | Breaks | Because |
|---|---|---|
| `MayClose(p) == TRUE` in `mux_stream` | `NoLeak` | a stream closed before its first write stays in the peer's map: the zero-length frame that creates it there is not followed by one that removes it (`multidialer.go` 309-322). neofrp's own callers do this only when writing the header fails |
| no `over = 0` in `NoLeak` | `NoLeak` | a late frame brings the ID back, and no zero-length frame follows |
| no `Sole` in `InOrder` or `NothingLost` | these | a ghost at the other end that writes counts from one again; a caller cannot tell its frames from those of the origin |
| `CounterModulus = 4` and a third OpenStream of the client in `mux_stream` | `OpenedIDsUnique` | the 32-bit counter wraps; in the program after 2^31 calls of OpenStream on one session, refused ones included |
| no `late` in `CloseReleasesStreams` | `CloseReleasesStreams` | a stream stored while `Close` runs is missed by its Range, and its reader waits for ever (`multidialer.go` 216, 230) |
| no `~broken` in `EOFComplete` or `ArePipes` | these | the read loop closes the session with io.EOF whatever the error was (`multidialer.go` 281, 507), so that a connection that broke, or was reset because an end closed it with data unread, looks like the clean end of every stream |
| two streams of the server in `mux_close` and no `HeldUp` in `CloseSpreads` | `CloseSpreads` | a read loop that waits for its accept queue does not look at the connection (`multidialer.go` 324-328): it does not see that the peer has closed |
| no `[]<>~WaitsForClient(s)` in `ShutdownCompletes` | `ShutdownCompletes` | no read of the handshake has a deadline or looks at the context, nor has the last write: a client that stops in the middle of the handshake, or reads nothing, keeps the server from stopping (`server.go` 120) |
| `cancelled[s]` for `Dead(s)` in `DeadLeavesLists` | `DeadLeavesLists` | the Close of the control stream (`server.go` 252) comes before the cleanup and writes a frame under `writeMu`: while the client takes nothing, the session that was cancelled, by its keep-alive timeout for one, stays listed and gets new connections, "Runs on ALL exit paths" (`server.go` 223) or not |
| `/\` for `=>` in `AcceptedIsRegistered` | `AcceptedIsRegistered` | `Negotiate` answers from the list as it was reloaded, the listeners are those of the start (`server.go` 202, 272): a port that a reload added is accepted, nothing is registered for it, and the client runs and waits for connections that cannot come |
| `want[s].ports` for `Asked(s)` in `RegisteredAuthorized`, and 65535 among the server's ports | `RegisteredAuthorized` | "server_port must be between 1 and 65535" (`parser.go` 99), but the check has no lower bound but 0, and -1 is 65535 on the wire: the client gets the traffic of a port that its file does not name |
| a close byte that must end the session at once | - | only the first byte of a Read is looked at (`server/control.go` 331): a close behind a keep-alive is dropped, and the session ends when the stream does, or by the monitor. `DeadLeavesLists` holds all the same |
| no `~fin[x]` in `Relay!EndMeansAll`: the application had itself ended its direction | `EndMeansAll` | the first direction to end closes both (`listener.go` 92-113): the other one is cut off |
| no `Recv` in `Relay!Progress` | `Released` | a copy that waits in a write to an application that reads nothing is not woken while the handler waits for a copy to end |
| no `[]<>~HeldBySession` in `EveryoneAnswered` | `EveryoneAnswered` | the header is written, and a QUIC stream waited for, in the accept loop without a deadline (`listener.go` 67, 85): one client that takes nothing, or whose relays never end, holds up the users of all |
| `HasDeadline = FALSE` in `udp_map` | `IdleStreamsClosed` | `tcpStream` has no SetReadDeadline (`listener.go` 245): over TCP the goroutine of a silent stream stays in Read, and the 60 second timeout of line 234 is never looked at |
| the same | `BothEndsReturn` | over TCP the Close of a stream writes a frame, which waits while the session is stalled (`listener.go` 227) |
| `QuickReload = FALSE` in `reload` | `LatestStays` | a reload that takes longer than the debounce may store its older file last (`server.go` 198); a SIGHUP that meets a reload of the watcher's does the same, which is why `AskedStays` excludes it |
| a file that is replaced by a rename | `LatestStays`, were it claimed | the watch is gone with the old file (`server.go` 161); a SIGHUP still works |
| no `InTime` in `AliveKept` | `AliveKept` | a keep-alive that needs 25 seconds is too late |

### Fairness

- `TCPMux!Fairness`: weak fairness of the read loops, of the rest of a call once
  begun (OpenStream, a running Write, stream and session Close) and of a caller
  that accepts in a loop: the Go scheduler runs every goroutine that can run. No
  caller is assumed to open, read, write or close.
- `ControlPlane!FairSpec`: weak fairness of `handleSession`, of the reader of the control
  loop, of the control loop itself while it is not in the middle of a keep-alive that
  waits for the client, and of the monitor *once the client is silent for good*.
  Nothing is assumed of clients: that a shutdown may wait for one is in
  `ShutdownCompletes` itself.
- `TCPListener!ListenerFairSpec`: weak fairness of the accept loop. Nothing makes a
  stalled client read on or a relay end; `EveryoneAnswered` says what follows if no
  session holds the loop for good.
- `Relay!Fairness`: all goroutines, the exit of a client that was told to stop, and
  applications that read what they have. It is one formula, `WF_vars(Progress)`;
  every step takes something forward that nothing takes back, so none of them can
  be put off for ever by the others.
- `ConfigReload!FairSpec`: the watcher's loop, the timer and the reloads go on.
- `UDPListener!FairSpec`: weak fairness of the receive loop after a datagram, of
  each response goroutine, of the client's goroutines once they can go on, and of time.

No other action of the environment is fair: signals, reloads, users, deaths, lost
connections, clients that stop reading and those that read on. The exceptions are
the two named above, applications that read what they have in `Relay` (`Recv`: of
those that do not, see the table of conditions) and time in `UDPListener`.

## What is proved

TLAPS checks the following for every value of the constants. All safety
properties of the runs that pass are among them but for the refinement
`ArePipes`; each invariant that a proof rests on was checked with
TLC, too.

### TCPMux

`TCPMuxProofs`:

- `TypeCorrect`: `Spec => []TypeOK`, from `BoundsAssumption`. Two things make it more
  than bookkeeping: an ID stored in a stream fits 16 bits only because
  `OpenStream` refuses larger counters, and a position pushed to a buffer is one
  of the stream that wrote it only because the wire holds frames of known streams.
- `StreamIDsUnique`: `[]OpenedIDsUnique`, as long as the counter cannot wrap (`NoWrap`:
  the calls of OpenStream stay below half its range). The invariant needs
  `CounterExact`, the counter of an endpoint is its first ID plus twice the number
  of calls, and `OpenedBefore`, every stream opened there has an ID of the
  endpoint's parity below the counter.

`TCPMuxStreamProofs` has `NoGhosts` (`GhostsAreLate`), `FramesInOrder` (`InOrder`), `FramesKept`
(`NothingLost`), `EOFMeansAll` (`EOFComplete`), `MapsDrain` (`NoLeak`), `EOFStays`
(`EOFIsFinal`) and `CloseReleases` (`CloseReleasesStreams`), for any number of streams on a
connection, closed at any point of their Writes, and through closing sessions and
broken connections.

None of the properties is inductive: they are about what a reader has, which
depends on the frames still on the way and on who may make a stream. `MuxInv` says
it for each endpoint and ID, about the origin of the ID:

- `Dir`: the frames of the stream that its peer has not dispatched, late ones apart,
  are those between what the peer was handed and what was written, in order, without a
  gap and with the zero-length frame last; and they are all there while the
  connection lasts. A late frame comes behind the zero-length one. "Not dispatched" is the
  wire with the frame in the read loop's hands, so that reading and dispatching
  leave it as it was or take off its head.
- `Gone`: where a stream has left the map, its peer's zero-length frame has been
  dispatched, so that what still comes is late. That is the heart of it: late frames
  meet a map that has forgotten their stream, make a ghost and go past the
  origin, which is why they disturb nothing.
- `GhostInv`: only late frames make ghosts.
- `ObjectInv` and `SessionEOF`: a reader that was told io.EOF is out of the map, or its
  session has read its connection to the end.
- `InMapOrEnded`: every object is in the map or has an error, but for those stored
  while Close ran. OpenStream never replaces an entry, because every ID in a map or
  on a frame was taken from one of the two counters (`IDsTaken`), ghosts included.

The one hypothesis is `NoWrap`: the counter does not wrap. It is 2^31 calls of
OpenStream on one session. What callers do, and what the connection loses, is
not restricted; the properties themselves say where a ghost that writes, or a
broken connection, ends what the code can promise.

### StreamPipe

`PipeInOrder`: `[]FIFO`, a pipe holds exactly the writes that follow the last one read. With
the refinement that `mux_close` checks, it is what the users of a stream may rely
on. `Inv` adds that the pipe never holds more than was written, so that a write either
follows on what the pipe holds or is lost.

### RoundRobin, TCPListener

- `ConnectionsSpread`: `RoundRobin!Spec => []EvenShare`. `EvenShare` alone is not inductive;
  `Spread` says which elements are one pick ahead: those from where the round
  began up to the cursor, around the end of the list. A change of the list begins
  a round wherever the cursor is, which is why a stale `nextSession` does no harm.
- `ListenerImplementsRoundRobin`: `ListenerSpec => Spec`, that is, each step of the accept
  loop and of the sessions is one of `RoundRobin`, or leaves the list alone.
  `ListenerSpreadsEvenly` is what follows: connections are spread evenly whatever the
  loop waits for and whichever of its steps fail.
- `NoStreamLeaks` (`StreamsOwned`) needs `LoopInv`: at each step of the loop, which
  connection it has in its hands and how far that one is.
- `OneLateConnection` (`AtMostOneLate`) needs `LateInv`: a session that had its late
  connection is out of the list for good and is not the one in the loop's hands.

### UDPListener

`NoStreamLeaks` (`OpenIsOwned`) and `EntriesAreServed` (`MappedIsServed`), with and without
read deadlines. Each needs the other and three facts more: what the loop holds
at each of its steps (`InHand`), that a stream's goroutine is started once and after the
loop had it (`Started`), and that an entry is under the source of its own stream
(`Keyed`), since the goroutine deletes the key of its source.

### ControlPlane

Four invariants, one on top of the other:

- `ListInv`, for `NothingStale` (`NoStaleRegistration`): lists and registrations have no
  repetitions, an element is in a list exactly as long as its session has it to
  remove, and a session has something to remove only between its registration
  and the end of its cleanup. That a cleanup takes its own element and no other is
  what `RemainingElements` says of `Remove` on lists without repetitions.
- `TypeInv`, for `TypeCorrect` (`TypeOK`), adds `HandshakeOver`: the messages of the handshake
  are sent once each and taken before the control loop starts, so that its
  reader meets control bytes only. It also has that the configuration in force
  comes from a file and is valid, through every reload.
- `DecidedInv`, for `TrafficIsAuthorized` (`RegisteredAuthorized`) and `RunningIsAuthorized`
  (`RunningClientAuthorized`): from the negotiation on, what a session was granted is
  what `Reply` gives for its configuration, and a running client was granted
  all it asked for. `AcceptedIsGranted` takes it from there to the file: what `Reply`
  accepts is a port that an item of the file grants to the token, through the items
  that are dropped and the first entry that wins.
- `OrderInv`, for `AcceptedStaysRegistered` (`AcceptedIsRegistered`): ports are registered in the
  order of the request, none with a listener is passed over, whatever is reloaded
  meanwhile. Ports without a listener are accepted, too, see the table of conditions.

### Relay

`ChunksInOrder` (`InOrder`), `ChunksKept` (`Intact`) and `CleanEndMeansAll` (`EndMeansAll`), for any
amount of data and sockets of any size, without a hypothesis. `Inv` is about each of
the two directions:

- `Framed`: the header is first, the zero-length frame last and there once the
  writer's relay has closed.
- `Source`: what a socket and the copy that reads it hold are the last chunks the
  application sent.
- `Chain`: what is on its way beyond them goes on where the other application has
  received. It holds whatever has ended; `InOrder` follows.
- `Whole`: until something ends, the two meet: what has got through is all that has
  left the source. `Intact` follows.
- `CopyEnds` and `Clean`: a copy ends only when one of the ends closes; and if nothing but
  one application's end can have ended the connection, the relay next to it
  begins to close when it has passed everything, and the other one after it has
  taken everything. `EndMeansAll` needs this, since when an application sees its end
  it is too late to tell why.

### KeepAlive

`LivePeerKept` and `DeadPeerFound`: both properties, for every interval, timeout, delay
and phase. The invariant has three parts besides types: the keep-alives not
handled yet are an interval apart and those sent were due (`Spaced`), the next one
is due at most an interval (at first also the skew) after the last was handled
(`NextInTime`), and the last check found one in the period before it
(`LastCheck`). The code's 5 and 30 seconds leave 25 for `MaxSkew + MaxDelay`, and find a
dead client within 60 seconds.

### Model-checked only

- Liveness: `CloseSpreads`, `Delivered`, `EveryoneAnswered`, `Released`, `Arrives`,
  `DeadLeavesLists`, `ShutdownCompletes`, `LatestStays`, `AskedStays`, `IdleStreamsClosed`, `BothEndsReturn`.
  It is out of the prover's reach.
- `ArePipes`, the step from `TCPMux` to `StreamPipe`. Its mapping collects the frames of a
  stream from a wire that it shares with others (`SelectSeq`), and what such a
  selection is after an Append or a Tail needs an induction over the sequence.
  The theorems of `TCPMuxStreamProofs` say the same of order, completeness and ends
  without the mapping.

## What is not modelled

- quic-go, which is not part of the repository. Where it makes a difference to a
  caller, the difference is a constant of the caller's module (`HasDeadline`,
  `WaitsForStream`); its flow control and its errors after a Close are not there.
- Bytes. The two things that would need them: a datagram has no boundary in a
  stream, so two may come out as one (`client.go` 347); and a client whose list of
  ports is empty is answered with the length 0 and one more zero byte
  (`server/control.go` 166), which it does not read then, so that its control loop
  takes it for a keep-alive.
- QUIC's limit of streams in the receive loop of a UDP port, where OpenStreamSync would
  wait as it does in `TCPListener`.
- The limit of memory: `pushData` appends without a bound, and the models have one
  only for TLC's sake.
- `handleStream` looking at what follows a header of an unknown type: the server
  writes none.
- TLS, templates, the rest of JSON, command lines, debugging aids: no state of the
  system. `sessionConn` (`multidialer.go` 553-599) is reached through `Accept`
  only, which nothing calls.

## Plan

Done: all modules above, and proofs of the safety properties that the runs check.
Next:

1. `TCPMux`: the step to `StreamPipe`, from `MuxInv` and with a mapping of `pipe` that is
   given by the positions at its ends (`Dir` shows that they determine it).
2. `ConfigReload`: an invariant that says which version is in force when nothing is
   left to run, the safety half of `LatestStays`.
