---------------------------- MODULE ControlPlane ----------------------------
(***************************************************************************)
(* The life of a session: server/server.go (Run, handleSession,            *)
(* reloadConfig), server/control.go (Handshake, Negotiate, RunControlLoop) *)
(* and the client's side of it in client/client.go and client/control.go.  *)
(*                                                                         *)
(* A session s is one run of a client.  The two ends talk over its control *)
(* stream, a FIFO in each direction.  A message that did not fully arrive  *)
(* is one that was not sent: ReadFull waits for all of it.  The contents   *)
(* of the handshake messages are fixed by the client's configuration, so   *)
(* the queues hold only their kinds.  After the handshake the stream       *)
(* carries single bytes, and one Read returns several of them together.    *)
(***************************************************************************)
EXTENDS ServerConfig, SessionList

CONSTANTS
    Sessions,       \* the client runs
    Files,          \* what the configuration file may hold
    InitFile,       \* what it holds when the server starts
    ClientConfigs,  \* [version, token, ports]: configurations of clients
    OtherClients,   \* the same of programs that are not this client
    Version,        \* C.Version, 0x03
    EmptyToken,     \* the token of length 0
    Stalling,       \* bound: the sessions whose client may stop reading
    MaxReloads,     \* bound: reloads
    MaxBytes,       \* bound: control bytes in flight
    ReadMax,        \* how many bytes one Read of the control stream returns
    QueueCap        \* 10 in the code: the capacity of controlMsg

Configs == {c \in {ParseServerConfig(f) : f \in Files} : ValidateServerConfig(c)}
InitConfig == ParseServerConfig(InitFile)
Clients == {c \in ClientConfigs : ValidateClientConfig(c, EmptyToken)} \cup OtherClients

ASSUME BoundsAssumption == MaxReloads \in Nat /\ ReadMax \in Nat

\* Files and clients are of the forms that ServerConfig describes, and a list of
\* requested ports is as long as one byte of the handshake can say.
ASSUME FileAssumption ==
    \A f \in Files, type \in PortTypes :
        /\ DOMAIN f[type] \subseteq Nat
        /\ \A i \in DOMAIN f[type] : LET item == f[type][i] IN
              item.form = "number" => item = [form |-> "number", port |-> item.port]

ASSUME ClientAssumption ==
    \A c \in ClientConfigs \cup OtherClients :
        /\ \E n \in 0..255 : DOMAIN c.ports = 1..n
        /\ \A i \in DOMAIN c.ports : LET tp == c.ports[i] IN
              tp = [type |-> tp.type, port |-> tp.port]

ASSUME ConfigAssumption == InitFile \in Files /\ ValidateServerConfig(InitConfig)

VARIABLES
    currentConfig,  \* the atomic pointer, replaced by reloadConfig
    reloads,        \* reloads so far
    acceptLoop,     \* the accept goroutine: blocked in AcceptSession, or gone
    shutdown,       \* ctx is cancelled
    stopped,        \* Run has returned
    portMap,        \* portMap[tp]: the SessionList of a port with a listener
    sv,             \* sv[s]: where handleSession is
    cl,             \* cl[s]: where the client's Run is
    want,           \* want[s]: the client's configuration
    stalled,        \* stalled[s]: it takes no more data: "no", "yes", "over"
    cfg,            \* cfg[s]: the configuration handleSession was given
    negotiated,     \* negotiated[s]: NegotiatedPorts, each at its place in the request
    registered,     \* registered[s]: the list elements to remove at the end
    c2s, s2c,       \* the control stream, in each direction
    cancelled,      \* sessionCancel was called for s
    controlMsg,     \* controlMsg[s]: the channel of the control loop
    reader, loop    \* are its reader goroutine and its main loop running?

serverVars == <<currentConfig, reloads, acceptLoop, shutdown, stopped>>
listVars == <<portMap, negotiated, registered>>
streamVars == <<c2s, s2c>>
clientVars == <<cl, want, stalled>>
loopVars == <<cancelled, controlMsg, reader, loop>>
vars == <<serverVars, listVars, sv, clientVars, cfg, streamVars, loopVars>>

Ports == TaggedPorts(InitConfig)

\* A list element: the session, and which of its requested ports it is for.
Element == Sessions \X Nat

Init ==
    /\ currentConfig = InitConfig /\ reloads = 0
    /\ acceptLoop = "blocked" /\ shutdown = FALSE /\ stopped = FALSE
    /\ portMap = [tp \in Ports |-> <<>>]
    /\ sv = [s \in Sessions |-> "none"]
    /\ cl = [s \in Sessions |-> "off"]
    /\ want \in [Sessions -> Clients]
    /\ stalled = [s \in Sessions |-> "no"]
    /\ cfg = [s \in Sessions |-> InitConfig]
    /\ negotiated = [s \in Sessions |-> <<>>]
    /\ registered = [s \in Sessions |-> <<>>]
    /\ c2s = [s \in Sessions |-> <<>>] /\ s2c = [s \in Sessions |-> <<>>]
    /\ cancelled = [s \in Sessions |-> FALSE]
    /\ controlMsg = [s \in Sessions |-> <<>>]
    /\ reader = [s \in Sessions |-> FALSE] /\ loop = [s \in Sessions |-> FALSE]

Send(q, s, m) == q' = [q EXCEPT ![s] = Append(@, m)]
Receive(q, s) == q' = [q EXCEPT ![s] = Tail(@)]
Goto(pc, s, l) == pc' = [pc EXCEPT ![s] = l]

\* The client's process is gone; the transport reports it as a read error or
\* an EOF, in order after what the client sent.
Dead(s) == cl[s] \in {"exited", "gone"}

\* What the server writes to s waits: its client takes nothing, the buffers are
\* full, and no write has a deadline.
Waits(s) == stalled[s] = "yes" /\ ~Dead(s)

\* sessionCtx is done: cancelled itself, or through its parent.
DoneAlone(s) == cancelled[s]    \* mutant: derived from context.Background()
Done(s) == cancelled[s] \/ shutdown

Active == {s \in Sessions : sv[s] \notin {"none", "done"}}

-----------------------------------------------------------------------------
(***************************************************************************)
(* The server as a whole.                                                  *)
(***************************************************************************)

\* reloadConfig: whatever the file holds by now, if it is valid.  It touches
\* neither the sessions nor the port listeners.
ReloadConfig ==
    /\ ~stopped
    /\ reloads < MaxReloads
    /\ currentConfig' \in Configs
    /\ reloads' = reloads + 1
    /\ UNCHANGED <<acceptLoop, shutdown, stopped, listVars, sv, clientVars, cfg,
                   streamVars, loopVars>>

\* The accept loop takes a client's connection and starts handleSession with
\* the configuration of that moment.  It looks at ctx only between accepts.
AcceptSession(s) ==
    /\ acceptLoop = "blocked"
    /\ ~stopped
    /\ cl[s] = "off"
    /\ Goto(cl, s, "connected") /\ Goto(sv, s, "stream")
    /\ cfg' = [cfg EXCEPT ![s] = currentConfig]
    /\ acceptLoop' = IF shutdown THEN "returned" ELSE "blocked"
    /\ UNCHANGED <<currentConfig, reloads, shutdown, stopped, listVars, want, stalled,
                   streamVars, loopVars>>

\* The shutdown signal: cancel() and the listeners' closers.
Interrupt ==
    /\ ~shutdown
    /\ shutdown' = TRUE
    /\ UNCHANGED <<currentConfig, reloads, acceptLoop, stopped, listVars, sv,
                   clientVars, cfg, streamVars, loopVars>>

\* wg.Wait() returns, and Run with it.
Stop ==
    /\ shutdown /\ ~stopped
    /\ Active = {}
    /\ stopped' = TRUE
    /\ UNCHANGED <<currentConfig, reloads, acceptLoop, shutdown, listVars, sv,
                   clientVars, cfg, streamVars, loopVars>>

-----------------------------------------------------------------------------
(***************************************************************************)
(* handleSession.                                                          *)
(***************************************************************************)

\* AcceptStream(sessionCtx): the control stream, which exists once some of what
\* the client wrote has arrived; or an error, and the deferred cleanup.
AcceptControl(s) ==
    /\ sv[s] = "stream"
    /\ \/ /\ cl[s] = "opening" \/ (c2s[s] # <<>> /\ Head(c2s[s]) # "eof")
          /\ Goto(sv, s, "handshake")
       \/ /\ Done(s) \/ Dead(s)
          /\ Goto(sv, s, "cleanup")
    /\ UNCHANGED <<serverVars, listVars, clientVars, cfg, streamVars, loopVars>>

\* handleSession returns, after a last answer: controlConn.Close() is next.
Return(s, last) ==
    /\ Goto(sv, s, "closing")
    /\ s2c' = [s2c EXCEPT ![s] = @ \o last]

\* A read or a write on the control stream fails.
StreamFails(s) ==
    /\ sv[s] \in {"handshake", "negotiate"}
    /\ c2s[s] # <<>>
    /\ \/ Head(c2s[s]) = "eof" /\ Receive(c2s, s)
       \/ Dead(s) /\ UNCHANGED c2s
    /\ Return(s, <<>>)
    /\ UNCHANGED <<serverVars, listVars, clientVars, cfg, loopVars>>

\* Handshake, and the acceptance that Negotiate begins with.
Handshake(s) ==
    LET w == want[s] IN
    /\ sv[s] = "handshake"
    /\ c2s[s] # <<>> /\ Head(c2s[s]) = "hello"
    /\ Receive(c2s, s)
    /\ \/ /\ w.version = Version /\ w.token # EmptyToken
          /\ Recognized(cfg[s], w.token)
          /\ Send(s2c, s, "Accepted") /\ Goto(sv, s, "negotiate")
       \/ /\ w.version = Version
          /\ w.token = EmptyToken \/ ~Recognized(cfg[s], w.token)
          /\ Return(s, <<"UnrecognizedToken">>)
       \/ /\ w.version # Version
          /\ Return(s, <<"OtherError">>)
    /\ UNCHANGED <<serverVars, listVars, clientVars, cfg, loopVars>>

Asked(s) == [i \in DOMAIN want[s].ports |-> OnWire(want[s].ports[i])]
Answer(s, tp) == Reply(cfg[s], want[s].token, tp)
Accepted(s) == {i \in DOMAIN Asked(s) : Answer(s, Asked(s)[i]) = "Accepted"}

\* Negotiate: answer each requested port and keep the accepted ones.
Negotiate(s) ==
    /\ sv[s] = "negotiate"
    /\ c2s[s] # <<>> /\ Head(c2s[s]) = "ports"
    /\ Receive(c2s, s)
    /\ negotiated' = [negotiated EXCEPT ![s] = [i \in Accepted(s) |-> Asked(s)[i]]]
    /\ Send(s2c, s, "responses")
    /\ Goto(sv, s, "register")
    /\ UNCHANGED <<serverVars, portMap, registered, clientVars, cfg, loopVars>>

\* The negotiated ports still to register; one without a list is passed over.
Unlisted(s) ==
    {n \in DOMAIN negotiated[s] :
        /\ negotiated[s][n] \in Ports
        /\ \A i \in DOMAIN registered[s] : registered[s][i][2] < n}
ToRegisterButLast(s) == Unlisted(s) \ {Len(want[s].ports)}    \* mutant: off by one
ToRegister(s) == Unlisted(s)

\* One turn of the loop: PushBack on the port's list.
Register(s) ==
    /\ sv[s] = "register"
    /\ \E n \in ToRegister(s) :
          /\ \A m \in ToRegister(s) : n <= m
          /\ portMap' = [portMap EXCEPT ![negotiated[s][n]] = PushBack(@, <<s, n>>)]
          /\ registered' = [registered EXCEPT ![s] = Append(@, <<s, n>>)]
    /\ UNCHANGED <<serverVars, negotiated, sv, clientVars, cfg, streamVars, loopVars>>

\* All are registered: RunControlLoop and its goroutines start.
StartControlLoop(s) ==
    /\ sv[s] = "register"
    /\ ToRegister(s) = {}
    /\ Goto(sv, s, "running")
    /\ reader' = [reader EXCEPT ![s] = TRUE] /\ loop' = [loop EXCEPT ![s] = TRUE]
    /\ UNCHANGED <<serverVars, listVars, clientVars, cfg, streamVars, cancelled,
                   controlMsg>>

\* <-sessionCtx.Done()
SessionDone(s) ==
    /\ sv[s] = "running"
    /\ Done(s)
    /\ Return(s, <<>>)
    /\ UNCHANGED <<serverVars, listVars, clientVars, cfg, c2s, loopVars>>

\* controlConn.Close() writes a frame, with writeMu, which may be in the hands of a
\* relay that waits for the client.  The cleanup is deferred until then.
CloseControl(s) ==
    /\ sv[s] = "closing"
    /\ ~Waits(s)
    /\ Goto(sv, s, "cleanup")
    /\ Send(s2c, s, "eof")
    /\ UNCHANGED <<serverVars, listVars, clientVars, cfg, c2s, loopVars>>

\* The deferred cleanup removes one element ...
Unregister(s) ==
    /\ sv[s] = "cleanup"
    /\ registered[s] # <<>>
    /\ LET e == Head(registered[s])
       IN  portMap' = [portMap EXCEPT ![negotiated[s][e[2]]] = Remove(@, e)]
    /\ Receive(registered, s)
    /\ UNCHANGED <<serverVars, negotiated, sv, clientVars, cfg, streamVars, loopVars>>

\* ... and, after the last, closes the session.
CloseSession(s) ==
    /\ sv[s] = "cleanup"
    /\ registered[s] = <<>>
    /\ Goto(sv, s, "done")
    /\ Send(s2c, s, "eof")
    /\ cancelled' = [cancelled EXCEPT ![s] = TRUE]
    /\ reader' = [reader EXCEPT ![s] = FALSE] /\ loop' = [loop EXCEPT ![s] = FALSE]
    /\ UNCHANGED <<serverVars, listVars, clientVars, cfg, c2s, controlMsg>>

-----------------------------------------------------------------------------
(***************************************************************************)
(* RunControlLoop.                                                         *)
(***************************************************************************)

\* The reader goroutine: one Read, and what it read put in the channel.  The
\* main loop looks only at msg[0], so that is what the message stands for.
ReadControl(s, k) ==
    LET bytes == SubSeq(c2s[s], 1, k) IN
    /\ reader[s]
    /\ k <= Len(c2s[s]) /\ k <= ReadMax
    /\ \A i \in 1..k : bytes[i] # "eof"
    /\ Len(controlMsg[s]) < QueueCap
    /\ c2s' = [c2s EXCEPT ![s] = SubSeq(@, k + 1, Len(@))]
    /\ Send(controlMsg, s, Head(bytes))
    /\ UNCHANGED <<serverVars, listVars, sv, clientVars, cfg, s2c, cancelled, reader, loop>>

\* The reader returns: the stream ended, or the context is done.
ReaderReturns(s) ==
    /\ reader[s]
    /\ \/ c2s[s] # <<>> /\ Head(c2s[s]) = "eof"
       \/ Done(s)
    /\ reader' = [reader EXCEPT ![s] = FALSE]
    /\ UNCHANGED <<serverVars, listVars, sv, clientVars, cfg, streamVars, cancelled,
                   controlMsg, loop>>

\* CancelConnection: the session's cancel function, through its context.
CancelConnection(s) == cancelled' = [cancelled EXCEPT ![s] = TRUE]

\* case msg := <-controlMsg: ActionClose cancels the session.
HandleControl(s) ==
    /\ loop[s]
    /\ controlMsg[s] # <<>>
    /\ Receive(controlMsg, s)
    /\ IF Head(controlMsg[s]) = "close" THEN CancelConnection(s) ELSE UNCHANGED cancelled
    /\ UNCHANGED <<serverVars, listVars, sv, clientVars, cfg, streamVars, reader, loop>>

\* The main loop returns: the context is done, or a keep-alive could not be
\* written.  Neither cancels the session.
LoopReturns(s) ==
    /\ loop[s]
    /\ Done(s) \/ Dead(s)
    /\ loop' = [loop EXCEPT ![s] = FALSE]
    /\ UNCHANGED <<serverVars, listVars, sv, clientVars, cfg, streamVars, cancelled,
                   controlMsg, reader>>

\* The keep-alive monitor goroutine, which outlives the main loop.
MonitorInLoop(s) == sv[s] = "running" /\ loop[s]    \* mutant: part of the main loop
MonitorRuns(s) == sv[s] = "running"

\* No keep-alive was handled for KeepAliveTimeout: cancel the session.  A live
\* client's keep-alives may be late, too.
KeepAliveTimeout(s) ==
    /\ MonitorRuns(s)
    /\ ~cancelled[s]
    /\ CancelConnection(s)
    /\ UNCHANGED <<serverVars, listVars, sv, clientVars, cfg, streamVars, controlMsg,
                   reader, loop>>

\* Nothing can move lastKA any more: the client is gone, and none of its
\* keep-alives is left to handle.
Silent(s) ==
    /\ Dead(s)
    /\ loop[s] => \A i \in DOMAIN controlMsg[s] : controlMsg[s][i] # "ka"
    /\ loop[s] /\ reader[s] => \A i \in DOMAIN c2s[s] : c2s[s][i] # "ka"

-----------------------------------------------------------------------------
(***************************************************************************)
(* The client's Run.                                                       *)
(***************************************************************************)

\* Handshake: open the control stream and send version and token, which may
\* arrive in parts, or not all.
ClientOpens(s) ==
    /\ cl[s] = "connected"
    /\ Goto(cl, s, "opening")
    /\ UNCHANGED <<serverVars, listVars, sv, want, stalled, cfg, streamVars, loopVars>>
ClientHello(s) ==
    /\ cl[s] = "opening"
    /\ Send(c2s, s, "hello") /\ Goto(cl, s, "handshake")
    /\ UNCHANGED <<serverVars, listVars, sv, want, stalled, cfg, s2c, loopVars>>

\* Handshake's response, and the port list Negotiate sends.
ClientAuthenticated(s) ==
    /\ cl[s] = "handshake"
    /\ s2c[s] # <<>> /\ Head(s2c[s]) = "Accepted"
    /\ Receive(s2c, s)
    /\ Send(c2s, s, "ports") /\ Goto(cl, s, "negotiate")
    /\ UNCHANGED <<serverVars, listVars, sv, want, stalled, cfg, loopVars>>

FirstAccepted(s) ==    \* mutant: looks at the first response only
    Asked(s) = <<>> \/ Answer(s, Head(Asked(s))) = "Accepted"
AllAccepted(s) == Accepted(s) = DOMAIN Asked(s)

\* Negotiate's responses: the client runs only if each port was accepted.
ClientNegotiated(s) ==
    /\ cl[s] = "negotiate" /\ ~Waits(s)
    /\ s2c[s] # <<>> /\ Head(s2c[s]) = "responses"
    /\ Receive(s2c, s)
    /\ \/ AllAccepted(s) /\ Goto(cl, s, "running") /\ UNCHANGED c2s
       \/ ~AllAccepted(s) /\ Goto(cl, s, "exited") /\ Send(c2s, s, "eof")
    /\ UNCHANGED <<serverVars, listVars, sv, want, stalled, cfg, loopVars>>

\* The handshake fails: an error code, or the end of the stream.
ClientRefused(s) ==
    /\ cl[s] \in {"handshake", "negotiate"} /\ ~Waits(s)
    /\ s2c[s] # <<>> /\ Head(s2c[s]) \in {"UnrecognizedToken", "OtherError", "eof"}
    /\ Receive(s2c, s)
    /\ Goto(cl, s, "exited") /\ Send(c2s, s, "eof")
    /\ UNCHANGED <<serverVars, listVars, sv, want, stalled, cfg, loopVars>>

\* The client's keep-alive ticker.
ClientKeepAlive(s) ==
    /\ cl[s] = "running"
    /\ Len(c2s[s]) < MaxBytes
    /\ Send(c2s, s, "ka")
    /\ UNCHANGED <<serverVars, listVars, sv, clientVars, cfg, s2c, loopVars>>

\* A signal, or the client's own keep-alive monitor: send ActionClose.
ClientClose(s) ==
    /\ cl[s] = "running"
    /\ Send(c2s, s, "close") /\ Goto(cl, s, "closing")
    /\ UNCHANGED <<serverVars, listVars, sv, want, stalled, cfg, s2c, loopVars>>

\* The client stops reading while relays write to it, and reads on; once each, as
\* a bound.
Stall(s) ==
    /\ s \in Stalling
    /\ sv[s] \in {"register", "running", "closing"} /\ ~Dead(s)
    /\ registered[s] # <<>>
    /\ stalled[s] = "no"
    /\ stalled' = [stalled EXCEPT ![s] = "yes"]
    /\ UNCHANGED <<serverVars, listVars, sv, cl, want, cfg, streamVars, loopVars>>
Drain(s) ==
    /\ stalled[s] = "yes"
    /\ stalled' = [stalled EXCEPT ![s] = "over"]
    /\ UNCHANGED <<serverVars, listVars, sv, cl, want, cfg, streamVars, loopVars>>

\* Run returns and the process exits; the control stream ends.
ClientExit(s) ==
    /\ cl[s] = "closing"
    /\ Send(c2s, s, "eof") /\ Goto(cl, s, "exited")
    /\ UNCHANGED <<serverVars, listVars, sv, want, stalled, cfg, s2c, loopVars>>

\* The client's host or network dies at any point; the transport finds out
\* and reports it (TCP keep-alive probes, QUIC's idle timeout).
ClientVanishes(s) ==
    /\ cl[s] \notin {"off", "exited", "gone"}
    /\ Send(c2s, s, "eof") /\ Goto(cl, s, "gone")
    /\ UNCHANGED <<serverVars, listVars, sv, want, stalled, cfg, s2c, loopVars>>

-----------------------------------------------------------------------------
ServerStep(s) ==
    \/ AcceptControl(s) \/ StreamFails(s) \/ Handshake(s) \/ Negotiate(s)
    \/ Register(s) \/ StartControlLoop(s) \/ SessionDone(s)
    \/ CloseControl(s) \/ Unregister(s) \/ CloseSession(s)

ControlReader(s) == (\E k \in 1..ReadMax : ReadControl(s, k)) \/ ReaderReturns(s)
ControlLoop(s) == HandleControl(s) \/ LoopReturns(s)

ClientStep(s) ==
    \/ ClientOpens(s) \/ ClientHello(s) \/ ClientAuthenticated(s) \/ ClientNegotiated(s)
    \/ ClientRefused(s) \/ ClientExit(s)

Next ==
    \/ ReloadConfig \/ Interrupt \/ Stop
    \/ \E s \in Sessions :
          \/ AcceptSession(s) \/ ServerStep(s)
          \/ ControlReader(s) \/ ControlLoop(s) \/ KeepAliveTimeout(s)
          \/ ClientStep(s) \/ ClientKeepAlive(s) \/ ClientClose(s) \/ ClientVanishes(s)
          \/ Stall(s) \/ Drain(s)

Spec == Init /\ [][Next]_vars

\* The server's goroutines run on, but for the control loop, which may be in the
\* middle of a keep-alive that waits for the client.  Its monitor's ticker ticks: it
\* cancels for certain only once there are no more keep-alives.  Nothing is assumed
\* of clients.
FairSpec ==
    /\ Spec
    /\ WF_vars(Stop)
    /\ \A s \in Sessions :
          /\ WF_vars(ServerStep(s))
          /\ WF_vars(ControlReader(s))
          /\ WF_vars(~Waits(s) /\ ControlLoop(s))
          /\ WF_vars(Silent(s) /\ KeepAliveTimeout(s))

-----------------------------------------------------------------------------
(***************************************************************************)
(* Properties.                                                             *)
(***************************************************************************)

\* Phases, queues and lists hold values of their types; in particular the
\* configuration in force is always a valid one, whatever the file held.
TypeOK ==
    /\ currentConfig \in Configs /\ reloads \in 0..MaxReloads
    /\ acceptLoop \in {"blocked", "returned"} /\ {shutdown, stopped} \subseteq BOOLEAN
    /\ currentConfig.tokens # {} \/ \E e \in AllEntries(currentConfig) : e.tokens # {}
    /\ portMap \in [Ports -> Seq(Element)]
    /\ sv \in [Sessions -> {"none", "stream", "handshake", "negotiate", "register",
                            "running", "closing", "cleanup", "done"}]
    /\ stalled \in [Sessions -> {"no", "yes", "over"}]
    /\ cl \in [Sessions -> {"off", "connected", "opening", "handshake", "negotiate", "running",
                            "closing", "exited", "gone"}]
    /\ want \in [Sessions -> Clients] /\ cfg \in [Sessions -> Configs]
    /\ registered \in [Sessions -> Seq(Element)]
    /\ c2s \in [Sessions -> Seq({"hello", "ports", "ka", "close", "eof"})]
    /\ s2c \in [Sessions -> Seq({"Accepted", "UnrecognizedToken", "OtherError",
                                 "responses", "eof"})]
    /\ controlMsg \in [Sessions -> Seq({"ka", "close"})]
    /\ {cancelled, reader, loop} \subseteq [Sessions -> BOOLEAN]

\* What a file says: which tokens it knows, and which of them may carry a
\* port's traffic, a port without tokens being open to all of them.
Items(f, type) == {f[type][i] : i \in DOMAIN f[type]}
Objects(f, type) == {item \in Items(f, type) : item.form = "object"}
Knows(f, token) ==
    token \in f.tokens \cup UNION {item.tokens : item \in Objects(f, "tcp") \cup Objects(f, "udp")}
Grants(f, token, tp) ==
    \/ token \in f.tokens
    \/ [form |-> "number", port |-> tp.port] \in Items(f, tp.type)
    \/ \E item \in Objects(f, tp.type) :
          item.port = tp.port /\ (token \in item.tokens \/ item.tokens = {})

Listed(s, tp) == \E i \in DOMAIN portMap[tp] : portMap[tp][i][1] = s

\* A session takes traffic of a port only if its client speaks the version,
\* asked for the port on the wire, and holds a token that the file, as it was when the
\* session was accepted, knows and grants that port, whatever was reloaded since.
RegisteredAuthorized ==
    \A s \in Sessions, tp \in Ports : Listed(s, tp) =>
        /\ want[s].version = Version
        /\ \E i \in DOMAIN Asked(s) : tp = Asked(s)[i]
        /\ \E f \in Files :
              /\ ParseServerConfig(f) = cfg[s]
              /\ Knows(f, want[s].token) /\ Grants(f, want[s].token, tp)

\* The port lists hold exactly the elements that the sessions' cleanups will
\* still remove, each once and in its own port's list: nothing is left of a
\* session that ended, on whatever path, and no cleanup takes another's place.
NoStaleRegistration ==
    /\ \A tp \in Ports : \A i \in DOMAIN portMap[tp] :
          LET e == portMap[tp][i] IN
          /\ sv[e[1]] \in {"register", "running", "closing", "cleanup"}
          /\ negotiated[e[1]][e[2]] = tp
          /\ \E j \in DOMAIN registered[e[1]] : registered[e[1]][j] = e
          /\ \A j \in DOMAIN portMap[tp] : portMap[tp][j] = e => j = i
    /\ \A s \in Sessions : \A j \in DOMAIN registered[s] :
          LET e == registered[s][j] IN
          \E i \in DOMAIN portMap[negotiated[s][e[2]]] : portMap[negotiated[s][e[2]]][i] = e

\* While a session runs, each port the server accepted brings it traffic if the
\* port has a listener, as those of the configuration at start do.
AcceptedIsRegistered ==
    \A s \in Sessions : sv[s] = "running" =>
        \A n \in DOMAIN negotiated[s] :
            negotiated[s][n] \in Ports => Listed(s, negotiated[s][n])

\* A client runs only with a token its server's file knows, and then the server
\* registers it, or has, for every port it asked for.
RunningClientAuthorized ==
    \A s \in Sessions : cl[s] \in {"running", "closing"} =>
        /\ negotiated[s] = Asked(s)
        /\ \E f \in Files : ParseServerConfig(f) = cfg[s] /\ Knows(f, want[s].token)

\* A session whose client is gone leaves every port list in the end.
DeadLeavesLists ==
    \A s \in Sessions :
        Dead(s) ~> sv[s] = "done" /\ \A tp \in Ports : ~Listed(s, tp)

\* handleSession waits for a client that is alive: for the rest of a handshake
\* message, or for room to send it the end of the control stream.
WaitsForClient(s) ==
    \/ sv[s] \in {"handshake", "negotiate"} /\ c2s[s] = <<>> /\ ~Dead(s)
    \/ sv[s] = "closing" /\ Waits(s)

\* After the signal, Run returns, unless one client keeps its session waiting for
\* good; in particular no session is left that waits for anything else.
ShutdownCompletes ==
    (\A s \in Sessions : []<>~WaitsForClient(s)) => (shutdown ~> stopped)
=============================================================================
