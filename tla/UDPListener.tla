---------------------------- MODULE UDPListener -----------------------------
(***************************************************************************)
(* A UDP port of the server, from end to end: UDPPortListener in           *)
(* server/listener.go, its receive loop and the response goroutine it      *)
(* starts for each stream, over the session list of the port (SessionList) *)
(* and its SourceMap; and handleUDPStream in client/client.go, with its    *)
(* two goroutines, at the other end of each stream.                        *)
(*                                                                         *)
(* Sessions come from outside: they are registered, removed and closed by  *)
(* handleSession (ControlPlane), they die with their client, and a client  *)
(* that reads nothing stalls them.  A stream fails when its session is     *)
(* gone or, for a write, when it was closed.                               *)
(***************************************************************************)
EXTENDS SessionList, FiniteSets

CONSTANTS
    Sessions,
    Sources,      \* remote UDP addresses
    None,         \* no stream, no session
    MaxStreams,   \* bound: streams opened
    IdleLimit,    \* 60 in the code: the idle timeout in read deadlines
    HasDeadline   \* does the transport's stream have SetReadDeadline?  QUIC's
                  \* does, tcpStream does not

Streams == 1..MaxStreams

ASSUME UDPAssumption ==
    /\ MaxStreams \in Nat /\ IdleLimit \in Nat /\ HasDeadline \in BOOLEAN
    /\ None \notin Sessions \cup Sources \cup Streams

VARIABLES
    list, nextSession,  \* the port's SessionList and the loop's place in it
    registered,         \* the sessions that were pushed on the list
    alive,              \* alive[s]: the session's connection works
    stalled,            \* stalled[s]: it takes no more data: "no", "yes", "over"
    sourceMap,          \* sourceMap[a]: the stream of a source, or None
    pc, source,         \* the receive loop: where it is, and the datagram's source
    comp, stream,       \* ... and its variables of these names
    owner, via,         \* a stream's clientAddr, and its session
    closed,             \* closed[p]: this end of the stream was closed
    eof,                \* eof[p]: the client closed its end
    handler,            \* handler[p]: where handleUDPStreamResponse is
    since,              \* since[p]: ticks since lastActivity, up to one too many
    deadline,           \* deadline[p]: that Read has: "none", "set", "passed"
    client,             \* client[p]: where the client's handleUDPStream is
    inbound             \* is its goroutine from the stream to the service running?

sessionVars == <<list, registered, alive, stalled>>
loopVars == <<nextSession, source, comp, stream>>
streamVars == <<owner, via, closed, eof>>
clockVars == <<since, deadline>>
clientVars == <<client, inbound>>
vars == <<sessionVars, loopVars, sourceMap, pc, streamVars, handler, clockVars, clientVars>>

Init ==
    /\ list = <<>> /\ nextSession = 0 /\ registered = {}
    /\ alive = [s \in Sessions |-> TRUE] /\ stalled = [s \in Sessions |-> "no"]
    /\ sourceMap = [a \in Sources |-> None]
    /\ pc = "receive" /\ source = None /\ comp = None /\ stream = None
    /\ owner = [p \in Streams |-> None] /\ via = [p \in Streams |-> None]
    /\ closed = [p \in Streams |-> FALSE] /\ eof = [p \in Streams |-> FALSE]
    /\ handler = [p \in Streams |-> "none"]
    /\ since = [p \in Streams |-> 0] /\ deadline = [p \in Streams |-> "none"]
    /\ client = [p \in Streams |-> "none"]
    /\ inbound = [p \in Streams |-> FALSE]

Unopened == {p \in Streams : owner[p] = None}

ReadFails(p) == eof[p] \/ ~alive[via[p]]
WriteFails(p) == closed[p] \/ ~alive[via[p]]

\* What is written to s waits: no write has a deadline.
Waits(s) == alive[s] /\ stalled[s] = "yes"

-----------------------------------------------------------------------------
(***************************************************************************)
(* Sessions, as handleSession and the transport change them.               *)
(***************************************************************************)

RegisterSession(s) ==
    /\ s \notin registered
    /\ registered' = registered \cup {s}
    /\ list' = PushBack(list, s)
    /\ UNCHANGED <<alive, stalled, loopVars, sourceMap, pc, streamVars, handler, clockVars, clientVars>>

UnregisterSession(s) ==
    /\ \E i \in DOMAIN list : list[i] = s
    /\ list' = Remove(list, s)
    /\ UNCHANGED <<registered, alive, stalled, loopVars, sourceMap, pc, streamVars, handler, clockVars, clientVars>>

\* Close, or the loss of the client.
SessionDies(s) ==
    /\ alive[s] /\ s \in registered
    /\ alive' = [alive EXCEPT ![s] = FALSE]
    /\ UNCHANGED <<list, registered, stalled, loopVars, sourceMap, pc, streamVars, handler, clockVars,
                   clientVars>>

\* The client stops reading, and reads on; once each, as a bound.
Stall(s) ==
    /\ stalled[s] = "no" /\ s \in registered /\ alive[s]
    /\ stalled' = [stalled EXCEPT ![s] = "yes"]
    /\ UNCHANGED <<list, registered, alive, loopVars, sourceMap, pc, streamVars, handler, clockVars,
                   clientVars>>
Drain(s) ==
    /\ stalled[s] = "yes"
    /\ stalled' = [stalled EXCEPT ![s] = "over"]
    /\ UNCHANGED <<list, registered, alive, loopVars, sourceMap, pc, streamVars, handler, clockVars,
                   clientVars>>

-----------------------------------------------------------------------------
(***************************************************************************)
(* The receive loop.                                                       *)
(***************************************************************************)

\* The next iteration; the variables of this one are out of scope.
Continue == pc' = "receive" /\ source' = None /\ comp' = None /\ stream' = None

\* ReadFromUDP, and the look-up of the source's stream.
ReadFromUDP(a) ==
    /\ pc = "receive"
    /\ Unopened # {}
    /\ source' = a /\ stream' = sourceMap[a]
    /\ pc' = IF sourceMap[a] # None THEN "write" ELSE "pick"
    /\ UNCHANGED <<sessionVars, nextSession, comp, sourceMap, streamVars, handler, clockVars, clientVars>>

\* stream.Write, to the existing stream or the first to a new one: a
\* failure closes the stream.
WriteDatagram ==
    /\ pc = "write"
    /\ \/ /\ WriteFails(stream)
          /\ pc' = "delete" /\ closed' = [closed EXCEPT ![stream] = TRUE]
          /\ UNCHANGED loopVars
       \/ /\ ~WriteFails(stream) /\ ~Waits(via[stream])
          /\ Continue /\ UNCHANGED <<closed, nextSession>>
    /\ UNCHANGED <<sessionVars, sourceMap, owner, via, eof, handler, clockVars, clientVars>>

\* SourceMap.Delete(key) after a failed write.
DeleteSource ==
    /\ pc = "delete"
    /\ sourceMap' = [sourceMap EXCEPT ![source] = None]
    /\ Continue
    /\ UNCHANGED <<sessionVars, nextSession, streamVars, handler, clockVars, clientVars>>

\* RoundRobin: the next session of the port, if there is one.
PickSession ==
    /\ pc = "pick"
    /\ \/ /\ list = <<>>
          /\ Continue
          /\ UNCHANGED nextSession
       \/ /\ list # <<>>
          /\ comp' = Picked(list, nextSession)
          /\ nextSession' = NextIndex(list, nextSession)
          /\ pc' = "open"
          /\ UNCHANGED <<source, stream>>
    /\ UNCHANGED <<sessionVars, sourceMap, streamVars, handler, clockVars, clientVars>>

\* OpenStream on it.  The session may have ended since it was picked.
OpenStream ==
    /\ pc = "open"
    /\ \/ /\ ~alive[comp]
          /\ Continue
          /\ UNCHANGED <<owner, via>>
       \/ /\ alive[comp]
          /\ \E p \in Unopened :
                /\ \A q \in Unopened : p <= q
                /\ stream' = p
                /\ owner' = [owner EXCEPT ![p] = source]
                /\ via' = [via EXCEPT ![p] = comp]
          /\ pc' = "header"
          /\ UNCHANGED <<source, comp>>
    /\ UNCHANGED <<sessionVars, nextSession, sourceMap, closed, eof, handler, clockVars, clientVars>>

\* writeAll(newStream, hdr).
KeepAtFailure(p) == closed    \* mutant: the failed stream stays open
CloseAtFailure(p) == [closed EXCEPT ![p] = TRUE]

WriteHeader ==
    /\ pc = "header"
    /\ \/ /\ WriteFails(stream)
          /\ closed' = CloseAtFailure(stream)
          /\ Continue
       \/ /\ ~WriteFails(stream) /\ ~Waits(via[stream])
          /\ pc' = "store"
          /\ UNCHANGED <<closed, source, comp, stream>>
    /\ UNCHANGED <<sessionVars, nextSession, sourceMap, owner, via, eof, handler, clockVars, clientVars>>

\* SourceMap.Set, and after it the response goroutine.
SetSource ==
    /\ sourceMap' = [sourceMap EXCEPT ![source] = stream]
    /\ UNCHANGED handler
StartHandler ==
    /\ handler' = [handler EXCEPT ![stream] = "checking"]
    /\ UNCHANGED sourceMap

\* mutant: starts the goroutine first
StoreLate ==
    \/ pc = "store" /\ pc' = "start" /\ StartHandler
    \/ pc = "start" /\ pc' = "write" /\ SetSource
Store ==
    \/ pc = "store" /\ pc' = "start" /\ SetSource
    \/ pc = "start" /\ pc' = "write" /\ StartHandler

StoreStream == Store /\ UNCHANGED <<sessionVars, loopVars, streamVars, clockVars, clientVars>>

-----------------------------------------------------------------------------
(***************************************************************************)
(* handleUDPStreamResponse.                                                *)
(***************************************************************************)

\* The goroutine is in its loop.
Serving(p) == handler[p] \in {"checking", "reading"}

\* The check of lastActivity, which is made only when Read has returned.
TimedOut(p) == since[p] > IdleLimit

CheckTimeout(p) ==
    /\ handler[p] = "checking"
    /\ \/ TimedOut(p) /\ handler' = [handler EXCEPT ![p] = "closing"] /\ UNCHANGED deadline
       \/ /\ ~TimedOut(p) /\ handler' = [handler EXCEPT ![p] = "reading"]
          /\ deadline' = [deadline EXCEPT ![p] =
                              IF HasDeadline THEN "set" ELSE "none"]
    /\ UNCHANGED <<sessionVars, loopVars, sourceMap, pc, streamVars, since, clientVars>>

\* Read returns a response: it is sent to the source, or that fails.
Respond(p) ==
    /\ handler[p] = "reading"
    /\ ~ReadFails(p)
    /\ since' = [since EXCEPT ![p] = 0]
    /\ \E next \in {"checking", "closing"} : handler' = [handler EXCEPT ![p] = next]
    /\ UNCHANGED <<sessionVars, loopVars, sourceMap, pc, streamVars, deadline, clientVars>>

\* Read returns an error: the deadline passed, or the stream ended or failed.
TimeoutIsActivity(p) == since' = [since EXCEPT ![p] = 0]    \* mutant
TimeoutContinues(p) == UNCHANGED since

ReadTimeout(p) ==
    /\ handler[p] = "reading"
    /\ deadline[p] = "passed"
    /\ handler' = [handler EXCEPT ![p] = "checking"]
    /\ TimeoutContinues(p)
    /\ UNCHANGED <<sessionVars, loopVars, sourceMap, pc, streamVars, deadline, clientVars>>

ReadError(p) ==
    /\ handler[p] = "reading"
    /\ ReadFails(p)
    /\ handler' = [handler EXCEPT ![p] = "closing"]
    /\ UNCHANGED <<sessionVars, loopVars, sourceMap, pc, streamVars, clockVars, clientVars>>

\* A tick, the time to a read deadline, passes.
Tick(p) ==
    /\ Serving(p)
    /\ since' = [since EXCEPT ![p] = IF @ > IdleLimit THEN @ ELSE @ + 1]
    /\ deadline' = [deadline EXCEPT ![p] = IF @ = "set" THEN "passed" ELSE @]
    /\ UNCHANGED <<sessionVars, loopVars, sourceMap, pc, streamVars, handler, clientVars>>

\* The deferred Close, which over TCP sends a frame and may have to wait ...
CloseStream(p) ==
    /\ handler[p] = "closing"
    /\ closed[p] \/ HasDeadline \/ ~Waits(via[p])
    /\ closed' = [closed EXCEPT ![p] = TRUE]
    /\ handler' = [handler EXCEPT ![p] = "deleting"]
    /\ UNCHANGED <<sessionVars, loopVars, sourceMap, pc, owner, via, eof, clockVars, clientVars>>

\* ... and Delete, of the key, whatever stream it now stands for.
DeleteKey(p) == [sourceMap EXCEPT ![owner[p]] = None]

HandlerReturns(p) ==
    /\ handler[p] = "deleting"
    /\ sourceMap' = DeleteKey(p)
    /\ handler' = [handler EXCEPT ![p] = "done"]
    /\ UNCHANGED <<sessionVars, loopVars, pc, streamVars, clockVars, clientVars>>

-----------------------------------------------------------------------------
(***************************************************************************)
(* The client: handleUDPStream, in the handleStream that was started for   *)
(* the stream.                                                             *)
(***************************************************************************)

Set(f, p, v) == [f EXCEPT ![p] = v]

\* handleUDPStream returns, when connCtx is cancelled, and handleStream closes
\* the stream; between the two nothing happens that another could see.
NoEOF(p) == eof    \* mutant: the stream stays open
EOF(p) == Set(eof, p, TRUE)
ClientReturns(p) == client' = Set(client, p, "done") /\ eof' = EOF(p)

\* AcceptStream and the header; then a socket to the service and the two
\* goroutines, or an error: the port is not the client's, no socket.
ClientAccepts(p) ==
    /\ client[p] = "none" /\ owner[p] # None
    /\ alive[via[p]]
    /\ stream = p => pc # "header"
    /\ \/ client' = Set(client, p, "relaying") /\ inbound' = Set(inbound, p, TRUE) /\ UNCHANGED eof
       \/ ClientReturns(p) /\ UNCHANGED inbound
    /\ UNCHANGED <<sessionVars, loopVars, sourceMap, pc, owner, via, closed, handler, clockVars>>

\* A goroutine that returns cancels connCtx, if the other has not.
Cancel(p) ==
    \/ client[p] = "relaying" /\ ClientReturns(p)
    \/ client[p] = "done" /\ UNCHANGED <<client, eof>>

\* Stream to service: its Read returns at the end of the stream, when the server
\* closed it or the session ended, and not when the client closes its own end.
InboundEnds(p) ==
    /\ inbound[p]
    /\ closed[p] \/ ~alive[via[p]]
    /\ inbound' = Set(inbound, p, FALSE) /\ Cancel(p)
    /\ UNCHANGED <<sessionVars, loopVars, sourceMap, pc, owner, via, closed, handler, clockVars>>

\* ... or with a datagram that the service's socket does not take.
InboundFails(p) ==
    /\ inbound[p]
    /\ ~closed[p] /\ alive[via[p]]
    /\ inbound' = Set(inbound, p, FALSE) /\ Cancel(p)
    /\ UNCHANGED <<sessionVars, loopVars, sourceMap, pc, owner, via, closed, handler, clockVars>>

\* Service to stream: the socket fails, for the service is gone.  When connCtx
\* is done, the goroutine sees it within 100 ms, and has nothing else to wait for.
OutboundFails(p) ==
    /\ client[p] = "relaying"
    /\ Cancel(p)
    /\ UNCHANGED <<sessionVars, loopVars, sourceMap, pc, owner, via, closed, handler, clockVars, inbound>>

LoopStep ==
    \/ WriteDatagram \/ DeleteSource \/ PickSession \/ OpenStream \/ WriteHeader
    \/ StoreStream

HandlerStep(p) ==
    \/ CheckTimeout(p) \/ ReadTimeout(p) \/ ReadError(p)
    \/ CloseStream(p) \/ HandlerReturns(p)

ClientStep(p) == ClientAccepts(p) \/ InboundEnds(p)

Next ==
    \/ \E s \in Sessions :
          \/ RegisterSession(s) \/ UnregisterSession(s) \/ SessionDies(s)
          \/ Stall(s) \/ Drain(s)
    \/ \E a \in Sources : ReadFromUDP(a)
    \/ LoopStep
    \/ \E p \in Streams :
          \/ HandlerStep(p) \/ Respond(p) \/ Tick(p)
          \/ ClientStep(p) \/ InboundFails(p) \/ OutboundFails(p)

Spec == Init /\ [][Next]_vars

\* The goroutines run and time passes; nothing is assumed of sources, clients and sessions.
FairSpec == Spec /\ WF_vars(LoopStep) /\ \A p \in Streams :
    WF_vars(HandlerStep(p)) /\ WF_vars(Tick(p)) /\ WF_vars(ClientStep(p))

-----------------------------------------------------------------------------
(***************************************************************************)
(* Properties.                                                             *)
(***************************************************************************)

\* A stream is open only in the hands of the receive loop or of its response
\* goroutine, one of which will close it: no error path leaks one.
OpenIsOwned ==
    \A p \in Streams : owner[p] # None /\ ~closed[p] =>
        \/ stream = p /\ pc \in {"header", "store", "start"}
        \/ Serving(p) \/ handler[p] = "closing"

\* A source's entry never outlives the goroutine that is to delete it, so no
\* source is left with a stream that nobody reads.
MappedIsServed ==
    \A a \in Sources : sourceMap[a] # None =>
        \/ handler[sourceMap[a]] \in {"checking", "reading", "closing", "deleting"}
        \/ stream = sourceMap[a] /\ pc = "start"

Live(p) == Serving(p) /\ ~closed[p] /\ ~ReadFails(p)

\* "First, check whether an existing stream exists for this address": a source
\* does not get a second stream while it has one that works.
OneStreamPerSource ==
    \A p, q \in Streams : Live(p) /\ Live(q) /\ owner[p] = owner[q] => p = q

\* "60 second timeout for idle streams", and "Set a read deadline to prevent
\* blocking indefinitely": a goroutine stays in its loop for good only if there is
\* always another response.
IdleStreamsClosed ==
    \A p \in Streams : <>[]Serving(p) => []<><<Respond(p)>>_vars

\* When either end is done with a stream or its session is gone, both ends come
\* to an end, without another datagram of the source: the map has forgotten the
\* stream, and every goroutine has returned, the client's reader too, which its
\* own Close does not wake.
BothEndsReturn ==
    \A p \in Streams :
        (owner[p] # None /\ (closed[p] \/ client[p] = "done" \/ ~alive[via[p]])) ~>
            /\ closed[p] /\ handler[p] \in {"none", "done"}
            /\ client[p] \in {"none", "done"} /\ ~inbound[p]
            /\ \A a \in Sources : sourceMap[a] # p
=============================================================================
