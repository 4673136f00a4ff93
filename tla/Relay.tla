------------------------------- MODULE Relay -------------------------------
(***************************************************************************)
(* One relayed TCP connection, end to end: the user, the server's relay    *)
(* (server/listener.go), the stream, the client's relay (handleStream and  *)
(* handleTCPStream in client/client.go) and the local service.             *)
(*                                                                         *)
(* The two relays are alike: a handler and two copies, io.Copy, one in     *)
(* each direction; the first copy to end makes the handler close the       *)
(* stream and the local connection.  The stream is what TCPMux shows a     *)
(* stream to be: a FIFO in each direction, whose Close leaves a            *)
(* zero-length frame behind and wakes no reader of its own side.  A frame  *)
(* that a copy gets out after that one is not for this stream any more     *)
(* (TCPMux, OverlappedClose), so the chunk is lost.                        *)
(*                                                                         *)
(* Each application's data are chunks 1, 2, ..., in the sockets, in the    *)
(* hands of the copies and in the stream.                                  *)
(***************************************************************************)
EXTENDS Integers, Sequences

CONSTANTS
    UserChunks, ServiceChunks,  \* bounds: what the two applications send
    SocketCap                   \* bound: chunks a local socket holds

ASSUME RelayAssumption == UserChunks \in Nat /\ ServiceChunks \in Nat /\ SocketCap \in Nat

\* The user is on the server's side, the service on the client's.
Sides == {"server", "client"}
Peer(x) == IF x = "server" THEN "client" ELSE "server"
Chunks(x) == IF x = "server" THEN UserChunks ELSE ServiceChunks

\* Frames that are no data: the zero-length one, and the header.
End == 0
Header == -1

VARIABLES
    sent, got,    \* chunks the application at x has sent, and received
    fin,          \* fin[x]: it has closed its direction
    gone,         \* gone[x]: it has closed its connection altogether
    seen,         \* seen[x]: how its own input ended: "none", "eof", "reset"
    out, in,      \* the local socket: chunks to the relay, and from it
    local,        \* local[x]: the relay's localConn
    handler,      \* handler[x]: where the handler is
    copyOut,      \* copyOut[x]: io.Copy(stream, localConn)
    copyIn,       \* copyIn[x]: io.Copy(localConn, stream)
    outBuf, inBuf,\* the chunk each copy holds
    closed,       \* closed[x]: stream.Close was called
    pipe,         \* pipe[x]: frames on their way to x, or buffered there
    alive,        \* the session lives
    stopping      \* the client's context is cancelled

apps == <<sent, got, fin, gone, seen>>
sockets == <<out, in, local>>
outCopy == <<copyOut, outBuf>>
inCopy == <<copyIn, inBuf>>
strm == <<closed, pipe>>
session == <<alive, stopping>>
vars == <<apps, sockets, handler, outCopy, inCopy, strm, session>>

Both(v) == [x \in Sides |-> v]
OnServer(v, w) == [x \in Sides |-> IF x = "server" THEN v ELSE w]

\* The listener has opened the stream and written the header.
Init ==
    /\ sent = Both(0) /\ got = Both(0) /\ fin = Both(FALSE)
    /\ gone = Both(FALSE) /\ seen = Both("none")
    /\ out = Both(<<>>) /\ in = Both(<<>>) /\ local = OnServer("open", "none")
    /\ handler = OnServer("wait", "queued")
    /\ copyOut = OnServer("read", "off") /\ copyIn = OnServer("read", "off")
    /\ outBuf = Both(0) /\ inBuf = Both(0)
    /\ closed = Both(FALSE) /\ pipe = OnServer(<<>>, <<Header>>)
    /\ alive = TRUE /\ stopping = FALSE

-----------------------------------------------------------------------------
(***************************************************************************)
(* The applications and the operating system's ends of their connections.  *)
(***************************************************************************)

Send(x) ==
    /\ local[x] = "open"
    /\ ~fin[x] /\ sent[x] < Chunks(x)
    /\ Len(out[x]) < SocketCap
    /\ sent' = [sent EXCEPT ![x] = @ + 1]
    /\ out' = [out EXCEPT ![x] = Append(@, sent[x] + 1)]
    /\ UNCHANGED <<got, fin, gone, seen, in, local, handler, outCopy, inCopy, strm, session>>

\* It has sent all it wants, and still reads.
Fin(x) ==
    /\ local[x] = "open"
    /\ ~fin[x]
    /\ fin' = [fin EXCEPT ![x] = TRUE]
    /\ UNCHANGED <<sent, got, gone, seen, sockets, handler, outCopy, inCopy, strm, session>>

\* It closes the connection and reads no more.
Leave(x) ==
    /\ local[x] = "open"
    /\ ~gone[x]
    /\ gone' = [gone EXCEPT ![x] = TRUE]
    /\ fin' = [fin EXCEPT ![x] = TRUE]
    /\ in' = [in EXCEPT ![x] = <<>>]
    /\ UNCHANGED <<sent, got, seen, out, local, handler, outCopy, inCopy, strm, session>>

Recv(x) ==
    /\ in[x] # <<>> /\ seen[x] = "none"
    /\ got' = [got EXCEPT ![x] = @ + 1]
    /\ in' = [in EXCEPT ![x] = Tail(@)]
    /\ UNCHANGED <<sent, fin, gone, seen, out, local, handler, outCopy, inCopy, strm, session>>

\* The relay has closed the connection.  If it left input unread the system
\* resets the connection, and what the application has not read may be gone.
SeeEnd(x) ==
    /\ local[x] = "closed" /\ seen[x] = "none" /\ ~gone[x]
    /\ \/ in[x] = <<>> /\ seen' = [seen EXCEPT ![x] = "eof"]
       \/ out[x] # <<>> /\ seen' = [seen EXCEPT ![x] = "reset"]
    /\ UNCHANGED <<sent, got, fin, gone, sockets, handler, outCopy, inCopy, strm, session>>

-----------------------------------------------------------------------------
(***************************************************************************)
(* The copies.                                                             *)
(***************************************************************************)

\* Read of localConn: data first, then the end, which ends the copy.
ReadLocal(x) ==
    /\ copyOut[x] = "read"
    /\ \/ /\ local[x] = "open" /\ out[x] # <<>>
          /\ outBuf' = [outBuf EXCEPT ![x] = Head(out[x])]
          /\ out' = [out EXCEPT ![x] = Tail(@)]
          /\ copyOut' = [copyOut EXCEPT ![x] = "write"]
       \/ /\ local[x] = "closed" \/ (fin[x] /\ out[x] = <<>>)
          /\ copyOut' = [copyOut EXCEPT ![x] = "done"]
          /\ UNCHANGED <<out, outBuf>>
    /\ UNCHANGED <<apps, in, local, handler, inCopy, strm, session>>

\* Write of the stream: refused when it was closed here or the session ended.
PassedUnlessEnd(x) ==   \* mutant: looks at the io.EOF of a Read before its data
    IF fin[x] /\ out[x] = <<>> THEN pipe[Peer(x)] ELSE Append(pipe[Peer(x)], outBuf[x])
Passed(x) == Append(pipe[Peer(x)], outBuf[x])

WriteStream(x) ==
    /\ copyOut[x] = "write"
    /\ \/ /\ alive /\ ~closed[x]
          /\ pipe' = [pipe EXCEPT ![Peer(x)] = Passed(x)]
          /\ copyOut' = [copyOut EXCEPT ![x] = "read"]
       \/ /\ ~alive \/ closed[x]
          /\ copyOut' = [copyOut EXCEPT ![x] = "done"]
          /\ UNCHANGED pipe
    /\ outBuf' = [outBuf EXCEPT ![x] = 0]
    /\ UNCHANGED <<apps, sockets, handler, inCopy, closed, session>>

\* What a Read of the stream finds: the end is final, and comes after the data.
EndedEarly(x) ==   \* mutant: the end overtakes the data
    IF pipe[x] = <<>> THEN ~alive ELSE pipe[x][Len(pipe[x])] = End
Ended(x) == IF pipe[x] = <<>> THEN ~alive ELSE Head(pipe[x]) = End

ReadStream(x) ==
    /\ copyIn[x] = "read"
    /\ \/ /\ ~Ended(x) /\ pipe[x] # <<>>
          /\ inBuf' = [inBuf EXCEPT ![x] = Head(pipe[x])]
          /\ pipe' = [pipe EXCEPT ![x] = Tail(@)]
          /\ copyIn' = [copyIn EXCEPT ![x] = "write"]
       \/ /\ Ended(x)
          /\ copyIn' = [copyIn EXCEPT ![x] = "done"]
          /\ UNCHANGED <<inBuf, pipe>>
    /\ UNCHANGED <<apps, sockets, handler, outCopy, closed, session>>

\* Write of localConn: waits for room, fails when either end has closed it.
WriteLocal(x) ==
    /\ copyIn[x] = "write"
    /\ \/ /\ local[x] = "open" /\ ~gone[x] /\ Len(in[x]) < SocketCap
          /\ in' = [in EXCEPT ![x] = Append(@, inBuf[x])]
          /\ copyIn' = [copyIn EXCEPT ![x] = "read"]
       \/ /\ local[x] = "closed" \/ gone[x]
          /\ copyIn' = [copyIn EXCEPT ![x] = "done"]
          /\ UNCHANGED in
    /\ inBuf' = [inBuf EXCEPT ![x] = 0]
    /\ UNCHANGED <<apps, out, local, handler, outCopy, strm, session>>

-----------------------------------------------------------------------------
(***************************************************************************)
(* The handlers.                                                           *)
(***************************************************************************)

\* handleIncomingStreams accepts the stream and starts handleStream.
AcceptStream ==
    /\ handler["client"] = "queued"
    /\ handler' = [handler EXCEPT !["client"] = "header"]
    /\ UNCHANGED <<apps, sockets, outCopy, inCopy, strm, session>>

\* io.ReadFull of the header, which names a port of the client's, or an error.
HeaderGreedy(p) == IF Len(p) > 1 THEN Tail(Tail(p)) ELSE Tail(p)   \* mutant: reads past it
AfterHeader(p) == Tail(p)
ReadHeader ==
    /\ handler["client"] = "header"
    /\ \/ /\ pipe["client"] # <<>>
          /\ pipe' = [pipe EXCEPT !["client"] = AfterHeader(@)]
          /\ handler' = [handler EXCEPT !["client"] = "dial"]
       \/ /\ pipe["client"] = <<>> /\ ~alive
          /\ handler' = [handler EXCEPT !["client"] = "stream"]
          /\ UNCHANGED pipe
    /\ UNCHANGED <<apps, sockets, outCopy, inCopy, closed, session>>

NoCopyIn == copyIn   \* mutant: one direction only
StartCopyIn == [copyIn EXCEPT !["client"] = "read"]

\* net.Dial reaches the service, and the copies start; or it fails.
Dial ==
    /\ handler["client"] = "dial"
    /\ \/ /\ handler' = [handler EXCEPT !["client"] = "wait"]
          /\ local' = [local EXCEPT !["client"] = "open"]
          /\ copyOut' = [copyOut EXCEPT !["client"] = "read"]
          /\ copyIn' = StartCopyIn
       \/ /\ handler' = [handler EXCEPT !["client"] = "stream"]
          /\ UNCHANGED <<local, copyOut, copyIn>>
    /\ UNCHANGED <<apps, out, in, outBuf, inBuf, strm, session>>

\* connCtx is done: by a copy that ended or, on the client, from above.
CancelledByBoth(x) == copyOut[x] = "done" /\ copyIn[x] = "done"   \* mutant: waits for both
Cancelled(x) ==
    copyOut[x] = "done" \/ copyIn[x] = "done" \/ (x = "client" /\ stopping)

\* The deferred calls: the server closes the stream first, the client localConn.
\* The client's handler comes to CloseStream at once when it has no localConn.
CloseStream(x) ==
    /\ handler[x] = "stream" \/ (x = "server" /\ handler[x] = "wait" /\ Cancelled(x))
    /\ closed' = [closed EXCEPT ![x] = TRUE]
    /\ pipe' = IF alive THEN [pipe EXCEPT ![Peer(x)] = Append(@, End)] ELSE pipe
    /\ handler' = [handler EXCEPT ![x] = IF x = "server" THEN "local" ELSE "done"]
    /\ UNCHANGED <<apps, sockets, outCopy, inCopy, session>>

CloseLocal(x) ==
    /\ handler[x] = "local" \/ (x = "client" /\ handler[x] = "wait" /\ Cancelled(x))
    /\ local' = [local EXCEPT ![x] = "closed"]
    /\ handler' = [handler EXCEPT ![x] = IF x = "server" THEN "done" ELSE "stream"]
    /\ UNCHANGED <<apps, out, in, outCopy, inCopy, strm, session>>

-----------------------------------------------------------------------------
(***************************************************************************)
(* The session and the client.                                             *)
(***************************************************************************)

\* The session is closed by an end of it, or lost, with what was on its way.
SessionEnds ==
    /\ alive
    /\ alive' = FALSE
    /\ \E n \in 0..Len(pipe["server"]), m \in 0..Len(pipe["client"]) :
          pipe' = OnServer(SubSeq(pipe["server"], 1, n), SubSeq(pipe["client"], 1, m))
    /\ UNCHANGED <<apps, sockets, handler, outCopy, inCopy, closed, stopping>>

\* Interrupt: the client cancels its context ...
Stop ==
    /\ ~stopping /\ alive
    /\ stopping' = TRUE
    /\ UNCHANGED <<apps, sockets, handler, outCopy, inCopy, strm, alive>>

\* ... and its process ends within five seconds, with all it has.
Exit ==
    /\ stopping
    /\ alive' = FALSE
    /\ handler' = [handler EXCEPT !["client"] = "done"]
    /\ copyOut' = [copyOut EXCEPT !["client"] = "done"]
    /\ copyIn' = [copyIn EXCEPT !["client"] = "done"]
    /\ local' = [local EXCEPT !["client"] = "closed"]
    /\ outBuf' = [outBuf EXCEPT !["client"] = 0]
    /\ inBuf' = [inBuf EXCEPT !["client"] = 0]
    /\ pipe' = [pipe EXCEPT !["client"] = <<>>]
    /\ UNCHANGED <<apps, out, in, closed, stopping>>

-----------------------------------------------------------------------------
App(x) == Send(x) \/ Fin(x) \/ Leave(x) \/ Recv(x) \/ SeeEnd(x)
CopyOut(x) == ReadLocal(x) \/ WriteStream(x)
CopyIn(x) == ReadStream(x) \/ WriteLocal(x)
Handler(x) == CloseStream(x) \/ CloseLocal(x)
HandleStream == AcceptStream \/ ReadHeader \/ Dial

Next ==
    \/ \E x \in Sides : App(x) \/ CopyOut(x) \/ CopyIn(x) \/ Handler(x)
    \/ HandleStream
    \/ SessionEnds \/ Stop \/ Exit

Spec == Init /\ [][Next]_vars

\* What runs on as long as it can: every goroutine, a client process that was
\* told to stop, and the reading of applications that have the connection (a
\* copy blocked in a write to one that does not read is never released).
Progress ==
    \/ \E x \in Sides : CopyOut(x) \/ CopyIn(x) \/ Handler(x) \/ Recv(x)
    \/ HandleStream \/ Exit

\* No step can be repeated, so fairness to all together is fairness to each.
Fairness == WF_vars(Progress)

FairSpec == Spec /\ Fairness
-----------------------------------------------------------------------------
(***************************************************************************)
(* Properties.                                                             *)
(***************************************************************************)

InHand(n) == IF n = 0 THEN <<>> ELSE <<n>>

\* The frames of a stream without its header and its end.
Data(p) ==
    SubSeq(p, IF p # <<>> /\ Head(p) = Header THEN 2 ELSE 1,
              IF p # <<>> /\ p[Len(p)] = End THEN Len(p) - 1 ELSE Len(p))

\* The chunks in the stream and beyond that still reach the application at x,
\* and all there are for it.
Relayed(x) ==
    in[x] \o IF copyIn[x] = "done" THEN <<>> ELSE InHand(inBuf[x]) \o Data(pipe[x])
UnderWay(x) == Relayed(x) \o InHand(outBuf[Peer(x)]) \o out[Peer(x)]

\* Whatever ends or breaks, what gets through is in order, with no chunk
\* missing before another.
InOrder ==
    \A x \in Sides : ~gone[x] =>
        \A i \in 1..Len(Relayed(x)) : Relayed(x)[i] = got[x] + i

\* As long as neither relay has begun to close, and the session lives, every
\* chunk that was sent is still somewhere on its way.
Intact ==
    (alive /\ \A x \in Sides : ~closed[x] /\ local[x] # "closed" /\ ~gone[x])
        => \A x \in Sides : got[x] + Len(UnderWay(x)) = sent[Peer(x)]

\* An application that sees the clean end of its input has received all that
\* its peer sent, if the peer ended first and still reads, and neither the
\* session nor the client process ended, nor the service refused.
EndMeansAll ==
    [][\A x \in Sides :
          /\ seen[x] = "none" /\ seen'[x] = "eof"
          /\ ~fin[x] /\ ~gone[Peer(x)] /\ alive /\ ~stopping /\ local["client"] # "none"
          => got[x] = sent[Peer(x)]]_vars

\* Both relays are gone, with their goroutines and connections.
Over ==
    \A x \in Sides :
        /\ handler[x] = "done" \/ (handler[x] = "queued" /\ ~alive)
        /\ copyOut[x] \in {"off", "done"} /\ copyIn[x] \in {"off", "done"}
        /\ local[x] # "open"

\* Whatever ends first, an application, the session or the client, all that the
\* connection used at both ends is released.
Released == ((\E x \in Sides : fin[x]) \/ ~alive \/ stopping) ~> Over

\* Until somebody ends the connection everything sent arrives: the two
\* directions never hold up each other, however full the sockets are.
Arrives ==
    \A x \in Sides :
        sent[x] > 0 ~> (got[Peer(x)] = sent[x] \/ Over \/ \E y \in Sides : fin[y])
=============================================================================
