------------------------------- MODULE TCPMux -------------------------------
(***************************************************************************)
(* The TCP stream multiplexer of common/multidialer/multidialer.go: two    *)
(* endpoints (tcpSession) of one TCP/TLS connection, the streams           *)
(* (tcpStream) opened over it, and the goroutine (readLoop) that reads     *)
(* frames and hands them to streams.                                       *)
(*                                                                         *)
(* A frame is [id, n]: the stream ID of the header and, for its payload,   *)
(* the position n = 1, 2, ... of the frame among those its stream wrote;   *)
(* n = 0 is the zero-length frame that Close sends.  late is history: does *)
(* the frame follow the zero-length frame of its own stream?  A frame is   *)
(* never split: header and payload are written under writeMu.  The check   *)
(* of s.closed in writeFrame and the write that follows are one step: the  *)
(* write touches only the wire, so it commutes with a close(s.closed) that *)
(* falls between them.                                                     *)
(*                                                                         *)
(* The callers of the library (client, server) are represented by what     *)
(* they may do with a session and a stream: open, accept, read, write,     *)
(* close, in any order, and from several goroutines: a stream may be       *)
(* closed in the middle of a Write.                                        *)
(***************************************************************************)
EXTENDS Integers, Sequences, FiniteSets

CONSTANTS
    MaxStreamID,      \* 65535 in the code: the largest ID a 16-bit header holds
    CounterModulus,   \* 2^32 in the code: nextStreamID is a uint32
    AcceptCap,        \* 128 in the code: the capacity of acceptChan
    MaxStreams,       \* bound: stream objects an endpoint allocates
    MaxOpens,         \* bound: OpenStream calls of each endpoint, a function
    MaxAccepts,       \* how many streams the caller at each endpoint accepts
    MaxWrites,        \* bound: frames written on one stream
    MaxChunks,        \* bound: frames one call of Write is split into
    WireCap,          \* bound: frames the connection buffers in one direction
    SessionClose,     \* may a caller Close the session?
    TransportLoss     \* may the connection break and lose what it carries?

Ends == {"client", "server"}

ASSUME BoundsAssumption ==
    /\ MaxStreamID \in Nat /\ CounterModulus \in Nat /\ AcceptCap \in Nat
    /\ MaxStreams \in Nat /\ MaxWrites \in Nat /\ MaxChunks \in Nat
    /\ WireCap \in Nat
    /\ MaxOpens \in [Ends -> Nat] /\ MaxAccepts \in [Ends -> Nat]
    /\ MaxStreamID >= 2 /\ MaxStreamID < CounterModulus
    /\ {SessionClose, TransportLoss} \subseteq BOOLEAN

Other(e) == IF e = "client" THEN "server" ELSE "client"

IDs == 0..MaxStreamID

\* The k-th stream object allocated at endpoint e is the pointer <<e, k>>.
Stream == Ends \X (1..MaxStreams)
NoStream == <<"none", 0>>

Frame == [id : IDs, n : 0..MaxWrites, late : BOOLEAN]
NoFrame == [id |-> 0, n |-> 0, late |-> FALSE]

VARIABLES
    nextStreamID,  \* nextStreamID[e]: the atomic counter
    opens,         \* opens[e]: OpenStream calls that reached the counter
    opening,       \* opening[e]: OpenStream calls past the check of s.closed
    made,          \* made[e]: stream objects allocated
    streams,       \* streams[e][id]: the sync.Map, NoStream where absent
    acceptChan,    \* acceptChan[e]: the buffered channel of pointers
    accepts,       \* accepts[e]: AcceptStream calls that returned a stream
    closePc,       \* closePc[e]: progress of the closeOnce body of Close
    closeErr,      \* closeErr[e]: the error Close was first called with
    broken,        \* the connection has failed under both endpoints
    wire,          \* wire[e]: frames e has sent and its peer has not read
    rl,            \* rl[e]: where the read loop is
    frame,         \* frame[e]: the frame the read loop holds
    offer,         \* offer[e]: the stream the read loop is queueing
    st             \* st[p]: the fields of stream object p

idVars == <<nextStreamID, opens, opening>>
mapVars == <<made, streams>>
queueVars == <<acceptChan, accepts>>
closeVars == <<closePc, closeErr>>
netVars == <<wire, broken>>
loopVars == <<rl, frame, offer>>
OnlyStreams ==
    UNCHANGED <<idVars, mapVars, queueVars, closeVars, netVars, loopVars>>
vars == <<nextStreamID, opens, opening, made, streams, acceptChan, accepts,
          closePc, closeErr, broken, wire, rl, frame, offer, st>>

\* s.closed is closed, and s.conn.Close() has returned.
Closed(e) == closePc[e] # "open"
ConnClosed(e) == closePc[e] \in {"conn", "done"}

Made(e) == {p \in Stream : p[1] = e /\ p[2] <= made[e]}
AllMade == Made("client") \cup Made("server")

(***************************************************************************)
(* newTCPStream.  own: created by OpenStream rather than by the read loop. *)
(* held: the caller has the pointer.  late: stored when the session was    *)
(* already closing.  sent: frames written, but for the late ones, which    *)
(* over counts.  wr: frames the running Write has still to send.  cl:      *)
(* progress of Close.  got: the last frame the caller has read.  seen: the *)
(* error Read returned, "none" before.                                     *)
(***************************************************************************)
NewTCPStream(id, own, late) ==
    [id |-> id, own |-> own, held |-> own, late |-> late,
     buf |-> <<>>, got |-> 0, readErr |-> "none", seen |-> "none",
     writeClosed |-> FALSE, sent |-> 0, over |-> 0, wr |-> 0, cl |-> "no"]

Errors == {"none", "EOF", "closed", "failed"}

StreamState ==
    [id : IDs, own : BOOLEAN, held : BOOLEAN, late : BOOLEAN,
     buf : Seq(1..MaxWrites), got : 0..MaxWrites,
     readErr : Errors, seen : Errors, writeClosed : BOOLEAN,
     sent : 0..MaxWrites, over : 0..MaxWrites, wr : 0..MaxWrites,
     cl : {"no", "flag", "done"}]

\* Mutant: both roles count from 1.
FirstIDShared(e) == 1
FirstID(e) == IF e = "client" THEN 1 ELSE 2

\* NewTCPSession at both ends of a fresh connection.
Init ==
    /\ nextStreamID = [e \in Ends |-> FirstID(e)]
    /\ opens = [e \in Ends |-> 0]
    /\ opening = [e \in Ends |-> 0]
    /\ made = [e \in Ends |-> 0]
    /\ streams = [e \in Ends |-> [id \in IDs |-> NoStream]]
    /\ acceptChan = [e \in Ends |-> <<>>]
    /\ accepts = [e \in Ends |-> 0]
    /\ closePc = [e \in Ends |-> "open"]
    /\ closeErr = [e \in Ends |-> "none"]
    /\ broken = FALSE
    /\ wire = [e \in Ends |-> <<>>]
    /\ rl = [e \in Ends |-> "read"]
    /\ frame = [e \in Ends |-> NoFrame]
    /\ offer = [e \in Ends |-> NoStream]
    /\ st = [p \in Stream |-> NewTCPStream(0, FALSE, FALSE)]

-----------------------------------------------------------------------------
(***************************************************************************)
(* Opening and accepting.                                                  *)
(***************************************************************************)

\* The first select of OpenStream found the session open.
OpenStreamCheck(e) ==
    /\ ~Closed(e)
    /\ opens[e] + opening[e] < MaxOpens[e]
    /\ opening' = [opening EXCEPT ![e] = @ + 1]
    /\ UNCHANGED <<mapVars, queueVars, closeVars, netVars, loopVars, nextStreamID, opens, st>>

\* atomic.AddUint32(&s.nextStreamID, 2): id - 2 is the value it replaces.
ActualID(e) == nextStreamID[e]
AddID(e) == (nextStreamID[e] + 2) % CounterModulus

\* The 16-bit IDs of this endpoint are used up.
ExhaustedLate(e) == ActualID(e) > MaxStreamID + 1   \* mutant: off by one
Exhausted(e) == ActualID(e) > MaxStreamID

\* The next object is allocated at e and entered in the map under id.
Store(e, id, own) ==
    LET p == <<e, made[e] + 1>> IN
    /\ made[e] < MaxStreams
    /\ made' = [made EXCEPT ![e] = @ + 1]
    /\ streams' = [streams EXCEPT ![e][id] = p]

\* The rest of OpenStream: take an ID; fail with ErrStreamIDsExhausted, or
\* allocate the stream and store it.
OpenStream(e) ==
    /\ opening[e] > 0
    /\ opening' = [opening EXCEPT ![e] = @ - 1]
    /\ opens' = [opens EXCEPT ![e] = @ + 1]
    /\ nextStreamID' = [nextStreamID EXCEPT ![e] = AddID(e)]
    /\ \/ /\ Exhausted(e)
          /\ UNCHANGED <<mapVars, st>>
       \/ /\ ~Exhausted(e)
          /\ Store(e, ActualID(e), TRUE)
          /\ st' = [st EXCEPT ![<<e, made[e] + 1>>] =
                        NewTCPStream(ActualID(e), TRUE, Closed(e))]
    /\ UNCHANGED <<queueVars, closeVars, netVars, loopVars>>

\* AcceptStream returns a queued stream, which its select may do even when
\* s.closed is ready too.
AcceptStream(e) ==
    /\ acceptChan[e] # <<>>
    /\ accepts[e] < MaxAccepts[e]
    /\ acceptChan' = [acceptChan EXCEPT ![e] = Tail(@)]
    /\ accepts' = [accepts EXCEPT ![e] = @ + 1]
    /\ st' = [st EXCEPT ![Head(acceptChan[e])].held = TRUE]
    /\ UNCHANGED <<idVars, mapVars, closeVars, netVars, loopVars>>

-----------------------------------------------------------------------------
(***************************************************************************)
(* Closing the session.                                                    *)
(***************************************************************************)

\* Close(err): only the first call runs the closeOnce body, which begins
\* with close(s.closed).
BeginCloseCaller(e, err) ==   \* mutant: the read loop's return closes nothing
    IF Closed(e) \/ err = "EOF" THEN UNCHANGED closeVars
    ELSE /\ closePc' = [closePc EXCEPT ![e] = "marked"]
         /\ closeErr' = [closeErr EXCEPT ![e] = err]
BeginClose(e, err) ==
    IF Closed(e) THEN UNCHANGED closeVars
    ELSE /\ closePc' = [closePc EXCEPT ![e] = "marked"]
         /\ closeErr' = [closeErr EXCEPT ![e] = err]

\* The error the caller gives to Close: "session closed by server".
CallerErrorEOF == "EOF"   \* mutant: a close that looks like the end of the stream
CallerError == "closed"

\* The caller closes the session.
CloseSession(e) ==
    /\ SessionClose
    /\ ~Closed(e)
    /\ BeginClose(e, CallerError)
    /\ UNCHANGED <<idVars, mapVars, queueVars, netVars, loopVars, st>>

\* s.conn.Close()
CloseConn(e) ==
    /\ closePc[e] = "marked"
    /\ closePc' = [closePc EXCEPT ![e] = "conn"]
    /\ UNCHANGED <<idVars, mapVars, queueVars, netVars, loopVars, closeErr, st>>

\* sessionClosed(err)
SessionClosedHeld(r, err) ==   \* mutant: only streams a caller holds are told
    [r EXCEPT !.readErr = IF @ = "none" /\ r.held THEN err ELSE @,
              !.writeClosed = TRUE]
SessionClosedDrop(r, err) ==   \* mutant: what is buffered goes, too
    [r EXCEPT !.readErr = IF @ = "none" THEN err ELSE @,
              !.writeClosed = TRUE, !.buf = <<>>]
SessionClosed(r, err) ==
    [r EXCEPT !.readErr = IF @ = "none" THEN err ELSE @, !.writeClosed = TRUE]

\* s.streams.Range(sessionClosed) over the streams the map holds.
CloseRange(e) ==
    /\ closePc[e] = "conn"
    /\ closePc' = [closePc EXCEPT ![e] = "done"]
    /\ st' = [p \in Stream |->
                 IF \E id \in IDs : streams[e][id] = p
                 THEN SessionClosed(st[p], closeErr[e]) ELSE st[p]]
    /\ UNCHANGED <<idVars, mapVars, queueVars, netVars, loopVars, closeErr>>

-----------------------------------------------------------------------------
(***************************************************************************)
(* Writing.                                                                *)
(***************************************************************************)

\* Nothing reads what is written now: the peer closed its connection, or it
\* is lost.
Unread(e) == broken \/ ConnClosed(Other(e))

\* writeFrame returned without an error: the frame is on the wire, though
\* the peer may have closed its end, or in a socket whose connection is lost.
FrameWritten(e, f) ==
    /\ ~Closed(e)
    /\ IF broken THEN UNCHANGED wire
       ELSE /\ Len(wire[e]) < WireCap
            /\ wire' = [wire EXCEPT ![e] = Append(@, f)]
    /\ UNCHANGED closeVars

\* writeFrame returned an error: ErrSessionClosed, or a failed write, which
\* closes the session.
FrameRefused(e) ==
    /\ Closed(e) \/ Unread(e)
    /\ BeginClose(e, "failed")
    /\ UNCHANGED wire

\* The check of writeClosed at the start of Write, and the number k of frames
\* its payload needs.
WriteCheck(p, k) ==
    /\ st[p].held
    /\ st[p].wr = 0
    /\ ~st[p].writeClosed
    /\ st[p].sent + st[p].over + k <= MaxWrites
    /\ st' = [st EXCEPT ![p].wr = k]
    /\ OnlyStreams

\* The frame that the loop of Write sends next, which has no second look at
\* writeClosed.
DataFrame(p) ==
    [id |-> st[p].id, n |-> st[p].sent + st[p].over + 1, late |-> st[p].cl = "done"]
Sent(r) ==
    IF r.cl = "done" THEN [r EXCEPT !.over = @ + 1, !.wr = @ - 1]
    ELSE [r EXCEPT !.sent = @ + 1, !.wr = @ - 1]

\* One turn of the loop of Write.
WriteFrame(p) ==
    /\ st[p].wr > 0
    /\ \/ /\ FrameWritten(p[1], DataFrame(p))
          /\ st' = [st EXCEPT ![p] = Sent(@)]
       \/ /\ FrameRefused(p[1])
          /\ st' = [st EXCEPT ![p].wr = 0]
    /\ UNCHANGED <<idVars, mapVars, queueVars, loopVars, broken>>

\* All that the callers of Close take care of: a stream they opened has
\* carried its header, unless that could not be written.
MayClose(p) == ~st[p].own \/ st[p].sent > 0 \/ Closed(p[1])

\* Close: writeClosed is set before the zero-length frame is sent.
CloseStream(p) ==
    /\ st[p].held
    /\ st[p].cl = "no"
    /\ MayClose(p)
    /\ st' = [st EXCEPT ![p].cl = "flag", ![p].writeClosed = TRUE]
    /\ OnlyStreams

\* Close leaves its own map entry alone: the peer's zero-length frame removes it.
DropAtClose(p) == streams' = [streams EXCEPT ![p[1]][st[p].id] = NoStream]   \* mutant
KeepAtClose(p) == UNCHANGED streams

CloseFrame(p) ==
    /\ st[p].cl = "flag"
    /\ \/ FrameWritten(p[1], [id |-> st[p].id, n |-> 0, late |-> FALSE])
       \/ FrameRefused(p[1])
    /\ st' = [st EXCEPT ![p].cl = "done"]
    /\ KeepAtClose(p)
    /\ UNCHANGED <<idVars, queueVars, loopVars, broken, made>>

-----------------------------------------------------------------------------
(***************************************************************************)
(* Reading.                                                                *)
(***************************************************************************)

\* What bytes.Buffer keeps after a Read of its first k frames.
AfterReadAgain(buf, k) == SubSeq(buf, k, Len(buf))   \* mutant: the last is read twice
AfterRead(buf, k) == SubSeq(buf, k + 1, Len(buf))

\* Read returns buffered data, whether or not an error is set.
Read(p, k) ==
    /\ st[p].held
    /\ k <= Len(st[p].buf)
    /\ st' = [st EXCEPT ![p].got = st[p].buf[k], ![p].buf = AfterRead(@, k)]
    /\ OnlyStreams

\* The error that ended the stream comes once the buffer is empty.
AtEndEarly(p) == st[p].readErr # "none"   \* mutant: the error overtakes the data
AtEnd(p) == st[p].buf = <<>> /\ st[p].readErr # "none"

ReadEnd(p) ==
    /\ st[p].held
    /\ AtEnd(p)
    /\ st[p].seen = "none"
    /\ st' = [st EXCEPT ![p].seen = st[p].readErr]
    /\ OnlyStreams

-----------------------------------------------------------------------------
(***************************************************************************)
(* The read loop.                                                          *)
(***************************************************************************)

\* io.ReadFull of a header and its payload.
ReadFrame(e) ==
    /\ rl[e] = "read"
    /\ ~ConnClosed(e)
    /\ wire[Other(e)] # <<>>
    /\ rl' = [rl EXCEPT ![e] = "dispatch"]
    /\ frame' = [frame EXCEPT ![e] = Head(wire[Other(e)])]
    /\ wire' = [wire EXCEPT ![Other(e)] = Tail(@)]
    /\ UNCHANGED <<idVars, mapVars, queueVars, closeVars, broken, offer, st>>

\* io.ReadFull fails: the connection was closed here, or closed by the peer
\* or lost after everything it still carried was read.  The loop returns, and
\* its deferred call closes the session with io.EOF.
ReadFail(e) ==
    /\ rl[e] = "read"
    /\ ConnClosed(e) \/ (Unread(e) /\ wire[Other(e)] = <<>>)
    /\ rl' = [rl EXCEPT ![e] = "done"]
    /\ BeginClose(e, "EOF")
    /\ UNCHANGED <<idVars, mapVars, queueVars, netVars, frame, offer, st>>

\* pushData
PushDataOver(r, n) ==   \* mutant: the frame replaces what is buffered
    IF n = 0 THEN [r EXCEPT !.readErr = "EOF"] ELSE [r EXCEPT !.buf = <<n>>]
PushData(r, n) ==
    IF n = 0 THEN [r EXCEPT !.readErr = "EOF"] ELSE [r EXCEPT !.buf = Append(@, n)]

Target(e) == streams[e][frame[e].id]

\* The frame that makes a new stream is pushed to it, too.
FirstPushNone(r, n) == r   \* mutant: the first frame only makes the stream
FirstPush(r, n) == PushData(r, n)

\* s.streams.Load(id) found nothing: a new stream, to be queued next.
DispatchNew(e) ==
    /\ rl[e] = "dispatch"
    /\ Target(e) = NoStream
    /\ Store(e, frame[e].id, FALSE)
    /\ st' = [st EXCEPT ![<<e, made[e] + 1>>] =
                  FirstPush(NewTCPStream(frame[e].id, FALSE, Closed(e)), frame[e].n)]
    /\ rl' = [rl EXCEPT ![e] = "accept"]
    /\ offer' = [offer EXCEPT ![e] = <<e, made[e] + 1>>]
    /\ frame' = [frame EXCEPT ![e] = NoFrame]
    /\ UNCHANGED <<idVars, queueVars, closeVars, netVars>>

\* removeStream
RemoveNothing(e, id) == UNCHANGED streams   \* mutant: the entry stays
RemoveStream(e, id) == streams' = [streams EXCEPT ![e][id] = NoStream]

\* A known stream: push the data; a zero-length frame also removes the entry.
DispatchKnown(e) ==
    /\ rl[e] = "dispatch"
    /\ Target(e) # NoStream
    /\ st' = [st EXCEPT ![Target(e)] = PushData(@, frame[e].n)]
    /\ IF frame[e].n = 0 THEN RemoveStream(e, frame[e].id) ELSE UNCHANGED streams
    /\ rl' = [rl EXCEPT ![e] = "read"]
    /\ frame' = [frame EXCEPT ![e] = NoFrame]
    /\ UNCHANGED <<idVars, queueVars, closeVars, netVars, made, offer>>

QueueHasRoom(e) == Len(acceptChan[e]) < AcceptCap

\* The select that queues a new stream, or gives up once the session closes.
OfferStream(e) ==
    /\ rl[e] = "accept"
    /\ \/ /\ QueueHasRoom(e)
          /\ acceptChan' = [acceptChan EXCEPT ![e] = Append(@, offer[e])]
          /\ rl' = [rl EXCEPT ![e] = "read"]
       \/ /\ Closed(e)
          /\ rl' = [rl EXCEPT ![e] = "done"]
          /\ UNCHANGED acceptChan
    /\ offer' = [offer EXCEPT ![e] = NoStream]
    /\ UNCHANGED <<idVars, mapVars, closeVars, netVars, accepts, frame, st>>

\* TCP resets a connection that an end has closed without having read all, and
\* one on which something arrives after that.
Reset == \E e \in Ends : ConnClosed(e) /\ wire[Other(e)] # <<>>

\* The connection fails; each direction may lose the end of what it carries.
Lose ==
    /\ TransportLoss \/ Reset
    /\ ~broken
    /\ broken' = TRUE
    /\ \E kept \in [Ends -> 0..WireCap] :
          wire' = [e \in Ends |->
                      SubSeq(wire[e], 1, IF kept[e] < Len(wire[e])
                                         THEN kept[e] ELSE Len(wire[e]))]
    /\ UNCHANGED <<idVars, mapVars, queueVars, closeVars, loopVars, st>>

-----------------------------------------------------------------------------
SessionNext(e) ==
    \/ OpenStreamCheck(e) \/ OpenStream(e) \/ AcceptStream(e)
    \/ CloseSession(e) \/ CloseConn(e) \/ CloseRange(e)

ReadLoop(e) ==
    \/ ReadFrame(e) \/ ReadFail(e)
    \/ DispatchNew(e) \/ DispatchKnown(e) \/ OfferStream(e)

StreamNext(p) ==
    \/ \E k \in 1..MaxChunks : WriteCheck(p, k)
    \/ WriteFrame(p) \/ CloseStream(p) \/ CloseFrame(p)
    \/ \E k \in 1..MaxWrites : Read(p, k)
    \/ ReadEnd(p)

Next ==
    \/ \E e \in Ends : SessionNext(e) \/ ReadLoop(e)
    \/ \E p \in AllMade : StreamNext(p)
    \/ Lose

Spec == Init /\ [][Next]_vars

\* What the Go scheduler gives: goroutines inside a library call run on, and
\* a caller that accepts in a loop keeps accepting.  Nothing makes a caller
\* open, read, write or close.
Fairness ==
    /\ \A e \in Ends :
          /\ WF_vars(ReadLoop(e))
          /\ WF_vars(CloseConn(e) \/ CloseRange(e))
          /\ WF_vars(OpenStream(e))
          /\ WF_vars(AcceptStream(e))
    /\ \A p \in Stream : WF_vars(p \in AllMade /\ (WriteFrame(p) \/ CloseFrame(p)))

FairSpec == Spec /\ Fairness
-----------------------------------------------------------------------------
(***************************************************************************)
(* Properties.                                                             *)
(***************************************************************************)

\* Every field of a session and of its streams holds a value of its Go type,
\* and the channel, the wire and the counters stay within their bounds.
TypeOK ==
    /\ nextStreamID \in [Ends -> 0..(CounterModulus - 1)]
    /\ opens \in [Ends -> Nat] /\ opening \in [Ends -> Nat]
    /\ made \in [Ends -> 0..MaxStreams]
    /\ streams \in [Ends -> [IDs -> Stream \cup {NoStream}]]
    /\ acceptChan \in [Ends -> Seq(Stream)] /\ accepts \in [Ends -> Nat]
    /\ closePc \in [Ends -> {"open", "marked", "conn", "done"}]
    /\ closeErr \in [Ends -> Errors]
    /\ broken \in BOOLEAN
    /\ wire \in [Ends -> Seq(Frame)]
    /\ rl \in [Ends -> {"read", "dispatch", "accept", "done"}]
    /\ frame \in [Ends -> Frame]
    /\ offer \in [Ends -> Stream \cup {NoStream}]
    /\ st \in [Stream -> StreamState]

(***************************************************************************)
(* The streams of e under an ID.  The origin is the one that OpenStream or *)
(* the first frame made; any other is a ghost, made by a later frame.      *)
(***************************************************************************)
At(e, id) == {p \in Made(e) : st[p].id = id}
Origin(e, id) == CHOOSE p \in At(e, id) : \A q \in At(e, id) : p[2] <= q[2]

\* The state of the origin, as new if there is none.
State(e, id) ==
    IF At(e, id) = {} THEN NewTCPStream(id, FALSE, FALSE) ELSE st[Origin(e, id)]

\* No ghost of e has written a frame: what e sends under id is its origin's.
Sole(e, id) ==
    \A p \in At(e, id) :
        p = Origin(e, id) \/ (st[p].sent + st[p].over = 0 /\ st[p].cl # "done")

\* The positions of id's frames between the write at e and the push at the
\* other end, 0 for the zero-length one, late ones apart.
Carries(e, id) ==
    {f \in {wire[e][i] : i \in 1..Len(wire[e])} \cup
           (IF rl[Other(e)] = "dispatch" THEN {frame[Other(e)]} ELSE {}) :
        f.id = id}
InTransit(e, id) == {f.n : f \in {g \in Carries(e, id) : ~g.late}}

\* How far the reader at e has got with the data of id, buffered included.
Pushed(e, id) == State(e, id).got + Len(State(e, id).buf)

\* The odd/even split and the atomic counter keep apart all the streams that
\* the two endpoints open, however their OpenStream calls interleave.
OpenedIDsUnique ==
    \A p, q \in AllMade :
        st[p].own /\ st[q].own /\ st[p].id = st[q].id => p = q

\* "This is a new stream initiated by the peer": the read loop makes a stream
\* only for an ID its peer opened, and once.
OneStreamPerID ==
    \A p, q \in AllMade :
        p[1] = q[1] /\ st[p].id = st[q].id => p = q

\* What the code gives instead.  A second stream under an ID is the work of a
\* late frame under that ID, so that no other stream is to blame, and none is
\* hit but the one that was closed in the middle of a Write.
GhostsAreLate ==
    \A p, q \in AllMade :
        p[1] = q[1] /\ st[p].id = st[q].id /\ p # q
            => \E w \in AllMade : st[w].id = st[p].id /\ st[w].over > 0

\* A stream delivers what was written to it in order, with nothing repeated
\* or skipped: its buffer continues from the last frame its caller read.  Its
\* own late frames and other streams' ghosts do not matter to it, only a ghost
\* of its own at the other end that writes.
InOrder ==
    \A e \in Ends, id \in IDs :
        Sole(Other(e), id) =>
            LET r == State(e, id)
            IN  \A i \in 1..Len(r.buf) : r.buf[i] = r.got + i

\* Nothing is lost on a live connection: every frame a stream wrote before its
\* zero-length frame is with the reader or still on its way, whatever was
\* closed or removed meanwhile.
NothingLost ==
    \A e \in Ends, id \in IDs :
        Sole(e, id) /\ ~broken =>
            (Pushed(Other(e), id) + 1)..State(e, id).sent = InTransit(e, id) \ {0}

\* A caller whose Read returned io.EOF has read every frame its peer wrote
\* before it closed the stream or lost the session, unless the connection failed.
EOFComplete ==
    \A e \in Ends, id \in IDs :
        Sole(Other(e), id) /\ ~broken /\ State(e, id).seen = "EOF"
            => State(e, id).got = State(Other(e), id).sent

\* The peer's zero-length frame leaves nothing of a stream in the map, unless
\* a late frame brings the ID back.
NoLeak ==
    \A e \in Ends, id \in IDs :
        (/\ ~broken /\ ~Closed(e) /\ ~Closed(Other(e))
         /\ Sole(e, id) /\ State(e, id).cl = "done" /\ State(e, id).over = 0
         /\ Carries(e, id) = {})
            => streams[Other(e)][id] = NoStream

\* Once Close has finished, every stream stored before it began has an error
\* for its readers: none of them is left waiting.
CloseReleasesStreams ==
    \A p \in AllMade : closePc[p[1]] = "done" /\ ~st[p].late => st[p].readErr # "none"

\* io.EOF is the last thing a reader gets: no frame reaches it afterwards,
\* not even the one the read loop holds while the session closes, and none of
\* a ghost's.
EOFIsFinal ==
    [][\A e \in Ends, id \in IDs :
            State(e, id).seen = "EOF" =>
                /\ State(e, id)'.seen = "EOF" /\ State(e, id)'.buf = <<>>
                /\ State(e, id)'.got = State(e, id).got]_vars

\* The read loop waits for the accept queue to have room.
HeldUp(e) == rl[e] = "accept" /\ ~QueueHasRoom(e)

\* "Buffer to avoid blocking the read loop": it never waits for good, whatever
\* the caller accepts.
ReadLoopNeverBlocks == \A e \in Ends : HeldUp(e) ~> ~HeldUp(e)

\* Every frame written gets to the peer's stream, unless a session ends, the
\* peer accepts no more or its reader has the frames of a ghost, too.
Delivered ==
    \A e \in Ends, id \in IDs, n \in 1..MaxWrites :
        (State(e, id).sent >= n) ~>
            \/ Pushed(Other(e), id) >= n
            \/ Closed("client") \/ Closed("server") \/ HeldUp(Other(e)) \/ ~Sole(e, id)

\* Closing one session ends both read loops, and so both sessions, but for a
\* loop that waits for its accept queue and does not look at the connection.
CloseSpreads ==
    \A e, f \in Ends :
        Closed(e) ~> (closePc[f] = "done" /\ rl[f] = "done") \/ HeldUp(f)

-----------------------------------------------------------------------------
(***************************************************************************)
(* A direction of a stream as a pipe: what the reader has buffered, the    *)
(* frame in the hands of its read loop and the frames on the wire.         *)
(***************************************************************************)
Timely(f, id) == f.id = id /\ f.n > 0 /\ ~f.late

Held(e, id) ==
    IF rl[e] = "dispatch" /\ Timely(frame[e], id) THEN <<frame[e].n>> ELSE <<>>
OnWire(e, id) ==
    LET data == SelectSeq(wire[e], LAMBDA f : Timely(f, id))
    IN  [i \in DOMAIN data |-> data[i].n]

\* From the writer at e to the reader at the other end.
Pipe(e, id) == INSTANCE StreamPipe WITH
    sent <- State(e, id).sent,
    fin <- State(e, id).cl = "done",
    pipe <- State(Other(e), id).buf \o Held(Other(e), id) \o OnWire(e, id),
    read <- State(Other(e), id).got,
    ended <- State(Other(e), id).seen,
    down <- Closed("client") \/ Closed("server")

\* Each direction of each stream implements a pipe, for as long as it is its
\* origin's and the connection loses nothing: \A e, id : Pipe(e, id)!Spec, in
\* the form that TLC checks.
ArePipes ==
    /\ \A e \in Ends, id \in IDs : Pipe(e, id)!Init
    /\ [][\A e \in Ends, id \in IDs :
              Sole(e, id)' /\ ~broken' =>
                  Pipe(e, id)!vars' = Pipe(e, id)!vars \/ Pipe(e, id)!Next]_vars
=============================================================================
