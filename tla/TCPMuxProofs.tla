---------------------------- MODULE TCPMuxProofs ----------------------------
(***************************************************************************)
(* Proofs about TCPMux, for every value of its constants: the fields keep  *)
(* their types, and the streams two endpoints open never share an ID.      *)
(***************************************************************************)
EXTENDS TCPMux, TLAPS

-----------------------------------------------------------------------------
(* Type correctness.  TypeOK is not inductive: a stream stays within       *)
(* MaxWrites only because Write checked for room, and the channel holds    *)
(* streams only because the read loop in its select holds one.             *)

Fits(r) == r \in StreamState /\ r.sent + r.over + r.wr <= MaxWrites
OfferHeld == \A e \in Ends : rl[e] = "accept" => offer[e] \in Stream
StreamsOK == st \in [Stream -> StreamState] /\ \A p \in Stream : Fits(st[p])

\* The conjuncts of TypeOK other than the one about st.
SessionsOK ==
    /\ nextStreamID \in [Ends -> 0..(CounterModulus - 1)]
    /\ opens \in [Ends -> Nat] /\ opening \in [Ends -> Nat]
    /\ made \in [Ends -> 0..MaxStreams]
    /\ streams \in [Ends -> [IDs -> Stream \cup {NoStream}]]
    /\ acceptChan \in [Ends -> Seq(Stream)] /\ accepts \in [Ends -> Nat]
    /\ closePc \in [Ends -> {"open", "marked", "conn", "done"}]
    /\ closeErr \in [Ends -> Errors]
    /\ broken \in BOOLEAN
    /\ wire \in [Ends -> Seq(Frame)]
    /\ rl \in [Ends -> {"read", "dispatch", "accept", "done"}]
    /\ frame \in [Ends -> Frame]
    /\ offer \in [Ends -> Stream \cup {NoStream}]
    /\ OfferHeld

TypeInv == SessionsOK /\ StreamsOK

LEMMA TypeInvType == TypeInv => TypeOK
BY DEF TypeInv, SessionsOK, StreamsOK, TypeOK

\* The bounds that the proofs use.
LEMMA Bounds ==
    /\ MaxWrites \in Nat /\ MaxStreams \in Nat /\ MaxChunks \in Nat /\ WireCap \in Nat
    /\ MaxStreamID \in Nat /\ MaxStreamID >= 2
    /\ CounterModulus \in Nat /\ MaxStreamID < CounterModulus
BY BoundsAssumption

LEMMA ClosedBoolean == ASSUME NEW e PROVE Closed(e) \in BOOLEAN
BY DEF Closed

\* The counter wraps as the uint32 of nextStreamID does: what AddUint32
\* leaves is again a value of the counter.
LEMMA AddIDType ==
    ASSUME NEW e \in Ends, nextStreamID[e] \in Nat
    PROVE  AddID(e) \in 0..(CounterModulus - 1)
BY Bounds DEF AddID

\* An object is a pointer of its own endpoint.
LEMMA MadeIsStream ==
    ASSUME NEW p \in AllMade
    PROVE  p \in Stream /\ p[1] \in Ends
BY DEF AllMade, Made, Stream, Ends

\* A new tcpStream is well-typed and has written nothing.
LEMMA NewStreamType ==
    ASSUME NEW id \in IDs, NEW own \in BOOLEAN, NEW late \in BOOLEAN
    PROVE  Fits(NewTCPStream(id, own, late))
BY Bounds DEF NewTCPStream, StreamState, Errors, Fits

\* One more frame of a Write keeps a stream well-typed.
LEMMA SentType ==
    ASSUME NEW r, Fits(r), r.wr > 0
    PROVE  /\ Fits(Sent(r)) /\ Sent(r).id = r.id /\ Sent(r).own = r.own
           /\ r.sent + r.over + 1 \in 0..MaxWrites
<1>1. /\ r \in StreamState /\ r.sent \in 0..MaxWrites /\ r.over \in 0..MaxWrites
      /\ r.wr \in 0..MaxWrites /\ r.sent + r.over + r.wr <= MaxWrites
      BY DEF Fits, StreamState
<1>2. r.wr - 1 \in 0..MaxWrites /\ r.sent + r.over + 1 \in 0..MaxWrites
      BY <1>1, Bounds
<1>3. CASE r.cl = "done"
  <2>1. r.over + 1 \in 0..MaxWrites /\ r.sent + (r.over + 1) + (r.wr - 1) <= MaxWrites
        BY <1>1, Bounds
  <2>2. Sent(r) = [r EXCEPT !.over = r.over + 1, !.wr = r.wr - 1]
        BY <1>1, <1>3 DEF Sent, StreamState
  <2> QED BY <1>1, <1>2, <2>1, <2>2 DEF Fits, StreamState
<1>4. CASE r.cl # "done"
  <2>1. r.sent + 1 \in 0..MaxWrites /\ (r.sent + 1) + r.over + (r.wr - 1) <= MaxWrites
        BY <1>1, Bounds
  <2>2. Sent(r) = [r EXCEPT !.sent = r.sent + 1, !.wr = r.wr - 1]
        BY <1>1, <1>4 DEF Sent, StreamState
  <2> QED BY <1>1, <1>2, <2>1, <2>2 DEF Fits, StreamState
<1> QED BY <1>3, <1>4

\* pushData keeps a stream well-typed and leaves its write side alone.
LEMMA PushDataType ==
    ASSUME NEW r, Fits(r), NEW n \in 0..MaxWrites
    PROVE  /\ Fits(PushData(r, n))
           /\ PushData(r, n).id = r.id /\ PushData(r, n).own = r.own
<1> USE DEF Fits
<1>1. CASE n = 0
      BY <1>1 DEF PushData, StreamState, Errors
<1>2. CASE n # 0
  <2>1. Append(r.buf, n) \in Seq(1..MaxWrites)
        BY <1>2 DEF StreamState
  <2> QED BY <1>2, <2>1 DEF PushData, StreamState
<1> QED BY <1>1, <1>2

\* sessionClosed keeps a stream well-typed and leaves its counts alone.
LEMMA SessionClosedType ==
    ASSUME NEW r, Fits(r), NEW err \in Errors
    PROVE  /\ Fits(SessionClosed(r, err))
           /\ SessionClosed(r, err).id = r.id
           /\ SessionClosed(r, err).own = r.own
BY DEF SessionClosed, StreamState, Fits

\* Replacing one stream object by one that fits keeps StreamsOK.
LEMMA StreamUpdate ==
    ASSUME StreamsOK, NEW p \in Stream, NEW r, Fits(r),
           st' = [st EXCEPT ![p] = r]
    PROVE  StreamsOK'
<1>1. r \in StreamState
      BY DEF Fits
<1>2. st' \in [Stream -> StreamState]
      BY <1>1 DEF StreamsOK
<1>3. ASSUME NEW q \in Stream PROVE Fits(st[q]')
      BY DEF StreamsOK
<1> QED BY <1>2, <1>3 DEF StreamsOK

\* A fresh session (NewTCPSession) has well-typed fields.
LEMMA InitTypeInv == Init => TypeInv
<1> SUFFICES ASSUME Init PROVE TypeInv
    OBVIOUS
<1>1. 0 \in IDs /\ NoFrame \in Frame
      BY Bounds DEF IDs, NoFrame, Frame
<1>2. nextStreamID \in [Ends -> 0..(CounterModulus - 1)]
      BY Bounds DEF Init, FirstID
<1>3. made \in [Ends -> 0..MaxStreams]
      BY Bounds DEF Init
<1>8. acceptChan \in [Ends -> Seq(Stream)] /\ wire \in [Ends -> Seq(Frame)]
      BY DEF Init
<1>9. streams \in [Ends -> [IDs -> Stream \cup {NoStream}]]
      BY DEF Init
<1>10. /\ opens \in [Ends -> Nat] /\ opening \in [Ends -> Nat] /\ accepts \in [Ends -> Nat]
       /\ broken \in BOOLEAN
       BY DEF Init
<1>11. /\ closePc \in [Ends -> {"open", "marked", "conn", "done"}]
       /\ closeErr \in [Ends -> Errors]
       /\ rl \in [Ends -> {"read", "dispatch", "accept", "done"}] /\ OfferHeld
       BY DEF Init, Errors, OfferHeld
<1>12. frame \in [Ends -> Frame] /\ offer \in [Ends -> Stream \cup {NoStream}]
       BY <1>1 DEF Init
<1>4. SessionsOK
      BY <1>2, <1>3, <1>8, <1>9, <1>10, <1>11, <1>12 DEF SessionsOK
<1>5. Fits(NewTCPStream(0, FALSE, FALSE))
      BY <1>1, NewStreamType
<1>6. NewTCPStream(0, FALSE, FALSE) \in StreamState
      BY <1>5 DEF Fits
<1>7. StreamsOK
      BY <1>5, <1>6 DEF Init, StreamsOK
<1> QED BY <1>4, <1>7 DEF TypeInv

\* The actions of a session's caller and of Close keep SessionsOK and StreamsOK.
LEMMA SessionNextTypeInv ==
    ASSUME TypeInv, NEW e \in Ends, SessionNext(e)
    PROVE  TypeInv'
<1> USE DEF TypeInv, idVars, mapVars, queueVars, closeVars, netVars, loopVars
<1>1. CASE OpenStreamCheck(e)
      BY <1>1 DEF OpenStreamCheck, SessionsOK, OfferHeld, StreamsOK
<1>2. CASE OpenStream(e)
  <2>1. nextStreamID' \in [Ends -> 0..(CounterModulus - 1)]
        BY <1>2, AddIDType DEF OpenStream, SessionsOK
  <2>2. opens' \in [Ends -> Nat] /\ opening' \in [Ends -> Nat]
        BY <1>2 DEF OpenStream, SessionsOK
  <2>3. CASE Exhausted(e) /\ UNCHANGED <<made, streams, st>>
        BY <1>2, <2>1, <2>2, <2>3
        DEF OpenStream, SessionsOK, OfferHeld, StreamsOK
  <2>4. CASE /\ ~Exhausted(e) /\ Store(e, ActualID(e), TRUE)
             /\ st' = [st EXCEPT ![<<e, made[e] + 1>>] =
                          NewTCPStream(ActualID(e), TRUE, Closed(e))]
    <3>1. ActualID(e) \in IDs
          BY <2>4, Bounds DEF Exhausted, ActualID, IDs, SessionsOK
    <3>2. <<e, made[e] + 1>> \in Stream /\ made[e] + 1 \in 0..MaxStreams
          BY <2>4, Bounds DEF Store, Stream, SessionsOK
    <3>3. DEFINE r == NewTCPStream(ActualID(e), TRUE, Closed(e))
    <3>5. Fits(r)
          BY <3>1, NewStreamType, ClosedBoolean
    <3>6. StreamsOK'
          BY <2>4, <3>2, <3>5, StreamUpdate
    <3>4. /\ made' \in [Ends -> 0..MaxStreams]
          /\ streams' \in [Ends -> [IDs -> Stream \cup {NoStream}]]
          BY <2>4, <3>1, <3>2 DEF Store, SessionsOK
    <3> QED BY <1>2, <2>1, <2>2, <3>4, <3>6 DEF OpenStream, SessionsOK, OfferHeld
  <2> QED BY <1>2, <2>3, <2>4 DEF OpenStream
<1>3. CASE AcceptStream(e)
  <2>1. Head(acceptChan[e]) \in Stream /\ Tail(acceptChan[e]) \in Seq(Stream)
        BY <1>3 DEF AcceptStream, SessionsOK
  <2>2. DEFINE p == Head(acceptChan[e])
               r == [st[p] EXCEPT !.held = TRUE]
  <2>3. Fits(r)
        BY <2>1 DEF StreamsOK, StreamState, Fits
  <2>4. st' = [st EXCEPT ![p] = r]
        BY <1>3 DEF AcceptStream, StreamsOK
  <2>5. StreamsOK'
        BY <2>1, <2>3, <2>4, StreamUpdate
  <2> QED BY <1>3, <2>1, <2>5 DEF AcceptStream, SessionsOK, OfferHeld
<1>4. CASE CloseSession(e)
      BY <1>4 DEF CloseSession, BeginClose, CallerError, Errors, SessionsOK,
         OfferHeld, StreamsOK
<1>5. CASE CloseConn(e)
      BY <1>5 DEF CloseConn, SessionsOK, OfferHeld, StreamsOK
<1>6. CASE CloseRange(e)
  <2>1. \A p \in Stream : st'[p] \in {st[p], SessionClosed(st[p], closeErr[e])}
        BY <1>6 DEF CloseRange
  <2>2. ASSUME NEW p \in Stream PROVE Fits(st'[p]) /\ st'[p] \in StreamState
    <3>1. Fits(st[p]) /\ closeErr[e] \in Errors
          BY DEF StreamsOK, SessionsOK
    <3>2. CASE st'[p] = st[p]
          BY <3>1, <3>2 DEF Fits
    <3>3. CASE st'[p] = SessionClosed(st[p], closeErr[e])
          BY <3>1, <3>3, SessionClosedType DEF Fits
    <3> QED BY <2>1, <3>2, <3>3
  <2>3. st' = [p \in Stream |-> st'[p]]
        BY <1>6 DEF CloseRange
  <2>4. StreamsOK'
        BY <2>2, <2>3 DEF StreamsOK
  <2> QED BY <1>6, <2>4 DEF CloseRange, SessionsOK, OfferHeld, StreamsOK
<1> QED BY <1>1, <1>2, <1>3, <1>4, <1>5, <1>6 DEF SessionNext

\* The read loop keeps them.
LEMMA ReadLoopTypeInv ==
    ASSUME TypeInv, NEW e \in Ends, ReadLoop(e)
    PROVE  TypeInv'
<1> USE DEF TypeInv, idVars, mapVars, queueVars, closeVars, netVars, loopVars
<1>1. CASE ReadFrame(e)
  <2>1. Other(e) \in Ends
        BY DEF Other, Ends
  <2>2. Head(wire[Other(e)]) \in Frame /\ Tail(wire[Other(e)]) \in Seq(Frame)
        BY <1>1, <2>1 DEF ReadFrame, SessionsOK
  <2> QED BY <1>1, <2>1, <2>2 DEF ReadFrame, SessionsOK, OfferHeld, StreamsOK
<1>2. CASE ReadFail(e)
      BY <1>2 DEF ReadFail, BeginClose, Errors, SessionsOK, OfferHeld, StreamsOK
<1>3. frame[e].id \in IDs /\ frame[e].n \in 0..MaxWrites /\ NoFrame \in Frame
      BY Bounds DEF SessionsOK, Frame, NoFrame, IDs
<1>4. CASE DispatchNew(e)
  <2>1. <<e, made[e] + 1>> \in Stream /\ made[e] + 1 \in 0..MaxStreams
        BY <1>4, Bounds DEF DispatchNew, Store, Stream, SessionsOK
  <2>2. DEFINE s == NewTCPStream(frame[e].id, FALSE, Closed(e))
               r == PushData(s, frame[e].n)
  <2>6. Fits(s)
        BY <1>3, NewStreamType, ClosedBoolean
  <2>3. Fits(r)
        BY <1>3, <2>6, PushDataType
  <2>4. StreamsOK'
        BY <1>4, <2>1, <2>3, StreamUpdate DEF DispatchNew, FirstPush
  <2>5. /\ made' \in [Ends -> 0..MaxStreams]
        /\ streams' \in [Ends -> [IDs -> Stream \cup {NoStream}]]
        BY <1>3, <1>4, <2>1 DEF DispatchNew, Store, SessionsOK
  <2> QED BY <1>3, <1>4, <2>1, <2>4, <2>5 DEF DispatchNew, SessionsOK, OfferHeld
<1>5. CASE DispatchKnown(e)
  <2>1. Target(e) \in Stream
        BY <1>3, <1>5 DEF DispatchKnown, Target, SessionsOK
  <2>2. DEFINE r == PushData(st[Target(e)], frame[e].n)
  <2>3. Fits(r)
        BY <1>3, <2>1, PushDataType DEF StreamsOK
  <2>4. st' = [st EXCEPT ![Target(e)] = r]
        BY <1>5 DEF DispatchKnown
  <2>5. StreamsOK'
        BY <2>1, <2>3, <2>4, StreamUpdate
  <2>6. streams' \in [Ends -> [IDs -> Stream \cup {NoStream}]]
    <3>1. CASE RemoveStream(e, frame[e].id)
          BY <1>3, <3>1 DEF RemoveStream, SessionsOK
    <3>2. CASE UNCHANGED streams
          BY <3>2 DEF SessionsOK
    <3> QED BY <1>5, <3>1, <3>2 DEF DispatchKnown
  <2> QED BY <1>3, <1>5, <2>5, <2>6 DEF DispatchKnown, SessionsOK, OfferHeld
<1>6. CASE OfferStream(e)
  <2>1. offer[e] \in Stream
        BY <1>6 DEF OfferStream, SessionsOK, OfferHeld
  <2>2. Append(acceptChan[e], offer[e]) \in Seq(Stream)
        BY <2>1 DEF SessionsOK
  <2> QED BY <1>6, <2>2 DEF OfferStream, SessionsOK, OfferHeld, StreamsOK
<1> QED BY <1>1, <1>2, <1>4, <1>5, <1>6 DEF ReadLoop

\* What writeFrame does to the wire and to the session is well-typed.
LEMMA WriteFrameSessionsOK ==
    ASSUME SessionsOK, NEW e \in Ends, NEW f \in Frame,
           FrameWritten(e, f) \/ FrameRefused(e),
           UNCHANGED <<idVars, mapVars, queueVars, loopVars, broken>>
    PROVE  SessionsOK'
<1> USE DEF idVars, mapVars, queueVars, loopVars, closeVars
<1>1. Append(wire[e], f) \in Seq(Frame)
      BY DEF SessionsOK
<1>2. wire' \in [Ends -> Seq(Frame)]
      BY <1>1 DEF FrameWritten, FrameRefused, SessionsOK
<1>3. /\ closePc' \in [Ends -> {"open", "marked", "conn", "done"}]
      /\ closeErr' \in [Ends -> Errors]
      BY DEF FrameWritten, FrameRefused, BeginClose, Errors, SessionsOK
<1> QED BY <1>2, <1>3 DEF SessionsOK, OfferHeld

\* The calls on a stream keep them.
LEMMA StreamNextTypeInv ==
    ASSUME TypeInv, NEW p \in AllMade, StreamNext(p)
    PROVE  TypeInv'
<1> USE DEF TypeInv
<1>1. p \in Stream /\ p[1] \in Ends
      BY MadeIsStream
<1>2. st[p] \in StreamState /\ st[p].sent + st[p].over + st[p].wr <= MaxWrites
      BY <1>1 DEF StreamsOK, Fits
<1>3. ASSUME OnlyStreams PROVE SessionsOK'
      BY <1>3 DEF OnlyStreams, SessionsOK, OfferHeld, idVars, mapVars, queueVars,
         closeVars, netVars, loopVars
<1>4. ASSUME NEW r, Fits(r),
             st' = [st EXCEPT ![p] = r]
      PROVE  StreamsOK'
      BY <1>1, <1>4, StreamUpdate
<1>5. ASSUME NEW k \in 1..MaxChunks, WriteCheck(p, k) PROVE TypeInv'
  <2> DEFINE r == [st[p] EXCEPT !.wr = k]
  <2>1. k \in 0..MaxWrites
        BY <1>2, <1>5, Bounds DEF WriteCheck, StreamState
  <2>2. st[p].sent + st[p].over + k <= MaxWrites
        BY <1>5 DEF WriteCheck
  <2>3. Fits(r)
        BY <1>2, <2>1, <2>2 DEF StreamState, Fits
  <2>4. st' = [st EXCEPT ![p] = r]
        BY <1>5 DEF WriteCheck
  <2> QED BY <1>3, <1>4, <1>5, <2>3, <2>4 DEF WriteCheck
<1>6. ASSUME WriteFrame(p) PROVE TypeInv'
  <2>1. /\ Fits(st[p]) /\ st[p].wr > 0 /\ st[p].id \in IDs
        BY <1>1, <1>2, <1>6 DEF WriteFrame, Fits, StreamState
  <2>2. Fits(Sent(st[p])) /\ st[p].sent + st[p].over + 1 \in 0..MaxWrites
        BY <2>1, SentType
  <2>3. DataFrame(p) \in Frame
        BY <2>1, <2>2 DEF DataFrame, Frame
  <2>4. SessionsOK'
        BY <1>1, <1>6, <2>3, WriteFrameSessionsOK DEF WriteFrame
  <2>5. CASE st' = [st EXCEPT ![p] = Sent(@)]
    <3>1. st' = [st EXCEPT ![p] = Sent(st[p])]
          BY <1>1, <2>5 DEF StreamsOK
    <3> QED BY <1>4, <2>2, <2>4, <3>1
  <2>6. CASE st' = [st EXCEPT ![p].wr = 0]
    <3> DEFINE r == [st[p] EXCEPT !.wr = 0]
    <3>1. /\ 0 \in 0..MaxWrites /\ st[p].sent \in 0..MaxWrites /\ st[p].over \in 0..MaxWrites
          /\ st[p].wr \in 0..MaxWrites
          BY <1>2, Bounds DEF StreamState
    <3>2. st[p].sent + st[p].over + 0 <= MaxWrites
          BY <1>2, <3>1, Bounds
    <3>3. Fits(r)
          BY <1>2, <3>1, <3>2 DEF StreamState, Fits
    <3> QED BY <1>4, <2>4, <2>6, <3>3
  <2> QED BY <1>6, <2>5, <2>6 DEF WriteFrame
<1>7. ASSUME CloseStream(p) PROVE TypeInv'
  <2> DEFINE r == [st[p] EXCEPT !.cl = "flag", !.writeClosed = TRUE]
  <2>1. Fits(r)
        BY <1>2 DEF StreamState, Fits
  <2>2. st' = [st EXCEPT ![p] = r]
        BY <1>1, <1>7 DEF CloseStream, StreamsOK
  <2> QED BY <1>3, <1>4, <1>7, <2>1, <2>2 DEF CloseStream
<1>8. ASSUME CloseFrame(p) PROVE TypeInv'
  <2>1. [id |-> st[p].id, n |-> 0, late |-> FALSE] \in Frame
        BY <1>2, Bounds DEF Frame, StreamState
  <2>2. SessionsOK'
        BY <1>1, <1>8, <2>1, WriteFrameSessionsOK DEF CloseFrame, KeepAtClose, mapVars
  <2> DEFINE r == [st[p] EXCEPT !.cl = "done"]
  <2>3. Fits(r)
        BY <1>2 DEF StreamState, Fits
  <2>4. st' = [st EXCEPT ![p] = r]
        BY <1>8 DEF CloseFrame
  <2> QED BY <1>4, <2>2, <2>3, <2>4
<1>9. ASSUME NEW k \in 1..MaxWrites, Read(p, k) PROVE TypeInv'
  <2>1. st[p].buf \in Seq(1..MaxWrites) /\ k \in 1..Len(st[p].buf)
        BY <1>2, <1>9 DEF Read, StreamState
  <2>2. AfterRead(st[p].buf, k) \in Seq(1..MaxWrites) /\ st[p].buf[k] \in 0..MaxWrites
        BY <2>1, Bounds DEF AfterRead
  <2> DEFINE r == [st[p] EXCEPT !.got = st[p].buf[k], !.buf = AfterRead(@, k)]
  <2>3. Fits(r)
        BY <1>2, <2>2 DEF StreamState, Fits
  <2>4. st' = [st EXCEPT ![p] = r]
        BY <1>1, <1>9 DEF Read, StreamsOK
  <2> QED BY <1>3, <1>4, <1>9, <2>3, <2>4 DEF Read
<1>10. ASSUME ReadEnd(p) PROVE TypeInv'
  <2> DEFINE r == [st[p] EXCEPT !.seen = st[p].readErr]
  <2>1. Fits(r)
        BY <1>2 DEF StreamState, Fits
  <2>2. st' = [st EXCEPT ![p] = r]
        BY <1>10 DEF ReadEnd
  <2> QED BY <1>3, <1>4, <1>10, <2>1, <2>2 DEF ReadEnd
<1> QED BY <1>5, <1>6, <1>7, <1>8, <1>9, <1>10 DEF StreamNext

\* Every step keeps TypeInv.
LEMMA NextTypeInv == TypeInv /\ [Next]_vars => TypeInv'
<1> SUFFICES ASSUME TypeInv, [Next]_vars PROVE TypeInv'
    OBVIOUS
<1>1. ASSUME Lose PROVE TypeInv'
  <2>1. PICK kept \in [Ends -> 0..WireCap] :
          wire' = [e \in Ends |-> SubSeq(wire[e], 1, IF kept[e] < Len(wire[e])
                                                     THEN kept[e] ELSE Len(wire[e]))]
        BY <1>1 DEF Lose
  <2>2. ASSUME NEW e \in Ends PROVE wire'[e] \in Seq(Frame)
    <3>1. wire[e] \in Seq(Frame) /\ kept[e] \in Nat
          BY Bounds DEF TypeInv, SessionsOK
    <3> QED BY <2>1, <3>1
  <2>3. wire' \in [Ends -> Seq(Frame)]
        BY <2>1, <2>2
  <2> QED BY <1>1, <2>3 DEF Lose, TypeInv, SessionsOK, OfferHeld, StreamsOK,
             idVars, mapVars, queueVars, closeVars, loopVars
<1>2. CASE UNCHANGED vars
      BY <1>2 DEF vars, TypeInv, SessionsOK, OfferHeld, StreamsOK
<1> QED BY <1>1, <1>2, SessionNextTypeInv, ReadLoopTypeInv, StreamNextTypeInv DEF Next

\* Type correctness of a session, of its streams and of the wire: whatever
\* the two endpoints do, IDs fit the header, buffers hold only frames that
\* were written, and the accept queue holds only streams.
THEOREM TypeCorrect == Spec => []TypeOK
BY InitTypeInv, NextTypeInv, TypeInvType, PTL DEF Spec

-----------------------------------------------------------------------------
(* Unique stream IDs.  The claim is about pairs of streams; what makes it   *)
(* inductive is where the IDs come from: those opened at e are the values   *)
(* nextStreamID[e] has gone through, one per OpenStream, in e's parity      *)
(* class, and the counter has not wrapped.                                  *)

\* The counter never goes around: 2^31 calls of OpenStream in the code.
NoWrap == \A e \in Ends : FirstID(e) + 2 * MaxOpens[e] < CounterModulus

CounterExact ==
    \A e \in Ends : /\ nextStreamID[e] = FirstID(e) + 2 * opens[e]
                    /\ opens[e] + opening[e] <= MaxOpens[e]

OpenedBefore ==
    \A p \in AllMade : st[p].own =>
        \E k \in Nat : k < opens[p[1]] /\ st[p].id = FirstID(p[1]) + 2 * k

IDInv == TypeInv /\ CounterExact /\ OpenedBefore /\ OpenedIDsUnique

\* The step of a stream or of the read loop on a known stream keeps the
\* identity of every stream object.
SameIdentity ==
    /\ UNCHANGED <<nextStreamID, opens, made>>
    /\ opening' \in [Ends -> Nat] /\ \A e \in Ends : opens[e] + opening'[e] <= MaxOpens[e]
    /\ \A p \in AllMade : st'[p].id = st[p].id /\ st'[p].own = st[p].own

LEMMA SameIdentityKeepsIDs ==
    ASSUME IDInv, SameIdentity
    PROVE  CounterExact' /\ OpenedBefore' /\ OpenedIDsUnique'
<1>1. AllMade' = AllMade
      BY DEF SameIdentity, AllMade, Made
<1> QED BY <1>1 DEF SameIdentity, IDInv, CounterExact, OpenedBefore, OpenedIDsUnique

\* Steps of one stream object change neither id nor own of any.
LEMMA StreamNextIdentity ==
    ASSUME IDInv, NEW p \in AllMade, StreamNext(p)
    PROVE  SameIdentity
<1>1. /\ UNCHANGED <<nextStreamID, opens, opening, made>>
      /\ \A q \in Stream : st'[q].id = st[q].id /\ st'[q].own = st[q].own
  <2> USE DEF IDInv, TypeInv, StreamsOK, StreamState
  <2>1. ASSUME NEW k \in 1..MaxChunks, WriteCheck(p, k) PROVE <1>1!:
        BY <2>1 DEF WriteCheck, OnlyStreams, idVars, mapVars
  <2>2. ASSUME WriteFrame(p) PROVE <1>1!:
    <3>1. UNCHANGED <<nextStreamID, opens, opening, made>>
          BY <2>2 DEF WriteFrame, idVars, mapVars
    <3>2. CASE st' = [st EXCEPT ![p] = Sent(@)]
          BY <3>1, <3>2 DEF Sent
    <3>3. CASE st' = [st EXCEPT ![p].wr = 0]
          BY <3>1, <3>3
    <3> QED BY <2>2, <3>2, <3>3 DEF WriteFrame
  <2>3. ASSUME CloseStream(p) PROVE <1>1!:
        BY <2>3 DEF CloseStream, OnlyStreams, idVars, mapVars
  <2>4. ASSUME CloseFrame(p) PROVE <1>1!:
        BY <2>4 DEF CloseFrame, idVars
  <2>5. ASSUME NEW k \in 1..MaxWrites, Read(p, k) PROVE <1>1!:
        BY <2>5 DEF Read, OnlyStreams, idVars, mapVars
  <2>6. ASSUME ReadEnd(p) PROVE <1>1!:
        BY <2>6 DEF ReadEnd, OnlyStreams, idVars, mapVars
  <2> QED BY <2>1, <2>2, <2>3, <2>4, <2>5, <2>6 DEF StreamNext
<1> QED BY <1>1, MadeIsStream DEF SameIdentity, IDInv, TypeInv, SessionsOK, CounterExact

\* Store allocates one object at its end.
LEMMA StoreMade ==
    ASSUME IDInv, NEW e \in Ends, NEW id, NEW own, Store(e, id, own)
    PROVE  /\ <<e, made[e] + 1>> \in Stream /\ <<e, made[e] + 1>> \notin AllMade
           /\ AllMade' = AllMade \cup {<<e, made[e] + 1>>}
<1>1. /\ made \in [Ends -> 0..MaxStreams] /\ made[e] < MaxStreams
      /\ made' = [made EXCEPT ![e] = @ + 1]
      BY DEF Store, IDInv, TypeInv, SessionsOK
<1>2. <<e, made[e] + 1>> \in Stream
      BY <1>1, Bounds DEF Stream
<1>3. \A f \in Ends : Made(f)' = Made(f) \cup IF f = e THEN {<<e, made[e] + 1>>} ELSE {}
      BY <1>1, Bounds DEF Made, Stream
<1>4. <<e, made[e] + 1>> \notin AllMade
      BY <1>1 DEF AllMade, Made, Ends
<1>5. AllMade' = AllMade \cup {<<e, made[e] + 1>>}
      BY <1>3 DEF AllMade, Ends
<1> QED BY <1>2, <1>4, <1>5

\* OpenStream: the ID it takes is above all those taken before at its end,
\* and of the other parity than all those of the other end.
LEMMA OpenStreamIDs ==
    ASSUME NoWrap, IDInv, NEW e \in Ends, OpenStream(e)
    PROVE  CounterExact' /\ OpenedBefore' /\ OpenedIDsUnique'
<1>1. /\ nextStreamID[e] = FirstID(e) + 2 * opens[e] /\ opens[e] \in Nat
      /\ opening[e] \in Nat /\ opening[e] > 0 /\ opens[e] + opening[e] <= MaxOpens[e]
      BY DEF OpenStream, IDInv, CounterExact, TypeInv, SessionsOK
<1>2. FirstID(e) \in Nat /\ MaxOpens[e] \in Nat /\ CounterModulus \in Nat
      BY BoundsAssumption DEF FirstID
<1>3. AddID(e) = FirstID(e) + 2 * (opens[e] + 1)
  <2>1. FirstID(e) + 2 * (opens[e] + 1) < CounterModulus
        BY <1>1, <1>2 DEF NoWrap
  <2>2. nextStreamID[e] + 2 = FirstID(e) + 2 * (opens[e] + 1)
        BY <1>1, <1>2
  <2>3. \A m \in Nat : m < CounterModulus => m % CounterModulus = m
        BY <1>2
  <2> QED BY <1>1, <1>2, <2>1, <2>2, <2>3 DEF AddID
<1>4. CounterExact'
  <2>1. /\ nextStreamID' = [nextStreamID EXCEPT ![e] = AddID(e)]
        /\ opens' = [opens EXCEPT ![e] = @ + 1] /\ opening' = [opening EXCEPT ![e] = @ - 1]
        BY DEF OpenStream
  <2>2. /\ nextStreamID \in [Ends -> 0..(CounterModulus - 1)]
        /\ opens \in [Ends -> Nat] /\ opening \in [Ends -> Nat]
        BY DEF IDInv, TypeInv, SessionsOK
  <2>3. ASSUME NEW f \in Ends
        PROVE  nextStreamID'[f] = FirstID(f) + 2 * opens'[f] /\ opens'[f] + opening'[f] <= MaxOpens[f]
    <3>1. CASE f = e
          BY <1>1, <1>2, <1>3, <2>1, <2>2, <3>1
    <3>2. CASE f # e
          BY <2>1, <2>2, <3>2 DEF IDInv, CounterExact
    <3> QED BY <3>1, <3>2
  <2> QED BY <2>3 DEF CounterExact
<1>5. \A f \in Ends : opens'[f] \in Nat /\ opens[f] \in Nat /\ opens'[f] >= opens[f]
      BY <1>1 DEF OpenStream, IDInv, TypeInv, SessionsOK
<1>6. CASE UNCHANGED <<mapVars, st>>
  <2>1. AllMade' = AllMade
        BY <1>6 DEF AllMade, Made, mapVars
  <2>2. OpenedBefore'
        BY <1>5, <1>6, <2>1, MadeIsStream DEF OpenedBefore, IDInv
  <2> QED BY <1>4, <1>6, <2>1, <2>2 DEF OpenedIDsUnique, IDInv
<1>7. CASE /\ Store(e, ActualID(e), TRUE)
           /\ st' = [st EXCEPT ![<<e, made[e] + 1>>] =
                        NewTCPStream(ActualID(e), TRUE, Closed(e))]
  <2> DEFINE new == <<e, made[e] + 1>>
  <2>1. AllMade' = AllMade \cup {new} /\ new \notin AllMade /\ new \in Stream
        BY <1>7, StoreMade
  <2>2. st'[new].id = FirstID(e) + 2 * opens[e] /\ new[1] = e
        BY <1>1, <1>7, <2>1 DEF IDInv, TypeInv, StreamsOK, NewTCPStream, ActualID
  <2>3. \A p \in AllMade : st'[p] = st[p]
        BY <1>7, <2>1, MadeIsStream DEF IDInv, TypeInv, StreamsOK
  <2>4. opens'[e] = opens[e] + 1
        BY DEF OpenStream, IDInv, TypeInv, SessionsOK
  <2>5. OpenedBefore'
    <3>1. ASSUME NEW p \in AllMade, st[p].own
          PROVE  \E k \in Nat : k < opens'[p[1]] /\ st'[p].id = FirstID(p[1]) + 2 * k
          BY <1>5, <2>3, <3>1, MadeIsStream DEF OpenedBefore, IDInv
    <3> QED BY <1>1, <2>1, <2>2, <2>3, <2>4, <3>1 DEF OpenedBefore
  <2>6. ASSUME NEW p \in AllMade, st[p].own PROVE st[p].id # st'[new].id
    <3>1. PICK k \in Nat : k < opens[p[1]] /\ st[p].id = FirstID(p[1]) + 2 * k
          BY <2>6 DEF OpenedBefore, IDInv
    <3>2. CASE p[1] = e
          BY <1>1, <1>2, <2>2, <3>1, <3>2
    <3>3. CASE p[1] # e
          BY <1>1, <2>2, <3>1, <3>3, MadeIsStream DEF FirstID, Ends
    <3> QED BY <3>2, <3>3
  <2> QED BY <1>4, <2>1, <2>3, <2>5, <2>6 DEF OpenedIDsUnique, IDInv
<1> QED BY <1>6, <1>7 DEF OpenStream, Exhausted

\* The read loop's new stream is not one it opened.
LEMMA DispatchNewIDs ==
    ASSUME IDInv, NEW e \in Ends, DispatchNew(e)
    PROVE  CounterExact' /\ OpenedBefore' /\ OpenedIDsUnique'
<1> DEFINE new == <<e, made[e] + 1>>
<1>1. UNCHANGED <<nextStreamID, opens, opening>>
      BY DEF DispatchNew, idVars
<1>2. AllMade' = AllMade \cup {new} /\ new \notin AllMade /\ new \in Stream
      BY StoreMade DEF DispatchNew
<1>3. ~st'[new].own
  <2> DEFINE s == NewTCPStream(frame[e].id, FALSE, Closed(e))
  <2>1. frame[e].id \in IDs /\ frame[e].n \in 0..MaxWrites
        BY DEF IDInv, TypeInv, SessionsOK, Frame
  <2>2. Fits(s)
        BY <2>1, NewStreamType, ClosedBoolean
  <2>3. PushData(s, frame[e].n).own = s.own
        BY <2>1, <2>2, PushDataType
  <2>4. s.own = FALSE
        BY DEF NewTCPStream
  <2>5. st'[new] = PushData(s, frame[e].n)
        BY <1>2 DEF DispatchNew, FirstPush, IDInv, TypeInv, StreamsOK
  <2> QED BY <2>3, <2>4, <2>5
<1>4. \A p \in AllMade : st'[p] = st[p]
      BY <1>2, MadeIsStream DEF DispatchNew, IDInv, TypeInv, StreamsOK
<1>5. CounterExact'
      BY <1>1 DEF CounterExact, IDInv
<1>6. OpenedBefore'
      BY <1>1, <1>2, <1>3, <1>4 DEF OpenedBefore, IDInv
<1>7. OpenedIDsUnique'
      BY <1>2, <1>3, <1>4 DEF OpenedIDsUnique, IDInv
<1> QED BY <1>5, <1>6, <1>7

\* The remaining steps of a session and its read loop keep every identity.
LEMMA LoopIdentity ==
    ASSUME IDInv, NEW e \in Ends,
           \/ OpenStreamCheck(e) \/ AcceptStream(e) \/ CloseSession(e)
           \/ CloseConn(e) \/ CloseRange(e) \/ ReadFrame(e) \/ ReadFail(e)
           \/ DispatchKnown(e) \/ OfferStream(e)
    PROVE  SameIdentity
<1> USE DEF idVars, mapVars
<1>1. ASSUME UNCHANGED <<nextStreamID, opens, opening, made>>,
             \A p \in Stream : st'[p].id = st[p].id /\ st'[p].own = st[p].own
      PROVE  SameIdentity
      BY <1>1, MadeIsStream DEF SameIdentity, IDInv, TypeInv, SessionsOK, CounterExact
<1>2. CASE OpenStreamCheck(e)
  <2>1. opening' \in [Ends -> Nat] /\ \A f \in Ends : opens[f] + opening'[f] <= MaxOpens[f]
    <3>1. /\ opening' = [opening EXCEPT ![e] = @ + 1] /\ opens[e] + opening[e] < MaxOpens[e]
          /\ opens \in [Ends -> Nat] /\ opening \in [Ends -> Nat] /\ MaxOpens[e] \in Nat
          BY <1>2, BoundsAssumption DEF OpenStreamCheck, IDInv, TypeInv, SessionsOK
    <3> QED BY <3>1 DEF IDInv, CounterExact
  <2> QED BY <1>2, <2>1 DEF OpenStreamCheck, SameIdentity
<1>3. CASE AcceptStream(e)
      BY <1>1, <1>3 DEF AcceptStream, IDInv, TypeInv, StreamsOK, StreamState
<1>4. CASE CloseSession(e) \/ CloseConn(e) \/ ReadFrame(e) \/ ReadFail(e) \/ OfferStream(e)
      BY <1>1, <1>4 DEF CloseSession, CloseConn, ReadFrame, ReadFail, OfferStream
<1>5. CASE CloseRange(e)
  <2>1. ASSUME NEW p \in Stream PROVE st'[p].id = st[p].id /\ st'[p].own = st[p].own
    <3>1. Fits(st[p]) /\ closeErr[e] \in Errors
          BY DEF IDInv, TypeInv, StreamsOK, SessionsOK
    <3>2. st'[p] = st[p] \/ st'[p] = SessionClosed(st[p], closeErr[e])
          BY <1>5 DEF CloseRange
    <3> QED BY <3>1, <3>2, SessionClosedType
  <2> QED BY <1>1, <1>5, <2>1 DEF CloseRange
<1>6. CASE DispatchKnown(e)
  <2>1. frame[e].id \in IDs /\ frame[e].n \in 0..MaxWrites
        BY DEF IDInv, TypeInv, SessionsOK, Frame
  <2>2. Target(e) \in Stream
        BY <1>6, <2>1 DEF DispatchKnown, Target, IDInv, TypeInv, SessionsOK
  <2> DEFINE r == PushData(st[Target(e)], frame[e].n)
  <2>3. r.id = st[Target(e)].id /\ r.own = st[Target(e)].own
        BY <2>1, <2>2, PushDataType DEF IDInv, TypeInv, StreamsOK
  <2>4. st' = [st EXCEPT ![Target(e)] = r]
        BY <1>6 DEF DispatchKnown
  <2>5. \A p \in Stream : st'[p].id = st[p].id /\ st'[p].own = st[p].own
        BY <2>2, <2>3, <2>4 DEF IDInv, TypeInv, StreamsOK
  <2> QED BY <1>1, <1>6, <2>5 DEF DispatchKnown
<1> QED BY <1>2, <1>3, <1>4, <1>5, <1>6

LEMMA InitIDInv == Init => IDInv
<1> SUFFICES ASSUME Init PROVE IDInv
    OBVIOUS
<1>1. AllMade = {}
      BY DEF Init, AllMade, Made, Stream, Ends
<1>2. CounterExact
      BY BoundsAssumption DEF Init, CounterExact, FirstID
<1> QED BY <1>1, <1>2, InitTypeInv DEF IDInv, OpenedBefore, OpenedIDsUnique

\* Every step keeps IDInv.
LEMMA NextIDInv ==
    ASSUME NoWrap, IDInv, [Next]_vars
    PROVE  IDInv'
<1>1. TypeInv'
      BY NextTypeInv DEF IDInv
<1>2. ASSUME NEW e \in Ends, SessionNext(e) \/ ReadLoop(e)
      PROVE  CounterExact' /\ OpenedBefore' /\ OpenedIDsUnique'
      BY <1>2, OpenStreamIDs, DispatchNewIDs, LoopIdentity, SameIdentityKeepsIDs
      DEF SessionNext, ReadLoop
<1>3. ASSUME NEW p \in AllMade, StreamNext(p)
      PROVE  CounterExact' /\ OpenedBefore' /\ OpenedIDsUnique'
      BY <1>3, StreamNextIdentity, SameIdentityKeepsIDs
<1>4. CASE Lose \/ UNCHANGED vars
  <2>1. UNCHANGED <<nextStreamID, opens, opening, made, st>>
        BY <1>4 DEF Lose, vars, idVars, mapVars
  <2>2. SameIdentity
        BY <2>1 DEF SameIdentity, IDInv, TypeInv, SessionsOK, CounterExact
  <2> QED BY <1>1, <2>2, SameIdentityKeepsIDs DEF IDInv
<1> QED BY <1>1, <1>2, <1>3, <1>4 DEF Next, IDInv

\* However the OpenStream calls of the two endpoints interleave with each
\* other and with everything else, no two streams they open have one ID.
THEOREM StreamIDsUnique ==
    ASSUME NoWrap
    PROVE  Spec => []OpenedIDsUnique
<1>1. IDInv => OpenedIDsUnique
      BY DEF IDInv
<1>2. IDInv /\ [Next]_vars => IDInv'
      BY NextIDInv
<1> QED BY <1>1, <1>2, InitIDInv, PTL DEF Spec
=============================================================================
