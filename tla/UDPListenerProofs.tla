------------------------- MODULE UDPListenerProofs --------------------------
(***************************************************************************)
(* Who closes a stream of a UDP port, and who deletes a source's entry,    *)
(* for any number of sources, streams and sessions, with and without read  *)
(* deadlines.                                                              *)
(*                                                                         *)
(* OpenIsOwned and MappedIsServed need to know what the receive loop holds *)
(* (InHand), that a stream's goroutine was started once, after the loop    *)
(* had it (Started), and that an entry is under the source of its stream   *)
(* (Keyed): the goroutine deletes the key of its own source.               *)
(***************************************************************************)
EXTENDS UDPListener, TLAPS

TypeInv ==
    /\ pc \in {"receive", "write", "delete", "pick", "open", "header", "store", "start"}
    /\ sourceMap \in [Sources -> Streams \cup {None}]
    /\ owner \in [Streams -> Sources \cup {None}]
    /\ closed \in [Streams -> BOOLEAN]
    /\ handler \in [Streams -> {"none", "checking", "reading", "closing", "deleting", "done"}]

\* What the receive loop has in its variables.
InHand ==
    /\ pc # "receive" => source \in Sources
    /\ pc \in {"write", "delete", "header", "store", "start"} => stream \in Streams
    /\ pc \in {"header", "store", "start"} => owner[stream] = source /\ handler[stream] = "none"

\* Only a stream that was opened has a goroutine.
Started == \A p \in Streams : owner[p] = None => handler[p] = "none"

\* An entry is under the key of its stream.
Keyed == \A a \in Sources : sourceMap[a] # None => owner[sourceMap[a]] = a

Inv == TypeInv /\ InHand /\ Started /\ Keyed /\ OpenIsOwned /\ MappedIsServed

-----------------------------------------------------------------------------
LEMMA InitInv == Init => Inv
  BY UDPAssumption DEF Init, Inv, TypeInv, InHand, Started, Keyed, OpenIsOwned, MappedIsServed, Serving

\* What Inv is about.
seen == <<pc, source, stream, sourceMap, owner, closed, handler>>

LEMMA Unseen == Inv /\ UNCHANGED seen => Inv'
  BY DEF seen, Inv, TypeInv, InHand, Started, Keyed, OpenIsOwned, MappedIsServed, Serving

\* The steps of sessions, of the client and of time.
LEMMA OthersKeepInv ==
    ASSUME Inv,
           \/ \E s \in Sessions :
                 \/ RegisterSession(s) \/ UnregisterSession(s) \/ SessionDies(s)
                 \/ Stall(s) \/ Drain(s)
           \/ \E p \in Streams :
                 Tick(p) \/ ClientStep(p) \/ InboundFails(p) \/ OutboundFails(p)
    PROVE  Inv'
  <1>1. UNCHANGED seen
    <2> USE DEF seen, loopVars, streamVars
    <2>1. ASSUME NEW s \in Sessions,
                 \/ RegisterSession(s) \/ UnregisterSession(s) \/ SessionDies(s)
                 \/ Stall(s) \/ Drain(s)
          PROVE  UNCHANGED seen
      BY <2>1 DEF RegisterSession, UnregisterSession, SessionDies, Stall, Drain
    <2>2. ASSUME NEW p \in Streams, Tick(p) \/ InboundFails(p) \/ OutboundFails(p)
          PROVE  UNCHANGED seen
      BY <2>2 DEF Tick, InboundFails, OutboundFails
    <2>3. ASSUME NEW p \in Streams, ClientStep(p) PROVE UNCHANGED seen
      BY <2>3 DEF ClientStep, ClientAccepts, InboundEnds
    <2> QED  BY <2>1, <2>2, <2>3
  <1> QED  BY <1>1, Unseen

\* The receive loop.
LEMMA LoopKeepsInv ==
    ASSUME Inv, LoopStep \/ \E a \in Sources : ReadFromUDP(a)
    PROVE  Inv'
  <1> USE UDPAssumption DEF Inv, TypeInv, InHand, Started, Keyed, OpenIsOwned, MappedIsServed,
          Serving, loopVars, streamVars
  <1>1. ASSUME NEW a \in Sources, ReadFromUDP(a) PROVE Inv'
    BY <1>1 DEF ReadFromUDP
  <1>2. CASE WriteDatagram
    BY <1>2 DEF WriteDatagram, Continue
  <1>3. CASE DeleteSource
    BY <1>3 DEF DeleteSource, Continue
  <1>4. CASE PickSession
    BY <1>4 DEF PickSession, Continue
  <1>5. CASE OpenStream
    BY <1>5 DEF OpenStream, Continue, Unopened
  <1>6. CASE WriteHeader
    BY <1>6 DEF WriteHeader, CloseAtFailure, Continue
  <1>7. CASE StoreStream
    BY <1>7 DEF StoreStream, Store, SetSource, StartHandler
  <1> QED  BY <1>1, <1>2, <1>3, <1>4, <1>5, <1>6, <1>7 DEF LoopStep

\* The response goroutines.
LEMMA HandlerKeepsInv ==
    ASSUME Inv, NEW p \in Streams, HandlerStep(p) \/ Respond(p)
    PROVE  Inv'
  <1> USE UDPAssumption DEF Inv, TypeInv, InHand, Started, Keyed, OpenIsOwned, MappedIsServed,
          Serving, loopVars, streamVars
  <1>1. CASE Respond(p)
    BY <1>1 DEF Respond
  <1>2. CASE ReadError(p)
    BY <1>2 DEF ReadError
  <1>3. CASE CheckTimeout(p)
    BY <1>3 DEF CheckTimeout
  <1>6. CASE ReadTimeout(p)
    BY <1>6 DEF ReadTimeout
  <1>4. CASE CloseStream(p)
    BY <1>4 DEF CloseStream
  <1>5. CASE HandlerReturns(p)
    BY <1>5 DEF HandlerReturns, DeleteKey
  <1> QED  BY <1>1, <1>2, <1>3, <1>4, <1>5, <1>6 DEF HandlerStep

LEMMA NextInv == Inv /\ [Next]_vars => Inv'
  <1>1. vars' = vars => UNCHANGED seen
    BY DEF vars, seen, loopVars, streamVars
  <1> QED
    BY <1>1, Unseen, OthersKeepInv, LoopKeepsInv, HandlerKeepsInv DEF Next

\* No path of the receive loop or of a response goroutine leaves a stream open.
THEOREM NoStreamLeaks == Spec => []OpenIsOwned
  <1>1. Inv => OpenIsOwned
    BY DEF Inv
  <1> QED  BY InitInv, NextInv, <1>1, PTL DEF Spec

\* No source is left with an entry that no goroutine will delete.
THEOREM EntriesAreServed == Spec => []MappedIsServed
  <1>1. Inv => MappedIsServed
    BY DEF Inv
  <1> QED  BY InitInv, NextInv, <1>1, PTL DEF Spec
=============================================================================
