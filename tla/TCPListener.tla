---------------------------- MODULE TCPListener ----------------------------
(***************************************************************************)
(* A TCP port of the server: the accept loop of TCPPortListener.Start in   *)
(* server/listener.go, over the port's session list (RoundRobin).  One     *)
(* goroutine serves all users of the port, one connection at a time, until *)
(* it hands the connection to a relay (Relay).                             *)
(*                                                                         *)
(* Sessions come from outside: handleSession registers and removes them,   *)
(* they die with their clients, and a client that reads nothing stalls     *)
(* them.  The look-up of the list in the PortMap cannot fail: the map is   *)
(* filled before the listener starts and never changed.                    *)
(***************************************************************************)
EXTENDS RoundRobin, FiniteSets

CONSTANTS
    Conns,         \* user connections, all in the listener's backlog at first:
                   \* the loop may take each of them any time later
    None,          \* no connection, no session
    StreamLimit,   \* streams a session can open, see LimitReached
    WaitsForStream \* QUIC: OpenStream waits while StreamLimit streams are in
                   \* use.  TCP: it fails once StreamLimit IDs were taken

ASSUME ListenerAssumption ==
    StreamLimit \in Nat /\ WaitsForStream \in BOOLEAN /\ None \notin Conns \cup Elements

VARIABLES
    registered,   \* the sessions that were pushed on the list
    alive,        \* alive[s]: the session's connection works
    stalled,      \* stalled[s]: does it take no more data?  "no", "yes", "over"
    listening,    \* ctx is not cancelled, and the closer not called after it
    pc,           \* where the accept loop is
    cur, comp,    \* its conn, and the session picked for it
    conn,         \* conn[c]: what became of a user's connection
    stream, via,  \* stream[c], via[c]: newConn, and the session it is on
    late          \* history: late[s]: streams opened on s after it left the list

outside == <<registered, alive, stalled>>
loop == <<pc, cur, comp>>
users == <<conn, stream, via, late>>
listenerVars == <<vars, outside, listening, loop, users>>

ListenerInit ==
    /\ Init
    /\ registered = {}
    /\ alive = [s \in Elements |-> TRUE] /\ stalled = [s \in Elements |-> "no"]
    /\ listening = TRUE
    /\ pc = "accept" /\ cur = None /\ comp = None
    /\ conn = [c \in Conns |-> "backlog"]
    /\ stream = [c \in Conns |-> "none"] /\ via = [c \in Conns |-> None]
    /\ late = [s \in Elements |-> 0]

-----------------------------------------------------------------------------
(***************************************************************************)
(* Sessions, users and the end of the server.                              *)
(***************************************************************************)

RegisterSession(s) ==
    /\ s \notin registered
    /\ Register(s)
    /\ registered' = registered \cup {s}
    /\ UNCHANGED <<alive, stalled, listening, loop, users>>

UnregisterSession(s) ==
    /\ Unregister(s)
    /\ UNCHANGED <<outside, listening, loop, users>>

SessionDies(s) ==
    /\ s \in registered /\ alive[s]
    /\ alive' = [alive EXCEPT ![s] = FALSE]
    /\ UNCHANGED <<vars, registered, stalled, listening, loop, users>>

\* The client stops reading, and reads on; once each, as a bound.
Stall(s) ==
    /\ stalled[s] = "no" /\ s \in registered /\ alive[s]
    /\ stalled' = [stalled EXCEPT ![s] = "yes"]
    /\ UNCHANGED <<vars, registered, alive, listening, loop, users>>
Drain(s) ==
    /\ stalled[s] = "yes"
    /\ stalled' = [stalled EXCEPT ![s] = "over"]
    /\ UNCHANGED <<vars, registered, alive, listening, loop, users>>

\* A relay ends and closes its stream and its connection.
RelayEnds(c) ==
    /\ conn[c] = "relayed"
    /\ conn' = [conn EXCEPT ![c] = "ended"]
    /\ stream' = [stream EXCEPT ![c] = "closed"]
    /\ UNCHANGED <<vars, outside, listening, loop, via, late>>

\* Run cancels the context, then closes the listener, which is all that the
\* loop notices.
Shutdown ==
    /\ listening
    /\ listening' = FALSE
    /\ UNCHANGED <<vars, outside, loop, users>>

-----------------------------------------------------------------------------
(***************************************************************************)
(* The accept loop.                                                        *)
(***************************************************************************)

Accept(c) ==
    /\ pc = "accept" /\ listening
    /\ conn[c] = "backlog"
    /\ conn' = [conn EXCEPT ![c] = "held"]
    /\ cur' = c /\ pc' = "pick"
    /\ UNCHANGED <<vars, outside, listening, comp, stream, via, late>>

\* Accept fails, and the loop returns.
AcceptFails ==
    /\ pc = "accept" /\ ~listening
    /\ pc' = "returned"
    /\ UNCHANGED <<vars, outside, listening, cur, comp, users>>

\* conn.Close() and on to the next connection.
TurnAwayReturn == conn' = [conn EXCEPT ![cur] = "closed"] /\ pc' = "returned"   \* mutant
TurnAway == conn' = [conn EXCEPT ![cur] = "closed"] /\ pc' = "accept"

\* RoundRobin under the mutex.
PickSticky ==   \* mutant: stay with a session while it works
    IF comp # None /\ alive[comp]
    THEN UNCHANGED <<vars, comp>>
    ELSE Pick /\ comp' = Picked(list, nextSession)
PickNext == Pick /\ comp' = Picked(list, nextSession)

PickSession ==
    /\ pc = "pick"
    /\ \/ list = <<>> /\ TurnAway /\ UNCHANGED <<vars, comp>>
       \/ list # <<>> /\ PickNext /\ pc' = "open" /\ UNCHANGED conn
    /\ UNCHANGED <<outside, listening, cur, stream, via, late>>

\* The streams of s that count against its limit.
LimitReached(s) ==
    StreamLimit <= Cardinality({c \in Conns :
                       via[c] = s /\ (WaitsForStream => stream[c] = "open")})

OpenFails == ~alive[comp] \/ (~WaitsForStream /\ LimitReached(comp))

OpenStream ==
    /\ pc = "open"
    /\ \/ OpenFails /\ TurnAway /\ UNCHANGED <<stream, via, late>>
       \/ /\ alive[comp] /\ ~LimitReached(comp)
          /\ stream' = [stream EXCEPT ![cur] = "open"]
          /\ via' = [via EXCEPT ![cur] = comp]
          /\ late' = IF comp \in Members THEN late ELSE [late EXCEPT ![comp] = @ + 1]
          /\ pc' = "header"
          /\ UNCHANGED conn
    /\ UNCHANGED <<vars, outside, listening, cur, comp>>

CloseNothing == UNCHANGED stream   \* mutant: newConn.Close() is forgotten
CloseNewConn == stream' = [stream EXCEPT ![cur] = "closed"]

\* writeAll of the header: it waits while the session is stalled, and fails
\* when the session is gone.  Then the relay takes over.
WriteHeader ==
    /\ pc = "header"
    /\ \/ /\ alive[comp] /\ stalled[comp] # "yes"
          /\ conn' = [conn EXCEPT ![cur] = "relayed"]
          /\ pc' = "accept"
          /\ UNCHANGED stream
       \/ ~alive[comp] /\ TurnAway /\ CloseNewConn
    /\ UNCHANGED <<vars, outside, listening, cur, comp, via, late>>

AcceptLoop ==
    \/ \E c \in Conns : Accept(c)
    \/ AcceptFails \/ PickSession \/ OpenStream \/ WriteHeader

ListenerNext ==
    \/ \E s \in Elements :
          \/ RegisterSession(s) \/ UnregisterSession(s)
          \/ SessionDies(s) \/ Stall(s) \/ Drain(s)
    \/ \E c \in Conns : RelayEnds(c)
    \/ Shutdown
    \/ AcceptLoop

ListenerSpec == ListenerInit /\ [][ListenerNext]_listenerVars

\* The loop runs on.  Nothing makes a stalled client read on, or a relay end.
ListenerFairSpec == ListenerSpec /\ WF_listenerVars(AcceptLoop)
-----------------------------------------------------------------------------
\* A stream the loop opened belongs to a connection that is being relayed, or
\* to the one in hand: no failure of the loop leaves one open, or a user's
\* connection on a closed one.
StreamsOwned ==
    \A c \in Conns :
        stream[c] = "open" <=> conn[c] = "relayed" \/ (pc = "header" /\ cur = c)

\* A session that left the list gets at most one connection more, the one that
\* was in the loop's hands.
AtMostOneLate == \A s \in Elements : late[s] <= 1

\* A session holds the loop, and all users of the port with it: its client reads
\* nothing, or its streams are used up.  No deadline ends that.
HeldBySession ==
    \/ pc = "header" /\ alive[comp] /\ stalled[comp] = "yes"
    \/ pc = "open" /\ alive[comp] /\ LimitReached(comp) /\ WaitsForStream

\* Unless one session holds the loop for good, everyone who connects is relayed
\* or turned away until the listener closes, however sessions come, go and fail.
EveryoneAnswered ==
    []<>~HeldBySession =>
        \A c \in Conns :
            conn[c] = "backlog" ~> (conn[c] \in {"relayed", "closed", "ended"} \/ ~listening)
=============================================================================
