------------------------- MODULE ControlPlaneProofs -------------------------
(***************************************************************************)
(* What the server's lists hold, for any number of sessions, any files and *)
(* any clients.                                                            *)
(***************************************************************************)
EXTENDS ControlPlane, SequenceTheorems, WellFoundedInduction, TLAPS

\* The elements of a list, and lists without repetitions.
In(e, l) == \E i \in 1..Len(l) : l[i] = e
Distinct(l) == \A i, j \in 1..Len(l) : l[i] = l[j] => i = j

LEMMA PushedElements ==
    ASSUME NEW S, NEW l \in Seq(S), NEW e \in S, Distinct(l), ~In(e, l)
    PROVE  /\ PushBack(l, e) \in Seq(S) /\ Distinct(PushBack(l, e))
           /\ \A x : In(x, PushBack(l, e)) <=> In(x, l) \/ x = e
  <1> DEFINE p == PushBack(l, e)
  <1>1. p \in Seq(S) /\ Len(p) = Len(l) + 1 /\ Len(l) \in Nat
    BY DEF PushBack
  <1>2. \A i \in 1..Len(p) : p[i] = IF i = Len(l) + 1 THEN e ELSE l[i]
    BY DEF PushBack
  <1> HIDE DEF p
  <1>3. Distinct(p)
    BY <1>1, <1>2 DEF Distinct, In
  <1>4. ASSUME NEW x PROVE In(x, p) <=> In(x, l) \/ x = e
    BY <1>1, <1>2 DEF In
  <1> QED  BY <1>1, <1>3, <1>4 DEF p

LEMMA RemainingElements ==
    ASSUME NEW S, NEW l \in Seq(S), NEW e, Distinct(l), In(e, l)
    PROVE  /\ Remove(l, e) \in Seq(S) /\ Distinct(Remove(l, e))
           /\ \A x : In(x, Remove(l, e)) <=> In(x, l) /\ x # e
  <1> DEFINE at == CHOOSE i \in DOMAIN l : l[i] = e
             r == [i \in 1..Len(l) - 1 |-> IF i < at THEN l[i] ELSE l[i + 1]]
  <1>1. at \in 1..Len(l) /\ Len(l) \in Nat /\ l[at] = e
    BY DEF In
  <1>2. Remove(l, e) = r
    BY DEF Remove
  <1>3. \A i \in 1..Len(l) - 1 : r[i] \in S
    BY <1>1
  <1>4. Len(l) - 1 \in Nat
    BY <1>1
  <1>5. r \in Seq(S) /\ Len(r) = Len(l) - 1
    BY <1>3, <1>4
  <1>6. \A i \in 1..Len(r) : r[i] = IF i < at THEN l[i] ELSE l[i + 1]
    BY <1>5
  <1> HIDE DEF r, at
  <1>7. Distinct(r)
    BY <1>1, <1>5, <1>6 DEF Distinct
  <1>8. ASSUME NEW x, In(x, r) PROVE In(x, l) /\ x # e
    BY <1>1, <1>5, <1>6, <1>8 DEF In, Distinct
  <1>9. ASSUME NEW x, In(x, l), x # e PROVE In(x, r)
    <2>1. PICK i \in 1..Len(l) : l[i] = x
      BY <1>9 DEF In
    <2>2. CASE i < at
      <3>1. i \in 1..Len(r) /\ r[i] = x
        BY <1>1, <1>5, <1>6, <2>1, <2>2
      <3> QED  BY <3>1 DEF In
    <2>3. CASE i > at
      <3>1. i - 1 \in 1..Len(r) /\ r[i - 1] = x
        BY <1>1, <1>5, <1>6, <2>1, <2>3
      <3> QED  BY <3>1 DEF In
    <2> QED  BY <1>1, <1>9, <2>1, <2>2, <2>3
  <1> QED  BY <1>2, <1>5, <1>7, <1>8, <1>9

LEMMA FollowingElements ==
    ASSUME NEW S, NEW l \in Seq(S), l # <<>>, Distinct(l)
    PROVE  /\ Tail(l) \in Seq(S) /\ Distinct(Tail(l)) /\ Head(l) \in S /\ In(Head(l), l)
           /\ \A x : In(x, Tail(l)) <=> In(x, l) /\ x # Head(l)
  <1>1. Len(l) \in Nat /\ Len(l) >= 1 /\ Head(l) = l[1] /\ l[1] \in S
    OBVIOUS
  <1>2. Tail(l) \in Seq(S) /\ Len(Tail(l)) = Len(l) - 1
    OBVIOUS
  <1>3. \A i \in 1..Len(Tail(l)) : Tail(l)[i] = l[i + 1]
    OBVIOUS
  <1>4. Distinct(Tail(l))
    BY <1>1, <1>2, <1>3 DEF Distinct
  <1>5. ASSUME NEW x, In(x, Tail(l)) PROVE In(x, l) /\ x # Head(l)
    BY <1>1, <1>2, <1>3, <1>5 DEF In, Distinct
  <1>6. ASSUME NEW x, In(x, l), x # Head(l) PROVE In(x, Tail(l))
    <2>1. PICK i \in 1..Len(l) : l[i] = x
      BY <1>6 DEF In
    <2>2. i - 1 \in 1..Len(Tail(l)) /\ Tail(l)[i - 1] = x
      BY <1>1, <1>2, <1>3, <1>6, <2>1
    <2> QED  BY <2>2 DEF In
  <1> QED  BY <1>1, <1>2, <1>4, <1>5, <1>6 DEF In

-----------------------------------------------------------------------------
Phases == {"none", "stream", "handshake", "negotiate", "register", "running", "closing",
           "cleanup", "done"}
ClientPhases == {"off", "connected", "opening", "handshake", "negotiate", "running", "closing",
                 "exited", "gone"}

\* Values of the right kind, as far as the lists depend on it.
ListTypes ==
    /\ sv \in [Sessions -> Phases] /\ cl \in [Sessions -> ClientPhases]
    /\ want \in [Sessions -> Clients]
    /\ negotiated = [s \in Sessions |-> negotiated[s]]
    /\ \A s \in Sessions : DOMAIN negotiated[s] \subseteq Nat
    /\ portMap \in [Ports -> Seq(Element)]
    /\ registered \in [Sessions -> Seq(Element)]

\* A session begins with its client.
BegunByClient == \A s \in Sessions : cl[s] = "off" => sv[s] = "none"

\* An element is in one list at most, once, and there exactly as long as its
\* session has it to remove.
ListsMatch ==
    /\ \A tp \in Ports : Distinct(portMap[tp])
    /\ \A s \in Sessions : Distinct(registered[s])
    /\ \A s \in Sessions : registered[s] # <<>> => sv[s] \in {"register", "running", "closing", "cleanup"}
    /\ \A s \in Sessions, e \in Element : In(e, registered[s]) =>
          e[1] = s /\ e[2] \in DOMAIN negotiated[s] /\ negotiated[s][e[2]] \in Ports
    /\ \A tp \in Ports, e \in Element :
          In(e, portMap[tp]) <=> In(e, registered[e[1]]) /\ negotiated[e[1]][e[2]] = tp

ListInv == ListTypes /\ BegunByClient /\ ListsMatch

LEMMA InitListInv == Init => ListInv
  BY DEF Init, ListInv, ListTypes, BegunByClient, ListsMatch, Phases, ClientPhases, Distinct, In, Element

\* Steps that leave the lists alone and start or close no registered session.
LEMMA ListsLeftAlone ==
    ASSUME ListInv, UNCHANGED <<listVars, want>>, sv' \in [Sessions -> Phases],
           cl' \in [Sessions -> ClientPhases], BegunByClient',
           \A s \in Sessions : registered[s] # <<>> =>
              sv'[s] \in {"register", "running", "closing", "cleanup"}
    PROVE  ListInv'
  BY DEF listVars, ListInv, ListTypes, ListsMatch

LEMMA RegisterKeepsLists ==
    ASSUME ListInv, NEW s \in Sessions, Register(s)
    PROVE  ListInv'
  <1> USE DEF ListInv, ListTypes
  <1>1. PICK n \in ToRegister(s) :
           /\ portMap' = [portMap EXCEPT ![negotiated[s][n]] = PushBack(@, <<s, n>>)]
           /\ registered' = [registered EXCEPT ![s] = Append(@, <<s, n>>)]
    BY DEF Register
  <1>2. sv[s] = "register" /\ UNCHANGED <<negotiated, sv, cl, want>>
    BY DEF Register, clientVars
  <1> DEFINE e == <<s, n>>
             tp == negotiated[s][n]
  <1>3. n \in DOMAIN negotiated[s] /\ tp \in Ports /\ n \in Nat
    BY DEF ToRegister, Unlisted
  <1>4. e \in Element /\ e[1] = s /\ e[2] = n
    BY <1>3 DEF Element
  <1>5. ~In(e, registered[s])
    <2>1. \A i \in 1..Len(registered[s]) : registered[s][i][2] < n
      BY DEF ToRegister, Unlisted
    <2> QED  BY <1>3, <1>4, <2>1 DEF In
  <1>6. ~In(e, portMap[tp])
    BY <1>3, <1>4, <1>5 DEF ListsMatch
  <1> HIDE DEF e, tp
  <1>7. /\ portMap'[tp] \in Seq(Element) /\ Distinct(portMap'[tp])
        /\ \A x : In(x, portMap'[tp]) <=> In(x, portMap[tp]) \/ x = e
    <2>1. portMap[tp] \in Seq(Element) /\ Distinct(portMap[tp])
      BY <1>3 DEF ListsMatch
    <2>2. portMap'[tp] = PushBack(portMap[tp], e)
      BY <1>1, <1>3 DEF e, tp
    <2> QED  BY <1>4, <1>6, <2>1, <2>2, PushedElements
  <1>8. /\ registered'[s] \in Seq(Element) /\ Distinct(registered'[s])
        /\ \A x : In(x, registered'[s]) <=> In(x, registered[s]) \/ x = e
    <2>1. registered[s] \in Seq(Element) /\ Distinct(registered[s])
      BY DEF ListsMatch
    <2>2. registered'[s] = PushBack(registered[s], e)
      BY <1>1 DEF e, PushBack
    <2> QED  BY <1>4, <1>5, <2>1, <2>2, PushedElements
  <1>9. /\ \A q \in Ports : q # tp => portMap'[q] = portMap[q]
        /\ \A r \in Sessions : r # s => registered'[r] = registered[r]
        /\ DOMAIN portMap' = Ports /\ DOMAIN registered' = Sessions
        /\ portMap' = [q \in Ports |-> portMap'[q]]
        /\ registered' = [r \in Sessions |-> registered'[r]]
    BY <1>1 DEF tp
  <1>10. ListTypes'
    BY <1>2, <1>7, <1>8, <1>9
  <1>11. ListsMatch'
    <2>1. \A q \in Ports : Distinct(portMap'[q])
      BY <1>7, <1>9 DEF ListsMatch
    <2>2. \A r \in Sessions : Distinct(registered'[r])
      BY <1>8, <1>9 DEF ListsMatch
    <2>3. \A r \in Sessions : registered'[r] # <<>> => sv'[r] \in {"register", "running", "closing", "cleanup"}
      BY <1>2, <1>9 DEF ListsMatch
    <2>4. \A r \in Sessions, x \in Element : In(x, registered'[r]) =>
             x[1] = r /\ x[2] \in DOMAIN negotiated'[r] /\ negotiated'[r][x[2]] \in Ports
      <3>1. e[1] = s /\ e[2] \in DOMAIN negotiated[s] /\ negotiated[s][e[2]] \in Ports
        BY <1>3, <1>4 DEF tp
      <3>2. \A r \in Sessions : \A x :
               In(x, registered'[r]) => In(x, registered[r]) \/ (r = s /\ x = e)
        BY <1>8, <1>9
      <3> QED  BY <1>2, <3>1, <3>2 DEF ListsMatch
    <2>5. ASSUME NEW q \in Ports, NEW x \in Element
          PROVE  In(x, portMap'[q]) <=> In(x, registered'[x[1]]) /\ negotiated'[x[1]][x[2]] = q
      <3>1. x[1] \in Sessions
        BY DEF Element
      <3>2. In(x, portMap'[q]) <=> In(x, portMap[q]) \/ (q = tp /\ x = e)
        BY <1>7, <1>9
      <3>3. In(x, registered'[x[1]]) <=> In(x, registered[x[1]]) \/ x = e
        BY <1>4, <1>8, <1>9, <3>1
      <3>4. x = e => (negotiated[x[1]][x[2]] = q <=> q = tp)
        BY <1>4 DEF tp
      <3> QED  BY <1>2, <3>2, <3>3, <3>4 DEF ListsMatch
    <2> QED  BY <2>1, <2>2, <2>3, <2>4, <2>5 DEF ListsMatch
  <1>12. BegunByClient'
    BY <1>2 DEF BegunByClient
  <1> QED  BY <1>10, <1>11, <1>12

LEMMA UnregisterKeepsLists ==
    ASSUME ListInv, NEW s \in Sessions, Unregister(s)
    PROVE  ListInv'
  <1> USE DEF ListInv, ListTypes
  <1> DEFINE e == Head(registered[s])
             tp == negotiated[s][e[2]]
  <1>1. /\ registered[s] # <<>> /\ registered' = [registered EXCEPT ![s] = Tail(@)]
        /\ portMap' = [portMap EXCEPT ![tp] = Remove(@, e)]
        /\ sv[s] = "cleanup" /\ UNCHANGED <<negotiated, sv, cl, want>>
    BY DEF Unregister, Receive, clientVars
  <1>2. /\ registered'[s] \in Seq(Element) /\ Distinct(registered'[s])
        /\ \A x : In(x, registered'[s]) <=> In(x, registered[s]) /\ x # e
        /\ e \in Element /\ In(e, registered[s])
    <2>1. registered[s] \in Seq(Element) /\ Distinct(registered[s])
      BY DEF ListsMatch
    <2>2. registered'[s] = Tail(registered[s])
      BY <1>1
    <2> QED  BY <1>1, <2>1, <2>2, FollowingElements
  <1> HIDE DEF e
  <1>3. e[1] = s /\ tp \in Ports
    BY <1>2 DEF ListsMatch
  <1>4. In(e, portMap[tp])
    BY <1>2, <1>3 DEF ListsMatch
  <1> HIDE DEF tp
  <1>5. /\ portMap'[tp] \in Seq(Element) /\ Distinct(portMap'[tp])
        /\ \A x : In(x, portMap'[tp]) <=> In(x, portMap[tp]) /\ x # e
    <2>1. portMap[tp] \in Seq(Element) /\ Distinct(portMap[tp])
      BY <1>3 DEF ListsMatch
    <2>2. portMap'[tp] = Remove(portMap[tp], e)
      BY <1>1, <1>3
    <2> QED  BY <1>4, <2>1, <2>2, RemainingElements
  <1>6. /\ \A q \in Ports : q # tp => portMap'[q] = portMap[q]
        /\ \A r \in Sessions : r # s => registered'[r] = registered[r]
        /\ portMap' = [q \in Ports |-> portMap'[q]]
        /\ registered' = [r \in Sessions |-> registered'[r]]
    BY <1>1
  <1>7. ListTypes'
    BY <1>1, <1>2, <1>5, <1>6
  <1>8. ListsMatch'
    <2>1. \A q \in Ports : Distinct(portMap'[q])
      BY <1>5, <1>6 DEF ListsMatch
    <2>2. \A r \in Sessions : Distinct(registered'[r])
      BY <1>2, <1>6 DEF ListsMatch
    <2>3. \A r \in Sessions : registered'[r] # <<>> => sv'[r] \in {"register", "running", "closing", "cleanup"}
      BY <1>1, <1>6 DEF ListsMatch
    <2>4. \A r \in Sessions, x \in Element : In(x, registered'[r]) =>
             x[1] = r /\ x[2] \in DOMAIN negotiated'[r] /\ negotiated'[r][x[2]] \in Ports
      BY <1>1, <1>2, <1>6 DEF ListsMatch
    <2>5. ASSUME NEW q \in Ports, NEW x \in Element
          PROVE  In(x, portMap'[q]) <=> In(x, registered'[x[1]]) /\ negotiated'[x[1]][x[2]] = q
      <3>1. x[1] \in Sessions
        BY DEF Element
      <3>2. In(x, portMap'[q]) <=> In(x, portMap[q]) /\ (q # tp \/ x # e)
        BY <1>5, <1>6
      <3>3. In(x, registered'[x[1]]) <=> In(x, registered[x[1]]) /\ x # e
        BY <1>2, <1>3, <1>6, <3>1
      <3>4. x = e => (negotiated[x[1]][x[2]] = q <=> q = tp)
        BY <1>3 DEF tp
      <3> QED  BY <1>1, <3>2, <3>3, <3>4 DEF ListsMatch
    <2> QED  BY <2>1, <2>2, <2>3, <2>4, <2>5 DEF ListsMatch
  <1>9. BegunByClient'
    BY <1>1 DEF BegunByClient
  <1> QED  BY <1>7, <1>8, <1>9

LEMMA NegotiateKeepsLists ==
    ASSUME ListInv, NEW s \in Sessions, Negotiate(s)
    PROVE  ListInv'
  <1> USE DEF ListInv, ListTypes
  <1>1. /\ sv[s] = "negotiate" /\ sv' = [sv EXCEPT ![s] = "register"]
        /\ negotiated' = [negotiated EXCEPT ![s] = [i \in Accepted(s) |-> Asked(s)[i]]]
        /\ UNCHANGED <<portMap, registered, cl, want>>
    BY DEF Negotiate, Goto, clientVars
  <1>2. DOMAIN negotiated'[s] \subseteq Nat
    <2>1. want[s] \in ClientConfigs \cup OtherClients
      BY DEF Clients
    <2>2. PICK n \in 0..255 : DOMAIN want[s].ports = 1..n
      BY <2>1, ClientAssumption
    <2> QED  BY <1>1, <2>2 DEF Accepted, Asked
  <1>3. /\ \A r \in Sessions : r # s => negotiated'[r] = negotiated[r]
        /\ negotiated' = [r \in Sessions |-> negotiated'[r]]
    BY <1>1
  <1>4. ListTypes'
    BY <1>1, <1>2, <1>3 DEF Phases
  <1>5. registered[s] = <<>>
    BY <1>1 DEF ListsMatch
  <1>6. \A x : ~In(x, registered[s])
    BY <1>5 DEF In
  <1>7. \A x \in Element : In(x, registered[x[1]]) => x[1] # s /\ x[1] \in Sessions
    BY <1>6 DEF Element
  <1>8. ListsMatch'
    <2>1. \A r \in Sessions : registered'[r] # <<>> => sv'[r] \in {"register", "running", "closing", "cleanup"}
      BY <1>1 DEF ListsMatch
    <2>2. \A r \in Sessions, x \in Element : In(x, registered'[r]) =>
             x[1] = r /\ x[2] \in DOMAIN negotiated'[r] /\ negotiated'[r][x[2]] \in Ports
      BY <1>1, <1>3, <1>6 DEF ListsMatch
    <2>3. ASSUME NEW q \in Ports, NEW x \in Element
          PROVE  In(x, portMap'[q]) <=> In(x, registered'[x[1]]) /\ negotiated'[x[1]][x[2]] = q
      BY <1>1, <1>3, <1>7 DEF ListsMatch
    <2> QED  BY <1>1, <2>1, <2>2, <2>3 DEF ListsMatch
  <1>9. BegunByClient'
    BY <1>1 DEF BegunByClient
  <1> QED  BY <1>4, <1>8, <1>9

LEMMA NextListInv == ListInv /\ [Next]_vars => ListInv'
  <1> SUFFICES ASSUME ListInv, [Next]_vars PROVE ListInv'
    OBVIOUS
  <1>s. /\ sv \in [Sessions -> Phases] /\ cl \in [Sessions -> ClientPhases] /\ BegunByClient
        /\ \A s \in Sessions : registered[s] # <<>> => sv[s] \in {"register", "running", "closing", "cleanup"}
    BY DEF ListInv, ListTypes, ListsMatch
  <1>1. ASSUME UNCHANGED <<listVars, want, sv, cl>> PROVE ListInv'
    BY <1>1, <1>s, ListsLeftAlone DEF BegunByClient
  <1>2. ASSUME NEW s \in Sessions, NEW l \in Phases,
               UNCHANGED <<listVars, want, cl>>, sv[s] # "none", Goto(sv, s, l),
               registered[s] # <<>> => l \in {"register", "running", "closing", "cleanup"}
        PROVE  ListInv'
    <2>1. /\ sv' \in [Sessions -> Phases] /\ BegunByClient'
          /\ \A r \in Sessions : registered[r] # <<>> => sv'[r] \in {"register", "running", "closing", "cleanup"}
      BY <1>s, <1>2 DEF Goto, BegunByClient
    <2> QED  BY <1>s, <1>2, <2>1, ListsLeftAlone
  <1>c. ASSUME NEW s \in Sessions, NEW l \in ClientPhases \ {"off"},
               UNCHANGED <<listVars, want, sv>>, Goto(cl, s, l)
        PROVE  ListInv'
    <2>1. cl' \in [Sessions -> ClientPhases] /\ BegunByClient'
      BY <1>s, <1>c DEF Goto, BegunByClient
    <2> QED  BY <1>s, <1>c, <2>1, ListsLeftAlone
  <1>3. ASSUME ReloadConfig \/ Interrupt \/ Stop PROVE ListInv'
    BY <1>1, <1>3 DEF ReloadConfig, Interrupt, Stop, clientVars
  <1>4. ASSUME NEW s \in Sessions, ServerStep(s) PROVE ListInv'
    <2>1. CASE AcceptControl(s)
      BY <1>s, <1>2, <2>1 DEF AcceptControl, clientVars, Goto, Phases
    <2>2. CASE StreamFails(s)
      BY <1>s, <1>2, <2>2 DEF StreamFails, Return, clientVars, Goto, Phases
    <2>3. CASE Handshake(s)
      BY <1>s, <1>2, <2>3 DEF Handshake, Return, clientVars, Goto, Phases
    <2>4. CASE StartControlLoop(s)
      BY <1>s, <1>2, <2>4 DEF StartControlLoop, clientVars, Goto, Phases
    <2>5. CASE SessionDone(s)
      BY <1>s, <1>2, <2>5 DEF SessionDone, Return, clientVars, Goto, Phases
    <2>6. CASE CloseSession(s)
      BY <1>s, <1>2, <2>6 DEF CloseSession, clientVars, Goto, Phases
    <2>7. CASE CloseControl(s)
      BY <1>s, <1>2, <2>7 DEF CloseControl, clientVars, Goto, Phases
    <2> QED  BY <1>4, <2>1, <2>2, <2>3, <2>4, <2>5, <2>6, <2>7, RegisterKeepsLists,
                UnregisterKeepsLists, NegotiateKeepsLists DEF ServerStep
  <1>5. ASSUME NEW s \in Sessions, AcceptSession(s) PROVE ListInv'
    <2>1. registered[s] = <<>>
      BY <1>s, <1>5 DEF AcceptSession, BegunByClient
    <2>2. sv' \in [Sessions -> Phases] /\ cl' \in [Sessions -> ClientPhases] /\ BegunByClient'
      BY <1>s, <1>5 DEF AcceptSession, Goto, BegunByClient, Phases, ClientPhases
    <2>3. \A r \in Sessions : registered[r] # <<>> => sv'[r] \in {"register", "running", "closing", "cleanup"}
      BY <1>s, <1>5, <2>1 DEF AcceptSession, Goto
    <2> QED  BY <1>5, <2>2, <2>3, ListsLeftAlone DEF AcceptSession
  <1>6. ASSUME NEW s \in Sessions, ControlReader(s) \/ ControlLoop(s) \/ KeepAliveTimeout(s)
        PROVE  ListInv'
    BY <1>1, <1>6 DEF ControlReader, ControlLoop, ReadControl, ReaderReturns,
       HandleControl, LoopReturns, KeepAliveTimeout, clientVars
  <1>7. ASSUME NEW s \in Sessions,
               ClientStep(s) \/ ClientKeepAlive(s) \/ ClientClose(s) \/ ClientVanishes(s)
               \/ Stall(s) \/ Drain(s)
        PROVE  ListInv'
    <2>1. CASE ClientHello(s)
      BY <1>c, <2>1 DEF ClientHello, ClientPhases
    <2>2. CASE ClientAuthenticated(s)
      BY <1>c, <2>2 DEF ClientAuthenticated, ClientPhases
    <2>3. CASE ClientNegotiated(s)
      BY <1>c, <2>3 DEF ClientNegotiated, ClientPhases
    <2>4. CASE ClientRefused(s)
      BY <1>c, <2>4 DEF ClientRefused, ClientPhases
    <2>5. CASE ClientExit(s)
      BY <1>c, <2>5 DEF ClientExit, ClientPhases
    <2>6. CASE ClientKeepAlive(s)
      BY <1>1, <2>6 DEF ClientKeepAlive, clientVars
    <2>7. CASE ClientClose(s)
      BY <1>c, <2>7 DEF ClientClose, ClientPhases
    <2>8. CASE ClientVanishes(s)
      BY <1>c, <2>8 DEF ClientVanishes, ClientPhases
    <2>9. CASE ClientOpens(s)
      BY <1>c, <2>9 DEF ClientOpens, ClientPhases
    <2>10. CASE Stall(s) \/ Drain(s)
      BY <1>1, <2>10 DEF Stall, Drain
    <2> QED  BY <1>7, <2>1, <2>2, <2>3, <2>4, <2>5, <2>6, <2>7, <2>8, <2>9, <2>10 DEF ClientStep
  <1>8. CASE UNCHANGED vars
    BY <1>1, <1>8 DEF vars, clientVars
  <1> QED  BY <1>3, <1>4, <1>5, <1>6, <1>7, <1>8 DEF Next

LEMMA ListInvMeans == ListInv => NoStaleRegistration
  <1> SUFFICES ASSUME ListInv PROVE NoStaleRegistration
    OBVIOUS
  <1> USE DEF ListInv, ListTypes
  <1>1. ASSUME NEW tp \in Ports, NEW i \in DOMAIN portMap[tp]
        PROVE  LET e == portMap[tp][i] IN
               /\ sv[e[1]] \in {"register", "running", "closing", "cleanup"}
               /\ negotiated[e[1]][e[2]] = tp
               /\ \E j \in DOMAIN registered[e[1]] : registered[e[1]][j] = e
               /\ \A j \in DOMAIN portMap[tp] : portMap[tp][j] = e => j = i
    <2> DEFINE e == portMap[tp][i]
    <2>1. portMap[tp] \in Seq(Element) /\ DOMAIN portMap[tp] = 1..Len(portMap[tp])
      OBVIOUS
    <2>2. e \in Element /\ In(e, portMap[tp]) /\ e[1] \in Sessions
      BY <2>1 DEF In, Element
    <2> HIDE DEF e
    <2>3. In(e, registered[e[1]]) /\ negotiated[e[1]][e[2]] = tp
      BY <2>2 DEF ListsMatch
    <2>4. registered[e[1]] \in Seq(Element)
      BY <2>2
    <2>5. /\ \E j \in DOMAIN registered[e[1]] : registered[e[1]][j] = e
          /\ registered[e[1]] # <<>>
      BY <2>3, <2>4 DEF In
    <2>6. \A j \in DOMAIN portMap[tp] : portMap[tp][j] = e => j = i
      BY <2>1 DEF ListsMatch, Distinct, e
    <2> QED  BY <2>2, <2>3, <2>5, <2>6 DEF ListsMatch, e
  <1>2. ASSUME NEW s \in Sessions, NEW j \in DOMAIN registered[s]
        PROVE  LET e == registered[s][j] IN
               \E i \in DOMAIN portMap[negotiated[s][e[2]]] : portMap[negotiated[s][e[2]]][i] = e
    <2> DEFINE e == registered[s][j]
    <2>1. e \in Element /\ In(e, registered[s])
      <3>1. registered[s] \in Seq(Element) /\ DOMAIN registered[s] = 1..Len(registered[s])
        OBVIOUS
      <3> QED  BY <3>1 DEF In
    <2> HIDE DEF e
    <2>2. e[1] = s /\ negotiated[s][e[2]] \in Ports
      BY <2>1 DEF ListsMatch
    <2>3. In(e, portMap[negotiated[s][e[2]]]) /\ portMap[negotiated[s][e[2]]] \in Seq(Element)
      BY <2>1, <2>2 DEF ListsMatch
    <2> QED  BY <2>3 DEF In, e
  <1> QED  BY <1>1, <1>2 DEF NoStaleRegistration

\* On no path does a session leave anything in a port's list, and no cleanup
\* takes another session's element, for any number of sessions and clients.
THEOREM NothingStale == Spec => []NoStaleRegistration
  BY InitListInv, NextListInv, ListInvMeans, PTL DEF Spec

-----------------------------------------------------------------------------
ClientSends == {"hello", "ports", "ka", "close", "eof"}
ServerSends == {"Accepted", "UnrecognizedToken", "OtherError", "responses", "eof"}

\* The types that ListTypes has not.
OtherTypes ==
    /\ currentConfig \in Configs /\ reloads \in 0..MaxReloads
    /\ acceptLoop \in {"blocked", "returned"} /\ shutdown \in BOOLEAN /\ stopped \in BOOLEAN
    /\ cfg \in [Sessions -> Configs]
    /\ c2s \in [Sessions -> Seq(ClientSends)]
    /\ s2c \in [Sessions -> Seq(ServerSends)]
    /\ controlMsg \in [Sessions -> Seq({"ka", "close"})]
    /\ cancelled \in [Sessions -> BOOLEAN]
    /\ reader \in [Sessions -> BOOLEAN] /\ loop \in [Sessions -> BOOLEAN]
    /\ stalled \in [Sessions -> {"no", "yes", "over"}]

Once(m, q) == \A i, j \in 1..Len(q) : q[i] = m /\ q[j] = m => i = j

\* The client sends hello and ports once each, in its turn, and the control
\* loop's reader starts only when the handshake has taken both.
HandshakeOver(s) ==
    /\ Once("hello", c2s[s]) /\ Once("ports", c2s[s])
    /\ In("hello", c2s[s]) => cl[s] \notin {"off", "connected", "opening"}
    /\ In("ports", c2s[s]) => cl[s] \notin {"off", "connected", "opening", "handshake"}
    /\ sv[s] \in {"negotiate", "register", "running"} \/ reader[s] =>
          cl[s] \notin {"off", "connected", "opening"} /\ ~In("hello", c2s[s])
    /\ sv[s] \in {"register", "running"} \/ reader[s] =>
          cl[s] # "handshake" /\ ~In("ports", c2s[s])

TypeInv == ListInv /\ OtherTypes /\ \A s \in Sessions : HandshakeOver(s)

LEMMA TypeInvMeans == TypeInv => TypeOK
  <1> SUFFICES ASSUME TypeInv PROVE TypeOK
    OBVIOUS
  <1>1. currentConfig.tokens # {} \/ \E e \in AllEntries(currentConfig) : e.tokens # {}
    <2>1. ValidateServerConfig(currentConfig)
      BY DEF TypeInv, OtherTypes, Configs
    <2> QED  BY <2>1 DEF ValidateServerConfig
  <1> QED  BY <1>1 DEF TypeInv, OtherTypes, ListInv, ListTypes, Phases, ClientPhases,
              ClientSends, ServerSends, TypeOK

LEMMA InitTypeInv == Init => TypeInv
  <1> SUFFICES ASSUME Init PROVE TypeInv
    OBVIOUS
  <1>1. InitConfig \in Configs
    <2>1. InitConfig \in {ParseServerConfig(f) : f \in Files}
      BY ConfigAssumption DEF InitConfig
    <2> QED  BY <2>1, ConfigAssumption DEF Configs
  <1>2. OtherTypes
    <2>1. reloads \in 0..MaxReloads
      BY BoundsAssumption DEF Init
    <2>2. cfg \in [Sessions -> Configs] /\ currentConfig \in Configs
      BY <1>1 DEF Init
    <2>3. /\ c2s \in [Sessions -> Seq(ClientSends)] /\ s2c \in [Sessions -> Seq(ServerSends)]
          /\ controlMsg \in [Sessions -> Seq({"ka", "close"})]
      BY DEF Init
    <2>4. cancelled \in [Sessions -> BOOLEAN] /\ reader \in [Sessions -> BOOLEAN]
      BY DEF Init
    <2>5. loop \in [Sessions -> BOOLEAN]
      BY DEF Init
    <2>6. acceptLoop \in {"blocked", "returned"} /\ shutdown \in BOOLEAN /\ stopped \in BOOLEAN
      BY DEF Init
    <2>7. stalled \in [Sessions -> {"no", "yes", "over"}]
      BY DEF Init
    <2> QED  BY <2>1, <2>2, <2>3, <2>4, <2>5, <2>6, <2>7 DEF OtherTypes
  <1>3. \A s \in Sessions : HandshakeOver(s)
    BY DEF Init, HandshakeOver, Once, In
  <1> QED  BY InitListInv, <1>2, <1>3 DEF TypeInv

\* What sending and receiving does to the messages of a queue.
LEMMA SentMessages ==
    ASSUME NEW S, NEW q \in Seq(S), NEW m \in S
    PROVE  /\ Append(q, m) \in Seq(S)
           /\ \A x : In(x, Append(q, m)) <=> In(x, q) \/ x = m
           /\ \A x : Once(x, q) /\ (x = m => ~In(x, q)) => Once(x, Append(q, m))
  <1> DEFINE p == Append(q, m)
  <1>1. p \in Seq(S) /\ Len(p) = Len(q) + 1 /\ Len(q) \in Nat
    OBVIOUS
  <1>2. \A i \in 1..Len(p) : p[i] = IF i = Len(q) + 1 THEN m ELSE q[i]
    OBVIOUS
  <1> HIDE DEF p
  <1>3. \A x : In(x, p) <=> In(x, q) \/ x = m
    BY <1>1, <1>2 DEF In
  <1>4. \A x : Once(x, q) /\ (x = m => ~In(x, q)) => Once(x, p)
    BY <1>1, <1>2 DEF In, Once
  <1> QED  BY <1>1, <1>3, <1>4 DEF p

LEMMA DroppedMessages ==
    ASSUME NEW S, NEW q \in Seq(S), NEW k \in 0..Len(q)
    PROVE  LET p == SubSeq(q, k + 1, Len(q)) IN
           /\ p \in Seq(S)
           /\ \A x : In(x, p) => In(x, q)
           /\ \A x : Once(x, q) => Once(x, p)
           /\ \A x : Once(x, q) /\ k >= 1 /\ q[1] = x => ~In(x, p)
  <1> DEFINE p == SubSeq(q, k + 1, Len(q))
  <1>1. Len(q) \in Nat /\ k \in Nat /\ k <= Len(q)
    OBVIOUS
  <1>2. p \in Seq(S) /\ Len(p) = Len(q) - k /\ \A i \in 1..Len(q) - k : p[i] = q[i + k]
    <2>1. \A i \in k + 1 .. Len(q) : q[i] \in S
      BY <1>1
    <2>2. /\ p \in Seq(S)
          /\ Len(p) = IF k + 1 <= Len(q) THEN Len(q) - (k + 1) + 1 ELSE 0
          /\ \A i \in 1..Len(q) - (k + 1) + 1 : p[i] = q[k + 1 + i - 1]
      BY <1>1, <2>1, SubSeqProperties
    <2> HIDE DEF p
    <2> QED  BY <1>1, <2>2
  <1> HIDE DEF p
  <1>3. \A i \in 1..Len(p) : i + k \in 1..Len(q) /\ p[i] = q[i + k]
    BY <1>1, <1>2
  <1>4. \A x : In(x, p) => In(x, q)
    BY <1>3 DEF In
  <1>5. \A x : Once(x, q) => Once(x, p)
    BY <1>1, <1>2, <1>3 DEF Once
  <1>6. ASSUME NEW x, Once(x, q), k >= 1, q[1] = x, In(x, p) PROVE FALSE
    <2>1. PICK i \in 1..Len(p) : p[i] = x
      BY <1>6 DEF In
    <2>2. i + k \in 1..Len(q) /\ q[i + k] = x /\ 1 \in 1..Len(q) /\ i + k # 1
      BY <1>1, <1>2, <1>3, <1>6, <2>1
    <2> QED  BY <1>6, <2>2 DEF Once
  <1> QED  BY <1>2, <1>4, <1>5, <1>6 DEF p

LEMMA ReceivedMessages ==
    ASSUME NEW S, NEW q \in Seq(S), q # <<>>
    PROVE  /\ Tail(q) \in Seq(S) /\ Head(q) \in S /\ In(Head(q), q)
           /\ \A x : In(x, Tail(q)) => In(x, q)
           /\ \A x : Once(x, q) => Once(x, Tail(q))
           /\ Once(Head(q), q) => ~In(Head(q), Tail(q))
  <1>1. Len(q) \in Nat /\ Len(q) >= 1 /\ Head(q) = q[1] /\ q[1] \in S
    OBVIOUS
  <1>2. Tail(q) \in Seq(S) /\ Len(Tail(q)) = Len(q) - 1
    OBVIOUS
  <1>3. \A i \in 1..Len(Tail(q)) : i + 1 \in 1..Len(q) /\ Tail(q)[i] = q[i + 1]
    BY <1>1
  <1>4. \A x : In(x, Tail(q)) => In(x, q)
    BY <1>3 DEF In
  <1>5. \A x : Once(x, q) => Once(x, Tail(q))
    BY <1>1, <1>2, <1>3 DEF Once
  <1>6. Once(Head(q), q) => ~In(Head(q), Tail(q))
    BY <1>1, <1>2, <1>3 DEF Once, In
  <1> QED  BY <1>1, <1>2, <1>4, <1>5, <1>6 DEF In

\* A step of one session: the others are as they were.
LEMMA OneSessionMoves ==
    ASSUME TypeInv, NEW s \in Sessions, HandshakeOver(s)',
           \A r \in Sessions : r # s =>
              /\ c2s'[r] = c2s[r] /\ reader'[r] = reader[r]
              /\ cl'[r] = cl[r] /\ sv'[r] = sv[r]
    PROVE  \A r \in Sessions : HandshakeOver(r)'
  BY DEF TypeInv, HandshakeOver

\* What handleSession sends when it returns is of the server's kind.
LEMMA ReturnSends ==
    ASSUME s2c \in [Sessions -> Seq(ServerSends)], NEW s \in Sessions,
           NEW last \in Seq(ServerSends), Return(s, last)
    PROVE  s2c' \in [Sessions -> Seq(ServerSends)]
  <1>1. s2c[s] \o last \in Seq(ServerSends)
    OBVIOUS
  <1> QED  BY <1>1 DEF Return

\* ... and it has not answered any port by that.
LEMMA ReturnAnswersNothing ==
    ASSUME s2c \in [Sessions -> Seq(ServerSends)], NEW s \in Sessions,
           NEW last \in Seq(ServerSends), ~In("responses", last), Return(s, last)
    PROVE  \A r \in Sessions : In("responses", s2c'[r]) => In("responses", s2c[r])
  <1> DEFINE q == s2c[s]
             p == q \o last
  <1>1. q \in Seq(ServerSends)
    OBVIOUS
  <1>2. /\ Len(p) = Len(q) + Len(last) /\ Len(q) \in Nat /\ Len(last) \in Nat
        /\ \A i \in 1..Len(q) : p[i] = q[i]
        /\ \A i \in 1..Len(last) : p[Len(q) + i] = last[i]
    BY <1>1
  <1>3. s2c'[s] = p /\ \A r \in Sessions : r # s => s2c'[r] = s2c[r]
    BY DEF Return
  <1> HIDE DEF p, q
  <1>4. ASSUME In("responses", p) PROVE In("responses", q)
    <2>1. PICK i \in 1..Len(p) : p[i] = "responses"
      BY <1>4 DEF In
    <2>2. CASE i <= Len(q)
      BY <1>2, <2>1, <2>2 DEF In
    <2>3. CASE i > Len(q)
      <3>1. i - Len(q) \in 1..Len(last) /\ Len(q) + (i - Len(q)) = i
        BY <1>2, <2>1, <2>3
      <3>2. last[i - Len(q)] = "responses"
        BY <1>2, <2>1, <3>1
      <3> QED  BY <3>1, <3>2 DEF In
    <2> QED  BY <1>2, <2>1, <2>2, <2>3
  <1> QED  BY <1>3, <1>4 DEF q

LEMMA ServerKeepsTypes ==
    ASSUME TypeInv, NEW s \in Sessions, AcceptSession(s) \/ ServerStep(s)
    PROVE  OtherTypes' /\ \A r \in Sessions : HandshakeOver(r)'
  <1> USE DEF clientVars, serverVars, loopVars, streamVars, Goto
  <1>s. /\ OtherTypes /\ HandshakeOver(s)
        /\ sv \in [Sessions -> Phases] /\ cl \in [Sessions -> ClientPhases]
    BY DEF TypeInv, ListInv, ListTypes
  <1>q. c2s[s] # <<>> =>
           /\ Tail(c2s[s]) \in Seq(ClientSends)
           /\ In(Head(c2s[s]), c2s[s])
           /\ \A x : In(x, Tail(c2s[s])) => In(x, c2s[s])
           /\ \A x : Once(x, c2s[s]) => Once(x, Tail(c2s[s]))
           /\ Once(Head(c2s[s]), c2s[s]) => ~In(Head(c2s[s]), Tail(c2s[s]))
    <2>1. c2s[s] \in Seq(ClientSends)
      BY <1>s DEF OtherTypes
    <2> QED  BY <2>1, ReceivedMessages
  <1>p. \A m \in ServerSends : Append(s2c[s], m) \in Seq(ServerSends)
    BY <1>s DEF OtherTypes
  <1>r. /\ <<>> \in Seq(ServerSends) /\ <<"UnrecognizedToken">> \in Seq(ServerSends)
        /\ <<"OtherError">> \in Seq(ServerSends)
        /\ s2c \in [Sessions -> Seq(ServerSends)]
    BY <1>s DEF OtherTypes, ServerSends
  <1>1. CASE AcceptSession(s)
    <2>1. OtherTypes'
      BY <1>s, <1>1 DEF AcceptSession, OtherTypes
    <2>2. HandshakeOver(s)'
      BY <1>s, <1>1 DEF AcceptSession, HandshakeOver
    <2> QED  BY <1>s, <1>1, <2>1, <2>2, OneSessionMoves DEF AcceptSession
  <1>2. CASE AcceptControl(s)
    <2>1. OtherTypes'
      BY <1>s, <1>2 DEF AcceptControl, OtherTypes
    <2>2. HandshakeOver(s)'
      BY <1>s, <1>2 DEF AcceptControl, HandshakeOver
    <2> QED  BY <1>s, <1>2, <2>1, <2>2, OneSessionMoves DEF AcceptControl
  <1>3. CASE StreamFails(s)
    <2>1. s2c' \in [Sessions -> Seq(ServerSends)]
      BY <1>r, <1>3, ReturnSends DEF StreamFails
    <2>2. OtherTypes'
      BY <1>s, <1>3, <1>q, <2>1 DEF StreamFails, Receive, OtherTypes
    <2>3. HandshakeOver(s)'
      BY <1>s, <1>3, <1>q DEF StreamFails, Return, Receive, HandshakeOver, OtherTypes
    <2> QED  BY <1>s, <1>3, <2>2, <2>3, OneSessionMoves DEF StreamFails, Return, Receive, OtherTypes
  <1>4. CASE Handshake(s)
    <2>1. s2c' \in [Sessions -> Seq(ServerSends)]
      <3>1. CASE Send(s2c, s, "Accepted")
        BY <1>r, <1>p, <3>1 DEF Send, ServerSends
      <3>2. CASE Return(s, <<"UnrecognizedToken">>) \/ Return(s, <<"OtherError">>)
        BY <1>r, <3>2, ReturnSends
      <3> QED  BY <1>4, <3>1, <3>2 DEF Handshake
    <2>2. OtherTypes'
      BY <1>s, <1>4, <1>q, <2>1 DEF Handshake, Receive, OtherTypes
    <2>3. sv' \in {[sv EXCEPT ![s] = "negotiate"], [sv EXCEPT ![s] = "closing"]}
      BY <1>4 DEF Handshake, Return
    <2>4. /\ c2s[s] # <<>> /\ Head(c2s[s]) = "hello" /\ c2s' = [c2s EXCEPT ![s] = Tail(@)]
          /\ UNCHANGED <<cl, reader>>
      BY <1>4 DEF Handshake, Receive
    <2>5. HandshakeOver(s)'
      BY <1>s, <1>q, <2>3, <2>4 DEF HandshakeOver, OtherTypes
    <2> QED  BY <1>s, <2>2, <2>3, <2>4, <2>5, OneSessionMoves DEF OtherTypes
  <1>5. CASE Negotiate(s)
    <2>1. /\ c2s[s] # <<>> /\ Head(c2s[s]) = "ports" /\ c2s' = [c2s EXCEPT ![s] = Tail(@)]
          /\ sv[s] = "negotiate" /\ sv' = [sv EXCEPT ![s] = "register"]
          /\ s2c' = [s2c EXCEPT ![s] = Append(@, "responses")]
          /\ UNCHANGED <<serverVars, cl, stalled, cfg, loopVars>>
      BY <1>5 DEF Negotiate, Receive, Send
    <2>2. OtherTypes'
      BY <1>s, <1>q, <1>p, <2>1 DEF OtherTypes, ServerSends
    <2>3. HandshakeOver(s)'
      BY <1>s, <1>q, <2>1 DEF HandshakeOver, OtherTypes
    <2> QED  BY <1>s, <2>1, <2>2, <2>3, OneSessionMoves DEF OtherTypes
  <1>6. CASE Register(s) \/ Unregister(s)
    <2>1. UNCHANGED <<serverVars, sv, cl, stalled, cfg, streamVars, loopVars>>
      BY <1>6 DEF Register, Unregister
    <2> QED  BY <2>1 DEF TypeInv, OtherTypes, HandshakeOver
  <1>7. CASE StartControlLoop(s)
    <2>1. OtherTypes'
      BY <1>s, <1>7 DEF StartControlLoop, OtherTypes
    <2>2. HandshakeOver(s)'
      BY <1>s, <1>7 DEF StartControlLoop, HandshakeOver
    <2> QED  BY <1>s, <1>7, <2>1, <2>2, OneSessionMoves DEF StartControlLoop, OtherTypes
  <1>8. CASE SessionDone(s)
    <2>1. s2c' \in [Sessions -> Seq(ServerSends)]
      BY <1>r, <1>8, ReturnSends DEF SessionDone
    <2>2. OtherTypes'
      BY <1>s, <1>8, <2>1 DEF SessionDone, OtherTypes
    <2>3. HandshakeOver(s)'
      BY <1>s, <1>8 DEF SessionDone, Return, HandshakeOver
    <2> QED  BY <1>s, <1>8, <2>2, <2>3, OneSessionMoves DEF SessionDone, Return
  <1>9. CASE CloseSession(s)
    <2>1. OtherTypes'
      BY <1>s, <1>9, <1>p DEF CloseSession, Send, OtherTypes, ServerSends
    <2>2. HandshakeOver(s)'
      BY <1>s, <1>9 DEF CloseSession, HandshakeOver, OtherTypes
    <2> QED  BY <1>s, <1>9, <2>1, <2>2, OneSessionMoves DEF CloseSession, OtherTypes
  <1>10. CASE CloseControl(s)
    <2>1. OtherTypes'
      BY <1>s, <1>10, <1>p DEF CloseControl, Send, OtherTypes, ServerSends
    <2>2. HandshakeOver(s)'
      BY <1>s, <1>10 DEF CloseControl, HandshakeOver, OtherTypes
    <2> QED  BY <1>s, <1>10, <2>1, <2>2, OneSessionMoves DEF CloseControl, OtherTypes
  <1> QED  BY <1>1, <1>2, <1>3, <1>4, <1>5, <1>6, <1>7, <1>8, <1>9, <1>10 DEF ServerStep

LEMMA LoopKeepsTypes ==
    ASSUME TypeInv, NEW s \in Sessions,
           ControlReader(s) \/ ControlLoop(s) \/ KeepAliveTimeout(s)
    PROVE  OtherTypes' /\ \A r \in Sessions : HandshakeOver(r)'
  <1> USE DEF clientVars, serverVars, loopVars, streamVars
  <1>s. /\ OtherTypes /\ HandshakeOver(s)
        /\ sv \in [Sessions -> Phases] /\ cl \in [Sessions -> ClientPhases]
    BY DEF TypeInv, ListInv, ListTypes
  <1>1. ASSUME NEW k \in 1..ReadMax, ReadControl(s, k)
        PROVE  OtherTypes' /\ \A r \in Sessions : HandshakeOver(r)'
    <2> DEFINE q == c2s[s]
    <2>1. /\ reader[s] /\ k <= Len(q) /\ \A i \in 1..k : SubSeq(q, 1, k)[i] # "eof"
          /\ c2s' = [c2s EXCEPT ![s] = SubSeq(q, k + 1, Len(q))]
          /\ controlMsg' = [controlMsg EXCEPT ![s] = Append(@, Head(SubSeq(q, 1, k)))]
          /\ UNCHANGED <<serverVars, sv, cl, stalled, cfg, s2c, cancelled, reader, loop>>
      BY <1>1 DEF ReadControl, Send
    <2>2. q \in Seq(ClientSends) /\ k \in Nat /\ k >= 1 /\ Len(q) \in Nat
      BY <1>s, BoundsAssumption DEF OtherTypes
    <2> HIDE DEF q
    <2>3. Head(SubSeq(q, 1, k)) \in {"ka", "close"}
      <3>1. \A i \in 1..k : q[i] \in ClientSends
        BY <2>1, <2>2
      <3>2. /\ SubSeq(q, 1, k) \in Seq(ClientSends) /\ Len(SubSeq(q, 1, k)) = k
            /\ SubSeq(q, 1, k)[1] = q[1]
        <4>1. /\ SubSeq(q, 1, k) \in Seq(ClientSends)
              /\ Len(SubSeq(q, 1, k)) = IF 1 <= k THEN k - 1 + 1 ELSE 0
              /\ \A i \in 1..k - 1 + 1 : SubSeq(q, 1, k)[i] = q[1 + i - 1]
          BY <2>2, <3>1, SubSeqProperties
        <4> QED  BY <2>2, <4>1
      <3>3. Head(SubSeq(q, 1, k)) = q[1] /\ q[1] # "eof" /\ q[1] \in ClientSends
        BY <2>1, <2>2, <3>1, <3>2
      <3>4. q[1] # "hello" /\ q[1] # "ports"
        BY <1>s, <2>1, <2>2 DEF HandshakeOver, In, q
      <3> QED  BY <3>3, <3>4 DEF ClientSends
    <2>4. /\ SubSeq(q, k + 1, Len(q)) \in Seq(ClientSends)
          /\ \A x : In(x, SubSeq(q, k + 1, Len(q))) => In(x, q)
          /\ \A x : Once(x, q) => Once(x, SubSeq(q, k + 1, Len(q)))
      <3>1. k \in 0..Len(q)
        BY <2>1, <2>2
      <3> QED  BY <2>2, <3>1, DroppedMessages
    <2> DEFINE rest == SubSeq(q, k + 1, Len(q))
               first == Head(SubSeq(q, 1, k))
    <2>5. c2s' = [c2s EXCEPT ![s] = rest] /\ controlMsg' = [controlMsg EXCEPT ![s] = Append(@, first)]
      BY <2>1
    <2> HIDE DEF rest, first
    <2>6. OtherTypes'
      BY <1>s, <2>1, <2>3, <2>4, <2>5 DEF OtherTypes, rest, first
    <2>7. HandshakeOver(s)'
      <3>1. c2s'[s] = rest
        BY <1>s, <2>5 DEF OtherTypes
      <3> QED  BY <1>s, <2>1, <2>4, <3>1 DEF HandshakeOver, rest, q
    <2> QED  BY <1>s, <2>1, <2>5, <2>6, <2>7, OneSessionMoves DEF OtherTypes
  <1>2. ASSUME ReaderReturns(s)
        PROVE  OtherTypes' /\ \A r \in Sessions : HandshakeOver(r)'
    <2>1. OtherTypes'
      BY <1>s, <1>2 DEF ReaderReturns, OtherTypes
    <2>2. HandshakeOver(s)'
      BY <1>s, <1>2 DEF ReaderReturns, HandshakeOver, OtherTypes
    <2> QED  BY <1>s, <1>2, <2>1, <2>2, OneSessionMoves DEF ReaderReturns, OtherTypes
  <1>3. ASSUME HandleControl(s) \/ LoopReturns(s) \/ KeepAliveTimeout(s)
        PROVE  OtherTypes' /\ \A r \in Sessions : HandshakeOver(r)'
    <2>1. UNCHANGED <<serverVars, sv, cl, stalled, cfg, streamVars, reader>>
      BY <1>3 DEF HandleControl, LoopReturns, KeepAliveTimeout
    <2>2. controlMsg' \in [Sessions -> Seq({"ka", "close"})]
      <3>1. \/ controlMsg[s] # <<>> /\ controlMsg' = [controlMsg EXCEPT ![s] = Tail(@)]
            \/ UNCHANGED controlMsg
        BY <1>3 DEF HandleControl, LoopReturns, KeepAliveTimeout, Receive
      <3>2. controlMsg \in [Sessions -> Seq({"ka", "close"})]
        BY <1>s DEF OtherTypes
      <3>3. controlMsg[s] # <<>> => Tail(controlMsg[s]) \in Seq({"ka", "close"})
        BY <3>2
      <3> QED  BY <3>1, <3>2, <3>3
    <2>3. cancelled' \in [Sessions -> BOOLEAN] /\ loop' \in [Sessions -> BOOLEAN]
      BY <1>s, <1>3 DEF HandleControl, LoopReturns, KeepAliveTimeout, CancelConnection, OtherTypes
    <2>4. OtherTypes'
      BY <1>s, <2>1, <2>2, <2>3 DEF OtherTypes
    <2> QED  BY <2>1, <2>4 DEF TypeInv, HandshakeOver
  <1> QED  BY <1>1, <1>2, <1>3 DEF ControlReader, ControlLoop

LEMMA ClientKeepsTypes ==
    ASSUME TypeInv, NEW s \in Sessions,
           ClientStep(s) \/ ClientKeepAlive(s) \/ ClientClose(s) \/ ClientVanishes(s)
           \/ Stall(s) \/ Drain(s)
    PROVE  OtherTypes' /\ \A r \in Sessions : HandshakeOver(r)'
  <1> USE DEF serverVars, loopVars, Goto
  <1>s. /\ OtherTypes /\ HandshakeOver(s)
        /\ sv \in [Sessions -> Phases] /\ cl \in [Sessions -> ClientPhases]
    BY DEF TypeInv, ListInv, ListTypes
  <1>p. \A m \in ClientSends :
           /\ Append(c2s[s], m) \in Seq(ClientSends)
           /\ \A x : In(x, Append(c2s[s], m)) <=> In(x, c2s[s]) \/ x = m
           /\ \A x : Once(x, c2s[s]) /\ (x = m => ~In(x, c2s[s])) => Once(x, Append(c2s[s], m))
    <2>1. c2s[s] \in Seq(ClientSends)
      BY <1>s DEF OtherTypes
    <2> QED  BY <2>1, SentMessages
  <1>t. s2c[s] # <<>> => Tail(s2c[s]) \in Seq(ServerSends)
    BY <1>s DEF OtherTypes
  \* It sends m, which may be said at this point, and goes on to l.
  <1>1. ASSUME NEW m \in ClientSends, NEW l \in ClientPhases,
               c2s' = [c2s EXCEPT ![s] = Append(@, m)], cl' = [cl EXCEPT ![s] = l],
               \/ s2c' = s2c
               \/ s2c[s] # <<>> /\ s2c' = [s2c EXCEPT ![s] = Tail(@)],
               UNCHANGED <<serverVars, sv, cfg, loopVars, stalled>>,
               cl[s] # "off" /\ l \notin {"off", "connected", "opening"},
               m = "hello" => cl[s] = "opening",
               m = "ports" => cl[s] = "handshake",
               l = "handshake" => cl[s] = "opening"
        PROVE  OtherTypes' /\ \A r \in Sessions : HandshakeOver(r)'
    <2>1. s2c' \in [Sessions -> Seq(ServerSends)]
      BY <1>s, <1>1, <1>t DEF OtherTypes
    <2>2. OtherTypes'
      BY <1>s, <1>p, <1>1, <2>1 DEF OtherTypes
    <2>3. c2s'[s] = Append(c2s[s], m) /\ cl'[s] = l /\ sv'[s] = sv[s] /\ reader'[s] = reader[s]
      BY <1>s, <1>1 DEF OtherTypes
    <2>4. HandshakeOver(s)'
      BY <1>s, <1>p, <1>1, <2>3 DEF HandshakeOver
    <2> QED  BY <1>s, <1>1, <2>2, <2>4, OneSessionMoves DEF OtherTypes
  \* It sends nothing.
  <1>2. ASSUME UNCHANGED <<c2s, serverVars, sv, cfg, loopVars, stalled>>,
               cl' = [cl EXCEPT ![s] = "running"], cl[s] = "negotiate",
               s2c[s] # <<>> /\ s2c' = [s2c EXCEPT ![s] = Tail(@)]
        PROVE  OtherTypes' /\ \A r \in Sessions : HandshakeOver(r)'
    <2>1. s2c' \in [Sessions -> Seq(ServerSends)]
      BY <1>s, <1>2, <1>t DEF OtherTypes
    <2>2. OtherTypes'
      BY <1>s, <1>2, <2>1 DEF OtherTypes
    <2>3. HandshakeOver(s)'
      BY <1>s, <1>2 DEF HandshakeOver
    <2> QED  BY <1>s, <1>2, <2>2, <2>3, OneSessionMoves
  <1>3. CASE ClientHello(s)
    BY <1>1, <1>3 DEF ClientHello, Send, ClientSends, ClientPhases
  <1>4. CASE ClientAuthenticated(s)
    BY <1>1, <1>4 DEF ClientAuthenticated, Send, Receive, ClientSends, ClientPhases
  <1>5. CASE ClientNegotiated(s)
    BY <1>1, <1>2, <1>5 DEF ClientNegotiated, Send, Receive, ClientSends, ClientPhases
  <1>6. CASE ClientRefused(s)
    BY <1>1, <1>6 DEF ClientRefused, Send, Receive, ClientSends, ClientPhases
  <1>7. CASE ClientExit(s)
    BY <1>1, <1>7 DEF ClientExit, Send, ClientSends, ClientPhases
  <1>8. CASE ClientKeepAlive(s)
    <2>1. cl' = [cl EXCEPT ![s] = "running"]
      BY <1>s, <1>8 DEF ClientKeepAlive, clientVars
    <2> QED  BY <1>1, <1>8, <2>1 DEF ClientKeepAlive, clientVars, Send, ClientSends, ClientPhases
  <1>9. CASE ClientClose(s)
    BY <1>1, <1>9 DEF ClientClose, Send, ClientSends, ClientPhases
  <1>10. CASE ClientVanishes(s)
    BY <1>1, <1>10 DEF ClientVanishes, Send, ClientSends, ClientPhases
  <1>11. CASE ClientOpens(s)
    <2>1. OtherTypes'
      BY <1>s, <1>11 DEF ClientOpens, OtherTypes, streamVars
    <2>2. HandshakeOver(s)'
      BY <1>s, <1>11 DEF ClientOpens, HandshakeOver, streamVars
    <2> QED  BY <1>s, <1>11, <2>1, <2>2, OneSessionMoves DEF ClientOpens, streamVars
  <1>12. CASE Stall(s) \/ Drain(s)
    <2>1. OtherTypes'
      BY <1>s, <1>12 DEF Stall, Drain, OtherTypes, streamVars
    <2> QED  BY <1>12, <2>1 DEF Stall, Drain, TypeInv, HandshakeOver, streamVars
  <1> QED  BY <1>3, <1>4, <1>5, <1>6, <1>7, <1>8, <1>9, <1>10, <1>11, <1>12 DEF ClientStep

LEMMA NextTypeInv == TypeInv /\ [Next]_vars => TypeInv'
  <1> SUFFICES ASSUME TypeInv, [Next]_vars PROVE TypeInv'
    OBVIOUS
  <1>1. ListInv'
    BY NextListInv DEF TypeInv
  <1>2. ASSUME ReloadConfig \/ Interrupt \/ Stop \/ UNCHANGED vars
        PROVE  OtherTypes' /\ \A r \in Sessions : HandshakeOver(r)'
    <2>1. currentConfig' \in Configs /\ reloads' \in 0..MaxReloads
      BY <1>2, BoundsAssumption
      DEF ReloadConfig, Interrupt, Stop, vars, serverVars, TypeInv, OtherTypes
    <2>2. /\ acceptLoop' \in {"blocked", "returned"}
          /\ shutdown' \in BOOLEAN /\ stopped' \in BOOLEAN
      BY <1>2 DEF ReloadConfig, Interrupt, Stop, vars, serverVars, TypeInv, OtherTypes
    <2>3. UNCHANGED <<sv, cl, stalled, cfg, streamVars, loopVars>>
      BY <1>2 DEF ReloadConfig, Interrupt, Stop, vars, clientVars
    <2> QED  BY <2>1, <2>2, <2>3 DEF TypeInv, OtherTypes, HandshakeOver, streamVars, loopVars
  <1>3. OtherTypes' /\ \A r \in Sessions : HandshakeOver(r)'
    BY <1>2, ServerKeepsTypes, LoopKeepsTypes, ClientKeepsTypes DEF Next
  <1> QED  BY <1>1, <1>3 DEF TypeInv

\* Everything keeps its type; in particular the server never has a configuration
\* in force that its validation would refuse, and the control loop never takes a
\* message of the handshake for a control byte.
THEOREM TypeCorrect == Spec => []TypeOK
  BY InitTypeInv, NextTypeInv, TypeInvMeans, PTL DEF Spec

-----------------------------------------------------------------------------
\* The least element GetPortConfig chooses.
LEMMA LeastPlace ==
    ASSUME NEW at \in SUBSET Nat, at # {}
    PROVE  (CHOOSE i \in at : \A j \in at : i <= j) \in at
  <1> DEFINE Less == {p \in Nat \X Nat : p[1] < p[2]}
  <1>1. IsWellFoundedOn(Less, Nat)
    BY NatLessThanWellFounded DEF OpToRel
  <1> HIDE DEF Less
  <1>2. PICK i \in at : \A j \in at : ~(<<j, i>> \in Less)
    BY <1>1, WFMin
  <1>3. ASSUME NEW j \in at PROVE i <= j
    <2>1. i \in Nat /\ j \in Nat
      OBVIOUS
    <2>2. j < i => <<j, i>> \in Less
      BY <2>1 DEF Less
    <2> QED  BY <1>2, <2>1, <2>2
  <1> QED  BY <1>3

\* What Negotiate accepts, the file grants to the token.
LEMMA AcceptedIsGranted ==
    ASSUME NEW f \in Files, NEW token, NEW tp,
           Reply(ParseServerConfig(f), token, tp) = "Accepted"
    PROVE  Grants(f, token, tp)
  <1> DEFINE c == ParseServerConfig(f)
             list == c[tp.type]
             at == {i \in DOMAIN list : list[i].port = tp.port}
  <1>1. /\ tp.type \in PortTypes /\ tp.port \in GetAllPorts(c, tp.type)
        /\ TokenHasPortAccess(c, token, tp.type, tp.port)
    BY DEF Reply
  <1>2. c.tokens = f.tokens /\ list = UnmarshalPorts(f[tp.type])
    BY <1>1 DEF ParseServerConfig, PortTypes
  <1>3. /\ DOMAIN list \subseteq DOMAIN f[tp.type] /\ DOMAIN list \subseteq Nat
        /\ \A i \in DOMAIN list : list[i] = PortConfig(f[tp.type][i])
    BY <1>1, <1>2, FileAssumption DEF UnmarshalPorts
  <1>r. \A i \in DOMAIN list : f[tp.type][i].form \in {"number", "object"}
    BY <1>2 DEF UnmarshalPorts, Readable
  <1>4. CASE token \in c.tokens
    BY <1>2, <1>4 DEF Grants
  <1>5. CASE LET allowed == GetPortConfig(c, tp.type, tp.port).tokens
             IN  allowed = {} \/ token \in allowed
    <2>1. at # {} /\ at \in SUBSET Nat
      BY <1>1, <1>3 DEF GetAllPorts, Entries
    <2>2. PICK i \in at : GetPortConfig(c, tp.type, tp.port) = list[i]
      BY <2>1, LeastPlace DEF GetPortConfig
    <2> DEFINE item == f[tp.type][i]
    <2>3. /\ list[i] = PortConfig(item) /\ list[i].port = tp.port
          /\ item \in Items(f, tp.type) /\ item.form \in {"number", "object"}
      BY <1>3, <1>r, <2>2 DEF Items
    <2>4. item.form = "number" => item = [form |-> "number", port |-> item.port]
      BY <1>1, <1>3, <2>2, FileAssumption
    <2> HIDE DEF item, c, list, at
    <2>5. /\ item.port = tp.port
          /\ list[i].tokens = IF item.form = "object" THEN item.tokens ELSE {}
      BY <2>3 DEF PortConfig
    <2>6. CASE item.form = "number"
      BY <2>3, <2>4, <2>5, <2>6 DEF Grants
    <2>7. CASE item.form = "object"
      <3>1. item \in Objects(f, tp.type)
        BY <2>3, <2>7 DEF Objects
      <3>2. item.tokens = {} \/ token \in item.tokens
        BY <1>5, <2>2, <2>5, <2>7
      <3> QED  BY <2>5, <3>1, <3>2 DEF Grants
    <2> QED  BY <2>3, <2>6, <2>7
  <1> QED  BY <1>1, <1>4, <1>5 DEF TokenHasPortAccess

\* A token that Handshake lets in is in the file.
LEMMA RecognizedIsKnown ==
    ASSUME NEW f \in Files, NEW token, Recognized(ParseServerConfig(f), token)
    PROVE  Knows(f, token)
  <1> DEFINE c == ParseServerConfig(f)
  <1>1. c.tokens = f.tokens /\ \A type \in PortTypes : c[type] = UnmarshalPorts(f[type])
    BY DEF ParseServerConfig, PortTypes
  <1>2. ASSUME NEW type \in PortTypes, NEW e \in Entries(c, type), token \in e.tokens
        PROVE  \E item \in Objects(f, type) : token \in item.tokens
    <2>1. PICK i \in DOMAIN f[type] : e = PortConfig(f[type][i])
      BY <1>1 DEF Entries, UnmarshalPorts
    <2>2. f[type][i].form = "object" /\ token \in f[type][i].tokens
      BY <1>2, <2>1 DEF PortConfig
    <2> QED  BY <2>2 DEF Objects, Items
  <1>3. CASE token \in c.tokens
    BY <1>1, <1>3 DEF Knows
  <1>4. CASE \E e \in AllEntries(c) : token \in e.tokens
    <2>1. \E type \in PortTypes : \E e \in Entries(c, type) : token \in e.tokens
      BY <1>4 DEF AllEntries, PortTypes
    <2>2. PICK type \in PortTypes : \E item \in Objects(f, type) : token \in item.tokens
      BY <1>2, <2>1
    <2> QED  BY <2>2 DEF Knows, PortTypes
  <1> QED  BY <1>3, <1>4 DEF Recognized

-----------------------------------------------------------------------------
\* The two decisions of the server about a session.
Met(s) == want[s].version = Version /\ Recognized(cfg[s], want[s].token)
Granted(s) == [i \in Accepted(s) |-> Asked(s)[i]]

\* Once anything follows from a decision, it was taken: from the configuration
\* that the session was given, and nobody takes it back.
Decided(s) ==
    /\ sv[s] \in {"none", "stream", "handshake", "negotiate"} =>
          /\ DOMAIN negotiated[s] = {} /\ ~In("responses", s2c[s])
          /\ cl[s] \notin {"running", "closing"}
    /\ sv[s] = "negotiate" => Met(s)
    /\ \/ sv[s] \in {"register", "running"} \/ DOMAIN negotiated[s] # {}
       \/ In("responses", s2c[s]) \/ cl[s] \in {"running", "closing"}
       => Met(s) /\ negotiated[s] = Granted(s)
    /\ cl[s] \in {"running", "closing"} => Accepted(s) = DOMAIN Asked(s)

DecidedInv == TypeInv /\ \A s \in Sessions : Decided(s)

LEMMA InitDecidedInv == Init => DecidedInv
  BY InitTypeInv DEF Init, DecidedInv, Decided, In

\* Most steps decide nothing: they leave a session where it is, end it, or take
\* it one step further than a decision that was taken.
NothingDecided(s) ==
    /\ negotiated'[s] = negotiated[s] /\ want'[s] = want[s] /\ cfg'[s] = cfg[s]
    /\ In("responses", s2c'[s]) => In("responses", s2c[s])
    /\ \/ sv'[s] = sv[s] \/ sv'[s] \in {"closing", "cleanup", "done"}
       \/ sv[s] = "stream" /\ sv'[s] = "handshake"
       \/ sv[s] = "register" /\ sv'[s] = "running"
    /\ \/ cl'[s] = cl[s] \/ cl'[s] \notin {"running", "closing"}
       \/ cl[s] = "running" /\ cl'[s] = "closing"

LEMMA DecisionsStand ==
    ASSUME NEW s \in Sessions, Decided(s), NothingDecided(s)
    PROVE  Decided(s)'
  <1>1. /\ Met(s)' <=> Met(s)
        /\ Asked(s)' = Asked(s) /\ Accepted(s)' = Accepted(s) /\ Granted(s)' = Granted(s)
    BY DEF NothingDecided, Met, Asked, Accepted, Answer, Granted
  <1> QED  BY <1>1 DEF NothingDecided, Decided

\* What is taken from the stream, or comes last, is no answer to the ports.
LEMMA QueueAnswersNothing ==
    ASSUME s2c \in [Sessions -> Seq(ServerSends)], NEW s \in Sessions,
           \/ s2c' = s2c
           \/ s2c[s] # <<>> /\ s2c' = [s2c EXCEPT ![s] = Tail(@)]
           \/ \E m \in ServerSends \ {"responses"} : s2c' = [s2c EXCEPT ![s] = Append(@, m)]
    PROVE  \A r \in Sessions : In("responses", s2c'[r]) => In("responses", s2c[r])
  <1>1. s2c[s] \in Seq(ServerSends)
    OBVIOUS
  <1>2. CASE s2c[s] # <<>> /\ s2c' = [s2c EXCEPT ![s] = Tail(@)]
    <2>1. \A x : In(x, Tail(s2c[s])) => In(x, s2c[s])
      BY <1>1, <1>2, ReceivedMessages
    <2> QED  BY <1>2, <2>1
  <1>3. ASSUME NEW m \in ServerSends \ {"responses"}, s2c' = [s2c EXCEPT ![s] = Append(@, m)]
        PROVE  \A r \in Sessions : In("responses", s2c'[r]) => In("responses", s2c[r])
    <2>1. \A x : In(x, Append(s2c[s], m)) <=> In(x, s2c[s]) \/ x = m
      BY <1>1, SentMessages
    <2> QED  BY <1>3, <2>1
  <1> QED  BY <1>2, <1>3

LEMMA NextDecidedInv == DecidedInv /\ [Next]_vars => DecidedInv'
  <1> SUFFICES ASSUME DecidedInv, [Next]_vars PROVE \A r \in Sessions : Decided(r)'
    BY NextTypeInv DEF DecidedInv
  <1> USE DEF Goto
  <1>s. /\ \A r \in Sessions : Decided(r)
        /\ sv \in [Sessions -> Phases] /\ cl \in [Sessions -> ClientPhases]
        /\ s2c \in [Sessions -> Seq(ServerSends)] /\ cfg \in [Sessions -> Configs]
        /\ negotiated = [r \in Sessions |-> negotiated[r]]
        /\ \A r \in Sessions : cl[r] = "off" => sv[r] = "none"
    BY DEF DecidedInv, TypeInv, ListInv, ListTypes, OtherTypes, BegunByClient
  <1>e. /\ {"Accepted", "eof"} \subseteq ServerSends \ {"responses"}
        /\ <<>> \in Seq(ServerSends) /\ ~In("responses", <<>>)
        /\ <<"UnrecognizedToken">> \in Seq(ServerSends) /\ ~In("responses", <<"UnrecognizedToken">>)
        /\ <<"OtherError">> \in Seq(ServerSends) /\ ~In("responses", <<"OtherError">>)
    BY DEF ServerSends, In
  <1>n. ASSUME \A r \in Sessions : NothingDecided(r) PROVE \A r \in Sessions : Decided(r)'
    BY <1>s, <1>n, DecisionsStand
  <1>1. ASSUME UNCHANGED <<sv, cl, want, cfg, negotiated, s2c>>
        PROVE  \A r \in Sessions : Decided(r)'
    BY <1>n, <1>1 DEF NothingDecided
  \* The server ends a session, or goes on without a decision.
  <1>2. ASSUME NEW s \in Sessions, NEW l \in Phases, sv' = [sv EXCEPT ![s] = l],
               \/ l \in {"closing", "cleanup", "done"}
               \/ sv[s] = "stream" /\ l = "handshake"
               \/ sv[s] = "register" /\ l = "running",
               UNCHANGED <<cl, want, cfg, negotiated>>,
               \A r \in Sessions : In("responses", s2c'[r]) => In("responses", s2c[r])
        PROVE  \A r \in Sessions : Decided(r)'
    BY <1>s, <1>n, <1>2 DEF NothingDecided
  <1>3. ASSUME NEW s \in Sessions, AcceptSession(s) PROVE \A r \in Sessions : Decided(r)'
    <2>1. /\ cl[s] = "off" /\ cl' = [cl EXCEPT ![s] = "connected"]
          /\ sv' = [sv EXCEPT ![s] = "stream"] /\ cfg' = [cfg EXCEPT ![s] = currentConfig]
          /\ UNCHANGED <<want, negotiated, s2c>>
      BY <1>3 DEF AcceptSession, listVars, streamVars
    <2>2. Decided(s)'
      BY <1>s, <2>1 DEF Decided
    <2>3. \A r \in Sessions : r # s => NothingDecided(r)
      BY <1>s, <2>1 DEF NothingDecided
    <2> QED  BY <1>s, <2>2, <2>3, DecisionsStand
  <1>4. ASSUME NEW s \in Sessions, Handshake(s) PROVE \A r \in Sessions : Decided(r)'
    <2>1. sv[s] = "handshake" /\ UNCHANGED <<cl, want, cfg, negotiated>>
      BY <1>4 DEF Handshake, listVars, clientVars
    <2>2. CASE /\ Met(s) /\ sv' = [sv EXCEPT ![s] = "negotiate"]
               /\ s2c' = [s2c EXCEPT ![s] = Append(@, "Accepted")]
      <3>1. \A r \in Sessions : In("responses", s2c'[r]) => In("responses", s2c[r])
        BY <1>s, <1>e, <2>2, QueueAnswersNothing
      <3>2. Met(s)'
        BY <2>1, <2>2 DEF Met
      <3>3. Decided(s)'
        BY <1>s, <2>1, <2>2, <3>1, <3>2 DEF Decided
      <3>4. \A r \in Sessions : r # s => NothingDecided(r)
        BY <1>s, <2>1, <2>2, <3>1 DEF NothingDecided
      <3> QED  BY <1>s, <3>3, <3>4, DecisionsStand
    <2>3. ASSUME NEW last \in {<<"UnrecognizedToken">>, <<"OtherError">>}, Return(s, last)
          PROVE  \A r \in Sessions : Decided(r)'
      <3>1. \A r \in Sessions : In("responses", s2c'[r]) => In("responses", s2c[r])
        BY <1>s, <1>e, <2>3, ReturnAnswersNothing
      <3> QED  BY <1>2, <2>1, <2>3, <3>1 DEF Return, Phases
    <2> QED  BY <1>4, <2>2, <2>3 DEF Handshake, Met, Send
  <1>5. ASSUME NEW s \in Sessions, Negotiate(s) PROVE \A r \in Sessions : Decided(r)'
    <2>1. /\ sv[s] = "negotiate" /\ sv' = [sv EXCEPT ![s] = "register"]
          /\ negotiated' = [negotiated EXCEPT ![s] = Granted(s)]
          /\ s2c' = [s2c EXCEPT ![s] = Append(@, "responses")]
          /\ UNCHANGED <<cl, want, cfg>>
      BY <1>5 DEF Negotiate, Granted, Send, clientVars
    <2>2. Met(s)' /\ negotiated'[s] = Granted(s)'
      <3>1. Met(s) /\ negotiated'[s] = Granted(s)
        BY <1>s, <2>1 DEF Decided
      <3>2. (Met(s)' <=> Met(s)) /\ Granted(s)' = Granted(s)
        BY <2>1 DEF Met, Granted, Asked, Accepted, Answer
      <3> QED  BY <3>1, <3>2
    <2>3. cl'[s] \notin {"running", "closing"} /\ sv'[s] = "register"
      BY <1>s, <2>1 DEF Decided
    <2>4. Decided(s)'
      BY <2>2, <2>3 DEF Decided
    <2>5. \A r \in Sessions : r # s => NothingDecided(r)
      BY <1>s, <2>1 DEF NothingDecided
    <2> QED  BY <1>s, <2>4, <2>5, DecisionsStand
  <1>6. ASSUME NEW s \in Sessions, ServerStep(s) PROVE \A r \in Sessions : Decided(r)'
    <2>1. CASE AcceptControl(s)
      BY <1>2, <2>1 DEF AcceptControl, Phases, listVars, clientVars, streamVars
    <2>2. CASE StreamFails(s) \/ SessionDone(s)
      <3>1. Return(s, <<>>) /\ UNCHANGED <<listVars, clientVars, cfg>>
        BY <2>2 DEF StreamFails, SessionDone
      <3>2. \A r \in Sessions : In("responses", s2c'[r]) => In("responses", s2c[r])
        BY <1>s, <1>e, <3>1, ReturnAnswersNothing
      <3> QED  BY <1>2, <3>1, <3>2 DEF Return, Phases, listVars, clientVars
    <2>3. CASE Register(s) \/ Unregister(s)
      BY <1>1, <2>3 DEF Register, Unregister, clientVars, streamVars
    <2>4. CASE StartControlLoop(s)
      BY <1>2, <2>4 DEF StartControlLoop, Phases, listVars, clientVars, streamVars
    <2>5. CASE CloseControl(s) \/ CloseSession(s)
      <3>1. \A r \in Sessions : In("responses", s2c'[r]) => In("responses", s2c[r])
        BY <1>s, <1>e, <2>5, QueueAnswersNothing DEF CloseControl, CloseSession, Send
      <3> QED  BY <1>2, <2>5, <3>1 DEF CloseControl, CloseSession, Phases, listVars, clientVars
    <2> QED  BY <1>4, <1>5, <1>6, <2>1, <2>2, <2>3, <2>4, <2>5 DEF ServerStep
  <1>7. ASSUME NEW s \in Sessions, ControlReader(s) \/ ControlLoop(s) \/ KeepAliveTimeout(s)
        PROVE  \A r \in Sessions : Decided(r)'
    BY <1>1, <1>7 DEF ControlReader, ControlLoop, ReadControl, ReaderReturns,
       HandleControl, LoopReturns, KeepAliveTimeout, listVars, clientVars, streamVars
  \* The client goes on or ends, and may take a message.
  <1>8. ASSUME NEW s \in Sessions, NEW l \in ClientPhases, cl' = [cl EXCEPT ![s] = l],
               l \notin {"running", "closing"} \/ (cl[s] = "running" /\ l = "closing"),
               UNCHANGED <<sv, want, cfg, negotiated>>,
               \/ s2c' = s2c
               \/ s2c[s] # <<>> /\ s2c' = [s2c EXCEPT ![s] = Tail(@)]
        PROVE  \A r \in Sessions : Decided(r)'
    <2>1. \A r \in Sessions : In("responses", s2c'[r]) => In("responses", s2c[r])
      BY <1>s, <1>8, QueueAnswersNothing
    <2> QED  BY <1>s, <1>n, <1>8, <2>1 DEF NothingDecided
  <1>9. ASSUME NEW s \in Sessions, ClientNegotiated(s) PROVE \A r \in Sessions : Decided(r)'
    <2>1. /\ cl[s] = "negotiate" /\ s2c[s] # <<>> /\ Head(s2c[s]) = "responses"
          /\ s2c' = [s2c EXCEPT ![s] = Tail(@)]
          /\ UNCHANGED <<sv, want, cfg, negotiated>>
      BY <1>9 DEF ClientNegotiated, Receive, listVars
    <2>2. CASE cl' = [cl EXCEPT ![s] = "exited"]
      BY <1>8, <2>1, <2>2 DEF ClientPhases
    <2>3. CASE AllAccepted(s) /\ cl' = [cl EXCEPT ![s] = "running"]
      <3>1. \A r \in Sessions : In("responses", s2c'[r]) => In("responses", s2c[r])
        BY <1>s, <2>1, QueueAnswersNothing
      <3>2. In("responses", s2c[s])
        <4>1. s2c[s] \in Seq(ServerSends)
          BY <1>s
        <4> QED  BY <2>1, <4>1, ReceivedMessages
      <3>3. /\ Met(s)' <=> Met(s)
            /\ Asked(s)' = Asked(s) /\ Accepted(s)' = Accepted(s) /\ Granted(s)' = Granted(s)
        BY <2>1 DEF Met, Asked, Accepted, Answer, Granted
      <3>4. /\ sv[s] \notin {"none", "stream", "handshake", "negotiate"}
            /\ Met(s) /\ negotiated[s] = Granted(s) /\ Accepted(s) = DOMAIN Asked(s)
        BY <1>s, <2>3, <3>2 DEF Decided, AllAccepted
      <3>5. Decided(s)'
        BY <2>1, <3>3, <3>4 DEF Decided
      <3>6. \A r \in Sessions : r # s => NothingDecided(r)
        BY <1>s, <2>1, <2>3, <3>1 DEF NothingDecided
      <3> QED  BY <1>s, <3>5, <3>6, DecisionsStand
    <2> QED  BY <1>9, <2>2, <2>3 DEF ClientNegotiated
  <1>10. ASSUME NEW s \in Sessions,
                ClientStep(s) \/ ClientKeepAlive(s) \/ ClientClose(s) \/ ClientVanishes(s)
                \/ Stall(s) \/ Drain(s)
         PROVE  \A r \in Sessions : Decided(r)'
    <2>1. CASE ClientHello(s)
      BY <1>8, <2>1 DEF ClientHello, ClientPhases, listVars
    <2>2. CASE ClientAuthenticated(s)
      BY <1>8, <2>2 DEF ClientAuthenticated, Receive, ClientPhases, listVars
    <2>3. CASE ClientRefused(s)
      BY <1>8, <2>3 DEF ClientRefused, Receive, ClientPhases, listVars
    <2>4. CASE ClientExit(s)
      BY <1>8, <2>4 DEF ClientExit, ClientPhases, listVars
    <2>5. CASE ClientKeepAlive(s)
      BY <1>1, <2>5 DEF ClientKeepAlive, listVars, clientVars
    <2>6. CASE ClientClose(s)
      BY <1>8, <2>6 DEF ClientClose, ClientPhases, listVars
    <2>7. CASE ClientVanishes(s)
      BY <1>8, <2>7 DEF ClientVanishes, ClientPhases, listVars
    <2>8. CASE ClientOpens(s)
      BY <1>8, <2>8 DEF ClientOpens, ClientPhases, listVars, streamVars
    <2>9. CASE Stall(s) \/ Drain(s)
      BY <1>1, <2>9 DEF Stall, Drain, listVars, streamVars
    <2> QED  BY <1>9, <1>10, <2>1, <2>2, <2>3, <2>4, <2>5, <2>6, <2>7, <2>8, <2>9 DEF ClientStep
  <1>11. ASSUME ReloadConfig \/ Interrupt \/ Stop \/ UNCHANGED vars
         PROVE  \A r \in Sessions : Decided(r)'
    BY <1>1, <1>11 DEF ReloadConfig, Interrupt, Stop, vars, listVars, clientVars, streamVars
  <1> QED  BY <1>3, <1>6, <1>7, <1>10, <1>11 DEF Next

\* A session's configuration comes from a file that knows its token.
LEMMA MetIsKnown ==
    ASSUME TypeInv, NEW s \in Sessions, Met(s)
    PROVE  \E f \in Files : ParseServerConfig(f) = cfg[s] /\ Knows(f, want[s].token)
  <1>1. PICK f \in Files : ParseServerConfig(f) = cfg[s]
    BY DEF TypeInv, OtherTypes, Configs
  <1>2. Knows(f, want[s].token)
    BY <1>1, RecognizedIsKnown DEF Met
  <1> QED  BY <1>1, <1>2

LEMMA DecidedInvMeans == DecidedInv => RegisteredAuthorized /\ RunningClientAuthorized
  <1> SUFFICES ASSUME DecidedInv PROVE RegisteredAuthorized /\ RunningClientAuthorized
    OBVIOUS
  <1> USE DEF DecidedInv
  <1>1. ASSUME NEW s \in Sessions, NEW tp \in Ports, Listed(s, tp)
        PROVE  /\ want[s].version = Version
               /\ \E i \in DOMAIN Asked(s) : tp = Asked(s)[i]
               /\ \E f \in Files :
                     /\ ParseServerConfig(f) = cfg[s]
                     /\ Knows(f, want[s].token) /\ Grants(f, want[s].token, tp)
    <2>1. PICK i \in DOMAIN portMap[tp] : portMap[tp][i][1] = s
      BY <1>1 DEF Listed
    <2> DEFINE e == portMap[tp][i]
    <2>2. e \in Element /\ In(e, portMap[tp]) /\ e[1] = s
      <3>1. portMap[tp] \in Seq(Element)
        BY DEF TypeInv, ListInv, ListTypes
      <3> QED  BY <2>1, <3>1 DEF In
    <2> HIDE DEF e
    <2>3. negotiated[s][e[2]] = tp /\ e[2] \in DOMAIN negotiated[s]
      BY <2>2 DEF TypeInv, ListInv, ListsMatch
    <2>4. Met(s) /\ negotiated[s] = Granted(s)
      BY <2>3 DEF Decided
    <2>5. /\ e[2] \in DOMAIN Asked(s) /\ tp = Asked(s)[e[2]]
          /\ Answer(s, tp) = "Accepted"
      BY <2>3, <2>4 DEF Granted, Accepted
    <2>6. PICK f \in Files : ParseServerConfig(f) = cfg[s] /\ Knows(f, want[s].token)
      BY <2>4, MetIsKnown
    <2>7. Grants(f, want[s].token, tp)
      BY <2>5, <2>6, AcceptedIsGranted DEF Answer
    <2> QED  BY <2>4, <2>5, <2>6, <2>7 DEF Met
  <1>2. ASSUME NEW s \in Sessions, cl[s] \in {"running", "closing"}
        PROVE  /\ negotiated[s] = Asked(s)
               /\ \E f \in Files : ParseServerConfig(f) = cfg[s] /\ Knows(f, want[s].token)
    <2>1. Met(s) /\ negotiated[s] = Granted(s) /\ Accepted(s) = DOMAIN Asked(s)
      BY <1>2 DEF Decided
    <2>2. negotiated[s] = Asked(s)
      BY <2>1 DEF Granted, Asked
    <2> QED  BY <2>1, <2>2, MetIsKnown
  <1> QED  BY <1>1, <1>2 DEF RegisteredAuthorized, RunningClientAuthorized

\* Traffic of a port goes to a session only if the file, as it was when the
\* session was accepted, grants the port to the token its client showed.
THEOREM TrafficIsAuthorized == Spec => []RegisteredAuthorized
  BY InitDecidedInv, NextDecidedInv, DecidedInvMeans, PTL DEF Spec

\* A client runs only when its server knew its token and accepted every port.
THEOREM RunningIsAuthorized == Spec => []RunningClientAuthorized
  BY InitDecidedInv, NextDecidedInv, DecidedInvMeans, PTL DEF Spec

-----------------------------------------------------------------------------
\* What a session has registered when: nothing that has a listener is passed over,
\* and at the end nothing is left.
RegistersInOrder(s) ==
    /\ sv[s] \in {"register", "running"} =>
          \A e \in Element, n \in DOMAIN negotiated[s] :
             In(e, registered[s]) /\ n <= e[2] /\ negotiated[s][n] \in Ports
             => In(<<s, n>>, registered[s])
    /\ sv[s] = "running" =>
          \A n \in DOMAIN negotiated[s] :
             negotiated[s][n] \in Ports => In(<<s, n>>, registered[s])

OrderInv == DecidedInv /\ \A s \in Sessions : RegistersInOrder(s)

LEMMA InitOrderInv == Init => OrderInv
  BY InitDecidedInv DEF Init, OrderInv, RegistersInOrder

LEMMA RegisterInOrder ==
    ASSUME OrderInv, NEW s \in Sessions, Register(s)
    PROVE  RegistersInOrder(s)'
  <1>1. PICK n \in ToRegister(s) :
           /\ \A m \in ToRegister(s) : n <= m
           /\ registered' = [registered EXCEPT ![s] = Append(@, <<s, n>>)]
    BY DEF Register
  <1>2. sv[s] = "register" /\ UNCHANGED <<negotiated, sv>>
    BY DEF Register
  <1>3. /\ registered \in [Sessions -> Seq(Element)] /\ DOMAIN negotiated[s] \subseteq Nat
        /\ RegistersInOrder(s)
    BY DEF OrderInv, DecidedInv, TypeInv, ListInv, ListTypes
  <1>4. n \in DOMAIN negotiated[s] /\ n \in Nat /\ <<s, n>> \in Element
    BY <1>3 DEF ToRegister, Unlisted, Element
  <1>5. \A x : In(x, registered'[s]) <=> In(x, registered[s]) \/ x = <<s, n>>
    <2>1. registered[s] \in Seq(Element) /\ registered'[s] = Append(registered[s], <<s, n>>)
      BY <1>1, <1>3
    <2> QED  BY <1>4, <2>1, SentMessages
  <1>6. ASSUME NEW e \in Element, NEW m \in DOMAIN negotiated[s],
               In(e, registered'[s]), m <= e[2], negotiated[s][m] \in Ports
        PROVE  In(<<s, m>>, registered'[s])
    <2>1. CASE In(e, registered[s])
      BY <1>2, <1>3, <1>5, <1>6, <2>1 DEF RegistersInOrder
    <2>2. CASE e = <<s, n>>
      <3>1. m <= n /\ m \in Nat
        BY <1>3, <1>6, <2>2
      <3>2. CASE m = n
        BY <1>5, <3>2
      <3>3. CASE m # n
        <4>1. m \notin ToRegister(s)
          BY <1>1, <1>4, <3>1, <3>3
        <4>2. PICK i \in DOMAIN registered[s] : ~(registered[s][i][2] < m)
          BY <1>6, <4>1 DEF ToRegister, Unlisted
        <4> DEFINE d == registered[s][i]
        <4>3. d \in Element /\ In(d, registered[s]) /\ ~(d[2] < m)
          BY <1>3, <4>2 DEF In
        <4> HIDE DEF d
        <4>4. m <= d[2]
          BY <3>1, <4>3 DEF Element
        <4>5. In(<<s, m>>, registered[s])
          BY <1>2, <1>3, <1>6, <4>3, <4>4 DEF RegistersInOrder
        <4> QED  BY <1>5, <4>5
      <3> QED  BY <3>2, <3>3
    <2> QED  BY <1>5, <1>6, <2>1, <2>2
  <1> QED  BY <1>2, <1>6 DEF RegistersInOrder

LEMMA StartInOrder ==
    ASSUME OrderInv, NEW s \in Sessions, StartControlLoop(s)
    PROVE  RegistersInOrder(s)'
  <1>1. /\ sv[s] = "register" /\ ToRegister(s) = {} /\ UNCHANGED <<negotiated, registered>>
    BY DEF StartControlLoop, listVars
  <1>2. /\ registered \in [Sessions -> Seq(Element)] /\ DOMAIN negotiated[s] \subseteq Nat
        /\ RegistersInOrder(s)
    BY DEF OrderInv, DecidedInv, TypeInv, ListInv, ListTypes
  <1>3. ASSUME NEW n \in DOMAIN negotiated[s], negotiated[s][n] \in Ports
        PROVE  In(<<s, n>>, registered[s])
    <2>1. PICK i \in DOMAIN registered[s] : ~(registered[s][i][2] < n)
      BY <1>1, <1>3 DEF ToRegister, Unlisted
    <2> DEFINE d == registered[s][i]
    <2>2. d \in Element /\ In(d, registered[s]) /\ ~(d[2] < n)
      BY <1>2, <2>1 DEF In
    <2> HIDE DEF d
    <2>3. n <= d[2]
      BY <1>2, <2>2 DEF Element
    <2> QED  BY <1>1, <1>2, <1>3, <2>2, <2>3 DEF RegistersInOrder
  <1> QED  BY <1>1, <1>2, <1>3 DEF RegistersInOrder

LEMMA NextOrderInv == OrderInv /\ [Next]_vars => OrderInv'
  <1> SUFFICES ASSUME OrderInv, [Next]_vars PROVE \A r \in Sessions : RegistersInOrder(r)'
    BY NextDecidedInv DEF OrderInv
  <1>s. /\ \A r \in Sessions : RegistersInOrder(r)
        /\ sv \in [Sessions -> Phases]
        /\ \A r \in Sessions : registered[r] # <<>> => sv[r] \in {"register", "running", "closing", "cleanup"}
        /\ registered \in [Sessions -> Seq(Element)]
        /\ negotiated = [r \in Sessions |-> negotiated[r]]
    BY DEF OrderInv, DecidedInv, TypeInv, ListInv, ListTypes, ListsMatch
  <1>1. ASSUME UNCHANGED <<listVars, sv>> PROVE \A r \in Sessions : RegistersInOrder(r)'
    BY <1>s, <1>1 DEF RegistersInOrder, listVars
  <1>2. ASSUME NEW s \in Sessions, NEW l \in Phases \ {"register", "running"},
               sv' = [sv EXCEPT ![s] = l], UNCHANGED listVars
        PROVE  \A r \in Sessions : RegistersInOrder(r)'
    BY <1>s, <1>2 DEF RegistersInOrder, listVars
  <1>3. ASSUME NEW s \in Sessions, RegistersInOrder(s)',
               \A r \in Sessions : r # s =>
                  sv'[r] = sv[r] /\ negotiated'[r] = negotiated[r] /\ registered'[r] = registered[r]
        PROVE  \A r \in Sessions : RegistersInOrder(r)'
    BY <1>s, <1>3 DEF RegistersInOrder
  <1>4. ASSUME NEW s \in Sessions, ServerStep(s) PROVE \A r \in Sessions : RegistersInOrder(r)'
    <2>1. CASE AcceptControl(s)
      BY <1>2, <2>1 DEF AcceptControl, Goto, Phases
    <2>2. CASE StreamFails(s) \/ SessionDone(s) \/ CloseControl(s) \/ CloseSession(s)
      BY <1>2, <2>2 DEF StreamFails, SessionDone, CloseControl, CloseSession, Return, Goto, Phases
    <2>3. CASE Handshake(s)
      BY <1>2, <2>3 DEF Handshake, Return, Goto, Phases
    <2>4. CASE Negotiate(s)
      <3>1. /\ sv[s] = "negotiate" /\ sv' = [sv EXCEPT ![s] = "register"]
            /\ negotiated' = [negotiated EXCEPT ![s] = [i \in Accepted(s) |-> Asked(s)[i]]]
            /\ registered' = registered
        BY <2>4 DEF Negotiate, Goto
      <3>2. registered'[s] = <<>> /\ sv'[s] = "register"
        BY <1>s, <3>1
      <3>3. RegistersInOrder(s)'
        BY <3>2 DEF RegistersInOrder, In
      <3> QED  BY <1>3, <1>s, <3>1, <3>3
    <2>5. CASE Register(s)
      <3>1. sv' = sv /\ negotiated' = negotiated /\ \A r \in Sessions : r # s => registered'[r] = registered[r]
        BY <1>s, <2>5 DEF Register
      <3> QED  BY <1>3, <2>5, <3>1, RegisterInOrder
    <2>6. CASE StartControlLoop(s)
      <3>1. /\ negotiated' = negotiated /\ registered' = registered
            /\ \A r \in Sessions : r # s => sv'[r] = sv[r]
        BY <1>s, <2>6 DEF StartControlLoop, Goto, listVars
      <3> QED  BY <1>3, <2>6, <3>1, StartInOrder
    <2>7. CASE Unregister(s)
      <3>1. /\ sv[s] = "cleanup" /\ sv' = sv /\ negotiated' = negotiated
            /\ \A r \in Sessions : r # s => registered'[r] = registered[r]
        BY <1>s, <2>7 DEF Unregister, Receive
      <3>2. RegistersInOrder(s)'
        BY <3>1 DEF RegistersInOrder
      <3> QED  BY <1>3, <3>1, <3>2
    <2> QED  BY <1>4, <2>1, <2>2, <2>3, <2>4, <2>5, <2>6, <2>7 DEF ServerStep
  <1>5. ASSUME NEW s \in Sessions, AcceptSession(s) PROVE \A r \in Sessions : RegistersInOrder(r)'
    BY <1>2, <1>5 DEF AcceptSession, Goto, Phases
  <1>6. ASSUME NEW s \in Sessions, ControlReader(s) \/ ControlLoop(s) \/ KeepAliveTimeout(s)
        PROVE  \A r \in Sessions : RegistersInOrder(r)'
    BY <1>1, <1>6 DEF ControlReader, ControlLoop, ReadControl, ReaderReturns,
       HandleControl, LoopReturns, KeepAliveTimeout
  <1>7. ASSUME NEW s \in Sessions,
               ClientStep(s) \/ ClientKeepAlive(s) \/ ClientClose(s) \/ ClientVanishes(s)
               \/ Stall(s) \/ Drain(s)
        PROVE  \A r \in Sessions : RegistersInOrder(r)'
    BY <1>1, <1>7 DEF ClientStep, Stall, Drain, ClientOpens, ClientHello, ClientAuthenticated, ClientNegotiated,
       ClientRefused, ClientExit, ClientKeepAlive, ClientClose, ClientVanishes
  <1>8. ASSUME ReloadConfig \/ Interrupt \/ Stop \/ UNCHANGED vars
        PROVE  \A r \in Sessions : RegistersInOrder(r)'
    BY <1>1, <1>8 DEF ReloadConfig, Interrupt, Stop, vars
  <1> QED  BY <1>4, <1>5, <1>6, <1>7, <1>8 DEF Next

\* A running session is listed for every accepted port that has a listener.
LEMMA RunningIsListed ==
    ASSUME OrderInv, NEW s \in Sessions, sv[s] = "running", NEW n \in DOMAIN negotiated[s],
           negotiated[s][n] \in Ports
    PROVE  Listed(s, negotiated[s][n])
  <1> DEFINE e == <<s, n>>
             tp == negotiated[s][n]
  <1>1. ListInv /\ n \in Nat /\ portMap[tp] \in Seq(Element)
    BY DEF OrderInv, DecidedInv, TypeInv, ListInv, ListTypes
  <1>2. In(e, registered[s])
    BY DEF OrderInv, RegistersInOrder
  <1>3. e \in Element /\ e[1] = s /\ e[2] = n
    BY <1>1 DEF Element
  <1>4. In(e, portMap[tp])
    BY <1>1, <1>2, <1>3 DEF ListInv, ListsMatch
  <1>5. PICK i \in DOMAIN portMap[tp] : portMap[tp][i] = e
    BY <1>1, <1>4 DEF In
  <1> QED  BY <1>3, <1>5 DEF Listed

LEMMA OrderInvMeans == OrderInv => AcceptedIsRegistered
  BY RunningIsListed DEF AcceptedIsRegistered

\* As long as its session runs, every port that the server accepted and has a
\* listener for brings the session traffic, whatever is reloaded: the loop over the
\* negotiated ports passes none of them over, and no other session's cleanup takes
\* an element out again.
THEOREM AcceptedStaysRegistered == Spec => []AcceptedIsRegistered
  BY InitOrderInv, NextOrderInv, OrderInvMeans, PTL DEF Spec
=============================================================================
