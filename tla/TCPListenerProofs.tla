------------------------- MODULE TCPListenerProofs --------------------------
(***************************************************************************)
(* The accept loop of a TCP port, for any number of sessions and users.    *)
(*                                                                         *)
(* First the list: RoundRobin spreads a port's connections evenly, however *)
(* sessions register and leave.  EvenShare alone is not inductive: it does *)
(* not say which elements are one ahead.  Spread does: those from place k, *)
(* where the round began, up to the one that is picked next, around the    *)
(* end of the list.                                                        *)
(*                                                                         *)
(* Then the loop: it uses the list as RoundRobin says, so that connections *)
(* are spread evenly; no path through it leaks a stream; and a session     *)
(* that left the list gets at most the connection that was in the loop's   *)
(* hands.                                                                  *)
(***************************************************************************)
EXTENDS TCPListener, TLAPS

TypeInv ==
    /\ list \in Seq(Elements)
    /\ nextSession \in Nat
    /\ share \in [Elements -> Nat]
    /\ \A i, j \in 1..Len(list) : list[i] = list[j] => i = j

\* The place that is picked next, counted from 1.
Cursor(l, n) == PickIndex(l, n) + 1

\* From k up to but not including c, around the end.
Within(i, k, c) == IF k <= c THEN k <= i /\ i < c ELSE k <= i \/ i < c

\* The round began at k; those within are at m + 1, the others at m.
Round(l, n, sh, k, m) ==
    \A i \in 1..Len(l) :
        sh[l[i]] = IF Within(i, k, Cursor(l, n)) THEN m + 1 ELSE m

Spread ==
    list # <<>> => \E k \in 1..Len(list), m \in Nat : Round(list, nextSession, share, k, m)

Inv == TypeInv /\ Spread

-----------------------------------------------------------------------------
\* The element RoundRobin picks is in the list.
LEMMA CursorInList ==
    ASSUME NEW S, NEW l \in Seq(S), l # <<>>, NEW n \in Nat
    PROVE  /\ Cursor(l, n) \in 1..Len(l)
           /\ PickIndex(l, n) \in Nat
           /\ Picked(l, n) = l[Cursor(l, n)]
  <1>1. Len(l) \in Nat /\ Len(l) # 0
    OBVIOUS
  <1>2. PickIndex(l, n) \in 0..Len(l) - 1
    BY <1>1 DEF PickIndex
  <1> QED  BY <1>1, <1>2 DEF Cursor, Picked

\* ... and the next one follows it, around the end.
LEMMA CursorMoves ==
    ASSUME NEW S, NEW l \in Seq(S), l # <<>>, NEW n \in Nat
    PROVE  /\ NextIndex(l, n) \in Nat
           /\ Cursor(l, NextIndex(l, n)) =
                 IF Cursor(l, n) = Len(l) THEN 1 ELSE Cursor(l, n) + 1
  <1>1. Len(l) \in Nat /\ Len(l) # 0
    OBVIOUS
  <1>2. /\ PickIndex(l, n) \in 0..Len(l) - 1
        /\ NextIndex(l, n) = PickIndex(l, n) + 1
    BY <1>1 DEF PickIndex, NextIndex
  <1>3. PickIndex(l, NextIndex(l, n)) =
           IF PickIndex(l, n) + 1 >= Len(l) THEN 0 ELSE PickIndex(l, n) + 1
    BY <1>2 DEF PickIndex
  <1> QED  BY <1>1, <1>2, <1>3 DEF Cursor

\* Where nobody has been picked a round begins at the cursor.
LEMMA FreshRound ==
    ASSUME NEW l \in Seq(Elements), NEW n \in Nat, l # <<>>
    PROVE  \E k \in 1..Len(l), m \in Nat : Round(l, n, NoPicks, k, m)
  <1>1. Cursor(l, n) \in 1..Len(l)
    BY CursorInList
  <1>2. \A i \in 1..Len(l) : l[i] \in Elements /\ ~Within(i, Cursor(l, n), Cursor(l, n))
    BY <1>1 DEF Within
  <1>3. Round(l, n, NoPicks, Cursor(l, n), 0)
    BY <1>2 DEF Round, NoPicks
  <1> QED  BY <1>1, <1>3

\* Removing an element leaves a list without repetitions.
LEMMA RemoveKeepsDistinct ==
    ASSUME NEW l \in Seq(Elements), NEW e,
           \A i, j \in 1..Len(l) : l[i] = l[j] => i = j,
           \E i \in 1..Len(l) : l[i] = e
    PROVE  /\ Remove(l, e) \in Seq(Elements)
           /\ \A i, j \in 1..Len(Remove(l, e)) : Remove(l, e)[i] = Remove(l, e)[j] => i = j
  <1> DEFINE at == CHOOSE i \in DOMAIN l : l[i] = e
             r == [i \in 1..Len(l) - 1 |-> IF i < at THEN l[i] ELSE l[i + 1]]
  <1>1. at \in 1..Len(l) /\ Len(l) \in Nat
    OBVIOUS
  <1>2. Remove(l, e) = r
    BY DEF Remove
  <1>3. \A i \in 1..Len(l) - 1 : r[i] \in Elements
    BY <1>1
  <1>4. Len(l) - 1 \in Nat
    BY <1>1
  <1>5. r \in Seq(Elements) /\ Len(r) = Len(l) - 1
    BY <1>3, <1>4
  <1>6. \A i, j \in 1..Len(l) - 1 : r[i] = r[j] => i = j
    BY <1>1
  <1> QED  BY <1>2, <1>5, <1>6

\* Pushing an element that is not in the list does, too.
LEMMA PushKeepsDistinct ==
    ASSUME NEW l \in Seq(Elements), NEW e \in Elements,
           \A i, j \in 1..Len(l) : l[i] = l[j] => i = j,
           \A i \in 1..Len(l) : l[i] # e
    PROVE  /\ PushBack(l, e) \in Seq(Elements)
           /\ \A i, j \in 1..Len(PushBack(l, e)) : PushBack(l, e)[i] = PushBack(l, e)[j] => i = j
  BY DEF PushBack

\* One pick extends the round, or completes it and begins the next.
LEMMA PickKeepsRound ==
    ASSUME NEW l \in Seq(Elements), l # <<>>, NEW n \in Nat, NEW sh \in [Elements -> Nat],
           \A i, j \in 1..Len(l) : l[i] = l[j] => i = j,
           NEW k \in 1..Len(l), NEW m \in Nat, Round(l, n, sh, k, m)
    PROVE  \E k2 \in 1..Len(l), m2 \in Nat :
              Round(l, NextIndex(l, n), [sh EXCEPT ![Picked(l, n)] = @ + 1], k2, m2)
  <1> DEFINE c == Cursor(l, n)
             d == Cursor(l, NextIndex(l, n))
             new == [sh EXCEPT ![Picked(l, n)] = @ + 1]
             L == Len(l)
  <1>1. L \in Nat /\ c \in 1..L /\ Picked(l, n) = l[c] /\ l[c] \in Elements
    <2>1. c \in 1..L /\ Picked(l, n) = l[c]
      BY CursorInList
    <2> QED  BY <2>1
  <1>2. d = IF c = L THEN 1 ELSE c + 1
    BY CursorMoves
  <1>3. \A i \in 1..L : sh[l[i]] = IF Within(i, k, c) THEN m + 1 ELSE m
    BY DEF Round
  <1>4. ~Within(c, k, c)
    BY <1>1 DEF Within
  <1>5. \A i \in 1..L : new[l[i]] = IF i = c THEN m + 1 ELSE sh[l[i]]
    BY <1>1, <1>3, <1>4
  <1>6. \A i \in 1..L : new[l[i]] = IF i = c \/ Within(i, k, c) THEN m + 1 ELSE m
    BY <1>3, <1>5
  <1> HIDE DEF c, d, new
  <1>7. CASE d = k
    <2>1. \A i \in 1..L : i = c \/ Within(i, k, c)
      BY <1>1, <1>2, <1>7 DEF Within
    <2>2. \A i \in 1..L : ~Within(i, k, d)
      BY <1>7 DEF Within
    <2>3. \A i \in 1..L : new[l[i]] = IF Within(i, k, d) THEN (m + 1) + 1 ELSE m + 1
      BY <1>6, <2>1, <2>2
    <2>4. Round(l, NextIndex(l, n), new, k, m + 1)
      BY <2>3 DEF Round, d
    <2> QED  BY <2>4 DEF new
  <1>8. CASE d # k
    <2>1. \A i \in 1..L : (i = c \/ Within(i, k, c)) <=> Within(i, k, d)
      BY <1>1, <1>2, <1>8 DEF Within
    <2>2. Round(l, NextIndex(l, n), new, k, m)
      BY <1>6, <2>1 DEF Round, d
    <2> QED  BY <2>2 DEF new
  <1> QED  BY <1>7, <1>8

-----------------------------------------------------------------------------
LEMMA InitInv == Init => Inv
  BY DEF Init, Inv, TypeInv, Spread, NoPicks

LEMMA NextInv == Inv /\ [Next]_vars => Inv'
  <1> SUFFICES ASSUME Inv, [Next]_vars PROVE Inv'
    OBVIOUS
  <1> USE DEF Inv
  <1>1. ASSUME NEW e \in Elements, Register(e) PROVE Inv'
    <2>1. list' = PushBack(list, e) /\ share' = NoPicks /\ nextSession' = nextSession
      BY <1>1 DEF Register
    <2>2. \A i \in 1..Len(list) : list[i] # e
      BY <1>1 DEF Register, Members, TypeInv
    <2>3. TypeInv'
      BY <2>1, <2>2, PushKeepsDistinct DEF TypeInv, NoPicks
    <2>4. Spread'
      BY <2>1, <2>3, FreshRound DEF TypeInv, Spread
    <2> QED  BY <2>3, <2>4
  <1>2. ASSUME NEW e \in Elements, Unregister(e) PROVE Inv'
    <2>1. list' = Remove(list, e) /\ share' = NoPicks /\ nextSession' = nextSession
      BY <1>2 DEF Unregister
    <2>2. \E i \in 1..Len(list) : list[i] = e
      BY <1>2 DEF Unregister, Members, TypeInv
    <2>3. TypeInv'
      BY <2>1, <2>2, RemoveKeepsDistinct DEF TypeInv, NoPicks
    <2>4. Spread'
      BY <2>1, <2>3, FreshRound DEF TypeInv, Spread
    <2> QED  BY <2>3, <2>4
  <1>3. ASSUME Pick PROVE Inv'
    <2>1. /\ list # <<>> /\ list' = list
          /\ nextSession' = NextIndex(list, nextSession)
          /\ share' = [share EXCEPT ![Picked(list, nextSession)] = @ + 1]
      BY <1>3 DEF Pick
    <2>2. nextSession' \in Nat
      <3>1. list \in Seq(Elements) /\ nextSession \in Nat
        BY DEF TypeInv
      <3> QED  BY <2>1, <3>1, CursorMoves
    <2>3. TypeInv'
      <3>1. Picked(list, nextSession) \in Elements
        <4>1. /\ Cursor(list, nextSession) \in 1..Len(list)
              /\ Picked(list, nextSession) = list[Cursor(list, nextSession)]
          BY <2>1, CursorInList DEF TypeInv
        <4> QED  BY <4>1 DEF TypeInv
      <3>2. share' \in [Elements -> Nat]
        BY <2>1, <3>1 DEF TypeInv
      <3> QED  BY <2>1, <2>2, <3>2 DEF TypeInv
    <2>4. PICK k \in 1..Len(list), m \in Nat : Round(list, nextSession, share, k, m)
      BY <2>1 DEF Spread
    <2>5. \E k2 \in 1..Len(list), m2 \in Nat : Round(list', nextSession', share', k2, m2)
      BY <2>1, <2>4, PickKeepsRound DEF TypeInv
    <2>6. Spread'
      BY <2>1, <2>5 DEF Spread
    <2> QED  BY <2>3, <2>6
  <1>4. ASSUME UNCHANGED vars PROVE Inv'
    BY <1>4 DEF vars, TypeInv, Spread, Round, Cursor, PickIndex
  <1> QED  BY <1>1, <1>2, <1>3, <1>4 DEF Next

LEMMA SpreadIsEven == Inv => EvenShare
  <1> SUFFICES ASSUME Inv, NEW i \in 1..Len(list), NEW j \in 1..Len(list)
               PROVE  share[list[i]] <= share[list[j]] + 1
    BY DEF EvenShare, Members, Inv, TypeInv
  <1>1. PICK k \in 1..Len(list), m \in Nat : Round(list, nextSession, share, k, m)
    BY DEF Inv, TypeInv, Spread
  <1>2. share[list[i]] \in {m, m + 1} /\ share[list[j]] \in {m, m + 1}
    BY <1>1 DEF Round
  <1> QED  BY <1>2

\* The connections of a port are spread evenly over the sessions registered
\* for it, however sessions came and went before.
THEOREM ConnectionsSpread == Spec => []EvenShare
  <1>1. Inv => EvenShare
    BY SpreadIsEven
  <1> QED  BY InitInv, NextInv, <1>1, PTL DEF Spec

-----------------------------------------------------------------------------
\* Where the loop is, and what it has in its hands there.
LoopInv ==
    /\ pc \in {"accept", "pick", "open", "header", "returned"}
    /\ conn \in [Conns -> {"backlog", "held", "relayed", "closed", "ended"}]
    /\ stream \in [Conns -> {"none", "open", "closed"}]
    /\ pc \in {"pick", "open", "header"} => cur \in Conns /\ conn[cur] = "held"

\* A session that had its late connection is out of the list for good, and no
\* longer in the loop's hands.
LateInv ==
    /\ late \in [Elements -> 0..1]
    /\ Members \subseteq registered
    /\ pc = "open" => comp \in registered
    /\ \A s \in Elements : late[s] = 1 =>
          s \in registered \ Members /\ ~(pc = "open" /\ comp = s)

-----------------------------------------------------------------------------
\* What Next may do to the list: an operation of RoundRobin, or nothing.
LEMMA ListStep == ListenerNext => [Next]_vars
  BY DEF ListenerNext, Next, AcceptLoop, RegisterSession, UnregisterSession, SessionDies,
         Stall, Drain, RelayEnds, Shutdown, Accept, AcceptFails, PickSession, PickNext,
         OpenStream, WriteHeader

\* The accept loop and the sessions use the port's list as RoundRobin says.
THEOREM ListenerImplementsRoundRobin == ListenerSpec => Spec
  <1>1. ListenerInit => Init
    BY DEF ListenerInit
  <1>2. [ListenerNext]_listenerVars => [Next]_vars
    BY ListStep DEF listenerVars
  <1> QED  BY <1>1, <1>2, PTL DEF ListenerSpec, Spec

\* No session of a port is two connections ahead of another, whatever the
\* accept loop waited for and whichever of its steps failed in between.
THEOREM ListenerSpreadsEvenly == ListenerSpec => []EvenShare
  BY ListenerImplementsRoundRobin, ConnectionsSpread, PTL

LEMMA ListWellFormed == ListenerSpec => []Inv
  BY ListenerImplementsRoundRobin, InitInv, NextInv, PTL DEF Spec

-----------------------------------------------------------------------------
LEMMA LoopInitOwned == ListenerInit => LoopInv /\ StreamsOwned
  BY DEF ListenerInit, LoopInv, StreamsOwned

LEMMA LoopNextOwned ==
    LoopInv /\ StreamsOwned /\ [ListenerNext]_listenerVars => LoopInv' /\ StreamsOwned'
  <1> SUFFICES ASSUME LoopInv, StreamsOwned, [ListenerNext]_listenerVars
               PROVE  LoopInv' /\ StreamsOwned'
    OBVIOUS
  <1> USE DEF LoopInv, StreamsOwned, outside, loop, users
  <1>1. ASSUME NEW s \in Elements,
               RegisterSession(s) \/ UnregisterSession(s) \/ SessionDies(s) \/ Stall(s) \/ Drain(s)
        PROVE  LoopInv' /\ StreamsOwned'
    BY <1>1 DEF RegisterSession, UnregisterSession, SessionDies, Stall, Drain
  <1>2. ASSUME NEW c \in Conns, RelayEnds(c) PROVE LoopInv' /\ StreamsOwned'
    BY <1>2 DEF RelayEnds
  <1>3. CASE Shutdown
    BY <1>3 DEF Shutdown
  <1>4. ASSUME NEW c \in Conns, Accept(c) PROVE LoopInv' /\ StreamsOwned'
    BY <1>4 DEF Accept
  <1>5. CASE AcceptFails
    BY <1>5 DEF AcceptFails
  <1>6. CASE PickSession
    BY <1>6 DEF PickSession, TurnAway
  <1>7. CASE OpenStream
    BY <1>7 DEF OpenStream, TurnAway
  <1>8. CASE WriteHeader
    BY <1>8 DEF WriteHeader, TurnAway, CloseNewConn
  <1>9. CASE UNCHANGED listenerVars
    BY <1>9 DEF listenerVars
  <1> QED  BY <1>1, <1>2, <1>3, <1>4, <1>5, <1>6, <1>7, <1>8, <1>9 DEF ListenerNext, AcceptLoop

\* Every stream that is open is being relayed or in the loop's hands: no
\* failure of the loop leaks one.
THEOREM NoStreamLeaks == ListenerSpec => []StreamsOwned
  BY LoopInitOwned, LoopNextOwned, PTL DEF ListenerSpec

-----------------------------------------------------------------------------
\* The members of the list after each operation of RoundRobin.
LEMMA MembersPushed ==
    ASSUME NEW e \in Elements, Inv, list' = PushBack(list, e)
    PROVE  Members' \subseteq Members \cup {e}
  BY DEF Inv, TypeInv, Members, PushBack

LEMMA MembersRemoved ==
    ASSUME NEW e \in Members, Inv, list' = Remove(list, e)
    PROVE  Members' \subseteq Members
  <1> DEFINE at == CHOOSE i \in DOMAIN list : list[i] = e
  <1>1. at \in 1..Len(list) /\ Len(list) \in Nat /\ DOMAIN list = 1..Len(list)
    BY DEF Members, Inv, TypeInv
  <1>2. list' = [i \in 1..Len(list) - 1 |-> IF i < at THEN list[i] ELSE list[i + 1]]
    BY DEF Remove
  <1> QED  BY <1>1, <1>2 DEF Members

LEMMA PickedIsMember ==
    ASSUME Inv, list # <<>>
    PROVE  Picked(list, nextSession) \in Members
  <1>1. /\ Cursor(list, nextSession) \in 1..Len(list)
        /\ Picked(list, nextSession) = list[Cursor(list, nextSession)]
    BY CursorInList DEF Inv, TypeInv
  <1> QED  BY <1>1 DEF Members, Inv, TypeInv

LEMMA MembersAreElements == Inv => Members \subseteq Elements
  BY DEF Inv, TypeInv, Members

LEMMA LateInit == ListenerInit => LateInv
  BY DEF ListenerInit, Init, LateInv, Members

LEMMA LateNext == Inv /\ LoopInv /\ LateInv /\ [ListenerNext]_listenerVars => LateInv'
  <1> SUFFICES ASSUME Inv, LoopInv, LateInv, [ListenerNext]_listenerVars PROVE LateInv'
    OBVIOUS
  <1> USE DEF LateInv
  <1>1. ASSUME NEW s \in Elements, RegisterSession(s) PROVE LateInv'
    <2>1. Members' \subseteq Members \cup {s}
      BY <1>1, MembersPushed DEF RegisterSession, Register
    <2> QED  BY <1>1, <2>1 DEF RegisterSession, loop, users
  <1>2. ASSUME NEW s \in Elements, UnregisterSession(s) PROVE LateInv'
    <2>1. Members' \subseteq Members
      BY <1>2, MembersRemoved DEF UnregisterSession, Unregister
    <2> QED  BY <1>2, <2>1 DEF UnregisterSession, outside, loop, users
  <1>3. CASE UNCHANGED <<list, registered, loop, late>>
    BY <1>3 DEF loop, Members
  <1>4. ASSUME NEW c \in Conns, Accept(c) PROVE LateInv'
    BY <1>4 DEF Accept, vars, outside, Members
  <1>5. CASE AcceptFails
    BY <1>5 DEF AcceptFails, vars, outside, users, Members
  <1>6. CASE PickSession
    <2>1. Members' = Members /\ registered' = registered /\ late' = late
      BY <1>6 DEF PickSession, PickNext, Pick, vars, outside, Members
    <2>2. CASE list = <<>>
      BY <1>6, <2>1, <2>2 DEF PickSession, TurnAway
    <2>3. CASE list # <<>>
      <3>1. comp' = Picked(list, nextSession)
        BY <1>6, <2>3 DEF PickSession, PickNext
      <3> QED  BY <2>1, <2>3, <3>1, PickedIsMember, MembersAreElements
    <2> QED  BY <2>2, <2>3
  <1>7. CASE OpenStream
    <2>1. Members' = Members /\ registered' = registered /\ pc' # "open" /\ comp' = comp
      BY <1>7 DEF OpenStream, TurnAway, vars, outside, Members
    <2>2. late' \in [Elements -> 0..1] /\ \A s \in Elements : late'[s] = 1 =>
             late[s] = 1 \/ (s = comp /\ comp \notin Members)
      BY <1>7 DEF OpenStream
    <2> QED  BY <1>7, <2>1, <2>2 DEF OpenStream
  <1>8. CASE WriteHeader
    BY <1>8 DEF WriteHeader, TurnAway, vars, outside, Members
  <1> QED
    <2>1. \A s \in Elements : SessionDies(s) \/ Stall(s) \/ Drain(s)
             => UNCHANGED <<list, registered, loop, late>>
      BY DEF SessionDies, Stall, Drain, vars, users
    <2>2. \A c \in Conns : RelayEnds(c) => UNCHANGED <<list, registered, loop, late>>
      BY DEF RelayEnds, vars, outside
    <2>3. Shutdown \/ UNCHANGED listenerVars => UNCHANGED <<list, registered, loop, late>>
      BY DEF Shutdown, listenerVars, vars, outside, users
    <2> QED  BY <1>1, <1>2, <1>3, <1>4, <1>5, <1>6, <1>7, <1>8, <2>1, <2>2, <2>3
                DEF ListenerNext, AcceptLoop

\* A session that has left the list gets at most one connection more.
THEOREM OneLateConnection == ListenerSpec => []AtMostOneLate
  <1>1. LateInv => AtMostOneLate
    BY DEF LateInv, AtMostOneLate
  <1> QED
    BY ListWellFormed, LoopInitOwned, LoopNextOwned, LateInit, LateNext, <1>1, PTL
       DEF ListenerSpec
=============================================================================
