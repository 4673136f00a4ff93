----------------------------- MODULE RoundRobin -----------------------------
(***************************************************************************)
(* One port's session list under its three users: handleSession pushes and *)
(* removes elements while the port listener picks one for each connection. *)
(***************************************************************************)
EXTENDS SessionList

CONSTANTS
    Elements,    \* the list elements that come and go
    MaxShare     \* bound: picks of one element between two changes of the list

ASSUME ShareAssumption == MaxShare \in Nat

VARIABLES
    list,         \* the SessionList
    nextSession,  \* the listener's index, which only RoundRobin moves
    share         \* history: how often each was picked since the list changed

vars == <<list, nextSession, share>>

NoPicks == [e \in Elements |-> 0]

Init == list = <<>> /\ nextSession = 0 /\ share = NoPicks

Members == {list[i] : i \in DOMAIN list}

\* handleSession registers a session.
Register(e) ==
    /\ e \notin Members
    /\ list' = PushBack(list, e)
    /\ share' = NoPicks
    /\ UNCHANGED nextSession

\* Its cleanup takes the element out.
Unregister(e) ==
    /\ e \in Members
    /\ list' = Remove(list, e)
    /\ share' = NoPicks
    /\ UNCHANGED nextSession

\* A connection arrives on the port.
Pick ==
    /\ list # <<>>
    /\ LET e == Picked(list, nextSession) IN
          /\ share[e] < MaxShare
          /\ share' = [share EXCEPT ![e] = @ + 1]
    /\ nextSession' = NextIndex(list, nextSession)
    /\ UNCHANGED list

Next == Pick \/ \E e \in Elements : Register(e) \/ Unregister(e)

Spec == Init /\ [][Next]_vars

-----------------------------------------------------------------------------
\* Whatever index registrations and removals left behind, from then on the
\* connections are spread evenly: no session is two ahead of another.
EvenShare == \A e, f \in Members : share[e] <= share[f] + 1
=============================================================================
