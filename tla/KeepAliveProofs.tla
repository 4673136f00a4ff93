-------------------------- MODULE KeepAliveProofs --------------------------
(***************************************************************************)
(* The keep-alive monitor gives up no live peer and misses no dead one,    *)
(* for every interval, timeout and delay.                                  *)
(*                                                                         *)
(* AliveKept needs to know when the keep-alive that is handled next was    *)
(* due: no later than an Interval (at first also MaxSkew) after the last   *)
(* one was handled, and not yet MaxDelay ago.  DeadFound needs to know     *)
(* what the last check of the monitor saw.                                 *)
(***************************************************************************)
EXTENDS KeepAlive, TLAPS

TypeInv ==
    /\ now \in Nat /\ nextSend \in Nat /\ due \in Nat
    /\ lastKA \in Nat /\ nextCheck \in Nat
    /\ sending \in BOOLEAN /\ handling \in BOOLEAN /\ cancelled \in BOOLEAN

\* The keep-alives not handled yet are Interval apart, and those sent were due.
Spaced ==
    \E k \in Nat :
        /\ nextSend = due + k * Interval
        /\ k > 0 => nextSend <= now + Interval

\* The next keep-alive comes in time.
NextInTime ==
    /\ due <= lastKA + Interval + MaxSkew
    /\ sending => now <= nextSend
    /\ sending /\ handling => now <= due + MaxDelay

\* The last check found a keep-alive in the period before it.
LastCheck ==
    ~cancelled => nextCheck <= lastKA + 2 * Timeout /\ now <= nextCheck + MaxLag

Inv == TypeInv /\ lastKA <= now /\ Spaced /\ NextInTime /\ LastCheck /\ AliveKept

\* A keep-alive that was sent is due, and the next one an Interval later.
LEMMA SentWasDue ==
    ASSUME TypeInv, Spaced, due < nextSend
    PROVE  /\ due <= now
           /\ \E k \in Nat :
                 nextSend = due + Interval + k * Interval /\ nextSend <= now + Interval
  <1>1. PICK k \in Nat : nextSend = due + k * Interval /\ (k > 0 => nextSend <= now + Interval)
    BY DEF Spaced
  <1>2. k > 0
    BY <1>1, KeepAliveAssumption DEF TypeInv
  <1>3. k - 1 \in Nat /\ k * Interval = Interval + (k - 1) * Interval
    BY <1>2, KeepAliveAssumption
  <1>4. (k - 1) * Interval \in Nat
    BY <1>3, KeepAliveAssumption
  <1>5. nextSend = due + Interval + (k - 1) * Interval
    BY <1>1, <1>3, <1>4, KeepAliveAssumption DEF TypeInv
  <1>6. due <= now
    BY <1>1, <1>2, <1>4, <1>5, KeepAliveAssumption DEF TypeInv
  <1> QED  BY <1>1, <1>2, <1>3, <1>5, <1>6

LEMMA InitInv == Init => Inv
  <1> SUFFICES ASSUME Init PROVE Inv
    OBVIOUS
  <1> USE KeepAliveAssumption DEF Init
  <1>1. TypeInv
    <2>1. Interval + MaxSkew \in Nat /\ Timeout \in Nat
      OBVIOUS
    <2>2. nextSend \in Nat
      BY <2>1
    <2> QED  BY <2>1, <2>2 DEF TypeInv
  <1>2. Spaced
    <2>1. nextSend = due + 0 * Interval
      OBVIOUS
    <2> QED  BY <2>1 DEF Spaced
  <1>3. NextInTime /\ LastCheck /\ AliveKept /\ lastKA <= now
    BY DEF NextInTime, LastCheck, AliveKept
  <1> QED  BY <1>1, <1>2, <1>3 DEF Inv

LEMMA NextInv == Inv /\ [Next]_vars => Inv'
  <1> SUFFICES ASSUME Inv, [Next]_vars PROVE Inv'
    OBVIOUS
  <1> USE KeepAliveAssumption DEF Inv
  <1>1. CASE SendKeepAlive
    <2>1. PICK k \in Nat : nextSend = due + k * Interval
      BY DEF Spaced
    <2>2. nextSend' = due' + (k + 1) * Interval /\ nextSend' <= now' + Interval
      <3>1. (k + 1) * Interval = k * Interval + Interval /\ k * Interval \in Nat
        OBVIOUS
      <3> QED  BY <1>1, <2>1, <3>1 DEF SendKeepAlive, receiver, TypeInv
    <2>3. Spaced'
      <3>1. k + 1 \in Nat
        OBVIOUS
      <3> QED  BY <2>2, <3>1, Zenon DEF Spaced
    <2>4. (TypeInv /\ lastKA <= now /\ NextInTime /\ LastCheck /\ AliveKept)'
      BY <1>1 DEF SendKeepAlive, receiver, TypeInv, NextInTime, LastCheck, AliveKept
    <2> QED  BY <2>3, <2>4
  <1>2. CASE SenderStops
    BY <1>2 DEF SenderStops, receiver, TypeInv, Spaced, NextInTime, LastCheck, AliveKept
  <1>3. CASE HandleKeepAlive
    <2>1. due < nextSend /\ nextSend' = nextSend /\ due' = due + Interval /\ now' = now
      BY <1>3 DEF HandleKeepAlive, sender
    <2>2. Spaced' /\ due <= now
      BY <2>1, SentWasDue DEF Spaced
    <2>3. (TypeInv /\ lastKA <= now /\ NextInTime /\ LastCheck /\ AliveKept)'
      BY <1>3, <2>2 DEF HandleKeepAlive, sender, TypeInv, NextInTime, LastCheck, AliveKept
    <2> QED  BY <2>2, <2>3
  <1>4. CASE LoopReturns
    BY <1>4 DEF LoopReturns, sender, TypeInv, Spaced, NextInTime, LastCheck, AliveKept
  <1>5. CASE Check
    <2>1. UNCHANGED <<now, sending, nextSend, due, handling, lastKA>>
      BY <1>5 DEF Check, sender
    <2>2. Spaced' /\ NextInTime' /\ (lastKA <= now)'
      BY <2>1 DEF Spaced, NextInTime
    <2>3. nextCheck' = nextCheck + Timeout /\ (cancelled' <=> now - lastKA > Timeout)
      BY <1>5 DEF Check, Expired
    <2>4. cancelled' \in BOOLEAN
      BY <1>5 DEF Check, Expired
    <2>5. TypeInv'
      BY <2>1, <2>3, <2>4 DEF TypeInv
    <2>6. LastCheck'
      BY <1>5, <2>1, <2>3 DEF Check, TypeInv, LastCheck
    <2>7. AliveKept'
      BY <2>1, <2>3 DEF TypeInv, NextInTime, AliveKept, InTime
    <2> QED  BY <2>2, <2>5, <2>6, <2>7
  <1>6. CASE Tick
    BY <1>6 DEF Tick, sender, receiver, TypeInv, Spaced, NextInTime, LastCheck, AliveKept
  <1>7. CASE UNCHANGED vars
    BY <1>7 DEF vars, sender, receiver, TypeInv, Spaced, NextInTime, LastCheck, AliveKept
  <1> QED  BY <1>1, <1>2, <1>3, <1>4, <1>5, <1>6, <1>7 DEF Next

\* As long as both main loops run, the peer is never given up, provided that
\* interval, skew and delay together do not exceed the timeout.
THEOREM LivePeerKept == Spec => []AliveKept
  <1>1. Inv => AliveKept
    BY DEF Inv
  <1> QED  BY InitInv, NextInv, <1>1, PTL DEF Spec

\* No end waits longer than two timeouts without a keep-alive.
THEOREM DeadPeerFound == Spec => []DeadFound
  <1>1. Inv => DeadFound
    BY KeepAliveAssumption DEF Inv, TypeInv, LastCheck, DeadFound
  <1> QED  BY InitInv, NextInv, <1>1, PTL DEF Spec
=============================================================================
