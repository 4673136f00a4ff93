----------------------------- MODULE KeepAlive -----------------------------
(***************************************************************************)
(* Keep-alives with a clock: RunControlLoop of server/control.go and of    *)
(* client/control.go, which are the same code.  One end sends a byte each  *)
(* Interval; the main loop of the other notes when it handled one (lastKA) *)
(* and its monitor looks at that each Timeout.  The two run in both        *)
(* directions, and nothing else connects the directions.                   *)
(*                                                                         *)
(* Keep-alives are handled in the order they were sent.  The one that is   *)
(* handled next was due at `due'; it has been sent if due < nextSend.      *)
(***************************************************************************)
EXTENDS Integers

CONSTANTS
    Interval,    \* KeepAliveInterval, 5 s in the code
    Timeout,     \* KeepAliveTimeout, 30 s in the code
    MaxDelay,    \* the longest from a tick of the sender to lastKA.Store: the
                 \* write, the network, the reader goroutine and the main loop
    MaxSkew,     \* how much later than the receiver the sender starts its loop
                 \* (it may start earlier, by less than an Interval)
    MaxLag,      \* how late the monitor runs after its ticker
    MaxTime      \* bound: the end of the clock

ASSUME KeepAliveAssumption ==
    /\ Interval \in Nat \ {0} /\ Timeout \in Nat \ {0}
    /\ MaxDelay \in Nat /\ MaxSkew \in Nat /\ MaxLag \in Nat /\ MaxTime \in Nat

VARIABLES
    now,
    sending,     \* the sender is there and its main loop runs
    nextSend,    \* when its keepAliveTicker fires next
    due,         \* when the first keep-alive that was not handled was due
    handling,    \* the receiver's main loop runs
    lastKA,      \* when it handled one last, or was started
    nextCheck,   \* when the monitor's ticker fires next
    cancelled    \* the monitor called CancelConnection

sender == <<sending, nextSend>>
receiver == <<due, handling, lastKA, nextCheck, cancelled>>
vars == <<now, sender, receiver>>

\* The receiver starts at 0.
Init ==
    /\ now = 0
    /\ sending = TRUE /\ nextSend \in 0..(Interval + MaxSkew) /\ due = nextSend
    /\ handling = TRUE /\ lastKA = 0
    /\ nextCheck = Timeout /\ cancelled = FALSE

-----------------------------------------------------------------------------
\* Case keepAliveTicker.C of the main loop.
SendKeepAlive ==
    /\ sending
    /\ now = nextSend
    /\ nextSend' = nextSend + Interval
    /\ UNCHANGED <<now, sending, receiver>>

\* The sender dies, or its loop returns after a failed write.
SenderStops ==
    /\ sending
    /\ sending' = FALSE
    /\ UNCHANGED <<now, nextSend, receiver>>

\* Case ActionKeepAlive.  A dead sender's last ones may still arrive, or not.
HandleKeepAlive ==
    /\ handling
    /\ due < nextSend
    /\ due' = due + Interval
    /\ lastKA' = now
    /\ UNCHANGED <<now, sender, handling, nextCheck, cancelled>>

\* The receiver's own write fails: its main loop returns, its monitor goes on.
LoopReturns ==
    /\ handling
    /\ handling' = FALSE
    /\ UNCHANGED <<now, sender, due, lastKA, nextCheck, cancelled>>

\* Case ticker.C of the monitor.
ExpiredEarly == now - lastKA >= Timeout             \* mutant: not strict
ExpiredWhole == (now - lastKA) \div Timeout > 1     \* mutant: counts whole periods
Expired == now - lastKA > Timeout

Check ==
    /\ ~cancelled
    /\ now >= nextCheck
    /\ cancelled' = Expired
    /\ nextCheck' = nextCheck + Timeout
    /\ UNCHANGED <<now, sender, due, handling, lastKA>>

\* Time passes, but not beyond what the constants promise.
Tick ==
    /\ now < MaxTime
    /\ sending => now < nextSend
    /\ sending /\ handling => now < due + MaxDelay
    /\ ~cancelled => now < nextCheck + MaxLag
    /\ now' = now + 1
    /\ UNCHANGED <<sender, receiver>>

Next ==
    \/ SendKeepAlive \/ SenderStops
    \/ HandleKeepAlive \/ LoopReturns \/ Check
    \/ Tick

Spec == Init /\ [][Next]_vars

-----------------------------------------------------------------------------
\* With these an end is never more than Timeout without a keep-alive.
InTime == Interval + MaxSkew + MaxDelay <= Timeout

\* A live peer is never given up, although interval, delay and the phase of the
\* two tickers are free.
AliveKept == InTime /\ cancelled => ~sending \/ ~handling

\* A dead peer is found within two timeouts after its last keep-alive.  It may
\* take that long: the monitor's ticks are Timeout apart and the comparison is
\* strict, so one that comes exactly Timeout after the last keep-alive passes.
DeadFound == ~cancelled => now <= lastKA + 2 * Timeout + MaxLag
=============================================================================
