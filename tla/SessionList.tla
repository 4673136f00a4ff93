---------------------------- MODULE SessionList -----------------------------
(***************************************************************************)
(* The list of sessions that share a port, C.SessionList in                *)
(* common/constant/type.go.  Each operation holds the list's mutex from    *)
(* start to end and is one operator on the sequence of list elements.      *)
(* Elements are distinct even when they stand for the same session.        *)
(***************************************************************************)
EXTENDS Integers, Sequences

PushBack(list, e) == Append(list, e)

RemoveFront(list, e) == Tail(list)    \* mutant: takes another session's element
Remove(list, e) ==
    LET at == CHOOSE i \in DOMAIN list : list[i] = e
    IN  [i \in 1..Len(list) - 1 |-> IF i < at THEN list[i] ELSE list[i + 1]]

\* RoundRobin, for a list that is not empty: the index it picks from nextIdx,
\* counted from 0, and the nextIdx it leaves behind.
PickIndexPast(list, nextIdx) ==    \* mutant: wraps one pick early
    IF nextIdx + 1 >= Len(list) THEN 0 ELSE nextIdx
PickIndex(list, nextIdx) == IF nextIdx >= Len(list) THEN 0 ELSE nextIdx
Picked(list, nextIdx) == list[PickIndex(list, nextIdx) + 1]
NextIndex(list, nextIdx) == PickIndex(list, nextIdx) + 1
=============================================================================
