----------------------------- MODULE StreamPipe -----------------------------
(***************************************************************************)
(* What a session promises the callers of its streams, multidialer.Stream  *)
(* and Session: in each direction a stream is a pipe.  What goes in comes  *)
(* out in order and once; io.EOF is the writer's Close, or the end of the  *)
(* session with nothing lost; any other error means that an endpoint of    *)
(* the session was closed.                                                 *)
(*                                                                         *)
(* Writes are numbered 1, 2, ... as in TCPMux, which implements this       *)
(* specification as long as the connection loses nothing.  A frame written *)
(* after the Close, by a Write that Close overlaps, is not among them.     *)
(***************************************************************************)
EXTENDS Integers, Sequences

VARIABLES
    sent,    \* writes so far
    fin,     \* the writer has closed the stream
    pipe,    \* what was written and is still to be read
    read,    \* the last write the reader has got
    ended,   \* the error the reader got, "none" before
    down     \* an endpoint of the session is closed

vars == <<sent, fin, pipe, read, ended, down>>

Init ==
    sent = 0 /\ ~fin /\ pipe = <<>> /\ read = 0 /\ ended = "none" /\ ~down

\* A write, before the Close takes effect; none succeeds once the reader was
\* told the end.
Write ==
    /\ ~fin
    /\ ended # "EOF"
    /\ sent' = sent + 1
    /\ pipe' = Append(pipe, sent + 1)
    /\ UNCHANGED <<fin, read, ended, down>>

Close == ~fin /\ fin' /\ UNCHANGED <<sent, pipe, read, ended, down>>

\* One Read returns the next k writes.
Read ==
    /\ ended # "EOF"
    /\ \E k \in 1..Len(pipe) :
          /\ read' = pipe[k]
          /\ pipe' = SubSeq(pipe, k + 1, Len(pipe))
    /\ UNCHANGED <<sent, fin, ended, down>>

\* Read returns an error: io.EOF after everything, the session's otherwise.
End ==
    /\ ended = "none"
    /\ \/ (fin \/ down) /\ read = sent /\ ended' = "EOF"
       \/ down /\ ended' \in {"closed", "failed"}
    /\ UNCHANGED <<sent, fin, pipe, read, down>>

GoDown == ~down /\ down' /\ UNCHANGED <<sent, fin, pipe, read, ended>>

Next == Write \/ Close \/ Read \/ End \/ GoDown

Spec == Init /\ [][Next]_vars

-----------------------------------------------------------------------------
\* What a caller may conclude from what it reads: nothing came before it that
\* it has not got, and nothing twice.
FIFO == \A i \in 1..Len(pipe) : pipe[i] = read + i
=============================================================================
