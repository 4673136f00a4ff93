------------------------- MODULE TCPMuxStreamProofs -------------------------
(***************************************************************************)
(* Proofs about the streams of TCPMux: what its runs check of them on      *)
(* small instances, for all values of the constants.                       *)
(*                                                                         *)
(* The claims are about what a reader has been handed, and none of them is *)
(* inductive: whether a frame may be handed over depends on the frames     *)
(* before it on the connection, and whether the read loop may make a       *)
(* stream depends on what the peer has written, closed and been handed.    *)
(* The invariant MuxInv speaks of endpoint e and ID id through             *)
(*   Origin(e, id)  the first stream object e made under id                *)
(*   State(e, id)   its state, as new if there is none                     *)
(*   Line(e)        the frames from e that its peer has not dispatched     *)
(*   Handed(e, id)  the frames of id that e has been handed, read or not.  *)
(* Its core is Dir(e, id), for the direction that e writes: of the frames  *)
(* of id that are not late, Line(e) holds those between what the peer has  *)
(* been handed and what e has written, in order and without a gap, the     *)
(* zero-length frame last; all of them while the connection lasts.  A late *)
(* frame comes behind the zero-length one.  So it meets a map that has     *)
(* forgotten its stream (Gone): it makes a ghost, and goes past the        *)
(* origin.  Around it: only late frames make ghosts (GhostInv), a reader   *)
(* that was told io.EOF is out of the map or its session read its          *)
(* connection to the end (ObjectInv, SessionEOF), and an object that is    *)
(* neither in the map nor without an error does not exist (InMapOrEnded),  *)
(* because OpenStream takes an ID that was not taken (IDsTaken).           *)
(*                                                                         *)
(* Callers may close a stream in the middle of its Write, and sessions may *)
(* close and connections break at any time.  The one hypothesis is NoWrap: *)
(* the 32-bit ID counter does not go around.                               *)
(*                                                                         *)
(* The proof says what a step does to the objects (ObjectsStep), then to   *)
(* the maps, and then to a direction: one lemma for each kind of step      *)
(* (NextKinds), and Dir(e, id) changes only where both the end and the ID  *)
(* are the step's own (DirQuiet, WriteElsewhere, DispatchElsewhere).       *)
(***************************************************************************)
EXTENDS TCPMuxProofs, NaturalsInduction, WellFoundedInduction

-----------------------------------------------------------------------------
(* One direction of one stream.  L is the line from a writer to a reader,  *)
(* id the stream, P the frames its reader has been handed, S the frames    *)
(* its writer has written.                                                 *)

\* A frame of the stream, one of those that followed its zero-length frame.
Mine(g, id) == g.id = id /\ ~g.late
Late(g, id) == g.id = id /\ g.late


HasZero(L, id) == \E i \in 1..Len(L) : Mine(L[i], id) /\ L[i].n = 0
None(L, id) == \A i \in 1..Len(L) : ~Mine(L[i], id)

\* Data comes in the order of its positions, and nothing after the zero-length frame.
Ordered(L, id) ==
    \A i, j \in 1..Len(L) :
        i < j /\ Mine(L[i], id) /\ Mine(L[j], id)
            => L[i].n > 0 /\ (L[j].n = 0 \/ L[i].n < L[j].n)

\* What is on its way was written, and has not been handed over.
Within(L, id, P, S) ==
    \A i \in 1..Len(L) : Mine(L[i], id) => L[i].n <= S /\ (L[i].n > 0 => L[i].n > P)

\* Before a frame comes the one written before it.
NoGap(L, id, P) ==
    \A i \in 1..Len(L) : Mine(L[i], id) /\ L[i].n > P + 1 =>
        \E j \in 1..Len(L) : j < i /\ Mine(L[j], id) /\ L[j].n = L[i].n - 1

\* Before the zero-length frame comes everything written.
ZeroLast(L, id, P, S) ==
    \A i \in 1..Len(L) : Mine(L[i], id) /\ L[i].n = 0 =>
        \A n \in (P + 1)..S : \E j \in 1..Len(L) : j < i /\ Mine(L[j], id) /\ L[j].n = n

Link(L, id, P, S) ==
    P <= S /\ Ordered(L, id) /\ Within(L, id, P, S) /\ NoGap(L, id, P) /\ ZeroLast(L, id, P, S)

\* Everything written is handed over or on its way.
Complete(L, id, P, S) ==
    \A n \in (P + 1)..S : \E j \in 1..Len(L) : Mine(L[j], id) /\ L[j].n = n

LEMMA AppendFacts ==
    ASSUME NEW L \in Seq(Frame), NEW g \in Frame
    PROVE  /\ Append(L, g) \in Seq(Frame)
           /\ Len(L) \in Nat /\ Len(Append(L, g)) = Len(L) + 1
           /\ \A i \in 1..Len(L) : Append(L, g)[i] = L[i] /\ L[i].n \in Nat
           /\ Append(L, g)[Len(L) + 1] = g /\ g.n \in Nat
<1>1. /\ Append(L, g) \in Seq(Frame) /\ Len(L) \in Nat
      /\ Len(Append(L, g)) = Len(L) + 1 /\ \A i \in 1..Len(L) : Append(L, g)[i] = L[i]
      /\ Append(L, g)[Len(L) + 1] = g
      OBVIOUS
<1>2. \A h \in Frame : h.n \in Nat
      BY Bounds DEF Frame
<1>3. \A i \in 1..Len(L) : L[i] \in Frame
      OBVIOUS
<1> QED BY <1>1, <1>2, <1>3

\* A data frame of the stream follows all the others.
LEMMA AppendData ==
    ASSUME NEW L \in Seq(Frame), NEW g \in Frame, NEW id, NEW P \in Nat, NEW S \in Nat,
           Link(L, id, P, S), Complete(L, id, P, S), ~HasZero(L, id),
           Mine(g, id), g.n = S + 1
    PROVE  /\ Link(Append(L, g), id, P, S + 1) /\ Complete(Append(L, g), id, P, S + 1)
           /\ ~HasZero(Append(L, g), id)
<1> DEFINE A == Append(L, g)
           m == Len(L)
<1>1. /\ m \in Nat /\ Len(A) = m + 1 /\ A[m + 1] = g
      /\ \A i \in 1..m : A[i] = L[i] /\ L[i].n \in Nat
      BY AppendFacts
<1>2. \A i \in 1..(m + 1) : i \in 1..m \/ i = m + 1
      BY <1>1
<1> HIDE DEF A
<1>3. ~HasZero(A, id)
      BY <1>1, <1>2 DEF HasZero
<1>4. P <= S + 1
      BY DEF Link
<1>5. Ordered(A, id)
  <2> SUFFICES ASSUME NEW i \in 1..(m + 1), NEW j \in 1..(m + 1),
                      i < j, Mine(A[i], id), Mine(A[j], id)
               PROVE  A[i].n > 0 /\ (A[j].n = 0 \/ A[i].n < A[j].n)
      BY <1>1 DEF Ordered
  <2>1. i \in 1..m
        BY <1>1
  <2>2. CASE j \in 1..m
        BY <1>1, <2>1, <2>2 DEF Link, Ordered
  <2>3. CASE j = m + 1
    <3>1. A[i] = L[i] /\ L[i].n \in Nat /\ L[i].n # 0 /\ L[i].n <= S
          BY <1>1, <2>1 DEF HasZero, Link, Within
    <3> QED BY <1>1, <2>3, <3>1
  <2> QED BY <1>2, <2>2, <2>3
<1>6. Within(A, id, P, S + 1)
      BY <1>1, <1>2 DEF Within, Link
<1>7. Complete(A, id, P, S + 1)
  <2> SUFFICES ASSUME NEW n \in (P + 1)..(S + 1)
               PROVE  \E j \in 1..(m + 1) : Mine(A[j], id) /\ A[j].n = n
      BY <1>1 DEF Complete
  <2>1. CASE n = S + 1
        BY <1>1, <2>1
  <2>2. CASE n \in (P + 1)..S
    <3>1. PICK j \in 1..m : Mine(L[j], id) /\ L[j].n = n
          BY <2>2 DEF Complete
    <3> QED BY <1>1, <3>1
  <2> QED BY <2>1, <2>2
<1>8. NoGap(A, id, P)
  <2> SUFFICES ASSUME NEW i \in 1..(m + 1), Mine(A[i], id), A[i].n > P + 1
               PROVE  \E j \in 1..(m + 1) : j < i /\ Mine(A[j], id) /\ A[j].n = A[i].n - 1
      BY <1>1 DEF NoGap
  <2>1. CASE i \in 1..m
    <3>1. PICK j \in 1..m : j < i /\ Mine(L[j], id) /\ L[j].n = L[i].n - 1
          BY <1>1, <2>1 DEF Link, NoGap
    <3> QED BY <1>1, <2>1, <3>1
  <2>2. CASE i = m + 1
    <3>1. A[i].n = S + 1 /\ S \in (P + 1)..S
          BY <1>1, <2>2
    <3>2. PICK j \in 1..m : Mine(L[j], id) /\ L[j].n = S
          BY <3>1 DEF Complete
    <3>3. j \in 1..(m + 1) /\ j < i /\ A[j].n = S /\ S = (S + 1) - 1 /\ Mine(A[j], id)
          BY <1>1, <2>2, <3>2
    <3> QED BY <3>1, <3>3
  <2> QED BY <1>2, <2>1, <2>2
<1>9. ZeroLast(A, id, P, S + 1)
      BY <1>3 DEF ZeroLast, HasZero
<1> QED BY <1>3, <1>4, <1>5, <1>6, <1>7, <1>8, <1>9 DEF Link, A

\* The zero-length frame follows all the others.
LEMMA AppendZero ==
    ASSUME NEW L \in Seq(Frame), NEW g \in Frame, NEW id, NEW P \in Nat, NEW S \in Nat,
           Link(L, id, P, S), Complete(L, id, P, S), ~HasZero(L, id),
           Mine(g, id), g.n = 0
    PROVE  /\ Link(Append(L, g), id, P, S) /\ Complete(Append(L, g), id, P, S)
           /\ HasZero(Append(L, g), id)
<1> DEFINE A == Append(L, g)
           m == Len(L)
<1>1. /\ m \in Nat /\ Len(A) = m + 1 /\ A[m + 1] = g
      /\ \A i \in 1..m : A[i] = L[i] /\ L[i].n \in Nat
      BY AppendFacts
<1>2. \A i \in 1..(m + 1) : i \in 1..m \/ i = m + 1
      BY <1>1
<1> HIDE DEF A
<1>3. HasZero(A, id)
      BY <1>1 DEF HasZero
<1>4. P <= S
      BY DEF Link
<1>5. Ordered(A, id)
  <2> SUFFICES ASSUME NEW i \in 1..(m + 1), NEW j \in 1..(m + 1),
                      i < j, Mine(A[i], id), Mine(A[j], id)
               PROVE  A[i].n > 0 /\ (A[j].n = 0 \/ A[i].n < A[j].n)
      BY <1>1 DEF Ordered
  <2>1. i \in 1..m
        BY <1>1
  <2>2. CASE j \in 1..m
        BY <1>1, <2>1, <2>2 DEF Link, Ordered
  <2>3. CASE j = m + 1
        BY <1>1, <2>1, <2>3 DEF HasZero
  <2> QED BY <1>2, <2>2, <2>3
<1>6. Within(A, id, P, S)
      BY <1>1, <1>2 DEF Within, Link
<1>7. Complete(A, id, P, S)
      BY <1>1 DEF Complete
<1>8. NoGap(A, id, P)
  <2> SUFFICES ASSUME NEW i \in 1..(m + 1), Mine(A[i], id), A[i].n > P + 1
               PROVE  \E j \in 1..(m + 1) : j < i /\ Mine(A[j], id) /\ A[j].n = A[i].n - 1
      BY <1>1 DEF NoGap
  <2>1. i \in 1..m
        BY <1>1, <1>2
  <2>2. PICK j \in 1..m : j < i /\ Mine(L[j], id) /\ L[j].n = L[i].n - 1
        BY <1>1, <2>1 DEF Link, NoGap
  <2> QED BY <1>1, <2>1, <2>2
<1>9. ZeroLast(A, id, P, S)
  <2> SUFFICES ASSUME NEW i \in 1..(m + 1), Mine(A[i], id), A[i].n = 0, NEW n \in (P + 1)..S
               PROVE  \E j \in 1..(m + 1) : j < i /\ Mine(A[j], id) /\ A[j].n = n
      BY <1>1 DEF ZeroLast
  <2>1. i = m + 1
        BY <1>1, <1>2 DEF HasZero
  <2>2. PICK j \in 1..m : Mine(L[j], id) /\ L[j].n = n
        BY DEF Complete
  <2> QED BY <1>1, <2>1, <2>2
<1> QED BY <1>3, <1>4, <1>5, <1>6, <1>7, <1>8, <1>9 DEF Link, A

\* A frame of another stream changes nothing.
LEMMA AppendOther ==
    ASSUME NEW L \in Seq(Frame), NEW g \in Frame, NEW id, NEW P \in Nat, NEW S \in Nat,
           Link(L, id, P, S), ~Mine(g, id)
    PROVE  /\ Link(Append(L, g), id, P, S)
           /\ Complete(L, id, P, S) => Complete(Append(L, g), id, P, S)
           /\ HasZero(Append(L, g), id) <=> HasZero(L, id)
           /\ None(L, id) => None(Append(L, g), id)
<1> DEFINE A == Append(L, g)
           m == Len(L)
<1>1. /\ m \in Nat /\ Len(A) = m + 1 /\ A[m + 1] = g
      /\ \A i \in 1..m : A[i] = L[i] /\ L[i].n \in Nat
      BY AppendFacts
<1>2. /\ \A i \in 1..(m + 1) : Mine(A[i], id) => i \in 1..m
      /\ \A i \in 1..m : i \in 1..(m + 1)
      BY <1>1
<1> HIDE DEF A
<1>3. HasZero(A, id) <=> HasZero(L, id)
      BY <1>1, <1>2 DEF HasZero
<1>4. None(L, id) => None(A, id)
      BY <1>1, <1>2 DEF None
<1>5. Ordered(A, id)
      BY <1>1, <1>2 DEF Ordered, Link
<1>6. Within(A, id, P, S)
      BY <1>1, <1>2 DEF Within, Link
<1>7. Complete(L, id, P, S) => Complete(A, id, P, S)
  <2> SUFFICES ASSUME Complete(L, id, P, S), NEW n \in (P + 1)..S
               PROVE  \E j \in 1..(m + 1) : Mine(A[j], id) /\ A[j].n = n
      BY <1>1 DEF Complete
  <2>1. PICK j \in 1..m : Mine(L[j], id) /\ L[j].n = n
        BY DEF Complete
  <2> QED BY <1>1, <1>2, <2>1
<1>8. NoGap(A, id, P)
  <2> SUFFICES ASSUME NEW i \in 1..(m + 1), Mine(A[i], id), A[i].n > P + 1
               PROVE  \E j \in 1..(m + 1) : j < i /\ Mine(A[j], id) /\ A[j].n = A[i].n - 1
      BY <1>1 DEF NoGap
  <2>1. PICK j \in 1..m : j < i /\ Mine(L[j], id) /\ L[j].n = L[i].n - 1
        BY <1>1, <1>2 DEF Link, NoGap
  <2> QED BY <1>1, <1>2, <2>1
<1>9. ZeroLast(A, id, P, S)
  <2> SUFFICES ASSUME NEW i \in 1..(m + 1), Mine(A[i], id), A[i].n = 0, NEW n \in (P + 1)..S
               PROVE  \E j \in 1..(m + 1) : j < i /\ Mine(A[j], id) /\ A[j].n = n
      BY <1>1 DEF ZeroLast
  <2>1. PICK j \in 1..m : j < i /\ Mine(L[j], id) /\ L[j].n = n
        BY <1>1, <1>2 DEF Link, ZeroLast
  <2> QED BY <1>1, <1>2, <2>1
<1> QED BY <1>3, <1>4, <1>5, <1>6, <1>7, <1>8, <1>9 DEF Link, A

\* A frame that is written and lost at once leaves the line as it was.
LEMMA SentLost ==
    ASSUME NEW L \in Seq(Frame), NEW id, NEW P \in Nat, NEW S \in Nat,
           Link(L, id, P, S), ~HasZero(L, id)
    PROVE  Link(L, id, P, S + 1)
<1>1. \A i \in 1..Len(L) : L[i].n \in Nat
  <2>1. \A h \in Frame : h.n \in Nat
        BY Bounds DEF Frame
  <2> QED BY <2>1
<1>2. P <= S + 1 /\ Within(L, id, P, S + 1)
      BY <1>1 DEF Link, Within
<1>3. ZeroLast(L, id, P, S + 1)
      BY DEF ZeroLast, HasZero
<1> QED BY <1>2, <1>3 DEF Link

LEMMA TailFacts ==
    ASSUME NEW L \in Seq(Frame), L # <<>>
    PROVE  /\ Tail(L) \in Seq(Frame) /\ Len(L) \in Nat /\ Len(L) >= 1
           /\ Len(Tail(L)) = Len(L) - 1
           /\ \A i \in 1..(Len(L) - 1) : Tail(L)[i] = L[i + 1]
           /\ \A i \in 1..Len(L) : L[i].n \in Nat
           /\ Head(L) = L[1]
<1>1. /\ Tail(L) \in Seq(Frame) /\ Len(L) \in Nat /\ Len(L) >= 1
      /\ Len(Tail(L)) = Len(L) - 1 /\ Head(L) = L[1]
      /\ \A i \in 1..(Len(L) - 1) : Tail(L)[i] = L[i + 1]
      OBVIOUS
<1>2. \A h \in Frame : h.n \in Nat
      BY Bounds DEF Frame
<1> QED BY <1>1, <1>2

\* The reader takes data: it is the next frame, and the rest follows it.
LEMMA TailData ==
    ASSUME NEW L \in Seq(Frame), L # <<>>, NEW id, NEW P \in Nat, NEW S \in Nat,
           Link(L, id, P, S), Mine(Head(L), id), Head(L).n # 0
    PROVE  /\ Head(L).n = P + 1
           /\ Link(Tail(L), id, P + 1, S)
           /\ Complete(L, id, P, S) => Complete(Tail(L), id, P + 1, S)
           /\ HasZero(Tail(L), id) <=> HasZero(L, id)
<1> DEFINE T == Tail(L)
           m == Len(L)
<1>1. /\ m \in Nat /\ m >= 1 /\ Len(T) = m - 1 /\ Head(L) = L[1]
      /\ \A i \in 1..(m - 1) : T[i] = L[i + 1]
      /\ \A i \in 1..m : L[i].n \in Nat
      BY TailFacts
<1> HIDE DEF T
<1>2. L[1].n = P + 1
  <2>1. ~ L[1].n > P + 1
        BY <1>1 DEF Link, NoGap
  <2>2. L[1].n > P
        BY <1>1 DEF Link, Within
  <2> QED BY <1>1, <2>1, <2>2
<1>3. \A i \in 2..m : Mine(L[i], id) => L[i].n = 0 \/ L[i].n > P + 1
      BY <1>1, <1>2 DEF Link, Ordered
<1>4. /\ \A i \in 1..(m - 1) : i + 1 \in 2..m /\ i + 1 \in 1..m
      /\ \A i \in 2..m : i - 1 \in 1..(m - 1) /\ T[i - 1] = L[i]
      /\ \A i \in 1..m : i = 1 \/ i \in 2..m
      BY <1>1
<1>5. P + 1 <= S
      BY <1>1, <1>2 DEF Link, Within
<1>6. HasZero(T, id) <=> HasZero(L, id)
  <2>1. ASSUME NEW i \in 1..m, Mine(L[i], id), L[i].n = 0 PROVE HasZero(T, id)
    <3>1. i \in 2..m
          BY <1>2, <1>4, <2>1
    <3> QED BY <1>1, <1>4, <2>1, <3>1 DEF HasZero
  <2>2. ASSUME NEW i \in 1..(m - 1), Mine(T[i], id), T[i].n = 0 PROVE HasZero(L, id)
        BY <1>1, <1>4, <2>2 DEF HasZero
  <2> QED BY <1>1, <2>1, <2>2 DEF HasZero
<1>7. Ordered(T, id)
  <2> SUFFICES ASSUME NEW i \in 1..(m - 1), NEW j \in 1..(m - 1),
                      i < j, Mine(T[i], id), Mine(T[j], id)
               PROVE  T[i].n > 0 /\ (T[j].n = 0 \/ T[i].n < T[j].n)
      BY <1>1 DEF Ordered
  <2>1. i + 1 < j + 1 /\ i + 1 \in 1..m /\ j + 1 \in 1..m
        BY <1>1
  <2> QED BY <1>1, <2>1 DEF Link, Ordered
<1>8. Within(T, id, P + 1, S)
  <2> SUFFICES ASSUME NEW i \in 1..(m - 1), Mine(T[i], id)
               PROVE  T[i].n <= S /\ (T[i].n > 0 => T[i].n > P + 1)
      BY <1>1 DEF Within
  <2>1. T[i] = L[i + 1] /\ i + 1 \in 2..m /\ i + 1 \in 1..m
        BY <1>1, <1>4
  <2>2. L[i + 1].n <= S
        BY <2>1 DEF Link, Within
  <2>3. L[i + 1].n = 0 \/ L[i + 1].n > P + 1
        BY <1>3, <2>1
  <2> QED BY <2>1, <2>2, <2>3
<1>9. NoGap(T, id, P + 1)
  <2> SUFFICES ASSUME NEW i \in 1..(m - 1), Mine(T[i], id), T[i].n > P + 2
               PROVE  \E j \in 1..(m - 1) : j < i /\ Mine(T[j], id) /\ T[j].n = T[i].n - 1
      BY <1>1 DEF NoGap
  <2>1. T[i] = L[i + 1] /\ i + 1 \in 1..m /\ L[i + 1].n \in Nat
        BY <1>1, <1>4
  <2>2. PICK j \in 1..m : j < i + 1 /\ Mine(L[j], id) /\ L[j].n = L[i + 1].n - 1
        BY <2>1 DEF Link, NoGap
  <2>3. j # 1
        BY <1>2, <2>1, <2>2
  <2>4. j - 1 \in 1..(m - 1) /\ j - 1 < i /\ T[j - 1] = L[j]
        BY <1>4, <2>2, <2>3
  <2> QED BY <2>1, <2>2, <2>4
<1>10. ZeroLast(T, id, P + 1, S)
  <2> SUFFICES ASSUME NEW i \in 1..Len(T), Mine(T[i], id), T[i].n = 0, NEW n \in (P + 1 + 1)..S
               PROVE  \E j \in 1..Len(T) : j < i /\ Mine(T[j], id) /\ T[j].n = n
      BY DEF ZeroLast
  <2> i \in 1..(m - 1)
      BY <1>1
  <2>1. T[i] = L[i + 1] /\ i + 1 \in 1..m /\ n \in (P + 1)..S
        BY <1>1, <1>4
  <2>2. PICK j \in 1..m : j < i + 1 /\ Mine(L[j], id) /\ L[j].n = n
        BY <2>1 DEF Link, ZeroLast
  <2>3. j # 1
        BY <1>2, <2>2
  <2>4. j - 1 \in 1..(m - 1) /\ j - 1 < i /\ T[j - 1] = L[j]
        BY <1>4, <2>2, <2>3
  <2> QED BY <1>1, <2>2, <2>4
<1>11. Complete(L, id, P, S) => Complete(T, id, P + 1, S)
  <2> SUFFICES ASSUME Complete(L, id, P, S), NEW n \in (P + 1 + 1)..S
               PROVE  \E j \in 1..(m - 1) : Mine(T[j], id) /\ T[j].n = n
      BY <1>1 DEF Complete
  <2>1. n \in (P + 1)..S
        OBVIOUS
  <2>2. PICK j \in 1..m : Mine(L[j], id) /\ L[j].n = n
        BY <2>1 DEF Complete
  <2>3. j # 1
        BY <1>2, <2>2
  <2>4. j - 1 \in 1..(m - 1) /\ T[j - 1] = L[j]
        BY <1>4, <2>2, <2>3
  <2> QED BY <2>2, <2>4
<1> QED BY <1>1, <1>2, <1>5, <1>6, <1>7, <1>8, <1>9, <1>10, <1>11 DEF Link, T

\* The reader takes the zero-length frame: it has everything, and nothing follows.
LEMMA TailZero ==
    ASSUME NEW L \in Seq(Frame), L # <<>>, NEW id, NEW P \in Nat, NEW S \in Nat,
           Link(L, id, P, S), Mine(Head(L), id), Head(L).n = 0
    PROVE  P = S /\ HasZero(L, id) /\ None(Tail(L), id)
<1>1. /\ Len(L) \in Nat /\ Len(L) >= 1 /\ Len(Tail(L)) = Len(L) - 1 /\ Head(L) = L[1]
      /\ \A i \in 1..(Len(L) - 1) : Tail(L)[i] = L[i + 1]
      BY TailFacts
<1>2. ~ P < S
  <2> SUFFICES ASSUME P < S PROVE FALSE
      OBVIOUS
  <2>1. P + 1 \in (P + 1)..S /\ 1 \in 1..Len(L)
        BY <1>1
  <2>2. PICK j \in 1..Len(L) : j < 1
        BY <1>1, <2>1 DEF Link, ZeroLast
  <2> QED BY <2>2
<1>3. ASSUME NEW i \in 1..(Len(L) - 1), Mine(Tail(L)[i], id) PROVE FALSE
  <2>1. 1 \in 1..Len(L) /\ i + 1 \in 1..Len(L) /\ 1 < i + 1 /\ Mine(L[i + 1], id)
        BY <1>1, <1>3
  <2>2. L[1].n > 0
        BY <1>1, <2>1 DEF Link, Ordered
  <2> QED BY <1>1, <2>2
<1> QED BY <1>1, <1>2, <1>3 DEF None, HasZero, Link

\* A frame of another stream goes first.
LEMMA TailOther ==
    ASSUME NEW L \in Seq(Frame), L # <<>>, NEW id, NEW P \in Nat, NEW S \in Nat,
           Link(L, id, P, S), ~Mine(Head(L), id)
    PROVE  /\ Link(Tail(L), id, P, S)
           /\ Complete(L, id, P, S) => Complete(Tail(L), id, P, S)
           /\ HasZero(Tail(L), id) <=> HasZero(L, id)
           /\ None(L, id) => None(Tail(L), id)
<1> DEFINE T == Tail(L)
           m == Len(L)
<1>1. /\ m \in Nat /\ m >= 1 /\ Len(T) = m - 1 /\ ~Mine(L[1], id)
      /\ \A i \in 1..(m - 1) : T[i] = L[i + 1]
      BY TailFacts
<1> HIDE DEF T
<1>2. /\ \A i \in 1..(m - 1) : i + 1 \in 1..m /\ T[i] = L[i + 1]
      /\ \A j \in 1..m : Mine(L[j], id) => j - 1 \in 1..(m - 1) /\ T[j - 1] = L[j]
      BY <1>1
<1>3. HasZero(T, id) <=> HasZero(L, id)
      BY <1>1, <1>2 DEF HasZero
<1>4. None(L, id) => None(T, id)
      BY <1>1, <1>2 DEF None
<1>5. Ordered(T, id)
  <2> SUFFICES ASSUME NEW i \in 1..(m - 1), NEW j \in 1..(m - 1),
                      i < j, Mine(T[i], id), Mine(T[j], id)
               PROVE  T[i].n > 0 /\ (T[j].n = 0 \/ T[i].n < T[j].n)
      BY <1>1 DEF Ordered
  <2>1. i + 1 < j + 1 /\ i + 1 \in 1..m /\ j + 1 \in 1..m
        BY <1>1
  <2> QED BY <1>1, <2>1 DEF Link, Ordered
<1>6. Within(T, id, P, S)
      BY <1>1, <1>2 DEF Within, Link
<1>7. NoGap(T, id, P)
  <2> SUFFICES ASSUME NEW i \in 1..(m - 1), Mine(T[i], id), T[i].n > P + 1
               PROVE  \E j \in 1..(m - 1) : j < i /\ Mine(T[j], id) /\ T[j].n = T[i].n - 1
      BY <1>1 DEF NoGap
  <2>1. T[i] = L[i + 1] /\ i + 1 \in 1..m
        BY <1>2
  <2>2. PICK j \in 1..m : j < i + 1 /\ Mine(L[j], id) /\ L[j].n = L[i + 1].n - 1
        BY <2>1 DEF Link, NoGap
  <2>3. j - 1 \in 1..(m - 1) /\ j - 1 < i /\ T[j - 1] = L[j]
        BY <1>2, <2>2
  <2> QED BY <2>1, <2>2, <2>3
<1>8. ZeroLast(T, id, P, S)
  <2> SUFFICES ASSUME NEW i \in 1..Len(T), Mine(T[i], id), T[i].n = 0, NEW n \in (P + 1)..S
               PROVE  \E j \in 1..Len(T) : j < i /\ Mine(T[j], id) /\ T[j].n = n
      BY DEF ZeroLast
  <2> i \in 1..(m - 1)
      BY <1>1
  <2>1. T[i] = L[i + 1] /\ i + 1 \in 1..m
        BY <1>2
  <2>2. PICK j \in 1..m : j < i + 1 /\ Mine(L[j], id) /\ L[j].n = n
        BY <2>1 DEF Link, ZeroLast
  <2>3. j - 1 \in 1..(m - 1) /\ j - 1 < i /\ T[j - 1] = L[j]
        BY <1>2, <2>2
  <2> QED BY <1>1, <2>2, <2>3
<1>9. Complete(L, id, P, S) => Complete(T, id, P, S)
  <2> SUFFICES ASSUME Complete(L, id, P, S), NEW n \in (P + 1)..S
               PROVE  \E j \in 1..(m - 1) : Mine(T[j], id) /\ T[j].n = n
      BY <1>1 DEF Complete
  <2>1. PICK j \in 1..m : Mine(L[j], id) /\ L[j].n = n
        BY DEF Complete
  <2>2. j - 1 \in 1..(m - 1) /\ T[j - 1] = L[j]
        BY <1>2, <2>1
  <2> QED BY <2>1, <2>2
<1> QED BY <1>3, <1>4, <1>5, <1>6, <1>7, <1>8, <1>9 DEF Link, T

\* The connection loses the end of the line.
LEMMA LineCut ==
    ASSUME NEW L \in Seq(Frame), NEW k \in 0..Len(L), NEW K, K = SubSeq(L, 1, k),
           NEW id, NEW P \in Nat, NEW S \in Nat, Link(L, id, P, S)
    PROVE  /\ Link(K, id, P, S)
           /\ HasZero(K, id) => HasZero(L, id)
           /\ None(L, id) => None(K, id)
<1>1. Len(L) \in Nat /\ Len(K) = k /\ \A i \in 1..k : K[i] = L[i] /\ i \in 1..Len(L)
      OBVIOUS
<1>2. (HasZero(K, id) => HasZero(L, id)) /\ (None(L, id) => None(K, id))
      BY <1>1 DEF HasZero, None
<1>3. Ordered(K, id)
      BY <1>1 DEF Link, Ordered
<1>4. Within(K, id, P, S)
      BY <1>1 DEF Link, Within
<1>5. NoGap(K, id, P)
  <2> SUFFICES ASSUME NEW i \in 1..k, Mine(K[i], id), K[i].n > P + 1
               PROVE  \E j \in 1..k : j < i /\ Mine(K[j], id) /\ K[j].n = K[i].n - 1
      BY <1>1 DEF NoGap
  <2>1. PICK j \in 1..Len(L) : j < i /\ Mine(L[j], id) /\ L[j].n = L[i].n - 1
        BY <1>1 DEF Link, NoGap
  <2>2. j \in 1..k
        BY <1>1, <2>1
  <2> QED BY <1>1, <2>1, <2>2
<1>6. ZeroLast(K, id, P, S)
  <2> SUFFICES ASSUME NEW i \in 1..k, Mine(K[i], id), K[i].n = 0, NEW n \in (P + 1)..S
               PROVE  \E j \in 1..k : j < i /\ Mine(K[j], id) /\ K[j].n = n
      BY <1>1 DEF ZeroLast
  <2>1. PICK j \in 1..Len(L) : j < i /\ Mine(L[j], id) /\ L[j].n = n
        BY <1>1 DEF Link, ZeroLast
  <2>2. j \in 1..k
        BY <1>1, <2>1
  <2> QED BY <1>1, <2>1, <2>2
<1> QED BY <1>2, <1>3, <1>4, <1>5, <1>6 DEF Link


(* The frames that follow the zero-length frame of their stream.           *)

HasLate(L, id) == \E i \in 1..Len(L) : Late(L[i], id)

\* Before a late frame comes the zero-length one.
LateAfter(L, id) ==
    \A i \in 1..Len(L) : Late(L[i], id) =>
        \E j \in 1..Len(L) : j < i /\ Mine(L[j], id) /\ L[j].n = 0

LEMMA AppendLate ==
    ASSUME NEW L \in Seq(Frame), NEW g \in Frame, NEW id
    PROVE  /\ HasLate(Append(L, g), id) => HasLate(L, id) \/ Late(g, id)
           /\ LateAfter(L, id) /\ (Late(g, id) => HasZero(L, id)) => LateAfter(Append(L, g), id)
<1> DEFINE A == Append(L, g)
           m == Len(L)
<1>1. /\ m \in Nat /\ Len(A) = m + 1 /\ A[m + 1] = g
      /\ \A i \in 1..m : A[i] = L[i]
      BY AppendFacts
<1>2. \A i \in 1..(m + 1) : i \in 1..m \/ i = m + 1
      BY <1>1
<1> HIDE DEF A
<1>3. HasLate(A, id) => HasLate(L, id) \/ Late(g, id)
      BY <1>1, <1>2 DEF HasLate
<1>4. ASSUME LateAfter(L, id), Late(g, id) => HasZero(L, id),
             NEW i \in 1..(m + 1), Late(A[i], id)
      PROVE  \E j \in 1..(m + 1) : j < i /\ Mine(A[j], id) /\ A[j].n = 0
  <2>1. \E j \in 1..m : j < i /\ Mine(L[j], id) /\ L[j].n = 0
    <3>1. CASE i \in 1..m
          BY <1>1, <1>4, <3>1 DEF LateAfter
    <3>2. CASE i = m + 1
          BY <1>1, <1>4, <3>2 DEF HasZero
    <3> QED BY <1>2, <3>1, <3>2
  <2> QED BY <1>1, <2>1
<1> QED BY <1>1, <1>3, <1>4 DEF LateAfter, A

LEMMA TailLate ==
    ASSUME NEW L \in Seq(Frame), L # <<>>, NEW id
    PROVE  /\ HasLate(Tail(L), id) => HasLate(L, id)
           /\ LateAfter(L, id) => ~Late(Head(L), id)
           /\ LateAfter(L, id) /\ ~(Mine(Head(L), id) /\ Head(L).n = 0) => LateAfter(Tail(L), id)
<1> DEFINE T == Tail(L)
           m == Len(L)
<1>1. /\ m \in Nat /\ m >= 1 /\ Len(T) = m - 1 /\ Head(L) = L[1]
      /\ \A i \in 1..(m - 1) : T[i] = L[i + 1]
      BY TailFacts
<1> HIDE DEF T
<1>2. /\ \A i \in 1..(m - 1) : i + 1 \in 1..m
      /\ \A i \in 1..m : i # 1 => i - 1 \in 1..(m - 1) /\ T[i - 1] = L[i]
      BY <1>1
<1>3. HasLate(T, id) => HasLate(L, id)
      BY <1>1, <1>2 DEF HasLate
<1>4. LateAfter(L, id) => ~Late(Head(L), id)
  <2> SUFFICES ASSUME LateAfter(L, id), Late(L[1], id) PROVE FALSE
      BY <1>1
  <2>1. PICK j \in 1..m : j < 1
        BY <1>1 DEF LateAfter
  <2> QED BY <2>1
<1>5. ASSUME LateAfter(L, id), ~(Mine(L[1], id) /\ L[1].n = 0),
             NEW i \in 1..(m - 1), Late(T[i], id)
      PROVE  \E j \in 1..(m - 1) : j < i /\ Mine(T[j], id) /\ T[j].n = 0
  <2>1. i + 1 \in 1..m /\ Late(L[i + 1], id)
        BY <1>1, <1>2, <1>5
  <2>2. PICK j \in 1..m : j < i + 1 /\ Mine(L[j], id) /\ L[j].n = 0
        BY <1>5, <2>1 DEF LateAfter
  <2>3. j # 1
        BY <1>5, <2>2
  <2>4. j - 1 \in 1..(m - 1) /\ T[j - 1] = L[j] /\ j - 1 < i
        BY <1>2, <2>2, <2>3
  <2> QED BY <2>2, <2>4
<1> QED BY <1>1, <1>3, <1>4, <1>5 DEF LateAfter, T

LEMMA CutLate ==
    ASSUME NEW L \in Seq(Frame), NEW k \in 0..Len(L), NEW K, K = SubSeq(L, 1, k), NEW id
    PROVE  /\ HasLate(K, id) => HasLate(L, id)
           /\ LateAfter(L, id) => LateAfter(K, id)
<1>1. Len(L) \in Nat /\ Len(K) = k /\ \A i \in 1..k : K[i] = L[i] /\ i \in 1..Len(L)
      OBVIOUS
<1>2. HasLate(K, id) => HasLate(L, id)
      BY <1>1 DEF HasLate
<1>3. ASSUME LateAfter(L, id), NEW i \in 1..k, Late(K[i], id)
      PROVE  \E j \in 1..k : j < i /\ Mine(K[j], id) /\ K[j].n = 0
  <2>1. PICK j \in 1..Len(L) : j < i /\ Mine(L[j], id) /\ L[j].n = 0
        BY <1>1, <1>3 DEF LateAfter
  <2>2. j \in 1..k
        BY <1>1, <2>1
  <2> QED BY <1>1, <2>1, <2>2
<1> QED BY <1>1, <1>2, <1>3 DEF LateAfter

-----------------------------------------------------------------------------
(* Objects, the origin among those of an ID, and the lines between the     *)
(* endpoints.                                                              *)

LEMMA EndsFacts ==
    /\ \A e \in Ends : Other(e) \in Ends /\ Other(e) # e /\ Other(Other(e)) = e
    /\ \A e, f \in Ends : f = e \/ f = Other(e)
BY DEF Ends, Other

\* The map's NoStream is no object.
LEMMA NotNoStream == NoStream \notin Stream
<1>1. "none" \notin Ends
      BY DEF Ends
<1> QED BY <1>1 DEF NoStream, Stream

\* The objects made are objects, and the types say what they hold.
LEMMA MadeFacts ==
    ASSUME TypeInv, NEW p \in AllMade
    PROVE  /\ p \in Stream /\ p[1] \in Ends /\ p \in Made(p[1])
           /\ st[p] \in StreamState /\ Fits(st[p]) /\ st[p].id \in IDs
           /\ p \in At(p[1], st[p].id)
<1>1. p \in Stream /\ p[1] \in Ends
      BY MadeIsStream
<1>2. st[p] \in StreamState /\ Fits(st[p]) /\ st[p].id \in IDs
      BY <1>1 DEF TypeInv, StreamsOK, StreamState
<1>3. p \in Made(p[1])
      BY DEF AllMade, Made
<1> QED BY <1>1, <1>2, <1>3 DEF At

\* At(e, id) are objects of e, each of them made.
LEMMA AtFacts ==
    ASSUME NEW e \in Ends, NEW id, NEW p \in At(e, id)
    PROVE  p \in AllMade /\ p \in Stream /\ p[1] = e /\ st[p].id = id
BY DEF At, Made, AllMade, Ends

\* Of some numbers one is the least.
LEMMA LeastOf ==
    ASSUME NEW at \in SUBSET Nat, at # {}
    PROVE  \E i \in at : \A j \in at : i <= j
<1> DEFINE Less == {p \in Nat \X Nat : p[1] < p[2]}
<1>1. IsWellFoundedOn(Less, Nat)
      BY NatLessThanWellFounded DEF OpToRel
<1> HIDE DEF Less
<1>2. PICK i \in at : \A j \in at : ~(<<j, i>> \in Less)
      BY <1>1, WFMin
<1>3. ASSUME NEW j \in at PROVE i <= j
  <2>1. i \in Nat /\ j \in Nat
        OBVIOUS
  <2>2. j < i => <<j, i>> \in Less
        BY <2>1 DEF Less
  <2> QED BY <1>2, <2>1, <2>2
<1> QED BY <1>3

\* The origin is the first object made under an ID.
LEMMA OriginFacts ==
    ASSUME NEW e \in Ends, NEW id, At(e, id) # {}
    PROVE  /\ Origin(e, id) \in At(e, id)
           /\ \A q \in At(e, id) : Origin(e, id)[2] <= q[2]
<1> DEFINE ks == {q[2] : q \in At(e, id)}
<1>1. ks \in SUBSET Nat /\ ks # {}
      BY AtFacts DEF Stream
<1>2. PICK k \in ks : \A j \in ks : k <= j
      BY <1>1, LeastOf
<1>3. \E p \in At(e, id) : \A q \in At(e, id) : p[2] <= q[2]
      BY <1>2
<1> QED BY <1>3 DEF Origin

\* There is no other first object.
LEMMA OriginIs ==
    ASSUME NEW e \in Ends, NEW id, NEW p \in At(e, id), \A q \in At(e, id) : p[2] <= q[2]
    PROVE  Origin(e, id) = p
<1>1. /\ Origin(e, id) \in At(e, id) /\ Origin(e, id)[2] <= p[2] /\ p[2] <= Origin(e, id)[2]
      BY OriginFacts
<1>2. Origin(e, id) \in Stream /\ p \in Stream /\ Origin(e, id)[1] = p[1]
      BY <1>1, AtFacts
<1>3. Origin(e, id)[2] = p[2]
      BY <1>1, <1>2 DEF Stream
<1> QED BY <1>2, <1>3 DEF Stream

\* State(e, id) is the origin's, or that of a new stream.
LEMMA StateFacts ==
    ASSUME TypeInv, NEW e \in Ends, NEW id, At(e, id) # {}
    PROVE  /\ Origin(e, id) \in At(e, id) /\ Origin(e, id) \in AllMade
           /\ State(e, id) = st[Origin(e, id)]
BY OriginFacts, AtFacts DEF State

LEMMA NewStreamFacts ==
    ASSUME NEW id, NEW own, NEW late, NEW r, r = NewTCPStream(id, own, late)
    PROVE  /\ r.id = id /\ r.own = own /\ r.late = late /\ r.buf = <<>> /\ r.got = 0
           /\ Len(r.buf) = 0 /\ r.readErr = "none" /\ r.seen = "none" /\ r.sent = 0
           /\ r.over = 0 /\ r.wr = 0 /\ r.cl = "no" /\ r.writeClosed = FALSE
BY DEF NewTCPStream

LEMMA StateType ==
    ASSUME TypeInv, NEW e \in Ends, NEW id \in IDs
    PROVE  Fits(State(e, id)) /\ State(e, id) \in StreamState
<1>1. CASE At(e, id) = {}
  <2>1. Fits(NewTCPStream(id, FALSE, FALSE))
        BY NewStreamType
  <2>2. State(e, id) = NewTCPStream(id, FALSE, FALSE)
        BY <1>1 DEF State
  <2> QED BY <2>1, <2>2 DEF Fits
<1>2. CASE At(e, id) # {}
      BY <1>2, StateFacts, MadeFacts
<1> QED BY <1>1, <1>2

\* The frames of id that e's stream has been handed, read or not.
Handed(e, id) == State(e, id).got + Len(State(e, id).buf)

\* The frames e has written and its peer has not dispatched: the one in the
\* hands of the peer's read loop, then those on the wire.
Line(e) ==
    IF rl[Other(e)] = "dispatch" THEN <<frame[Other(e)]>> \o wire[e] ELSE wire[e]

\* The values that the invariant is about have their types.
LEMMA PairTypes ==
    ASSUME TypeInv, NEW e \in Ends, NEW id \in IDs
    PROVE  /\ State(e, id) \in StreamState /\ State(e, id).buf \in Seq(1..MaxWrites)
           /\ State(e, id).sent \in Nat /\ State(e, id).over \in Nat /\ State(e, id).got \in Nat
           /\ Len(State(e, id).buf) \in Nat /\ Handed(e, id) \in Nat
<1>1. State(e, id) \in StreamState
      BY StateType
<1>2. /\ State(e, id).buf \in Seq(1..MaxWrites)
      /\ State(e, id).sent \in Nat /\ State(e, id).over \in Nat /\ State(e, id).got \in Nat
      BY <1>1, Bounds DEF StreamState
<1>3. Len(State(e, id).buf) \in Nat
      BY <1>2
<1> QED BY <1>1, <1>2, <1>3 DEF Handed

LEMMA LineType ==
    ASSUME TypeInv, NEW e \in Ends
    PROVE  Line(e) \in Seq(Frame)
<1>1. wire[e] \in Seq(Frame) /\ frame[Other(e)] \in Frame
      BY EndsFacts DEF TypeInv, SessionsOK
<1>2. <<frame[Other(e)]>> \o wire[e] \in Seq(Frame)
      BY <1>1
<1> QED BY <1>1, <1>2 DEF Line

\* A frame e writes to a connection somebody reads goes to the end of its line.
LEMMA LineWritten ==
    ASSUME TypeInv, NEW e \in Ends, NEW g \in Frame,
           wire' = [wire EXCEPT ![e] = Append(@, g)], UNCHANGED <<rl, frame>>
    PROVE  Line(e)' = Append(Line(e), g) /\ Line(Other(e))' = Line(Other(e))
<1>1. wire[e] \in Seq(Frame) /\ frame[Other(e)] \in Frame /\ Other(e) # e
      /\ Other(e) \in Ends
      BY EndsFacts DEF TypeInv, SessionsOK
<1>2. wire'[e] = Append(wire[e], g) /\ wire'[Other(e)] = wire[Other(e)]
      BY <1>1 DEF TypeInv, SessionsOK
<1>3. <<frame[Other(e)]>> \o Append(wire[e], g) = Append(<<frame[Other(e)]>> \o wire[e], g)
      BY <1>1
<1> QED BY <1>2, <1>3 DEF Line

\* A frame the read loop of e takes from the wire keeps its place in the line.
LEMMA LineRead ==
    ASSUME TypeInv, NEW e \in Ends, ReadFrame(e)
    PROVE  \A x \in Ends : Line(x)' = Line(x)
<1>1. /\ Other(e) \in Ends /\ Other(e) # e /\ Other(Other(e)) = e
      /\ wire[Other(e)] \in Seq(Frame) /\ wire[Other(e)] # <<>>
      BY EndsFacts DEF TypeInv, SessionsOK, ReadFrame
<1>2. <<Head(wire[Other(e)])>> \o Tail(wire[Other(e)]) = wire[Other(e)]
      BY <1>1
<1>3. /\ rl[e] = "read" /\ rl'[e] = "dispatch" /\ rl'[Other(e)] = rl[Other(e)]
      /\ frame'[e] = Head(wire[Other(e)]) /\ frame'[Other(e)] = frame[Other(e)]
      /\ wire'[Other(e)] = Tail(wire[Other(e)]) /\ wire'[e] = wire[e]
      BY <1>1 DEF ReadFrame, TypeInv, SessionsOK
<1>4. Line(Other(e))' = Line(Other(e)) /\ Line(e)' = Line(e)
      BY <1>1, <1>2, <1>3 DEF Line
<1> QED BY <1>4, EndsFacts

\* A frame the read loop of e dispatches leaves the head of the line.
LEMMA LineDispatched ==
    ASSUME TypeInv, NEW e \in Ends, rl[e] = "dispatch", NEW at, at # "dispatch",
           rl' = [rl EXCEPT ![e] = at], frame' = [frame EXCEPT ![e] = NoFrame],
           wire' = wire
    PROVE  /\ Line(Other(e)) # <<>> /\ Head(Line(Other(e))) = frame[e]
           /\ Line(Other(e))' = Tail(Line(Other(e))) /\ Line(e)' = Line(e)
<1>1. /\ Other(e) \in Ends /\ Other(e) # e /\ Other(Other(e)) = e
      /\ wire[Other(e)] \in Seq(Frame) /\ frame[e] \in Frame
      BY EndsFacts DEF TypeInv, SessionsOK
<1>2. /\ <<frame[e]>> \o wire[Other(e)] # <<>>
      /\ Head(<<frame[e]>> \o wire[Other(e)]) = frame[e]
      /\ Tail(<<frame[e]>> \o wire[Other(e)]) = wire[Other(e)]
      BY <1>1
<1>3. rl'[e] = at /\ rl'[Other(e)] = rl[Other(e)] /\ frame'[Other(e)] = frame[Other(e)]
      BY <1>1 DEF TypeInv, SessionsOK
<1> QED BY <1>1, <1>2, <1>3 DEF Line

\* Lines are made of the wire, and of what the read loops hold.
LEMMA LinesSame ==
    ASSUME UNCHANGED <<wire, frame>>,
           \A x \in Ends : rl'[x] = "dispatch" <=> rl[x] = "dispatch"
    PROVE  \A x \in Ends : Line(x)' = Line(x)
BY EndsFacts DEF Line

\* The connection loses the end of each line.
LEMMA LineLost ==
    ASSUME TypeInv, NEW e \in Ends, Lose
    PROVE  \E k \in 0..Len(Line(e)) : Line(e)' = SubSeq(Line(e), 1, k)
<1>1. PICK kept \in [Ends -> 0..WireCap] :
        wire' = [x \in Ends |-> SubSeq(wire[x], 1, IF kept[x] < Len(wire[x])
                                                   THEN kept[x] ELSE Len(wire[x]))]
      BY DEF Lose
<1>2. PICK W \in Seq(Frame) : W = wire[e]
      BY DEF TypeInv, SessionsOK
<1>3. PICK k \in 0..Len(W) : wire'[e] = SubSeq(W, 1, k)
  <2>1. kept[e] \in Nat /\ Len(W) \in Nat
        BY Bounds
  <2>2. (IF kept[e] < Len(W) THEN kept[e] ELSE Len(W)) \in 0..Len(W)
        BY <2>1
  <2>3. wire'[e] = SubSeq(W, 1, IF kept[e] < Len(W) THEN kept[e] ELSE Len(W))
        BY <1>1, <1>2
  <2> QED BY <2>2, <2>3
<1>4. rl' = rl /\ frame' = frame /\ frame[Other(e)] \in Frame
      BY EndsFacts DEF Lose, loopVars, TypeInv, SessionsOK
<1>5. CASE rl[Other(e)] = "dispatch"
  <2> DEFINE f == frame[Other(e)]
  <2>1. /\ <<f>> \o SubSeq(W, 1, k) = SubSeq(<<f>> \o W, 1, k + 1)
        /\ k + 1 \in 0..Len(<<f>> \o W)
    <3>1. f \in Frame /\ <<f>> \o W \in Seq(Frame) /\ Len(<<f>> \o W) = Len(W) + 1
          BY <1>4
    <3>2. SubSeq(W, 1, k) \in Seq(Frame) /\ Len(SubSeq(W, 1, k)) = k
          OBVIOUS
    <3>3. /\ Len(<<f>> \o SubSeq(W, 1, k)) = k + 1
          /\ Len(SubSeq(<<f>> \o W, 1, k + 1)) = k + 1
          BY <3>1, <3>2
    <3>4. \A i \in 1..(k + 1) : (<<f>> \o SubSeq(W, 1, k))[i] = SubSeq(<<f>> \o W, 1, k + 1)[i]
          BY <3>1, <3>2
    <3> QED BY <3>1, <3>2, <3>3, <3>4
  <2> QED BY <1>2, <1>3, <1>4, <1>5, <2>1 DEF Line
<1>6. CASE rl[Other(e)] # "dispatch"
      BY <1>2, <1>3, <1>4, <1>6 DEF Line
<1> QED BY <1>5, <1>6

\* What is left of a buffer after its first k elements.
LEMMA RestOf ==
    ASSUME NEW X, NEW s \in Seq(X), NEW k \in 1..Len(s), NEW q, q = SubSeq(s, k + 1, Len(s))
    PROVE  /\ Len(q) = Len(s) - k
           /\ \A i \in 1..Len(q) : q[i] = s[k + i] /\ k + i \in 1..Len(s)
<1>1. Len(s) \in Nat /\ k \in Nat
      OBVIOUS
<1>2. Len(q) = Len(s) - k
      BY <1>1
<1>3. ASSUME NEW i \in 1..(Len(s) - k) PROVE q[i] = s[k + i] /\ k + i \in 1..Len(s)
      BY <1>1, <1>3
<1> QED BY <1>2, <1>3

-----------------------------------------------------------------------------
(* How sessions end.                                                       *)

SessionErr(e) == closeErr[e] # "none" <=> Closed(e)

\* A session ends with io.EOF when its read loop has found the connection
\* closed by the peer, with nothing left on it.
SessionEOF(e) ==
    closeErr[e] = "EOF" =>
        rl[e] = "done" /\ (~broken => Closed(Other(e)) /\ wire[Other(e)] = <<>>)

SessionInv == \A e \in Ends : SessionErr(e) /\ SessionEOF(e)

\* Sessions only close, and only the connection's failure is for good.
FlagsKept ==
    /\ broken => broken'
    /\ \A e \in Ends : /\ Closed(e) => Closed(e)'
                       /\ closeErr[e] = "EOF" => closeErr'[e] = "EOF"

\* Only the first call of Close does anything, and it leaves an error.
LEMMA BeginCloseFacts ==
    ASSUME TypeInv, SessionInv,
           NEW e \in Ends, NEW err \in Errors, err # "none", BeginClose(e, err)
    PROVE  /\ Closed(e)'
           /\ \A x \in Ends : /\ Closed(x) => Closed(x)'
                              /\ SessionErr(x)'
                              /\ closeErr[x] = "EOF" => closeErr'[x] = "EOF"
                              /\ \/ closeErr'[x] = closeErr[x]
                                 \/ x = e /\ ~Closed(e) /\ closeErr'[x] = err
<1>1. closePc \in [Ends -> {"open", "marked", "conn", "done"}] /\ closeErr \in [Ends -> Errors]
      BY DEF TypeInv, SessionsOK
<1>2. CASE Closed(e)
      BY <1>2 DEF BeginClose, closeVars, SessionInv, SessionErr, Closed
<1>3. CASE ~Closed(e)
  <2>1. closePc' = [closePc EXCEPT ![e] = "marked"] /\ closeErr' = [closeErr EXCEPT ![e] = err]
        BY <1>3 DEF BeginClose
  <2>2. closePc[e] = "open" /\ closeErr[e] = "none"
        BY <1>3 DEF Closed, SessionInv, SessionErr
  <2> QED BY <1>1, <1>3, <2>1, <2>2 DEF SessionInv, SessionErr, Closed
<1> QED BY <1>2, <1>3

\* The rest of an invariant step of the sessions.
LEMMA FlagsIf ==
    ASSUME SessionInv, broken => broken',
           \A x \in Ends :
              /\ Closed(x) => Closed(x)'
              /\ SessionErr(x)'
              /\ closeErr[x] = "EOF" => closeErr'[x] = "EOF"
              /\ closeErr'[x] = "EOF" =>
                    \/ closeErr[x] = "EOF"
                    \/ rl'[x] = "done" /\ (~broken' => Closed(Other(x)) /\ wire'[Other(x)] = <<>>)
              /\ rl[x] = "done" => rl'[x] = "done"
              /\ ~broken' /\ Closed(x) /\ wire[x] = <<>> => wire'[x] = <<>>
    PROVE  FlagsKept /\ SessionInv'
<1>1. ASSUME NEW x \in Ends PROVE SessionEOF(x)'
      BY EndsFacts DEF SessionInv, SessionEOF
<1> QED BY <1>1 DEF FlagsKept, SessionInv

\* A step that leaves the errors and the wire alone.
LEMMA FlagsSame ==
    ASSUME SessionInv, UNCHANGED <<closeErr, wire, broken>>,
           \A x \in Ends : (Closed(x)' <=> Closed(x)) /\ (rl[x] = "done" => rl'[x] = "done")
    PROVE  FlagsKept /\ SessionInv'
BY FlagsIf DEF SessionInv, SessionErr

LEMMA SessionNextFlags ==
    ASSUME TypeInv, SessionInv, NEW e \in Ends, SessionNext(e)
    PROVE  FlagsKept /\ SessionInv'
<1> USE DEF closeVars, netVars, loopVars
<1>1. closePc \in [Ends -> {"open", "marked", "conn", "done"}]
      BY DEF TypeInv, SessionsOK
<1>2. CASE OpenStreamCheck(e) \/ OpenStream(e) \/ AcceptStream(e)
      BY <1>2, FlagsSame DEF OpenStreamCheck, OpenStream, AcceptStream, Closed
<1>3. CASE CloseSession(e)
  <2>1. BeginClose(e, "closed") /\ wire' = wire /\ broken' = broken /\ rl' = rl
        BY <1>3 DEF CloseSession, CallerError
  <2>2. \A x \in Ends : /\ Closed(x) => Closed(x)'
                        /\ SessionErr(x)'
                        /\ closeErr[x] = "EOF" => closeErr'[x] = "EOF"
                        /\ closeErr'[x] = "EOF" => closeErr[x] = "EOF"
        BY <2>1, BeginCloseFacts DEF Errors
  <2> QED BY <2>1, <2>2, FlagsIf
<1>4. CASE CloseConn(e) \/ CloseRange(e)
  <2>1. \A x \in Ends : Closed(x)' <=> Closed(x)
        BY <1>1, <1>4 DEF CloseConn, CloseRange, Closed
  <2> QED BY <1>4, <2>1, FlagsSame DEF CloseConn, CloseRange
<1> QED BY <1>2, <1>3, <1>4 DEF SessionNext

LEMMA ReadLoopFlags ==
    ASSUME TypeInv, SessionInv, NEW e \in Ends, ReadLoop(e)
    PROVE  FlagsKept /\ SessionInv'
<1> USE DEF closeVars, netVars
<1>1. /\ rl \in [Ends -> {"read", "dispatch", "accept", "done"}] /\ wire \in [Ends -> Seq(Frame)]
      /\ Other(e) \in Ends /\ Other(e) # e
      BY EndsFacts DEF TypeInv, SessionsOK
<1>2. CASE DispatchNew(e) \/ DispatchKnown(e) \/ OfferStream(e)
  <2>1. \A x \in Ends : rl[x] = "done" => rl'[x] = "done"
        BY <1>1, <1>2 DEF DispatchNew, DispatchKnown, OfferStream
  <2>2. \A x \in Ends : Closed(x)' <=> Closed(x)
        BY <1>2 DEF DispatchNew, DispatchKnown, OfferStream, Closed
  <2> QED BY <1>2, <2>1, <2>2, FlagsSame DEF DispatchNew, DispatchKnown, OfferStream
<1>3. CASE ReadFrame(e)
  <2>1. /\ \A x \in Ends : (rl[x] = "done" => rl'[x] = "done") /\ (Closed(x)' <=> Closed(x))
        /\ UNCHANGED <<closeErr, broken>>
        BY <1>1, <1>3 DEF ReadFrame, Closed
  <2>2. \A x \in Ends : wire[x] = <<>> => wire'[x] = <<>>
        BY <1>1, <1>3 DEF ReadFrame
  <2>3. \A x \in Ends : SessionErr(x)'
        BY <2>1 DEF SessionInv, SessionErr
  <2> QED BY <2>1, <2>2, <2>3, FlagsIf
<1>4. CASE ReadFail(e)
  <2>1. /\ BeginClose(e, "EOF") /\ wire' = wire /\ broken' = broken
        /\ rl' = [rl EXCEPT ![e] = "done"]
        /\ ConnClosed(e) \/ (Unread(e) /\ wire[Other(e)] = <<>>)
        BY <1>4 DEF ReadFail
  <2>2. \A x \in Ends : /\ Closed(x) => Closed(x)'
                        /\ SessionErr(x)'
                        /\ closeErr[x] = "EOF" => closeErr'[x] = "EOF"
                        /\ \/ closeErr'[x] = closeErr[x]
                           \/ x = e /\ ~Closed(e)
        BY <2>1, BeginCloseFacts DEF Errors
  <2>3. ~Closed(e) => ~ConnClosed(e)
        BY DEF Closed, ConnClosed
  <2>4. ConnClosed(Other(e)) => Closed(Other(e))
        BY DEF Closed, ConnClosed
  <2>5. ~Closed(e) => rl'[e] = "done" /\ (~broken' => Closed(Other(e)) /\ wire'[Other(e)] = <<>>)
        BY <1>1, <2>1, <2>3, <2>4 DEF Unread
  <2>6. \A x \in Ends : rl[x] = "done" => rl'[x] = "done"
        BY <1>1, <2>1
  <2> QED BY <2>1, <2>2, <2>5, <2>6, FlagsIf
<1> QED BY <1>2, <1>3, <1>4 DEF ReadLoop

LEMMA StreamNextFlags ==
    ASSUME TypeInv, SessionInv, NEW p \in AllMade, StreamNext(p)
    PROVE  FlagsKept /\ SessionInv'
<1> USE DEF closeVars, netVars, loopVars
<1>1. p[1] \in Ends
      BY MadeIsStream
<1>2. CASE WriteFrame(p) \/ CloseFrame(p)
  <2>1. PICK g : (FrameWritten(p[1], g) \/ FrameRefused(p[1])) /\ broken' = broken /\ rl' = rl
        BY <1>2 DEF WriteFrame, CloseFrame
  <2>2. CASE FrameWritten(p[1], g)
    <3>1. /\ closePc' = closePc /\ closeErr' = closeErr
          /\ \A x \in Ends : ~broken' /\ Closed(x) => wire'[x] = wire[x]
          BY <2>1, <2>2 DEF FrameWritten, TypeInv, SessionsOK
    <3>2. \A x \in Ends : SessionErr(x)' /\ (Closed(x) => Closed(x)')
          BY <3>1 DEF SessionInv, SessionErr, Closed
    <3> QED BY <2>1, <3>1, <3>2, FlagsIf
  <2>3. CASE FrameRefused(p[1])
    <3>1. BeginClose(p[1], "failed") /\ wire' = wire
          BY <2>3 DEF FrameRefused
    <3>2. \A x \in Ends : /\ Closed(x) => Closed(x)'
                          /\ SessionErr(x)'
                          /\ closeErr[x] = "EOF" => closeErr'[x] = "EOF"
                          /\ closeErr'[x] = "EOF" => closeErr[x] = "EOF"
          BY <1>1, <3>1, BeginCloseFacts DEF Errors
    <3> QED BY <2>1, <3>1, <3>2, FlagsIf
  <2> QED BY <2>1, <2>2, <2>3
<1>3. CASE ~WriteFrame(p) /\ ~CloseFrame(p)
  <2>1. UNCHANGED <<closePc, closeErr, wire, broken, rl>>
        BY <1>3 DEF StreamNext, WriteCheck, CloseStream, Read, ReadEnd, OnlyStreams
  <2> QED BY <2>1, FlagsSame DEF Closed
<1> QED BY <1>2, <1>3

LEMMA NextFlags ==
    ASSUME TypeInv, SessionInv, [Next]_vars
    PROVE  FlagsKept /\ SessionInv'
<1>1. CASE UNCHANGED vars
      BY <1>1, FlagsSame DEF vars, Closed
<1>2. CASE Lose
  <2>1. /\ broken' = TRUE /\ closePc' = closePc /\ closeErr' = closeErr /\ rl' = rl
        BY <1>2 DEF Lose, closeVars, loopVars
  <2>2. \A x \in Ends : SessionErr(x)' /\ (Closed(x) => Closed(x)')
        BY <2>1 DEF SessionInv, SessionErr, Closed
  <2> QED BY <2>1, <2>2, FlagsIf
<1> QED BY <1>1, <1>2, SessionNextFlags, ReadLoopFlags, StreamNextFlags DEF Next

-----------------------------------------------------------------------------
(* What a step does to the objects, one by one.                            *)

\* An object knows for good which stream it is; it does not take back an error,
\* its zero-length frame or a frame.
Later(r, q) ==
    /\ r.id = q.id /\ r.own = q.own /\ r.late = q.late
    /\ q.readErr # "none" => r.readErr # "none"
    /\ q.cl = "done" => r.cl = "done"
    /\ q.sent > 0 => r.sent > 0
    /\ q.over > 0 => r.over > 0

\* Frames are late only after the zero-length one, and an opener that closes
\* has written, or its session is closed.
Sound(r, closed) ==
    /\ r.cl # "done" => r.over = 0
    /\ r.own /\ r.cl # "no" => r.sent > 0 \/ closed

\* A reader that was told io.EOF is out of the map, or its session has ended.
Ended(p) ==
    /\ st[p].readErr = "EOF" => streams[p[1]][st[p].id] # p \/ closeErr[p[1]] = "EOF"
    /\ st[p].seen = "EOF" => st[p].readErr = "EOF" /\ st[p].buf = <<>>

Still(r, q) == r.seen = q.seen /\ r.got = q.got /\ r.buf = q.buf

ObjectStep(p) ==
    /\ p \in AllMade' /\ Later(st'[p], st[p])
    /\ Sound(st[p], Closed(p[1])) => Sound(st'[p], Closed(p[1])')
    /\ Ended(p) => Ended(p)' /\ (st[p].seen = "EOF" => Still(st'[p], st[p]))

\* A new object: the origin, or the ghost of a late frame.
Born(p) ==
    LET id == st'[p].id IN
    /\ \A q \in At(p[1], id) : q[2] < p[2]
    /\ st'[p].late = Closed(p[1]) /\ Sound(st'[p], Closed(p[1])')
    /\ st'[p].sent = 0 /\ st'[p].over = 0 /\ st'[p].cl = "no"
    /\ At(p[1], id) = {} => Ended(p)'
    /\ At(p[1], id) # {} => \E w \in AllMade : st[w].id = id /\ st[w].over > 0
    /\ st'[p].own \/ At(Other(p[1]), id) # {}

ObjectsStep ==
    /\ \A p \in AllMade : ObjectStep(p)
    /\ \A p \in AllMade' : p \notin AllMade => Born(p)
    /\ \A p, q \in AllMade' : p \notin AllMade /\ q \notin AllMade => p = q

\* What holds of every object.
ObjectInv ==
    \A p \in AllMade :
        /\ Sound(st[p], Closed(p[1]))
        /\ p = Origin(p[1], st[p].id) => Ended(p)
        /\ st[p].own \/ At(Other(p[1]), st[p].id) # {}

\* Without a late frame there is no ghost.
GhostInv ==
    \A id \in IDs :
        (\A w \in AllMade : st[w].id = id => st[w].over = 0) =>
            \A e \in Ends : \A q \in At(e, id) : q = Origin(e, id)

\* Objects stay under their IDs.
LEMMA AtGrows ==
    ASSUME TypeInv, ObjectsStep, NEW e \in Ends, NEW id, NEW p \in At(e, id)
    PROVE  p \in At(e, id)'
<1>1. p \in AllMade /\ p \in Stream /\ p[1] = e /\ st[p].id = id
      BY AtFacts
<1>2. p \in AllMade' /\ st'[p].id = id
      BY <1>1 DEF ObjectsStep, ObjectStep, Later
<1>3. p \in Made(e)'
      BY <1>1, <1>2 DEF AllMade, Made
<1> QED BY <1>2, <1>3 DEF At

LEMMA AtFactsNext ==
    ASSUME NEW e \in Ends, NEW id, NEW p \in At(e, id)'
    PROVE  p \in AllMade' /\ p \in Stream /\ p[1] = e /\ st'[p].id = id
BY DEF At, Made, AllMade, Ends

\* An object under an ID is an old one, or a new one.
LEMMA AtOrBorn ==
    ASSUME TypeInv, ObjectsStep, NEW e \in Ends, NEW id, NEW p \in At(e, id)'
    PROVE  \/ p \in At(e, id)
           \/ p \notin AllMade /\ Born(p) /\ p[1] = e /\ st'[p].id = id
<1>1. p \in AllMade' /\ p[1] = e /\ st'[p].id = id
      BY AtFactsNext
<1>2. CASE p \in AllMade
  <2>1. st[p].id = id /\ p \in Made(e)
        BY <1>1, <1>2, MadeFacts DEF ObjectsStep, ObjectStep, Later
  <2> QED BY <2>1 DEF At
<1>3. CASE p \notin AllMade
      BY <1>1, <1>3 DEF ObjectsStep
<1> QED BY <1>2, <1>3

\* The origin stays the origin.
LEMMA OriginKept ==
    ASSUME TypeInv, ObjectsStep, NEW e \in Ends, NEW id, At(e, id) # {}
    PROVE  /\ At(e, id)' # {} /\ Origin(e, id)' = Origin(e, id)
           /\ State(e, id) = st[Origin(e, id)] /\ State(e, id)' = st'[Origin(e, id)]
<1> DEFINE p == Origin(e, id)
<1>1. p \in At(e, id) /\ \A q \in At(e, id) : p[2] <= q[2]
      BY OriginFacts
<1>2. p \in At(e, id)'
      BY <1>1, AtGrows
<1>3. \A q \in At(e, id)' : p[2] <= q[2]
  <2> SUFFICES ASSUME NEW q \in At(e, id)' PROVE p[2] <= q[2]
      OBVIOUS
  <2>1. CASE q \in At(e, id)
        BY <1>1, <2>1
  <2>2. CASE Born(q) /\ q[1] = e /\ st'[q].id = id
    <3>1. p[2] < q[2]
          BY <1>1, <2>2 DEF Born
    <3>2. p[2] \in Nat /\ q[2] \in Nat
          BY <1>1, AtFacts, AtFactsNext DEF Stream
    <3> QED BY <3>1, <3>2
  <2> QED BY <2>1, <2>2, AtOrBorn
<1>4. Origin(e, id)' = p
  <2>1. Origin(e, id)' = CHOOSE x \in At(e, id)' : \A q \in At(e, id)' : x[2] <= q[2]
        BY DEF Origin, At, Made
  <2> DEFINE o == Origin(e, id)'
  <2>2. o \in At(e, id)' /\ \A q \in At(e, id)' : o[2] <= q[2]
        BY <1>2, <1>3, <2>1
  <2>3. o[2] <= p[2] /\ p[2] <= o[2] /\ o \in Stream /\ p \in Stream /\ o[1] = e /\ p[1] = e
        BY <1>2, <1>3, <2>2, AtFactsNext
  <2>4. o[2] = p[2]
        BY <2>3 DEF Stream
  <2> QED BY <2>3, <2>4 DEF Stream
<1>5. At(e, id)' # {}
      BY <1>2
<1> QED BY <1>4, <1>5 DEF State

\* A ghost that has written or closed has done so for good.
LEMMA SoleKept ==
    ASSUME TypeInv, TypeInv', ObjectsStep, NEW e \in Ends, NEW id, Sole(e, id)'
    PROVE  Sole(e, id)
<1> SUFFICES ASSUME NEW p \in At(e, id), p # Origin(e, id)
             PROVE  st[p].sent + st[p].over = 0 /\ st[p].cl # "done"
    BY DEF Sole
<1>1. Origin(e, id)' = Origin(e, id) /\ p \in At(e, id)'
      BY OriginKept, AtGrows
<1>2. st'[p].sent + st'[p].over = 0 /\ st'[p].cl # "done"
      BY <1>1 DEF Sole
<1>3. p \in AllMade /\ p \in AllMade' /\ p \in Stream /\ Later(st'[p], st[p])
      BY AtFacts DEF ObjectsStep, ObjectStep
<1>4. st[p].sent \in Nat /\ st[p].over \in Nat
      BY <1>3, MadeFacts, Bounds DEF StreamState
<1>5. ~(st[p].sent > 0 /\ ~(st'[p].sent > 0)) /\ ~(st[p].over > 0 /\ ~(st'[p].over > 0))
      /\ st[p].cl # "done"
      BY <1>2, <1>3 DEF Later
<1>6. st'[p].sent \in Nat /\ st'[p].over \in Nat
      BY <1>3, Bounds DEF StreamState, TypeInv, StreamsOK
<1>7. ~(st'[p].sent > 0) /\ ~(st'[p].over > 0)
      BY <1>2, <1>6
<1> QED BY <1>4, <1>5, <1>7

\* What holds of every object goes on to hold,
LEMMA ObjectInvKept ==
    ASSUME TypeInv, ObjectInv, ObjectsStep
    PROVE  ObjectInv'
<1> SUFFICES ASSUME NEW p \in AllMade'
             PROVE  /\ Sound(st'[p], Closed(p[1])')
                    /\ p = Origin(p[1], st[p].id)' => Ended(p)'
                    /\ st'[p].own \/ At(Other(p[1]), st[p].id)' # {}
    BY DEF ObjectInv
<1>1. PICK e \in Ends : e = p[1]
      BY DEF AllMade, Made, Ends
<1>2. PICK id : id = st'[p].id
      OBVIOUS
<1>3. ASSUME At(Other(e), id) # {} PROVE At(Other(e), id)' # {}
  <2>1. PICK q \in At(Other(e), id) : TRUE
        BY <1>3
  <2>2. q \in At(Other(e), id)'
        BY <2>1, AtGrows, EndsFacts
  <2> QED BY <2>2
<1>4. At(Other(e), id)' = At(Other(p[1]), st[p].id)' /\ Origin(e, id)' = Origin(p[1], st[p].id)'
      BY <1>1, <1>2
<1>5. CASE p \in AllMade
  <2>1. ObjectStep(p) /\ st[p].id = id /\ st[p].own = st'[p].own /\ p \in At(e, id)
        BY <1>1, <1>2, <1>5, MadeFacts DEF ObjectsStep, ObjectStep, Later
  <2>2. Origin(e, id)' = Origin(e, id)
        BY <2>1, OriginKept
  <2>3. p = Origin(e, id)' => Ended(p)'
        BY <1>1, <1>2, <1>5, <2>1, <2>2 DEF ObjectInv, ObjectStep
  <2>4. st'[p].own \/ At(Other(e), id)' # {}
        BY <1>1, <1>2, <1>3, <1>5, <2>1 DEF ObjectInv
  <2>5. Sound(st'[p], Closed(p[1])')
        BY <1>5, <2>1 DEF ObjectInv, ObjectStep
  <2> QED BY <1>4, <2>3, <2>4, <2>5
<1>6. CASE p \notin AllMade
  <2>1. Born(p)
        BY <1>6 DEF ObjectsStep
  <2>2. Sound(st'[p], Closed(p[1])') /\ (st'[p].own \/ At(Other(e), id)' # {})
        BY <1>1, <1>2, <1>3, <2>1 DEF Born
  <2>3. ASSUME At(e, id) # {} PROVE p # Origin(e, id)'
    <3>1. Origin(e, id)' = Origin(e, id) /\ Origin(e, id) \in AllMade
          BY <2>3, OriginKept, StateFacts
    <3> QED BY <1>6, <3>1
  <2>4. p = Origin(e, id)' => Ended(p)'
        BY <1>1, <1>2, <2>1, <2>3 DEF Born
  <2> QED BY <1>4, <2>2, <2>4
<1> QED BY <1>5, <1>6

\* and ghosts go on to be the work of late frames.
LEMMA GhostInvKept ==
    ASSUME TypeInv, TypeInv', GhostInv, ObjectsStep
    PROVE  GhostInv'
<1> SUFFICES ASSUME NEW id \in IDs, \A w \in AllMade' : st'[w].id = id => st'[w].over = 0,
                    NEW e \in Ends, NEW q \in At(e, id)'
             PROVE  q = Origin(e, id)'
    BY DEF GhostInv
<1>1. ASSUME NEW w \in AllMade, st[w].id = id PROVE st[w].over = 0
  <2>1. w \in AllMade' /\ Later(st'[w], st[w]) /\ st'[w].over = 0
        BY <1>1 DEF ObjectsStep, ObjectStep, Later
  <2>2. st[w].over \in Nat
        BY MadeFacts, Bounds DEF StreamState
  <2> QED BY <2>1, <2>2 DEF Later
<1>2. \A p \in At(e, id) : p = Origin(e, id)
      BY <1>1 DEF GhostInv
<1>3. CASE At(e, id) = {}
  <2>1. \A x \in At(e, id)' : x \in AllMade' /\ x \notin AllMade
        BY <1>3, AtOrBorn, AtFactsNext
  <2>2. At(e, id)' = {q}
        BY <2>1 DEF ObjectsStep
  <2>3. Origin(e, id)' = CHOOSE x \in At(e, id)' : \A y \in At(e, id)' : x[2] <= y[2]
        BY DEF Origin, At, Made
  <2>4. q[2] <= q[2]
        BY AtFactsNext DEF Stream
  <2> QED BY <2>2, <2>3, <2>4
<1>4. CASE At(e, id) # {}
  <2>1. Origin(e, id)' = Origin(e, id)
        BY <1>4, OriginKept
  <2>2. CASE q \in At(e, id)
        BY <1>2, <2>1, <2>2
  <2>3. CASE Born(q) /\ q[1] = e /\ st'[q].id = id
        BY <1>1, <1>4, <2>3 DEF Born
  <2> QED BY <2>2, <2>3, AtOrBorn
<1> QED BY <1>3, <1>4

-----------------------------------------------------------------------------
(* The objects in the steps that make none.                                *)

\* The buffer goes on where the reader is.
Goes(r) == \A i \in 1..Len(r.buf) : r.buf[i] = r.got + i

\* A reader that is handed nothing, and a writer that writes nothing.
ReaderSame(r, q) == Goes(q) => Goes(r) /\ r.got + Len(r.buf) = q.got + Len(q.buf)
WriterSame(r, q, ended) ==
    r.sent = q.sent /\ r.over = q.over /\ (r.cl = "done" => q.cl = "done" \/ ended)

LEMMA SameObject ==
    ASSUME FlagsKept, NEW p \in AllMade, p \in AllMade', st'[p] = st[p], p[1] \in Ends,
           streams[p[1]][st[p].id] # p => streams'[p[1]][st[p].id] # p
    PROVE  /\ ObjectStep(p) /\ ReaderSame(st'[p], st[p])
           /\ \A ended : WriterSame(st'[p], st[p], ended)
<1>1. Later(st'[p], st[p]) /\ (Sound(st[p], Closed(p[1])) => Sound(st'[p], Closed(p[1])'))
      BY DEF Later, Sound, FlagsKept
<1>2. Ended(p) => Ended(p)' /\ Still(st'[p], st[p])
      BY DEF Ended, Still, FlagsKept
<1> QED BY <1>1, <1>2 DEF ObjectStep, ReaderSame, WriterSame

\* Most steps change one object at most.
LEMMA OneObject ==
    ASSUME TypeInv, FlagsKept, made' = made, NEW p,
           \A q \in AllMade : q # p => st'[q] = st[q],
           \A q \in AllMade : streams[q[1]][st[q].id] # q => streams'[q[1]][st[q].id] # q,
           p \in AllMade => ObjectStep(p)
    PROVE  ObjectsStep
<1>1. AllMade' = AllMade
      BY DEF AllMade, Made
<1>2. \A q \in AllMade : q # p => ObjectStep(q)
      BY <1>1, SameObject, MadeFacts
<1> QED BY <1>1, <1>2 DEF ObjectsStep

\* The caller or Close changes how an object writes,
LEMMA WriterStep ==
    ASSUME FlagsKept, NEW p \in AllMade, p \in AllMade', p[1] \in Ends, streams' = streams,
           NEW r, r = st'[p], NEW q, q = st[p],
           r.id = q.id, r.own = q.own, r.late = q.late,
           r.readErr = q.readErr, r.seen = q.seen, r.got = q.got, r.buf = q.buf,
           q.cl = "done" => r.cl = "done", q.sent > 0 => r.sent > 0, q.over > 0 => r.over > 0,
           Sound(q, Closed(p[1])) => Sound(r, Closed(p[1])')
    PROVE  ObjectStep(p) /\ ReaderSame(st'[p], st[p])
<1>1. Later(st'[p], st[p])
      BY DEF Later
<1>2. Ended(p) => Ended(p)' /\ Still(st'[p], st[p])
      BY DEF Ended, Still, FlagsKept
<1> QED BY <1>1, <1>2 DEF ObjectStep, ReaderSame, Goes

\* or how it reads.
LEMMA ReaderStep ==
    ASSUME FlagsKept, NEW p \in AllMade, p \in AllMade', p[1] \in Ends,
           NEW r, r = st'[p], NEW q, q = st[p],
           r.id = q.id, r.own = q.own, r.late = q.late,
           r.sent = q.sent, r.over = q.over, r.cl = q.cl,
           q.readErr # "none" => r.readErr # "none",
           Ended(p) => Ended(p)' /\ (st[p].seen = "EOF" => Still(st'[p], st[p]))
    PROVE  ObjectStep(p) /\ \A ended : WriterSame(st'[p], st[p], ended)
<1>1. Later(st'[p], st[p])
      BY DEF Later
<1>2. Sound(q, Closed(p[1])) => Sound(r, Closed(p[1])')
      BY DEF Sound, FlagsKept
<1> QED BY <1>1, <1>2 DEF ObjectStep, WriterSame

\* What Read leaves of the buffer goes on after what it returned.
LEMMA ReadGoes ==
    ASSUME NEW q \in StreamState, NEW k \in 1..Len(q.buf), NEW r,
           r.got = q.buf[k], r.buf = AfterRead(q.buf, k)
    PROVE  ReaderSame(r, q)
<1> SUFFICES ASSUME Goes(q) PROVE Goes(r) /\ r.got + Len(r.buf) = q.got + Len(q.buf)
    BY DEF ReaderSame
<1>1. q.buf \in Seq(1..MaxWrites) /\ q.got \in Nat /\ Len(q.buf) \in Nat
      BY Bounds DEF StreamState
<1>2. /\ Len(r.buf) = Len(q.buf) - k
      /\ \A i \in 1..Len(r.buf) : r.buf[i] = q.buf[k + i] /\ k + i \in 1..Len(q.buf)
      BY <1>1, RestOf DEF AfterRead
<1>3. q.buf[k] = q.got + k
      BY DEF Goes
<1>4. r.got + Len(r.buf) = q.got + Len(q.buf)
  <2>1. \A a, b, c \in Int : (a + c) + (b - c) = a + b
        OBVIOUS
  <2>2. k \in Int /\ q.got \in Int /\ Len(q.buf) \in Int
        BY <1>1
  <2> QED BY <1>2, <1>3, <2>1, <2>2
<1>5. ASSUME NEW i \in 1..Len(r.buf) PROVE r.buf[i] = r.got + i
  <2>1. q.buf[k + i] = q.got + (k + i)
        BY <1>2 DEF Goes
  <2> QED BY <1>1, <1>2, <1>3, <2>1
<1> QED BY <1>4, <1>5 DEF Goes

\* A caller's step on a stream: it changes that stream alone, and the reader is
\* handed nothing.  It is a frame that goes to the wire, or none.
LEMMA StreamNextObject ==
    ASSUME TypeInv, FlagsKept, NEW p \in AllMade, StreamNext(p)
    PROVE  /\ made' = made /\ streams' = streams
           /\ \A q \in AllMade : q # p => st'[q] = st[q]
           /\ ObjectStep(p) /\ ReaderSame(st'[p], st[p])
           /\ \/ /\ UNCHANGED <<wire, rl, frame>>
                 /\ WriterSame(st'[p], st[p], Closed(p[1])' \/ broken')
              \/ WriteFrame(p) /\ FrameWritten(p[1], DataFrame(p)) /\ st'[p] = Sent(st[p])
              \/ /\ CloseFrame(p) /\ ~broken
                 /\ FrameWritten(p[1], [id |-> st[p].id, n |-> 0, late |-> FALSE])
                 /\ st'[p] = [st[p] EXCEPT !.cl = "done"]
<1> USE DEF mapVars, netVars, loopVars, idVars, closeVars
<1>1. /\ p \in Stream /\ st[p] \in StreamState /\ st \in [Stream -> StreamState] /\ p[1] \in Ends
      /\ \A q \in AllMade : q \in Stream
      BY MadeFacts DEF TypeInv, StreamsOK
<1>2. made' = made /\ streams' = streams
      BY DEF StreamNext, WriteCheck, WriteFrame, CloseStream, CloseFrame, KeepAtClose, Read,
             ReadEnd, OnlyStreams
<1>3. p \in AllMade' /\ (Closed(p[1]) => Closed(p[1])')
      BY <1>1, <1>2 DEF AllMade, Made, FlagsKept
<1>4. ASSUME NEW r, st' = [st EXCEPT ![p] = r]
      PROVE  st'[p] = r /\ \A q \in AllMade : q # p => st'[q] = st[q]
      BY <1>1, <1>4
<1>5. CASE \E k \in 1..MaxChunks : WriteCheck(p, k)
  <2>1. PICK k \in 1..MaxChunks : WriteCheck(p, k)
        BY <1>5
  <2>2. PICK r : r = [st[p] EXCEPT !.wr = k]
        OBVIOUS
  <2>3. st' = [st EXCEPT ![p] = r] /\ UNCHANGED <<wire, rl, frame>>
        BY <1>1, <2>1, <2>2 DEF WriteCheck, OnlyStreams
  <2>4. /\ r.id = st[p].id /\ r.own = st[p].own /\ r.late = st[p].late
        /\ r.readErr = st[p].readErr /\ r.seen = st[p].seen /\ r.got = st[p].got
        /\ r.buf = st[p].buf /\ r.cl = st[p].cl /\ r.sent = st[p].sent /\ r.over = st[p].over
        BY <1>1, <2>2 DEF StreamState
  <2>5. Sound(st[p], Closed(p[1])) => Sound(r, Closed(p[1])')
        BY <1>3, <2>4 DEF Sound
  <2>6. WriterSame(r, st[p], Closed(p[1])' \/ broken')
        BY <2>4 DEF WriterSame
  <2> QED BY <1>1, <1>2, <1>3, <1>4, <2>3, <2>4, <2>5, <2>6, WriterStep
<1>6. CASE CloseStream(p)
  <2>2. PICK r : r = [st[p] EXCEPT !.cl = "flag", !.writeClosed = TRUE]
        OBVIOUS
  <2>3. /\ st' = [st EXCEPT ![p] = r] /\ UNCHANGED <<wire, rl, frame>>
        /\ st[p].cl = "no" /\ MayClose(p)
        BY <1>1, <1>6, <2>2 DEF CloseStream, OnlyStreams
  <2>4. /\ r.id = st[p].id /\ r.own = st[p].own /\ r.late = st[p].late
        /\ r.readErr = st[p].readErr /\ r.seen = st[p].seen /\ r.got = st[p].got
        /\ r.buf = st[p].buf /\ r.cl = "flag" /\ r.sent = st[p].sent /\ r.over = st[p].over
        BY <1>1, <2>2 DEF StreamState
  <2>5. Sound(st[p], Closed(p[1])) => Sound(r, Closed(p[1])')
        BY <1>3, <2>3, <2>4 DEF Sound, MayClose
  <2>6. WriterSame(r, st[p], Closed(p[1])' \/ broken')
        BY <2>4 DEF WriterSame
  <2> QED BY <1>1, <1>2, <1>3, <1>4, <2>3, <2>4, <2>5, <2>6, WriterStep
<1>7. CASE CloseFrame(p)
  <2>2. PICK r : r = [st[p] EXCEPT !.cl = "done"]
        OBVIOUS
  <2>3. st' = [st EXCEPT ![p] = r] /\ rl' = rl /\ frame' = frame /\ broken' = broken
        /\ st[p].cl = "flag"
        BY <1>1, <1>7, <2>2 DEF CloseFrame
  <2>4. /\ r.id = st[p].id /\ r.own = st[p].own /\ r.late = st[p].late
        /\ r.readErr = st[p].readErr /\ r.seen = st[p].seen /\ r.got = st[p].got
        /\ r.buf = st[p].buf /\ r.cl = "done" /\ r.sent = st[p].sent /\ r.over = st[p].over
        BY <1>1, <2>2 DEF StreamState
  <2>5. Sound(st[p], Closed(p[1])) => Sound(r, Closed(p[1])')
        BY <1>3, <2>3, <2>4 DEF Sound
  <2>6. ObjectStep(p) /\ ReaderSame(st'[p], st[p])
        BY <1>1, <1>2, <1>3, <1>4, <2>3, <2>4, <2>5, WriterStep
  <2>7. CASE FrameRefused(p[1])
    <3>1. Closed(p[1])' /\ wire' = wire
          BY <1>1, <2>7 DEF FrameRefused, BeginClose, Closed, TypeInv, SessionsOK
    <3>2. WriterSame(r, st[p], Closed(p[1])' \/ broken')
          BY <2>4, <3>1 DEF WriterSame
    <3> QED BY <1>2, <1>4, <2>3, <2>6, <3>1, <3>2
  <2>8. CASE broken /\ FrameWritten(p[1], [id |-> st[p].id, n |-> 0, late |-> FALSE])
    <3>1. wire' = wire
          BY <2>8 DEF FrameWritten
    <3>2. WriterSame(r, st[p], Closed(p[1])' \/ broken')
          BY <2>3, <2>4, <2>8 DEF WriterSame
    <3> QED BY <1>2, <1>4, <2>3, <2>6, <3>1, <3>2
  <2> QED BY <1>2, <1>4, <1>7, <2>2, <2>3, <2>6, <2>7, <2>8 DEF CloseFrame
<1>8. CASE WriteFrame(p) /\ FrameWritten(p[1], DataFrame(p)) /\ st' = [st EXCEPT ![p] = Sent(@)]
  <2>2. PICK r : r = Sent(st[p])
        OBVIOUS
  <2>3. st' = [st EXCEPT ![p] = r]
        BY <1>1, <1>8, <2>2
  <2>4. /\ r.id = st[p].id /\ r.own = st[p].own /\ r.late = st[p].late
        /\ r.readErr = st[p].readErr /\ r.seen = st[p].seen /\ r.got = st[p].got
        /\ r.buf = st[p].buf /\ r.cl = st[p].cl
        /\ r.sent = st[p].sent \/ r.sent = st[p].sent + 1
        /\ r.over = st[p].over \/ (r.over = st[p].over + 1 /\ r.cl = "done")
        BY <1>1, <2>2 DEF StreamState, Sent
  <2>5. /\ st[p].sent \in Nat /\ st[p].over \in Nat
        BY <1>1, Bounds DEF StreamState
  <2>6. (st[p].sent > 0 => r.sent > 0) /\ (st[p].over > 0 => r.over > 0)
        BY <2>4, <2>5
  <2>7. Sound(st[p], Closed(p[1])) => Sound(r, Closed(p[1])')
        BY <1>3, <2>4, <2>6 DEF Sound
  <2>8. ObjectStep(p) /\ ReaderSame(st'[p], st[p])
        BY <1>1, <1>2, <1>3, <1>4, <2>3, <2>4, <2>6, <2>7, WriterStep
  <2> QED BY <1>2, <1>4, <1>8, <2>2, <2>3, <2>8
<1>9. CASE FrameRefused(p[1]) /\ WriteFrame(p) /\ st' = [st EXCEPT ![p].wr = 0]
  <2>2. PICK r : r = [st[p] EXCEPT !.wr = 0]
        OBVIOUS
  <2>3. st' = [st EXCEPT ![p] = r] /\ UNCHANGED <<wire, rl, frame>>
        BY <1>1, <1>9, <2>2 DEF WriteFrame, FrameRefused
  <2>4. /\ r.id = st[p].id /\ r.own = st[p].own /\ r.late = st[p].late
        /\ r.readErr = st[p].readErr /\ r.seen = st[p].seen /\ r.got = st[p].got
        /\ r.buf = st[p].buf /\ r.cl = st[p].cl /\ r.sent = st[p].sent /\ r.over = st[p].over
        BY <1>1, <2>2 DEF StreamState
  <2>5. Sound(st[p], Closed(p[1])) => Sound(r, Closed(p[1])')
        BY <1>3, <2>4 DEF Sound
  <2>6. WriterSame(r, st[p], Closed(p[1])' \/ broken')
        BY <2>4 DEF WriterSame
  <2> QED BY <1>1, <1>2, <1>3, <1>4, <2>3, <2>4, <2>5, <2>6, WriterStep
<1>10. CASE \E k \in 1..MaxWrites : Read(p, k)
  <2>1. PICK k \in 1..MaxWrites : Read(p, k)
        BY <1>10
  <2>2. PICK r : r = [st[p] EXCEPT !.got = st[p].buf[k], !.buf = AfterRead(st[p].buf, k)]
        OBVIOUS
  <2>3. st' = [st EXCEPT ![p] = r] /\ UNCHANGED <<wire, rl, frame, closeErr>> /\ k <= Len(st[p].buf)
        BY <1>1, <2>1, <2>2 DEF Read, OnlyStreams
  <2>4. /\ r.id = st[p].id /\ r.own = st[p].own /\ r.late = st[p].late
        /\ r.readErr = st[p].readErr /\ r.seen = st[p].seen /\ r.got = st[p].buf[k]
        /\ r.buf = AfterRead(st[p].buf, k) /\ r.cl = st[p].cl /\ r.sent = st[p].sent
        /\ r.over = st[p].over
        BY <1>1, <2>2 DEF StreamState
  <2>5. st[p].buf # <<>> /\ k \in 1..Len(st[p].buf)
    <3>1. ~ k <= Len(<<>>)
          OBVIOUS
    <3>2. st[p].buf \in Seq(1..MaxWrites)
          BY <1>1 DEF StreamState
    <3> QED BY <2>3, <3>1, <3>2
  <2>6. Ended(p) => Ended(p)' /\ st[p].seen # "EOF"
        BY <1>2, <1>4, <2>3, <2>4, <2>5 DEF Ended
  <2>7. ReaderSame(r, st[p])
        BY <1>1, <2>4, <2>5, ReadGoes
  <2>8. ObjectStep(p) /\ \A ended : WriterSame(st'[p], st[p], ended)
        BY <1>1, <1>3, <1>4, <2>3, <2>4, <2>6, ReaderStep
  <2> QED BY <1>2, <1>4, <2>3, <2>7, <2>8
<1>11. CASE ReadEnd(p)
  <2>2. PICK r : r = [st[p] EXCEPT !.seen = st[p].readErr]
        OBVIOUS
  <2>3. /\ st' = [st EXCEPT ![p] = r] /\ UNCHANGED <<wire, rl, frame, closeErr>>
        /\ st[p].buf = <<>> /\ st[p].seen = "none"
        BY <1>1, <1>11, <2>2 DEF ReadEnd, AtEnd, OnlyStreams
  <2>4. /\ r.id = st[p].id /\ r.own = st[p].own /\ r.late = st[p].late
        /\ r.readErr = st[p].readErr /\ r.seen = st[p].readErr /\ r.got = st[p].got
        /\ r.buf = st[p].buf /\ r.cl = st[p].cl /\ r.sent = st[p].sent /\ r.over = st[p].over
        BY <1>1, <2>2 DEF StreamState
  <2>5. Ended(p) => Ended(p)' /\ st[p].seen # "EOF"
        BY <1>2, <1>4, <2>3, <2>4 DEF Ended
  <2>6. ReaderSame(r, st[p])
        BY <2>4 DEF ReaderSame, Goes
  <2>7. ObjectStep(p) /\ \A ended : WriterSame(st'[p], st[p], ended)
        BY <1>1, <1>3, <1>4, <2>3, <2>4, <2>5, ReaderStep
  <2> QED BY <1>2, <1>4, <2>3, <2>6, <2>7
<1> QED BY <1>5, <1>6, <1>7, <1>8, <1>9, <1>10, <1>11 DEF StreamNext, WriteFrame

-----------------------------------------------------------------------------
(* The kinds of steps: those that write a frame, dispatch one, make an     *)
(* object or lose frames, and the others, which are quiet.                 *)

\* The map holds objects, each under its ID.
MapOK ==
    \A e \in Ends, id \in IDs : streams[e][id] # NoStream => streams[e][id] \in At(e, id)

\* Objects, maps and lines are as they were, but for what callers read and for
\* closes whose zero-length frame nobody will miss.
Quiet ==
    /\ made' = made /\ streams' = streams
    /\ \A e \in Ends : Line(e)' = Line(e)
    /\ \A p \in AllMade : /\ ObjectStep(p) /\ ReaderSame(st'[p], st[p])
                          /\ WriterSame(st'[p], st[p], Closed(p[1])' \/ broken')

\* A caller's step on p hands its reader nothing.
CallerStep(p) ==
    /\ made' = made /\ streams' = streams /\ UNCHANGED <<rl, frame, broken>>
    /\ \A q \in AllMade : q # p => st'[q] = st[q]
    /\ ObjectStep(p) /\ ReaderSame(st'[p], st[p])

Writes(p) ==
    /\ CallerStep(p) /\ FrameWritten(p[1], DataFrame(p)) /\ st'[p] = Sent(st[p])
    /\ st[p].wr > 0

Closes(p) ==
    /\ CallerStep(p) /\ st'[p] = [st[p] EXCEPT !.cl = "done"] /\ st[p].cl = "flag" /\ ~broken
    /\ FrameWritten(p[1], [id |-> st[p].id, n |-> 0, late |-> FALSE])

Opens(e) == OpenStream(e) /\ ~Exhausted(e)

LEMMA QuietSame ==
    ASSUME TypeInv, FlagsKept, made' = made, streams' = streams,
           \A e \in Ends : Line(e)' = Line(e), \A p \in AllMade : st'[p] = st[p]
    PROVE  Quiet
<1>1. \A p \in AllMade : p \in AllMade' /\ p[1] \in Ends
      BY MadeFacts DEF AllMade, Made
<1>2. ASSUME NEW p \in AllMade
      PROVE  /\ ObjectStep(p) /\ ReaderSame(st'[p], st[p])
             /\ WriterSame(st'[p], st[p], Closed(p[1])' \/ broken')
      BY <1>1, SameObject
<1> QED BY <1>2 DEF Quiet

\* sessionClosed leaves a reader what it has, and does not take io.EOF back.
LEMMA RangeQuiet ==
    ASSUME TypeInv, MapOK, FlagsKept, NEW e \in Ends, CloseRange(e)
    PROVE  Quiet
<1> USE DEF mapVars, netVars, loopVars
<1>1. made' = made /\ streams' = streams /\ UNCHANGED <<wire, frame, rl, closeErr>>
      BY DEF CloseRange
<1>2. \A x \in Ends : Line(x)' = Line(x)
      BY <1>1, LinesSame
<1>3. ASSUME NEW p \in AllMade
      PROVE  /\ ObjectStep(p) /\ ReaderSame(st'[p], st[p])
             /\ WriterSame(st'[p], st[p], Closed(p[1])' \/ broken')
  <2>1. p \in Stream /\ p[1] \in Ends /\ st[p] \in StreamState /\ p \in AllMade'
        BY <1>1, MadeFacts DEF AllMade, Made
  <2>2. CASE st'[p] = st[p]
        BY <1>1, <2>1, <2>2, SameObject
  <2>3. CASE st'[p] # st[p]
    <3>1. PICK id \in IDs : streams[e][id] = p /\ st'[p] = SessionClosed(st[p], closeErr[e])
          BY <2>1, <2>3 DEF CloseRange
    <3>2. p[1] = e
      <4>1. p \in At(e, id)
            BY <2>1, <3>1, NotNoStream DEF MapOK
      <4> QED BY <4>1, AtFacts
    <3>3. PICK r : r = SessionClosed(st[p], closeErr[e])
          OBVIOUS
    <3>4. /\ r.id = st[p].id /\ r.own = st[p].own /\ r.late = st[p].late
          /\ r.readErr = (IF st[p].readErr = "none" THEN closeErr[e] ELSE st[p].readErr)
          /\ r.seen = st[p].seen /\ r.got = st[p].got
          /\ r.buf = st[p].buf /\ r.cl = st[p].cl /\ r.sent = st[p].sent /\ r.over = st[p].over
          BY <2>1, <3>3 DEF StreamState, SessionClosed
    <3>5. Ended(p) => Ended(p)' /\ (st[p].seen = "EOF" => Still(st'[p], st[p]))
      <4>1. st'[p] = r /\ streams' = streams /\ closeErr' = closeErr
            BY <1>1, <3>1, <3>3
      <4>2. Still(st'[p], st[p])
            BY <3>4, <4>1 DEF Still
      <4>3. ASSUME Ended(p), st'[p].readErr = "EOF"
            PROVE  streams'[p[1]][st'[p].id] # p \/ closeErr'[p[1]] = "EOF"
        <5>1. CASE st[p].readErr = "none"
              BY <3>2, <3>4, <4>1, <4>3, <5>1
        <5>2. CASE st[p].readErr # "none"
          <6>1. st[p].readErr = "EOF"
                BY <3>4, <4>1, <4>3, <5>2
          <6> QED BY <3>4, <4>1, <4>3, <6>1 DEF Ended
        <5> QED BY <5>1, <5>2
      <4>4. ASSUME Ended(p), st'[p].seen = "EOF"
            PROVE  st'[p].readErr = "EOF" /\ st'[p].buf = <<>>
            BY <3>4, <4>1, <4>4 DEF Ended
      <4> QED BY <4>2, <4>3, <4>4 DEF Ended
    <3>6. ReaderSame(st'[p], st[p])
          BY <3>1, <3>3, <3>4 DEF ReaderSame, Goes
    <3>7. st[p].readErr # "none" => r.readErr # "none"
          BY <3>4
    <3>8. r = st'[p]
          BY <3>1, <3>3
    <3>9. ObjectStep(p) /\ \A ended : WriterSame(st'[p], st[p], ended)
          BY <2>1, <3>4, <3>5, <3>7, <3>8, ReaderStep
    <3> QED BY <3>6, <3>9
  <2> QED BY <2>2, <2>3
<1> QED BY <1>1, <1>2, <1>3 DEF Quiet

\* AcceptStream gives the caller the stream.
LEMMA AcceptQuiet ==
    ASSUME TypeInv, FlagsKept, NEW e \in Ends, AcceptStream(e)
    PROVE  Quiet
<1> USE DEF mapVars, netVars, loopVars, closeVars
<1>1. made' = made /\ streams' = streams /\ UNCHANGED <<wire, frame, rl, closeErr>>
      BY DEF AcceptStream
<1>2. \A x \in Ends : Line(x)' = Line(x)
      BY <1>1, LinesSame
<1>3. PICK h : h = Head(acceptChan[e])
      OBVIOUS
<1>4. ASSUME NEW p \in AllMade
      PROVE  /\ ObjectStep(p) /\ ReaderSame(st'[p], st[p])
             /\ WriterSame(st'[p], st[p], Closed(p[1])' \/ broken')
  <2>1. p \in Stream /\ p[1] \in Ends /\ st[p] \in StreamState /\ p \in AllMade'
        BY <1>1, MadeFacts DEF AllMade, Made
  <2>2. CASE p # h
    <3>1. st'[p] = st[p]
          BY <1>3, <2>1, <2>2 DEF AcceptStream, TypeInv, StreamsOK
    <3> QED BY <1>1, <2>1, <3>1, SameObject
  <2>3. CASE p = h
    <3>1. PICK r : r = [st[p] EXCEPT !.held = TRUE]
          OBVIOUS
    <3>2. st'[p] = r
          BY <1>3, <2>1, <2>3, <3>1 DEF AcceptStream, TypeInv, StreamsOK
    <3>3. /\ r.id = st[p].id /\ r.own = st[p].own /\ r.late = st[p].late
          /\ r.readErr = st[p].readErr /\ r.seen = st[p].seen /\ r.got = st[p].got
          /\ r.buf = st[p].buf /\ r.cl = st[p].cl /\ r.sent = st[p].sent /\ r.over = st[p].over
          BY <2>1, <3>1 DEF StreamState
    <3>4. Ended(p) => Ended(p)' /\ (st[p].seen = "EOF" => Still(st'[p], st[p]))
          BY <1>1, <3>2, <3>3 DEF Ended, Still
    <3>5. ReaderSame(st'[p], st[p])
          BY <3>2, <3>3 DEF ReaderSame, Goes
    <3>6. ObjectStep(p) /\ \A ended : WriterSame(st'[p], st[p], ended)
          BY <2>1, <3>2, <3>3, <3>4, ReaderStep
    <3> QED BY <3>5, <3>6
  <2> QED BY <2>2, <2>3
<1> QED BY <1>1, <1>2, <1>4 DEF Quiet

LEMMA CallerKinds ==
    ASSUME TypeInv, FlagsKept, NEW p \in AllMade, StreamNext(p)
    PROVE  Quiet \/ Writes(p) \/ Closes(p)
<1> USE DEF netVars, loopVars
<1>1. /\ made' = made /\ streams' = streams
      /\ \A q \in AllMade : q # p => st'[q] = st[q]
      /\ ObjectStep(p) /\ ReaderSame(st'[p], st[p])
      BY StreamNextObject
<1>2. ASSUME UNCHANGED <<wire, rl, frame>>, WriterSame(st'[p], st[p], Closed(p[1])' \/ broken')
      PROVE  Quiet
  <2>1. \A x \in Ends : Line(x)' = Line(x)
        BY <1>2, LinesSame
  <2>2. ASSUME NEW q \in AllMade, q # p
        PROVE  /\ ObjectStep(q) /\ ReaderSame(st'[q], st[q])
               /\ WriterSame(st'[q], st[q], Closed(q[1])' \/ broken')
    <3>1. q \in AllMade' /\ q[1] \in Ends /\ st'[q] = st[q]
          BY <1>1, <2>2, MadeFacts DEF AllMade, Made
    <3> QED BY <1>1, <3>1, SameObject
  <2> QED BY <1>1, <1>2, <2>1, <2>2 DEF Quiet
<1>3. ASSUME WriteFrame(p), FrameWritten(p[1], DataFrame(p)), st'[p] = Sent(st[p])
      PROVE  Writes(p)
      BY <1>1, <1>3 DEF WriteFrame, Writes, CallerStep
<1>4. ASSUME CloseFrame(p), ~broken,
             FrameWritten(p[1], [id |-> st[p].id, n |-> 0, late |-> FALSE])
      PROVE  Closes(p)
  <2>1. p \in Stream
        BY MadeFacts
  <2>2. st'[p] = [st[p] EXCEPT !.cl = "done"] /\ st[p].cl = "flag"
        BY <1>4, <2>1 DEF CloseFrame, TypeInv, StreamsOK
  <2> QED BY <1>1, <1>4, <2>2 DEF CloseFrame, Closes, CallerStep
<1> QED BY <1>2, <1>3, <1>4, StreamNextObject

LEMMA NextKinds ==
    ASSUME TypeInv, MapOK, FlagsKept, [Next]_vars
    PROVE  \/ Quiet
           \/ Lose
           \/ \E p \in AllMade : Writes(p) \/ Closes(p)
           \/ \E e \in Ends : DispatchKnown(e) \/ DispatchNew(e) \/ Opens(e)
<1> USE DEF mapVars, netVars, loopVars
<1>1. ASSUME made' = made, streams' = streams, st' = st, UNCHANGED <<wire, frame>>,
             \A x \in Ends : rl'[x] = "dispatch" <=> rl[x] = "dispatch"
      PROVE  Quiet
      BY <1>1, LinesSame, QuietSame
<1>2. CASE UNCHANGED vars
      BY <1>1, <1>2 DEF vars
<1>3. ASSUME NEW e \in Ends, SessionNext(e)
      PROVE  Quiet \/ Opens(e)
  <2>1. CASE OpenStreamCheck(e) \/ CloseSession(e) \/ CloseConn(e)
        BY <1>1, <2>1 DEF OpenStreamCheck, CloseSession, CloseConn
  <2>2. CASE OpenStream(e) /\ Exhausted(e)
        BY <1>1, <2>2 DEF OpenStream
  <2> QED BY <1>3, <2>1, <2>2, RangeQuiet, AcceptQuiet DEF SessionNext, Opens
<1>4. ASSUME NEW e \in Ends, ReadLoop(e)
      PROVE  Quiet \/ DispatchKnown(e) \/ DispatchNew(e)
  <2>1. CASE ReadFrame(e)
    <3>1. \A x \in Ends : Line(x)' = Line(x)
          BY <2>1, LineRead
    <3> QED BY <2>1, <3>1, QuietSame DEF ReadFrame
  <2>2. CASE ReadFail(e) \/ OfferStream(e)
    <3>1. \A x \in Ends : rl'[x] = "dispatch" <=> rl[x] = "dispatch"
          BY <2>2 DEF ReadFail, OfferStream, TypeInv, SessionsOK
    <3> QED BY <1>1, <2>2, <3>1 DEF ReadFail, OfferStream
  <2> QED BY <1>4, <2>1, <2>2 DEF ReadLoop
<1> QED BY <1>2, <1>3, <1>4, CallerKinds DEF Next

-----------------------------------------------------------------------------
(* The invariant.                                                          *)

\* The origin has had the zero-length frame, and the map forgot it.
Gone(e, id) == At(e, id) # {} /\ streams[e][id] # Origin(e, id)

\* A frame's stream is there at the end that wrote it.
FramesAt == \A e \in Ends : \A i \in 1..Len(Line(e)) : At(e, Line(e)[i].id) # {}

\* From the writer at e to the reader at the other end, one ID.
Dir(e, id) ==
    LET o == Other(e)
        L == Line(e)
        W == State(e, id)
    IN  /\ Link(L, id, Handed(o, id), W.sent)
        /\ ~broken => Complete(L, id, Handed(o, id), W.sent)
        /\ HasZero(L, id) => W.cl = "done" /\ (W.sent > 0 \/ At(o, id) # {})
        /\ HasLate(L, id) => W.over > 0 /\ (Gone(o, id) \/ LateAfter(L, id))
        /\ Gone(o, id) => W.cl = "done" /\ None(L, id) /\ Handed(o, id) = W.sent
        /\ W.cl = "done" /\ ~broken /\ ~Closed(e) => HasZero(L, id) \/ Gone(o, id)
        /\ W.over = 0 => \A q \in At(o, id) : q = Origin(o, id)
        /\ Goes(State(o, id))

Taken(id) == \E e \in Ends : \E k \in Nat : k < opens[e] /\ id = FirstID(e) + 2 * k

IDsTaken == \A p \in AllMade : Taken(st[p].id)

InMapOrEnded ==
    \A p \in AllMade : streams[p[1]][st[p].id] = p \/ st[p].readErr # "none"

DirInv == \A e \in Ends, id \in IDs : Sole(e, id) => Dir(e, id)

MuxInv ==
    /\ IDInv /\ SessionInv /\ ObjectInv /\ GhostInv
    /\ MapOK /\ InMapOrEnded /\ IDsTaken /\ FramesAt /\ DirInv
-----------------------------------------------------------------------------
(* The objects in the steps that make one.                                 *)

\* A new object p of e, stored under id.
NewObject(e, id, p, r) ==
    /\ p \in Stream /\ p[1] = e /\ p \notin AllMade /\ AllMade' = AllMade \cup {p}
    /\ st'[p] = r /\ \A q \in AllMade : st'[q] = st[q]
    /\ \A q \in Made(e) : q[2] < p[2]
    /\ \A x \in Ends, i \in IDs :
          streams'[x][i] = IF x = e /\ i = id THEN p ELSE streams[x][i]

LEMMA Birth ==
    ASSUME IDInv, NEW e \in Ends, NEW id \in IDs, Store(e, id, TRUE),
           NEW p, p = <<e, made[e] + 1>>, NEW r, st' = [st EXCEPT ![p] = r]
    PROVE  NewObject(e, id, p, r)
<1>1. /\ p \in Stream /\ p[1] = e /\ p \notin AllMade /\ AllMade' = AllMade \cup {p}
  <2>1. p[1] = e
        OBVIOUS
  <2> QED BY <2>1, StoreMade
<1>2. TypeInv
      BY DEF IDInv
<1>3. st'[p] = r /\ \A q \in AllMade : st'[q] = st[q]
      BY <1>1, <1>2, MadeIsStream DEF TypeInv, StreamsOK
<1>4. \A q \in Made(e) : q[2] < p[2]
  <2>1. made[e] \in Nat /\ p[2] = made[e] + 1
        BY <1>2, Bounds DEF TypeInv, SessionsOK
  <2>2. \A q \in Made(e) : q[2] <= made[e] /\ q[2] \in Nat
        BY DEF Made, Stream
  <2> QED BY <2>1, <2>2
<1>5. /\ streams \in [Ends -> [IDs -> Stream \cup {NoStream}]]
      /\ streams' = [streams EXCEPT ![e][id] = p]
      BY <1>2 DEF Store, TypeInv, SessionsOK
<1>6. \A x \in Ends, i \in IDs :
         streams'[x][i] = IF x = e /\ i = id THEN p ELSE streams[x][i]
      BY <1>5
<1> QED BY <1>1, <1>3, <1>4, <1>6 DEF NewObject

\* It is enough to look at the new one.
LEMMA BirthStep ==
    ASSUME IDInv, FlagsKept, NEW e \in Ends, NEW id \in IDs,
           NEW p, NEW r, NewObject(e, id, p, r), Born(p)
    PROVE  ObjectsStep
<1>1. /\ p \in Stream /\ p[1] = e /\ p \notin AllMade /\ AllMade' = AllMade \cup {p}
      /\ st'[p] = r /\ \A q \in AllMade : st'[q] = st[q]
      /\ \A x \in Ends, i \in IDs :
            streams'[x][i] = IF x = e /\ i = id THEN p ELSE streams[x][i]
      BY DEF NewObject
<1>2. ASSUME NEW q \in AllMade PROVE ObjectStep(q)
  <2>1. q \in AllMade' /\ q[1] \in Ends /\ st[q].id \in IDs /\ st'[q] = st[q] /\ q # p
        BY <1>1, MadeFacts DEF IDInv
  <2>2. streams[q[1]][st[q].id] # q => streams'[q[1]][st[q].id] # q
        BY <1>1, <2>1
  <2> QED BY <2>1, <2>2, SameObject
<1> QED BY <1>1, <1>2 DEF ObjectsStep

\* The streams of an ID that only one end has are its own: there is one.
LEMMA OneSided ==
    ASSUME IDInv, ObjectInv, NEW e \in Ends, NEW id, At(Other(e), id) = {}
    PROVE  Sole(e, id) /\ \A p, q \in At(e, id) : p = q
<1>1. ASSUME NEW p \in At(e, id), NEW q \in At(e, id) PROVE p = q
  <2>1. p \in AllMade /\ q \in AllMade /\ p[1] = e /\ q[1] = e /\ st[p].id = id /\ st[q].id = id
        BY AtFacts
  <2>2. st[p].own /\ st[q].own
        BY <2>1 DEF ObjectInv
  <2> QED BY <2>1, <2>2 DEF IDInv, OpenedIDsUnique
<1>2. \A p \in At(e, id) : p = Origin(e, id)
      BY <1>1, OriginFacts
<1> QED BY <1>1, <1>2 DEF Sole

\* An end that has no stream of an ID has been handed nothing.
LEMMA NothingHanded ==
    ASSUME NEW e \in Ends, NEW id, At(e, id) = {}
    PROVE  /\ Handed(e, id) = 0 /\ State(e, id).sent = 0 /\ State(e, id).over = 0
           /\ State(e, id).cl = "no" /\ Goes(State(e, id)) /\ ~Gone(e, id)
<1>1. State(e, id) = NewTCPStream(id, FALSE, FALSE)
      BY DEF State
<1>2. PICK r : r = NewTCPStream(id, FALSE, FALSE)
      OBVIOUS
<1>3. r.got = 0 /\ r.buf = <<>> /\ Len(r.buf) = 0 /\ r.sent = 0 /\ r.over = 0 /\ r.cl = "no"
      BY <1>2 DEF NewTCPStream
<1>4. Handed(e, id) = 0 /\ Goes(State(e, id))
  <2>1. 0 + 0 = 0 /\ 1..0 = {}
        OBVIOUS
  <2>2. Handed(e, id) = State(e, id).got + Len(State(e, id).buf)
        BY DEF Handed
  <2> QED BY <1>1, <1>2, <1>3, <2>1, <2>2 DEF Goes
<1> QED BY <1>1, <1>2, <1>3, <1>4 DEF Gone

\* The frame that makes the first stream of an ID at e is its first.
LEMMA FirstFrame ==
    ASSUME MuxInv, NEW e \in Ends, rl[e] = "dispatch", NEW id \in IDs, id = frame[e].id,
           At(e, id) = {}
    PROVE  /\ Mine(frame[e], id) /\ frame[e].n = 1
           /\ LET L == Line(Other(e)) IN
                 /\ Sole(Other(e), id) /\ L # <<>> /\ Head(L) = frame[e] /\ L \in Seq(Frame)
<1>1. TypeInv /\ IDInv /\ ObjectInv
      BY DEF MuxInv, IDInv
<1>2. PICK o \in Ends : o = Other(e) /\ e = Other(o)
      BY EndsFacts
<1>3. Sole(o, id)
      BY <1>1, <1>2, OneSided
<1>4. Dir(o, id)
      BY <1>2, <1>3 DEF MuxInv, DirInv
<1>5. PICK L \in Seq(Frame) : L = Line(o)
      BY <1>1, LineType
<1>6. wire[o] \in Seq(Frame) /\ frame[e] \in Frame
      BY <1>1 DEF TypeInv, SessionsOK
<1>7. L # <<>> /\ Head(L) = frame[e]
  <2>1. L = <<frame[e]>> \o wire[o]
        BY <1>2, <1>5 DEF Line
  <2> QED BY <1>6, <2>1
<1>8. PICK S \in Nat : S = State(o, id).sent
      BY <1>1, PairTypes
<1>9. Handed(e, id) = 0 /\ ~Gone(e, id)
      BY NothingHanded
<1>10. /\ Link(L, id, 0, S)
       /\ HasZero(L, id) => S > 0
       /\ HasLate(L, id) => LateAfter(L, id)
      BY <1>2, <1>4, <1>5, <1>8, <1>9 DEF Dir
<1>11. ~Late(frame[e], id)
  <2>1. Late(frame[e], id) => HasLate(L, id)
    <3>1. 1 \in 1..Len(L) /\ L[1] = frame[e]
          BY <1>5, <1>7, TailFacts
    <3> QED BY <3>1 DEF HasLate
  <2> QED BY <1>5, <1>7, <1>10, <2>1, TailLate
<1>12. Mine(frame[e], id)
      BY <1>11 DEF Mine, Late
<1>13. frame[e].n # 0
  <2> SUFFICES ASSUME frame[e].n = 0 PROVE FALSE
      OBVIOUS
  <2>1. 0 = S /\ HasZero(L, id)
    <3>1. Mine(Head(L), id) /\ Head(L).n = 0 /\ L # <<>> /\ Link(L, id, 0, S) /\ 0 \in Nat
          BY <1>7, <1>10, <1>12
    <3> QED BY <3>1, TailZero
  <2> QED BY <1>10, <2>1
<1>14. frame[e].n = 0 + 1
      BY <1>5, <1>7, <1>8, <1>10, <1>12, <1>13, TailData
<1>15. frame[e].n = 1
      BY <1>14
<1> QED BY <1>2, <1>3, <1>5, <1>7, <1>12, <1>15

\* The frame that makes another one is late.
LEMMA GhostFrame ==
    ASSUME MuxInv, NEW e \in Ends, rl[e] = "dispatch", NEW id \in IDs, id = frame[e].id,
           Gone(e, id), Sole(Other(e), id)
    PROVE  /\ Late(frame[e], id) /\ ~Mine(frame[e], id) /\ State(Other(e), id).over > 0
           /\ Dir(Other(e), id)
<1>1. TypeInv
      BY DEF MuxInv, IDInv
<1>2. PICK o \in Ends : o = Other(e) /\ e = Other(o)
      BY EndsFacts
<1>3. Dir(o, id)
      BY <1>2 DEF MuxInv, DirInv
<1>4. PICK L \in Seq(Frame) : L = Line(o)
      BY <1>1, LineType
<1>5. L[1] = frame[e] /\ 1 \in 1..Len(L)
  <2>1. L = <<frame[e]>> \o wire[o] /\ wire[o] \in Seq(Frame) /\ frame[e] \in Frame
        BY <1>1, <1>2, <1>4 DEF Line, TypeInv, SessionsOK
  <2> QED BY <2>1
<1>6. None(L, id) /\ (HasLate(L, id) => State(o, id).over > 0)
      BY <1>2, <1>3, <1>4 DEF Dir
<1>7. ~Mine(frame[e], id)
      BY <1>5, <1>6 DEF None
<1>8. Late(frame[e], id)
      BY <1>7 DEF Mine, Late
<1>9. HasLate(L, id)
      BY <1>5, <1>8 DEF HasLate
<1> QED BY <1>2, <1>3, <1>6, <1>7, <1>8, <1>9

LEMMA NewObjects ==
    ASSUME MuxInv, FlagsKept, NEW e \in Ends, DispatchNew(e)
    PROVE  ObjectsStep
<1>1. TypeInv /\ IDInv
      BY DEF MuxInv, IDInv
<1>2. PICK o \in Ends : o = Other(e) /\ e = Other(o) /\ o # e
      BY EndsFacts
<1>3. PICK id \in IDs, n \in 0..MaxWrites : frame[e].id = id /\ frame[e].n = n
      BY <1>1 DEF TypeInv, SessionsOK, Frame
<1>4. PICK p : p = <<e, made[e] + 1>>
      OBVIOUS
<1>5. PICK c \in BOOLEAN : c = Closed(e)
      BY ClosedBoolean
<1>6. PICK q : q = NewTCPStream(id, FALSE, c)
      OBVIOUS
<1>7. PICK r : r = PushData(q, n)
      OBVIOUS
<1>8. Store(e, id, TRUE) /\ st' = [st EXCEPT ![p] = r] /\ rl[e] = "dispatch"
      /\ streams[e][id] = NoStream
      BY <1>3, <1>4, <1>5, <1>6, <1>7 DEF DispatchNew, FirstPush, Target, Store
<1>9. NewObject(e, id, p, r)
      BY <1>1, <1>4, <1>8, Birth
<1>10. /\ p \in Stream /\ p[1] = e /\ p \notin AllMade /\ AllMade' = AllMade \cup {p}
       /\ st'[p] = r /\ \A x \in AllMade : st'[x] = st[x]
       /\ \A x \in Made(e) : x[2] < p[2]
      BY <1>9 DEF NewObject
<1>11. /\ q.id = id /\ q.own = FALSE /\ q.late = c /\ q.seen = "none" /\ q.readErr = "none"
       /\ q.sent = 0 /\ q.over = 0 /\ q.cl = "no"
      BY <1>6 DEF NewTCPStream
<1>12. q \in StreamState
      BY <1>6, NewStreamType DEF Fits
<1>13. /\ r.id = id /\ r.own = FALSE /\ r.late = c /\ r.seen = "none"
       /\ r.readErr = (IF n = 0 THEN "EOF" ELSE "none")
       /\ r.sent = 0 /\ r.over = 0 /\ r.cl = "no"
      BY <1>7, <1>11, <1>12 DEF PushData, StreamState
<1>14. At(o, id) # {}
  <2>1. PICK L \in Seq(Frame) : L = Line(o)
        BY <1>1, LineType
  <2>2. L[1] = frame[e] /\ 1 \in 1..Len(L)
    <3>1. L = <<frame[e]>> \o wire[o] /\ wire[o] \in Seq(Frame) /\ frame[e] \in Frame
          BY <1>1, <1>2, <1>8, <2>1 DEF Line, TypeInv, SessionsOK
    <3> QED BY <3>1
  <2> QED BY <1>3, <2>1, <2>2 DEF MuxInv, FramesAt
<1>15. At(e, id) = {} => Ended(p)'
  <2> SUFFICES ASSUME At(e, id) = {} PROVE Ended(p)'
      OBVIOUS
  <2>1. n # 0
        BY <1>3, <1>8, FirstFrame
  <2> QED BY <1>10, <1>13, <2>1 DEF Ended
<1>16. At(e, id) # {} => \E w \in AllMade : st[w].id = id /\ st[w].over > 0
  <2> SUFFICES ASSUME At(e, id) # {}, \A w \in AllMade : st[w].id = id => ~(st[w].over > 0)
               PROVE  FALSE
      OBVIOUS
  <2>1. Gone(e, id)
        BY <1>8, OriginFacts, AtFacts, NotNoStream DEF Gone
  <2>2. \A w \in AllMade : st[w].id = id => st[w].over = 0
    <3>1. \A w \in AllMade : st[w].over \in Nat
          BY <1>1, MadeFacts, Bounds DEF StreamState
    <3> QED BY <3>1
  <2>3. Sole(o, id)
    <3>1. \A x \in At(o, id) : x = Origin(o, id)
          BY <2>2 DEF MuxInv, GhostInv
    <3> QED BY <3>1 DEF Sole
  <2>4. State(o, id).over > 0
        BY <1>2, <1>3, <1>8, <2>1, <2>3, GhostFrame
  <2>5. State(o, id) = st[Origin(o, id)] /\ Origin(o, id) \in AllMade /\ Origin(o, id) \in At(o, id)
        BY <1>1, <1>14, StateFacts
  <2>6. PICK w \in AllMade : w = Origin(o, id) /\ st[w].id = id /\ State(o, id) = st[w]
        BY <2>5, AtFacts
  <2>7. st[w].over > 0
        BY <2>4, <2>6
  <2> QED BY <2>6, <2>7
<1>17. Born(p)
  <2>1. \A x \in At(e, id) : x[2] < p[2]
        BY <1>10 DEF At
  <2>2. Sound(st'[p], Closed(p[1])')
        BY <1>10, <1>13 DEF Sound
  <2> QED BY <1>2, <1>5, <1>10, <1>13, <1>14, <1>15, <1>16, <2>1, <2>2 DEF Born
<1> QED BY <1>1, <1>9, <1>17, BirthStep

\* OpenStream takes an ID that was not taken,
LEMMA OpenTakes ==
    ASSUME IDInv, NEW e \in Ends, OpenStream(e), NEW id, id = ActualID(e)
    PROVE  ~Taken(id) /\ Taken(id)'
<1>1. /\ opens \in [Ends -> Nat] /\ nextStreamID[e] = FirstID(e) + 2 * opens[e]
      /\ opens' = [opens EXCEPT ![e] = @ + 1]
      BY DEF IDInv, CounterExact, TypeInv, SessionsOK, OpenStream
<1>2. FirstID("client") = 1 /\ FirstID("server") = 2 /\ FirstID(e) \in {1, 2}
      BY DEF FirstID
<1>3. ASSUME NEW f \in Ends, NEW k \in Nat, k < opens[f], id = FirstID(f) + 2 * k
      PROVE  FALSE
  <2>1. opens[e] \in Nat /\ FirstID(e) + 2 * opens[e] = FirstID(f) + 2 * k
        BY <1>1, <1>3 DEF ActualID
  <2>2. CASE f = e
        BY <1>2, <1>3, <2>1, <2>2
  <2>3. CASE f # e
        BY <1>2, <2>1, <2>3 DEF Ends
  <2> QED BY <2>2, <2>3
<1>4. Taken(id)'
  <2>1. opens[e] \in Nat /\ opens[e] < opens'[e] /\ id = FirstID(e) + 2 * opens[e]
        BY <1>1 DEF ActualID
  <2> QED BY <2>1 DEF Taken
<1> QED BY <1>3, <1>4 DEF Taken

\* so that no stream has it, and no map.
LEMMA OpenFresh ==
    ASSUME MuxInv, NEW e \in Ends, Opens(e)
    PROVE  \E id, p, r :
              /\ id \in IDs /\ id = ActualID(e) /\ \A x \in Ends : At(x, id) = {} /\ streams[x][id] = NoStream
              /\ NewObject(e, id, p, r) /\ r = NewTCPStream(id, TRUE, Closed(e))
              /\ Taken(id)'
<1>1. TypeInv /\ IDInv
      BY DEF MuxInv, IDInv
<1>2. PICK id \in IDs : id = ActualID(e)
  <2>1. nextStreamID[e] \in Nat /\ MaxStreamID \in Nat
        BY <1>1, Bounds DEF TypeInv, SessionsOK
  <2> QED BY <2>1 DEF Opens, Exhausted, ActualID, IDs
<1>3. PICK p : p = <<e, made[e] + 1>>
      OBVIOUS
<1>4. PICK r : r = NewTCPStream(id, TRUE, Closed(e))
      OBVIOUS
<1>5. Store(e, id, TRUE) /\ st' = [st EXCEPT ![p] = r]
      BY <1>2, <1>3, <1>4 DEF Opens, OpenStream
<1>6. NewObject(e, id, p, r)
      BY <1>1, <1>3, <1>5, Birth
<1>7. ~Taken(id) /\ Taken(id)'
      BY <1>1, <1>2, OpenTakes DEF Opens
<1>8. ASSUME NEW x \in Ends PROVE At(x, id) = {} /\ streams[x][id] = NoStream
  <2>1. At(x, id) = {}
        BY <1>7, AtFacts DEF MuxInv, IDsTaken
  <2> QED BY <2>1 DEF MuxInv, MapOK
<1> QED BY <1>2, <1>4, <1>6, <1>7, <1>8

LEMMA OpenObjects ==
    ASSUME MuxInv, FlagsKept, NEW e \in Ends, Opens(e)
    PROVE  ObjectsStep
<1>1. TypeInv /\ IDInv
      BY DEF MuxInv, IDInv
<1>2. PICK id, p, r :
              /\ id \in IDs /\ id = ActualID(e) /\ \A x \in Ends : At(x, id) = {} /\ streams[x][id] = NoStream
              /\ NewObject(e, id, p, r) /\ r = NewTCPStream(id, TRUE, Closed(e))
              /\ Taken(id)'
      BY OpenFresh
<1>3. /\ r.id = id /\ r.own = TRUE /\ r.late = Closed(e) /\ r.seen = "none" /\ r.readErr = "none"
      /\ r.sent = 0 /\ r.over = 0 /\ r.cl = "no"
      BY <1>2 DEF NewTCPStream
<1>4. p[1] = e /\ st'[p] = r
      BY <1>2 DEF NewObject
<1>5. Sound(st'[p], Closed(p[1])')
      BY <1>3, <1>4 DEF Sound
<1>6. Ended(p)'
      BY <1>3, <1>4 DEF Ended
<1>7. Born(p)
      BY <1>2, <1>3, <1>4, <1>5, <1>6 DEF Born
<1> QED BY <1>1, <1>2, <1>7, BirthStep

\* The map's stream is not another, and its reader has not been told io.EOF.
LEMMA TargetFacts ==
    ASSUME MuxInv, NEW e \in Ends, rl[e] = "dispatch", Target(e) # NoStream,
           NEW id \in IDs, id = frame[e].id, NEW p, p = Target(e)
    PROVE  /\ p \in At(e, id) /\ p \in AllMade /\ p \in Stream /\ p[1] = e /\ st[p].id = id
           /\ streams[e][id] = p
           /\ p = Origin(e, id) => st[p].readErr # "EOF" /\ st[p].seen # "EOF"
<1>1. p \in At(e, id) /\ streams[e][id] = p
      BY DEF MuxInv, MapOK, Target
<1>2. p \in AllMade /\ p \in Stream /\ p[1] = e /\ st[p].id = id
      BY <1>1, AtFacts
<1>3. closeErr[e] # "EOF"
      BY DEF MuxInv, SessionInv, SessionEOF
<1>4. p = Origin(e, id) => Ended(p)
      BY <1>2 DEF MuxInv, ObjectInv
<1> QED BY <1>1, <1>2, <1>3, <1>4 DEF Ended

LEMMA KnownObjects ==
    ASSUME MuxInv, FlagsKept, NEW e \in Ends, DispatchKnown(e)
    PROVE  /\ ObjectsStep /\ made' = made
           /\ \A q \in AllMade : q # Target(e) => st'[q] = st[q]
           /\ st'[Target(e)] = PushData(st[Target(e)], frame[e].n)
           /\ \A x \in Ends, i \in IDs :
                 streams'[x][i] = IF x = e /\ i = frame[e].id /\ frame[e].n = 0
                                  THEN NoStream ELSE streams[x][i]
<1>1. TypeInv /\ IDInv
      BY DEF MuxInv, IDInv
<1>2. PICK id \in IDs, n \in 0..MaxWrites : frame[e].id = id /\ frame[e].n = n
      BY <1>1 DEF TypeInv, SessionsOK, Frame
<1>3. PICK p : p = Target(e)
      OBVIOUS
<1>4. /\ p \in At(e, id) /\ p \in AllMade /\ p \in Stream /\ p[1] = e /\ st[p].id = id
      /\ streams[e][id] = p
      BY <1>2, <1>3, TargetFacts DEF DispatchKnown
<1>5. closeErr[e] # "EOF"
      BY DEF MuxInv, SessionInv, SessionEOF, DispatchKnown
<1>6. made' = made /\ closeErr' = closeErr /\ AllMade' = AllMade
      BY DEF DispatchKnown, closeVars, AllMade, Made
<1>7. PICK r : r = PushData(st[p], n)
      OBVIOUS
<1>8. /\ st'[p] = r /\ \A q \in AllMade : q # p => st'[q] = st[q]
      BY <1>1, <1>2, <1>3, <1>4, <1>7, MadeFacts DEF DispatchKnown, TypeInv, StreamsOK
<1>9. \A x \in Ends, i \in IDs :
         streams'[x][i] = IF x = e /\ i = id /\ n = 0 THEN NoStream ELSE streams[x][i]
  <2>1. streams \in [Ends -> [IDs -> Stream \cup {NoStream}]]
        BY <1>1 DEF TypeInv, SessionsOK
  <2>2. CASE n = 0
        BY <1>2, <2>1, <2>2 DEF DispatchKnown, RemoveStream
  <2>3. CASE n # 0
        BY <1>2, <2>3 DEF DispatchKnown
  <2> QED BY <2>2, <2>3
<1>10. st[p] \in StreamState
      BY <1>1, <1>4, MadeFacts
<1>11. /\ r.id = st[p].id /\ r.own = st[p].own /\ r.late = st[p].late
       /\ r.seen = st[p].seen /\ r.got = st[p].got /\ r.cl = st[p].cl
       /\ r.sent = st[p].sent /\ r.over = st[p].over
       /\ r.readErr = (IF n = 0 THEN "EOF" ELSE st[p].readErr)
       /\ n = 0 => r.buf = st[p].buf
      BY <1>7, <1>10 DEF PushData, StreamState
<1>12. Ended(p) => Ended(p)' /\ (st[p].seen = "EOF" => Still(st'[p], st[p]))
  <2>1. CASE n = 0
    <3>1. streams'[e][id] = NoStream /\ p # NoStream
          BY <1>4, <1>9, <2>1, NotNoStream
    <3> QED BY <1>4, <1>8, <1>11, <2>1, <3>1 DEF Ended, Still
  <2>2. CASE n # 0
    <3>1. Ended(p) => st[p].readErr # "EOF" /\ st[p].seen # "EOF"
          BY <1>4, <1>5 DEF Ended
    <3> QED BY <1>8, <1>11, <2>2, <3>1 DEF Ended
  <2> QED BY <2>1, <2>2
<1>13. ObjectStep(p)
  <2>1. p \in AllMade'
        BY <1>4, <1>6
  <2>2. st[p].readErr # "none" => r.readErr # "none"
        BY <1>11
  <2> QED BY <1>4, <1>8, <1>11, <1>12, <2>1, <2>2, ReaderStep
<1>14. ASSUME NEW q \in AllMade, streams[q[1]][st[q].id] # q
       PROVE  streams'[q[1]][st[q].id] # q
      BY <1>1, <1>9, <1>14, MadeFacts, NotNoStream
<1>15. ObjectsStep
      BY <1>1, <1>6, <1>8, <1>13, <1>14, OneObject
<1> QED BY <1>2, <1>3, <1>6, <1>7, <1>8, <1>9, <1>15

LEMMA CallerObjects ==
    ASSUME TypeInv, FlagsKept, NEW p \in AllMade, CallerStep(p)
    PROVE  ObjectsStep
<1>1. made' = made /\ streams' = streams /\ ObjectStep(p)
      /\ \A q \in AllMade : q # p => st'[q] = st[q]
      BY DEF CallerStep
<1> QED BY <1>1, OneObject

LEMMA NextObjects ==
    ASSUME MuxInv, FlagsKept, [Next]_vars
    PROVE  ObjectsStep
<1>1. TypeInv /\ MapOK
      BY DEF MuxInv, IDInv
<1>2. CASE Quiet
  <2>1. AllMade' = AllMade /\ \A p \in AllMade : ObjectStep(p)
        BY <1>2 DEF Quiet, AllMade, Made
  <2> QED BY <2>1 DEF ObjectsStep
<1>3. CASE Lose
  <2>1. made' = made /\ streams' = streams /\ st' = st
        BY <1>3 DEF Lose, mapVars
  <2>2. AllMade' = AllMade /\ \A p \in AllMade : p[1] \in Ends
        BY <1>1, <2>1, MadeFacts DEF AllMade, Made
  <2>3. ASSUME NEW p \in AllMade PROVE ObjectStep(p)
        BY <2>1, <2>2, SameObject
  <2> QED BY <2>2, <2>3 DEF ObjectsStep
<1>4. CASE \E p \in AllMade : Writes(p) \/ Closes(p)
  <2>1. PICK p \in AllMade : CallerStep(p)
        BY <1>4 DEF Writes, Closes
  <2> QED BY <1>1, <2>1, CallerObjects
<1>5. CASE \E e \in Ends : DispatchKnown(e) \/ DispatchNew(e) \/ Opens(e)
      BY <1>5, KnownObjects, NewObjects, OpenObjects
<1> QED BY <1>1, <1>2, <1>3, <1>4, <1>5, NextKinds

-----------------------------------------------------------------------------
(* IDs and maps.                                                           *)

\* What is taken stays so.
LEMMA TakenKept ==
    ASSUME TypeInv, [Next]_vars, NEW id, Taken(id)
    PROVE  Taken(id)'
<1>1. opens \in [Ends -> Nat]
      BY DEF TypeInv, SessionsOK
<1>2. opens' = opens \/ \E e \in Ends : opens' = [opens EXCEPT ![e] = @ + 1]
  <2>1. CASE \E e \in Ends : SessionNext(e) \/ ReadLoop(e)
        BY <2>1 DEF SessionNext, ReadLoop, OpenStreamCheck, OpenStream, AcceptStream, CloseSession,
                    CloseConn, CloseRange, ReadFrame, ReadFail, DispatchNew, DispatchKnown,
                    OfferStream, idVars
  <2>2. CASE \E p \in AllMade : StreamNext(p)
        BY <2>2 DEF StreamNext, WriteCheck, WriteFrame, CloseStream, CloseFrame, Read, ReadEnd,
                    OnlyStreams, idVars
  <2>3. CASE Lose \/ UNCHANGED vars
        BY <2>3 DEF Lose, vars, idVars
  <2> QED BY <2>1, <2>2, <2>3 DEF Next
<1>3. \A f \in Ends : \A k \in Nat : k < opens[f] => k < opens'[f]
      BY <1>1, <1>2
<1> QED BY <1>3 DEF Taken

\* Objects and maps in the steps that leave the maps alone,
LEMMA MapStays ==
    ASSUME MuxInv, ObjectsStep, made' = made, streams' = streams
    PROVE  MapOK' /\ InMapOrEnded'
<1>1. TypeInv /\ AllMade' = AllMade
      BY DEF MuxInv, IDInv, AllMade, Made
<1>2. \A p \in AllMade : st'[p].id = st[p].id /\ (st[p].readErr # "none" => st'[p].readErr # "none")
      BY DEF ObjectsStep, ObjectStep, Later
<1>3. MapOK'
      BY <1>1, AtGrows DEF MuxInv, MapOK
<1> QED BY <1>1, <1>2, <1>3 DEF MuxInv, InMapOrEnded

\* in those that store a new object,
LEMMA MapStores ==
    ASSUME MuxInv, ObjectsStep, NEW e \in Ends, NEW id \in IDs, streams[e][id] = NoStream,
           NEW p, NEW r, NewObject(e, id, p, r), r.id = id
    PROVE  MapOK' /\ InMapOrEnded'
<1>1. /\ p \in Stream /\ p[1] = e /\ p \notin AllMade /\ AllMade' = AllMade \cup {p}
      /\ st'[p] = r
      /\ \A x \in Ends, i \in IDs :
            streams'[x][i] = IF x = e /\ i = id THEN p ELSE streams[x][i]
      BY DEF NewObject
<1>2. TypeInv
      BY DEF MuxInv, IDInv
<1>3. p \in At(e, id)'
  <2>1. p \in Made(e)'
        BY <1>1 DEF AllMade, Made
  <2> QED BY <1>1, <2>1 DEF At
<1>4. MapOK'
  <2> SUFFICES ASSUME NEW x \in Ends, NEW i \in IDs, streams'[x][i] # NoStream
               PROVE  streams'[x][i] \in At(x, i)'
      BY DEF MapOK
  <2>1. CASE x = e /\ i = id
        BY <1>1, <1>3, <2>1
  <2>2. CASE ~(x = e /\ i = id)
    <3>1. streams'[x][i] = streams[x][i] /\ streams[x][i] \in At(x, i)
          BY <1>1, <2>2 DEF MuxInv, MapOK
    <3> QED BY <1>2, <3>1, AtGrows
  <2> QED BY <2>1, <2>2
<1>5. InMapOrEnded'
  <2> SUFFICES ASSUME NEW q \in AllMade'
               PROVE  streams'[q[1]][st'[q].id] = q \/ st'[q].readErr # "none"
      BY DEF InMapOrEnded
  <2>1. CASE q = p
        BY <1>1, <2>1
  <2>2. CASE q # p
    <3>1. /\ q \in AllMade /\ q \in Stream /\ q[1] \in Ends /\ st[q].id \in IDs
          BY <1>1, <1>2, <2>2, MadeFacts
    <3>2. st'[q].id = st[q].id /\ (st[q].readErr # "none" => st'[q].readErr # "none")
          BY <3>1 DEF ObjectsStep, ObjectStep, Later
    <3>3. streams[q[1]][st[q].id] = q => streams'[q[1]][st[q].id] = q
          BY <1>1, <3>1, NotNoStream
    <3> QED BY <3>1, <3>2, <3>3 DEF MuxInv, InMapOrEnded
  <2> QED BY <2>1, <2>2
<1> QED BY <1>4, <1>5

\* and when a zero-length frame removes its stream.
LEMMA MapRemoves ==
    ASSUME MuxInv, ObjectsStep, NEW e \in Ends, DispatchKnown(e)
    PROVE  MapOK' /\ InMapOrEnded'
<1>1. TypeInv
      BY DEF MuxInv, IDInv
<1>2. PICK id \in IDs, n \in 0..MaxWrites : frame[e].id = id /\ frame[e].n = n
      BY <1>1 DEF TypeInv, SessionsOK, Frame
<1>3. PICK p : p = Target(e)
      OBVIOUS
<1>4. /\ made' = made /\ st'[p] = PushData(st[p], n)
      /\ \A x \in Ends, i \in IDs :
            streams'[x][i] = IF x = e /\ i = id /\ n = 0 THEN NoStream ELSE streams[x][i]
  <2>1. rl[e] = "dispatch" /\ made' = made
        BY DEF DispatchKnown
  <2>2. p \in AllMade /\ p \in Stream
        BY <1>2, <1>3, <2>1, TargetFacts DEF DispatchKnown
  <2>3. st'[p] = PushData(st[p], n)
        BY <1>1, <1>2, <1>3, <2>2 DEF DispatchKnown, TypeInv, StreamsOK
  <2>4. streams \in [Ends -> [IDs -> Stream \cup {NoStream}]]
        BY <1>1 DEF TypeInv, SessionsOK
  <2>5. CASE n = 0
        BY <1>2, <2>1, <2>3, <2>4, <2>5 DEF DispatchKnown, RemoveStream
  <2>6. CASE n # 0
        BY <1>2, <2>1, <2>3, <2>6 DEF DispatchKnown
  <2> QED BY <2>5, <2>6
<1>5. /\ p \in AllMade /\ p \in Stream /\ p[1] = e /\ st[p].id = id /\ streams[e][id] = p
      BY <1>2, <1>3, TargetFacts DEF DispatchKnown
<1>6. AllMade' = AllMade
      BY <1>4 DEF AllMade, Made
<1>7. MapOK'
      BY <1>1, <1>4, AtGrows DEF MuxInv, MapOK
<1>8. InMapOrEnded'
  <2> SUFFICES ASSUME NEW q \in AllMade
               PROVE  streams'[q[1]][st'[q].id] = q \/ st'[q].readErr # "none"
      BY <1>6 DEF InMapOrEnded
  <2>1. /\ q[1] \in Ends /\ st[q].id \in IDs /\ st'[q].id = st[q].id
        /\ st[q].readErr # "none" => st'[q].readErr # "none"
        BY <1>1, MadeFacts DEF ObjectsStep, ObjectStep, Later
  <2>2. CASE q = p /\ n = 0
    <3>1. st[p] \in StreamState
          BY <1>1, <1>5, MadeFacts
    <3>2. st'[p].readErr = "EOF"
          BY <1>4, <2>2, <3>1 DEF PushData, StreamState
    <3> QED BY <2>2, <3>2
  <2>3. CASE ~(q = p /\ n = 0)
    <3>1. streams[q[1]][st[q].id] = q => streams'[q[1]][st[q].id] = q
          BY <1>4, <1>5, <2>1, <2>3
    <3> QED BY <2>1, <3>1 DEF MuxInv, InMapOrEnded
  <2> QED BY <2>2, <2>3
<1> QED BY <1>7, <1>8

LEMMA NonEmptyKept ==
    ASSUME TypeInv, ObjectsStep, NEW e \in Ends, NEW id, At(e, id) # {}
    PROVE  At(e, id)' # {}
BY OriginKept

\* The frame at the head of a line.
LEMMA HeadOfLine ==
    ASSUME TypeInv, NEW e \in Ends, rl[e] = "dispatch"
    PROVE  \E L \in Seq(Frame) : /\ L = Line(Other(e)) /\ L # <<>> /\ Head(L) = frame[e]
                                 /\ 1 \in 1..Len(L) /\ L[1] = frame[e]
<1>1. PICK L \in Seq(Frame) : L = Line(Other(e))
      BY LineType, EndsFacts
<1>2. wire[Other(e)] \in Seq(Frame) /\ frame[e] \in Frame
      BY EndsFacts DEF TypeInv, SessionsOK
<1>3. L = <<frame[e]>> \o wire[Other(e)]
      BY <1>1, EndsFacts DEF Line
<1>4. PICK W \in Seq(Frame), f \in Frame : W = wire[Other(e)] /\ f = frame[e]
      BY <1>2
<1>5. L = <<f>> \o W
      BY <1>3, <1>4
<1>6. L # <<>> /\ Head(L) = f /\ 1 \in 1..Len(L) /\ L[1] = f
      BY <1>5
<1> QED BY <1>1, <1>4, <1>6

LEMMA MapStep ==
    ASSUME MuxInv, FlagsKept, [Next]_vars
    PROVE  MapOK' /\ InMapOrEnded' /\ IDsTaken'
<1>1. TypeInv /\ IDInv /\ MapOK /\ ObjectsStep
      BY NextObjects DEF MuxInv, IDInv
<1>2. \A p \in AllMade : Taken(st[p].id)'
  <2>1. \A p \in AllMade : st'[p].id = st[p].id /\ Taken(st[p].id)
        BY <1>1 DEF ObjectsStep, ObjectStep, Later, MuxInv, IDsTaken
  <2> QED BY <1>1, <2>1, TakenKept
<1>3. ASSUME made' = made PROVE IDsTaken'
  <2>1. AllMade' = AllMade
        BY <1>3 DEF AllMade, Made
  <2> QED BY <1>2, <2>1 DEF IDsTaken
<1>4. ASSUME made' = made, streams' = streams PROVE MapOK' /\ InMapOrEnded' /\ IDsTaken'
      BY <1>1, <1>3, <1>4, MapStays
<1>5. ASSUME NEW e \in Ends, NEW id \in IDs, streams[e][id] = NoStream,
             NEW p, NEW r, NewObject(e, id, p, r), r.id = id, Taken(id)'
      PROVE  MapOK' /\ InMapOrEnded' /\ IDsTaken'
  <2>1. AllMade' = AllMade \cup {p} /\ st'[p].id = id
        BY <1>5 DEF NewObject
  <2>2. MapOK' /\ InMapOrEnded'
        BY <1>1, <1>5, MapStores
  <2>3. \A q \in AllMade' : Taken(st[q].id)'
        BY <1>2, <1>5, <2>1
  <2> QED BY <2>2, <2>3 DEF IDsTaken
<1>6. CASE Quiet \/ Lose
      BY <1>4, <1>6 DEF Quiet, Lose, mapVars
<1>7. CASE \E p \in AllMade : Writes(p) \/ Closes(p)
      BY <1>4, <1>7 DEF Writes, Closes, CallerStep
<1>8. ASSUME NEW e \in Ends, DispatchKnown(e) PROVE MapOK' /\ InMapOrEnded' /\ IDsTaken'
      BY <1>1, <1>3, <1>8, MapRemoves DEF DispatchKnown
<1>9. ASSUME NEW e \in Ends, DispatchNew(e) PROVE MapOK' /\ InMapOrEnded' /\ IDsTaken'
  <2>1. PICK id \in IDs, n \in 0..MaxWrites : frame[e].id = id /\ frame[e].n = n
        BY <1>1 DEF TypeInv, SessionsOK, Frame
  <2>2. PICK p, r : p = <<e, made[e] + 1>> /\ r = PushData(NewTCPStream(id, FALSE, Closed(e)), n)
        OBVIOUS
  <2>3. Store(e, id, TRUE) /\ st' = [st EXCEPT ![p] = r] /\ streams[e][id] = NoStream
        BY <1>9, <2>1, <2>2 DEF DispatchNew, FirstPush, Target, Store
  <2>4. NewObject(e, id, p, r)
        BY <1>1, <2>2, <2>3, Birth
  <2>5. r.id = id
    <3>1. PICK q : q = NewTCPStream(id, FALSE, Closed(e)) /\ q.id = id /\ Fits(q)
      <4>1. Fits(NewTCPStream(id, FALSE, Closed(e)))
            BY NewStreamType, ClosedBoolean
      <4>2. NewTCPStream(id, FALSE, Closed(e)).id = id
            BY DEF NewTCPStream
      <4> QED BY <4>1, <4>2
    <3> QED BY <2>2, <3>1, PushDataType
  <2>6. Taken(id)'
    <3>1. At(Other(e), id) # {}
      <4>1. PICK L \in Seq(Frame) : L = Line(Other(e)) /\ 1 \in 1..Len(L) /\ L[1] = frame[e]
            BY <1>1, <1>9, HeadOfLine DEF DispatchNew
      <4> QED BY <2>1, <4>1, EndsFacts DEF MuxInv, FramesAt
    <3>2. PICK q \in AllMade : st[q].id = id
          BY <3>1, AtFacts, EndsFacts
    <3>3. Taken(id)
          BY <3>2 DEF MuxInv, IDsTaken
    <3> QED BY <1>1, <3>3, TakenKept
  <2> QED BY <1>5, <2>3, <2>4, <2>5, <2>6
<1>10. ASSUME NEW e \in Ends, Opens(e) PROVE MapOK' /\ InMapOrEnded' /\ IDsTaken'
  <2>1. PICK id, p, r :
              /\ id \in IDs /\ id = ActualID(e) /\ \A x \in Ends : At(x, id) = {} /\ streams[x][id] = NoStream
              /\ NewObject(e, id, p, r) /\ r = NewTCPStream(id, TRUE, Closed(e))
              /\ Taken(id)'
        BY <1>10, OpenFresh
  <2>2. r.id = id
        BY <2>1 DEF NewTCPStream
  <2> QED BY <1>5, <2>1, <2>2
<1> QED BY <1>1, <1>6, <1>7, <1>8, <1>9, <1>10, NextKinds

\* Frames go to the wire from streams there are, and nowhere else.
LEMMA FramesStep ==
    ASSUME MuxInv, FlagsKept, [Next]_vars
    PROVE  FramesAt'
<1>1. TypeInv /\ IDInv /\ MapOK /\ ObjectsStep
      BY NextObjects DEF MuxInv, IDInv
<1>2. ASSUME \A e \in Ends : \A i \in 1..Len(Line(e)') : At(e, Line(e)'[i].id) # {}
      PROVE  FramesAt'
  <2>1. ASSUME NEW e \in Ends, NEW i \in 1..Len(Line(e)') PROVE At(e, Line(e)[i].id)' # {}
    <3>1. PICK id : id = Line(e)'[i].id
          OBVIOUS
    <3>2. At(e, id) # {}
          BY <1>2, <2>1, <3>1
    <3>3. At(e, id)' # {}
          BY <1>1, <3>2, NonEmptyKept
    <3> QED BY <3>1, <3>3
  <2> QED BY <2>1 DEF FramesAt
<1>3. \A e \in Ends : Line(e) \in Seq(Frame) /\ \A i \in 1..Len(Line(e)) : At(e, Line(e)[i].id) # {}
      BY <1>1, LineType DEF MuxInv, FramesAt
<1>4. CASE Quiet
      BY <1>2, <1>3, <1>4 DEF Quiet
<1>5. CASE Lose
  <2>1. ASSUME NEW e \in Ends, NEW i \in 1..Len(Line(e)') PROVE At(e, Line(e)'[i].id) # {}
    <3>1. PICK L \in Seq(Frame) : L = Line(e)
          BY <1>3
    <3>2. PICK k \in 0..Len(L) : Line(e)' = SubSeq(L, 1, k)
          BY <1>1, <1>5, <3>1, LineLost
    <3>3. i \in 1..Len(L) /\ Line(e)'[i] = L[i]
          BY <2>1, <3>2
    <3> QED BY <1>3, <3>1, <3>3
  <2> QED BY <1>2, <2>1
<1>6. ASSUME NEW p \in AllMade, NEW g \in Frame, g.id = st[p].id, CallerStep(p), FrameWritten(p[1], g)
      PROVE  FramesAt'
  <2>1. p[1] \in Ends /\ p \in At(p[1], st[p].id)
        BY <1>1, MadeFacts
  <2>2. CASE broken
    <3>1. \A e \in Ends : Line(e)' = Line(e)
          BY <1>6, <2>2, LinesSame DEF FrameWritten, CallerStep
    <3> QED BY <1>2, <1>3, <3>1
  <2>3. CASE ~broken
    <3>1. Line(p[1])' = Append(Line(p[1]), g) /\ Line(Other(p[1]))' = Line(Other(p[1]))
          BY <1>1, <1>6, <2>1, <2>3, LineWritten DEF FrameWritten, CallerStep
    <3>2. ASSUME NEW e \in Ends, NEW i \in 1..Len(Line(e)') PROVE At(e, Line(e)'[i].id) # {}
      <4>1. CASE e = p[1]
        <5>1. PICK L \in Seq(Frame) : L = Line(e)
              BY <1>3
        <5>2. Line(e)' = Append(L, g)
              BY <3>1, <4>1, <5>1
        <5>3. CASE i = Len(L) + 1
              BY <1>6, <2>1, <4>1, <5>2, <5>3
        <5>4. CASE i \in 1..Len(L)
          <6>1. Append(L, g)[i] = L[i]
                BY <5>4
          <6> QED BY <1>3, <5>1, <5>2, <5>4, <6>1
        <5> QED BY <3>2, <5>2, <5>3, <5>4
      <4>2. CASE e = Other(p[1])
            BY <1>3, <3>1, <3>2, <4>2
      <4> QED BY <2>1, <4>1, <4>2, EndsFacts
    <3> QED BY <1>2, <3>2
  <2> QED BY <2>2, <2>3
<1>7. CASE \E p \in AllMade : Writes(p) \/ Closes(p)
  <2>1. PICK p \in AllMade : Writes(p) \/ Closes(p)
        BY <1>7
  <2>2. Fits(st[p]) /\ st[p].id \in IDs /\ st[p] \in StreamState
        BY <1>1, MadeFacts
  <2>3. [id |-> st[p].id, n |-> 0, late |-> FALSE] \in Frame
        BY <2>2, Bounds DEF Frame
  <2>4. CASE Writes(p)
    <3>1. st[p].sent + st[p].over + 1 \in 0..MaxWrites
          BY <2>2, <2>4, SentType DEF Writes
    <3>2. DataFrame(p) \in Frame /\ DataFrame(p).id = st[p].id
          BY <2>2, <3>1 DEF DataFrame, Frame
    <3> QED BY <1>6, <2>4, <3>2 DEF Writes
  <2>5. CASE Closes(p)
        BY <1>6, <2>3, <2>5 DEF Closes
  <2> QED BY <2>1, <2>4, <2>5
<1>8. ASSUME NEW e \in Ends, DispatchKnown(e) \/ DispatchNew(e) PROVE FramesAt'
  <2>1. PICK o \in Ends : o = Other(e) /\ e = Other(o) /\ \A x \in Ends : x = e \/ x = o
        BY EndsFacts
  <2>2. Line(o) # <<>> /\ Line(o)' = Tail(Line(o)) /\ Line(e)' = Line(e)
    <3>1. CASE DispatchKnown(e)
          BY <1>1, <2>1, <3>1, LineDispatched DEF DispatchKnown, netVars
    <3>2. CASE DispatchNew(e)
          BY <1>1, <2>1, <3>2, LineDispatched DEF DispatchNew, netVars
    <3> QED BY <1>8, <3>1, <3>2
  <2>3. ASSUME NEW i \in 1..Len(Line(o)') PROVE At(o, Line(o)'[i].id) # {}
    <3>1. PICK L \in Seq(Frame) : L = Line(o) /\ L # <<>>
          BY <1>3, <2>2
    <3>2. i + 1 \in 1..Len(L) /\ Tail(L)[i] = L[i + 1]
          BY <2>2, <2>3, <3>1, TailFacts
    <3> QED BY <1>3, <2>2, <3>1, <3>2
  <2> QED BY <1>2, <1>3, <2>1, <2>2, <2>3
<1>9. ASSUME NEW e \in Ends, Opens(e) PROVE FramesAt'
  <2>1. \A x \in Ends : Line(x)' = Line(x)
        BY <1>9, LinesSame DEF Opens, OpenStream, netVars, loopVars
  <2> QED BY <1>2, <1>3, <2>1
<1> QED BY <1>1, <1>4, <1>5, <1>7, <1>8, <1>9, NextKinds

-----------------------------------------------------------------------------
(* One direction of one ID, in the steps that are not about it.            *)

\* A line says the same about id as before, but for what a failure loses.
LineKept(K, L, id, lost) ==
    /\ \A P, S \in Nat : Link(L, id, P, S) =>
          Link(K, id, P, S) /\ (~lost /\ Complete(L, id, P, S) => Complete(K, id, P, S))
    /\ ~lost /\ HasZero(L, id) => HasZero(K, id)
    /\ HasZero(K, id) => HasZero(L, id)
    /\ HasLate(K, id) => HasLate(L, id)
    /\ LateAfter(L, id) => LateAfter(K, id)
    /\ None(L, id) => None(K, id)

LEMMA KeptAppend ==
    ASSUME NEW L \in Seq(Frame), NEW g \in Frame, NEW K, K = Append(L, g), NEW id, g.id # id
    PROVE  \A lost : LineKept(K, L, id, lost)
<1>1. ~Mine(g, id) /\ ~Late(g, id)
      BY DEF Mine, Late
<1>2. ASSUME NEW P \in Nat, NEW S \in Nat, Link(L, id, P, S)
      PROVE  /\ Link(K, id, P, S)
             /\ Complete(L, id, P, S) => Complete(K, id, P, S)
      BY <1>1, <1>2, AppendOther
<1>3. (HasZero(K, id) <=> HasZero(L, id)) /\ (None(L, id) => None(K, id))
  <2>1. /\ Len(L) \in Nat /\ Len(K) = Len(L) + 1 /\ K[Len(L) + 1] = g
        /\ \A i \in 1..Len(L) : K[i] = L[i]
        BY AppendFacts
  <2>2. \A i \in 1..(Len(L) + 1) : i \in 1..Len(L) \/ i = Len(L) + 1
        BY <2>1
  <2>3. \A i \in 1..Len(L) : i \in 1..(Len(L) + 1)
        BY <2>1
  <2>4. None(L, id) => None(K, id)
        BY <1>1, <2>1, <2>2 DEF None
  <2>5. HasZero(K, id) => HasZero(L, id)
        BY <1>1, <2>1, <2>2 DEF HasZero
  <2>6. HasZero(L, id) => HasZero(K, id)
        BY <2>1, <2>3 DEF HasZero
  <2> QED BY <2>4, <2>5, <2>6
<1>4. HasLate(K, id) => HasLate(L, id)
      BY <1>1, AppendLate
<1>5. LateAfter(L, id) => LateAfter(K, id)
      BY <1>1, AppendLate
<1> QED BY <1>2, <1>3, <1>4, <1>5 DEF LineKept

LEMMA KeptTail ==
    ASSUME NEW L \in Seq(Frame), L # <<>>, NEW K, K = Tail(L), NEW id, ~Mine(Head(L), id)
    PROVE  \A lost : LineKept(K, L, id, lost)
<1>1. ASSUME NEW P \in Nat, NEW S \in Nat, Link(L, id, P, S)
      PROVE  /\ Link(K, id, P, S)
             /\ Complete(L, id, P, S) => Complete(K, id, P, S)
      BY <1>1, TailOther
<1>2. /\ Len(L) \in Nat /\ Len(L) >= 1 /\ Len(K) = Len(L) - 1 /\ Head(L) = L[1]
      /\ \A i \in 1..(Len(L) - 1) : K[i] = L[i + 1]
      BY TailFacts
<1>3. None(L, id) => None(K, id)
  <2>1. \A i \in 1..(Len(L) - 1) : i + 1 \in 1..Len(L)
        BY <1>2
  <2> QED BY <1>2, <2>1 DEF None
<1>4. HasZero(K, id) => HasZero(L, id)
  <2>1. \A i \in 1..(Len(L) - 1) : i + 1 \in 1..Len(L)
        BY <1>2
  <2> QED BY <1>2, <2>1 DEF HasZero
<1>5. HasZero(L, id) => HasZero(K, id)
  <2>1. \A i \in 1..Len(L) : i # 1 => i - 1 \in 1..(Len(L) - 1) /\ K[i - 1] = L[i]
        BY <1>2
  <2> QED BY <1>2, <2>1 DEF HasZero
<1>6. HasLate(K, id) => HasLate(L, id)
      BY TailLate
<1>7. LateAfter(L, id) => LateAfter(K, id)
      BY TailLate
<1> QED BY <1>1, <1>3, <1>4, <1>5, <1>6, <1>7 DEF LineKept

LEMMA KeptCut ==
    ASSUME NEW L \in Seq(Frame), NEW k \in 0..Len(L), NEW K, K = SubSeq(L, 1, k), NEW id
    PROVE  LineKept(K, L, id, TRUE)
<1>1. ASSUME NEW P \in Nat, NEW S \in Nat, Link(L, id, P, S) PROVE Link(K, id, P, S)
      BY <1>1, LineCut
<1>2. Len(L) \in Nat /\ Len(K) = k /\ \A i \in 1..k : K[i] = L[i] /\ i \in 1..Len(L)
      OBVIOUS
<1>3. (HasZero(K, id) => HasZero(L, id)) /\ (None(L, id) => None(K, id))
      BY <1>2 DEF HasZero, None
<1>4. (HasLate(K, id) => HasLate(L, id)) /\ (LateAfter(L, id) => LateAfter(K, id))
      BY CutLate
<1> QED BY <1>1, <1>3, <1>4 DEF LineKept

LEMMA KeptSame ==
    ASSUME NEW L, NEW id
    PROVE  \A lost : LineKept(L, L, id, lost)
BY DEF LineKept

\* An ID of which nothing is on its way.
LEMMA NoneLink ==
    ASSUME NEW L \in Seq(Frame), NEW id, None(L, id), NEW P \in Nat
    PROVE  Link(L, id, P, P) /\ Complete(L, id, P, P) /\ ~HasZero(L, id)
<1>1. (P + 1)..P = {}
      OBVIOUS
<1>2. Ordered(L, id) /\ Within(L, id, P, P) /\ NoGap(L, id, P) /\ ZeroLast(L, id, P, P)
      BY DEF None, Ordered, Within, NoGap, ZeroLast
<1> QED BY <1>1, <1>2 DEF Link, Complete, HasZero, None

Lone(e, id) == \A q \in At(e, id) : q = Origin(e, id)

\* A direction goes on as it was if its writer has written nothing for the wire,
\* its reader has been handed nothing, and the line says the same.
LEMMA DirKept ==
    ASSUME TypeInv, FlagsKept, NEW e \in Ends, NEW o \in Ends, o = Other(e), NEW id \in IDs,
           Dir(e, id),
           WriterSame(State(e, id)', State(e, id), Closed(e)' \/ broken'),
           State(e, id).cl = "done" => State(e, id)'.cl = "done",
           ReaderSame(State(o, id)', State(o, id)),
           Gone(o, id)' <=> Gone(o, id),
           At(o, id) # {} => At(o, id)' # {},
           State(e, id).over = 0 /\ Lone(o, id) => Lone(o, id)',
           LineKept(Line(e)', Line(e), id, broken')
    PROVE  Dir(e, id)'
<1>1. PICK L, K : L = Line(e) /\ K = Line(e)'
      OBVIOUS
<1>2. PICK P \in Nat, S \in Nat : P = Handed(o, id) /\ S = State(e, id).sent
      BY PairTypes
<1>3. Goes(State(o, id))
      BY DEF Dir
<1>4. Handed(o, id)' = P /\ State(e, id)'.sent = S /\ State(e, id)'.over = State(e, id).over
      /\ Goes(State(o, id))'
  <2>1. /\ State(o, id)'.got + Len(State(o, id)'.buf) = State(o, id).got + Len(State(o, id).buf)
        /\ Goes(State(o, id)')
        BY <1>3 DEF ReaderSame
  <2>2. Handed(o, id)' = State(o, id)'.got + Len(State(o, id)'.buf)
        BY DEF Handed
  <2> QED BY <1>2, <2>1, <2>2 DEF Handed, WriterSame, Goes
<1>5. LineKept(K, L, id, broken')
      BY <1>1
<1>6. Link(L, id, P, S) /\ (~broken => Complete(L, id, P, S))
      BY <1>1, <1>2 DEF Dir
<1>7. Link(K, id, P, S) /\ (~broken' => Complete(K, id, P, S))
      BY <1>5, <1>6 DEF LineKept, FlagsKept
<1>8. HasZero(K, id) => State(e, id)'.cl = "done" /\ (S > 0 \/ At(o, id)' # {})
      BY <1>1, <1>2, <1>5 DEF LineKept, Dir
<1>9. HasLate(K, id) => State(e, id)'.over > 0 /\ (Gone(o, id)' \/ LateAfter(K, id))
      BY <1>1, <1>4, <1>5 DEF LineKept, Dir
<1>10. Gone(o, id)' => State(e, id)'.cl = "done" /\ None(K, id) /\ P = S
      BY <1>1, <1>2, <1>5 DEF LineKept, Dir
<1>11. State(e, id)'.cl = "done" /\ ~broken' /\ ~Closed(e)' => HasZero(K, id) \/ Gone(o, id)'
  <2> SUFFICES ASSUME State(e, id)'.cl = "done", ~broken', ~Closed(e)'
               PROVE  HasZero(K, id) \/ Gone(o, id)'
      OBVIOUS
  <2>1. State(e, id).cl = "done" /\ ~broken /\ ~Closed(e)
        BY DEF WriterSame, FlagsKept
  <2>2. HasZero(L, id) \/ Gone(o, id)
        BY <1>1, <2>1 DEF Dir
  <2> QED BY <1>5, <2>2 DEF LineKept
<1>12. State(e, id)'.over = 0 => \A q \in At(o, id)' : q = Origin(o, id)'
      BY <1>4 DEF Dir, Lone
<1> QED BY <1>1, <1>4, <1>7, <1>8, <1>9, <1>10, <1>11, <1>12 DEF Dir

\* A writer's end, in a step in which no stream of its ID writes,
LEMMA WriterState ==
    ASSUME TypeInv, ObjectsStep, NEW e \in Ends, NEW id \in IDs,
           \A p \in At(e, id) : WriterSame(st'[p], st[p], Closed(e)' \/ broken')
    PROVE  /\ WriterSame(State(e, id)', State(e, id), Closed(e)' \/ broken')
           /\ State(e, id).cl = "done" => State(e, id)'.cl = "done"
<1>1. CASE At(e, id) = {}
  <2>1. State(e, id).sent = 0 /\ State(e, id).over = 0 /\ State(e, id).cl = "no"
        BY <1>1, NothingHanded
  <2>2. State(e, id)'.sent = 0 /\ State(e, id)'.over = 0 /\ State(e, id)'.cl = "no"
    <3>1. CASE At(e, id)' = {}
      <4>1. State(e, id)' = NewTCPStream(id, FALSE, FALSE)
            BY <3>1 DEF State
      <4> QED BY <4>1 DEF NewTCPStream
    <3>2. CASE At(e, id)' # {}
      <4>1. PICK p : p = Origin(e, id)'
            OBVIOUS
      <4>2. \A q \in At(e, id)' : q \in AllMade' /\ q \notin AllMade /\ Born(q)
            BY <1>1, AtOrBorn, AtFactsNext
      <4>3. PICK q \in At(e, id)' : At(e, id)' = {q}
            BY <3>2, <4>2 DEF ObjectsStep
      <4>4. p = CHOOSE x \in At(e, id)' : \A y \in At(e, id)' : x[2] <= y[2]
            BY <4>1 DEF Origin, At, Made
      <4>5. q[2] <= q[2]
            BY AtFactsNext DEF Stream
      <4>6. p \in At(e, id)'
            BY <4>3, <4>4, <4>5
      <4>7. State(e, id)' = st'[p]
            BY <3>2, <4>1 DEF State
      <4> QED BY <4>2, <4>6, <4>7 DEF Born
    <3> QED BY <3>1, <3>2
  <2> QED BY <2>1, <2>2 DEF WriterSame
<1>2. CASE At(e, id) # {}
  <2>1. PICK p \in At(e, id) : State(e, id) = st[p] /\ State(e, id)' = st'[p]
        BY <1>2, OriginFacts, OriginKept
  <2>2. Later(st'[p], st[p])
        BY <2>1, AtFacts DEF ObjectsStep, ObjectStep
  <2>3. WriterSame(st'[p], st[p], Closed(e)' \/ broken')
        BY <2>1
  <2> QED BY <2>1, <2>2, <2>3 DEF Later, WriterSame
<1> QED BY <1>1, <1>2

\* and a reader's in one that makes none of its ID and hands it nothing.
NoneBorn(e, id) == At(e, id)' \subseteq At(e, id)

LEMMA ReaderState ==
    ASSUME TypeInv, ObjectsStep, NEW e \in Ends, NEW id \in IDs, NoneBorn(e, id),
           \A p \in At(e, id) : ReaderSame(st'[p], st[p])
    PROVE  ReaderSame(State(e, id)', State(e, id))
<1>1. CASE At(e, id) = {}
  <2>1. At(e, id)' = {}
        BY <1>1 DEF NoneBorn
  <2>2. State(e, id)' = NewTCPStream(id, FALSE, FALSE) /\ State(e, id) = NewTCPStream(id, FALSE, FALSE)
        BY <1>1, <2>1 DEF State
  <2> QED BY <2>2 DEF ReaderSame
<1>2. CASE At(e, id) # {}
      BY <1>2, OriginFacts, OriginKept
<1> QED BY <1>1, <1>2

LEMMA SameMade ==
    ASSUME TypeInv, ObjectsStep, NEW e \in Ends, NEW id, made' = made
    PROVE  NoneBorn(e, id)
<1>1. AllMade' = AllMade
      BY DEF AllMade, Made
<1> QED BY <1>1, AtOrBorn, AtFactsNext DEF NoneBorn

LEMMA DirQuiet ==
    ASSUME TypeInv, FlagsKept, ObjectsStep, NEW e \in Ends, NEW o \in Ends, o = Other(e),
           NEW id \in IDs, Dir(e, id),
           \A p \in At(e, id) : WriterSame(st'[p], st[p], Closed(e)' \/ broken'),
           \A p \in At(o, id) : ReaderSame(st'[p], st[p]),
           NoneBorn(o, id), streams'[o][id] = streams[o][id],
           LineKept(Line(e)', Line(e), id, broken')
    PROVE  Dir(e, id)'
<1>1. /\ WriterSame(State(e, id)', State(e, id), Closed(e)' \/ broken')
      /\ State(e, id).cl = "done" => State(e, id)'.cl = "done"
      BY WriterState
<1>2. ReaderSame(State(o, id)', State(o, id))
      BY ReaderState
<1>3. At(o, id) # {} => At(o, id)' # {} /\ Origin(o, id)' = Origin(o, id)
      BY OriginKept
<1>4. At(o, id)' # {} => At(o, id) # {}
      BY DEF NoneBorn
<1>5. Gone(o, id)' => Gone(o, id)
      BY <1>3, <1>4 DEF Gone
<1>6. Gone(o, id) => Gone(o, id)'
      BY <1>3, <1>4 DEF Gone
<1>7. Lone(o, id) => Lone(o, id)'
      BY <1>3, <1>4 DEF Lone, NoneBorn
<1> QED BY <1>1, <1>2, <1>3, <1>5, <1>6, <1>7, DirKept

\* Objects whose state is as it was.
LEMMA SameIsSame ==
    ASSUME NEW r
    PROVE  ReaderSame(r, r) /\ \A ended : WriterSame(r, r, ended)
BY DEF ReaderSame, WriterSame

LEMMA QuietDirs ==
    ASSUME MuxInv, FlagsKept, ObjectsStep, Quiet \/ Lose,
           NEW e \in Ends, NEW id \in IDs, Dir(e, id)
    PROVE  Dir(e, id)'
<1>1. TypeInv
      BY DEF MuxInv, IDInv
<1>2. PICK o \in Ends : o = Other(e)
      BY EndsFacts
<1>3. PICK L \in Seq(Frame) : L = Line(e)
      BY <1>1, LineType
<1>4. CASE Quiet
  <2>1. /\ NoneBorn(o, id) /\ streams' = streams /\ Line(e)' = Line(e)
        BY <1>1, <1>4, SameMade DEF Quiet
  <2>2. \A p \in At(e, id) : WriterSame(st'[p], st[p], Closed(e)' \/ broken')
        BY <1>4, AtFacts DEF Quiet
  <2>3. \A p \in At(o, id) : ReaderSame(st'[p], st[p])
        BY <1>4, AtFacts DEF Quiet
  <2>4. LineKept(Line(e)', Line(e), id, broken')
        BY <2>1, KeptSame
  <2> QED BY <1>1, <1>2, <2>1, <2>2, <2>3, <2>4, DirQuiet
<1>5. CASE Lose
  <2>1. made' = made /\ streams' = streams /\ st' = st /\ broken' = TRUE
        BY <1>5 DEF Lose, mapVars
  <2>2. NoneBorn(o, id)
        BY <1>1, <2>1, SameMade
  <2>3. PICK k \in 0..Len(L) : Line(e)' = SubSeq(L, 1, k)
        BY <1>1, <1>3, <1>5, LineLost
  <2>4. LineKept(Line(e)', L, id, TRUE)
        BY <2>3, KeptCut
  <2>5. LineKept(Line(e)', Line(e), id, broken')
        BY <1>3, <2>1, <2>4 DEF LineKept
  <2>6. /\ \A p \in At(e, id) : WriterSame(st'[p], st[p], Closed(e)' \/ broken')
        /\ \A p \in At(o, id) : ReaderSame(st'[p], st[p])
        BY <2>1 DEF ReaderSame, WriterSame
  <2> QED BY <1>1, <1>2, <2>1, <2>2, <2>5, <2>6, DirQuiet
<1> QED BY <1>4, <1>5

\* What a write does not touch.
LEMMA WriteElsewhere ==
    ASSUME MuxInv, FlagsKept, ObjectsStep, NEW p \in AllMade, CallerStep(p),
           NEW g \in Frame, g.id = st[p].id, FrameWritten(p[1], g),
           NEW e \in Ends, NEW id \in IDs, Dir(e, id), ~(e = p[1] /\ id = st[p].id)
    PROVE  Dir(e, id)'
<1>1. TypeInv
      BY DEF MuxInv, IDInv
<1>2. PICK o \in Ends : o = Other(e) /\ o # e
      BY EndsFacts
<1>3. PICK L \in Seq(Frame) : L = Line(e)
      BY <1>1, LineType
<1>4. p[1] \in Ends
      BY <1>1, MadeFacts
<1>5. LineKept(Line(e)', Line(e), id, broken')
  <2>1. CASE broken
    <3>1. Line(e)' = Line(e)
          BY <2>1, LinesSame DEF FrameWritten, CallerStep
    <3> QED BY <3>1, KeptSame
  <2>2. CASE ~broken
    <3>1. Line(p[1])' = Append(Line(p[1]), g) /\ Line(Other(p[1]))' = Line(Other(p[1]))
          BY <1>1, <1>4, <2>2, LineWritten DEF FrameWritten, CallerStep
    <3>2. CASE e = p[1]
      <4>1. Line(e)' = Append(L, g) /\ g.id # id
            BY <1>3, <3>1, <3>2
      <4>2. LineKept(Line(e)', L, id, broken')
            BY <4>1, KeptAppend
      <4> QED BY <1>3, <4>2
    <3>3. CASE e = Other(p[1])
          BY <3>1, <3>3, KeptSame
    <3> QED BY <1>4, <3>2, <3>3, EndsFacts
  <2> QED BY <2>1, <2>2
<1>6. NoneBorn(o, id) /\ streams'[o][id] = streams[o][id]
      BY <1>1, SameMade DEF CallerStep
<1>7. ASSUME NEW q \in At(e, id) PROVE WriterSame(st'[q], st[q], Closed(e)' \/ broken')
  <2>1. q \in AllMade /\ q # p
        BY AtFacts
  <2> QED BY <2>1, SameIsSame DEF CallerStep
<1>8. ASSUME NEW q \in At(o, id) PROVE ReaderSame(st'[q], st[q])
  <2>1. q \in AllMade
        BY AtFacts
  <2>2. CASE q = p
        BY <2>2 DEF CallerStep
  <2>3. CASE q # p
        BY <2>1, <2>3, SameIsSame DEF CallerStep
  <2> QED BY <2>2, <2>3
<1> QED BY <1>1, <1>2, <1>5, <1>6, <1>7, <1>8, DirQuiet

-----------------------------------------------------------------------------
(* What a write does to its own direction.                                 *)

\* The reader's end does not notice.
LEMMA ReaderEnd ==
    ASSUME TypeInv, FlagsKept, ObjectsStep, NEW p \in AllMade, CallerStep(p),
           NEW o \in Ends, o # p[1], NEW id \in IDs, Goes(State(o, id))
    PROVE  /\ Handed(o, id)' = Handed(o, id) /\ Goes(State(o, id))'
           /\ Gone(o, id)' <=> Gone(o, id)
           /\ At(o, id) # {} => At(o, id)' # {}
           /\ Lone(o, id) => Lone(o, id)'
<1>1. NoneBorn(o, id) /\ streams'[o][id] = streams[o][id]
      BY SameMade DEF CallerStep
<1>2. ASSUME NEW q \in At(o, id) PROVE ReaderSame(st'[q], st[q])
  <2>1. q \in AllMade /\ q # p
        BY AtFacts
  <2> QED BY <2>1, SameIsSame DEF CallerStep
<1>3. ReaderSame(State(o, id)', State(o, id))
      BY <1>1, <1>2, ReaderState
<1>4. Handed(o, id)' = Handed(o, id) /\ Goes(State(o, id))'
      BY <1>3 DEF ReaderSame, Handed, Goes
<1>5. At(o, id) # {} => At(o, id)' # {} /\ Origin(o, id)' = Origin(o, id)
      BY OriginKept
<1>6. At(o, id)' # {} => At(o, id) # {}
      BY <1>1 DEF NoneBorn
<1>7. Gone(o, id)' => Gone(o, id)
      BY <1>1, <1>5, <1>6 DEF Gone
<1>8. Gone(o, id) => Gone(o, id)'
      BY <1>1, <1>5, <1>6 DEF Gone
<1>9. Lone(o, id) => Lone(o, id)'
      BY <1>1, <1>5, <1>6 DEF Lone, NoneBorn
<1> QED BY <1>4, <1>5, <1>7, <1>8, <1>9

\* If no ghost writes, the writer is the origin.
LEMMA OriginWrites ==
    ASSUME TypeInv, TypeInv', ObjectsStep, NEW p \in AllMade, NEW e \in Ends, e = p[1],
           NEW id \in IDs, id = st[p].id, Sole(e, id)',
           st'[p].sent > 0 \/ st'[p].over > 0 \/ st'[p].cl = "done"
    PROVE  State(e, id) = st[p] /\ State(e, id)' = st'[p]
<1>1. p \in At(e, id) /\ p \in At(e, id)' /\ p \in Stream
      BY MadeFacts, AtGrows
<1>2. st'[p].sent \in Nat /\ st'[p].over \in Nat
      BY <1>1, Bounds DEF TypeInv, StreamsOK, StreamState
<1>3. st'[p].sent + st'[p].over # 0 \/ st'[p].cl = "done"
      BY <1>2
<1>4. p = Origin(e, id)'
      BY <1>1, <1>3 DEF Sole
<1> QED BY <1>1, <1>4, OriginKept

\* The frame of a Write: the next one, or a late one.
LEMMA WritesDir ==
    ASSUME MuxInv, TypeInv', FlagsKept, ObjectsStep, NEW p \in AllMade, Writes(p),
           NEW e \in Ends, e = p[1], NEW id \in IDs, id = st[p].id, Sole(e, id)', Dir(e, id)
    PROVE  Dir(e, id)'
<1>1. TypeInv /\ ObjectInv
      BY DEF MuxInv, IDInv
<1>2. PICK o \in Ends : o = Other(e) /\ o # p[1]
      BY EndsFacts
<1>3. PICK L \in Seq(Frame) : L = Line(e)
      BY <1>1, LineType
<1>4. PICK K : K = Line(e)'
      OBVIOUS
<1>5. PICK w \in StreamState : w = st[p] /\ Fits(w)
      BY <1>1, MadeFacts
<1>6. PICK x : x = st'[p] /\ x = Sent(w)
      BY <1>5 DEF Writes
<1>7. /\ w.sent \in Nat /\ w.over \in Nat /\ w.wr > 0
      /\ w.cl # "done" => w.over = 0
      BY <1>1, <1>5, Bounds DEF StreamState, Writes, ObjectInv, Sound
<1>8. /\ x.cl = w.cl
      /\ w.cl = "done" => x.sent = w.sent /\ x.over = w.over + 1
      /\ w.cl # "done" => x.sent = w.sent + 1 /\ x.over = w.over
      BY <1>5, <1>6 DEF Sent, StreamState
<1>9. State(e, id) = w /\ State(e, id)' = x
  <2>1. x.sent > 0 \/ x.over > 0
        BY <1>7, <1>8
  <2> QED BY <1>1, <1>5, <1>6, <2>1, OriginWrites
<1>10. PICK P \in Nat : P = Handed(o, id)
      BY <1>1, PairTypes
<1>11. /\ Handed(o, id)' = P /\ Goes(State(o, id))'
       /\ Gone(o, id)' <=> Gone(o, id)
       /\ At(o, id) # {} => At(o, id)' # {}
       /\ Lone(o, id) => Lone(o, id)'
  <2>1. Goes(State(o, id)) /\ CallerStep(p)
        BY <1>2 DEF Dir, Writes
  <2> QED BY <1>1, <1>2, <1>10, <2>1, ReaderEnd
<1>12. /\ Link(L, id, P, w.sent)
       /\ ~broken => Complete(L, id, P, w.sent)
       /\ HasZero(L, id) => w.cl = "done" /\ (w.sent > 0 \/ At(o, id) # {})
       /\ HasLate(L, id) => w.over > 0 /\ (Gone(o, id) \/ LateAfter(L, id))
       /\ Gone(o, id) => w.cl = "done" /\ None(L, id) /\ P = w.sent
       /\ w.cl = "done" /\ ~broken /\ ~Closed(e) => HasZero(L, id) \/ Gone(o, id)
       /\ w.over = 0 => Lone(o, id)
      BY <1>2, <1>3, <1>4, <1>9, <1>10 DEF Dir, Lone
<1> DEFINE g == DataFrame(p)
<1>13. /\ g \in Frame /\ g.id = id /\ (g.late <=> w.cl = "done") /\ g.n = w.sent + w.over + 1
       /\ FrameWritten(e, g) /\ UNCHANGED <<rl, frame, broken>>
  <2>1. w.sent + w.over + 1 \in 0..MaxWrites
        BY <1>5, <1>7, SentType
  <2>2. PICK late \in BOOLEAN : late <=> w.cl = "done"
        OBVIOUS
  <2>3. g = [id |-> id, n |-> w.sent + w.over + 1, late |-> late]
        BY <1>5, <2>2 DEF DataFrame
  <2>4. g \in Frame
        BY <2>1, <2>3 DEF Frame
  <2>5. g.id = id /\ (g.late <=> w.cl = "done") /\ g.n = w.sent + w.over + 1
        BY <2>2, <2>3
  <2> QED BY <2>4, <2>5 DEF Writes, CallerStep
<1>14. ~Closed(e)
      BY <1>13 DEF FrameWritten
<1>15. CASE broken
  <2>1. K = L /\ broken'
    <3>1. \A y \in Ends : Line(y)' = Line(y)
          BY <1>13, <1>15, LinesSame DEF FrameWritten
    <3> QED BY <1>3, <1>4, <1>13, <1>15, <3>1
  <2>2. CASE w.cl = "done"
    <3>1. x.over > 0 /\ x.over # 0 /\ x.sent = w.sent /\ x.cl = "done"
          BY <1>7, <1>8, <2>2
    <3> QED BY <1>2, <1>3, <1>4, <1>9, <1>11, <1>12, <2>1, <3>1 DEF Dir
  <2>3. CASE w.cl # "done"
    <3>1. x.over = 0 /\ w.over = 0 /\ x.sent = w.sent + 1 /\ x.cl = w.cl
          BY <1>7, <1>8, <2>3
    <3>2. ~HasZero(L, id) /\ ~Gone(o, id) /\ ~HasLate(L, id)
          BY <1>7, <1>12, <2>3
    <3>3. Link(L, id, P, x.sent)
          BY <1>7, <1>12, <3>1, <3>2, SentLost
    <3> QED BY <1>2, <1>3, <1>4, <1>9, <1>11, <1>12, <2>1, <2>3, <3>1, <3>2, <3>3 DEF Dir, Lone
  <2> QED BY <2>2, <2>3
<1>16. CASE ~broken
  <2>1. K = Append(L, g) /\ ~broken'
    <3>1. wire' = [wire EXCEPT ![e] = Append(@, g)]
          BY <1>13, <1>16 DEF FrameWritten
    <3>2. Line(e)' = Append(Line(e), g)
          BY <1>1, <1>13, <3>1, LineWritten
    <3> QED BY <1>3, <1>4, <1>13, <1>16, <3>2
  <2>2. CASE w.cl = "done"
    <3>1. x.over > 0 /\ x.over # 0 /\ x.sent = w.sent /\ x.cl = "done"
          BY <1>7, <1>8, <2>2
    <3>2. ~Mine(g, id) /\ Late(g, id)
          BY <1>13, <2>2 DEF Mine, Late
    <3>3. /\ Link(K, id, P, w.sent) /\ (Complete(L, id, P, w.sent) => Complete(K, id, P, w.sent))
          /\ HasZero(K, id) <=> HasZero(L, id)
          /\ None(L, id) => None(K, id)
          BY <1>7, <1>12, <1>13, <2>1, <3>2, AppendOther
    <3>4. Gone(o, id) \/ LateAfter(K, id)
      <4> SUFFICES ASSUME ~Gone(o, id) PROVE LateAfter(K, id)
          OBVIOUS
      <4>1. HasZero(L, id)
            BY <1>12, <1>14, <1>16, <2>2
      <4>2. LateAfter(L, id)
            BY <1>12 DEF HasLate, LateAfter
      <4> QED BY <1>13, <2>1, <4>1, <4>2, AppendLate
    <3>5. /\ Link(K, id, P, x.sent) /\ Complete(K, id, P, x.sent)
          /\ HasZero(K, id) => x.sent > 0 \/ At(o, id)' # {}
          /\ Gone(o, id)' => None(K, id) /\ P = x.sent
          /\ ~Closed(e)' => HasZero(K, id) \/ Gone(o, id)'
          /\ Gone(o, id)' \/ LateAfter(K, id)
          BY <1>11, <1>12, <1>14, <1>16, <2>2, <3>1, <3>3, <3>4
    <3> QED BY <1>2, <1>3, <1>4, <1>9, <1>11, <2>1, <3>1, <3>5 DEF Dir
  <2>3. CASE w.cl # "done"
    <3>1. x.over = 0 /\ w.over = 0 /\ x.sent = w.sent + 1 /\ x.cl = w.cl
          BY <1>7, <1>8, <2>3
    <3>2. ~HasZero(L, id) /\ ~Gone(o, id) /\ ~HasLate(L, id)
          BY <1>7, <1>12, <2>3
    <3>3. Mine(g, id) /\ ~Late(g, id) /\ g.n = w.sent + 1
          BY <1>7, <1>13, <2>3, <3>1 DEF Mine, Late
    <3>4. Link(K, id, P, x.sent) /\ Complete(K, id, P, x.sent) /\ ~HasZero(K, id)
          BY <1>7, <1>12, <1>13, <1>16, <2>1, <3>1, <3>2, <3>3, AppendData
    <3>5. ~HasLate(K, id)
          BY <1>13, <2>1, <3>2, <3>3, AppendLate
    <3> QED BY <1>2, <1>3, <1>4, <1>9, <1>11, <1>12, <2>1, <2>3, <3>1, <3>2, <3>4, <3>5 DEF Dir, Lone
  <2> QED BY <2>2, <2>3
<1> QED BY <1>15, <1>16

\* The zero-length frame of Close.
LEMMA ClosesDir ==
    ASSUME MuxInv, TypeInv', FlagsKept, ObjectsStep, NEW p \in AllMade, Closes(p),
           NEW e \in Ends, e = p[1], NEW id \in IDs, id = st[p].id, Sole(e, id)', Dir(e, id)
    PROVE  Dir(e, id)'
<1>1. TypeInv /\ ObjectInv
      BY DEF MuxInv, IDInv
<1>2. PICK o \in Ends : o = Other(e) /\ o # p[1]
      BY EndsFacts
<1>3. PICK L \in Seq(Frame) : L = Line(e)
      BY <1>1, LineType
<1>4. PICK K : K = Line(e)'
      OBVIOUS
<1>5. PICK w \in StreamState : w = st[p]
      BY <1>1, MadeFacts
<1>6. PICK x : x = st'[p] /\ x = [w EXCEPT !.cl = "done"]
      BY <1>5 DEF Closes
<1>7. /\ w.sent \in Nat /\ w.over = 0 /\ w.cl = "flag"
      BY <1>1, <1>5, Bounds DEF StreamState, Closes, ObjectInv, Sound
<1>8. x.cl = "done" /\ x.sent = w.sent /\ x.over = w.over
      BY <1>6 DEF StreamState
<1>9. State(e, id) = w /\ State(e, id)' = x
  <2>1. st'[p].cl = "done"
        BY <1>6, <1>8
  <2> QED BY <1>1, <1>5, <1>6, <2>1, OriginWrites
<1>10. PICK P \in Nat : P = Handed(o, id)
      BY <1>1, PairTypes
<1>11. /\ Handed(o, id)' = P /\ Goes(State(o, id))'
       /\ Gone(o, id)' <=> Gone(o, id)
       /\ At(o, id) # {} => At(o, id)' # {}
       /\ Lone(o, id) => Lone(o, id)'
  <2>1. Goes(State(o, id)) /\ CallerStep(p)
        BY <1>2 DEF Dir, Closes
  <2> QED BY <1>1, <1>2, <1>10, <2>1, ReaderEnd
<1>12. /\ Link(L, id, P, w.sent) /\ Complete(L, id, P, w.sent)
       /\ ~HasZero(L, id) /\ ~HasLate(L, id) /\ ~Gone(o, id) /\ Lone(o, id)
      BY <1>2, <1>3, <1>4, <1>7, <1>9, <1>10 DEF Dir, Lone, Closes
<1> DEFINE g == [id |-> id, n |-> 0, late |-> FALSE]
<1>13. /\ g \in Frame /\ Mine(g, id) /\ ~Late(g, id) /\ g.n = 0
      BY Bounds DEF Frame, Mine, Late
<1>14. FrameWritten(e, g) /\ ~broken /\ UNCHANGED <<rl, frame, broken>>
      BY DEF Closes, CallerStep
<1>15. K = Append(L, g)
  <2>1. wire' = [wire EXCEPT ![e] = Append(@, g)]
        BY <1>14 DEF FrameWritten
  <2>2. Line(e)' = Append(Line(e), g)
        BY <1>1, <1>13, <1>14, <2>1, LineWritten
  <2> QED BY <1>3, <1>4, <2>2
<1>16. Link(K, id, P, w.sent) /\ Complete(K, id, P, w.sent) /\ HasZero(K, id)
      BY <1>7, <1>12, <1>13, <1>15, AppendZero
<1>17. ~HasLate(K, id)
      BY <1>12, <1>13, <1>15, AppendLate
<1>18. w.sent > 0 \/ At(o, id) # {}
  <2>1. w.own => w.sent > 0
    <3>1. ~Closed(e)
          BY <1>14 DEF FrameWritten
    <3> QED BY <1>1, <1>5, <1>7, <3>1 DEF ObjectInv, Sound
  <2>2. w.own \/ At(o, id) # {}
        BY <1>1, <1>2, <1>5 DEF ObjectInv
  <2> QED BY <2>1, <2>2
<1> HIDE DEF g
<1> QED BY <1>2, <1>3, <1>4, <1>8, <1>9, <1>11, <1>12, <1>16, <1>17, <1>18 DEF Dir, Lone

-----------------------------------------------------------------------------
(* What a dispatch does: the frame leaves the line, and reaches its stream. *)

\* PushData changes what its reader has, and nothing else of a stream.
LEMMA PushDataFacts ==
    ASSUME NEW q \in StreamState, NEW n \in 0..MaxWrites, NEW r, r = PushData(q, n)
    PROVE  /\ r.id = q.id /\ r.own = q.own /\ r.late = q.late /\ r.seen = q.seen
           /\ r.got = q.got /\ r.cl = q.cl /\ r.sent = q.sent /\ r.over = q.over
           /\ r.buf = (IF n = 0 THEN q.buf ELSE Append(q.buf, n))
           /\ \A ended : WriterSame(r, q, ended)
<1>1. /\ r.id = q.id /\ r.own = q.own /\ r.late = q.late /\ r.seen = q.seen
      /\ r.got = q.got /\ r.cl = q.cl /\ r.sent = q.sent /\ r.over = q.over
      /\ r.buf = (IF n = 0 THEN q.buf ELSE Append(q.buf, n))
      BY DEF PushData, StreamState
<1> QED BY <1>1 DEF WriterSame

\* A frame that continues a buffer goes to its end.
LEMMA PushGoes ==
    ASSUME NEW q \in StreamState, Goes(q), NEW n \in 1..MaxWrites,
           n = q.got + Len(q.buf) + 1, NEW r, r.got = q.got, r.buf = Append(q.buf, n)
    PROVE  Goes(r) /\ r.got + Len(r.buf) = n
<1>1. q.buf \in Seq(1..MaxWrites) /\ q.got \in Nat /\ Len(q.buf) \in Nat
      BY Bounds DEF StreamState
<1>2. /\ Len(r.buf) = Len(q.buf) + 1 /\ r.buf[Len(q.buf) + 1] = n
      /\ \A i \in 1..Len(q.buf) : r.buf[i] = q.buf[i]
      BY <1>1
<1>3. n = q.got + (Len(q.buf) + 1)
      BY <1>1
<1>4. \A i \in 1..(Len(q.buf) + 1) : i \in 1..Len(q.buf) \/ i = Len(q.buf) + 1
      BY <1>1
<1> QED BY <1>2, <1>3, <1>4 DEF Goes

\* What a step of e's read loop that dispatches a frame does not touch: the
\* direction that e writes, and the other IDs.
LEMMA DispatchElsewhere ==
    ASSUME MuxInv, FlagsKept, ObjectsStep, NEW e \in Ends, NEW o \in Ends, o = Other(e),
           rl[e] = "dispatch",
           Line(o)' = Tail(Line(o)), Line(e)' = Line(e), NEW id \in IDs, id = frame[e].id,
           \A q \in AllMade : /\ WriterSame(st'[q], st[q], Closed(q[1])' \/ broken')
                              /\ ~(q[1] = e /\ st[q].id = id) => st'[q] = st[q],
           \A y \in Ends, i \in IDs : ~(y = e /\ i = id) => NoneBorn(y, i),
           \A y \in Ends, i \in IDs : ~(y = e /\ i = id) => streams'[y][i] = streams[y][i],
           NEW x \in Ends, NEW i \in IDs, Dir(x, i), ~(x = o /\ i = id)
    PROVE  Dir(x, i)'
<1>1. TypeInv
      BY DEF MuxInv, IDInv
<1>2. PICK y \in Ends : y = Other(x) /\ ~(y = e /\ i = id) /\ (x = e \/ x = o)
      BY EndsFacts
<1>3. PICK L \in Seq(Frame) : L = Line(o) /\ L # <<>> /\ Head(L) = frame[e]
      BY <1>1, HeadOfLine
<1>4. LineKept(Line(x)', Line(x), i, broken')
  <2>1. CASE x = e
        BY <2>1, KeptSame
  <2>2. CASE x = o
    <3>1. ~Mine(Head(L), i)
          BY <1>3, <2>2 DEF Mine
    <3>2. \A lost : LineKept(Tail(L), L, i, lost)
          BY <1>3, <3>1, KeptTail
    <3>3. Line(x)' = Tail(L) /\ Line(x) = L
          BY <1>3, <2>2
    <3> QED BY <3>2, <3>3
  <2> QED BY <1>2, <2>1, <2>2
<1>5. \A q \in At(x, i) : WriterSame(st'[q], st[q], Closed(x)' \/ broken')
      BY AtFacts
<1>6. ASSUME NEW q \in At(y, i) PROVE ReaderSame(st'[q], st[q])
  <2>1. st'[q] = st[q]
        BY <1>2, AtFacts
  <2> QED BY <2>1, SameIsSame
<1> QED BY <1>1, <1>2, <1>4, <1>5, <1>6, DirQuiet

\* A late frame goes to a ghost.
LEMMA LateKnown ==
    ASSUME MuxInv, FlagsKept, ObjectsStep, NEW e \in Ends, DispatchKnown(e),
           NEW o \in Ends, o = Other(e), e = Other(o), NEW id \in IDs, id = frame[e].id,
           Late(frame[e], id), Dir(o, id)
    PROVE  Dir(o, id)'
<1>1. TypeInv
      BY DEF MuxInv, IDInv
<1>2. PICK L \in Seq(Frame) : /\ L = Line(o) /\ L # <<>> /\ Head(L) = frame[e]
                              /\ 1 \in 1..Len(L) /\ L[1] = frame[e]
      BY <1>1, HeadOfLine DEF DispatchKnown
<1>3. Line(o)' = Tail(L)
      BY <1>1, <1>2, LineDispatched DEF DispatchKnown, netVars
<1>4. HasLate(L, id) /\ ~LateAfter(L, id) /\ ~Mine(frame[e], id)
  <2>1. HasLate(L, id)
        BY <1>2 DEF HasLate
  <2>2. ~LateAfter(L, id)
        BY <1>2, TailLate
  <2> QED BY <2>1, <2>2 DEF Mine, Late
<1>5. Gone(e, id) /\ State(o, id).over > 0
      BY <1>2, <1>4 DEF Dir
<1>6. PICK p : p = Target(e) /\ streams[e][id] = p /\ p # Origin(e, id) /\ p # NoStream
      BY <1>5 DEF Gone, Target, DispatchKnown
<1>7. /\ made' = made
      /\ \A q \in AllMade : q # p => st'[q] = st[q]
      /\ \A x \in Ends, i \in IDs :
            streams'[x][i] = IF x = e /\ i = id /\ frame[e].n = 0
                             THEN NoStream ELSE streams[x][i]
      BY <1>6, KnownObjects
<1>8. /\ Origin(e, id) \in AllMade /\ Origin(e, id) \in Stream
      /\ State(e, id) = st[Origin(e, id)] /\ State(e, id)' = st'[Origin(e, id)]
      /\ Origin(e, id)' = Origin(e, id) /\ At(e, id)' # {}
      BY <1>1, <1>5, OriginKept, StateFacts, AtFacts DEF Gone
<1>9. State(e, id)' = State(e, id)
      BY <1>6, <1>7, <1>8
<1>10. Gone(e, id)'
  <2>1. streams'[e][id] # Origin(e, id)
        BY <1>6, <1>7, <1>8, NotNoStream
  <2> QED BY <1>8, <2>1 DEF Gone
<1>11. Lone(e, id) => Lone(e, id)'
      BY <1>1, <1>7, <1>8, SameMade DEF Lone, NoneBorn
<1>12. ASSUME NEW q \in At(o, id) PROVE WriterSame(st'[q], st[q], Closed(o)' \/ broken')
  <2>1. q \in AllMade /\ q[1] = o /\ e # o
        BY AtFacts, EndsFacts
  <2>2. q # p
        BY <1>6, <2>1, TargetFacts DEF DispatchKnown
  <2> QED BY <1>7, <2>1, <2>2, SameIsSame
<1>13. /\ WriterSame(State(o, id)', State(o, id), Closed(o)' \/ broken')
       /\ State(o, id).cl = "done" => State(o, id)'.cl = "done"
      BY <1>1, <1>12, WriterState
<1>14. LineKept(Line(o)', Line(o), id, broken')
  <2>1. \A lost : LineKept(Tail(L), L, id, lost)
        BY <1>2, <1>4, KeptTail
  <2> QED BY <1>2, <1>3, <2>1
<1>15. ReaderSame(State(e, id)', State(e, id))
      BY <1>9, SameIsSame
<1> QED BY <1>1, <1>5, <1>8, <1>10, <1>11, <1>13, <1>14, <1>15, DirKept

\* A frame that is not goes to the origin.
LEMMA TimelyKnown ==
    ASSUME MuxInv, FlagsKept, ObjectsStep, NEW e \in Ends, DispatchKnown(e),
           NEW o \in Ends, o = Other(e), e = Other(o), NEW id \in IDs, id = frame[e].id,
           Mine(frame[e], id), Dir(o, id)
    PROVE  Dir(o, id)'
<1>1. TypeInv
      BY DEF MuxInv, IDInv
<1>2. PICK L \in Seq(Frame) : /\ L = Line(o) /\ L # <<>> /\ Head(L) = frame[e]
                              /\ 1 \in 1..Len(L) /\ L[1] = frame[e]
      BY <1>1, HeadOfLine DEF DispatchKnown
<1>3. PICK T \in Seq(Frame) : T = Line(o)' /\ T = Tail(L)
  <2>1. Line(o)' = Tail(L)
        BY <1>1, <1>2, LineDispatched DEF DispatchKnown, netVars
  <2> QED BY <1>2, <2>1, TailFacts
<1>4. ~Gone(e, id)
      BY <1>2 DEF Dir, None
<1>5. PICK n \in 0..MaxWrites : n = frame[e].n
      BY <1>1 DEF TypeInv, SessionsOK, Frame
<1>6. PICK p : p = Target(e)
      OBVIOUS
<1>7. /\ p \in At(e, id) /\ p \in AllMade /\ p \in Stream /\ p[1] = e /\ streams[e][id] = p
      BY <1>6, TargetFacts DEF DispatchKnown
<1>8. p = Origin(e, id)
      BY <1>4, <1>7 DEF Gone
<1>9. PICK q \in StreamState : q = st[p] /\ q.buf \in Seq(1..MaxWrites)
      BY <1>1, <1>7, MadeFacts DEF StreamState
<1>10. PICK r : r = PushData(q, n)
      OBVIOUS
<1>11. /\ made' = made /\ st'[p] = r
       /\ \A x \in AllMade : x # p => st'[x] = st[x]
       /\ \A x \in Ends, i \in IDs :
             streams'[x][i] = IF x = e /\ i = id /\ n = 0 THEN NoStream ELSE streams[x][i]
      BY <1>5, <1>6, <1>9, <1>10, KnownObjects
<1>12. /\ State(e, id) = q /\ State(e, id)' = r /\ Origin(e, id)' = p /\ At(e, id)' # {}
  <2>1. At(e, id) # {}
        BY <1>7
  <2>2. /\ At(e, id)' # {} /\ Origin(e, id)' = Origin(e, id)
        /\ State(e, id) = st[Origin(e, id)] /\ State(e, id)' = st'[Origin(e, id)]
        BY <1>1, <2>1, OriginKept
  <2>3. State(e, id) = st[p] /\ State(e, id)' = st'[p]
        BY <1>8, <2>2
  <2> QED BY <1>8, <1>9, <1>11, <2>2, <2>3
<1>13. /\ r.got = q.got
       /\ r.buf = (IF n = 0 THEN q.buf ELSE Append(q.buf, n))
      BY <1>9, <1>10, PushDataFacts
<1>14. PICK P \in Nat, S \in Nat : P = Handed(e, id) /\ S = State(o, id).sent
                                   /\ P = q.got + Len(q.buf)
      BY <1>1, <1>12, PairTypes DEF Handed
<1>15. Lone(e, id) => Lone(e, id)'
      BY <1>1, <1>8, <1>11, <1>12, SameMade DEF Lone, NoneBorn
<1>16. ASSUME NEW w \in At(o, id) PROVE WriterSame(st'[w], st[w], Closed(o)' \/ broken')
  <2>1. w \in AllMade /\ w[1] = o /\ e # o
        BY AtFacts, EndsFacts
  <2> QED BY <1>7, <1>11, <2>1, SameIsSame
<1>17. /\ WriterSame(State(o, id)', State(o, id), Closed(o)' \/ broken')
       /\ State(o, id).cl = "done" => State(o, id)'.cl = "done"
      BY <1>1, <1>16, WriterState
<1>18. PICK w, v : w = State(o, id) /\ v = State(o, id)'
      OBVIOUS
<1>19. /\ v.sent = S /\ w.sent = S /\ v.over = w.over
       /\ w.cl = "done" => v.cl = "done"
       /\ v.cl = "done" => w.cl = "done" \/ Closed(o)' \/ broken'
      BY <1>14, <1>17, <1>18 DEF WriterSame
<1>20. /\ Link(L, id, P, S)
       /\ ~broken => Complete(L, id, P, S)
       /\ HasZero(L, id) => w.cl = "done"
       /\ HasLate(L, id) => w.over > 0 /\ LateAfter(L, id)
       /\ w.cl = "done" /\ ~broken /\ ~Closed(o) => HasZero(L, id)
       /\ w.over = 0 => Lone(e, id)
       /\ Goes(q)
      BY <1>2, <1>4, <1>12, <1>14, <1>18, <1>19 DEF Dir, Lone
<1>21. (broken => broken') /\ (Closed(o) => Closed(o)')
      BY DEF FlagsKept
<1>22. CASE n # 0
  <2>1. Mine(Head(L), id) /\ Head(L).n # 0 /\ Head(L).n = n
        BY <1>2, <1>5, <1>22
  <2>2. /\ n = P + 1 /\ Link(T, id, n, S)
        /\ Complete(L, id, P, S) => Complete(T, id, n, S)
        /\ HasZero(T, id) <=> HasZero(L, id)
        BY <1>2, <1>3, <1>20, <2>1, TailData
  <2>3. Goes(r) /\ r.got + Len(r.buf) = n
    <3>1. n \in 1..MaxWrites /\ n = q.got + Len(q.buf) + 1 /\ r.buf = Append(q.buf, n)
          BY <1>13, <1>14, <1>22, <2>2
    <3> QED BY <1>9, <1>13, <1>20, <3>1, PushGoes
  <2>4. (HasLate(T, id) => HasLate(L, id)) /\ (LateAfter(L, id) => LateAfter(T, id))
        BY <1>2, <1>3, <2>1, TailLate
  <2>5. ~Gone(e, id)'
        BY <1>7, <1>11, <1>12, <1>22 DEF Gone
  <2>6. Handed(e, id)' = n /\ Goes(State(e, id))'
        BY <1>12, <2>3 DEF Handed, Goes
  <2> QED BY <1>3, <1>12, <1>15, <1>18, <1>19, <1>20, <1>21, <2>2, <2>4, <2>5, <2>6 DEF Dir, Lone
<1>23. CASE n = 0
  <2>1. P = S /\ HasZero(L, id) /\ None(T, id)
    <3>1. Mine(Head(L), id) /\ Head(L).n = 0
          BY <1>2, <1>5, <1>23
    <3> QED BY <1>2, <1>3, <1>20, <3>1, TailZero
  <2>2. Link(T, id, P, S) /\ Complete(T, id, P, S) /\ ~HasZero(T, id)
        BY <1>3, <2>1, NoneLink
  <2>3. HasLate(T, id) => HasLate(L, id)
        BY <1>2, <1>3, TailLate
  <2>4. Gone(e, id)'
        BY <1>7, <1>11, <1>12, <1>23, NotNoStream DEF Gone
  <2>5. r.got = q.got /\ r.buf = q.buf
        BY <1>13, <1>23
  <2>6. Handed(e, id)' = P /\ Goes(State(e, id))'
        BY <1>12, <1>14, <1>20, <2>5 DEF Handed, Goes
  <2> QED BY <1>3, <1>12, <1>15, <1>18, <1>19, <1>20, <2>1, <2>2, <2>3, <2>4, <2>6 DEF Dir, Lone
<1> QED BY <1>22, <1>23

LEMMA KnownDirs ==
    ASSUME MuxInv, FlagsKept, ObjectsStep, NEW e \in Ends, DispatchKnown(e),
           NEW x \in Ends, NEW i \in IDs, Dir(x, i)
    PROVE  Dir(x, i)'
<1>1. TypeInv
      BY DEF MuxInv, IDInv
<1>2. PICK o \in Ends : o = Other(e) /\ e = Other(o) /\ o # e
      BY EndsFacts
<1>3. PICK id \in IDs, n \in 0..MaxWrites : frame[e].id = id /\ frame[e].n = n
      BY <1>1 DEF TypeInv, SessionsOK, Frame
<1>4. CASE x = o /\ i = id
  <2>1. Mine(frame[e], id) \/ Late(frame[e], id)
        BY <1>3 DEF Mine, Late
  <2> QED BY <1>2, <1>3, <1>4, <2>1, LateKnown, TimelyKnown
<1>5. CASE ~(x = o /\ i = id)
  <2>1. Line(o)' = Tail(Line(o)) /\ Line(e)' = Line(e)
        BY <1>1, <1>2, LineDispatched DEF DispatchKnown, netVars
  <2>2. PICK p : p = Target(e) /\ p \in AllMade /\ p \in Stream /\ p[1] = e /\ st[p].id = id
        BY <1>3, TargetFacts DEF DispatchKnown
  <2>3. /\ made' = made /\ st'[p] = PushData(st[p], n)
        /\ \A q \in AllMade : q # p => st'[q] = st[q]
        /\ \A y \in Ends, j \in IDs :
              streams'[y][j] = IF y = e /\ j = id /\ n = 0 THEN NoStream ELSE streams[y][j]
        BY <1>3, <2>2, KnownObjects
  <2>4. ASSUME NEW q \in AllMade
        PROVE  /\ WriterSame(st'[q], st[q], Closed(q[1])' \/ broken')
               /\ ~(q[1] = e /\ st[q].id = id) => st'[q] = st[q]
    <3>1. CASE q = p
      <4>1. st[p] \in StreamState
            BY <1>1, <2>2, MadeFacts
      <4>2. \A ended : WriterSame(st'[p], st[p], ended)
            BY <2>3, <4>1, PushDataFacts
      <4> QED BY <2>2, <3>1, <4>2
    <3>2. CASE q # p
          BY <2>3, <3>2, SameIsSame
    <3> QED BY <3>1, <3>2
  <2>5. \A y \in Ends, j \in IDs : ~(y = e /\ j = id) => NoneBorn(y, j)
        BY <1>1, <2>3, SameMade
  <2>6. \A y \in Ends, j \in IDs : ~(y = e /\ j = id) => streams'[y][j] = streams[y][j]
        BY <2>3
  <2>7. rl[e] = "dispatch"
        BY DEF DispatchKnown
  <2> QED BY <1>2, <1>3, <1>5, <2>1, <2>4, <2>5, <2>6, <2>7, DispatchElsewhere
<1> QED BY <1>4, <1>5

-----------------------------------------------------------------------------
(* What the making of an object does to the directions.                    *)

\* A new object is the only one under its ID,
Alone(e, id, p, r) ==
    /\ At(e, id)' = {p} /\ Origin(e, id)' = p
    /\ State(e, id)' = r /\ Lone(e, id)' /\ ~Gone(e, id)'

\* if there was none before; all the others are as they were.
LEMMA NewElsewhere ==
    ASSUME TypeInv, FlagsKept, ObjectsStep, NEW e \in Ends, NEW id \in IDs, NEW p, NEW r,
           NewObject(e, id, p, r), r.id = id
    PROVE  /\ \A q \in AllMade : /\ st'[q] = st[q]
                                 /\ WriterSame(st'[q], st[q], Closed(q[1])' \/ broken')
           /\ \A y \in Ends, i \in IDs : ~(y = e /\ i = id) => NoneBorn(y, i)
           /\ \A y \in Ends, i \in IDs : ~(y = e /\ i = id) => streams'[y][i] = streams[y][i]
           /\ streams'[e][id] = p /\ p \notin At(e, id)
           /\ At(e, id) = {} => Alone(e, id, p, r)
<1>1. /\ p \in Stream /\ p[1] = e /\ p \notin AllMade /\ AllMade' = AllMade \cup {p}
      /\ st'[p] = r /\ \A q \in AllMade : st'[q] = st[q]
      /\ \A x \in Ends, i \in IDs :
            streams'[x][i] = IF x = e /\ i = id THEN p ELSE streams[x][i]
      BY DEF NewObject
<1>2. \A q \in AllMade : WriterSame(st'[q], st[q], Closed(q[1])' \/ broken')
      BY <1>1, SameIsSame
<1>3. ASSUME NEW y \in Ends, NEW i \in IDs, NEW q \in At(y, i)', q \notin At(y, i)
      PROVE  q = p /\ y = e /\ i = id
  <2>1. q \notin AllMade /\ q[1] = y /\ st'[q].id = i /\ q \in AllMade'
        BY <1>3, AtOrBorn, AtFactsNext
  <2> QED BY <1>1, <2>1
<1>4. \A y \in Ends, i \in IDs : ~(y = e /\ i = id) => NoneBorn(y, i)
      BY <1>3 DEF NoneBorn
<1>5. p \notin At(e, id)
      BY <1>1, AtFacts
<1>6. ASSUME At(e, id) = {}
      PROVE  /\ At(e, id)' = {p} /\ Origin(e, id)' = p
             /\ State(e, id)' = r /\ Lone(e, id)' /\ ~Gone(e, id)'
  <2>1. p \in At(e, id)'
        BY <1>1 DEF At, AllMade, Made, Ends
  <2>2. At(e, id)' = {p}
        BY <1>3, <1>6, <2>1
  <2>3. Origin(e, id)' = p
    <3>1. p[2] <= p[2]
          BY <1>1 DEF Stream
    <3>2. Origin(e, id)' = CHOOSE x \in At(e, id)' : \A y \in At(e, id)' : x[2] <= y[2]
          BY DEF Origin, At, Made
    <3> QED BY <2>2, <3>1, <3>2
  <2>4. State(e, id)' = st'[Origin(e, id)']
        BY <2>2 DEF State
  <2>5. Lone(e, id)'
        BY <2>2, <2>3 DEF Lone
  <2>6. ~Gone(e, id)'
        BY <1>1, <2>3 DEF Gone
  <2> QED BY <1>1, <2>2, <2>3, <2>4, <2>5, <2>6
<1> QED BY <1>1, <1>2, <1>4, <1>5, <1>6 DEF Alone

\* The first frame of an ID.
LEMMA FirstDir ==
    ASSUME MuxInv, FlagsKept, ObjectsStep, NEW e \in Ends, rl[e] = "dispatch",
           NEW o \in Ends, o = Other(e), e = Other(o), o # e,
           NEW id \in IDs, id = frame[e].id, Line(o)' = Tail(Line(o)),
           NEW p, NEW r, NewObject(e, id, p, r), r.id = id, r.got = 0,
           frame[e].n = 1 => r.buf = << 1 >>,
           At(e, id) = {}, Dir(o, id)
    PROVE  Dir(o, id)'
<1>1. TypeInv
      BY DEF MuxInv, IDInv
<1>2. PICK L \in Seq(Frame) : /\ L = Line(o) /\ L # <<>> /\ Head(L) = frame[e]
                              /\ Mine(Head(L), id) /\ Head(L).n = 1
  <2>1. PICK K : K = Line(o)
        OBVIOUS
  <2>2. /\ K # <<>> /\ Head(K) = frame[e] /\ K \in Seq(Frame)
        /\ Mine(frame[e], id) /\ frame[e].n = 1
        BY <2>1, FirstFrame
  <2> QED BY <2>1, <2>2
<1>3. PICK T \in Seq(Frame) : T = Line(o)' /\ T = Tail(L)
      BY <1>2, TailFacts
<1>4. /\ State(e, id)' = r /\ At(e, id)' # {} /\ ~Gone(e, id)' /\ Lone(e, id)'
  <2>1. Alone(e, id, p, r)
        BY <1>1, NewElsewhere
  <2> QED BY <2>1 DEF Alone
<1>5. Handed(e, id) = 0 /\ ~Gone(e, id)
      BY NothingHanded
<1>6. r.buf = <<1>> /\ Len(r.buf) = 1 /\ r.buf[1] = 1 /\ r.got = 0
  <2>1. frame[e].n = 1
        BY <1>2
  <2>2. r.buf = <<1>>
        BY <2>1
  <2>3. Len(<<1>>) = 1 /\ <<1>>[1] = 1
        OBVIOUS
  <2> QED BY <2>2, <2>3
<1>7. Handed(e, id)' = 1 /\ Goes(State(e, id))'
  <2>1. Goes(r)
    <3>1. ASSUME NEW i \in 1..1 PROVE r.buf[i] = 0 + i
          BY <1>6, <3>1
    <3> QED BY <1>6, <3>1 DEF Goes
  <2>2. Handed(e, id)' = 0 + 1
        BY <1>4, <1>6 DEF Handed
  <2> QED BY <1>4, <2>1, <2>2 DEF Goes
<1>8. ASSUME NEW q \in At(o, id) PROVE WriterSame(st'[q], st[q], Closed(o)' \/ broken')
  <2>1. q \in AllMade /\ q[1] = o
        BY AtFacts
  <2>2. WriterSame(st'[q], st[q], Closed(q[1])' \/ broken')
        BY <1>1, <2>1, NewElsewhere
  <2> QED BY <2>1, <2>2
<1>9. /\ WriterSame(State(o, id)', State(o, id), Closed(o)' \/ broken')
      /\ State(o, id).cl = "done" => State(o, id)'.cl = "done"
      BY <1>1, <1>8, WriterState
<1>10. PICK w, v, S : w = State(o, id) /\ v = State(o, id)' /\ S = w.sent /\ S \in Nat
      BY <1>1, PairTypes
<1>11. /\ v.sent = S /\ v.over = w.over
       /\ w.cl = "done" => v.cl = "done"
       /\ v.cl = "done" => w.cl = "done" \/ Closed(o)' \/ broken'
      BY <1>9, <1>10 DEF WriterSame
<1>12. /\ Link(L, id, 0, S)
       /\ ~broken => Complete(L, id, 0, S)
       /\ HasZero(L, id) => w.cl = "done"
       /\ HasLate(L, id) => w.over > 0 /\ LateAfter(L, id)
       /\ w.cl = "done" /\ ~broken /\ ~Closed(o) => HasZero(L, id)
      BY <1>2, <1>5, <1>10 DEF Dir
<1>13. (broken => broken') /\ (Closed(o) => Closed(o)')
      BY DEF FlagsKept
<1>14. /\ Link(T, id, 1, S)
       /\ Complete(L, id, 0, S) => Complete(T, id, 1, S)
       /\ HasZero(T, id) <=> HasZero(L, id)
  <2>1. Head(L).n = 0 + 1 /\ Head(L).n # 0 /\ 0 \in Nat /\ 0 + 1 = 1
        BY <1>2
  <2>2. /\ Link(Tail(L), id, 0 + 1, S)
        /\ Complete(L, id, 0, S) => Complete(Tail(L), id, 0 + 1, S)
        /\ HasZero(Tail(L), id) <=> HasZero(L, id)
        BY <1>2, <1>10, <1>12, <2>1, TailData
  <2> QED BY <1>3, <2>1, <2>2
<1>15. (HasLate(T, id) => HasLate(L, id)) /\ (LateAfter(L, id) => LateAfter(T, id))
  <2>1. Head(L).n # 0
        BY <1>2
  <2> QED BY <1>2, <1>3, <2>1, TailLate
<1> QED BY <1>3, <1>4, <1>7, <1>10, <1>11, <1>12, <1>13, <1>14, <1>15 DEF Dir, Lone

\* A ghost is nothing to the direction of its ID's origin.
LEMMA GhostDir ==
    ASSUME MuxInv, FlagsKept, ObjectsStep, NEW e \in Ends, rl[e] = "dispatch",
           NEW o \in Ends, o = Other(e), e = Other(o), o # e,
           NEW id \in IDs, id = frame[e].id, Line(o)' = Tail(Line(o)), Target(e) = NoStream,
           NEW p, NEW r, NewObject(e, id, p, r), r.id = id,
           At(e, id) # {}, Dir(o, id), Sole(o, id)
    PROVE  Dir(o, id)'
<1>1. TypeInv
      BY DEF MuxInv, IDInv
<1>2. /\ Origin(e, id) \in At(e, id) /\ Origin(e, id) \in AllMade /\ Origin(e, id) \in Stream
      /\ Origin(e, id)' = Origin(e, id) /\ At(e, id)' # {}
      /\ State(e, id) = st[Origin(e, id)] /\ State(e, id)' = st'[Origin(e, id)]
      BY <1>1, StateFacts, OriginKept, AtFacts
<1>3. Gone(e, id)
      BY <1>2, NotNoStream DEF Gone, Target
<1>4. ~Mine(frame[e], id) /\ State(o, id).over > 0
      BY <1>3, GhostFrame
<1>5. /\ \A q \in AllMade : /\ st'[q] = st[q]
                            /\ WriterSame(st'[q], st[q], Closed(q[1])' \/ broken')
      /\ streams'[e][id] = p /\ p \notin At(e, id)
      BY <1>1, NewElsewhere
<1>6. Gone(e, id)'
      BY <1>2, <1>5 DEF Gone
<1>7. ReaderSame(State(e, id)', State(e, id))
      BY <1>2, <1>5, SameIsSame
<1>8. ASSUME NEW q \in At(o, id) PROVE WriterSame(st'[q], st[q], Closed(o)' \/ broken')
      BY <1>5, AtFacts
<1>9. /\ WriterSame(State(o, id)', State(o, id), Closed(o)' \/ broken')
      /\ State(o, id).cl = "done" => State(o, id)'.cl = "done"
      BY <1>1, <1>8, WriterState
<1>10. PICK L \in Seq(Frame) : L = Line(o) /\ L # <<>> /\ Head(L) = frame[e]
      BY <1>1, HeadOfLine
<1>11. LineKept(Line(o)', Line(o), id, broken')
  <2>1. \A lost : LineKept(Tail(L), L, id, lost)
        BY <1>4, <1>10, KeptTail
  <2> QED BY <1>10, <2>1
<1>12. State(o, id).over # 0
  <2>1. State(o, id).over \in Nat
        BY <1>1, PairTypes
  <2> QED BY <1>4, <2>1
<1> QED BY <1>1, <1>2, <1>3, <1>6, <1>7, <1>9, <1>11, <1>12, DirKept

LEMMA NewDirs ==
    ASSUME MuxInv, FlagsKept, ObjectsStep, NEW e \in Ends, DispatchNew(e),
           NEW x \in Ends, NEW i \in IDs, Dir(x, i), Sole(x, i)
    PROVE  Dir(x, i)'
<1>1. TypeInv /\ IDInv
      BY DEF MuxInv, IDInv
<1>2. PICK o \in Ends : o = Other(e) /\ e = Other(o) /\ o # e
      BY EndsFacts
<1>3. PICK id \in IDs, n \in 0..MaxWrites : frame[e].id = id /\ frame[e].n = n
      BY <1>1 DEF TypeInv, SessionsOK, Frame
<1>4. PICK p : p = <<e, made[e] + 1>>
      OBVIOUS
<1>5. PICK c \in BOOLEAN : c = Closed(e)
      BY ClosedBoolean
<1>6. PICK q : q = NewTCPStream(id, FALSE, c)
      OBVIOUS
<1>7. PICK r : r = PushData(q, n)
      OBVIOUS
<1>8. Store(e, id, TRUE) /\ st' = [st EXCEPT ![p] = r] /\ rl[e] = "dispatch"
      /\ Target(e) = NoStream
      BY <1>3, <1>4, <1>5, <1>6, <1>7 DEF DispatchNew, FirstPush, Target, Store
<1>9. NewObject(e, id, p, r)
      BY <1>1, <1>4, <1>8, Birth
<1>10. q \in StreamState /\ q.id = id /\ q.got = 0 /\ q.buf = <<>>
      BY <1>6, NewStreamType DEF Fits, NewTCPStream
<1>11. r.id = id /\ r.got = 0 /\ (n = 1 => r.buf = <<1>>)
  <2>1. r.id = id /\ r.got = 0 /\ r.buf = (IF n = 0 THEN q.buf ELSE Append(q.buf, n))
        BY <1>7, <1>10 DEF PushData, StreamState
  <2>2. n = 1 => r.buf = Append(<<>>, 1)
        BY <1>10, <2>1
  <2>3. Append(<<>>, 1) = <<1>>
        OBVIOUS
  <2> QED BY <2>1, <2>2, <2>3
<1>12. Line(o)' = Tail(Line(o)) /\ Line(e)' = Line(e)
      BY <1>1, <1>2, LineDispatched DEF DispatchNew, netVars
<1>13. CASE x = o /\ i = id
  <2>1. CASE At(e, id) = {}
        BY <1>2, <1>3, <1>8, <1>9, <1>11, <1>12, <1>13, <2>1, FirstDir
  <2>2. CASE At(e, id) # {}
        BY <1>2, <1>3, <1>8, <1>9, <1>11, <1>12, <1>13, <2>2, GhostDir
  <2> QED BY <2>1, <2>2
<1>14. CASE ~(x = o /\ i = id)
  <2>1. /\ \A y \in AllMade : /\ st'[y] = st[y]
                              /\ WriterSame(st'[y], st[y], Closed(y[1])' \/ broken')
        /\ \A y \in Ends, j \in IDs : ~(y = e /\ j = id) => NoneBorn(y, j)
        /\ \A y \in Ends, j \in IDs : ~(y = e /\ j = id) => streams'[y][j] = streams[y][j]
        BY <1>1, <1>9, <1>11, NewElsewhere
  <2> QED BY <1>2, <1>3, <1>8, <1>12, <1>14, <2>1, DispatchElsewhere
<1> QED BY <1>13, <1>14

\* A stream opened is the first of its ID, and nothing of it is under way.
LEMMA OpensDirs ==
    ASSUME MuxInv, FlagsKept, ObjectsStep, NEW e \in Ends, Opens(e),
           NEW x \in Ends, NEW i \in IDs, Dir(x, i)
    PROVE  Dir(x, i)'
<1>1. TypeInv
      BY DEF MuxInv, IDInv
<1>2. PICK id, p, r :
              /\ id \in IDs /\ id = ActualID(e) /\ \A y \in Ends : At(y, id) = {} /\ streams[y][id] = NoStream
              /\ NewObject(e, id, p, r) /\ r = NewTCPStream(id, TRUE, Closed(e))
      BY OpenFresh
<1>3. r.id = id /\ r.got = 0 /\ r.buf = <<>> /\ Len(r.buf) = 0
      BY <1>2 DEF NewTCPStream
<1>4. /\ \A q \in AllMade : /\ st'[q] = st[q]
                            /\ WriterSame(st'[q], st[q], Closed(q[1])' \/ broken')
      /\ \A y \in Ends, j \in IDs : ~(y = e /\ j = id) => NoneBorn(y, j)
      /\ \A y \in Ends, j \in IDs : ~(y = e /\ j = id) => streams'[y][j] = streams[y][j]
      /\ Alone(e, id, p, r)
      BY <1>1, <1>2, <1>3, NewElsewhere
<1>5. \A y \in Ends : Line(y)' = Line(y)
      BY LinesSame DEF Opens, OpenStream, netVars, loopVars
<1>6. LineKept(Line(x)', Line(x), i, broken')
      BY <1>5, KeptSame
<1>7. \A q \in At(x, i) : WriterSame(st'[q], st[q], Closed(x)' \/ broken')
      BY <1>4, AtFacts
<1>8. PICK o \in Ends : o = Other(x)
      BY EndsFacts
<1>9. CASE o = e /\ i = id
  <2>1. /\ WriterSame(State(x, i)', State(x, i), Closed(x)' \/ broken')
        /\ State(x, i).cl = "done" => State(x, i)'.cl = "done"
        BY <1>1, <1>7, WriterState
  <2>2. At(o, i) = {} /\ ~Gone(o, i) /\ State(o, i) = NewTCPStream(i, FALSE, FALSE)
        BY <1>2, <1>9 DEF Gone, State
  <2>3. PICK q : q = State(o, i) /\ q.got = 0 /\ q.buf = <<>>
        BY <2>2 DEF NewTCPStream
  <2>4. ReaderSame(State(o, i)', State(o, i))
    <3>1. ReaderSame(r, q)
          BY <1>3, <2>3 DEF ReaderSame, Goes
    <3>2. State(o, i)' = r
          BY <1>4, <1>9 DEF Alone
    <3> QED BY <2>3, <3>1, <3>2
  <2>5. ~Gone(o, i)' /\ At(o, i)' # {} /\ Lone(o, i)'
        BY <1>4, <1>9 DEF Alone
  <2> QED BY <1>1, <1>6, <1>8, <2>1, <2>2, <2>4, <2>5, DirKept
<1>10. CASE ~(o = e /\ i = id)
  <2>1. \A q \in At(o, i) : ReaderSame(st'[q], st[q])
        BY <1>4, AtFacts, SameIsSame
  <2>2. NoneBorn(o, i) /\ streams'[o][i] = streams[o][i]
        BY <1>4, <1>10
  <2> QED BY <1>1, <1>6, <1>7, <1>8, <2>1, <2>2, DirQuiet
<1> QED BY <1>9, <1>10

-----------------------------------------------------------------------------
(* The invariant holds.                                                    *)

LEMMA DirStep ==
    ASSUME MuxInv, TypeInv', FlagsKept, ObjectsStep, [Next]_vars
    PROVE  DirInv'
<1> SUFFICES ASSUME NEW x \in Ends, NEW i \in IDs, Sole(x, i)' PROVE Dir(x, i)'
    BY DEF DirInv
<1>1. TypeInv /\ IDInv /\ MapOK
      BY DEF MuxInv, IDInv
<1>2. Sole(x, i)
      BY <1>1, SoleKept
<1>3. Dir(x, i)
      BY <1>2 DEF MuxInv, DirInv
<1>4. CASE Quiet \/ Lose
      BY <1>3, <1>4, QuietDirs
<1>5. CASE \E p \in AllMade : Writes(p) \/ Closes(p)
  <2>1. PICK p \in AllMade : Writes(p) \/ Closes(p)
        BY <1>5
  <2>2. /\ Fits(st[p]) /\ st[p].id \in IDs /\ st[p] \in StreamState
        BY <1>1, MadeFacts
  <2>3. CASE x = p[1] /\ i = st[p].id
        BY <1>3, <2>1, <2>3, WritesDir, ClosesDir
  <2>4. CASE ~(x = p[1] /\ i = st[p].id)
    <3>1. PICK g \in Frame : g.id = st[p].id /\ FrameWritten(p[1], g) /\ CallerStep(p)
      <4>1. CASE Writes(p)
        <5>1. st[p].sent + st[p].over + 1 \in 0..MaxWrites
              BY <2>2, <4>1, SentType DEF Writes
        <5>2. DataFrame(p) \in Frame /\ DataFrame(p).id = st[p].id
              BY <2>2, <5>1 DEF DataFrame, Frame
        <5> QED BY <4>1, <5>2 DEF Writes
      <4>2. CASE Closes(p)
        <5>1. [id |-> st[p].id, n |-> 0, late |-> FALSE] \in Frame
              BY <2>2, Bounds DEF Frame
        <5> QED BY <4>2, <5>1 DEF Closes
      <4> QED BY <2>1, <4>1, <4>2
    <3> QED BY <1>3, <2>4, <3>1, WriteElsewhere
  <2> QED BY <2>3, <2>4
<1>6. CASE \E e \in Ends : DispatchKnown(e) \/ DispatchNew(e) \/ Opens(e)
      BY <1>2, <1>3, <1>6, KnownDirs, NewDirs, OpensDirs
<1> QED BY <1>1, <1>4, <1>5, <1>6, NextKinds DEF MuxInv

LEMMA NextMuxInv ==
    ASSUME NoWrap, MuxInv, [Next]_vars
    PROVE  MuxInv' /\ FlagsKept /\ ObjectsStep
<1>1. TypeInv /\ IDInv /\ SessionInv /\ ObjectInv /\ GhostInv
      BY DEF MuxInv, IDInv
<1>2. IDInv' /\ TypeInv'
      BY <1>1, NextIDInv DEF IDInv
<1>3. FlagsKept /\ SessionInv'
      BY <1>1, NextFlags
<1>4. ObjectsStep
      BY <1>3, NextObjects
<1>5. ObjectInv' /\ GhostInv'
      BY <1>1, <1>2, <1>4, ObjectInvKept, GhostInvKept
<1>6. MapOK' /\ InMapOrEnded' /\ IDsTaken' /\ FramesAt'
      BY <1>3, MapStep, FramesStep
<1>7. DirInv'
      BY <1>2, <1>3, <1>4, DirStep
<1> QED BY <1>2, <1>3, <1>4, <1>5, <1>6, <1>7 DEF MuxInv

LEMMA InitMuxInv == Init => MuxInv
<1> SUFFICES ASSUME Init PROVE MuxInv
    OBVIOUS
<1>1. IDInv /\ TypeInv
      BY InitIDInv DEF IDInv
<1>2. SessionInv
      BY DEF Init, SessionInv, SessionErr, SessionEOF, Closed
<1>3. AllMade = {} /\ \A e \in Ends : \A id : At(e, id) = {}
  <2>1. ASSUME NEW e \in Ends PROVE Made(e) = {}
        BY <2>1 DEF Init, Made, Stream
  <2> QED BY <2>1 DEF AllMade, At, Ends
<1>4. ObjectInv /\ GhostInv /\ InMapOrEnded /\ IDsTaken
      BY <1>3 DEF ObjectInv, GhostInv, InMapOrEnded, IDsTaken
<1>5. MapOK
      BY DEF Init, MapOK
<1>6. \A e \in Ends : Line(e) = <<>> /\ Len(Line(e)) = 0
      BY EndsFacts DEF Init, Line
<1>7. FramesAt
  <2>1. 1..0 = {}
        OBVIOUS
  <2> QED BY <1>6, <2>1 DEF FramesAt
<1>8. ASSUME NEW e \in Ends, NEW id \in IDs PROVE Dir(e, id)
  <2>1. PICK o \in Ends : o = Other(e)
        BY EndsFacts
  <2>2. /\ Handed(o, id) = 0 /\ ~Gone(o, id) /\ Goes(State(o, id))
        /\ State(e, id).sent = 0 /\ State(e, id).over = 0 /\ State(e, id).cl = "no"
        BY <1>3, <2>1, NothingHanded
  <2>3. PICK L : L = Line(e) /\ L = <<>> /\ Len(L) = 0 /\ L \in Seq(Frame)
        BY <1>1, <1>6, LineType
  <2>4. None(L, id) /\ ~HasLate(L, id)
    <3>1. 1..0 = {}
          OBVIOUS
    <3> QED BY <2>3, <3>1 DEF None, HasLate
  <2>5. Link(L, id, 0, 0) /\ Complete(L, id, 0, 0) /\ ~HasZero(L, id)
        BY <2>3, <2>4, NoneLink
  <2>6. Lone(o, id)
        BY <1>3 DEF Lone
  <2> QED BY <2>1, <2>2, <2>3, <2>4, <2>5, <2>6 DEF Dir, Lone
<1> QED BY <1>1, <1>2, <1>4, <1>5, <1>7, <1>8 DEF MuxInv, DirInv

-----------------------------------------------------------------------------
(* The theorems.                                                           *)

LEMMA MuxCorrect ==
    ASSUME NoWrap
    PROVE  Spec => []MuxInv
<1>1. MuxInv /\ [Next]_vars => MuxInv'
      BY NextMuxInv
<1> QED BY <1>1, InitMuxInv, PTL DEF Spec

\* Only a late frame makes a second stream of an ID at one end, so that the
\* ID's streams are to blame, and no other stream is hit.
THEOREM NoGhosts ==
    ASSUME NoWrap
    PROVE  Spec => []GhostsAreLate
<1>1. MuxInv => GhostsAreLate
  <2> SUFFICES ASSUME MuxInv, NEW p \in AllMade, NEW q \in AllMade,
                      p[1] = q[1], st[p].id = st[q].id, p # q,
                      \A w \in AllMade : st[w].id = st[p].id => ~(st[w].over > 0)
               PROVE  FALSE
      BY DEF GhostsAreLate
  <2>1. TypeInv
        BY DEF MuxInv, IDInv
  <2>2. \A w \in AllMade : st[w].over \in Nat
        BY <2>1, MadeFacts, Bounds DEF StreamState
  <2>3. PICK e \in Ends, id \in IDs : p \in At(e, id) /\ q \in At(e, id) /\ st[p].id = id
        BY <2>1, MadeFacts
  <2>4. \A w \in AllMade : st[w].id = id => st[w].over = 0
        BY <2>2, <2>3
  <2>5. p = Origin(e, id) /\ q = Origin(e, id)
        BY <2>3, <2>4 DEF MuxInv, GhostInv
  <2> QED BY <2>5
<1> QED BY <1>1, MuxCorrect, PTL

\* What a reader has buffered goes on where it has read to, frame by frame,
\* whatever becomes of the frames that its writer sends too late.
THEOREM FramesInOrder ==
    ASSUME NoWrap
    PROVE  Spec => []InOrder
<1>1. MuxInv => InOrder
  <2> SUFFICES ASSUME MuxInv, NEW e \in Ends, NEW id \in IDs, Sole(Other(e), id)
               PROVE  \A i \in 1..Len(State(e, id).buf) :
                          State(e, id).buf[i] = State(e, id).got + i
      BY DEF InOrder
  <2>1. PICK o \in Ends : o = Other(e) /\ e = Other(o)
        BY EndsFacts
  <2>2. Goes(State(e, id))
        BY <2>1 DEF MuxInv, DirInv, Dir
  <2> QED BY <2>2 DEF Goes
<1> QED BY <1>1, MuxCorrect, PTL

\* What Carries collects is the frames of the line.
LEMMA CarriesLine ==
    ASSUME TypeInv, NEW e \in Ends, NEW id \in IDs
    PROVE  \A f : f \in Carries(e, id) <=> \E i \in 1..Len(Line(e)) : f = Line(e)[i] /\ f.id = id
<1>1. PICK W \in Seq(Frame), m \in Nat : W = wire[e] /\ m = Len(W)
  <2>1. wire[e] \in Seq(Frame)
        BY DEF TypeInv, SessionsOK
  <2> QED BY <2>1
<1>2. PICK L : L = Line(e)
      OBVIOUS
<1>3. CASE rl[Other(e)] # "dispatch"
  <2>1. L = W
        BY <1>1, <1>2, <1>3 DEF Line
  <2> QED BY <1>1, <1>2, <1>3, <2>1 DEF Carries
<1>4. CASE rl[Other(e)] = "dispatch"
  <2>1. frame[Other(e)] \in Frame
        BY EndsFacts DEF TypeInv, SessionsOK
  <2>2. /\ Len(L) = m + 1 /\ L[1] = frame[Other(e)]
        /\ \A i \in 1..m : L[i + 1] = W[i]
    <3>1. L = <<frame[Other(e)]>> \o W
          BY <1>1, <1>2, <1>4 DEF Line
    <3> QED BY <1>1, <2>1, <3>1
  <2>3. /\ \A i \in 1..m : i + 1 \in 1..(m + 1)
        /\ \A i \in 1..(m + 1) : i # 1 => i - 1 \in 1..m /\ (i - 1) + 1 = i
        /\ 1 \in 1..(m + 1)
        OBVIOUS
  <2>4. \A f : (\E i \in 1..Len(L) : f = L[i] /\ f.id = id)
                  <=> (f = L[1] \/ \E i \in 1..m : f = W[i]) /\ f.id = id
    <3>1. \A i \in 1..(m + 1) : i = 1 \/ \E j \in 1..m : L[i] = W[j]
          BY <2>2, <2>3
    <3>2. \A j \in 1..m : \E i \in 1..(m + 1) : L[i] = W[j]
          BY <2>2, <2>3
    <3>3. 1..Len(L) = 1..(m + 1)
          BY <2>2
    <3>4. ASSUME NEW f, f.id = id
          PROVE  (\E i \in 1..Len(L) : f = L[i]) <=> (f = L[1] \/ \E i \in 1..m : f = W[i])
      <4>1. ASSUME NEW i \in 1..(m + 1), f = L[i] PROVE f = L[1] \/ \E j \in 1..m : f = W[j]
            BY <3>1, <4>1
      <4>2. ASSUME NEW j \in 1..m, f = W[j] PROVE \E i \in 1..(m + 1) : f = L[i]
            BY <3>2, <4>2
      <4> QED BY <2>3, <3>3, <4>1, <4>2
    <3> QED BY <3>4
  <2>5. \A f : f \in Carries(e, id)
                  <=> (f = L[1] \/ \E i \in 1..m : f = W[i]) /\ f.id = id
        BY <1>1, <1>4, <2>2 DEF Carries
  <2> QED BY <1>2, <2>4, <2>5
<1> QED BY <1>3, <1>4

\* While the connection lasts, every frame that a stream wrote before its
\* zero-length frame is with its reader or on its way.
THEOREM FramesKept ==
    ASSUME NoWrap
    PROVE  Spec => []NothingLost
<1>1. ASSUME MuxInv PROVE NothingLost
  <2> SUFFICES ASSUME NEW e \in Ends, NEW id \in IDs, Sole(e, id), ~broken
               PROVE  (Pushed(Other(e), id) + 1)..State(e, id).sent = InTransit(e, id) \ {0}
      BY DEF NothingLost
  <2>1. PICK o \in Ends : o = Other(e)
        BY EndsFacts
  <2>2. TypeInv
        BY <1>1 DEF MuxInv, IDInv
  <2>3. PICK L \in Seq(Frame), P \in Nat, S \in Nat :
           L = Line(e) /\ P = Handed(o, id) /\ S = State(e, id).sent
        BY <2>2, LineType, PairTypes
  <2>4. Link(L, id, P, S) /\ Complete(L, id, P, S)
        BY <1>1, <2>1, <2>3 DEF MuxInv, DirInv, Dir
  <2>5. \A i \in 1..Len(L) : L[i].n \in Nat
    <3>1. \A g \in Frame : g.n \in Nat
          BY Bounds DEF Frame
    <3> QED BY <2>3, <3>1
  <2>6. \A n : n \in InTransit(e, id) <=> \E i \in 1..Len(L) : Mine(L[i], id) /\ L[i].n = n
    <3>1. \A f : f \in Carries(e, id) <=> \E i \in 1..Len(L) : f = L[i] /\ f.id = id
          BY <2>2, <2>3, CarriesLine
    <3> QED BY <3>1 DEF InTransit, Mine
  <2>7. \A n : n \in (P + 1)..S => n \in InTransit(e, id) /\ n # 0
        BY <2>3, <2>4, <2>6 DEF Complete
  <2>8. ASSUME NEW n, n \in InTransit(e, id), n # 0 PROVE n \in (P + 1)..S
    <3>1. PICK i \in 1..Len(L) : Mine(L[i], id) /\ L[i].n = n
          BY <2>6, <2>8
    <3>2. n \in Nat /\ n <= S /\ n > P
          BY <2>4, <2>5, <2>8, <3>1 DEF Link, Within
    <3> QED BY <2>3, <3>2
  <2>9. Pushed(o, id) = P
        BY <2>3 DEF Pushed, Handed
  <2>10. (P + 1)..S = InTransit(e, id) \ {0}
        BY <2>7, <2>8
  <2> QED BY <2>1, <2>3, <2>9, <2>10
<1> QED BY <1>1, MuxCorrect, PTL

\* io.EOF tells a reader that it has read every frame its peer's stream wrote
\* before its Close or the end of its session.
THEOREM EOFMeansAll ==
    ASSUME NoWrap
    PROVE  Spec => []EOFComplete
<1>1. ASSUME MuxInv PROVE EOFComplete
  <2> SUFFICES ASSUME NEW e \in Ends, NEW id \in IDs, Sole(Other(e), id), ~broken,
                      State(e, id).seen = "EOF"
               PROVE  State(e, id).got = State(Other(e), id).sent
      BY DEF EOFComplete
  <2>1. PICK o \in Ends : o = Other(e) /\ e = Other(o)
        BY EndsFacts
  <2>2. TypeInv
        BY <1>1 DEF MuxInv, IDInv
  <2>3. Dir(o, id)
        BY <1>1, <2>1 DEF MuxInv, DirInv
  <2>4. At(e, id) # {}
        BY DEF State, NewTCPStream
  <2>5. PICK p \in At(e, id) : p = Origin(e, id) /\ p \in AllMade /\ State(e, id) = st[p]
        BY <2>2, <2>4, StateFacts
  <2>6. p[1] = e /\ st[p].id = id
        BY AtFacts
  <2>7. Ended(p)
        BY <1>1, <2>5, <2>6 DEF MuxInv, ObjectInv
  <2>8. st[p].buf = <<>> /\ (streams[e][id] # p \/ closeErr[e] = "EOF")
        BY <2>5, <2>6, <2>7 DEF Ended
  <2>9. PICK L \in Seq(Frame), P \in Nat, S \in Nat :
           L = Line(o) /\ P = Handed(e, id) /\ S = State(o, id).sent
        BY <2>2, LineType, PairTypes
  <2>10. P = State(e, id).got
    <3>1. State(e, id).got \in Nat
          BY <2>2, PairTypes
    <3>2. Len(<<>>) = 0
          OBVIOUS
    <3>3. P = State(e, id).got + 0
          BY <2>5, <2>8, <2>9, <3>2 DEF Handed
    <3> QED BY <3>1, <3>3
  <2>11. CASE streams[e][id] # p
    <3>1. Gone(e, id)
          BY <2>4, <2>5, <2>11 DEF Gone
    <3> QED BY <2>1, <2>3, <2>9, <2>10, <3>1 DEF Dir
  <2>12. CASE closeErr[e] = "EOF"
    <3>1. rl[e] = "done" /\ wire[o] = <<>>
          BY <1>1, <2>1, <2>12 DEF MuxInv, SessionInv, SessionEOF
    <3>2. L = <<>>
          BY <2>1, <2>9, <3>1 DEF Line
    <3>3. Link(L, id, P, S) /\ Complete(L, id, P, S)
          BY <2>1, <2>3, <2>9 DEF Dir
    <3>4. \A n \in (P + 1)..S : FALSE
          BY <3>2, <3>3 DEF Complete
    <3>5. P <= S /\ ~(P < S)
      <4>1. P < S => P + 1 \in (P + 1)..S
            OBVIOUS
      <4> QED BY <3>3, <3>4, <4>1 DEF Link
    <3>6. P = S
          BY <2>9, <3>5
    <3> QED BY <2>1, <2>9, <2>10, <3>6
  <2> QED BY <2>8, <2>11, <2>12
<1> QED BY <1>1, MuxCorrect, PTL

\* Once the peer's zero-length frame has arrived and no late one has followed
\* it, the map no longer holds the stream.
THEOREM MapsDrain ==
    ASSUME NoWrap
    PROVE  Spec => []NoLeak
<1>1. ASSUME MuxInv PROVE NoLeak
  <2> SUFFICES ASSUME NEW e \in Ends, NEW id \in IDs,
                      ~broken, ~Closed(e), ~Closed(Other(e)), Sole(e, id),
                      State(e, id).cl = "done", State(e, id).over = 0, Carries(e, id) = {}
               PROVE  streams[Other(e)][id] = NoStream
      BY DEF NoLeak
  <2>1. PICK o \in Ends : o = Other(e)
        BY EndsFacts
  <2>2. TypeInv /\ Dir(e, id)
        BY <1>1 DEF MuxInv, IDInv, DirInv
  <2>3. PICK L : L = Line(e)
        OBVIOUS
  <2>4. ~HasZero(L, id)
    <3>1. \A i \in 1..Len(L) : L[i].id # id
          BY <2>2, <2>3, CarriesLine
    <3> QED BY <3>1 DEF HasZero, Mine
  <2>5. Gone(o, id) /\ \A q \in At(o, id) : q = Origin(o, id)
        BY <2>1, <2>2, <2>3, <2>4 DEF Dir
  <2> QED BY <1>1, <2>1, <2>5 DEF Gone, MuxInv, MapOK
<1> QED BY <1>1, MuxCorrect, PTL

\* No step hands anything to a reader that was told io.EOF: its stream is out
\* of the map, or its read loop is at its end.
THEOREM EOFStays ==
    ASSUME NoWrap
    PROVE  Spec => EOFIsFinal
<1> DEFINE Final == \A e \in Ends, id \in IDs :
                       State(e, id).seen = "EOF" =>
                           /\ State(e, id)'.seen = "EOF" /\ State(e, id)'.buf = <<>>
                           /\ State(e, id)'.got = State(e, id).got
<1>1. MuxInv /\ [Next]_vars => Final
  <2> SUFFICES ASSUME MuxInv, [Next]_vars, NEW e \in Ends, NEW id \in IDs,
                      State(e, id).seen = "EOF"
               PROVE  /\ State(e, id)'.seen = "EOF" /\ State(e, id)'.buf = <<>>
                      /\ State(e, id)'.got = State(e, id).got
      OBVIOUS
  <2>1. TypeInv /\ SessionInv
        BY DEF MuxInv, IDInv
  <2>2. ObjectsStep
        BY <2>1, NextFlags, NextObjects
  <2>3. At(e, id) # {}
        BY DEF State, NewTCPStream
  <2>4. PICK p \in At(e, id) : /\ p = Origin(e, id)
                               /\ State(e, id) = st[p] /\ State(e, id)' = st'[p]
    <3>1. Origin(e, id) \in At(e, id)
          BY <2>3, OriginFacts
    <3>2. State(e, id) = st[Origin(e, id)] /\ State(e, id)' = st'[Origin(e, id)]
          BY <2>1, <2>2, <2>3, OriginKept
    <3> QED BY <3>1, <3>2
  <2>5. p \in AllMade /\ p[1] = e /\ st[p].id = id
        BY AtFacts
  <2>6. Ended(p)
        BY <2>4, <2>5 DEF MuxInv, ObjectInv
  <2>7. Still(st'[p], st[p])
        BY <2>2, <2>4, <2>5, <2>6 DEF ObjectsStep, ObjectStep
  <2> QED BY <2>4, <2>6, <2>7 DEF Still, Ended
<1> HIDE DEF Final
<1>2. Spec => [][Final]_vars
      BY <1>1, MuxCorrect, PTL DEF Spec
<1> QED BY <1>2 DEF EOFIsFinal, Final

\* Only the end of Close's loop over the map finishes a Close.
LEMMA DoneByRange ==
    ASSUME NEW e \in Ends, [Next]_vars, TypeInv, closePc'[e] = "done"
    PROVE  closePc[e] = "done" \/ CloseRange(e)
<1> USE DEF closeVars
<1>1. closePc \in [Ends -> {"open", "marked", "conn", "done"}]
      BY DEF TypeInv, SessionsOK
<1>2. ASSUME NEW x \in Ends, NEW err, BeginClose(x, err) PROVE closePc[e] = "done"
      BY <1>1, <1>2 DEF BeginClose
<1>3. ASSUME closePc' = closePc PROVE closePc[e] = "done"
      BY <1>3
<1>4. ASSUME NEW x \in Ends, SessionNext(x) PROVE closePc[e] = "done" \/ CloseRange(e)
  <2>1. CASE OpenStreamCheck(x) \/ OpenStream(x) \/ AcceptStream(x)
        BY <1>3, <2>1 DEF OpenStreamCheck, OpenStream, AcceptStream
  <2>2. CASE CloseSession(x)
        BY <1>2, <2>2 DEF CloseSession
  <2>3. CASE CloseConn(x)
        BY <1>1, <2>3 DEF CloseConn
  <2>4. CASE CloseRange(x)
    <3>1. closePc' = [closePc EXCEPT ![x] = "done"]
          BY <2>4 DEF CloseRange
    <3> QED BY <1>1, <2>4, <3>1
  <2> QED BY <1>4, <2>1, <2>2, <2>3, <2>4 DEF SessionNext
<1>5. ASSUME NEW x \in Ends, ReadLoop(x) PROVE closePc[e] = "done"
  <2>1. CASE ReadFail(x)
        BY <1>2, <2>1 DEF ReadFail
  <2>2. CASE ReadFrame(x) \/ DispatchNew(x) \/ DispatchKnown(x) \/ OfferStream(x)
        BY <1>3, <2>2 DEF ReadFrame, DispatchNew, DispatchKnown, OfferStream
  <2> QED BY <1>5, <2>1, <2>2 DEF ReadLoop
<1>6. ASSUME NEW p \in AllMade, StreamNext(p) PROVE closePc[e] = "done"
  <2>1. \A g : FrameWritten(p[1], g) => closePc' = closePc
        BY DEF FrameWritten
  <2>2. FrameRefused(p[1]) => BeginClose(p[1], "failed") /\ p[1] \in Ends
        BY MadeIsStream DEF FrameRefused
  <2>3. CASE WriteFrame(p) \/ CloseFrame(p)
        BY <1>2, <1>3, <2>1, <2>2, <2>3 DEF WriteFrame, CloseFrame
  <2>4. CASE ~WriteFrame(p) /\ ~CloseFrame(p)
        BY <1>3, <1>6, <2>4 DEF StreamNext, WriteCheck, CloseStream, Read, ReadEnd, OnlyStreams
  <2> QED BY <2>3, <2>4
<1>7. CASE Lose \/ UNCHANGED vars
      BY <1>3, <1>7 DEF Lose, vars
<1> QED BY <1>4, <1>5, <1>6, <1>7 DEF Next

\* Close has an error for every stream that was stored before it began: the map
\* still holds the stream when Close goes through it, or the stream left the map
\* with a zero-length frame, which gave its reader io.EOF.
THEOREM CloseReleases ==
    ASSUME NoWrap
    PROVE  Spec => []CloseReleasesStreams
<1>1. Init => CloseReleasesStreams
      BY MadeIsStream DEF Init, CloseReleasesStreams
<1>2. ASSUME MuxInv, CloseReleasesStreams, [Next]_vars PROVE CloseReleasesStreams'
  <2>1. TypeInv /\ SessionInv /\ ObjectsStep
        BY <1>2, NextFlags, NextObjects DEF MuxInv, IDInv
  <2> SUFFICES ASSUME NEW p \in AllMade', closePc'[p[1]] = "done", ~st'[p].late
               PROVE  st'[p].readErr # "none"
      BY DEF CloseReleasesStreams
  <2>2. PICK e \in Ends : e = p[1]
        BY DEF AllMade, Made, Ends
  <2>3. closePc[e] = "done" \/ CloseRange(e)
        BY <1>2, <2>1, <2>2, DoneByRange
  <2>4. Closed(e)
        BY <2>3 DEF CloseRange, Closed
  <2>5. p \in AllMade
        BY <2>1, <2>2, <2>4 DEF ObjectsStep, Born
  <2>6. Later(st'[p], st[p])
        BY <2>1, <2>5 DEF ObjectsStep, ObjectStep
  <2>7. p \in Stream /\ st[p] \in StreamState /\ st[p].id \in IDs
        BY <2>1, <2>5, MadeFacts
  <2>8. CASE closePc[e] = "done"
        BY <1>2, <2>2, <2>5, <2>6, <2>8 DEF CloseReleasesStreams, Later
  <2>9. CASE CloseRange(e) /\ streams[e][st[p].id] = p
    <3>1. st'[p] = SessionClosed(st[p], closeErr[e])
          BY <2>7, <2>9 DEF CloseRange
    <3>2. closeErr[e] # "none"
          BY <2>1, <2>4 DEF SessionInv, SessionErr
    <3> QED BY <2>7, <3>1, <3>2 DEF SessionClosed, StreamState
  <2>10. CASE streams[e][st[p].id] # p
        BY <1>2, <2>2, <2>5, <2>6, <2>10 DEF MuxInv, InMapOrEnded, Later
  <2> QED BY <2>3, <2>8, <2>9, <2>10
<1>3. MuxInv /\ [Next]_vars => MuxInv'
      BY NextMuxInv
<1> QED BY <1>1, <1>2, <1>3, InitMuxInv, PTL DEF Spec
=============================================================================
