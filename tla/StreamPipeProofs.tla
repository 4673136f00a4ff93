-------------------------- MODULE StreamPipeProofs --------------------------
(***************************************************************************)
(* What every implementation of StreamPipe, TCPMux among them, gives the   *)
(* reader of a stream: the writes in order, once each.  Inv adds that the  *)
(* pipe holds all that was written and not read.                           *)
(***************************************************************************)
EXTENDS StreamPipe, TLAPS

Inv ==
    /\ sent \in Nat /\ read \in Nat /\ pipe \in Seq(Nat)
    /\ read + Len(pipe) = sent
    /\ FIFO

LEMMA ReadArith ==
    ASSUME NEW r \in Nat, NEW n \in Nat, NEW k \in 1..n, NEW w, r + n = w
    PROVE  r + k \in Nat /\ (r + k) + (n - k) = w
  OBVIOUS

LEMMA InitInv == Init => Inv
  BY DEF Init, Inv, FIFO

LEMMA NextInv == Inv /\ [Next]_vars => Inv'
  <1> SUFFICES ASSUME Inv, [Next]_vars PROVE Inv'
    OBVIOUS
  <1> USE DEF Inv, FIFO
  <1>1. CASE Write
    <2>1. /\ Len(pipe') = Len(pipe) + 1
          /\ pipe' \in Seq(Nat)
          /\ \A i \in 1..Len(pipe') :
                pipe'[i] = IF i = Len(pipe) + 1 THEN sent + 1 ELSE pipe[i]
      BY <1>1 DEF Write
    <2> QED  BY <1>1, <2>1 DEF Write
  <1>2. CASE Close
    BY <1>2 DEF Close
  <1>3. CASE Read
    <2>1. PICK k \in 1..Len(pipe) :
             read' = pipe[k] /\ pipe' = SubSeq(pipe, k + 1, Len(pipe))
      BY <1>3 DEF Read
    <2>2. Len(pipe) \in Nat /\ pipe[k] = read + k /\ pipe[k] \in Nat
      OBVIOUS
    <2>3. /\ pipe' \in Seq(Nat)
          /\ Len(pipe') = Len(pipe) - k
          /\ \A i \in 1..Len(pipe') : pipe'[i] = pipe[k + i]
      BY <2>1, <2>2
    <2>4. sent' = sent
      BY <1>3 DEF Read
    <2>5. \A i \in 1..Len(pipe') : pipe'[i] = read' + i
      BY <2>1, <2>2, <2>3
    <2>6. read' = read + k /\ k \in Nat
      BY <2>1, <2>2
    <2>7. read' + Len(pipe') = sent' /\ read' \in Nat
      <3>1. Len(pipe) \in Nat /\ read \in Nat /\ read + Len(pipe) = sent
        BY <2>2
      <3> HIDE DEF Inv, FIFO
      <3>2. read + k \in Nat /\ (read + k) + (Len(pipe) - k) = sent
        BY <3>1, ReadArith
      <3> QED  BY <2>3, <2>4, <2>6, <3>2
    <2> QED  BY <2>3, <2>4, <2>5, <2>6, <2>7
  <1>4. CASE End
    BY <1>4 DEF End
  <1>5. CASE GoDown
    BY <1>5 DEF GoDown
  <1>6. CASE UNCHANGED vars
    BY <1>6 DEF vars
  <1> QED  BY <1>1, <1>2, <1>3, <1>4, <1>5, <1>6 DEF Next

\* A pipe delivers what was written in order, once each, however writes, reads,
\* the Close and the end of the session interleave.
THEOREM PipeInOrder == Spec => []FIFO
  <1>1. Inv => FIFO
    BY DEF Inv
  <1> QED  BY InitInv, NextInv, <1>1, PTL DEF Spec
=============================================================================
