---------------------------- MODULE RelayProofs -----------------------------
(***************************************************************************)
(* What the two applications of a relayed connection may rely on, for any  *)
(* amount of data and sockets of any size.                                 *)
(*                                                                         *)
(* The claims are about the chunks that get through, and depend on why a   *)
(* copy ended.  Inv says of the direction to x, from y = Peer(x):          *)
(*   Source   what y's socket and copy hold are the last chunks y sent     *)
(*   Chain    what is on its way beyond them goes on where x has received  *)
(*   Whole    and is all the rest, until something ends                    *)
(*   Clean    if nothing but y's application can have ended the connection,*)
(*            then x begins to close when it has all that y sent           *)
(***************************************************************************)
EXTENDS Relay, TLAPS

Handlers == {"queued", "header", "dial", "wait", "stream", "local", "done"}
Copies == {"off", "read", "write", "done"}

TypeInv ==
    /\ sent \in [Sides -> Nat] /\ got \in [Sides -> Nat]
    /\ fin \in [Sides -> BOOLEAN] /\ gone \in [Sides -> BOOLEAN]
    /\ seen \in [Sides -> {"none", "eof", "reset"}]
    /\ out \in [Sides -> Seq(Int)] /\ in \in [Sides -> Seq(Int)]
    /\ local \in [Sides -> {"none", "open", "closed"}]
    /\ handler \in [Sides -> Handlers]
    /\ copyOut \in [Sides -> Copies] /\ copyIn \in [Sides -> Copies]
    /\ outBuf \in [Sides -> Int] /\ inBuf \in [Sides -> Int]
    /\ closed \in [Sides -> BOOLEAN] /\ pipe \in [Sides -> Seq(Int)]
    /\ alive \in BOOLEAN /\ stopping \in BOOLEAN

\* The client's handler before it has dialled.
Early == handler["client"] \in {"queued", "header", "dial"}

\* Where the handlers are, and what they have closed by then.
Control ==
    /\ handler["server"] \in {"wait", "local", "done"}
    /\ handler["client"] # "local"
    /\ closed["server"] <=> handler["server"] # "wait"
    /\ local["server"] = IF handler["server"] = "done" THEN "closed" ELSE "open"
    /\ copyOut["server"] # "off" /\ copyIn["server"] # "off"
    /\ closed["client"] => handler["client"] = "done"
    /\ local["client"] = "open" <=> handler["client"] = "wait"
    /\ Early => local["client"] = "none"
    /\ local["client"] = "none" <=> copyOut["client"] = "off"
    /\ local["client"] = "none" <=> copyIn["client"] = "off"
    /\ \A x \in Sides :
          /\ copyOut[x] = "write" <=> outBuf[x] # 0
          /\ copyIn[x] = "write" <=> inBuf[x] # 0
          /\ gone[x] => fin[x]

\* The header is first, for the client's handler, and the zero-length frame last.
AtHeader(x) == x = "client" /\ handler["client"] \in {"queued", "header"}
Framed(x) ==
    /\ \A i \in 1..Len(pipe[x]) :
          /\ pipe[x][i] = Header <=> i = 1 /\ AtHeader(x)
          /\ pipe[x][i] = End => i = Len(pipe[x]) /\ closed[Peer(x)]
          /\ pipe[x][i] >= Header
    /\ alive /\ AtHeader(x) => pipe[x] # <<>>
    /\ alive /\ closed[Peer(x)] => pipe[x] # <<>> /\ pipe[x][Len(pipe[x])] = End

Held(n) == IF n = 0 THEN 0 ELSE 1
Front(x) == IF AtHeader(x) THEN 1 ELSE 0

\* The last chunk that the application at x has, or its copy holds; and that
\* is in the stream, counting a zero-length frame as a chunk.
Reached(x) == got[x] + Len(in[x]) + Held(inBuf[x])
Through(x) == Reached(x) + Len(pipe[x]) - Front(x)

Source(y) ==
    /\ Len(out[y]) <= sent[y]
    /\ \A i \in 1..Len(out[y]) : out[y][i] = sent[y] - Len(out[y]) + i
    /\ outBuf[y] # 0 => outBuf[y] > 0 /\ outBuf[y] = sent[y] - Len(out[y])

Chain(x) ==
    ~gone[x] =>
        /\ \A i \in 1..Len(in[x]) : in[x][i] = got[x] + i
        /\ copyIn[x] # "done" =>
              /\ inBuf[x] # 0 => inBuf[x] = got[x] + Len(in[x]) + 1
              /\ \A i \in 1..Len(pipe[x]) :
                    pipe[x][i] > 0 => pipe[x][i] = Reached(x) + i - Front(x)

Flows(x) == alive /\ ~gone[x] /\ copyIn[x] # "done" /\ ~closed[Peer(x)]
Left(y) == sent[y] - Len(out[y]) - Held(outBuf[y])
Whole(x) == Flows(x) => Through(x) = Left(Peer(x))

\* The copy to x ends only when one of the ends closes.
CopyEnds(x) ==
    copyIn[x] = "done" => ~alive \/ closed[Peer(x)] \/ local[x] = "closed" \/ gone[x]

\* The relay at x has begun to close.
Began(x) ==
    copyOut[x] = "done" \/ copyIn[x] = "done" \/ closed[x] \/ local[x] = "closed"

\* Nothing but the application at Peer(x) may have ended the connection yet.
Orderly(x) ==
    alive /\ ~stopping /\ (local["client"] # "none" \/ Early) /\ ~fin[x] /\ ~gone[Peer(x)]

\* All that y has sent is through.
AllSent(y) == fin[y] /\ out[y] = <<>> /\ outBuf[y] = 0
AllThrough(x) ==
    IF copyIn[x] = "done"
    THEN got[x] + Len(in[x]) = sent[Peer(x)]
    ELSE Through(x) - (IF closed[Peer(x)] THEN 1 ELSE 0) = sent[Peer(x)]

Clean(x) ==
    Orderly(x) =>
        /\ Began(Peer(x)) => AllSent(Peer(x)) /\ AllThrough(x)
        /\ Began(x) => Began(Peer(x)) /\ copyIn[x] = "done"

Direction(x) ==
    Framed(x) /\ Source(Peer(x)) /\ Chain(x) /\ Whole(x) /\ CopyEnds(x) /\ Clean(x)

Inv == TypeInv /\ Control /\ \A x \in Sides : Direction(x)

-----------------------------------------------------------------------------
LEMMA SidesFacts ==
    /\ \A x \in Sides : Peer(x) \in Sides /\ Peer(x) # x /\ Peer(Peer(x)) = x
    /\ \A x \in Sides : \A z \in Sides : z = x \/ z = Peer(x)
    /\ "server" \in Sides /\ "client" \in Sides
    /\ Peer("server") = "client" /\ Peer("client") = "server"
  BY DEF Sides, Peer

LEMMA Numbers ==
    ASSUME TypeInv, NEW z \in Sides
    PROVE  /\ Len(in[z]) \in Nat /\ Len(out[z]) \in Nat /\ Len(pipe[z]) \in Nat
           /\ Reached(z) \in Int /\ Through(z) \in Int /\ Left(z) \in Int /\ Front(z) \in Int
           /\ sent[z] \in Nat /\ got[z] \in Nat
  <1>1. Len(in[z]) \in Nat /\ Len(out[z]) \in Nat /\ Len(pipe[z]) \in Nat
        /\ sent[z] \in Nat /\ got[z] \in Nat
    BY DEF TypeInv
  <1>2. Held(inBuf[z]) \in Int /\ Held(outBuf[z]) \in Int /\ Front(z) \in Int
    BY DEF Held, Front
  <1>3. Reached(z) \in Int /\ Left(z) \in Int
    BY <1>1, <1>2 DEF Reached, Left
  <1> QED  BY <1>1, <1>2, <1>3 DEF Through

\* What a step leaves as it was when it leaves alone what it is about.
LEMMA FramedKept ==
    ASSUME NEW z \in Sides, Framed(z),
           UNCHANGED <<pipe[z], AtHeader(z), closed[Peer(z)], alive>>
    PROVE  Framed(z)'
  BY DEF Framed

LEMMA SourceKept ==
    ASSUME NEW y \in Sides, Source(y), UNCHANGED <<sent[y], out[y], outBuf[y]>>
    PROVE  Source(y)'
  BY DEF Source

LEMMA ChainKept ==
    ASSUME NEW z \in Sides, Chain(z), gone'[z] \/ ~gone[z], copyIn[z] = "done" => copyIn'[z] = "done",
           UNCHANGED <<in[z], got[z], inBuf[z], pipe[z], AtHeader(z)>>
    PROVE  Chain(z)'
  BY DEF Chain, Reached, Front

LEMMA ThroughKept ==
    ASSUME NEW z \in Sides, UNCHANGED <<in[z], got[z], inBuf[z], pipe[z], AtHeader(z)>>
    PROVE  UNCHANGED <<Reached(z), Through(z)>>
  BY DEF Through, Reached, Front

LEMMA LeftKept ==
    ASSUME NEW y \in Sides, UNCHANGED <<sent[y], out[y], outBuf[y]>>
    PROVE  Left(y)' = Left(y)
  BY DEF Left

LEMMA WholeKept ==
    ASSUME NEW z \in Sides, Whole(z), Flows(z)' => Flows(z),
           UNCHANGED <<Through(z), Left(Peer(z))>>
    PROVE  Whole(z)'
  BY DEF Whole

\* What Direction(z) is about.
View(z) ==
    <<pipe[z], AtHeader(z), Early, closed, alive, stopping, got[z], in[z], inBuf[z], copyIn,
      gone, fin, sent[Peer(z)], out[Peer(z)], outBuf[Peer(z)], copyOut, local>>

LEMMA ViewFacts ==
    ASSUME NEW z \in Sides, UNCHANGED View(z)
    PROVE  /\ UNCHANGED <<Reached(z), Through(z), Left(Peer(z)), Flows(z)>>
           /\ UNCHANGED <<Orderly(z), Began(z), Began(Peer(z)), AllSent(Peer(z)), AllThrough(z)>>
  BY DEF View, Through, Reached, Front, Left, Flows, Orderly, Began, AllSent, AllThrough

LEMMA DirectionKept ==
    ASSUME NEW z \in Sides, Direction(z), UNCHANGED View(z)
    PROVE  Direction(z)'
  <1>1. Peer(z) \in Sides /\ Framed(z) /\ Source(Peer(z)) /\ Chain(z) /\ Whole(z)
        /\ CopyEnds(z) /\ Clean(z)
    BY SidesFacts DEF Direction
  <1>2. Framed(z)'
    BY <1>1, FramedKept DEF View
  <1>3. Source(Peer(z))'
    BY <1>1, SourceKept DEF View
  <1>4. Chain(z)'
    BY <1>1, ChainKept DEF View
  <1>5. Whole(z)' /\ Clean(z)'
    BY <1>1, ViewFacts DEF Whole, Clean, View
  <1>6. CopyEnds(z)'
    BY <1>1 DEF CopyEnds, View
  <1> QED  BY <1>2, <1>3, <1>4, <1>5, <1>6 DEF Direction

LEMMA CleanKept ==
    ASSUME NEW z \in Sides, Clean(z), Orderly(z)' => Orderly(z),
           Orderly(z)' => Began(z)' = Began(z) /\ Began(Peer(z))' = Began(Peer(z)),
           copyIn[z] = "done" => copyIn'[z] = "done",
           Orderly(z)' /\ Began(Peer(z)) /\ AllSent(Peer(z)) /\ AllThrough(z)
              => AllSent(Peer(z))' /\ AllThrough(z)'
    PROVE  Clean(z)'
  BY DEF Clean

LEMMA BothDirections ==
    ASSUME NEW x \in Sides, TypeInv', Control', Direction(x)', Direction(Peer(x))'
    PROVE  Inv'
  BY SidesFacts DEF Inv

LEMMA TailFacts ==
    ASSUME NEW s \in Seq(Int), s # <<>>
    PROVE  /\ Tail(s) \in Seq(Int) /\ Len(s) \in Nat /\ Len(s) > 0 /\ Head(s) = s[1] /\ s[1] \in Int
           /\ Len(Tail(s)) = Len(s) - 1
           /\ \A i \in 1..Len(Tail(s)) : Tail(s)[i] = s[i + 1] /\ i + 1 \in 1..Len(s)
  OBVIOUS

\* The numbers the steps below are about, without the sequences they belong to.
LEMMA HasElements ==
    ASSUME NEW s, Len(s) > 0
    PROVE  s # <<>>
  OBVIOUS

LEMMA EqualGrowth ==
    ASSUME NEW a \in Int, NEW b \in Int
    PROVE  (a + 1) - (b + 1) = a - b
  OBVIOUS

LEMMA MoreThanOne ==
    ASSUME NEW a \in Nat, a > 0, a # 1
    PROVE  a - 1 > 0
  OBVIOUS

LEMMA MovedIn ==
    ASSUME NEW a \in Int, NEW b \in Int
    PROVE  a + (b + 1) + 0 = a + b + 1
  OBVIOUS

LEMMA UpToNext ==
    ASSUME NEW a \in Int, NEW b \in Int
    PROVE  a - b + (b + 1) = a + 1
  OBVIOUS

LEMMA AppendFacts ==
    ASSUME NEW s \in Seq(Int), NEW n \in Int
    PROVE  /\ Append(s, n) \in Seq(Int) /\ Len(s) \in Nat /\ Len(Append(s, n)) = Len(s) + 1
           /\ Append(s, n)[Len(s) + 1] = n
           /\ \A i \in 1..Len(s) : Append(s, n)[i] = s[i]
  OBVIOUS

-----------------------------------------------------------------------------
(* The applications.                                                       *)

LEMMA SendKeeps ==
    ASSUME Inv, NEW x \in Sides, NEW y \in Sides, y = Peer(x), Send(x)
    PROVE  Inv'
  <1>1. TypeInv /\ Control /\ Direction(x) /\ Direction(y) /\ y # x /\ x = Peer(y)
    BY SidesFacts DEF Inv
  <1>3. UNCHANGED <<got, fin, gone, seen, in, local, handler, copyOut, copyIn, outBuf, inBuf,
                    closed, pipe, alive, stopping>>
    BY DEF Send, outCopy, inCopy, strm, session
  <1>2. TypeInv'
    <2>1. sent' \in [Sides -> Nat]
      BY <1>1 DEF Send, TypeInv
    <2>2. out' \in [Sides -> Seq(Int)]
      <3>1. Append(out[x], sent[x] + 1) \in Seq(Int)
        BY <1>1 DEF TypeInv
      <3> QED  BY <1>1, <3>1 DEF Send, TypeInv
    <2> QED  BY <1>1, <1>3, <2>1, <2>2 DEF TypeInv
  <1>4. Control'
    BY <1>1, <1>3 DEF Control, Early
  <1>5. /\ sent'[y] = sent[y] /\ out'[y] = out[y] /\ ~fin[x]
        /\ sent'[x] = sent[x] + 1 /\ out'[x] = Append(out[x], sent[x] + 1)
    BY <1>1 DEF Send, TypeInv
  <1>6. Direction(x)'
    BY <1>1, <1>3, <1>5, DirectionKept DEF View, AtHeader, Early
  <1>7. Source(x)'
    <2>1. out[x] \in Seq(Int) /\ sent[x] \in Int /\ sent[x] + 1 \in Int
      BY <1>1 DEF TypeInv
    <2>2. /\ Len(out'[x]) = Len(out[x]) + 1 /\ Len(out[x]) \in Nat
          /\ out'[x][Len(out[x]) + 1] = sent[x] + 1
          /\ \A i \in 1..Len(out[x]) : out'[x][i] = out[x][i]
      BY <1>5, <2>1, AppendFacts
    <2>3. Source(x) /\ outBuf[x] \in Int
      BY <1>1 DEF Direction, TypeInv
    <2>4. sent'[x] - Len(out'[x]) = sent[x] - Len(out[x]) /\ outBuf'[x] = outBuf[x]
      <3>1. sent'[x] = sent[x] + 1 /\ Len(out'[x]) = Len(out[x]) + 1 /\ Len(out[x]) \in Nat
        BY <1>5, <2>2
      <3>2. (sent[x] + 1) - (Len(out[x]) + 1) = sent[x] - Len(out[x])
        <4>1. sent[x] \in Int
          BY <2>1
        <4>2. Len(out[x]) \in Int
          BY <3>1
        <4> QED  BY <4>1, <4>2, EqualGrowth
      <3> QED  BY <1>3, <3>1, <3>2
    <2>5. \A i \in 1..Len(out'[x]) : out'[x][i] = sent'[x] - Len(out'[x]) + i
      <3>1. \A i \in 1..Len(out[x]) : out'[x][i] = sent[x] - Len(out[x]) + i
        BY <2>2, <2>3 DEF Source
      <3>2. sent[x] - Len(out[x]) + (Len(out[x]) + 1) = sent[x] + 1
        <4>1. sent[x] \in Int /\ Len(out[x]) \in Int
          BY <2>1, <2>2
        <4> QED  BY <4>1, UpToNext
      <3>3. \A i \in 1..Len(out'[x]) : i \in 1..Len(out[x]) \/ i = Len(out[x]) + 1
        BY <2>2
      <3> QED  BY <2>2, <2>4, <3>1, <3>2, <3>3
    <2>6. Len(out'[x]) <= sent'[x]
      BY <1>5, <2>1, <2>2, <2>3 DEF Source
    <2> QED  BY <2>3, <2>4, <2>5, <2>6 DEF Source
  <1>8. Left(x)' = Left(x)
    <2>1. out[x] \in Seq(Int) /\ sent[x] \in Int /\ sent[x] + 1 \in Int
      BY <1>1 DEF TypeInv
    <2>2. Len(out'[x]) = Len(out[x]) + 1 /\ Len(out[x]) \in Int
      BY <1>5, <2>1, AppendFacts
    <2>3. sent'[x] - Len(out'[x]) = sent[x] - Len(out[x])
      BY <1>5, <2>1, <2>2, EqualGrowth
    <2> QED  BY <1>3, <2>3 DEF Left
  <1>9. UNCHANGED <<AtHeader(y), Through(y), Flows(y), Began(x), Began(y), Orderly(y)>>
    BY <1>3 DEF AtHeader, Flows, Began, Orderly, Early, Through, Reached, Front
  <1>10. Framed(y)' /\ Chain(y)' /\ Whole(y)' /\ CopyEnds(y)'
    BY <1>1, <1>3, <1>8, <1>9, FramedKept, ChainKept, WholeKept DEF Direction, CopyEnds
  <1>11. Clean(y)'
    BY <1>1, <1>3, <1>5, <1>9, CleanKept DEF AllSent, Direction
  <1> QED  BY <1>1, <1>2, <1>4, <1>6, <1>7, <1>10, <1>11, BothDirections DEF Direction

LEMMA FinKeeps ==
    ASSUME Inv, NEW x \in Sides, NEW y \in Sides, y = Peer(x), Fin(x)
    PROVE  Inv'
  <1>1. TypeInv /\ Control /\ Direction(x) /\ Direction(y) /\ y # x /\ x = Peer(y)
    BY SidesFacts DEF Inv
  <1>2. TypeInv'
    BY <1>1 DEF Fin, TypeInv, sockets, outCopy, inCopy, strm, session
  <1>3. UNCHANGED <<sent, got, gone, seen, out, in, local, handler, copyOut, copyIn, outBuf,
                    inBuf, closed, pipe, alive, stopping>>
    BY DEF Fin, sockets, outCopy, inCopy, strm, session
  <1>4. fin'[x] /\ fin'[y] = fin[y]
    BY <1>1 DEF Fin, TypeInv
  <1>5. Control'
    BY <1>1, <1>3, <1>4, SidesFacts DEF Control, Early
  <1>6. \A z \in Sides :
           /\ UNCHANGED <<AtHeader(z), Reached(z), Through(z), Left(z), Flows(z), Began(z)>>
           /\ UNCHANGED AllThrough(z)
    BY <1>3 DEF AtHeader, Flows, Began, Through, Reached, Front, Left, AllThrough
  <1>7. \A z \in Sides : Direction(z) =>
           Framed(z)' /\ Source(Peer(z))' /\ Chain(z)' /\ Whole(z)' /\ CopyEnds(z)'
    BY <1>3, <1>6, SidesFacts, FramedKept, SourceKept, ChainKept, WholeKept DEF Direction, CopyEnds
  <1>8. Clean(x)'
    BY <1>4 DEF Clean, Orderly
  <1>9. Clean(y)'
    BY <1>1, <1>3, <1>4, <1>6, CleanKept DEF Direction, AllSent, Orderly, Early
  <1> QED  BY <1>1, <1>2, <1>5, <1>7, <1>8, <1>9, BothDirections DEF Direction

LEMMA LeaveKeeps ==
    ASSUME Inv, NEW x \in Sides, NEW y \in Sides, y = Peer(x), Leave(x)
    PROVE  Inv'
  <1>1. TypeInv /\ Control /\ Direction(x) /\ Direction(y) /\ y # x /\ x = Peer(y)
    BY SidesFacts DEF Inv
  <1>3. UNCHANGED <<sent, got, seen, out, local, handler, copyOut, copyIn, outBuf,
                    inBuf, closed, pipe, alive, stopping>>
    BY DEF Leave, outCopy, inCopy, strm, session
  <1>2. TypeInv'
    <2>1. fin' \in [Sides -> BOOLEAN] /\ gone' \in [Sides -> BOOLEAN]
      BY <1>1 DEF Leave, TypeInv
    <2>2. in' \in [Sides -> Seq(Int)]
      <3>1. <<>> \in Seq(Int) /\ in \in [Sides -> Seq(Int)] /\ in' = [in EXCEPT ![x] = <<>>]
        BY <1>1 DEF Leave, TypeInv
      <3> QED  BY <3>1
    <2> QED  BY <1>1, <1>3, <2>1, <2>2 DEF TypeInv
  <1>4. /\ fin'[x] /\ fin'[y] = fin[y] /\ gone'[x] /\ gone'[y] = gone[y] /\ in'[y] = in[y]
    BY <1>1 DEF Leave, TypeInv
  <1>5. Control'
    BY <1>1, <1>3, <1>4, SidesFacts DEF Control, Early
  <1>6. \A z \in Sides : UNCHANGED <<AtHeader(z), Left(z)>>
    BY <1>3 DEF AtHeader, Left
  <1>7. \A z \in Sides : Direction(z) => Framed(z)' /\ Source(Peer(z))'
    BY <1>3, <1>6, SidesFacts, FramedKept, SourceKept DEF Direction
  <1>8. Chain(x)' /\ Whole(x)' /\ CopyEnds(x)' /\ Clean(x)' /\ Clean(y)'
    BY <1>1, <1>4 DEF Chain, Whole, Flows, CopyEnds, Clean, Orderly
  <1>9. Chain(y)' /\ Whole(y)' /\ CopyEnds(y)'
    BY <1>1, <1>3, <1>4, <1>6, ChainKept, WholeKept, ThroughKept DEF Direction, CopyEnds, Flows
  <1> QED  BY <1>1, <1>2, <1>5, <1>7, <1>8, <1>9, BothDirections DEF Direction

LEMMA RecvKeeps ==
    ASSUME Inv, NEW x \in Sides, NEW y \in Sides, y = Peer(x), Recv(x)
    PROVE  Inv'
  <1>1. TypeInv /\ Control /\ Direction(x) /\ Direction(y) /\ y # x /\ x = Peer(y)
    BY SidesFacts DEF Inv
  <1>2. UNCHANGED <<sent, fin, gone, seen, out, local, handler, copyOut, copyIn, outBuf,
                    inBuf, closed, pipe, alive, stopping>>
    BY DEF Recv, outCopy, inCopy, strm, session
  <1>3. /\ in[x] \in Seq(Int) /\ in[x] # <<>> /\ got[x] \in Nat
        /\ in'[x] = Tail(in[x]) /\ got'[x] = got[x] + 1 /\ in'[y] = in[y] /\ got'[y] = got[y]
    BY <1>1 DEF Recv, TypeInv
  <1>4. /\ in'[x] \in Seq(Int) /\ Len(in'[x]) = Len(in[x]) - 1 /\ Len(in[x]) \in Nat
        /\ \A i \in 1..Len(in'[x]) : in'[x][i] = in[x][i + 1]
    BY <1>3, TailFacts
  <1>5. TypeInv'
    <2>1. in' \in [Sides -> Seq(Int)]
      <3>1. in \in [Sides -> Seq(Int)] /\ in' = [in EXCEPT ![x] = Tail(in[x])]
            /\ Tail(in[x]) \in Seq(Int)
        BY <1>1, <1>3, <1>4 DEF Recv, TypeInv
      <3> QED  BY <3>1
    <2>2. got' \in [Sides -> Nat]
      <3>1. got \in [Sides -> Nat] /\ got' = [got EXCEPT ![x] = got[x] + 1]
        BY <1>1 DEF Recv, TypeInv
      <3> QED  BY <3>1
    <2> QED  BY <1>1, <1>2, <2>1, <2>2 DEF TypeInv
  <1>6. Control'
    BY <1>1, <1>2 DEF Control, Early
  <1>7. Direction(y)'
    BY <1>1, <1>2, <1>3, DirectionKept DEF View, AtHeader, Early
  <1>8. UNCHANGED <<AtHeader(x), Flows(x), Left(y), Began(x), Began(y), Orderly(x), AllSent(y)>>
    BY <1>2 DEF AtHeader, Flows, Left, Began, Orderly, Early, AllSent
  <1>9. got'[x] + Len(in'[x]) = got[x] + Len(in[x])
    BY <1>3, <1>4
  <1>10. UNCHANGED <<Reached(x), Through(x), AllThrough(x)>>
    BY <1>1, <1>2, <1>8, <1>9 DEF Reached, Through, Front, AllThrough
  <1>11. Framed(x)' /\ Source(y)' /\ Whole(x)' /\ CopyEnds(x)' /\ Clean(x)'
    BY <1>1, <1>2, <1>8, <1>10, FramedKept, SourceKept, WholeKept, CleanKept DEF Direction, CopyEnds
  <1>12. Chain(x)'
    <2>1. ~gone[x] => \A i \in 1..Len(in'[x]) : in'[x][i] = got'[x] + i
      BY <1>1, <1>3, <1>4 DEF Direction, Chain
    <2>2. got'[x] + Len(in'[x]) + 1 = got[x] + Len(in[x]) + 1
      BY <1>9
    <2> QED  BY <1>1, <1>2, <1>8, <1>10, <2>1, <2>2 DEF Direction, Chain, Front
  <1> QED  BY <1>1, <1>5, <1>6, <1>7, <1>11, <1>12, BothDirections DEF Direction

LEMMA SeeEndKeeps ==
    ASSUME Inv, NEW x \in Sides, SeeEnd(x)
    PROVE  Inv'
  <1>1. UNCHANGED <<sent, got, fin, gone, out, in, local, handler, copyOut, copyIn, outBuf,
                    inBuf, closed, pipe, alive, stopping>>
    BY DEF SeeEnd, sockets, outCopy, inCopy, strm, session
  <1>2. TypeInv'
    BY <1>1 DEF Inv, SeeEnd, TypeInv
  <1>3. Control'
    BY <1>1 DEF Inv, Control, Early
  <1>4. \A z \in Sides : UNCHANGED View(z)
    BY <1>1 DEF View, AtHeader, Early
  <1>5. \A z \in Sides : Direction(z)'
    BY <1>4, DirectionKept DEF Inv
  <1> QED  BY <1>2, <1>3, <1>5 DEF Inv

-----------------------------------------------------------------------------
(* The copies out.                                                         *)

LEMMA TakeChunk ==
    ASSUME TypeInv, NEW x \in Sides, Source(x), outBuf[x] = 0, out[x] # <<>>,
           sent'[x] = sent[x], out'[x] = Tail(out[x]), outBuf'[x] = Head(out[x])
    PROVE  Source(x)' /\ Left(x)' = Left(x) /\ outBuf'[x] # 0
  <1>1. out[x] \in Seq(Int) /\ sent[x] \in Nat
    BY DEF TypeInv
  <1>2. /\ Len(out[x]) \in Nat /\ Len(out[x]) > 0 /\ Len(out'[x]) = Len(out[x]) - 1
        /\ outBuf'[x] = out[x][1] /\ \A i \in 1..Len(out'[x]) : out'[x][i] = out[x][i + 1]
    BY <1>1, TailFacts
  <1>3. out[x][1] = sent[x] - Len(out[x]) + 1
    BY <1>2 DEF Source
  <1>4. ASSUME NEW i \in 1..Len(out'[x]) PROVE out'[x][i] = sent'[x] - Len(out'[x]) + i
    <2>1. i + 1 \in 1..Len(out[x]) /\ out'[x][i] = out[x][i + 1]
      BY <1>2
    <2>2. out[x][i + 1] = sent[x] - Len(out[x]) + (i + 1)
      BY <2>1 DEF Source
    <2>3. i \in Int /\ Len(out[x]) \in Int /\ sent[x] \in Int /\ Len(out'[x]) = Len(out[x]) - 1
      BY <1>1, <1>2
    <2> QED  BY <2>1, <2>2, <2>3
  <1>5. outBuf'[x] > 0 /\ outBuf'[x] = sent'[x] - Len(out'[x]) /\ Len(out'[x]) <= sent'[x]
    BY <1>1, <1>2, <1>3 DEF Source
  <1>6. Held(outBuf'[x]) = 1 /\ Held(outBuf[x]) = 0
    BY <1>1, <1>2, <1>5 DEF Held
  <1> QED  BY <1>1, <1>2, <1>4, <1>5, <1>6 DEF Source, Left

LEMMA ReadLocalKeeps ==
    ASSUME Inv, NEW x \in Sides, NEW y \in Sides, y = Peer(x), ReadLocal(x)
    PROVE  Inv'
  <1>1. TypeInv /\ Control /\ Direction(x) /\ Direction(y) /\ y # x /\ x = Peer(y)
    BY SidesFacts DEF Inv
  <1>2. UNCHANGED <<sent, got, fin, gone, seen, in, local, handler, copyIn, inBuf, closed, pipe,
                    alive, stopping>>
    BY DEF ReadLocal, apps, inCopy, strm, session
  <1>3. /\ copyOut[x] = "read" /\ outBuf[x] = 0 /\ out'[y] = out[y] /\ outBuf'[y] = outBuf[y]
        /\ copyOut'[y] = copyOut[y]
    BY <1>1 DEF ReadLocal, TypeInv, Control
  <1>4. \A z \in Sides : UNCHANGED <<AtHeader(z), Early, Reached(z), Through(z), Flows(z), Orderly(z)>>
    BY <1>2 DEF AtHeader, Early, Reached, Through, Front, Flows, Orderly
  <1>5. \A z \in Sides : Direction(z) => Framed(z)' /\ Chain(z)' /\ CopyEnds(z)'
    BY <1>2, <1>4, FramedKept, ChainKept DEF Direction, CopyEnds
  <1>6. Source(y)' /\ Left(y)' = Left(y)
    BY <1>1, <1>2, <1>3, SourceKept, LeftKept DEF Direction
  <1>7. Whole(x)'
    BY <1>1, <1>4, <1>6, WholeKept DEF Direction
  <1>8. ASSUME out[x] # <<>>, out' = [out EXCEPT ![x] = Tail(@)],
               outBuf' = [outBuf EXCEPT ![x] = Head(out[x])],
               copyOut' = [copyOut EXCEPT ![x] = "write"]
        PROVE  Inv'
    <2>1. out[x] \in Seq(Int) /\ Tail(out[x]) \in Seq(Int) /\ Head(out[x]) \in Int
      BY <1>1, <1>8, TailFacts DEF TypeInv
    <2>2. out'[x] = Tail(out[x]) /\ outBuf'[x] = Head(out[x]) /\ copyOut'[x] = "write"
      BY <1>1, <1>8 DEF TypeInv
    <2>3. TypeInv'
      BY <1>1, <1>2, <1>8, <2>1 DEF TypeInv, Copies
    <2>4. Source(x)' /\ Left(x)' = Left(x) /\ outBuf'[x] # 0
      BY <1>1, <1>2, <1>3, <1>8, <2>2, TakeChunk DEF Direction, Source
    <2>5. Control'
      BY <1>1, <1>2, <1>3, <2>2, <2>4, SidesFacts DEF Control, Early
    <2>6. Whole(y)'
      BY <1>1, <1>4, <2>4, WholeKept DEF Direction
    <2>7. Began(x)' = Began(x) /\ Began(y)' = Began(y)
      BY <1>2, <1>3, <2>2 DEF Began
    <2>8. Clean(x)' /\ Clean(y)'
      BY <1>1, <1>2, <1>3, <1>4, <1>8, <2>7, CleanKept DEF Direction, AllSent, AllThrough
    <2> QED  BY <1>1, <1>5, <1>6, <1>7, <2>3, <2>4, <2>5, <2>6, <2>8, BothDirections DEF Direction
  <1>9. ASSUME local[x] = "closed" \/ (fin[x] /\ out[x] = <<>>),
               copyOut' = [copyOut EXCEPT ![x] = "done"], UNCHANGED <<out, outBuf>>
        PROVE  Inv'
    <2>1. copyOut'[x] = "done" /\ TypeInv'
      BY <1>1, <1>2, <1>9 DEF TypeInv, Copies
    <2>2. Control'
      BY <1>1, <1>2, <1>3, <1>9, <2>1, SidesFacts DEF Control, Early
    <2>3. Source(x)' /\ Left(x)' = Left(x)
      BY <1>1, <1>2, <1>9, SourceKept, LeftKept DEF Direction
    <2>4. Whole(y)'
      BY <1>1, <1>4, <2>3, WholeKept DEF Direction
    <2>5. Began(x)' /\ Began(y)' = Began(y) /\ UNCHANGED <<AllSent(x), AllThrough(y), copyIn>>
      BY <1>1, <1>2, <1>3, <1>4, <1>9, <2>1 DEF Began, AllSent, AllThrough
    <2>6. Clean(x)'
      <3>1. Orderly(x) => local[x] = "closed"
        BY <1>9 DEF Orderly
      <3>2. Orderly(x) => Began(x)' = Began(x)
        BY <2>5, <3>1 DEF Began
      <3> QED  BY <1>1, <1>2, <1>3, <1>4, <1>9, <2>5, <3>2, CleanKept
               DEF Direction, AllSent, AllThrough
    <2>7. Clean(y)'
      <3>1. ASSUME Orderly(y), ~Began(x) PROVE AllSent(x) /\ AllThrough(y)
        <4>1. fin[x] /\ out[x] = <<>> /\ ~closed[x] /\ AllSent(x)
          BY <1>3, <1>9, <3>1 DEF Began, AllSent
        <4>2. copyIn[y] # "done"
          BY <1>1, <3>1 DEF Direction, Clean, Began
        <4>3. Flows(y)
          BY <1>1, <3>1, <4>1, <4>2 DEF Flows, Orderly, Control
        <4>4. Through(y) = sent[x] /\ sent[x] \in Nat
          BY <1>1, <1>3, <4>1, <4>3 DEF Direction, Whole, Left, Held, TypeInv
        <4> QED  BY <1>1, <4>1, <4>2, <4>4 DEF AllThrough
      <3> QED  BY <1>1, <1>4, <2>5, <3>1 DEF Direction, Clean
    <2> QED  BY <1>1, <1>5, <1>6, <1>7, <2>1, <2>2, <2>3, <2>4, <2>6, <2>7, BothDirections DEF Direction
  <1> QED  BY <1>8, <1>9 DEF ReadLocal

LEMMA WriteStreamKeeps ==
    ASSUME Inv, NEW x \in Sides, NEW y \in Sides, y = Peer(x), WriteStream(x)
    PROVE  Inv'
  <1>1. TypeInv /\ Control /\ Direction(x) /\ Direction(y) /\ y # x /\ x = Peer(y)
    BY SidesFacts DEF Inv
  <1>2. UNCHANGED <<sent, got, fin, gone, seen, out, in, local, handler, copyIn, inBuf, closed,
                    alive, stopping>>
    BY DEF WriteStream, apps, sockets, inCopy, session
  <1>3. /\ copyOut[x] = "write" /\ outBuf[x] # 0 /\ outBuf' = [outBuf EXCEPT ![x] = 0]
        /\ outBuf'[x] = 0 /\ outBuf'[y] = outBuf[y]
    BY <1>1 DEF WriteStream, TypeInv, Control
  <1>4. \A z \in Sides : UNCHANGED <<AtHeader(z), Early, Reached(z), Flows(z), Orderly(z)>>
    BY <1>2 DEF AtHeader, Early, Reached, Flows, Orderly
  <1>5. Source(x)' /\ Source(y)' /\ Left(y)' = Left(y) /\ ~AllSent(x)
    BY <1>1, <1>2, <1>3, SourceKept, LeftKept DEF Direction, Source, AllSent
  <1>6. ASSUME alive, ~closed[x], pipe' = [pipe EXCEPT ![y] = Append(pipe[y], outBuf[x])],
               copyOut' = [copyOut EXCEPT ![x] = "read"]
        PROVE  Inv'
    <2>1. /\ pipe[y] \in Seq(Int) /\ outBuf[x] \in Int /\ copyOut'[x] = "read"
          /\ copyOut'[y] = copyOut[y]
          /\ pipe'[x] = pipe[x] /\ pipe'[y] = Append(pipe[y], outBuf[x])
      BY <1>1, <1>6 DEF TypeInv
    <2>2. /\ pipe'[y] \in Seq(Int) /\ Len(pipe[y]) \in Nat /\ Len(pipe'[y]) = Len(pipe[y]) + 1
          /\ pipe'[y][Len(pipe[y]) + 1] = outBuf[x]
          /\ \A i \in 1..Len(pipe[y]) : pipe'[y][i] = pipe[y][i]
      BY <2>1, AppendFacts
    <2>3. TypeInv'
      <3>1. pipe' \in [Sides -> Seq(Int)]
        <4>1. pipe \in [Sides -> Seq(Int)] /\ Append(pipe[y], outBuf[x]) \in Seq(Int)
          BY <1>1, <2>1, <2>2 DEF TypeInv
        <4> QED  BY <1>6, <4>1
      <3>2. copyOut' \in [Sides -> Copies] /\ outBuf' \in [Sides -> Int]
        <4>1. copyOut \in [Sides -> Copies] /\ outBuf \in [Sides -> Int]
          BY <1>1 DEF TypeInv
        <4> QED  BY <1>3, <1>6, <4>1 DEF Copies
      <3> QED  BY <1>1, <1>2, <3>1, <3>2 DEF TypeInv
    <2>4. Control'
      BY <1>1, <1>2, <1>3, <2>1, SidesFacts DEF Control, Early
    <2>5. Direction(x)'
      <3>1. Framed(x)' /\ Chain(x)' /\ CopyEnds(x)'
        BY <1>1, <1>2, <1>4, <2>1, FramedKept, ChainKept DEF Direction, CopyEnds
      <3>2. Through(x)' = Through(x)
        BY <1>1, <1>2, <1>4, <2>1, ThroughKept
      <3>3. Whole(x)'
        BY <1>1, <1>4, <1>5, <3>2, WholeKept DEF Direction
      <3>4. Clean(x)'
        BY <1>1, <1>2, <1>3, <1>4, <2>1, <3>2, CleanKept
           DEF Direction, Began, AllSent, AllThrough
      <3> QED  BY <1>1, <1>5, <3>1, <3>3, <3>4 DEF Direction
    <2>6. /\ outBuf[x] > 0 /\ outBuf[x] = sent[x] - Len(out[x])
      BY <1>1, <1>3 DEF Direction, Source
    <2>7. Left(x)' = Left(x) + 1 /\ Left(x) = outBuf[x] - 1
      BY <1>1, <1>2, <1>3, <2>6, Numbers DEF Left, Held
    <2>8. Through(y)' = Through(y) + 1
      <3>1. Reached(y) \in Int /\ Front(y) \in Int /\ Reached(y)' = Reached(y) /\ Front(y)' = Front(y)
        BY <1>1, <1>4, Numbers DEF Front
      <3> QED  BY <2>2, <3>1 DEF Through
    <2>9. Framed(y)'
      <3>1. Framed(y)
        BY <1>1 DEF Direction
      <3>2. \A i \in 1..Len(pipe'[y]) : i \in 1..Len(pipe[y]) \/ i = Len(pipe[y]) + 1
        BY <2>2
      <3>3. AtHeader(y) => Len(pipe[y]) > 0
        BY <1>6, <2>1, <2>2, <3>1 DEF Framed
      <3> QED  BY <1>1, <1>2, <1>4, <1>6, <2>2, <2>6, <3>1, <3>2, <3>3 DEF Framed, Header, End
    <2>10. Whole(y)'
      BY <1>1, <1>4, <2>7, <2>8 DEF Direction, Whole
    <2>11. Chain(y)'
      <3>1. SUFFICES ASSUME ~gone[y], copyIn[y] # "done", NEW i \in 1..Len(pipe'[y]), pipe'[y][i] > 0
                     PROVE  pipe'[y][i] = Reached(y) + i - Front(y)
        BY <1>1, <1>2, <1>4 DEF Direction, Chain, Front
      <3>2. CASE i \in 1..Len(pipe[y])
        BY <1>1, <2>2, <3>1, <3>2 DEF Direction, Chain
      <3>3. CASE i = Len(pipe[y]) + 1
        <4>1. outBuf[x] = Through(y) + 1
          BY <1>1, <1>6, <2>1, <2>7, <3>1 DEF Direction, Whole, Flows
        <4>2. Reached(y) \in Int /\ Front(y) \in Int
          BY <1>1, Numbers
        <4>3. pipe'[y][i] = outBuf[x] /\ i = Len(pipe[y]) + 1 /\ Len(pipe[y]) \in Nat
          BY <2>2, <3>3
        <4> QED  BY <4>1, <4>2, <4>3 DEF Through
      <3> QED  BY <2>2, <3>2, <3>3
    <2>12. CopyEnds(y)' /\ Clean(y)'
      BY <1>1, <1>2, <1>3, <1>4, <1>5, <2>1, CleanKept DEF Direction, CopyEnds, Began
    <2> QED  BY <1>1, <1>5, <2>3, <2>4, <2>5, <2>9, <2>10, <2>11, <2>12, BothDirections DEF Direction
  <1>7. ASSUME ~alive \/ closed[x], copyOut' = [copyOut EXCEPT ![x] = "done"], pipe' = pipe
        PROVE  Inv'
    <2>1. TypeInv' /\ copyOut'[x] = "done" /\ copyOut'[y] = copyOut[y]
      <3>1. copyOut \in [Sides -> Copies] /\ outBuf \in [Sides -> Int]
        BY <1>1 DEF TypeInv
      <3>2. /\ copyOut' \in [Sides -> Copies] /\ outBuf' \in [Sides -> Int]
            /\ copyOut'[x] = "done" /\ copyOut'[y] = copyOut[y]
        BY <1>1, <1>3, <1>7, <3>1 DEF Copies
      <3> QED  BY <1>1, <1>2, <1>7, <3>2 DEF TypeInv
    <2>2. Control'
      BY <1>1, <1>2, <1>3, <2>1, SidesFacts DEF Control, Early
    <2>3. \A z \in Sides : Direction(z) => Framed(z)' /\ Chain(z)' /\ CopyEnds(z)'
      BY <1>2, <1>4, <1>7, FramedKept, ChainKept DEF Direction, CopyEnds
    <2>4. Through(x)' = Through(x)
      BY <1>2, <1>4, <1>7, ThroughKept
    <2>5. Whole(x)' /\ Whole(y)'
      BY <1>1, <1>2, <1>4, <1>5, <1>7, <2>4 DEF Direction, Whole, Flows
    <2>6. \A z \in Sides : Orderly(z) => Began(x)' = Began(x) /\ Began(y)' = Began(y)
      BY <1>2, <1>7, <2>1 DEF Orderly, Began
    <2>7. Clean(x)' /\ Clean(y)'
      BY <1>1, <1>2, <1>3, <1>4, <1>5, <2>4, <2>6, CleanKept DEF Direction, AllSent, AllThrough
    <2> QED  BY <1>1, <1>5, <2>1, <2>2, <2>3, <2>5, <2>7, BothDirections DEF Direction
  <1> QED  BY <1>6, <1>7 DEF WriteStream, Passed

-----------------------------------------------------------------------------
(* The copies in.                                                          *)

LEMMA PastHeader ==
    ASSUME Control, NEW x \in Sides, copyIn[x] # "off"
    PROVE  ~AtHeader(x) /\ Front(x) = 0
  BY SidesFacts DEF Control, AtHeader, Front, Early

LEMMA ReadStreamKeeps ==
    ASSUME Inv, NEW x \in Sides, NEW y \in Sides, y = Peer(x), ReadStream(x)
    PROVE  Inv'
  <1>1. TypeInv /\ Control /\ Direction(x) /\ Direction(y) /\ y # x /\ x = Peer(y)
    BY SidesFacts DEF Inv
  <1>2. UNCHANGED <<sent, got, fin, gone, seen, out, in, local, handler, copyOut, outBuf, closed,
                    alive, stopping>>
    BY DEF ReadStream, apps, sockets, outCopy, session
  <1>3. /\ copyIn[x] = "read" /\ inBuf[x] = 0 /\ copyIn'[y] = copyIn[y] /\ inBuf'[y] = inBuf[y]
        /\ pipe'[y] = pipe[y] /\ pipe[x] \in Seq(Int)
    BY <1>1 DEF ReadStream, TypeInv, Control
  <1>4. ~AtHeader(x) /\ Front(x) = 0
    BY <1>1, <1>3, PastHeader
  <1>5. \A z \in Sides : UNCHANGED <<AtHeader(z), Front(z), Early, Left(z), Orderly(z), AllSent(z)>>
    BY <1>2 DEF AtHeader, Front, Early, Left, Orderly, AllSent
  <1>6. Source(x)' /\ Source(y)' /\ Framed(y)' /\ Chain(y)' /\ CopyEnds(y)'
    BY <1>1, <1>2, <1>3, <1>5, SourceKept, FramedKept, ChainKept DEF Direction, CopyEnds
  <1>7. UNCHANGED <<Reached(y), Through(y), Flows(y), AllThrough(y), Began(y)>>
    BY <1>1, <1>2, <1>3, <1>5, ThroughKept DEF Flows, AllThrough, Began
  <1>8. Whole(y)'
    BY <1>1, <1>5, <1>7, WholeKept DEF Direction
  <1>9. ASSUME ~Ended(x), pipe[x] # <<>>, inBuf' = [inBuf EXCEPT ![x] = Head(pipe[x])],
               pipe' = [pipe EXCEPT ![x] = Tail(@)], copyIn' = [copyIn EXCEPT ![x] = "write"]
        PROVE  Inv'
    <2>1. /\ Len(pipe[x]) \in Nat /\ Len(pipe[x]) > 0 /\ Head(pipe[x]) = pipe[x][1]
          /\ pipe[x][1] \in Int /\ Tail(pipe[x]) \in Seq(Int)
      BY <1>3, <1>9, TailFacts
    <2>2. /\ copyIn'[x] = "write" /\ inBuf'[x] = pipe[x][1] /\ pipe'[x] = Tail(pipe[x])
      BY <1>1, <1>9, <2>1 DEF TypeInv
    <2>3. /\ Len(pipe'[x]) = Len(pipe[x]) - 1
          /\ \A i \in 1..Len(pipe'[x]) :
                pipe'[x][i] = pipe[x][i + 1] /\ i + 1 \in 1..Len(pipe[x])
      <3>1. pipe[x] # <<>>
        BY <1>9
      <3> QED  BY <1>3, <2>2, <3>1, TailFacts
    <2>4. pipe[x][1] > 0
      BY <1>1, <1>4, <1>9, <2>1 DEF Direction, Framed, Ended, Header, End
    <2>5. TypeInv'
      BY <1>1, <1>2, <1>9, <2>1 DEF TypeInv, Copies
    <2>6. Control'
      BY <1>1, <1>2, <1>3, <2>2, <2>4, SidesFacts DEF Control, Early
    <2>7. Framed(x)'
      <3>1. Framed(x)
        BY <1>1 DEF Direction
      <3>2. \A i \in 1..Len(pipe'[x]) : i + 1 \in 1..Len(pipe[x]) /\ i + 1 # 1
        BY <2>1, <2>3
      <3>3. alive /\ closed[y] => Len(pipe'[x]) > 0 /\ pipe[x][Len(pipe[x])] = End
        BY <1>1, <2>1, <2>3, <2>4, <3>1 DEF Framed, End
      <3>4. Len(pipe'[x]) > 0 => pipe'[x][Len(pipe'[x])] = pipe[x][Len(pipe[x])] /\ pipe'[x] # <<>>
        <4> SUFFICES ASSUME Len(pipe'[x]) > 0
                     PROVE  pipe'[x][Len(pipe'[x])] = pipe[x][Len(pipe[x])] /\ pipe'[x] # <<>>
          OBVIOUS
        <4>1. Len(pipe'[x]) \in 1..Len(pipe'[x]) /\ Len(pipe'[x]) + 1 = Len(pipe[x])
          BY <2>1, <2>3
        <4>2. pipe'[x][Len(pipe'[x])] = pipe[x][Len(pipe'[x]) + 1]
          BY <2>3, <4>1
        <4> QED  BY <4>1, <4>2, HasElements
      <3>5. ASSUME NEW i \in 1..Len(pipe'[x]), pipe'[x][i] = End
            PROVE  i = Len(pipe'[x]) /\ closed[y]
        <4>1. i + 1 \in 1..Len(pipe[x]) /\ pipe[x][i + 1] = End
          BY <2>3, <3>5
        <4>2. i + 1 = Len(pipe[x]) /\ closed[y]
          BY <1>1, <3>1, <4>1 DEF Framed
        <4>3. Len(pipe'[x]) = Len(pipe[x]) - 1 /\ Len(pipe[x]) \in Nat
          BY <2>1, <2>3
        <4>4. i \in Int
          BY <2>1, <2>3
        <4> QED  BY <4>2, <4>3, <4>4
      <3>6. \A i \in 1..Len(pipe'[x]) : pipe'[x][i] # Header /\ pipe'[x][i] >= Header
        BY <1>4, <2>3, <3>1, <3>2 DEF Framed
      <3> QED  BY <1>1, <1>2, <1>4, <1>5, <3>3, <3>4, <3>5, <3>6 DEF Framed
    <2>8. Reached(x)' = Reached(x) + 1 /\ Reached(x) = got[x] + Len(in[x])
      BY <1>1, <1>2, <1>3, <2>2, <2>4, Numbers DEF Reached, Held
    <2>9. Through(x)' = Through(x)
      BY <1>1, <1>4, <1>5, <2>1, <2>3, <2>8, Numbers DEF Through
    <2>10. Chain(x)'
      <3>1. Reached(x) \in Int /\ Len(pipe[x]) \in Nat /\ Front(x)' = 0
        BY <1>1, <1>4, <1>5, Numbers
      <3>2. ASSUME ~gone[x], NEW i \in 1..Len(pipe[x]), pipe[x][i] > 0
            PROVE  pipe[x][i] = Reached(x) + i
        <4>1. pipe[x][i] = Reached(x) + i - Front(x)
          BY <1>1, <1>3, <3>2 DEF Direction, Chain
        <4> QED  BY <1>4, <3>1, <4>1
      <3>3. ~gone[x] => inBuf'[x] = got[x] + Len(in[x]) + 1
        BY <2>1, <2>2, <2>4, <2>8, <3>2
      <3>4. ASSUME ~gone[x], NEW i \in 1..Len(pipe'[x]), pipe'[x][i] > 0
            PROVE  pipe'[x][i] = Reached(x)' + i - Front(x)'
        <4>1. i + 1 \in 1..Len(pipe[x]) /\ pipe'[x][i] = pipe[x][i + 1]
          BY <2>1, <2>3
        <4>2. pipe[x][i + 1] = Reached(x) + (i + 1)
          BY <3>2, <3>4, <4>1
        <4> QED  BY <2>8, <3>1, <4>1, <4>2
      <3> QED  BY <1>1, <1>2, <2>2, <3>3, <3>4 DEF Direction, Chain
    <2>11. Flows(x)' = Flows(x) /\ Began(x)' = Began(x)
      BY <1>2, <1>3, <2>2 DEF Flows, Began
    <2>12. CopyEnds(x)' /\ Whole(x)'
      BY <1>1, <1>5, <2>2, <2>9, <2>11, WholeKept DEF Direction, CopyEnds
    <2>13. Clean(x)' /\ Clean(y)'
      BY <1>1, <1>2, <1>3, <1>5, <1>7, <2>2, <2>9, <2>11, CleanKept DEF Direction, AllThrough
    <2> QED  BY <1>1, <1>6, <1>8, <2>5, <2>6, <2>7, <2>10, <2>12, <2>13, BothDirections DEF Direction
  <1>10. ASSUME Ended(x), copyIn' = [copyIn EXCEPT ![x] = "done"], UNCHANGED <<inBuf, pipe>>
         PROVE  Inv'
    <2>1. copyIn'[x] = "done" /\ TypeInv'
      BY <1>1, <1>2, <1>10 DEF TypeInv, Copies
    <2>2. Control'
      BY <1>1, <1>2, <1>3, <1>10, <2>1, SidesFacts DEF Control, Early
    <2>3. alive => Len(pipe[x]) = 1 /\ closed[y]
      <3>1. ASSUME alive PROVE pipe[x] # <<>> /\ pipe[x][1] = End
        BY <1>3, <1>10, <3>1 DEF Ended
      <3>2. pipe[x] # <<>> => 1 \in 1..Len(pipe[x])
        BY <1>3
      <3> QED  BY <1>1, <3>1, <3>2 DEF Direction, Framed
    <2>4. Framed(x)' /\ Chain(x)' /\ CopyEnds(x)' /\ Whole(x)'
      BY <1>1, <1>2, <1>5, <1>10, <2>1, <2>3, FramedKept DEF Direction, Chain, CopyEnds, Whole, Flows
    <2>5. Began(x)' /\ (Orderly(y) => Began(x))
      BY <1>1, <2>1, <2>3 DEF Began, Direction, Clean, Orderly
    <2>6. Clean(y)'
      <3>1. Orderly(y) => Began(x)' = Began(x)
        BY <2>5
      <3> QED  BY <1>1, <1>3, <1>5, <1>7, <3>1, CleanKept DEF Direction
    <2>7. Clean(x)'
      <3>1. SUFFICES ASSUME Orderly(x) PROVE Began(y)' /\ AllSent(y)' /\ AllThrough(x)'
        BY <1>1, <1>5, <2>1 DEF Clean
      <3>2. Began(y) /\ AllSent(y) /\ Through(x) - 1 = sent[y]
        BY <1>1, <1>3, <2>3, <3>1 DEF Direction, Clean, Orderly, Began, AllThrough
      <3>3. Through(x) = got[x] + Len(in[x]) + 1
        <4>1. Len(pipe[x]) = 1 /\ Held(inBuf[x]) = 0
          BY <1>3, <2>3, <3>1 DEF Orderly, Held
        <4>2. got[x] \in Nat /\ Len(in[x]) \in Nat
          BY <1>1, Numbers
        <4> QED  BY <1>4, <4>1, <4>2 DEF Through, Reached
      <3>4. got[x] + Len(in[x]) = sent[y]
        BY <1>1, <3>2, <3>3, Numbers
      <3> QED  BY <1>1, <1>2, <1>5, <1>7, <2>1, <3>2, <3>4 DEF AllThrough
    <2> QED  BY <1>1, <1>6, <1>8, <2>1, <2>2, <2>4, <2>6, <2>7, BothDirections DEF Direction
  <1> QED  BY <1>9, <1>10 DEF ReadStream

LEMMA WriteLocalKeeps ==
    ASSUME Inv, NEW x \in Sides, NEW y \in Sides, y = Peer(x), WriteLocal(x)
    PROVE  Inv'
  <1>1. TypeInv /\ Control /\ Direction(x) /\ Direction(y) /\ y # x /\ x = Peer(y)
    BY SidesFacts DEF Inv
  <1>2. UNCHANGED <<sent, got, fin, gone, seen, out, local, handler, copyOut, outBuf, closed, pipe,
                    alive, stopping>>
    BY DEF WriteLocal, apps, outCopy, strm, session
  <1>3. /\ copyIn[x] = "write" /\ inBuf[x] # 0 /\ copyIn'[y] = copyIn[y] /\ inBuf'[y] = inBuf[y]
        /\ inBuf' = [inBuf EXCEPT ![x] = 0] /\ inBuf'[x] = 0 /\ in'[y] = in[y]
    BY <1>1 DEF WriteLocal, TypeInv, Control
  <1>4. \A z \in Sides : UNCHANGED <<AtHeader(z), Front(z), Early, Left(z), Orderly(z), AllSent(z)>>
    BY <1>2 DEF AtHeader, Front, Early, Left, Orderly, AllSent
  <1>5. /\ Source(x)' /\ Source(y)' /\ Framed(y)' /\ Framed(x)' /\ Chain(y)' /\ CopyEnds(y)'
    BY <1>1, <1>2, <1>3, <1>4, SourceKept, FramedKept, ChainKept DEF Direction, CopyEnds
  <1>6. UNCHANGED <<Reached(y), Through(y), Flows(y), AllThrough(y), Began(y)>>
    BY <1>1, <1>2, <1>3, <1>4, ThroughKept DEF Flows, AllThrough, Began
  <1>7. Whole(y)'
    BY <1>1, <1>4, <1>6, WholeKept DEF Direction
  <1>8. ASSUME local[x] = "open", ~gone[x], in' = [in EXCEPT ![x] = Append(in[x], inBuf[x])],
               copyIn' = [copyIn EXCEPT ![x] = "read"]
        PROVE  Inv'
    <2>1. /\ in[x] \in Seq(Int) /\ inBuf[x] \in Int /\ copyIn'[x] = "read"
          /\ in'[x] = Append(in[x], inBuf[x])
      BY <1>1, <1>8 DEF TypeInv
    <2>2. /\ in'[x] \in Seq(Int) /\ Len(in[x]) \in Nat /\ Len(in'[x]) = Len(in[x]) + 1
          /\ in'[x][Len(in[x]) + 1] = inBuf[x]
          /\ \A i \in 1..Len(in[x]) : in'[x][i] = in[x][i]
      BY <2>1, AppendFacts
    <2>3. TypeInv'
      <3>1. in' \in [Sides -> Seq(Int)]
        BY <1>1, <1>8, <2>1, <2>2 DEF TypeInv
      <3>2. copyIn' \in [Sides -> Copies] /\ inBuf' \in [Sides -> Int]
        <4>1. copyIn \in [Sides -> Copies] /\ inBuf \in [Sides -> Int]
          BY <1>1 DEF TypeInv
        <4> QED  BY <1>3, <1>8, <4>1 DEF Copies
      <3> QED  BY <1>1, <1>2, <3>1, <3>2 DEF TypeInv
    <2>4. Control'
      BY <1>1, <1>2, <1>3, <2>1, SidesFacts DEF Control, Early
    <2>5. Reached(x)' = Reached(x)
      <3>1. got[x] \in Int /\ Len(in[x]) \in Int
        BY <1>1, Numbers
      <3>2. Reached(x) = got[x] + Len(in[x]) + 1
        BY <1>3 DEF Reached, Held
      <3>3. Reached(x)' = got[x] + (Len(in[x]) + 1) + 0
        BY <1>2, <1>3, <2>2 DEF Reached, Held
      <3> QED  BY <3>1, <3>2, <3>3, MovedIn
    <2>6. Through(x)' = Through(x)
      BY <1>2, <1>4, <2>5 DEF Through
    <2>7. Chain(x)'
      <3>1. inBuf[x] = got[x] + Len(in[x]) + 1
        BY <1>1, <1>3, <1>8 DEF Direction, Chain
      <3>2. \A i \in 1..Len(in'[x]) : i \in 1..Len(in[x]) \/ i = Len(in[x]) + 1
        BY <2>2
      <3>3. \A i \in 1..Len(in[x]) : in[x][i] = got[x] + i
        BY <1>1, <1>8 DEF Direction, Chain
      <3>4. in'[x][Len(in[x]) + 1] = got[x] + (Len(in[x]) + 1)
        <4>1. got[x] \in Nat /\ Len(in[x]) \in Nat
          BY <1>1, Numbers
        <4> QED  BY <2>2, <3>1, <4>1
      <3>5. ASSUME NEW i \in 1..Len(in'[x]) PROVE in'[x][i] = got[x] + i
        <4>1. CASE i \in 1..Len(in[x])
          BY <2>2, <3>3, <4>1
        <4>2. CASE i = Len(in[x]) + 1
          BY <3>4, <4>2
        <4> QED  BY <3>2, <4>1, <4>2
      <3> QED  BY <1>1, <1>2, <1>3, <1>4, <1>8, <2>5, <3>5 DEF Direction, Chain
    <2>8. Flows(x)' = Flows(x) /\ Began(x)' = Began(x)
      BY <1>2, <1>3, <2>1 DEF Flows, Began
    <2>9. CopyEnds(x)' /\ Whole(x)'
      BY <1>1, <1>4, <2>1, <2>6, <2>8, WholeKept DEF Direction, CopyEnds
    <2>10. Clean(x)' /\ Clean(y)'
      BY <1>1, <1>2, <1>3, <1>4, <1>6, <2>1, <2>6, <2>8, CleanKept DEF Direction, AllThrough
    <2> QED  BY <1>1, <1>5, <1>7, <2>3, <2>4, <2>7, <2>9, <2>10, BothDirections DEF Direction
  <1>9. ASSUME local[x] = "closed" \/ gone[x], copyIn' = [copyIn EXCEPT ![x] = "done"], in' = in
        PROVE  Inv'
    <2>1. copyIn'[x] = "done" /\ TypeInv'
      <3>1. copyIn \in [Sides -> Copies] /\ inBuf \in [Sides -> Int]
        BY <1>1 DEF TypeInv
      <3>2. /\ copyIn' \in [Sides -> Copies] /\ inBuf' \in [Sides -> Int]
            /\ copyIn'[x] = "done"
        BY <1>3, <1>9, <3>1 DEF Copies
      <3> QED  BY <1>1, <1>2, <1>9, <3>2 DEF TypeInv
    <2>2. Control'
      BY <1>1, <1>2, <1>3, <2>1, SidesFacts DEF Control, Early
    <2>3. Chain(x)' /\ CopyEnds(x)' /\ Whole(x)'
      BY <1>1, <1>2, <1>9, <2>1 DEF Direction, Chain, CopyEnds, Whole, Flows
    <2>4. ~Orderly(x)
      <3>1. gone[x] => fin[x]
        BY <1>1 DEF Control
      <3>2. Orderly(x) => local[x] = "closed"
        BY <1>9, <3>1 DEF Orderly
      <3> QED  BY <1>1, <1>3, <3>2 DEF Direction, Clean, Began
    <2>5. Orderly(y) => Began(x)' = Began(x)
      BY <1>1, <1>2, <1>9, <2>1 DEF Orderly, Began
    <2>6. Clean(x)' /\ Clean(y)'
      BY <1>1, <1>3, <1>4, <1>6, <2>4, <2>5, CleanKept DEF Direction, Clean
    <2> QED  BY <1>1, <1>5, <1>7, <2>1, <2>2, <2>3, <2>6, BothDirections DEF Direction
  <1> QED  BY <1>8, <1>9 DEF WriteLocal

-----------------------------------------------------------------------------
(* The client's handler before the copies.                                 *)

LEMMA AcceptStreamKeeps ==
    ASSUME Inv, AcceptStream
    PROVE  Inv'
  <1>1. /\ UNCHANGED <<sent, got, fin, gone, seen, out, in, local, copyOut, copyIn, outBuf, inBuf,
                       closed, pipe, alive, stopping>>
        /\ handler["client"] = "queued" /\ handler' = [handler EXCEPT !["client"] = "header"]
    BY DEF AcceptStream, apps, sockets, outCopy, inCopy, strm, session
  <1>2. handler'["client"] = "header" /\ handler'["server"] = handler["server"]
    BY <1>1, SidesFacts DEF Inv, TypeInv
  <1>3. TypeInv'
    BY <1>1 DEF Inv, TypeInv, Handlers
  <1>4. Control'
    BY <1>1, <1>2 DEF Inv, Control, Early
  <1>5. \A z \in Sides : UNCHANGED View(z)
    BY <1>1, <1>2 DEF View, AtHeader, Early
  <1> QED  BY <1>3, <1>4, <1>5, DirectionKept DEF Inv

LEMMA ReadHeaderKeeps ==
    ASSUME Inv, ReadHeader
    PROVE  Inv'
  <1> DEFINE c == "client"
             s == "server"
  <1>1. /\ TypeInv /\ Control /\ Direction(c) /\ Direction(s)
        /\ c \in Sides /\ s \in Sides /\ Peer(c) = s /\ Peer(s) = c /\ c # s
    BY SidesFacts DEF Inv
  <1>2. UNCHANGED <<sent, got, fin, gone, seen, out, in, local, copyOut, copyIn, outBuf, inBuf,
                    closed, alive, stopping>>
    BY DEF ReadHeader, apps, sockets, outCopy, inCopy, session
  <1>3. handler[c] = "header" /\ pipe'[s] = pipe[s] /\ pipe[c] \in Seq(Int)
    BY <1>1 DEF ReadHeader, TypeInv
  <1>4. AtHeader(c) /\ AtHeader(s)' = AtHeader(s) /\ Front(c) = 1
    BY <1>3 DEF AtHeader, Front
  <1>5. \A z \in Sides :
           UNCHANGED <<Reached(z), Left(z), AllSent(z), Flows(z), Began(z)>>
    BY <1>2 DEF Reached, Left, AllSent, Flows, Began
  <1>6. /\ Source(c)' /\ Source(s)' /\ CopyEnds(c)' /\ CopyEnds(s)'
        /\ Framed(s)' /\ Chain(s)' /\ UNCHANGED <<Through(s), AllThrough(s)>>
    <2>1. Source(c)' /\ Source(s)' /\ CopyEnds(c)' /\ CopyEnds(s)'
      BY <1>1, <1>2, SourceKept DEF Direction, CopyEnds
    <2>2. Framed(s)' /\ Chain(s)' /\ Through(s)' = Through(s)
      BY <1>1, <1>2, <1>3, <1>4, FramedKept, ChainKept, ThroughKept DEF Direction
    <2> QED  BY <1>2, <2>1, <2>2 DEF AllThrough
  <1>7. Whole(s)'
    BY <1>1, <1>5, <1>6, WholeKept DEF Direction
  <1>8. ASSUME pipe[c] # <<>>, pipe' = [pipe EXCEPT ![c] = Tail(pipe[c])],
               handler' = [handler EXCEPT ![c] = "dial"]
        PROVE  Inv'
    <2>1. /\ Len(pipe[c]) \in Nat /\ Len(pipe[c]) > 0 /\ Tail(pipe[c]) \in Seq(Int)
      BY <1>3, <1>8, TailFacts
    <2>2. pipe'[c] = Tail(pipe[c]) /\ handler'[c] = "dial" /\ handler'[s] = handler[s]
      BY <1>1, <1>8 DEF TypeInv
    <2>3. /\ Len(pipe'[c]) = Len(pipe[c]) - 1
          /\ \A i \in 1..Len(pipe'[c]) :
                pipe'[c][i] = pipe[c][i + 1] /\ i + 1 \in 1..Len(pipe[c])
      <3>1. pipe[c] # <<>>
        BY <1>8
      <3> QED  BY <1>3, <2>2, <3>1, TailFacts
    <2>4. TypeInv'
      BY <1>1, <1>2, <1>8, <2>1 DEF TypeInv, Handlers
    <2>5. Control'
      BY <1>1, <1>2, <1>3, <2>2 DEF Control, Early
    <2>6. ~AtHeader(c)' /\ Front(c)' = 0 /\ \A z \in Sides : Orderly(z)' = Orderly(z)
      BY <1>2, <1>3, <2>2 DEF AtHeader, Front, Orderly, Early
    <2>7. Framed(c)'
      <3>1. Framed(c)
        BY <1>1 DEF Direction
      <3>2. \A i \in 1..Len(pipe'[c]) : i + 1 \in 1..Len(pipe[c]) /\ i + 1 # 1
        BY <2>1, <2>3
      <3>3. alive /\ closed[s] => Len(pipe'[c]) > 0 /\ pipe[c][Len(pipe[c])] = End
        <4>1. pipe[c][1] = Header
          BY <1>4, <2>1, <3>1 DEF Framed
        <4>2. alive /\ closed[s] => pipe[c][Len(pipe[c])] = End
          BY <1>1, <3>1 DEF Framed
        <4>3. Len(pipe[c]) = 1 => pipe[c][Len(pipe[c])] # End
          BY <4>1 DEF End, Header
        <4>4. Len(pipe[c]) > 0 /\ Len(pipe'[c]) = Len(pipe[c]) - 1 /\ Len(pipe[c]) \in Nat
          BY <2>1, <2>3
        <4>5. Len(pipe[c]) # 1 => Len(pipe'[c]) > 0
          BY <4>4, MoreThanOne
        <4> QED  BY <4>2, <4>3, <4>5
      <3>4. Len(pipe'[c]) > 0 => pipe'[c][Len(pipe'[c])] = pipe[c][Len(pipe[c])] /\ pipe'[c] # <<>>
        <4> SUFFICES ASSUME Len(pipe'[c]) > 0
                     PROVE  pipe'[c][Len(pipe'[c])] = pipe[c][Len(pipe[c])] /\ pipe'[c] # <<>>
          OBVIOUS
        <4>1. Len(pipe'[c]) \in 1..Len(pipe'[c]) /\ Len(pipe'[c]) + 1 = Len(pipe[c])
          BY <2>1, <2>3
        <4>2. pipe'[c][Len(pipe'[c])] = pipe[c][Len(pipe'[c]) + 1]
          BY <2>3, <4>1
        <4> QED  BY <4>1, <4>2, HasElements
      <3>5. ASSUME NEW i \in 1..Len(pipe'[c]), pipe'[c][i] = End
            PROVE  i = Len(pipe'[c]) /\ closed[s]
        <4>1. i + 1 \in 1..Len(pipe[c]) /\ pipe[c][i + 1] = End
          BY <2>3, <3>5
        <4>2. i + 1 = Len(pipe[c]) /\ closed[s]
          BY <1>1, <3>1, <4>1 DEF Framed
        <4>3. Len(pipe'[c]) = Len(pipe[c]) - 1 /\ Len(pipe[c]) \in Nat
          BY <2>1, <2>3
        <4>4. i \in Int
          BY <2>1, <2>3
        <4> QED  BY <4>2, <4>3, <4>4
      <3>6. \A i \in 1..Len(pipe'[c]) : pipe'[c][i] # Header /\ pipe'[c][i] >= Header
        BY <2>3, <3>1, <3>2 DEF Framed
      <3> QED  BY <1>1, <1>2, <2>6, <3>3, <3>4, <3>5, <3>6 DEF Framed
    <2>8. Through(c)' = Through(c)
      <3>1. Reached(c) \in Int /\ Reached(c)' = Reached(c)
        BY <1>1, <1>5, Numbers
      <3> QED  BY <1>4, <2>1, <2>3, <2>6, <3>1 DEF Through
    <2>9. Chain(c)'
      <3>1. Reached(c) \in Int /\ Reached(c)' = Reached(c)
        BY <1>1, <1>5, Numbers
      <3>2. ASSUME ~gone[c], copyIn[c] # "done", NEW i \in 1..Len(pipe'[c]), pipe'[c][i] > 0
            PROVE  pipe'[c][i] = Reached(c)' + i - Front(c)'
        <4>1. i + 1 \in 1..Len(pipe[c]) /\ pipe'[c][i] = pipe[c][i + 1]
          BY <2>3
        <4>2. pipe[c][i + 1] = Reached(c) + (i + 1) - Front(c)
          BY <1>1, <3>2, <4>1 DEF Direction, Chain
        <4> QED  BY <1>4, <2>6, <3>1, <4>1, <4>2
      <3> QED  BY <1>1, <1>2, <3>2 DEF Direction, Chain
    <2>10. Whole(c)'
      BY <1>1, <1>5, <2>8, WholeKept DEF Direction
    <2>11. Clean(c)' /\ Clean(s)'
      BY <1>1, <1>2, <1>5, <1>6, <2>6, <2>8, CleanKept DEF Direction, AllThrough
    <2> QED  BY <1>1, <1>6, <1>7, <2>4, <2>5, <2>7, <2>9, <2>10, <2>11, BothDirections DEF Direction
  <1>9. ASSUME pipe[c] = <<>>, ~alive, handler' = [handler EXCEPT ![c] = "stream"], pipe' = pipe
        PROVE  Inv'
    <2>1. handler'[c] = "stream" /\ handler'[s] = handler[s] /\ TypeInv'
      BY <1>1, <1>2, <1>9 DEF TypeInv, Handlers
    <2>2. Control'
      BY <1>1, <1>2, <1>3, <2>1 DEF Control, Early
    <2>3. Framed(c)' /\ Chain(c)' /\ Whole(c)' /\ Clean(c)' /\ Clean(s)'
      BY <1>1, <1>2, <1>9 DEF Framed, Direction, Chain, Whole, Flows, Clean, Orderly
    <2> QED  BY <1>1, <1>6, <1>7, <2>1, <2>2, <2>3, BothDirections DEF Direction
  <1> QED  BY <1>8, <1>9 DEF ReadHeader, AfterHeader

LEMMA DialKeeps ==
    ASSUME Inv, Dial
    PROVE  Inv'
  <1> DEFINE c == "client"
             s == "server"
  <1>1. /\ TypeInv /\ Control /\ Direction(c) /\ Direction(s)
        /\ c \in Sides /\ s \in Sides /\ Peer(c) = s /\ Peer(s) = c /\ c # s
    BY SidesFacts DEF Inv
  <1>2. UNCHANGED <<sent, got, fin, gone, seen, out, in, outBuf, inBuf, closed, pipe, alive, stopping>>
    BY DEF Dial, apps, strm, session
  <1>3. handler[c] = "dial" /\ local[c] = "none" /\ copyOut[c] = "off" /\ copyIn[c] = "off" /\ ~closed[c]
    BY <1>1 DEF Dial, Control, Early
  <1>4. \/ /\ handler' = [handler EXCEPT ![c] = "wait"] /\ local' = [local EXCEPT ![c] = "open"]
           /\ copyOut' = [copyOut EXCEPT ![c] = "read"] /\ copyIn' = [copyIn EXCEPT ![c] = "read"]
        \/ handler' = [handler EXCEPT ![c] = "stream"] /\ UNCHANGED <<local, copyOut, copyIn>>
    BY DEF Dial, StartCopyIn
  <1>5. /\ handler'[s] = handler[s] /\ local'[s] = local[s]
        /\ copyOut'[s] = copyOut[s] /\ copyIn'[s] = copyIn[s]
        /\ \/ handler'[c] = "wait" /\ local'[c] = "open" /\ copyOut'[c] = "read" /\ copyIn'[c] = "read"
           \/ handler'[c] = "stream" /\ local'[c] = "none" /\ copyOut'[c] = "off" /\ copyIn'[c] = "off"
    BY <1>1, <1>3, <1>4 DEF TypeInv
  <1>6. TypeInv'
    BY <1>1, <1>2, <1>4 DEF TypeInv, Handlers, Copies
  <1>7. Control'
    <2>1. outBuf[c] = 0 /\ inBuf[c] = 0
      BY <1>1, <1>3 DEF Control
    <2> QED  BY <1>1, <1>2, <1>3, <1>5, <2>1, SidesFacts DEF Control, Early
  <1>8. \A z \in Sides : z = c \/ z = s
    BY SidesFacts
  <1>9. \A z \in Sides : AtHeader(z)' = AtHeader(z) /\ (copyIn[z] = "done" <=> copyIn'[z] = "done")
    BY <1>3, <1>5, <1>8 DEF AtHeader
  <1>10. \A z \in Sides :
            /\ UNCHANGED <<Reached(z), Through(z), Left(z), AllSent(z), Flows(z), AllThrough(z)>>
            /\ Began(z)' = Began(z) /\ (Orderly(z)' => Orderly(z))
    <2>1. \A z \in Sides : UNCHANGED <<Reached(z), Through(z), Left(z), AllSent(z), Flows(z)>>
      BY <1>2, <1>9 DEF Reached, Through, Front, Left, AllSent, Flows
    <2>2. \A z \in Sides : Began(z)' = Began(z)
      BY <1>2, <1>3, <1>5, <1>8 DEF Began
    <2>3. \A z \in Sides : Orderly(z)' => Orderly(z)
      BY <1>2, <1>3, <1>5 DEF Orderly, Early
    <2> QED  BY <1>2, <1>9, <2>1, <2>2, <2>3 DEF AllThrough
  <1>11. \A z \in Sides : Direction(z) =>
            Framed(z)' /\ Source(Peer(z))' /\ Chain(z)' /\ Whole(z)' /\ CopyEnds(z)' /\ Clean(z)'
    BY <1>2, <1>3, <1>5, <1>8, <1>9, <1>10, SidesFacts, FramedKept, SourceKept, ChainKept, WholeKept,
       CleanKept DEF Direction, CopyEnds
  <1> QED  BY <1>1, <1>6, <1>7, <1>11, BothDirections DEF Direction

-----------------------------------------------------------------------------
(* The handlers' deferred calls, and the end of the session.               *)

LEMMA CloseStreamKeeps ==
    ASSUME Inv, NEW x \in Sides, NEW y \in Sides, y = Peer(x), CloseStream(x)
    PROVE  Inv'
  <1>1. TypeInv /\ Control /\ Direction(x) /\ Direction(y) /\ y # x /\ x = Peer(y)
    BY SidesFacts DEF Inv
  <1>2. UNCHANGED <<sent, got, fin, gone, seen, out, in, local, copyOut, copyIn, outBuf, inBuf,
                    alive, stopping>>
    BY DEF CloseStream, apps, sockets, outCopy, inCopy, session
  <1>3. /\ closed' = [closed EXCEPT ![x] = TRUE] /\ closed'[x] /\ closed'[y] = closed[y]
        /\ pipe' = IF alive THEN [pipe EXCEPT ![y] = Append(pipe[y], End)] ELSE pipe
        /\ pipe'[x] = pipe[x] /\ pipe'[y] = (IF alive THEN Append(pipe[y], End) ELSE pipe[y])
        /\ handler' = [handler EXCEPT ![x] = IF x = "server" THEN "local" ELSE "done"]
        /\ handler'[y] = handler[y]
    BY <1>1 DEF CloseStream, TypeInv
  <1>4. \/ x = "server" /\ handler[x] = "wait" /\ (copyOut[x] = "done" \/ copyIn[x] = "done")
           /\ handler'[x] = "local"
        \/ x = "client" /\ handler[x] = "stream" /\ handler'[x] = "done"
    BY <1>1, <1>3, SidesFacts DEF CloseStream, Cancelled, Control, TypeInv, Sides
  <1>5. ~closed[x] /\ ((local["client"] # "none" \/ Early) => Began(x))
    <2>1. CASE x = "server" /\ handler[x] = "wait" /\ (copyOut[x] = "done" \/ copyIn[x] = "done")
      BY <1>1, <2>1 DEF Control, Began
    <2>2. CASE x = "client" /\ handler[x] = "stream"
      <3>1. ~closed[x] /\ ~Early /\ local[x] # "open"
        BY <1>1, <2>2 DEF Control, Early
      <3>2. local[x] \in {"none", "open", "closed"}
        BY <1>1 DEF TypeInv
      <3> QED  BY <2>2, <3>1, <3>2 DEF Began
    <2> QED  BY <1>4, <2>1, <2>2
  <1>6. \A z \in Sides : UNCHANGED <<AtHeader(z), Early>>
    BY <1>1, <1>3, <1>4, SidesFacts DEF AtHeader, Early
  <1>7. \A z \in Sides :
           UNCHANGED <<Front(z), Reached(z), Left(z), AllSent(z), Orderly(z)>>
    BY <1>2, <1>6 DEF Front, Reached, Left, AllSent, Orderly
  <1>8. TypeInv'
    <2>1. pipe' \in [Sides -> Seq(Int)]
      <3>1. pipe[y] \in Seq(Int) /\ End \in Int
        BY <1>1 DEF TypeInv, End
      <3>2. Append(pipe[y], End) \in Seq(Int)
        BY <3>1, AppendFacts
      <3> QED  BY <1>1, <1>3, <3>2 DEF TypeInv
    <2> QED  BY <1>1, <1>2, <1>3, <2>1 DEF TypeInv, Handlers
  <1>9. Control'
    BY <1>1, <1>2, <1>3, <1>4, SidesFacts DEF Control, Early
  <1>10. \A z \in Sides : Orderly(z) => Began(x)' = Began(x) /\ Began(y)' = Began(y)
    BY <1>2, <1>3, <1>5 DEF Orderly, Began
  <1>11. Direction(x)'
    <2>1. Framed(x)' /\ Source(y)' /\ Chain(x)' /\ CopyEnds(x)'
      BY <1>1, <1>2, <1>3, <1>6, FramedKept, SourceKept, ChainKept DEF Direction, CopyEnds
    <2>2. UNCHANGED <<Through(x), Flows(x), AllThrough(x)>>
      BY <1>1, <1>2, <1>3, <1>6, ThroughKept DEF Flows, AllThrough
    <2>3. Whole(x)' /\ Clean(x)'
      BY <1>1, <1>2, <1>7, <1>10, <2>2, WholeKept, CleanKept DEF Direction
    <2> QED  BY <1>1, <2>1, <2>3 DEF Direction
  <1>12. Source(x)' /\ CopyEnds(y)' /\ Whole(y)'
    BY <1>1, <1>2, <1>3, SourceKept DEF Direction, CopyEnds, Whole, Flows
  <1>13. CASE ~alive
    <2>1. Framed(y)' /\ Chain(y)'
      BY <1>1, <1>2, <1>3, <1>6, <1>13, ChainKept DEF Direction, Framed
    <2>2. Clean(y)'
      BY <1>2, <1>13 DEF Clean, Orderly
    <2> QED  BY <1>1, <1>8, <1>9, <1>11, <1>12, <2>1, <2>2, BothDirections DEF Direction
  <1>14. CASE alive
    <2>1. pipe[y] \in Seq(Int) /\ End \in Int /\ pipe'[y] = Append(pipe[y], End)
      BY <1>1, <1>3, <1>14 DEF TypeInv, End
    <2>2. /\ pipe'[y] \in Seq(Int) /\ Len(pipe[y]) \in Nat /\ Len(pipe'[y]) = Len(pipe[y]) + 1
          /\ pipe'[y][Len(pipe[y]) + 1] = End
          /\ \A i \in 1..Len(pipe[y]) : pipe'[y][i] = pipe[y][i]
      BY <2>1, AppendFacts
    <2>3. \A i \in 1..Len(pipe'[y]) : i \in 1..Len(pipe[y]) \/ i = Len(pipe[y]) + 1
      BY <2>2
    <2>4. Framed(y)'
      <3>1. Framed(y)
        BY <1>1 DEF Direction
      <3>2. AtHeader(y) => Len(pipe[y]) > 0
        BY <1>14, <2>1, <2>2, <3>1 DEF Framed
      <3> QED  BY <1>1, <1>2, <1>3, <1>5, <1>6, <2>2, <2>3, <3>1, <3>2 DEF Framed, Header, End
    <2>5. Chain(y)'
      BY <1>1, <1>2, <1>7, <2>2, <2>3 DEF Direction, Chain, End
    <2>6. Through(y)' = Through(y) + 1
      <3>1. Reached(y) \in Int /\ Front(y) \in Int /\ Reached(y)' = Reached(y) /\ Front(y)' = Front(y)
        BY <1>1, <1>7, Numbers
      <3> QED  BY <2>2, <3>1 DEF Through
    <2>7. AllThrough(y)' = AllThrough(y)
      <3>1. Through(y) \in Int /\ sent[x] \in Nat
        BY <1>1, Numbers
      <3> QED  BY <1>1, <1>2, <1>3, <1>5, <2>6, <3>1 DEF AllThrough
    <2>8. Clean(y)'
      BY <1>1, <1>2, <1>7, <1>10, <2>7, CleanKept DEF Direction
    <2> QED  BY <1>1, <1>8, <1>9, <1>11, <1>12, <2>4, <2>5, <2>8, BothDirections DEF Direction
  <1> QED  BY <1>13, <1>14

LEMMA CloseLocalKeeps ==
    ASSUME Inv, NEW x \in Sides, NEW y \in Sides, y = Peer(x), CloseLocal(x)
    PROVE  Inv'
  <1>1. TypeInv /\ Control /\ Direction(x) /\ Direction(y) /\ y # x /\ x = Peer(y)
    BY SidesFacts DEF Inv
  <1>2. UNCHANGED <<sent, got, fin, gone, seen, out, in, copyOut, copyIn, outBuf, inBuf, closed, pipe,
                    alive, stopping>>
    BY DEF CloseLocal, apps, outCopy, inCopy, strm, session
  <1>3. /\ local' = [local EXCEPT ![x] = "closed"] /\ local'[x] = "closed" /\ local'[y] = local[y]
        /\ handler' = [handler EXCEPT ![x] = IF x = "server" THEN "done" ELSE "stream"]
        /\ handler'[y] = handler[y]
    BY <1>1 DEF CloseLocal, TypeInv
  <1>4. \/ x = "server" /\ handler[x] = "local" /\ handler'[x] = "done"
        \/ x = "client" /\ handler[x] = "wait" /\ Cancelled(x) /\ handler'[x] = "stream"
    BY <1>1, <1>3, SidesFacts DEF CloseLocal, Control, TypeInv, Sides
  <1>5. ~stopping => Began(x)
    BY <1>1, <1>4 DEF Control, Began, Cancelled
  <1>6. \A z \in Sides : UNCHANGED <<AtHeader(z), Early, local["client"] # "none">>
    BY <1>1, <1>3, <1>4, SidesFacts DEF AtHeader, Early, Control
  <1>7. \A z \in Sides :
           UNCHANGED <<Reached(z), Through(z), Left(z), Flows(z), AllSent(z), AllThrough(z), Orderly(z)>>
    <2>1. \A z \in Sides : UNCHANGED <<Reached(z), Through(z), Left(z), Flows(z), AllSent(z)>>
      BY <1>2, <1>6 DEF Front, Reached, Through, Left, Flows, AllSent
    <2>2. \A z \in Sides : Orderly(z)' = Orderly(z)
      BY <1>2, <1>6 DEF Orderly
    <2> QED  BY <1>2, <2>1, <2>2 DEF AllThrough
  <1>8. TypeInv'
    BY <1>1, <1>2, <1>3 DEF TypeInv, Handlers
  <1>9. Control'
    BY <1>1, <1>2, <1>3, <1>4, SidesFacts DEF Control, Early
  <1>10. \A z \in Sides : Orderly(z) => Began(x)' = Began(x) /\ Began(y)' = Began(y)
    BY <1>2, <1>3, <1>5 DEF Orderly, Began
  <1>11. CopyEnds(x)' /\ CopyEnds(y)'
    BY <1>1, <1>2, <1>3 DEF Direction, CopyEnds
  <1>12. \A z \in Sides : Direction(z) => Framed(z)' /\ Source(Peer(z))' /\ Chain(z)' /\ Whole(z)'
    BY <1>2, <1>6, <1>7, SidesFacts, FramedKept, SourceKept, ChainKept, WholeKept DEF Direction
  <1>13. Clean(x)' /\ Clean(y)'
    BY <1>1, <1>2, <1>7, <1>10, CleanKept DEF Direction
  <1> QED  BY <1>1, <1>8, <1>9, <1>11, <1>12, <1>13, BothDirections DEF Direction

LEMMA Prefix ==
    ASSUME NEW p \in Seq(Int), NEW n \in 0..Len(p)
    PROVE  /\ SubSeq(p, 1, n) \in Seq(Int) /\ Len(SubSeq(p, 1, n)) = n
           /\ \A i \in 1..n : SubSeq(p, 1, n)[i] = p[i] /\ i \in 1..Len(p)
  OBVIOUS

LEMMA SessionEndsKeeps ==
    ASSUME Inv, SessionEnds
    PROVE  Inv'
  <1>1. TypeInv /\ Control /\ \A z \in Sides : Direction(z)
    BY DEF Inv
  <1>2. /\ UNCHANGED <<sent, got, fin, gone, seen, out, in, local, handler, copyOut, copyIn, outBuf,
                       inBuf, closed, stopping>>
        /\ alive' = FALSE
    BY DEF SessionEnds, apps, sockets, outCopy, inCopy
  <1>3. PICK n \in 0..Len(pipe["server"]), m \in 0..Len(pipe["client"]) :
           pipe' = OnServer(SubSeq(pipe["server"], 1, n), SubSeq(pipe["client"], 1, m))
    BY DEF SessionEnds
  <1>4. /\ pipe'["server"] = SubSeq(pipe["server"], 1, n)
        /\ pipe'["client"] = SubSeq(pipe["client"], 1, m)
    BY <1>3, SidesFacts DEF OnServer
  <1>5. \A z \in Sides : pipe'[z] \in Seq(Int) /\ Len(pipe'[z]) <= Len(pipe[z])
           /\ \A i \in 1..Len(pipe'[z]) : pipe'[z][i] = pipe[z][i] /\ i \in 1..Len(pipe[z])
    <2>1. pipe["server"] \in Seq(Int) /\ pipe["client"] \in Seq(Int)
      BY <1>1, SidesFacts DEF TypeInv
    <2>2. /\ pipe'["server"] \in Seq(Int) /\ Len(pipe'["server"]) = n
          /\ \A i \in 1..n : pipe'["server"][i] = pipe["server"][i] /\ i \in 1..Len(pipe["server"])
      BY <1>4, <2>1, Prefix
    <2>3. /\ pipe'["client"] \in Seq(Int) /\ Len(pipe'["client"]) = m
          /\ \A i \in 1..m : pipe'["client"][i] = pipe["client"][i] /\ i \in 1..Len(pipe["client"])
      BY <1>4, <2>1, Prefix
    <2> QED  BY <2>1, <2>2, <2>3 DEF Sides
  <1>6. TypeInv'
    <2>1. pipe' \in [Sides -> Seq(Int)]
      BY <1>3, <1>5 DEF OnServer
    <2> QED  BY <1>1, <1>2, <2>1 DEF TypeInv
  <1>7. Control'
    BY <1>1, <1>2 DEF Control, Early
  <1>8. ASSUME NEW z \in Sides PROVE Direction(z)'
    <2>1. AtHeader(z)' = AtHeader(z) /\ Reached(z)' = Reached(z) /\ Front(z)' = Front(z)
      BY <1>2 DEF AtHeader, Reached, Front
    <2>2. Direction(z) /\ Peer(z) \in Sides
      BY <1>1, SidesFacts
    <2>3. Framed(z)'
      <3>1. \A i \in 1..Len(pipe'[z]) : pipe'[z][i] = End => i = Len(pipe'[z]) /\ closed[Peer(z)]
        <4>1. Len(pipe[z]) \in Nat /\ Len(pipe'[z]) \in Nat
          <5>1. pipe[z] \in Seq(Int) /\ pipe'[z] \in Seq(Int)
            BY <1>1, <1>5 DEF TypeInv
          <5> QED  BY <5>1
        <4>2. \A i \in 1..Len(pipe[z]) :
                 pipe[z][i] = End => i = Len(pipe[z]) /\ closed[Peer(z)]
          BY <2>2 DEF Direction, Framed
        <4>3. Len(pipe'[z]) <= Len(pipe[z])
              /\ \A i \in 1..Len(pipe'[z]) : pipe'[z][i] = pipe[z][i] /\ i \in 1..Len(pipe[z])
          BY <1>5
        <4> QED  BY <4>1, <4>2, <4>3
      <3>2. Framed(z)
        BY <2>2 DEF Direction
      <3> QED  BY <1>2, <1>5, <2>1, <3>1, <3>2 DEF Framed
    <2>4. Chain(z)'
      BY <1>2, <1>5, <2>1, <2>2 DEF Direction, Chain
    <2>5. Source(Peer(z))' /\ Whole(z)' /\ CopyEnds(z)' /\ Clean(z)'
      BY <1>2, <2>2, SourceKept DEF Direction, Whole, Flows, CopyEnds, Clean, Orderly
    <2> QED  BY <2>3, <2>4, <2>5 DEF Direction
  <1> QED  BY <1>6, <1>7, <1>8 DEF Inv

LEMMA StopKeeps ==
    ASSUME Inv, Stop
    PROVE  Inv'
  <1>1. /\ UNCHANGED <<sent, got, fin, gone, seen, out, in, local, handler, copyOut, copyIn, outBuf,
                       inBuf, closed, pipe, alive>>
        /\ stopping' = TRUE
    BY DEF Stop, apps, sockets, outCopy, inCopy, strm
  <1>2. TypeInv' /\ Control'
    BY <1>1 DEF Inv, TypeInv, Control, Early
  <1>3. \A z \in Sides : UNCHANGED <<AtHeader(z), Through(z), Left(z), Flows(z)>> /\ Clean(z)'
    BY <1>1 DEF AtHeader, Through, Reached, Front, Left, Flows, Clean, Orderly
  <1>4. \A z \in Sides : Direction(z)'
    BY <1>1, <1>3, SidesFacts, FramedKept, SourceKept, ChainKept, WholeKept
       DEF Inv, Direction, CopyEnds
  <1> QED  BY <1>2, <1>4 DEF Inv

LEMMA ExitKeeps ==
    ASSUME Inv, Exit
    PROVE  Inv'
  <1> DEFINE c == "client"
             s == "server"
  <1>1. /\ TypeInv /\ Control /\ Direction(c) /\ Direction(s)
        /\ c \in Sides /\ s \in Sides /\ Peer(c) = s /\ Peer(s) = c /\ c # s
    BY SidesFacts DEF Inv
  <1>2. UNCHANGED <<sent, got, fin, gone, seen, out, in, closed, stopping>> /\ ~alive'
    BY DEF Exit, apps
  <1>3. /\ handler' = [handler EXCEPT ![c] = "done"] /\ local' = [local EXCEPT ![c] = "closed"]
        /\ copyOut' = [copyOut EXCEPT ![c] = "done"] /\ copyIn' = [copyIn EXCEPT ![c] = "done"]
        /\ outBuf' = [outBuf EXCEPT ![c] = 0] /\ inBuf' = [inBuf EXCEPT ![c] = 0]
        /\ pipe' = [pipe EXCEPT ![c] = <<>>] /\ alive' = FALSE
    BY DEF Exit
  <1>4. /\ handler'[c] = "done" /\ local'[c] = "closed" /\ copyOut'[c] = "done"
        /\ copyIn'[c] = "done" /\ outBuf'[c] = 0 /\ inBuf'[c] = 0 /\ pipe'[c] = <<>>
        /\ handler'[s] = handler[s] /\ local'[s] = local[s] /\ copyOut'[s] = copyOut[s]
        /\ copyIn'[s] = copyIn[s] /\ outBuf'[s] = outBuf[s] /\ inBuf'[s] = inBuf[s]
        /\ pipe'[s] = pipe[s]
    BY <1>1, <1>3 DEF TypeInv
  <1>5. TypeInv'
    <2>1. pipe' \in [Sides -> Seq(Int)]
      <3>1. <<>> \in Seq(Int)
        OBVIOUS
      <3> QED  BY <1>1, <1>3, <3>1 DEF TypeInv
    <2>2. handler' \in [Sides -> Handlers] /\ local' \in [Sides -> {"none", "open", "closed"}]
      BY <1>1, <1>3 DEF TypeInv, Handlers
    <2>3. copyOut' \in [Sides -> Copies] /\ copyIn' \in [Sides -> Copies]
      BY <1>1, <1>3 DEF TypeInv, Copies
    <2>4. outBuf' \in [Sides -> Int] /\ inBuf' \in [Sides -> Int]
      BY <1>1, <1>3 DEF TypeInv
    <2>5. alive' \in BOOLEAN
      BY <1>3
    <2> QED  BY <1>1, <1>2, <2>1, <2>2, <2>3, <2>4, <2>5 DEF TypeInv
  <1>6. Control'
    BY <1>1, <1>2, <1>4, SidesFacts DEF Control, Early
  <1>7. /\ Whole(c)' /\ Whole(s)' /\ CopyEnds(c)' /\ CopyEnds(s)' /\ Clean(c)' /\ Clean(s)'
    BY <1>2 DEF Whole, Flows, CopyEnds, Clean, Orderly
  <1>8. Source(c)' /\ Source(s)' /\ Chain(c)'
    BY <1>1, <1>2, <1>4, SourceKept DEF Direction, Source, Chain
  <1>9. AtHeader(s)' = AtHeader(s) /\ ~AtHeader(c)'
    BY <1>4 DEF AtHeader
  <1>10. Framed(c)' /\ Framed(s)' /\ Chain(s)'
    BY <1>1, <1>2, <1>4, <1>9, ChainKept DEF Direction, Framed
  <1> QED  BY <1>1, <1>5, <1>6, <1>7, <1>8, <1>10, BothDirections DEF Direction

LEMMA NextInv == Inv /\ [Next]_vars => Inv'
  <1>1. ASSUME Inv, NEW x \in Sides, App(x) \/ CopyOut(x) \/ CopyIn(x) \/ Handler(x)
        PROVE  Inv'
    BY <1>1, SidesFacts, SendKeeps, FinKeeps, LeaveKeeps, RecvKeeps, SeeEndKeeps, ReadLocalKeeps,
       WriteStreamKeeps, ReadStreamKeeps, WriteLocalKeeps, CloseStreamKeeps, CloseLocalKeeps
       DEF App, CopyOut, CopyIn, Handler
  <1>2. ASSUME Inv, UNCHANGED vars
        PROVE  Inv'
    <2>1. UNCHANGED <<sent, got, fin, gone, seen, out, in, local, handler, copyOut, copyIn, outBuf,
                      inBuf, closed, pipe, alive, stopping>>
      BY <1>2 DEF vars, apps, sockets, outCopy, inCopy, strm, session
    <2>2. \A z \in Sides : UNCHANGED View(z)
      BY <2>1 DEF View, AtHeader, Early
    <2>3. TypeInv' /\ Control'
      BY <1>2, <2>1 DEF Inv, TypeInv, Control, Early
    <2> QED  BY <1>2, <2>2, <2>3, DirectionKept DEF Inv
  <1> QED  BY <1>1, <1>2, AcceptStreamKeeps, ReadHeaderKeeps, DialKeeps, SessionEndsKeeps, StopKeeps,
              ExitKeeps DEF Next, HandleStream

LEMMA InitInv == Init => Inv
  <1> SUFFICES ASSUME Init PROVE Inv
    OBVIOUS
  <1>1. <<>> \in Seq(Int) /\ <<Header>> \in Seq(Int) /\ Len(<<Header>>) = 1 /\ <<Header>>[1] = Header
        /\ Len(<<>>) = 0 /\ <<Header>> # <<>>
    BY DEF Header
  <1>2. TypeInv
    <2>1. /\ out \in [Sides -> Seq(Int)] /\ in \in [Sides -> Seq(Int)] /\ pipe \in [Sides -> Seq(Int)]
      BY <1>1 DEF Init, Both, OnServer
    <2>2. /\ sent \in [Sides -> Nat] /\ got \in [Sides -> Nat]
          /\ fin \in [Sides -> BOOLEAN] /\ gone \in [Sides -> BOOLEAN]
          /\ seen \in [Sides -> {"none", "eof", "reset"}] /\ closed \in [Sides -> BOOLEAN]
          /\ outBuf \in [Sides -> Int] /\ inBuf \in [Sides -> Int]
      BY DEF Init, Both
    <2>3. /\ local \in [Sides -> {"none", "open", "closed"}] /\ handler \in [Sides -> Handlers]
          /\ copyOut \in [Sides -> Copies] /\ copyIn \in [Sides -> Copies]
      BY DEF Init, OnServer, Handlers, Copies
    <2>4. alive \in BOOLEAN /\ stopping \in BOOLEAN
      BY DEF Init
    <2> QED  BY <2>1, <2>2, <2>3, <2>4 DEF TypeInv
  <1>3. /\ handler["client"] = "queued" /\ handler["server"] = "wait"
        /\ local["client"] = "none" /\ local["server"] = "open"
        /\ copyOut["client"] = "off" /\ copyOut["server"] = "read"
        /\ copyIn["client"] = "off" /\ copyIn["server"] = "read"
        /\ \A z \in Sides : sent[z] = 0 /\ got[z] = 0 /\ ~fin[z] /\ ~gone[z] /\ out[z] = <<>>
              /\ in[z] = <<>> /\ outBuf[z] = 0 /\ inBuf[z] = 0 /\ ~closed[z]
        /\ pipe["client"] = <<Header>> /\ pipe["server"] = <<>>
    BY SidesFacts DEF Init, Both, OnServer
  <1>4. Control
    BY <1>3, SidesFacts DEF Control, Early, Sides
  <1>5. ASSUME NEW z \in Sides PROVE Direction(z)
    <2>1. /\ Peer(z) \in Sides /\ copyIn[z] # "done" /\ ~Began(z) /\ ~Began(Peer(z))
          /\ Reached(z) = 0 /\ Left(Peer(z)) = 0
      BY <1>1, <1>3, SidesFacts DEF Began, Reached, Left, Held, Sides
    <2>2. \/ z = "client" /\ AtHeader(z) /\ Front(z) = 1 /\ pipe[z] = <<Header>>
          \/ z = "server" /\ ~AtHeader(z) /\ Front(z) = 0 /\ pipe[z] = <<>>
      BY <1>3 DEF Sides, AtHeader, Front
    <2>3. Framed(z) /\ Chain(z)
      <3>1. CASE z = "client"
        <4>1. Len(pipe[z]) = 1 /\ pipe[z][1] = Header /\ pipe[z] # <<>> /\ AtHeader(z)
          BY <1>1, <2>2, <3>1
        <4> QED  BY <1>1, <1>3, <2>1, <4>1 DEF Framed, Chain, Header, End
      <3>2. CASE z = "server"
        <4>1. Len(pipe[z]) = 0 /\ ~AtHeader(z)
          BY <1>1, <2>2, <3>2
        <4> QED  BY <1>1, <1>3, <2>1, <4>1 DEF Framed, Chain
      <3> QED  BY <2>2, <3>1, <3>2
    <2>4. Through(z) = 0
      <3>1. Len(pipe[z]) = Front(z) /\ Front(z) \in {0, 1}
        BY <1>1, <2>2
      <3> QED  BY <2>1, <3>1 DEF Through
    <2>5. Source(Peer(z)) /\ Whole(z) /\ CopyEnds(z) /\ Clean(z)
      BY <1>1, <1>3, <2>1, <2>4 DEF Source, Whole, CopyEnds, Clean
    <2> QED  BY <2>3, <2>5 DEF Direction
  <1> QED  BY <1>2, <1>4, <1>5 DEF Inv

-----------------------------------------------------------------------------
(* What the invariant says of the chunks that get through.                 *)

LEMMA Joined ==
    ASSUME NEW a \in Seq(Int), NEW b \in Seq(Int)
    PROVE  /\ a \o b \in Seq(Int) /\ Len(a \o b) = Len(a) + Len(b)
           /\ Len(a) \in Nat /\ Len(b) \in Nat
           /\ \A i \in 1..Len(a) : (a \o b)[i] = a[i]
           /\ \A i \in (Len(a) + 1)..(Len(a) + Len(b)) :
                 (a \o b)[i] = b[i - Len(a)] /\ i - Len(a) \in 1..Len(b)
  OBVIOUS

LEMMA InHandFacts ==
    ASSUME NEW n \in Int
    PROVE  /\ InHand(n) \in Seq(Int) /\ Len(InHand(n)) = Held(n)
           /\ \A i \in 1..Len(InHand(n)) : InHand(n)[i] = n /\ i = 1 /\ n # 0
  BY DEF InHand, Held

LEMMA Part ==
    ASSUME NEW p \in Seq(Int), NEW m \in Nat, NEW n \in Nat, m >= 1, m <= n + 1, n <= Len(p)
    PROVE  /\ SubSeq(p, m, n) \in Seq(Int) /\ Len(SubSeq(p, m, n)) = n - m + 1
           /\ \A i \in 1..(n - m + 1) :
                 SubSeq(p, m, n)[i] = p[i + m - 1] /\ i + m - 1 \in m..n
  OBVIOUS

\* The data of a stream are its frames but for those at its ends.
LEMMA DataFacts ==
    ASSUME TypeInv, NEW x \in Sides, Framed(x)
    PROVE  /\ Data(pipe[x]) \in Seq(Int)
           /\ \A i \in 1..Len(Data(pipe[x])) :
                 /\ i + Front(x) \in 1..Len(pipe[x])
                 /\ Data(pipe[x])[i] = pipe[x][i + Front(x)] /\ pipe[x][i + Front(x)] > 0
           /\ alive /\ ~closed[Peer(x)] => Len(Data(pipe[x])) = Len(pipe[x]) - Front(x)
  <1> DEFINE p == pipe[x]
             m == IF p # <<>> /\ Head(p) = Header THEN 2 ELSE 1
             n == IF p # <<>> /\ p[Len(p)] = End THEN Len(p) - 1 ELSE Len(p)
  <1>1. p \in Seq(Int) /\ Len(p) \in Nat /\ (p # <<>> => Len(p) > 0 /\ Head(p) = p[1])
    <2>1. p \in Seq(Int)
      BY DEF TypeInv
    <2> QED  BY <2>1
  <1>2. Data(p) = SubSeq(p, m, n)
    BY DEF Data
  <1>3. p = <<>> => m = 1 /\ n = 0
    BY <1>1
  <1>4. p # <<>> => m = Front(x) + 1
    <2>1. p # <<>> => (p[1] = Header <=> AtHeader(x))
      BY <1>1 DEF Framed
    <2> QED  BY <1>1, <2>1 DEF Front
  <1>5. m \in {1, 2} /\ n \in Nat /\ n <= Len(p) /\ m <= n + 1
    <2>1. CASE p = <<>>
      BY <1>1, <1>3, <2>1
    <2>2. CASE p # <<>>
      <3>1. p[Len(p)] = End => n = Len(p) - 1 /\ (m = 2 => Len(p) # 1)
        BY <1>1, <2>2 DEF Header, End
      <3>2. p[Len(p)] # End => n = Len(p)
        OBVIOUS
      <3>3. m = 1 \/ m = 2
        OBVIOUS
      <3>4. Len(p) \in Nat /\ Len(p) > 0
        BY <1>1, <2>2
      <3>5. n = Len(p) \/ (n = Len(p) - 1 /\ (m = 2 => Len(p) # 1))
        BY <3>1, <3>2
      <3> DEFINE l == Len(p)
      <3> HIDE DEF p, m, n, l
      <3>6. /\ l \in Nat /\ l > 0 /\ (m = 1 \/ m = 2)
            /\ n = l \/ (n = l - 1 /\ (m = 2 => l # 1))
        BY <3>3, <3>4, <3>5 DEF l
      <3>7. m \in {1, 2} /\ n \in Nat /\ n <= l /\ m <= n + 1
        BY <3>6
      <3> QED  BY <3>7 DEF l
    <2> QED  BY <2>1, <2>2
  <1>6. alive /\ ~closed[Peer(x)] => n = Len(p) /\ n - m + 1 = Len(p) - Front(x)
    <2>1. ~closed[Peer(x)] => \A i \in 1..Len(p) : p[i] # End
      BY DEF Framed
    <2>2. ~closed[Peer(x)] => n = Len(p)
      BY <1>1, <2>1
    <2>3. alive /\ p = <<>> => Front(x) = 0
      BY DEF Framed, Front
    <2> SUFFICES ASSUME alive, ~closed[Peer(x)] PROVE n = Len(p) /\ n - m + 1 = Len(p) - Front(x)
      OBVIOUS
    <2>4. Front(x) \in Int /\ m = Front(x) + 1
      BY <1>3, <1>4, <2>3 DEF Front
    <2>5. Len(p) \in Int /\ n = Len(p)
      BY <1>1, <2>2
    <2> HIDE DEF m, n
    <2> QED  BY <2>4, <2>5
  <1>7. \A i \in m..n : i \in 1..Len(p) /\ p[i] > 0
    <2>1. ASSUME NEW i \in m..n PROVE i \in 1..Len(p) /\ p[i] > 0
      <3>1. i \in 1..Len(p) /\ p # <<>> /\ i \in Int
        BY <1>1, <1>3, <1>5, <2>1
      <3>2. p[i] # Header
        BY <1>4, <1>5, <2>1, <3>1 DEF Framed, Front
      <3>3. p[i] # End
        BY <1>1, <1>5, <2>1, <3>1 DEF Framed
      <3>4. p[i] \in Int /\ p[i] >= Header
        BY <1>1, <3>1 DEF Framed
      <3> QED  BY <3>1, <3>2, <3>3, <3>4 DEF Header, End
    <2> QED  BY <2>1
  <1> HIDE DEF p, m, n
  <1>8. /\ Data(p) \in Seq(Int) /\ Len(Data(p)) = n - m + 1
        /\ \A i \in 1..(n - m + 1) : Data(p)[i] = p[i + m - 1] /\ i + m - 1 \in m..n
    BY <1>1, <1>2, <1>5, Part
  <1>9. ASSUME NEW i \in 1..Len(Data(p))
        PROVE  i + Front(x) \in 1..Len(p) /\ Data(p)[i] = p[i + Front(x)] /\ p[i + Front(x)] > 0
    <2>1. i + m - 1 \in m..n /\ Data(p)[i] = p[i + m - 1] /\ i \in Int
      BY <1>5, <1>8
    <2>2. p # <<>> /\ Front(x) \in {0, 1}
      BY <1>3, <1>5, <2>1 DEF Front
    <2>3. i + m - 1 = i + Front(x)
      BY <1>4, <1>5, <2>1, <2>2
    <2> QED  BY <1>7, <2>1, <2>3
  <1> QED  BY <1>6, <1>8, <1>9 DEF p

LEMMA RelayedFacts ==
    ASSUME Inv, NEW x \in Sides
    PROVE  /\ Relayed(x) \in Seq(Int)
           /\ copyIn[x] = "done" => Relayed(x) = in[x] \o <<>>
           /\ copyIn[x] # "done" => Len(Relayed(x)) = Len(in[x]) + Held(inBuf[x]) + Len(Data(pipe[x]))
           /\ ~gone[x] => \A i \in 1..Len(Relayed(x)) : Relayed(x)[i] = got[x] + i
  <1>1. /\ TypeInv /\ Framed(x) /\ Chain(x) /\ in[x] \in Seq(Int) /\ inBuf[x] \in Int
        /\ <<>> \in Seq(Int) /\ Len(<<>>) = 0
    BY DEF Inv, Direction, TypeInv
  <1>2. got[x] \in Int /\ Len(in[x]) \in Nat /\ Reached(x) = got[x] + Len(in[x]) + Held(inBuf[x])
        /\ Held(inBuf[x]) \in {0, 1} /\ Front(x) \in {0, 1}
    BY <1>1, Numbers DEF Reached, Held, Front
  <1>3. ~gone[x] => \A i \in 1..Len(in[x]) : in[x][i] = got[x] + i
    BY <1>1 DEF Chain
  <1>4. CASE copyIn[x] = "done"
    <2>1. Relayed(x) = in[x] \o <<>>
      BY <1>4 DEF Relayed
    <2>2. Relayed(x) \in Seq(Int) /\ Len(Relayed(x)) = Len(in[x])
          /\ \A i \in 1..Len(in[x]) : Relayed(x)[i] = in[x][i]
      BY <1>1, <1>2, <2>1, Joined
    <2> QED  BY <1>3, <1>4, <2>1, <2>2
  <1>5. CASE copyIn[x] # "done"
    <2> DEFINE h == InHand(inBuf[x])
               d == Data(pipe[x])
               r == h \o d
    <2>1. Relayed(x) = in[x] \o r
      BY <1>5 DEF Relayed
    <2>2. /\ h \in Seq(Int) /\ Len(h) = Held(inBuf[x])
          /\ \A i \in 1..Len(h) : h[i] = inBuf[x] /\ i = 1 /\ inBuf[x] # 0
      BY <1>1, InHandFacts
    <2>3. /\ d \in Seq(Int)
          /\ \A i \in 1..Len(d) : /\ i + Front(x) \in 1..Len(pipe[x])
                                  /\ d[i] = pipe[x][i + Front(x)] /\ pipe[x][i + Front(x)] > 0
      BY <1>1, DataFacts
    <2> HIDE DEF h, d
    <2>4. /\ r \in Seq(Int) /\ Len(r) = Len(h) + Len(d) /\ Len(h) \in Nat /\ Len(d) \in Nat
          /\ \A i \in 1..Len(h) : r[i] = h[i]
          /\ \A i \in (Len(h) + 1)..(Len(h) + Len(d)) : r[i] = d[i - Len(h)] /\ i - Len(h) \in 1..Len(d)
      BY <2>2, <2>3, Joined
    <2> HIDE DEF r
    <2>5. /\ in[x] \o r \in Seq(Int) /\ Len(in[x] \o r) = Len(in[x]) + Len(r)
          /\ \A i \in 1..Len(in[x]) : (in[x] \o r)[i] = in[x][i]
          /\ \A i \in (Len(in[x]) + 1)..(Len(in[x]) + Len(r)) :
                (in[x] \o r)[i] = r[i - Len(in[x])] /\ i - Len(in[x]) \in 1..Len(r)
      BY <1>1, <2>4, Joined
    <2>6. ASSUME ~gone[x], NEW i \in 1..Len(h) PROVE r[i] = got[x] + Len(in[x]) + i
      BY <1>1, <1>5, <2>2, <2>4, <2>6 DEF Chain
    <2>7. ASSUME ~gone[x], NEW i \in 1..Len(d) PROVE d[i] = got[x] + Len(in[x]) + Len(h) + i
      <3>1. pipe[x][i + Front(x)] = Reached(x) + (i + Front(x)) - Front(x)
        BY <1>1, <1>5, <2>3, <2>7 DEF Chain
      <3>2. i \in Int /\ Reached(x) \in Int /\ Front(x) \in Int
        BY <1>1, <2>4, Numbers
      <3>3. Reached(x) + (i + Front(x)) - Front(x) = Reached(x) + i
        BY <3>2
      <3>4. d[i] = Reached(x) + i
        BY <2>3, <3>1, <3>3
      <3> QED  BY <1>2, <2>2, <3>4
    <2>8. ASSUME ~gone[x], NEW i \in 1..Len(r) PROVE r[i] = got[x] + Len(in[x]) + i
      <3>1. CASE i \in 1..Len(h)
        BY <2>6, <2>8, <3>1
      <3>2. CASE i \in (Len(h) + 1)..(Len(h) + Len(d))
        <4>1. r[i] = d[i - Len(h)] /\ i - Len(h) \in 1..Len(d)
          BY <2>4, <3>2
        <4>2. d[i - Len(h)] = got[x] + Len(in[x]) + Len(h) + (i - Len(h))
          BY <2>7, <2>8, <4>1
        <4> QED  BY <1>2, <2>4, <3>2, <4>1, <4>2
      <3> QED  BY <2>4, <3>1, <3>2
    <2>9. ASSUME ~gone[x], NEW i \in 1..Len(in[x] \o r) PROVE (in[x] \o r)[i] = got[x] + i
      <3>1. CASE i \in 1..Len(in[x])
        BY <1>3, <2>5, <2>9, <3>1
      <3>2. CASE i \in (Len(in[x]) + 1)..(Len(in[x]) + Len(r))
        <4>1. (in[x] \o r)[i] = r[i - Len(in[x])] /\ i - Len(in[x]) \in 1..Len(r)
          BY <2>5, <3>2
        <4>2. r[i - Len(in[x])] = got[x] + Len(in[x]) + (i - Len(in[x]))
          BY <2>8, <2>9, <4>1
        <4> QED  BY <1>2, <2>4, <3>2, <4>1, <4>2
      <3>3. Len(in[x]) \in Nat /\ Len(r) \in Nat /\ Len(in[x] \o r) = Len(in[x]) + Len(r)
        BY <1>2, <2>4, <2>5
      <3>4. i \in 1..Len(in[x]) \/ i \in (Len(in[x]) + 1)..(Len(in[x]) + Len(r))
        BY <3>3
      <3> QED  BY <3>1, <3>2, <3>4
    <2>10. Len(Relayed(x)) = Len(in[x]) + Held(inBuf[x]) + Len(d)
      BY <1>2, <2>1, <2>2, <2>4, <2>5
    <2> QED  BY <1>5, <2>1, <2>5, <2>9, <2>10 DEF d
  <1> QED  BY <1>4, <1>5

\* Whatever ends or breaks, an application receives what its peer sent in order
\* and without a hole: the two relays and the stream neither lose a chunk before
\* another nor repeat one.
THEOREM ChunksInOrder == Spec => []InOrder
  <1>1. Inv => InOrder
    BY RelayedFacts DEF InOrder
  <1> QED  BY InitInv, NextInv, <1>1, PTL DEF Spec

\* Until a relay begins to close, or the session ends, nothing is lost on the way.
THEOREM ChunksKept == Spec => []Intact
  <1>1. Inv => Intact
    <2> SUFFICES ASSUME Inv, alive, NEW x \in Sides,
                        \A z \in Sides : ~closed[z] /\ local[z] # "closed" /\ ~gone[z]
                 PROVE  got[x] + Len(UnderWay(x)) = sent[Peer(x)]
      BY DEF Intact
    <2> DEFINE y == Peer(x)
               h == InHand(outBuf[y])
               r == Relayed(x)
    <2>1. y \in Sides /\ TypeInv /\ Framed(x) /\ CopyEnds(x) /\ Whole(x)
      BY SidesFacts DEF Inv, Direction
    <2>2. copyIn[x] # "done" /\ Flows(x) /\ ~closed[y]
      BY <2>1 DEF CopyEnds, Flows
    <2>3. /\ r \in Seq(Int) /\ Len(r) = Len(in[x]) + Held(inBuf[x]) + (Len(pipe[x]) - Front(x))
      BY <2>1, <2>2, RelayedFacts, DataFacts
    <2>4. h \in Seq(Int) /\ Len(h) = Held(outBuf[y]) /\ out[y] \in Seq(Int)
      BY <2>1, InHandFacts DEF TypeInv
    <2> HIDE DEF y, h, r
    <2>5. r \o h \in Seq(Int) /\ Len(r \o h) = Len(r) + Len(h)
      BY <2>3, <2>4, Joined
    <2> DEFINE rh == r \o h
    <2> HIDE DEF rh
    <2>6. Len(rh \o out[y]) = Len(r) + Len(h) + Len(out[y])
      <3>1. rh \in Seq(Int) /\ Len(rh) = Len(r) + Len(h)
        BY <2>5 DEF rh
      <3>2. Len(rh \o out[y]) = Len(rh) + Len(out[y])
        BY <2>4, <3>1, Joined
      <3> QED  BY <3>1, <3>2
    <2>7. Len(UnderWay(x)) = Len(r) + Len(h) + Len(out[y])
      BY <2>6 DEF UnderWay, y, h, r, rh
    <2>8. Through(x) = sent[y] - Len(out[y]) - Held(outBuf[y])
      BY <2>1, <2>2 DEF Whole, Left, y
    <2>9. Through(x) = got[x] + Len(in[x]) + Held(inBuf[x]) + Len(pipe[x]) - Front(x)
      BY DEF Through, Reached
    <2>10. /\ got[x] \in Nat /\ Len(in[x]) \in Nat /\ Len(pipe[x]) \in Nat /\ Front(x) \in Int
           /\ Held(inBuf[x]) \in Int /\ Held(outBuf[y]) \in Int /\ sent[y] \in Nat /\ Len(out[y]) \in Nat
      BY <2>1, Numbers DEF Held
    <2>11. got[x] + Len(UnderWay(x)) = sent[y]
      <3>1. Len(r) = Len(in[x]) + Held(inBuf[x]) + (Len(pipe[x]) - Front(x)) /\ Len(h) = Held(outBuf[y])
        BY <2>3, <2>4
      <3>2. got[x] + Len(r) = Through(x) /\ Len(r) \in Int /\ Len(h) \in Int
        <4> DEFINE a == got[x]
                   b == Len(in[x])
                   c == Held(inBuf[x])
                   d == Len(pipe[x])
                   e == Front(x)
        <4>1. a \in Int /\ b \in Int /\ c \in Int /\ d \in Int /\ e \in Int
          BY <2>10
        <4>2. Len(r) = b + c + (d - e) /\ Through(x) = a + b + c + d - e
          BY <2>9, <3>1
        <4>3. Len(h) \in Int
          BY <2>10, <3>1
        <4> HIDE DEF a, b, c, d, e
        <4>4. a + (b + c + (d - e)) = a + b + c + d - e /\ b + c + (d - e) \in Int
          BY <4>1
        <4> QED  BY <4>2, <4>3, <4>4 DEF a
      <3>3. Len(UnderWay(x)) = Len(r) + Held(outBuf[y]) + Len(out[y])
        BY <2>7, <3>1
      <3> DEFINE a == got[x]
                 b == Len(r)
                 c == Held(outBuf[y])
                 d == Len(out[y])
                 e == sent[y]
      <3>4. /\ a \in Int /\ b \in Int /\ c \in Int /\ d \in Int /\ e \in Int
            /\ a + b = e - d - c
        BY <2>8, <2>10, <3>2
      <3> HIDE DEF a, b, c, d, e
      <3>5. a + (b + c + d) = e
        BY <3>4
      <3> QED  BY <3>3, <3>5 DEF a, b, c, d, e
    <2> QED  BY <2>11 DEF y
  <1> QED  BY InitInv, NextInv, <1>1, PTL DEF Spec

\* The clean end of an application's input means that it has all its peer sent,
\* when the peer was the first to end: no end overtakes data that are under way
\* in a copy, in the stream or in a socket.
THEOREM CleanEndMeansAll == Spec => EndMeansAll
  <1>1. ASSUME Inv, [Next]_vars
        PROVE  \A x \in Sides :
                  /\ seen[x] = "none" /\ seen'[x] = "eof"
                  /\ ~fin[x] /\ ~gone[Peer(x)] /\ alive /\ ~stopping /\ local["client"] # "none"
                  => got[x] = sent[Peer(x)]
    <2> SUFFICES ASSUME NEW x \in Sides, seen[x] = "none", seen'[x] = "eof",
                        ~fin[x], ~gone[Peer(x)], alive, ~stopping, local["client"] # "none"
                 PROVE  got[x] = sent[Peer(x)]
      OBVIOUS
    <2>1. PICK z \in Sides : SeeEnd(z)
      <3>1. seen' # seen
        OBVIOUS
      <3> QED
        BY <1>1, <3>1 DEF Next, App, CopyOut, CopyIn, Handler, HandleStream, Send, Fin, Leave, Recv,
           ReadLocal, WriteStream, ReadStream, WriteLocal, AcceptStream, ReadHeader, Dial,
           CloseStream, CloseLocal, SessionEnds, Stop, Exit, vars, apps
    <2>2. z = x /\ local[x] = "closed" /\ in[x] = <<>>
      BY <1>1, <2>1 DEF SeeEnd, Inv, TypeInv
    <2>3. Orderly(x) /\ Began(x) /\ Clean(x)
      BY <1>1, <2>2 DEF Orderly, Began, Inv, Direction
    <2>4. got[x] + Len(in[x]) = sent[Peer(x)]
      BY <2>3 DEF Clean, AllThrough
    <2>5. Len(in[x]) = 0 /\ got[x] \in Nat
      BY <1>1, <2>2, Numbers DEF Inv
    <2> QED  BY <2>4, <2>5
  <1> QED  BY InitInv, NextInv, <1>1, PTL DEF Spec, EndMeansAll
=============================================================================
