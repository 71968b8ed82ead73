---------------------------- MODULE ServerProofs ----------------------------
(***************************************************************************)
(* The connections: between whichever lines the network cuts what a client *)
(* sends, its requests are answered one each and in order.  Nothing is     *)
(* assumed of what parse and execute do, so this is so for every set of    *)
(* commands.                                                               *)
(***************************************************************************)
EXTENDS ServerProps, TLAPS, WellFoundedInduction

-----------------------------------------------------------------------------
(* Positions, from the last to the first.                                  *)

LEMMA Downwards ==
  ASSUME NEW n \in Nat, NEW G \in SUBSET (1..n), n > 0 => n \in G,
         \A q \in 1..(n - 1) : q + 1 \in G => q \in G
  PROVE  G = 1..n
  <1> DEFINE T == {n - q : q \in (1..n) \ G}
             R == OpToRel(<, Nat)
  <1>0. SUFFICES ASSUME NEW z \in (1..n) \ G
                 PROVE  FALSE
    OBVIOUS
  <1>1. T # {}
    OBVIOUS
  <1>2. T \subseteq Nat
    <2>1. \A q \in (1..n) \ G : n - q \in Nat
      OBVIOUS
    <2>2. QED
      BY <2>1
  <1>3. PICK x \in T : \A y \in T : ~(<<y, x>> \in R)
    <2>1. IsWellFoundedOn(R, Nat)
      BY NatLessThanWellFounded
    <2> HIDE DEF T, R
    <2>2. QED
      BY <1>1, <1>2, <2>1, WFMin
  <1>4. \A y \in T : ~(y < x)
    BY <1>2, <1>3 DEF OpToRel
  <1>5. PICK q \in (1..n) \ G : x = n - q
    OBVIOUS
  <1>6. q \in 1..(n - 1)
    BY <1>5
  <1>7. q + 1 \in 1..n /\ q + 1 \notin G
    BY <1>5, <1>6
  <1>8. n - (q + 1) \in T /\ n - (q + 1) < x
    BY <1>5, <1>7
  <1>9. QED
    BY <1>4, <1>8

-----------------------------------------------------------------------------
(* decode_frame.                                                           *)

\* The lengths of arrays are numbers.
Counted(S) == \A x \in S : x.t = "array" => x.n \in Nat

\* How decode_frame ends.
Outcomes == {"ok", "incomplete", "error", "panic"}

\* What decode_frame reads at one line leads on to a later one, and does not
\* change when more lines follow, unless it was cut off.
LEMMA OneLine ==
  ASSUME NEW S, Counted(S), NEW b \in Seq(S), NEW w \in Seq(S), NEW p \in 1..Len(b)
  PROVE  LET line == DecodeLine(b, p)
         IN  /\ line.st \in {"more", "incomplete", "error", "panic"}
             /\ line.st = "more" => line.next \in (p + 1)..(Len(b) + 1) /\ line.frames \in Nat
             /\ line.st # "incomplete" => DecodeLine(b \o w, p) = line
  <1> DEFINE line == DecodeLine(b, p)
  <1>1. b[p] \in S /\ (b \o w)[p] = b[p] /\ p \in Nat /\ Len(b) \in Nat /\ p <= Len(b)
        /\ Len(b \o w) >= Len(b)
    OBVIOUS
  <1>2. Incomplete.st = "incomplete" /\ Malformed.st = "error" /\ Fatal.st = "panic"
        /\ \A q, n : GoOn(q, n).st = "more" /\ GoOn(q, n).next = q /\ GoOn(q, n).frames = n
    BY DEF Incomplete, Malformed, Fatal, GoOn
  <1>3. CASE b[p].t = "array"
    <2>1. /\ line = IF b[p].n > ArrayMax THEN Fatal ELSE GoOn(p + 1, b[p].n)
          /\ DecodeLine(b \o w, p) = IF b[p].n > ArrayMax THEN Fatal ELSE GoOn(p + 1, b[p].n)
      BY <1>1, <1>3 DEF DecodeLine
    <2>2. b[p].n \in Nat
      BY <1>1, <1>3 DEF Counted
    <2>3. QED
      BY <1>1, <1>2, <2>1, <2>2
  <1>4. CASE b[p].t = "bulk"
    <2>1. /\ line = IF p = Len(b) THEN Incomplete ELSE GoOn(p + 2, 0)
          /\ p # Len(b) => DecodeLine(b \o w, p) = GoOn(p + 2, 0)
      BY <1>1, <1>4 DEF DecodeLine
    <2>2. QED
      BY <1>1, <1>2, <2>1
  <1>5. CASE b[p].t = "text" /\ b[p].words # <<>>
    <2>1. line = GoOn(p + 1, 0) /\ DecodeLine(b \o w, p) = GoOn(p + 1, 0)
      BY <1>1, <1>5 DEF DecodeLine
    <2>2. QED
      BY <1>1, <1>2, <2>1
  <1>6. CASE b[p].t \in {"simple", "int", "null"}
    <2>1. line = GoOn(p + 1, 0) /\ DecodeLine(b \o w, p) = GoOn(p + 1, 0)
      BY <1>1, <1>6 DEF DecodeLine
    <2>2. QED
      BY <1>1, <1>2, <2>1
  <1>7. CASE /\ ~(b[p].t = "array") /\ ~(b[p].t = "bulk")
             /\ ~(b[p].t = "text" /\ b[p].words # <<>>)
             /\ ~(b[p].t \in {"simple", "int", "null"})
    <2>1. line = Malformed /\ DecodeLine(b \o w, p) = Malformed
      BY <1>1, <1>7 DEF DecodeLine
    <2>2. QED
      BY <1>1, <1>2, <2>1
  <1>8. QED
    BY <1>3, <1>4, <1>5, <1>6, <1>7

\* The equation DecodeFrame solves, at one place.
Turn(b, f, at) ==
  LET line == DecodeLine(b, at[1])
  IN  IF at[2] = 0 THEN Complete(at[1] - 1)
      ELSE IF at[1] > Len(b) THEN Incomplete
      ELSE IF line.st = "more" THEN f[<<line.next, line.frames + at[2] - 1>>]
      ELSE line

Solves(b, f, D) == f = [at \in D |-> Turn(b, f, at)]

From(b, q) == (q..(Len(b) + 1)) \X Nat

\* It has a solution: the places are dealt with from the last to the first.
LEMMA Solvable ==
  ASSUME NEW S, Counted(S), NEW b \in Seq(S)
  PROVE  \E f : Solves(b, f, Readers(b))
  <1> DEFINE L == Len(b)
             G == {q \in 1..(L + 1) : \E f : Solves(b, f, From(b, q))}
  <1>0. L \in Nat
    OBVIOUS
  <1>1. L + 1 \in G
    <2> DEFINE f == [at \in From(b, L + 1) |-> Turn(b, <<>>, at)]
    <2>1. \A at \in From(b, L + 1) : at[1] > Len(b)
      BY DEF From
    <2>2. \A at \in From(b, L + 1) : Turn(b, f, at) = Turn(b, <<>>, at)
      BY <2>1 DEF Turn
    <2>3. Solves(b, f, From(b, L + 1))
      BY <2>2 DEF Solves
    <2>4. QED
      BY <1>0, <2>3
  <1>2. ASSUME NEW q \in 1..L, q + 1 \in G
        PROVE  q \in G
    <2>1. PICK g : Solves(b, g, From(b, q + 1))
      BY <1>2
    <2> DEFINE f == [at \in From(b, q) |-> Turn(b, g, at)]
    <2>2. \A at \in From(b, q + 1) : at \in From(b, q) /\ f[at] = g[at]
      <3>1. From(b, q + 1) \subseteq From(b, q)
        BY <1>2 DEF From
      <3>2. \A at \in From(b, q + 1) : g[at] = Turn(b, g, at)
        BY <2>1 DEF Solves
      <3>3. QED
        BY <3>1, <3>2
    <2>3. ASSUME NEW at \in From(b, q)
          PROVE  Turn(b, f, at) = Turn(b, g, at)
      <3> DEFINE line == DecodeLine(b, at[1])
                 to == <<line.next, line.frames + at[2] - 1>>
      <3>1. at[1] \in q..(L + 1) /\ at[2] \in Nat
        BY DEF From
      <3>2. CASE at[2] # 0 /\ at[1] <= Len(b) /\ line.st = "more"
        <4>1. at[1] \in 1..Len(b)
          BY <1>2, <3>1, <3>2
        <4>2. line.next \in (at[1] + 1)..(L + 1) /\ line.frames \in Nat
          BY <4>1, <3>2, OneLine
        <4> HIDE DEF line
        <4>3. line.next \in (q + 1)..(L + 1)
          BY <1>0, <1>2, <3>1, <4>2
        <4>7. line.frames + at[2] - 1 \in Nat
          <5> DEFINE n == at[2]
          <5>1. n \in Nat /\ n # 0
            BY <3>1, <3>2
          <5> HIDE DEF n
          <5>2. line.frames + n - 1 \in Nat
            BY <4>2, <5>1
          <5>3. QED
            BY <5>2 DEF n
        <4>4. to \in From(b, q + 1)
          BY <4>3, <4>7 DEF From
        <4> HIDE DEF f
        <4>5. f[to] = g[to]
          BY <2>2, <4>4
        <4>6. QED
          BY <3>2, <4>5 DEF Turn, line
      <3>3. CASE ~(at[2] # 0 /\ at[1] <= Len(b) /\ line.st = "more")
        BY <1>0, <3>1, <3>3 DEF Turn
      <3>4. QED
        BY <3>2, <3>3
    <2>4. Solves(b, f, From(b, q))
      BY <2>3 DEF Solves
    <2>5. q \in 1..(L + 1)
      BY <1>0
    <2>6. QED
      BY <2>4, <2>5
  <1>3. G = 1..(L + 1)
    <2>1. L + 1 \in Nat /\ G \in SUBSET (1..(L + 1)) /\ (L + 1) - 1 = L
      BY <1>0
    <2> HIDE DEF G, L
    <2>2. \A q \in 1..((L + 1) - 1) : q + 1 \in G => q \in G
      BY <1>2, <2>1
    <2> DEFINE n == L + 1
    <2>3. n \in Nat /\ n \in G /\ G \in SUBSET (1..n)
          /\ \A q \in 1..(n - 1) : q + 1 \in G => q \in G
      BY <1>1, <2>1, <2>2
    <2> HIDE DEF n
    <2>4. G = 1..n
      BY <2>3, Downwards
    <2>5. QED
      BY <2>4 DEF n
  <1>4. 1 \in G
    <2>1. 1 \in 1..(L + 1)
      BY <1>0
    <2> HIDE DEF G
    <2>2. QED
      BY <1>3, <2>1
  <1>5. From(b, 1) = Readers(b)
    BY DEF From, Readers
  <1>6. QED
    BY <1>4, <1>5

\* A line that is read on from.
NextPlace(b, q, m) == <<DecodeLine(b, q).next, DecodeLine(b, q).frames + m - 1>>

Decoded(b) == CHOOSE f : Solves(b, f, Readers(b))

LEMMA DecodedEquation ==
  ASSUME NEW S, Counted(S), NEW b \in Seq(S)
  PROVE  /\ \A p \in 1..(Len(b) + 1), n \in Nat :
              Decoded(b)[<<p, n>>] = Turn(b, Decoded(b), <<p, n>>)
         /\ DecodeFrame(b) = Decoded(b)[<<1, 1>>]
  <1>1. Solves(b, Decoded(b), Readers(b))
    BY Solvable DEF Decoded
  <1>2. \A p \in 1..(Len(b) + 1), n \in Nat :
          Decoded(b)[<<p, n>>] = Turn(b, Decoded(b), <<p, n>>)
    BY <1>1 DEF Solves, Readers
  <1>3. DecodeFrame(b) = Decoded(b)[<<1, 1>>]
    BY DEF DecodeFrame, Decoded, Solves, Turn
  <1>4. QED
    BY <1>2, <1>3

LEMMA DecodedAt ==
  ASSUME NEW S, Counted(S), NEW b \in Seq(S), NEW q \in 1..(Len(b) + 1), NEW m \in Nat
  PROVE  /\ m = 0 => Decoded(b)[<<q, m>>] = Complete(q - 1)
         /\ m # 0 /\ q > Len(b) => Decoded(b)[<<q, m>>] = Incomplete
         /\ m # 0 /\ ~(q > Len(b)) =>
              /\ DecodeLine(b, q).st = "more" =>
                   Decoded(b)[<<q, m>>] = Decoded(b)[NextPlace(b, q, m)]
              /\ DecodeLine(b, q).st # "more" => Decoded(b)[<<q, m>>] = DecodeLine(b, q)
  <1>1. Decoded(b)[<<q, m>>] = Turn(b, Decoded(b), <<q, m>>)
    BY DecodedEquation
  <1>2. ASSUME NEW f
        PROVE  /\ m = 0 => Turn(b, f, <<q, m>>) = Complete(q - 1)
               /\ m # 0 /\ q > Len(b) => Turn(b, f, <<q, m>>) = Incomplete
    BY DEF Turn
  <1>4. ASSUME NEW f, m # 0, ~(q > Len(b)), DecodeLine(b, q).st = "more"
        PROVE  Turn(b, f, <<q, m>>) = f[NextPlace(b, q, m)]
    BY <1>4 DEF Turn, NextPlace
  <1>5. ASSUME NEW f, m # 0, ~(q > Len(b)), DecodeLine(b, q).st # "more"
        PROVE  Turn(b, f, <<q, m>>) = DecodeLine(b, q)
    BY <1>5 DEF Turn
  <1>3. QED
    BY <1>1, <1>2, <1>4, <1>5

\* What a reader at a place finds: a frame that ends in b, or why there is none;
\* and what it finds does not change when more lines follow, unless it was cut off.
LEMMA DecodedFrom ==
  ASSUME NEW S, Counted(S), NEW b \in Seq(S), NEW w \in Seq(S),
         NEW p \in 1..(Len(b) + 1), NEW n \in Nat
  PROVE  LET d == Decoded(b)[<<p, n>>]
         IN  /\ d.st \in Outcomes
             /\ d.st = "ok" => /\ d = Complete(d.pos) /\ d.pos \in (p - 1)..Len(b)
                               /\ n # 0 => d.pos >= p
             /\ d.st # "incomplete" => Decoded(b \o w)[<<p, n>>] = d
  <1> DEFINE L == Len(b)
             v == b \o w
             Found(q, m) ==
               LET d == Decoded(b)[<<q, m>>]
               IN  /\ d.st \in Outcomes
                   /\ d.st = "ok" => /\ d = Complete(d.pos) /\ d.pos \in (q - 1)..L
                                     /\ m # 0 => d.pos >= q
                   /\ d.st # "incomplete" => Decoded(v)[<<q, m>>] = d
             G == {q \in 1..(L + 1) : \A r \in q..(L + 1), m \in Nat : Found(r, m)}
  <1>0. L \in Nat /\ v \in Seq(S) /\ Len(v) \in Nat /\ Len(v) >= L
    OBVIOUS
  <1>1. \A q \in 1..(L + 1), m \in Nat :
          /\ Decoded(b)[<<q, m>>] = Turn(b, Decoded(b), <<q, m>>)
          /\ Decoded(v)[<<q, m>>] = Turn(v, Decoded(v), <<q, m>>)
    <2>1. \A q \in 1..(L + 1) : q \in 1..(Len(v) + 1)
      BY <1>0
    <2> HIDE DEF v
    <2>2. QED
      BY <1>0, <2>1, DecodedEquation
  <1>2. /\ \A q : Complete(q).st = "ok" /\ Complete(q).pos = q
        /\ Incomplete.st = "incomplete"
    BY DEF Complete, Incomplete
  <1> HIDE DEF v
  <1>3. ASSUME NEW q \in 1..(L + 1)
        PROVE  Found(q, 0)
    <2>1. Decoded(b)[<<q, 0>>] = Complete(q - 1) /\ Decoded(v)[<<q, 0>>] = Complete(q - 1)
      BY <1>1 DEF Turn
    <2>2. q - 1 \in (q - 1)..L
      BY <1>0
    <2>3. QED
      BY <1>2, <2>1, <2>2 DEF Outcomes
  <1>4. L + 1 \in G
    <2>1. ASSUME NEW m \in Nat, m # 0
          PROVE  Found(L + 1, m)
      <3>1. L + 1 > Len(b) /\ L + 1 \in 1..(L + 1)
        BY <1>0
      <3>3. Decoded(b)[<<L + 1, m>>] = Incomplete
        BY <2>1, <3>1, DecodedAt
      <3>4. QED
        BY <1>2, <3>3 DEF Outcomes
    <2>2. L + 1 \in 1..(L + 1) /\ \A r \in (L + 1)..(L + 1) : r = L + 1
      BY <1>0
    <2>3. \A m \in Nat : Found(L + 1, m)
      BY <1>3, <2>1, <2>2
    <2> HIDE DEF Found
    <2>4. QED
      BY <2>2, <2>3
  <1>5. ASSUME NEW q \in 1..L, NEW m \in Nat, m # 0,
               \A r \in (q + 1)..(L + 1), k \in Nat : Found(r, k)
        PROVE  Found(q, m)
    <2> DEFINE line == DecodeLine(b, q)
    <2>1. /\ line.st \in {"more", "incomplete", "error", "panic"}
          /\ line.st = "more" => line.next \in (q + 1)..(L + 1) /\ line.frames \in Nat
          /\ line.st # "incomplete" => DecodeLine(v, q) = line
      BY OneLine DEF v
    <2>2. q \in 1..(L + 1) /\ ~(q > Len(v)) /\ ~(q > Len(b)) /\ m # 0
      BY <1>0, <1>5
    <2> DEFINE to == NextPlace(b, q, m)
    <2>3. /\ line.st = "more" => Decoded(b)[<<q, m>>] = Decoded(b)[to]
          /\ line.st # "more" => Decoded(b)[<<q, m>>] = line
      BY <2>2, DecodedAt
    <2>8. q \in 1..(Len(v) + 1)
      BY <1>0, <2>2
    <2>4. line.st # "incomplete" =>
            /\ line.st = "more" => Decoded(v)[<<q, m>>] = Decoded(v)[to]
            /\ line.st # "more" => Decoded(v)[<<q, m>>] = line
      <3>1. /\ DecodeLine(v, q).st = "more" => Decoded(v)[<<q, m>>] = Decoded(v)[NextPlace(v, q, m)]
            /\ DecodeLine(v, q).st # "more" => Decoded(v)[<<q, m>>] = DecodeLine(v, q)
        BY <1>0, <2>2, <2>8, DecodedAt
      <3>2. QED
        BY <2>1, <3>1 DEF NextPlace
    <2>9. to = <<line.next, line.frames + m - 1>>
      BY DEF NextPlace
    <2> HIDE DEF to
    <2> HIDE DEF line
    <2>5. CASE line.st # "more"
      BY <2>1, <2>3, <2>4, <2>5 DEF Outcomes
    <2>6. CASE line.st = "more"
      <3>1. line.frames + m - 1 \in Nat
        BY <1>5, <2>1, <2>6
      <3>2. Found(line.next, line.frames + m - 1)
        BY <1>5, <2>1, <2>6, <3>1
      <3>3. \A x \in (line.next - 1)..L : x \in (q - 1)..L /\ x >= q
        BY <2>1, <2>6, <1>0
      <3>5. Found(line.next, line.frames + m - 1) =>
              LET d == Decoded(b)[to]
              IN  /\ d.st \in Outcomes
                  /\ d.st = "ok" => d = Complete(d.pos) /\ d.pos \in (line.next - 1)..L
                  /\ d.st # "incomplete" => Decoded(v)[to] = d
        BY <2>9
      <3>4. QED
        BY <2>1, <2>3, <2>4, <2>6, <3>2, <3>3, <3>5
    <2>7. QED
      BY <2>5, <2>6
  <1> HIDE DEF Found
  <1>6. ASSUME NEW q \in 1..((L + 1) - 1), q + 1 \in G
        PROVE  q \in G
    <2>1. q \in 1..L /\ q \in 1..(L + 1)
      BY <1>0
    <2>2. \A m \in Nat : Found(q, m)
      BY <1>3, <1>5, <1>6, <2>1
    <2>3. \A r \in q..(L + 1) : r = q \/ r \in (q + 1)..(L + 1)
      BY <1>0, <2>1
    <2>4. \A r \in q..(L + 1), m \in Nat : Found(r, m)
      BY <1>6, <2>2, <2>3
    <2>5. QED
      BY <2>1, <2>4
  <1>7. p \in G
    <2> DEFINE N == L + 1
    <2>1. N \in Nat /\ N \in G /\ G \in SUBSET (1..N) /\ p \in 1..N
          /\ \A q \in 1..(N - 1) : q + 1 \in G => q \in G
      BY <1>0, <1>4, <1>6
    <2> HIDE DEF N, G
    <2>2. G = 1..N
      BY <2>1, Downwards
    <2>3. QED
      BY <2>1, <2>2
  <1>8. p \in p..(L + 1)
    BY <1>0
  <1>9. Found(p, n)
    BY <1>7, <1>8
  <1>10. QED
    BY <1>9 DEF Found, v

\* parse_frame decides about a frame by the frame alone: a frame that is complete,
\* malformed or fatal is so whatever follows it, and a complete one has a line at least.
THEOREM FramesAreDecided ==
  ASSUME NEW S, Counted(S), NEW b \in Seq(S), NEW w \in Seq(S)
  PROVE  LET d == DecodeFrame(b)
         IN  /\ d.st \in Outcomes
             /\ d.st = "ok" => d = Complete(d.pos) /\ d.pos \in 1..Len(b)
             /\ d.st # "incomplete" => DecodeFrame(b \o w) = d
  <1>1. b \o w \in Seq(S) /\ 1 \in 1..(Len(b) + 1) /\ 1 \in Nat /\ 1 # 0 /\ Len(b) \in Nat
    OBVIOUS
  <1>2. DecodeFrame(b) = Decoded(b)[<<1, 1>>]
    BY DecodedEquation
  <1>3. DecodeFrame(b \o w) = Decoded(b \o w)[<<1, 1>>]
    BY <1>1, DecodedEquation
  <1> DEFINE d == DecodeFrame(b)
  <1>4. /\ d.st \in Outcomes
        /\ d.st = "ok" => d = Complete(d.pos) /\ d.pos \in (1 - 1)..Len(b) /\ d.pos >= 1
        /\ d.st # "incomplete" => Decoded(b \o w)[<<1, 1>>] = d
    BY <1>1, <1>2, DecodedFrom
  <1> HIDE DEF d
  <1>5. QED
    BY <1>1, <1>3, <1>4 DEF d

-----------------------------------------------------------------------------
(* Requests.                                                               *)

Arrived(s, p) == SubSeq(s, p, Len(s))

\* The equation Requests solves, at one line.
Request(s, f, p) ==
  IF FirstAsks(Arrived(s, p)).ends THEN FirstAsks(Arrived(s, p)).asks
  ELSE FirstAsks(Arrived(s, p)).asks \o f[p + DecodeFrame(Arrived(s, p)).pos]

Lists(s, f, D) == f = [p \in D |-> Request(s, f, p)]

\* The first frame of what is left of s, if there is one.
LEMMA FirstFrameEnds ==
  ASSUME NEW S, Counted(S), NEW s \in Seq(S), NEW p \in 1..(Len(s) + 1)
  PROVE  LET d == DecodeFrame(Arrived(s, p))
         IN  /\ d.st \in Outcomes
             /\ d.st = "ok" => p + d.pos \in (p + 1)..(Len(s) + 1)
  <1>1. Arrived(s, p) \in Seq(S) /\ Len(Arrived(s, p)) = Len(s) - p + 1 /\ Len(s) \in Nat
    BY DEF Arrived
  <1> HIDE DEF Arrived
  <1>2. <<>> \in Seq(S)
    OBVIOUS
  <1>3. DecodeFrame(Arrived(s, p)).st \in Outcomes
        /\ (DecodeFrame(Arrived(s, p)).st = "ok" =>
              DecodeFrame(Arrived(s, p)).pos \in 1..Len(Arrived(s, p)))
    BY <1>1, <1>2, FramesAreDecided
  <1>4. QED
    BY <1>1, <1>3

\* What the first frame makes of it.
LEMMA FirstRequest ==
  ASSUME NEW s
  PROVE  LET d == DecodeFrame(s)
             f == FrameOf(s, d)
         IN  /\ FirstAsks(s).ends \in BOOLEAN
             /\ FirstAsks(s).asks = <<>> \/ \E r : FirstAsks(s).asks = <<r>>
             /\ d.st # "ok" => FirstAsks(s).ends /\ FirstAsks(s).asks = <<>>
             /\ d.st = "ok" =>
                  /\ ~IsRequest(f) => FirstAsks(s).asks = <<(<<>>)>> /\ ~FirstAsks(s).ends
                  /\ IsRequest(f) /\ CmdArgs(f) = <<>> =>
                       FirstAsks(s).asks = <<>> /\ ~FirstAsks(s).ends
                  /\ IsRequest(f) /\ CmdArgs(f) # <<>> =>
                       /\ FirstAsks(s).asks = <<CmdArgs(f)>>
                       /\ FirstAsks(s).ends <=> CmdArgs(f)[1] = "QUIT" /\ Parses(CmdArgs(f))
  <1> DEFINE d == DecodeFrame(s)
             f == FrameOf(s, d)
  <1>1. CASE d.st # "ok"
    <2>1. FirstAsks(s) = [asks |-> <<>>, ends |-> TRUE]
      BY <1>1 DEF FirstAsks
    <2>2. QED
      BY <1>1, <2>1
  <1>2. CASE d.st = "ok" /\ ~IsRequest(f)
    <2>1. FirstAsks(s) = [asks |-> <<(<<>>)>>, ends |-> FALSE]
      BY <1>2 DEF FirstAsks
    <2>2. QED
      BY <1>2, <2>1
  <1>3. CASE d.st = "ok" /\ IsRequest(f) /\ CmdArgs(f) = <<>>
    <2>1. FirstAsks(s) = [asks |-> <<>>, ends |-> FALSE]
      BY <1>3 DEF FirstAsks
    <2>2. QED
      BY <1>3, <2>1
  <1>4. CASE d.st = "ok" /\ IsRequest(f) /\ CmdArgs(f) # <<>>
    <2>1. FirstAsks(s) = [asks |-> <<CmdArgs(f)>>,
                          ends |-> CmdArgs(f)[1] = "QUIT" /\ Parses(CmdArgs(f))]
      BY <1>4 DEF FirstAsks
    <2>2. FirstAsks(s).asks = <<CmdArgs(f)>>
          /\ FirstAsks(s).ends = (CmdArgs(f)[1] = "QUIT" /\ Parses(CmdArgs(f)))
      BY <2>1
    <2>3. QED
      BY <1>4, <2>2
  <1>5. QED
    BY <1>1, <1>2, <1>3, <1>4

\* One line of the equation only asks for a later one.
LEMMA RequestLooksAhead ==
  ASSUME NEW s, NEW p, NEW f, NEW g,
         LET d == DecodeFrame(Arrived(s, p)) IN d.st = "ok" => f[p + d.pos] = g[p + d.pos]
  PROVE  Request(s, f, p) = Request(s, g, p)
  <1>1. DecodeFrame(Arrived(s, p)).st # "ok" => FirstAsks(Arrived(s, p)).ends
    BY FirstRequest
  <1>2. QED
    BY <1>1 DEF Request

LEMMA Listable ==
  ASSUME NEW S, Counted(S), NEW s \in Seq(S)
  PROVE  \E f : Lists(s, f, 1..(Len(s) + 1))
  <1> DEFINE N == Len(s) + 1
             G == {q \in 1..N : \E f : Lists(s, f, q..N)}
  <1>0. N \in Nat /\ N > 0
    OBVIOUS
  <1>1. ASSUME NEW q \in 1..N, NEW g, \A p \in (q + 1)..N : g[p] = Request(s, g, p)
        PROVE  \E f : Lists(s, f, q..N)
    <2> DEFINE f == [p \in q..N |-> Request(s, g, p)]
    <2>1. \A p \in (q + 1)..N : f[p] = g[p]
      BY <1>0, <1>1
    <2>2. ASSUME NEW p \in q..N
          PROVE  Request(s, f, p) = Request(s, g, p)
      <3> DEFINE d == DecodeFrame(Arrived(s, p))
      <3>1. p \in 1..(Len(s) + 1)
        BY <1>0
      <3>2. d.st = "ok" => p + d.pos \in (p + 1)..(Len(s) + 1)
        BY <3>1, FirstFrameEnds
      <3> HIDE DEF d, f
      <3>3. d.st = "ok" => p + d.pos \in (q + 1)..N
        BY <1>0, <3>2
      <3>4. d.st = "ok" => f[p + d.pos] = g[p + d.pos]
        BY <2>1, <3>3
      <3>5. QED
        BY <3>4, RequestLooksAhead DEF d
    <2>3. Lists(s, f, q..N)
      BY <2>2 DEF Lists
    <2>4. QED
      BY <2>3
  <1>2. N \in G
    <2>1. N \in 1..N /\ \A p \in (N + 1)..N : FALSE
      BY <1>0
    <2> HIDE DEF N
    <2>2. \A p \in (N + 1)..N : (<<>>)[p] = Request(s, <<>>, p)
      BY <2>1
    <2>3. QED
      BY <1>1, <2>1, <2>2
  <1>3. ASSUME NEW q \in 1..(N - 1), q + 1 \in G
        PROVE  q \in G
    <2>1. PICK g : Lists(s, g, (q + 1)..N)
      BY <1>3
    <2>2. \A p \in (q + 1)..N : g[p] = Request(s, g, p)
      BY <2>1 DEF Lists
    <2>3. q \in 1..N
      BY <1>0
    <2> HIDE DEF N
    <2>4. QED
      BY <1>1, <2>2, <2>3
  <1>4. 1 \in G
    <2> HIDE DEF N
    <2>1. N \in G /\ G \in SUBSET (1..N) /\ \A q \in 1..(N - 1) : q + 1 \in G => q \in G
      BY <1>2, <1>3
    <2> HIDE DEF G
    <2>2. G = 1..N
      BY <1>0, <2>1, Downwards
    <2>3. QED
      BY <1>0, <2>2
  <1>5. QED
    BY <1>4

Listed(s) == CHOOSE f : Lists(s, f, 1..(Len(s) + 1))

LEMMA ListedEquation ==
  ASSUME NEW S, Counted(S), NEW s \in Seq(S)
  PROVE  /\ \A p \in 1..(Len(s) + 1) : Listed(s)[p] = Request(s, Listed(s), p)
         /\ Requests(s) = Listed(s)[1]
  <1>1. Lists(s, Listed(s), 1..(Len(s) + 1))
    BY Listable DEF Listed
  <1>2. \A p \in 1..(Len(s) + 1) : Listed(s)[p] = Request(s, Listed(s), p)
    BY <1>1 DEF Lists
  <1>3. Requests(s) = Listed(s)[1]
    BY DEF Requests, Listed, Lists, Request, Arrived
  <1>4. QED
    BY <1>2, <1>3

\* What can be asked for in s.
Asks(s) == {FirstAsks(Arrived(s, p)).asks[1] : p \in 1..(Len(s) + 1)}

LEMMA ListedIsSequence ==
  ASSUME NEW S, Counted(S), NEW s \in Seq(S)
  PROVE  \A p \in 1..(Len(s) + 1) : Listed(s)[p] \in Seq(Asks(s))
  <1> DEFINE N == Len(s) + 1
             f == Listed(s)
             X == Asks(s)
             G == {q \in 1..N : \A p \in q..N : f[p] \in Seq(X)}
  <1>0. N \in Nat /\ N > 0
    OBVIOUS
  <1>1. \A p \in 1..N : f[p] = Request(s, f, p)
    BY ListedEquation
  <1>2. ASSUME NEW p \in 1..N
        PROVE  FirstAsks(Arrived(s, p)).asks \in Seq(X)
    <2>1. PICK a : a = FirstAsks(Arrived(s, p)).asks
      OBVIOUS
    <2>2. a[1] \in X
      BY <2>1 DEF Asks
    <2>3. a = <<>> \/ \E r : a = <<r>>
      BY <2>1, FirstRequest
    <2> HIDE DEF X
    <2>4. CASE a = <<>>
      BY <2>1, <2>4
    <2>5. ASSUME NEW r, a = <<r>>
          PROVE  a \in Seq(X)
      <3>1. r \in X
        BY <2>2, <2>5
      <3>2. QED
        BY <2>5, <3>1
    <2>6. QED
      BY <2>1, <2>3, <2>4, <2>5
  <1>3. ASSUME NEW q \in 1..N, \A p \in (q + 1)..N : f[p] \in Seq(X)
        PROVE  f[q] \in Seq(X)
    <2> DEFINE d == DecodeFrame(Arrived(s, q))
               first == FirstAsks(Arrived(s, q))
    <2>1. d.st \in Outcomes
          /\ (d.st = "ok" => q + d.pos \in (q + 1)..N)
      BY FirstFrameEnds
    <2>2. first.asks \in Seq(X)
      BY <1>2
    <2>3. d.st # "ok" => first.ends
      BY FirstRequest
    <2>4. f[q] = IF first.ends THEN first.asks ELSE first.asks \o f[q + d.pos]
      BY <1>1 DEF Request
    <2> HIDE DEF d, first, f, X
    <2>5. CASE first.ends
      BY <2>2, <2>4, <2>5
    <2>6. CASE ~first.ends
      <3>1. f[q + d.pos] \in Seq(X)
        BY <1>3, <2>1, <2>3, <2>6
      <3>2. QED
        BY <2>2, <2>4, <2>6, <3>1
    <2>7. QED
      BY <2>5, <2>6
  <1> HIDE DEF f, X
  <1>4. N \in G
    <2>1. \A p \in N..N : p = N
      BY <1>0
    <2>2. \A p \in (N + 1)..N : FALSE
      BY <1>0
    <2>3. N \in 1..N
      BY <1>0
    <2> HIDE DEF N
    <2>4. f[N] \in Seq(X)
      BY <1>3, <2>2, <2>3
    <2>5. QED
      BY <2>1, <2>3, <2>4
  <1>5. ASSUME NEW q \in 1..(N - 1), q + 1 \in G
        PROVE  q \in G
    <2>1. q \in 1..N /\ \A p \in q..N : p = q \/ p \in (q + 1)..N
      BY <1>0
    <2> HIDE DEF N
    <2>2. f[q] \in Seq(X)
      BY <1>3, <1>5, <2>1
    <2>3. QED
      BY <1>5, <2>1, <2>2
  <1>6. 1 \in G
    <2> HIDE DEF N
    <2>1. N \in G /\ G \in SUBSET (1..N) /\ \A q \in 1..(N - 1) : q + 1 \in G => q \in G
      BY <1>4, <1>5
    <2> HIDE DEF G
    <2>2. G = 1..N
      BY <1>0, <2>1, Downwards
    <2>3. QED
      BY <1>0, <2>2
  <1>7. \A p \in 1..N : p \in 1..N /\ f[p] \in Seq(X)
    BY <1>6
  <1>8. QED
    BY <1>7 DEF f, X

\* The requests from one line on are that of the first frame and those behind it.
LEMMA ListedAt ==
  ASSUME NEW S, Counted(S), NEW s \in Seq(S), NEW p \in 1..(Len(s) + 1)
  PROVE  LET d == DecodeFrame(Arrived(s, p))
             f == FrameOf(Arrived(s, p), d)
             args == CmdArgs(f)
             rest == Listed(s)[p + d.pos]
         IN  /\ d.st = "ok" => rest \in Seq(Asks(s))
             /\ d.st = "ok" /\ ~IsRequest(f) => Listed(s)[p] = <<(<<>>)>> \o rest
             /\ d.st = "ok" /\ IsRequest(f) /\ args = <<>> => Listed(s)[p] = rest
             /\ d.st = "ok" /\ IsRequest(f) /\ args # <<>> =>
                  /\ args[1] = "QUIT" /\ Parses(args) => Listed(s)[p] = <<args>>
                  /\ ~(args[1] = "QUIT" /\ Parses(args)) => Listed(s)[p] = <<args>> \o rest
  <1> DEFINE b == Arrived(s, p)
             d == DecodeFrame(b)
             f == FrameOf(b, d)
             args == CmdArgs(f)
             rest == Listed(s)[p + d.pos]
  <1>1. d.st = "ok" => p + d.pos \in (p + 1)..(Len(s) + 1)
    BY FirstFrameEnds
  <1>2. d.st = "ok" => p + d.pos \in 1..(Len(s) + 1)
    BY <1>1
  <1>3. d.st = "ok" => rest \in Seq(Asks(s))
    BY <1>2, ListedIsSequence
  <1>4. Listed(s)[p] = IF FirstAsks(b).ends THEN FirstAsks(b).asks
                       ELSE FirstAsks(b).asks \o rest
    BY ListedEquation DEF Request
  <1>5. d.st = "ok" =>
          /\ ~IsRequest(f) => FirstAsks(b).asks = <<(<<>>)>> /\ ~FirstAsks(b).ends
          /\ IsRequest(f) /\ args = <<>> => FirstAsks(b).asks = <<>> /\ ~FirstAsks(b).ends
          /\ IsRequest(f) /\ args # <<>> =>
               /\ FirstAsks(b).asks = <<args>>
               /\ FirstAsks(b).ends <=> args[1] = "QUIT" /\ Parses(args)
    BY FirstRequest
  <1> HIDE DEF rest, args, b
  <1>6. d.st = "ok" => <<>> \o rest = rest
    BY <1>3
  <1>7. /\ d.st = "ok" => rest \in Seq(Asks(s))
        /\ d.st = "ok" /\ ~IsRequest(f) => Listed(s)[p] = <<(<<>>)>> \o rest
        /\ d.st = "ok" /\ IsRequest(f) /\ args = <<>> => Listed(s)[p] = rest
        /\ d.st = "ok" /\ IsRequest(f) /\ args # <<>> =>
             /\ args[1] = "QUIT" /\ Parses(args) => Listed(s)[p] = <<args>>
             /\ ~(args[1] = "QUIT" /\ Parses(args)) => Listed(s)[p] = <<args>> \o rest
    BY <1>3, <1>4, <1>5, <1>6
  <1>8. QED
    BY <1>7 DEF rest, args, b

\* From place n of A on come the elements of B, and nothing else.
Follows(A, n, B) == Len(A) = n + Len(B) /\ \A i \in 1..Len(B) : A[n + i] = B[i]

LEMMA FollowsOn ==
  ASSUME NEW A, NEW n \in Nat, NEW X, NEW B \in Seq(X), NEW r, Follows(A, n, <<r>> \o B)
  PROVE  n + 1 <= Len(A) /\ A[n + 1] = r /\ Follows(A, n + 1, B)
  <1>1. <<r>> \in Seq({r}) /\ Len(B) \in Nat
    OBVIOUS
  <1>2. /\ Len(<<r>> \o B) = 1 + Len(B) /\ (<<r>> \o B)[1] = r
        /\ \A i \in 1..Len(B) : (<<r>> \o B)[1 + i] = B[i]
    OBVIOUS
  <1>3. Len(A) = n + (1 + Len(B)) /\ \A i \in 1..(1 + Len(B)) : A[n + i] = (<<r>> \o B)[i]
    BY <1>2 DEF Follows
  <1>4. A[n + 1] = r
    BY <1>1, <1>2, <1>3
  <1>5. ASSUME NEW i \in 1..Len(B)
        PROVE  A[(n + 1) + i] = B[i]
    <2>1. 1 + i \in 1..(1 + Len(B)) /\ n + (1 + i) = (n + 1) + i
      BY <1>1
    <2>2. QED
      BY <1>2, <1>3, <2>1
  <1>6. QED
    BY <1>1, <1>3, <1>4, <1>5 DEF Follows

-----------------------------------------------------------------------------
(* One connection.                                                         *)

IsConn(k) ==
  k = [stream |-> k.stream, taken |-> k.taken, buf |-> k.buf, index |-> k.index, pc |-> k.pc,
       out |-> k.out, then |-> k.then, got |-> k.got, base |-> k.base, skip |-> k.skip]

Lines(k) == {k.stream[j] : j \in DOMAIN k.stream}

\* Its buffer holds the last lines it received since it was cleared; it has an
\* answer under way when it writes, and only then or at its end.
ConnOK(k) ==
  /\ IsConn(k)
  /\ k.stream \in Seq(Lines(k)) /\ Counted(Lines(k))
  /\ k.pc \in {"reading", "parsing", "writing", "closed"}
  /\ k.then \in {"parsing", "clear", "closed"}
  /\ k.taken \in 0..Len(k.stream) /\ k.base \in Nat /\ k.skip \in Nat
  /\ k.buf \in Seq(Lines(k)) /\ k.base <= k.taken - Len(k.buf)
  /\ k.buf = SubSeq(k.stream, k.taken - Len(k.buf) + 1, k.taken)
  /\ (\E Y : k.got \in Seq(Y)) /\ k.skip <= Len(k.got)
  /\ k.pc = "writing" => \E r : k.out = <<r>>
  /\ k.pc \in {"reading", "parsing"} => k.out = <<>>

\* What it was sent since the buffer was cleared, and the line of it that is next.
Since(k) == SubSeq(k.stream, k.base + 1, Len(k.stream))
Place(k) == k.taken - Len(k.buf) - k.base + 1
Count(k) == Len(k.got) - k.skip

\* The answers it has given are those it owes; those it owes still, the one under
\* way aside, are to the requests from the next line on.
InOrder(k) ==
  LET A == Requests(Since(k))
      n == Count(k)
      rest == Listed(Since(k))[Place(k)]
  IN  /\ n <= Len(A) /\ \A j \in 1..n : k.got[k.skip + j].req = A[j]
      /\ k.pc \in {"reading", "parsing"} => Follows(A, n, rest)
      /\ k.pc = "writing" /\ k.then # "clear" => n + 1 <= Len(A) /\ A[n + 1] = k.out[1].req
      /\ k.pc = "writing" /\ k.then = "parsing" => Follows(A, n + 1, rest)

Onward(t, m) == SubSeq(t, m + 1, Len(t))
Between(t, m, n) == SubSeq(t, m + 1, n)

\* x is what there is of t after m and up to n.
IsStretch(x, S, t, m, n) ==
  x \in Seq(S) /\ Len(x) = n - m /\ \A i \in 1..(n - m) : x[i] = t[m + i]

LEMMA StretchOf ==
  ASSUME NEW S, NEW t \in Seq(S), NEW m \in Nat, NEW n \in Nat, m <= n, n <= Len(t)
  PROVE  IsStretch(Between(t, m, n), S, t, m, n)
  <1>1. PICK a \in Nat : a = m + 1
    OBVIOUS
  <1>2. \A i \in a..n : i \in 1..Len(t) /\ t[i] \in S
    BY <1>1
  <1>3. SubSeq(t, a, n) = [i \in 1..(n - a + 1) |-> t[i + a - 1]]
    BY <1>1
  <1>4. n - a + 1 = n - m /\ n - m \in Nat
    BY <1>1
  <1>5. SubSeq(t, a, n) = [i \in 1..(n - m) |-> t[i + a - 1]]
    BY <1>3, <1>4
  <1>6. \A i \in 1..(n - m) : i + a - 1 \in a..n /\ i + a - 1 = m + i
    BY <1>1
  <1>7. SubSeq(t, a, n) \in Seq(S) /\ Len(SubSeq(t, a, n)) = n - m
    BY <1>2, <1>4, <1>5, <1>6
  <1>8. \A i \in 1..(n - m) : SubSeq(t, a, n)[i] = t[m + i]
    BY <1>5, <1>6
  <1>9. QED
    BY <1>1, <1>7, <1>8 DEF Between, IsStretch

LEMMA SamePlaces ==
  ASSUME NEW S, NEW x \in Seq(S), NEW y \in Seq(S), NEW n \in Nat, Len(x) = n, Len(y) = n,
         \A i \in 1..n : x[i] = y[i]
  PROVE  x = y
  OBVIOUS

Splits(S, t, base, m, n) ==
  LET s == Onward(t, base)
  IN  /\ s \in Seq(S) /\ m - base + 1 \in 1..(Len(s) + 1)
      /\ Onward(t, n) \in Seq(S)
      /\ Arrived(s, m - base + 1) = Between(t, m, n) \o Onward(t, n)

\* The rest of the rest of a sequence, cut in two.
LEMMA RestOfRest ==
  ASSUME NEW S, NEW t \in Seq(S), NEW base \in Nat, NEW m \in Nat, NEW n \in Nat,
         base <= m, m <= n, n <= Len(t)
  PROVE  Splits(S, t, base, m, n)
  <1> DEFINE s == SubSeq(t, base + 1, Len(t))
             x == SubSeq(s, m - base + 1, Len(s))
             y == SubSeq(t, m + 1, n)
             z == SubSeq(t, n + 1, Len(t))
  <1>1. PICK L \in Nat : L = Len(t)
    OBVIOUS
  <1>2. PICK d \in Nat : d = m - base
    OBVIOUS
  <1>3. s \in Seq(S) /\ Len(s) = L - base /\ \A i \in 1..(L - base) : s[i] = t[base + i]
    BY <1>1, StretchOf DEF Between, IsStretch
  <1>4. z \in Seq(S) /\ Len(z) = L - n /\ \A i \in 1..(L - n) : z[i] = t[n + i]
    BY <1>1, StretchOf DEF Between, IsStretch
  <1>5. y \in Seq(S) /\ Len(y) = n - m /\ \A i \in 1..(n - m) : y[i] = t[m + i]
    BY <1>1, StretchOf DEF Between, IsStretch
  <1> HIDE DEF s, z, y
  <1>6. L - base \in Nat /\ d <= L - base /\ (L - base) - d = L - m
    BY <1>1, <1>2
  <1>7. SubSeq(s, d + 1, L - base) \in Seq(S) /\ Len(SubSeq(s, d + 1, L - base)) = (L - base) - d
        /\ \A i \in 1..((L - base) - d) : SubSeq(s, d + 1, L - base)[i] = s[d + i]
    BY <1>3, <1>6, StretchOf DEF Between, IsStretch
  <1>8. x = SubSeq(s, d + 1, L - base)
    BY <1>2, <1>3
  <1> HIDE DEF x
  <1>9. x \in Seq(S) /\ Len(x) = L - m /\ \A i \in 1..(L - m) : x[i] = t[m + i]
    <2>1. \A i \in 1..(L - m) : d + i \in 1..(L - base) /\ base + (d + i) = m + i
      BY <1>1, <1>2
    <2>2. QED
      BY <1>3, <1>6, <1>7, <1>8, <2>1
  <1>10. y \o z \in Seq(S) /\ Len(y \o z) = L - m
    BY <1>1, <1>4, <1>5
  <1>11. ASSUME NEW i \in 1..(L - m)
         PROVE  (y \o z)[i] = t[m + i]
    <2>1. CASE i <= n - m
      <3>1. i \in 1..Len(y)
        BY <1>5, <2>1
      <3>2. (y \o z)[i] = y[i]
        BY <1>4, <1>5, <3>1
      <3>3. QED
        BY <1>5, <3>1, <3>2
    <2>2. CASE ~(i <= n - m)
      <3>1. PICK j \in Nat : j = i - (n - m)
        BY <2>2
      <3>2. j \in 1..(L - n) /\ n + j = m + i
        BY <1>1, <2>2, <3>1
      <3>3. i \in (Len(y) + 1)..(Len(y) + Len(z)) /\ j = i - Len(y)
        BY <1>1, <1>4, <1>5, <2>2, <3>1
      <3>4. (y \o z)[i] = z[j]
        <4>1. y \in Seq(S) /\ z \in Seq(S)
          BY <1>4, <1>5
        <4>2. (y \o z)[i] = z[i - Len(y)]
          BY <3>3, <4>1
        <4>3. QED
          BY <3>3, <4>2
      <3>5. QED
        BY <1>4, <3>2, <3>4
    <2>3. QED
      BY <2>1, <2>2
  <1>12. x = y \o z
    <2>0. L - m \in Nat
      BY <1>1
    <2>1. PICK N \in Nat : N = L - m
      BY <2>0
    <2>2. /\ x \in Seq(S) /\ Len(x) = N /\ y \o z \in Seq(S) /\ Len(y \o z) = N
          /\ \A i \in 1..N : x[i] = (y \o z)[i]
      BY <1>9, <1>10, <1>11, <2>1
    <2>3. QED
      BY <2>2, SamePlaces
  <1>13. m - base + 1 \in 1..(Len(s) + 1)
    BY <1>1, <1>3
  <1>14. QED
    BY <1>3, <1>4, <1>12, <1>13 DEF s, x, y, z, Splits, Onward, Between, Arrived

LEMMA BufferIsNext ==
  ASSUME NEW k, ConnOK(k)
  PROVE  /\ Since(k) \in Seq(Lines(k)) /\ Onward(k.stream, k.taken) \in Seq(Lines(k))
         /\ Place(k) \in 1..(Len(Since(k)) + 1)
         /\ Arrived(Since(k), Place(k)) = k.buf \o Onward(k.stream, k.taken)
  <1>1. /\ k.stream \in Seq(Lines(k)) /\ k.taken \in 0..Len(k.stream) /\ k.base \in Nat
        /\ Len(k.buf) \in Nat /\ k.base <= k.taken - Len(k.buf)
        /\ k.buf = SubSeq(k.stream, k.taken - Len(k.buf) + 1, k.taken)
    BY DEF ConnOK
  <1>2. PICK m \in Int : m = k.taken - Len(k.buf)
    BY <1>1
  <1>3. m \in Nat /\ k.taken \in Nat /\ k.base <= m /\ m <= k.taken /\ k.taken <= Len(k.stream)
    BY <1>1, <1>2
  <1>4. /\ k.buf = Between(k.stream, m, k.taken) /\ Place(k) = m - k.base + 1
        /\ Since(k) = Onward(k.stream, k.base)
    BY <1>1, <1>2 DEF Place, Between, Since, Onward
  <1>5. Splits(Lines(k), k.stream, k.base, m, k.taken)
    <2>1. /\ k.stream \in Seq(Lines(k)) /\ k.base \in Nat /\ k.taken \in Nat /\ m \in Nat
          /\ k.base <= m /\ m <= k.taken /\ k.taken <= Len(k.stream)
      BY <1>1, <1>3
    <2>2. QED
      BY <2>1, RestOfRest, Zenon
  <1>6. QED
    BY <1>4, <1>5 DEF Splits

RestsFrom(t, m, r, n) == Onward(Between(t, m, n), r - m) = Between(t, r, n)

LEMMA RestOfStretch ==
  ASSUME NEW S, NEW t \in Seq(S), NEW m \in Nat, NEW n \in Nat, NEW r \in Nat,
         m <= r, r <= n, n <= Len(t)
  PROVE  RestsFrom(t, m, r, n)
  <1>0. r - m \in Nat
    OBVIOUS
  <1>8. PICK p \in Nat : p = r - m /\ r = m + p
    BY <1>0
  <1> DEFINE y == Between(t, m, n)
             x == SubSeq(y, p + 1, Len(y))
             z == Between(t, r, n)
  <1>1. y \in Seq(S) /\ Len(y) = n - m /\ \A i \in 1..(n - m) : y[i] = t[m + i]
    <2>1. IsStretch(y, S, t, m, n)
      BY StretchOf
    <2>2. QED
      BY <2>1 DEF IsStretch
  <1>2. z \in Seq(S) /\ Len(z) = n - r /\ \A i \in 1..(n - r) : z[i] = t[r + i]
    <2>1. IsStretch(z, S, t, r, n)
      BY StretchOf
    <2>2. QED
      BY <2>1 DEF IsStretch
  <1>3. PICK N \in Nat : N = n - m /\ p <= N /\ N - p = n - r
    BY <1>8
  <1> HIDE DEF y, z
  <1>4. x = Between(y, p, N) /\ Len(y) = N
    BY <1>1, <1>3 DEF Between
  <1> HIDE DEF x
  <1>5. x \in Seq(S) /\ Len(x) = N - p /\ \A i \in 1..(N - p) : x[i] = y[p + i]
    <2>1. IsStretch(x, S, y, p, N)
      BY <1>1, <1>3, <1>4, StretchOf
    <2>2. QED
      BY <1>1, <1>3, <1>4, <2>1 DEF IsStretch
  <1>6. \A i \in 1..(N - p) : x[i] = z[i]
    <2>1. ASSUME NEW i \in 1..(N - p)
          PROVE  x[i] = z[i]
      <3>1. p + i \in 1..N /\ m + (p + i) = r + i
        BY <1>3, <1>8
      <3>2. QED
        BY <1>1, <1>2, <1>3, <1>5, <3>1
    <2>2. QED
      BY <2>1
  <1>7. QED
    <2>0. N - p \in Nat
      BY <1>3
    <2>1. PICK M \in Nat : M = N - p
      BY <2>0
    <2>2. x = z
      BY <1>2, <1>3, <1>5, <1>6, <2>1, SamePlaces
    <2>3. QED
      BY <1>8, <2>2 DEF x, y, z, Onward, RestsFrom

LEMMA StretchesJoin ==
  ASSUME NEW S, NEW t \in Seq(S), NEW m \in Nat, NEW n \in Nat, NEW r \in Nat,
         m <= r, r <= n, n <= Len(t)
  PROVE  Between(t, m, r) \o Between(t, r, n) = Between(t, m, n)
  <1>12. PICK x, y, z : x = Between(t, m, n) /\ y = Between(t, m, r) /\ z = Between(t, r, n)
    OBVIOUS
  <1>0. r - m \in Nat /\ n - r \in Nat
    OBVIOUS
  <1>10. PICK a \in Nat : a = r - m
    BY <1>0
  <1>11. PICK e \in Nat : e = n - r
    BY <1>0
  <1>1. y \in Seq(S) /\ Len(y) = a /\ \A i \in 1..a : y[i] = t[m + i]
    <2>1. IsStretch(y, S, t, m, r)
      BY <1>12, StretchOf
    <2>2. QED
      BY <1>10, <2>1 DEF IsStretch
  <1>2. z \in Seq(S) /\ Len(z) = e /\ \A i \in 1..e : z[i] = t[r + i]
    <2>1. IsStretch(z, S, t, r, n)
      BY <1>12, StretchOf
    <2>2. QED
      BY <1>11, <2>1 DEF IsStretch
  <1>3. x \in Seq(S) /\ Len(x) = a + e /\ \A i \in 1..(a + e) : x[i] = t[m + i]
    <2>1. IsStretch(x, S, t, m, n)
      BY <1>12, StretchOf
    <2>2. QED
      BY <1>10, <1>11, <2>1 DEF IsStretch
  <1>13. y \in Seq(S) /\ z \in Seq(S) /\ Len(y) = a /\ Len(z) = e
    BY <1>1, <1>2
  <1>4. y \o z \in Seq(S) /\ Len(y \o z) = a + e
    BY <1>13
  <1>5. ASSUME NEW i \in 1..(a + e)
        PROVE  (y \o z)[i] = t[m + i]
    <2>1. CASE i <= a
      <3>1. i \in 1..Len(y)
        BY <1>1, <2>1
      <3>2. (y \o z)[i] = y[i]
        BY <1>1, <1>2, <3>1
      <3>3. QED
        BY <1>1, <3>1, <3>2
    <2>2. CASE ~(i <= a)
      <3>0. i - a \in Nat
        BY <2>2
      <3>1. PICK j \in Nat : j = i - a
        BY <3>0
      <3>2. j \in 1..e /\ r + j = m + i
        BY <1>10, <2>2, <3>1
      <3>3. i \in (Len(y) + 1)..(Len(y) + Len(z)) /\ j = i - Len(y)
        BY <1>1, <1>2, <2>2, <3>1
      <3>4. (y \o z)[i] = z[j]
        <4>1. y \in Seq(S) /\ z \in Seq(S)
          BY <1>13
        <4>2. (y \o z)[i] = z[i - Len(y)]
          BY <3>3, <4>1
        <4>3. QED
          BY <3>3, <4>2
      <3>5. QED
        BY <1>2, <3>2, <3>4
    <2>3. QED
      BY <2>1, <2>2
  <1>6. a + e \in Nat
    OBVIOUS
  <1>7. PICK N \in Nat : N = a + e
    BY <1>6
  <1>8. y \o z = x
    <2>1. /\ y \o z \in Seq(S) /\ x \in Seq(S) /\ Len(y \o z) = N /\ Len(x) = N
          /\ \A i \in 1..N : (y \o z)[i] = x[i]
      BY <1>3, <1>4, <1>5, <1>7
    <2>2. QED
      BY <2>1, SamePlaces, SMTT(20)
  <1>9. QED
    BY <1>8, <1>12

LEMMA FrontOfBoth ==
  ASSUME NEW S, NEW b \in Seq(S), NEW w \in Seq(S), NEW p \in 1..Len(b)
  PROVE  SubSeq(b \o w, 1, p) = SubSeq(b, 1, p)
  <1>1. p \in Nat /\ p <= Len(b) /\ Len(b) <= Len(b \o w) /\ b \o w \in Seq(S)
    OBVIOUS
  <1>2. PICK z : z = b \o w
    OBVIOUS
  <1>3. \A i \in 1..p : z[i] = b[i]
    BY <1>2
  <1>4. SubSeq(z, 1, p) = [i \in 1..p |-> z[i]] /\ SubSeq(b, 1, p) = [i \in 1..p |-> b[i]]
    BY <1>1, <1>2
  <1>5. QED
    BY <1>2, <1>3, <1>4

-----------------------------------------------------------------------------
(* What the steps of a connection do to it.                                *)

\* The buffer is the stretch that ends with what was received last.
LEMMA BufferIsStretch ==
  ASSUME NEW k, ConnOK(k)
  PROVE  \E m \in Nat : /\ m = k.taken - Len(k.buf) /\ k.base <= m /\ m <= k.taken
                        /\ k.taken \in Nat /\ k.taken <= Len(k.stream)
                        /\ k.stream \in Seq(Lines(k)) /\ k.base \in Nat
                        /\ k.buf \in Seq(Lines(k)) /\ Len(k.buf) \in Nat
                        /\ k.buf = Between(k.stream, m, k.taken)
  <1>1. /\ k.stream \in Seq(Lines(k)) /\ k.taken \in 0..Len(k.stream) /\ k.base \in Nat
        /\ k.buf \in Seq(Lines(k)) /\ k.base <= k.taken - Len(k.buf)
        /\ k.buf = SubSeq(k.stream, k.taken - Len(k.buf) + 1, k.taken)
    BY DEF ConnOK
  <1>2. Len(k.buf) \in Nat
    BY <1>1
  <1>3. PICK m \in Int : m = k.taken - Len(k.buf)
    BY <1>1, <1>2
  <1>4. m \in Nat /\ k.base <= m /\ m <= k.taken
    BY <1>1, <1>2, <1>3
  <1>5. k.buf = Between(k.stream, m, k.taken)
    BY <1>1, <1>3 DEF Between
  <1>6. QED
    BY <1>1, <1>2, <1>3, <1>4, <1>5

\* What parse_frame finds in the buffer is what is next of what was sent.
LEMMA FrameIsNext ==
  ASSUME NEW k, ConnOK(k), DecodeFrame(k.buf).st = "ok"
  PROVE  LET d == DecodeFrame(k.buf)
             b == Arrived(Since(k), Place(k))
         IN  /\ DecodeFrame(b) = d /\ FrameOf(b, d) = FrameOf(k.buf, d)
             /\ d.pos \in 1..Len(k.buf)
  <1> DEFINE S == Lines(k)
             d == DecodeFrame(k.buf)
             w == Onward(k.stream, k.taken)
  <1>1. Counted(S) /\ k.buf \in Seq(S)
    BY DEF ConnOK
  <1>2. w \in Seq(S) /\ Arrived(Since(k), Place(k)) = k.buf \o w
    BY BufferIsNext
  <1> HIDE DEF S, w
  <1>3. DecodeFrame(k.buf \o w) = d /\ d.pos \in 1..Len(k.buf)
    BY <1>1, <1>2, FramesAreDecided
  <1>4. SubSeq(k.buf \o w, 1, d.pos) = SubSeq(k.buf, 1, d.pos)
    BY <1>1, <1>2, <1>3, FrontOfBoth
  <1>5. QED
    BY <1>2, <1>3, <1>4 DEF FrameOf

\* It is taken off the buffer, and nothing else is.
LEMMA FrameIsTaken ==
  ASSUME NEW k, ConnOK(k), DecodeFrame(k.buf).st = "ok", NEW k2,
         k2.stream = k.stream, k2.taken = k.taken, k2.base = k.base,
         k2.buf = After(k.buf, DecodeFrame(k.buf))
  PROVE  /\ k2.buf \in Seq(Lines(k)) /\ Len(k2.buf) \in Nat
         /\ k2.base <= k2.taken - Len(k2.buf)
         /\ k2.buf = SubSeq(k2.stream, k2.taken - Len(k2.buf) + 1, k2.taken)
         /\ Lines(k2) = Lines(k) /\ Since(k2) = Since(k)
         /\ Place(k2) = Place(k) + DecodeFrame(k.buf).pos
  <1>1. PICK p \in Nat : p = DecodeFrame(k.buf).pos /\ p \in 1..Len(k.buf)
    BY FrameIsNext
  <1>2. PICK m \in Nat : /\ m = k.taken - Len(k.buf) /\ k.base <= m /\ m <= k.taken
                         /\ k.taken \in Nat /\ k.taken <= Len(k.stream)
                         /\ k.stream \in Seq(Lines(k)) /\ k.base \in Nat
                         /\ k.buf \in Seq(Lines(k)) /\ Len(k.buf) \in Nat
                         /\ k.buf = Between(k.stream, m, k.taken)
    BY BufferIsStretch
  <1>3. PICK n \in Nat, base \in Nat, L \in Nat : n = k.taken /\ base = k.base /\ L = Len(k.buf)
    BY <1>2
  <1>17. PICK S, t : S = Lines(k) /\ t = k.stream
    OBVIOUS
  <1>4. PICK r \in Nat : r = m + p
    OBVIOUS
  <1>5. p <= L /\ m = n - L /\ base <= m
    BY <1>1, <1>2, <1>3
  <1>18. m <= r /\ r <= n /\ base <= r
    BY <1>4, <1>5
  <1>6. t \in Seq(S) /\ m <= r /\ r <= n /\ n <= Len(t)
    BY <1>2, <1>3, <1>17, <1>18
  <1>7. Onward(Between(t, m, n), p) = Between(t, r, n)
    <2>1. RestsFrom(t, m, r, n)
      BY <1>6, RestOfStretch
    <2>2. r - m = p
      BY <1>4
    <2>3. QED
      BY <2>1, <2>2 DEF RestsFrom
  <1>8. k2.buf = Between(t, r, n)
    BY <1>1, <1>2, <1>3, <1>7, <1>17 DEF After, Onward
  <1>9. IsStretch(Between(t, r, n), S, t, r, n)
    BY <1>6, StretchOf
  <1>10. k2.buf \in Seq(S) /\ Len(k2.buf) = n - r
    BY <1>8, <1>9 DEF IsStretch
  <1>11. n - Len(k2.buf) = r
    BY <1>6, <1>10
  <1>12. k2.buf = SubSeq(k2.stream, k2.taken - Len(k2.buf) + 1, k2.taken)
    BY <1>3, <1>8, <1>11, <1>17 DEF Between
  <1>13. k2.base <= k2.taken - Len(k2.buf)
    BY <1>3, <1>11, <1>18
  <1>14. Place(k2) = Place(k) + p
    <2>1. Place(k) = n - L - base + 1
      BY <1>3 DEF Place
    <2>2. Place(k2) = r - base + 1
      BY <1>3, <1>11 DEF Place
    <2>3. QED
      BY <1>4, <1>5, <2>1, <2>2
  <1>15. Lines(k2) = Lines(k) /\ Since(k2) = Since(k)
    BY DEF Lines, Since
  <1>16. QED
    BY <1>1, <1>3, <1>6, <1>10, <1>12, <1>13, <1>14, <1>15, <1>17

\* A step that does not touch the bytes.
LEMMA BytesStay ==
  ASSUME NEW k, NEW k2, k2.stream = k.stream, k2.taken = k.taken, k2.base = k.base,
         k2.buf = k.buf
  PROVE  Lines(k2) = Lines(k) /\ Since(k2) = Since(k) /\ Place(k2) = Place(k)
  BY DEF Lines, Since, Place

\* read_buf.
LEMMA ReadKeeps ==
  ASSUME NEW k, ConnOK(k), InOrder(k), k.pc = "reading",
         NEW n \in (k.taken + 1)..Len(k.stream), NEW k2,
         k2 = [k EXCEPT !.taken = n, !.pc = "parsing",
                        !.buf = k.buf \o SubSeq(k.stream, k.taken + 1, n)]
  PROVE  ConnOK(k2) /\ InOrder(k2)
  <1>1. /\ IsConn(k2) /\ k2.stream = k.stream /\ k2.taken = n /\ k2.pc = "parsing"
        /\ k2.buf = k.buf \o SubSeq(k.stream, k.taken + 1, n) /\ k2.out = k.out
        /\ k2.then = k.then /\ k2.got = k.got /\ k2.base = k.base /\ k2.skip = k.skip
    BY DEF ConnOK, IsConn
  <1>2. PICK m \in Nat : /\ m = k.taken - Len(k.buf) /\ k.base <= m /\ m <= k.taken
                         /\ k.taken \in Nat /\ k.taken <= Len(k.stream)
                         /\ k.stream \in Seq(Lines(k)) /\ k.base \in Nat
                         /\ k.buf \in Seq(Lines(k)) /\ Len(k.buf) \in Nat
                         /\ k.buf = Between(k.stream, m, k.taken)
    BY BufferIsStretch
  <1>3. PICK r, base, L : r = k.taken /\ base = k.base /\ L = Len(k.stream)
    OBVIOUS
  <1>4. PICK S, t : S = Lines(k) /\ t = k.stream
    OBVIOUS
  <1>5. /\ n \in Nat /\ m <= r /\ r <= n /\ m <= n /\ n <= Len(t) /\ t \in Seq(S) /\ base <= m
        /\ r \in Nat /\ base \in Nat /\ L \in Nat
    BY <1>2, <1>3, <1>4
  <1>6. Between(t, m, r) \o Between(t, r, n) = Between(t, m, n)
    BY <1>5, StretchesJoin
  <1>7. k2.buf = Between(t, m, n)
    BY <1>1, <1>2, <1>3, <1>4, <1>6 DEF Between
  <1>8. IsStretch(Between(t, m, n), S, t, m, n)
    BY <1>5, StretchOf
  <1>9. k2.buf \in Seq(S) /\ Len(k2.buf) = n - m
    BY <1>7, <1>8 DEF IsStretch
  <1>10. n - Len(k2.buf) = m
    BY <1>5, <1>9
  <1>11. Lines(k2) = S /\ Since(k2) = Since(k) /\ Place(k2) = Place(k)
    <2>1. Place(k) = m - base + 1 /\ Place(k2) = m - base + 1
      BY <1>1, <1>2, <1>3, <1>10 DEF Place
    <2>2. QED
      BY <1>1, <1>4, <2>1 DEF Lines, Since
  <1>12. k2.buf = SubSeq(k2.stream, k2.taken - Len(k2.buf) + 1, k2.taken)
    BY <1>1, <1>4, <1>7, <1>10 DEF Between
  <1>13. k2.base <= k2.taken - Len(k2.buf) /\ k2.taken \in 0..Len(k2.stream)
    BY <1>1, <1>3, <1>4, <1>5, <1>10
  <1>14. ConnOK(k2)
    <2>1. /\ k.stream \in Seq(S) /\ Counted(S) /\ k.then \in {"parsing", "clear", "closed"}
          /\ k.base \in Nat /\ k.skip \in Nat /\ (\E Y : k.got \in Seq(Y))
          /\ k.skip <= Len(k.got) /\ k.out = <<>>
      BY <1>4 DEF ConnOK
    <2>2. QED
      BY <1>1, <1>9, <1>11, <1>12, <1>13, <2>1 DEF ConnOK
  <1>15. InOrder(k2)
    BY <1>1, <1>11 DEF InOrder, Count
  <1>16. QED
    BY <1>14, <1>15

\* The task ends, or waits for more.
LEMMA PausesKeep ==
  ASSUME NEW k, ConnOK(k), InOrder(k), NEW k2, NEW pc, k2 = [k EXCEPT !.pc = pc],
         pc = "closed" \/ (pc = "reading" /\ k.pc = "parsing")
  PROVE  ConnOK(k2) /\ InOrder(k2)
  <1>1. /\ IsConn(k2) /\ k2.stream = k.stream /\ k2.taken = k.taken /\ k2.pc = pc
        /\ k2.buf = k.buf /\ k2.out = k.out
        /\ k2.then = k.then /\ k2.got = k.got /\ k2.base = k.base /\ k2.skip = k.skip
    BY DEF ConnOK, IsConn
  <1>2. Lines(k2) = Lines(k) /\ Since(k2) = Since(k) /\ Place(k2) = Place(k)
    BY <1>1, BytesStay
  <1>3. ConnOK(k2)
    BY <1>1, <1>2 DEF ConnOK
  <1>4. InOrder(k2)
    BY <1>1, <1>2 DEF InOrder, Count
  <1>5. QED
    BY <1>3, <1>4

\* A protocol error is under way.
LEMMA ProtocolErrorKeeps ==
  ASSUME NEW k, ConnOK(k), InOrder(k), k.pc = "parsing", NEW r, NEW k2,
         k2 = [k EXCEPT !.pc = "writing", !.then = "clear", !.out = <<r>>]
  PROVE  ConnOK(k2) /\ InOrder(k2)
  <1>1. /\ IsConn(k2) /\ k2.stream = k.stream /\ k2.taken = k.taken /\ k2.pc = "writing"
        /\ k2.buf = k.buf /\ k2.out = <<r>>
        /\ k2.then = "clear" /\ k2.got = k.got /\ k2.base = k.base /\ k2.skip = k.skip
    BY DEF ConnOK, IsConn
  <1>2. Lines(k2) = Lines(k) /\ Since(k2) = Since(k) /\ Place(k2) = Place(k)
    BY <1>1, BytesStay
  <1>3. ConnOK(k2)
    BY <1>1, <1>2 DEF ConnOK
  <1>4. InOrder(k2)
    BY <1>1, <1>2 DEF InOrder, Count
  <1>5. QED
    BY <1>3, <1>4

\* What a client asks for is a sequence.
LEMMA AskedIsSequence ==
  ASSUME NEW k, ConnOK(k)
  PROVE  /\ Requests(Since(k)) = Listed(Since(k))[1]
         /\ Len(Requests(Since(k))) \in Nat
  <1>1. Counted(Lines(k)) /\ Since(k) \in Seq(Lines(k))
    BY BufferIsNext DEF ConnOK
  <1>2. 1 \in 1..(Len(Since(k)) + 1)
    BY <1>1
  <1>3. Listed(Since(k))[1] \in Seq(Asks(Since(k)))
    BY <1>1, <1>2, ListedIsSequence
  <1>4. Requests(Since(k)) = Listed(Since(k))[1]
    BY <1>1, ListedEquation
  <1>5. QED
    BY <1>3, <1>4

\* The answer goes to the client.
GrownBy(new, old, r) ==
  /\ \E Z : new \in Seq(Z)
  /\ Len(new) = Len(old) + 1 /\ Len(old) \in Nat /\ Len(new) \in Nat
  /\ new[Len(old) + 1] = r
  /\ \A i \in 1..Len(old) : new[i] = old[i]

LEMMA GotGrows ==
  ASSUME NEW Y, NEW got \in Seq(Y), NEW r
  PROVE  GrownBy(got \o <<r>>, got, r)
  <1>1. got \in Seq(Y \cup {r}) /\ <<r>> \in Seq(Y \cup {r})
    OBVIOUS
  <1>2. got \o <<r>> \in Seq(Y \cup {r})
    BY <1>1
  <1>3. QED
    BY <1>1, <1>2 DEF GrownBy

\* write_all is done, and nothing was wrong with the protocol.
LEMMA WrittenKeeps ==
  ASSUME NEW k, ConnOK(k), InOrder(k), k.pc = "writing", k.then # "clear", NEW k2,
         k2 = [k EXCEPT !.pc = k.then, !.got = k.got \o k.out, !.out = <<>>]
  PROVE  ConnOK(k2) /\ InOrder(k2)
  <1>1. /\ IsConn(k2) /\ k2.stream = k.stream /\ k2.taken = k.taken /\ k2.pc = k.then
        /\ k2.buf = k.buf /\ k2.out = <<>>
        /\ k2.then = k.then /\ k2.got = k.got \o k.out /\ k2.base = k.base /\ k2.skip = k.skip
    BY DEF ConnOK, IsConn
  <1>2. Lines(k2) = Lines(k) /\ Since(k2) = Since(k) /\ Place(k2) = Place(k)
    BY <1>1, BytesStay
  <1>3. PICK r : k.out = <<r>>
    BY DEF ConnOK
  <1>4. PICK Y : k.got \in Seq(Y)
    BY DEF ConnOK
  <1>5. PICK g \in Nat : g = Len(k.got)
    BY <1>4
  <1>6. /\ (\E Z : k2.got \in Seq(Z)) /\ Len(k2.got) = g + 1 /\ g \in Nat
        /\ k2.got[g + 1] = r /\ \A i \in 1..g : k2.got[i] = k.got[i]
    <2>1. GrownBy(k2.got, k.got, r)
      BY <1>1, <1>3, <1>4, GotGrows
    <2>2. QED
      BY <1>5, <2>1 DEF GrownBy
  <1>7. k.skip \in Nat /\ k.skip <= g /\ k.then \in {"parsing", "closed"}
    BY <1>5 DEF ConnOK
  <1>11. PICK skip \in Nat : skip = k.skip /\ skip = k2.skip /\ skip <= g
    BY <1>1, <1>7
  <1>12. Len(k2.got) = g + 1
    BY <1>6
  <1>8. ConnOK(k2)
    <2>1. k2.skip <= Len(k2.got)
      <3>1. skip <= g + 1
        BY <1>11
      <3>2. QED
        BY <1>11, <1>12, <3>1, Zenon
    <2>2. QED
      BY <1>1, <1>2, <1>6, <1>7, <2>1 DEF ConnOK
  <1>9. InOrder(k2)
    <2> DEFINE A == Requests(Since(k))
               rest == Listed(Since(k))[Place(k)]
    <2>1. PICK n \in Nat : n = g - skip
      <3>1. g - skip \in Nat
        BY <1>11
      <3>2. QED
        BY <3>1
    <2>2. Count(k) = n /\ Count(k2) = n + 1 /\ k.skip + n = g
      <3>1. Count(k) = g - skip /\ Count(k2) = (g + 1) - skip
        BY <1>5, <1>11, <1>12 DEF Count
      <3>2. QED
        BY <1>11, <2>1, <3>1
    <2>3. /\ n + 1 <= Len(A) /\ A[n + 1] = r.req
          /\ \A j \in 1..n : k.got[k.skip + j].req = A[j]
          /\ k.then = "parsing" => Follows(A, n + 1, rest)
      BY <1>3, <2>2 DEF InOrder
    <2> HIDE DEF A, rest
    <2>4. ASSUME NEW j \in 1..(n + 1)
          PROVE  k2.got[k.skip + j].req = A[j]
      <3>1. CASE j = n + 1
        <4>1. k.skip + j = g + 1
          BY <1>6, <1>7, <2>2, <3>1
        <4>2. QED
          BY <1>6, <2>3, <3>1, <4>1
      <3>2. CASE j # n + 1
        <4>1. j \in 1..n /\ k.skip + j \in 1..g
          BY <1>6, <1>7, <2>2, <3>2
        <4>2. QED
          BY <1>6, <2>3, <4>1
      <3>3. QED
        BY <3>1, <3>2
    <2>5. k2.pc \in {"reading", "parsing"} => Follows(A, n + 1, rest)
      BY <1>1, <1>7, <2>3
    <2>6. k2.pc # "writing" /\ A = Requests(Since(k2)) /\ rest = Listed(Since(k2))[Place(k2)]
      BY <1>1, <1>2, <1>7 DEF A, rest
    <2>7. QED
      BY <1>1, <2>2, <2>3, <2>4, <2>5, <2>6, ZenonT(30) DEF InOrder
  <1>10. QED
    BY <1>8, <1>9

\* write_all is done, and buf.clear() follows.
LEMMA ClearKeeps ==
  ASSUME NEW k, ConnOK(k), InOrder(k), k.pc = "writing", NEW k2,
         k2 = [k EXCEPT !.pc = "reading", !.got = k.got \o k.out, !.out = <<>>,
                        !.buf = <<>>, !.base = k.taken, !.skip = Len(k.got \o k.out)]
  PROVE  ConnOK(k2) /\ InOrder(k2)
  <1>1. /\ IsConn(k2) /\ k2.stream = k.stream /\ k2.taken = k.taken /\ k2.pc = "reading"
        /\ k2.buf = <<>> /\ k2.out = <<>> /\ k2.then = k.then /\ k2.got = k.got \o k.out
        /\ k2.base = k.taken /\ k2.skip = Len(k.got \o k.out)
    BY DEF ConnOK, IsConn
  <1>2. PICK r : k.out = <<r>>
    BY DEF ConnOK
  <1>3. PICK Y : k.got \in Seq(Y)
    BY DEF ConnOK
  <1>4. (\E Z : k2.got \in Seq(Z)) /\ Len(k2.got) \in Nat /\ k2.skip = Len(k2.got)
    <2>1. GrownBy(k2.got, k.got, r)
      BY <1>1, <1>2, <1>3, GotGrows
    <2>2. QED
      BY <1>1, <2>1 DEF GrownBy
  <1>5. k.stream \in Seq(Lines(k)) /\ k.taken \in 0..Len(k.stream) /\ Counted(Lines(k))
        /\ k.then \in {"parsing", "clear", "closed"}
    BY DEF ConnOK
  <1>6. Lines(k2) = Lines(k)
    BY <1>1 DEF Lines
  <1>7. PICK n \in Nat, L \in Nat : n = k.taken /\ L = Len(k.stream) /\ n <= L
    BY <1>5
  <1>8. <<>> \in Seq(Lines(k)) /\ Len(<<>>) = 0
    OBVIOUS
  <1>9. SubSeq(k.stream, n + 1, n) = <<>>
    <2>1. PICK S, t : S = Lines(k) /\ t = k.stream
      OBVIOUS
    <2>2. t \in Seq(S) /\ n <= n /\ n <= Len(t)
      BY <1>5, <1>7, <2>1
    <2>3. IsStretch(Between(t, n, n), S, t, n, n)
      BY <2>2, StretchOf
    <2>4. Between(t, n, n) \in Seq(S) /\ Len(Between(t, n, n)) = 0
      BY <2>3 DEF IsStretch
    <2>5. QED
      BY <2>1, <2>4 DEF Between
  <1>10. /\ k2.taken - Len(k2.buf) = n /\ k2.base = n /\ n <= n /\ k2.taken = n
         /\ k2.buf \in Seq(Lines(k2)) /\ k2.skip <= Len(k2.got) /\ k2.skip \in Nat
    <2>1. k2.buf \in Seq(Lines(k2)) /\ Len(k2.buf) = 0
      BY <1>1, <1>6, <1>8
    <2>2. PICK z \in Nat : z = Len(k2.got) /\ z = k2.skip
      BY <1>4
    <2>3. k2.taken = n /\ k2.base = n
      BY <1>1, <1>7
    <2>4. k2.taken - Len(k2.buf) = n
      BY <2>1, <2>3
    <2>5. QED
      <3>1. n <= n /\ z <= z
        OBVIOUS
      <3>2. QED
        BY <2>1, <2>2, <2>3, <2>4, <3>1, Zenon
  <1>11. ConnOK(k2)
    <2>1. k2.buf = SubSeq(k2.stream, k2.taken - Len(k2.buf) + 1, k2.taken)
      BY <1>1, <1>7, <1>9, <1>10
    <2>2. k2.base <= k2.taken - Len(k2.buf) /\ k2.base \in Nat
          /\ k2.taken \in 0..Len(k2.stream)
      BY <1>1, <1>7, <1>10
    <2>3. QED
      BY <1>1, <1>4, <1>5, <1>6, <1>10, <2>1, <2>2 DEF ConnOK
  <1>12. InOrder(k2)
    <2> DEFINE A == Requests(Since(k2))
    <2>1. A = Listed(Since(k2))[1] /\ Len(A) \in Nat
      BY <1>11, AskedIsSequence
    <2>2. Place(k2) = 1 /\ Count(k2) = 0
      BY <1>4, <1>10 DEF Place, Count
    <2> HIDE DEF A
    <2>3. Follows(A, 0, A)
      BY <2>1 DEF Follows
    <2>4. 0 <= Len(A) /\ (\A j \in 1..0 : FALSE) /\ k2.pc # "writing"
      BY <1>1, <2>1
    <2>5. QED
      BY <2>1, <2>2, <2>3, <2>4 DEF InOrder, A
  <1>13. QED
    BY <1>11, <1>12

\* A frame is taken off the buffer, and an answer r may be under way for it: the
\* request it makes is the first of those that are owed still.
LEMMA FrameKeeps ==
  ASSUME NEW k, ConnOK(k), InOrder(k), k.pc = "parsing", DecodeFrame(k.buf).st = "ok",
         NEW k2, IsConn(k2), k2.stream = k.stream, k2.taken = k.taken,
         k2.buf = After(k.buf, DecodeFrame(k.buf)),
         k2.got = k.got, k2.base = k.base, k2.skip = k.skip,
         LET rest == Listed(Since(k))[Place(k)]
             next == Listed(Since(k))[Place(k) + DecodeFrame(k.buf).pos]
         IN  \/ k2.pc = "parsing" /\ k2.out = <<>> /\ k2.then = k.then /\ rest = next
             \/ \E r : /\ k2.pc \in {"writing", "closed"} /\ k2.out = <<r>>
                       /\ k2.then = "parsing" /\ rest = <<r.req>> \o next
             \/ \E r : /\ k2.pc = "writing" /\ k2.out = <<r>>
                       /\ k2.then = "closed" /\ rest = <<r.req>>
  PROVE  ConnOK(k2) /\ InOrder(k2)
  <1> DEFINE d == DecodeFrame(k.buf)
             A == Requests(Since(k))
             rest == Listed(Since(k))[Place(k)]
             next == Listed(Since(k))[Place(k) + d.pos]
  <1>1. /\ k2.buf \in Seq(Lines(k)) /\ Len(k2.buf) \in Nat
        /\ k2.base <= k2.taken - Len(k2.buf)
        /\ k2.buf = SubSeq(k2.stream, k2.taken - Len(k2.buf) + 1, k2.taken)
        /\ Lines(k2) = Lines(k) /\ Since(k2) = Since(k)
        /\ Place(k2) = Place(k) + d.pos
    BY FrameIsTaken
  <1>2. next \in Seq(Asks(Since(k)))
    <2>1. Counted(Lines(k)) /\ Since(k) \in Seq(Lines(k))
          /\ Place(k) \in 1..(Len(Since(k)) + 1)
      BY BufferIsNext DEF ConnOK
    <2>2. DecodeFrame(Arrived(Since(k), Place(k))) = d
      BY FrameIsNext
    <2> HIDE DEF d
    <2>3. DecodeFrame(Arrived(Since(k), Place(k))).st = "ok"
      BY <2>2 DEF d
    <2>4. Listed(Since(k))[Place(k) + DecodeFrame(Arrived(Since(k), Place(k))).pos]
            \in Seq(Asks(Since(k)))
      BY <2>1, <2>3, ListedAt
    <2>5. QED
      BY <2>2, <2>4
  <1>3. Count(k) \in Nat /\ Count(k2) = Count(k)
    <2>1. k.skip \in Nat /\ k.skip <= Len(k.got) /\ Len(k.got) \in Nat
      BY DEF ConnOK
    <2>2. QED
      BY <2>1 DEF Count
  <1>4. /\ Count(k) <= Len(A) /\ \A j \in 1..Count(k) : k.got[k.skip + j].req = A[j]
        /\ Follows(A, Count(k), rest)
    BY DEF InOrder
  <1>5. /\ \/ k2.pc = "parsing" /\ k2.out = <<>> /\ k2.then = k.then
           \/ k2.pc \in {"writing", "closed"} /\ \E r : k2.out = <<r>>
        /\ k2.then \in {"parsing", "clear", "closed"}
    BY DEF ConnOK
  <1>6. ConnOK(k2)
    <2>1. /\ k.stream \in Seq(Lines(k)) /\ Counted(Lines(k)) /\ k.taken \in 0..Len(k.stream)
          /\ k.base \in Nat /\ k.skip \in Nat /\ (\E Y : k.got \in Seq(Y))
          /\ k.skip <= Len(k.got)
      BY DEF ConnOK
    <2>2. QED
      BY <1>1, <1>5, <2>1 DEF ConnOK
  <1>7. A = Requests(Since(k2)) /\ next = Listed(Since(k2))[Place(k2)]
    BY <1>1
  <1>8. \/ k2.pc = "parsing" /\ k2.out = <<>> /\ k2.then = k.then /\ rest = next
        \/ \E r : /\ k2.pc \in {"writing", "closed"} /\ k2.out = <<r>>
                  /\ k2.then = "parsing" /\ rest = <<r.req>> \o next
        \/ \E r : /\ k2.pc = "writing" /\ k2.out = <<r>>
                  /\ k2.then = "closed" /\ rest = <<r.req>>
    OBVIOUS
  <1>9. PICK n \in Nat : n = Count(k)
    BY <1>3
  <1>10. k2.got[k2.skip] = k.got[k.skip] /\ n <= Len(A)
         /\ \A j \in 1..n : k2.got[k2.skip + j].req = A[j]
    BY <1>4, <1>9
  <1> HIDE DEF rest, next, A, d
  <1>11. ASSUME k2.pc = "parsing", rest = next
         PROVE  InOrder(k2)
    <2>1. Follows(A, n, next) /\ Count(k2) = n
      BY <1>3, <1>4, <1>9, <1>11
    <2>2. k2.pc # "writing"
      BY <1>11
    <2>3. /\ Count(k2) <= Len(Requests(Since(k2)))
          /\ \A j \in 1..Count(k2) : k2.got[k2.skip + j].req = Requests(Since(k2))[j]
          /\ Follows(Requests(Since(k2)), Count(k2), Listed(Since(k2))[Place(k2)])
      BY <1>7, <1>10, <2>1
    <2>4. QED
      BY <2>2, <2>3 DEF InOrder
  <1>12. ASSUME NEW r, k2.pc \in {"writing", "closed"}, k2.out = <<r>>,
                k2.then = "parsing", rest = <<r.req>> \o next
         PROVE  InOrder(k2)
    <2>1. PICK X, q : X = Asks(Since(k)) /\ q = r.req
      OBVIOUS
    <2>2. next \in Seq(X) /\ Follows(A, n, <<q>> \o next)
      BY <1>2, <1>4, <1>9, <1>12, <2>1
    <2>3. n + 1 <= Len(A) /\ A[n + 1] = q /\ Follows(A, n + 1, next)
      BY <2>2, FollowsOn
    <2>4. k2.out[1].req = q
      BY <1>12, <2>1
    <2>5. QED
      BY <1>3, <1>7, <1>9, <1>10, <1>12, <2>3, <2>4 DEF InOrder
  <1>13. ASSUME NEW r, k2.pc = "writing", k2.out = <<r>>,
                k2.then = "closed", rest = <<r.req>>
         PROVE  InOrder(k2)
    <2>1. PICK q : q = r.req
      OBVIOUS
    <2>2. Len(A) = n + 1 /\ A[n + 1] = q
      <3>1. Len(<<q>>) = 1 /\ (<<q>>)[1] = q /\ 1 \in 1..1
        OBVIOUS
      <3>2. Follows(A, n, <<q>>)
        BY <1>4, <1>9, <1>13, <2>1
      <3>3. QED
        BY <3>1, <3>2 DEF Follows
    <2>3. k2.out[1].req = q /\ n + 1 <= Len(A)
      BY <1>13, <2>1, <2>2
    <2>4. Count(k2) = n /\ k2.pc \notin {"reading", "parsing"} /\ k2.then # "parsing"
      BY <1>3, <1>9, <1>13
    <2>5. A[n + 1] = k2.out[1].req
      BY <2>2, <2>3
    <2>6. /\ Count(k2) <= Len(Requests(Since(k2)))
          /\ \A j \in 1..Count(k2) : k2.got[k2.skip + j].req = Requests(Since(k2))[j]
          /\ Count(k2) + 1 <= Len(Requests(Since(k2)))
          /\ Requests(Since(k2))[Count(k2) + 1] = k2.out[1].req
      BY <1>7, <1>10, <2>3, <2>4, <2>5
    <2>7. QED
      BY <2>4, <2>6 DEF InOrder
  <1>14. InOrder(k2)
    <2>1. CASE k2.pc = "parsing" /\ k2.out = <<>> /\ k2.then = k.then /\ rest = next
      BY <1>11, <2>1
    <2>2. CASE \E r : /\ k2.pc \in {"writing", "closed"} /\ k2.out = <<r>>
                      /\ k2.then = "parsing" /\ rest = <<r.req>> \o next
      <3>1. PICK r : /\ k2.pc \in {"writing", "closed"} /\ k2.out = <<r>>
                     /\ k2.then = "parsing" /\ rest = <<r.req>> \o next
        BY <2>2
      <3>2. QED
        BY <1>12, <3>1
    <2>3. CASE \E r : /\ k2.pc = "writing" /\ k2.out = <<r>>
                      /\ k2.then = "closed" /\ rest = <<r.req>>
      <3>1. PICK r : /\ k2.pc = "writing" /\ k2.out = <<r>>
                     /\ k2.then = "closed" /\ rest = <<r.req>>
        BY <2>3
      <3>2. QED
        BY <1>13, <3>1
    <2>4. QED
      BY <1>8, <2>1, <2>2, <2>3
  <1>15. QED
    BY <1>6, <1>14

\* The frame in the buffer makes the first of the requests that are owed still.
LEMMA OwedNext ==
  ASSUME NEW k, ConnOK(k), DecodeFrame(k.buf).st = "ok"
  PROVE  LET f == FrameOf(k.buf, DecodeFrame(k.buf))
             rest == Listed(Since(k))[Place(k)]
             next == Listed(Since(k))[Place(k) + DecodeFrame(k.buf).pos]
         IN  /\ ~IsRequest(f) => rest = <<(<<>>)>> \o next
             /\ IsRequest(f) /\ CmdArgs(f) = <<>> => rest = next
             /\ IsRequest(f) /\ CmdArgs(f) # <<>> =>
                  /\ CmdArgs(f)[1] = "QUIT" /\ Parses(CmdArgs(f)) => rest = <<CmdArgs(f)>>
                  /\ ~(CmdArgs(f)[1] = "QUIT" /\ Parses(CmdArgs(f))) =>
                       rest = <<CmdArgs(f)>> \o next
  <1>1. PICK S, s, p : S = Lines(k) /\ s = Since(k) /\ p = Place(k)
    OBVIOUS
  <1>2. Counted(S) /\ s \in Seq(S) /\ p \in 1..(Len(s) + 1)
    BY <1>1, BufferIsNext DEF ConnOK
  <1>3. PICK b, d : b = Arrived(s, p) /\ d = DecodeFrame(k.buf)
    OBVIOUS
  <1>4. DecodeFrame(b) = d /\ FrameOf(b, d) = FrameOf(k.buf, d) /\ d.st = "ok"
    BY <1>1, <1>3, FrameIsNext
  <1>5. PICK f, args : f = FrameOf(k.buf, d) /\ args = CmdArgs(f)
    OBVIOUS
  <1>6. LET e == DecodeFrame(Arrived(s, p))
            g == FrameOf(Arrived(s, p), e)
            rest == Listed(s)[p + e.pos]
        IN  /\ e.st = "ok" /\ ~IsRequest(g) => Listed(s)[p] = <<(<<>>)>> \o rest
            /\ e.st = "ok" /\ IsRequest(g) /\ CmdArgs(g) = <<>> => Listed(s)[p] = rest
            /\ e.st = "ok" /\ IsRequest(g) /\ CmdArgs(g) # <<>> =>
                 /\ CmdArgs(g)[1] = "QUIT" /\ Parses(CmdArgs(g)) => Listed(s)[p] = <<CmdArgs(g)>>
                 /\ ~(CmdArgs(g)[1] = "QUIT" /\ Parses(CmdArgs(g))) =>
                      Listed(s)[p] = <<CmdArgs(g)>> \o rest
    BY <1>2, ListedAt
  <1>7. /\ ~IsRequest(f) => Listed(s)[p] = <<(<<>>)>> \o Listed(s)[p + d.pos]
        /\ IsRequest(f) /\ args = <<>> => Listed(s)[p] = Listed(s)[p + d.pos]
        /\ IsRequest(f) /\ args # <<>> =>
             /\ args[1] = "QUIT" /\ Parses(args) => Listed(s)[p] = <<args>>
             /\ ~(args[1] = "QUIT" /\ Parses(args)) =>
                  Listed(s)[p] = <<args>> \o Listed(s)[p + d.pos]
    BY <1>3, <1>4, <1>5, <1>6
  <1>8. QED
    BY <1>1, <1>3, <1>5, <1>7

-----------------------------------------------------------------------------
(* All connections.                                                        *)

ServerInv ==
  /\ conn = [c \in Clients |-> conn[c]]
  /\ \A c \in Clients : ConnOK(conn[c]) /\ InOrder(conn[c])

LEMMA OneMoves ==
  ASSUME ServerInv, NEW c \in Clients, NEW k, conn' = [conn EXCEPT ![c] = k],
         ConnOK(k), InOrder(k)
  PROVE  ServerInv'
  <1>1. /\ conn' = [e \in Clients |-> conn'[e]] /\ conn'[c] = k
        /\ \A e \in Clients : e # c => conn'[e] = conn[e]
    BY DEF ServerInv
  <1>2. \A e \in Clients : ConnOK(conn'[e]) /\ InOrder(conn'[e])
    BY <1>1 DEF ServerInv
  <1>3. QED
    BY <1>1, <1>2 DEF ServerInv

LEMMA SocketKeeps ==
  ASSUME ServerInv, NEW c \in Clients
  PROVE  /\ Read(c) => ServerInv'
         /\ Written(c) => ServerInv'
         /\ EndOfStream(c) => ServerInv'
         /\ ConnectionLost(c) => ServerInv'
         /\ FramePanics(c) => ServerInv'
         /\ NeedMore(c) => ServerInv'
         /\ ProtocolError(c) => ServerInv'
  <1> DEFINE k == conn[c]
  <1>1. ConnOK(k) /\ InOrder(k) /\ IsConn(k) /\ conn = [e \in Clients |-> conn[e]]
    BY DEF ServerInv, ConnOK
  <1>2. ASSUME Read(c)
        PROVE  ServerInv'
    <2>1. PICK n \in (k.taken + 1)..Len(k.stream) :
            conn' = [conn EXCEPT ![c].taken = n, ![c].pc = "parsing",
                       ![c].buf = @ \o SubSeq(k.stream, k.taken + 1, n)]
      BY <1>2 DEF Read
    <2> DEFINE k2 == [k EXCEPT !.taken = n, !.pc = "parsing",
                               !.buf = k.buf \o SubSeq(k.stream, k.taken + 1, n)]
    <2>2. conn' = [conn EXCEPT ![c] = k2]
      BY <1>1, <2>1 DEF IsConn
    <2>3. k.pc = "reading"
      BY <1>2 DEF Read
    <2>4. ConnOK(k2) /\ InOrder(k2)
      BY <1>1, <2>3, ReadKeeps
    <2> HIDE DEF k2
    <2>5. QED
      BY <2>2, <2>4, OneMoves
  <1>3. ASSUME Written(c)
        PROVE  ServerInv'
    <2>1. k.pc = "writing" /\ k.then \in {"parsing", "clear", "closed"}
      BY <1>1, <1>3 DEF Written, ConnOK
    <2>2. CASE k.then # "clear"
      <3> DEFINE k2 == [k EXCEPT !.pc = k.then, !.got = k.got \o k.out, !.out = <<>>]
      <3>1. conn' = [conn EXCEPT ![c] = k2]
        BY <1>1, <1>3, <2>2 DEF Written, IsConn
      <3>2. ConnOK(k2) /\ InOrder(k2)
        BY <1>1, <2>1, <2>2, WrittenKeeps
      <3> HIDE DEF k2
      <3>3. QED
        BY <3>1, <3>2, OneMoves
    <2>3. CASE k.then = "clear"
      <3> DEFINE k2 == [k EXCEPT !.pc = "reading", !.got = k.got \o k.out, !.out = <<>>,
                                 !.buf = <<>>, !.base = k.taken, !.skip = Len(k.got \o k.out)]
      <3>1. conn' = [conn EXCEPT ![c] = k2]
        BY <1>1, <1>3, <2>3 DEF Written, IsConn
      <3>2. ConnOK(k2) /\ InOrder(k2)
        BY <1>1, <2>1, ClearKeeps
      <3> HIDE DEF k2
      <3>3. QED
        BY <3>1, <3>2, OneMoves
    <2>4. QED
      BY <2>2, <2>3
  <1>4. ASSUME EndOfStream(c) \/ ConnectionLost(c) \/ FramePanics(c)
        PROVE  ServerInv'
    <2> DEFINE k2 == [k EXCEPT !.pc = "closed"]
    <2>1. conn' = [conn EXCEPT ![c] = k2]
      BY <1>1, <1>4 DEF EndOfStream, ConnectionLost, FramePanics, IsConn
    <2>2. ConnOK(k2) /\ InOrder(k2)
      BY <1>1, PausesKeep
    <2> HIDE DEF k2
    <2>3. QED
      BY <2>1, <2>2, OneMoves
  <1>5. ASSUME NeedMore(c)
        PROVE  ServerInv'
    <2> DEFINE k2 == [k EXCEPT !.pc = "reading"]
    <2>1. conn' = [conn EXCEPT ![c] = k2] /\ k.pc = "parsing"
      BY <1>1, <1>5 DEF NeedMore, IsConn
    <2>2. ConnOK(k2) /\ InOrder(k2)
      BY <1>1, <2>1, PausesKeep
    <2> HIDE DEF k2
    <2>3. QED
      BY <2>1, <2>2, OneMoves
  <1>6. ASSUME ProtocolError(c)
        PROVE  ServerInv'
    <2>0. PICK r : r = [req |-> <<>>, db |-> k.index, reply |-> Err("PROTOCOL")]
      OBVIOUS
    <2> DEFINE k2 == [k EXCEPT !.pc = "writing", !.then = "clear", !.out = <<r>>]
    <2>1. conn' = [conn EXCEPT ![c] = k2] /\ k.pc = "parsing"
      BY <1>1, <1>6, <2>0 DEF ProtocolError, IsConn
    <2>2. ConnOK(k2) /\ InOrder(k2)
      BY <1>1, <2>1, ProtocolErrorKeeps
    <2> HIDE DEF k2
    <2>3. QED
      BY <2>1, <2>2, OneMoves
  <1>7. QED
    BY <1>2, <1>3, <1>4, <1>5, <1>6

\* An answer to the frame in the buffer.
LEMMA RespondKeeps ==
  ASSUME ServerInv, NEW c \in Clients, HasFrame(c), NEW req, NEW i, NEW reply,
         Respond(c, req, i, reply),
         Listed(Since(conn[c]))[Place(conn[c])]
           = <<req>> \o Listed(Since(conn[c]))[Place(conn[c]) + Parsed(c).pos]
  PROVE  ServerInv'
  <1> DEFINE k == conn[c]
  <1>1. ConnOK(k) /\ InOrder(k) /\ IsConn(k) /\ conn = [e \in Clients |-> conn[e]]
    BY DEF ServerInv, ConnOK
  <1>2. k.pc = "parsing" /\ DecodeFrame(k.buf).st = "ok" /\ Rest(c) = After(k.buf, DecodeFrame(k.buf))
        /\ Parsed(c) = DecodeFrame(k.buf)
    BY DEF HasFrame, Rest, Parsed
  <1>3. PICK r, b, pc : /\ r = [req |-> req, db |-> k.index, reply |-> reply] /\ b = Rest(c)
                        /\ pc = IF reply = Panic THEN "closed" ELSE "writing"
    OBVIOUS
  <1> DEFINE k2 == [k EXCEPT !.buf = b, !.index = i, !.pc = pc, !.out = <<r>>,
                             !.then = "parsing"]
  <1>4. conn' = [conn EXCEPT ![c] = k2]
    BY <1>1, <1>3 DEF Respond, IsConn
  <1>9. PICK z : z = k2
    OBVIOUS
  <1>5. /\ IsConn(z) /\ z.stream = k.stream /\ z.taken = k.taken /\ z.buf = b
        /\ z.got = k.got /\ z.base = k.base /\ z.skip = k.skip
        /\ z.pc = pc /\ z.out = <<r>> /\ z.then = "parsing"
    BY <1>1, <1>9 DEF IsConn
  <1>6. r.req = req /\ pc \in {"writing", "closed"}
    BY <1>3
  <1>7. ConnOK(k2) /\ InOrder(k2)
    <2>2. /\ IsConn(z) /\ z.stream = k.stream /\ z.taken = k.taken
          /\ z.buf = After(k.buf, DecodeFrame(k.buf))
          /\ z.got = k.got /\ z.base = k.base /\ z.skip = k.skip
          /\ z.pc \in {"writing", "closed"} /\ z.out = <<r>> /\ z.then = "parsing"
      BY <1>2, <1>3, <1>5, <1>6
    <2>3. Listed(Since(k))[Place(k)]
            = <<r.req>> \o Listed(Since(k))[Place(k) + DecodeFrame(k.buf).pos]
      BY <1>2, <1>6
    <2>4. ConnOK(z) /\ InOrder(z)
      BY <1>1, <1>2, <2>2, <2>3, FrameKeeps
    <2>5. QED
      BY <1>9, <2>4
  <1> HIDE DEF k2
  <1>8. QED
    BY <1>4, <1>7, OneMoves

LEMMA FramesKeep ==
  ASSUME ServerInv, NEW c \in Clients
  PROVE  /\ NotARequest(c) => ServerInv'
         /\ EmptyRequest(c) => ServerInv'
         /\ Quit(c) => ServerInv'
         /\ ParseError(c) => ServerInv'
         /\ ExecuteRequest(c) => ServerInv'
  <1> DEFINE k == conn[c]
             d == DecodeFrame(k.buf)
             rest == Listed(Since(k))[Place(k)]
             next == Listed(Since(k))[Place(k) + d.pos]
  <1>1. ConnOK(k) /\ InOrder(k) /\ IsConn(k) /\ conn = [e \in Clients |-> conn[e]]
    BY DEF ServerInv, ConnOK
  <1>2. /\ HasFrame(c) => k.pc = "parsing" /\ d.st = "ok"
        /\ Parsed(c) = d /\ Rest(c) = After(k.buf, d)
        /\ TheFrame(c) = FrameOf(k.buf, d) /\ Args(c) = CmdArgs(FrameOf(k.buf, d))
    BY DEF HasFrame, Rest, Parsed, TheFrame, Args
  <1>3. HasFrame(c) =>
          /\ ~IsRequest(TheFrame(c)) => rest = <<(<<>>)>> \o next
          /\ IsRequest(TheFrame(c)) /\ Args(c) = <<>> => rest = next
          /\ IsRequest(TheFrame(c)) /\ Args(c) # <<>> =>
               /\ Args(c)[1] = "QUIT" /\ Parses(Args(c)) => rest = <<Args(c)>>
               /\ ~(Args(c)[1] = "QUIT" /\ Parses(Args(c))) => rest = <<Args(c)>> \o next
    BY <1>1, <1>2, OwedNext
  <1>4. \A q : q = next => q = Listed(Since(k))[Place(k) + Parsed(c).pos]
    BY <1>2
  <1>5. ASSUME NotARequest(c)
        PROVE  ServerInv'
    <2>1. HasFrame(c) /\ Respond(c, <<>>, k.index, Err("PROTOCOL"))
          /\ rest = <<(<<>>)>> \o next
      BY <1>3, <1>5 DEF NotARequest
    <2>2. QED
      BY <1>2, <2>1, RespondKeeps
  <1>6. ASSUME ParseError(c)
        PROVE  ServerInv'
    <2>1. HasFrame(c) /\ Respond(c, Args(c), k.index, Err("PARSE"))
          /\ rest = <<Args(c)>> \o next
      BY <1>3, <1>6 DEF ParseError, HasRequest
    <2>2. QED
      BY <1>2, <2>1, RespondKeeps
  <1>7. ASSUME ExecuteRequest(c)
        PROVE  ServerInv'
    <2>1. PICK i, reply : Respond(c, Args(c), i, reply)
      BY <1>7 DEF ExecuteRequest
    <2>2. HasFrame(c) /\ rest = <<Args(c)>> \o next
      BY <1>3, <1>7 DEF ExecuteRequest, HasRequest
    <2>3. QED
      BY <1>2, <2>1, <2>2, RespondKeeps
  <1>8. ASSUME EmptyRequest(c)
        PROVE  ServerInv'
    <2>1. HasFrame(c) /\ rest = next
      BY <1>3, <1>8 DEF EmptyRequest
    <2>2. PICK b : b = Rest(c)
      OBVIOUS
    <2> DEFINE k2 == [k EXCEPT !.buf = b]
    <2>3. conn' = [conn EXCEPT ![c] = k2]
      BY <1>1, <1>8, <2>2 DEF EmptyRequest, IsConn
    <2>4. PICK z : z = k2
      OBVIOUS
    <2>5. /\ IsConn(z) /\ z.stream = k.stream /\ z.taken = k.taken /\ z.buf = b
          /\ z.got = k.got /\ z.base = k.base /\ z.skip = k.skip
          /\ z.pc = k.pc /\ z.out = k.out /\ z.then = k.then
      BY <1>1, <2>4 DEF IsConn
    <2>6. k.pc = "parsing" /\ d.st = "ok" /\ k.out = <<>>
      BY <1>1, <1>2, <2>1 DEF ConnOK
    <2>7. z.buf = After(k.buf, d) /\ z.pc = "parsing" /\ z.out = <<>>
      BY <1>2, <2>2, <2>5, <2>6
    <2>8. ConnOK(z) /\ InOrder(z)
      BY <1>1, <2>1, <2>5, <2>6, <2>7, FrameKeeps
    <2> HIDE DEF k2
    <2>9. QED
      BY <2>3, <2>4, <2>8, OneMoves
  <1>9. ASSUME Quit(c)
        PROVE  ServerInv'
    <2>1. HasFrame(c) /\ rest = <<Args(c)>>
      BY <1>3, <1>9 DEF Quit, HasRequest
    <2>2. PICK b, r : b = Rest(c) /\ r = [req |-> Args(c), db |-> k.index, reply |-> Ok]
      OBVIOUS
    <2> DEFINE k2 == [k EXCEPT !.buf = b, !.pc = "writing", !.then = "closed", !.out = <<r>>]
    <2>3. conn' = [conn EXCEPT ![c] = k2]
      BY <1>1, <1>9, <2>2 DEF Quit, IsConn
    <2>4. PICK z : z = k2
      OBVIOUS
    <2>5. /\ IsConn(z) /\ z.stream = k.stream /\ z.taken = k.taken /\ z.buf = b
          /\ z.got = k.got /\ z.base = k.base /\ z.skip = k.skip
          /\ z.pc = "writing" /\ z.out = <<r>> /\ z.then = "closed"
      BY <1>1, <2>4 DEF IsConn
    <2>6. k.pc = "parsing" /\ d.st = "ok"
      BY <1>2, <2>1
    <2>7. z.buf = After(k.buf, d) /\ r.req = Args(c)
      BY <1>2, <2>2, <2>5
    <2>10. rest = <<r.req>>
      BY <2>1, <2>7
    <2>8. ConnOK(z) /\ InOrder(z)
      BY <1>1, <2>5, <2>6, <2>7, <2>10, FrameKeeps
    <2> HIDE DEF k2
    <2>9. QED
      BY <2>3, <2>4, <2>8, OneMoves
  <1>10. QED
    BY <1>5, <1>6, <1>7, <1>8, <1>9

LEMMA ServerInvInit ==
  ASSUME ServerInit
  PROVE  ServerInv
  <1>1. PICK s \in [Clients -> UNION {Streams[c] : c \in Clients}] :
          /\ \A c \in Clients : s[c] \in Streams[c]
          /\ conn = [c \in Clients |-> Connected(s[c])]
    BY DEF ServerInit
  <1>2. ASSUME NEW c \in Clients
        PROVE  ConnOK(conn[c]) /\ InOrder(conn[c])
    <2>1. PICK k, t : k = conn[c] /\ t = s[c]
      OBVIOUS
    <2>2. /\ k = Connected(t) /\ t \in Streams[c]
      BY <1>1, <2>1
    <2>3. /\ k.stream = t /\ k.taken = 0 /\ k.buf = <<>> /\ k.pc = "reading" /\ k.out = <<>>
          /\ k.then = "parsing" /\ k.got = <<>> /\ k.base = 0 /\ k.skip = 0 /\ IsConn(k)
      BY <2>2 DEF Connected, IsConn
    <2>4. t \in Seq({t[j] : j \in DOMAIN t}) /\ \A j \in DOMAIN t : t[j].t = "array" => t[j].n \in Nat
      BY <2>2, StreamsAssumption
    <2>5. k.stream \in Seq(Lines(k)) /\ Counted(Lines(k))
      BY <2>3, <2>4 DEF Lines, Counted
    <2>6. Len(t) \in Nat /\ 0 \in 0..Len(t)
      BY <2>4
    <2>7. SubSeq(t, 0 + 1, 0) = <<>> /\ <<>> \in Seq(Lines(k)) /\ Len(<<>>) = 0
          /\ <<>> \in Seq({})
      OBVIOUS
    <2>8. k.taken - Len(k.buf) = 0 /\ k.taken = 0 /\ Count(k) = 0 /\ Place(k) = 1
      <3>1. Len(k.buf) = 0 /\ Len(k.got) = 0
        BY <2>3, <2>7
      <3>2. k.taken = 0 /\ k.base = 0 /\ k.skip = 0
        BY <2>3
      <3>3. k.taken - Len(k.buf) = 0
        BY <3>1, <3>2
      <3>4. Count(k) = 0
        BY <3>1, <3>2 DEF Count
      <3>5. Place(k) = 1
        BY <3>2, <3>3 DEF Place
      <3>6. QED
        BY <3>2, <3>3, <3>4, <3>5
    <2>9. ConnOK(k)
      <3>1. k.buf = SubSeq(k.stream, k.taken - Len(k.buf) + 1, k.taken)
        BY <2>3, <2>7, <2>8
      <3>2. (\E Y : k.got \in Seq(Y)) /\ k.skip <= Len(k.got) /\ k.buf \in Seq(Lines(k))
        BY <2>3, <2>7
      <3>3. k.taken \in 0..Len(k.stream) /\ k.base \in Nat /\ k.skip \in Nat
            /\ k.base <= k.taken - Len(k.buf)
        BY <2>3, <2>6, <2>8
      <3>4. QED
        BY <2>3, <2>5, <3>1, <3>2, <3>3 DEF ConnOK
    <2> DEFINE A == Requests(Since(k))
    <2>10. A = Listed(Since(k))[1] /\ Len(A) \in Nat
      BY <2>9, AskedIsSequence
    <2>11. InOrder(k)
      <3> HIDE DEF A
      <3>1. Follows(A, 0, A) /\ 0 <= Len(A) /\ \A j \in 1..0 : FALSE
        BY <2>10 DEF Follows
      <3>2. QED
        BY <2>3, <2>8, <2>10, <3>1 DEF InOrder, A
    <2>12. QED
      BY <2>1, <2>9, <2>11
  <1>3. conn = [c \in Clients |-> conn[c]]
    BY <1>1
  <1>4. QED
    BY <1>2, <1>3 DEF ServerInv

LEMMA ServerInvStep ==
  ASSUME ServerInv, [ServerNext]_svars
  PROVE  ServerInv'
  <1>1. CASE \E c \in Clients : Task(c) \/ EndOfStream(c) \/ ConnectionLost(c)
    <2>1. PICK c \in Clients : Task(c) \/ EndOfStream(c) \/ ConnectionLost(c)
      BY <1>1
    <2>2. CASE Read(c) \/ Written(c) \/ NeedMore(c) \/ ProtocolError(c) \/ FramePanics(c)
               \/ EndOfStream(c) \/ ConnectionLost(c)
      BY <2>2, SocketKeeps
    <2>3. CASE NotARequest(c) \/ EmptyRequest(c) \/ Quit(c) \/ ParseError(c) \/ ExecuteRequest(c)
      BY <2>3, FramesKeep
    <2>4. QED
      BY <2>1, <2>2, <2>3 DEF Task
  <1>2. CASE UNCHANGED conn
    BY <1>2 DEF ServerInv
  <1>3. QED
    BY <1>1, <1>2 DEF ServerNext, svars

-----------------------------------------------------------------------------
\* Every task is where handle_connection can be, with at most one answer under way,
\* and its buffer is what it received last.
THEOREM TasksAreWellFormed == ServerSpec => []ServerTypeOK
  <1>1. ServerInv => ServerTypeOK
    <2> SUFFICES ASSUME ServerInv, NEW c \in Clients
                 PROVE  LET k == conn[c]
                        IN  /\ k.pc \in {"reading", "parsing", "writing", "closed"}
                            /\ k.then \in {"parsing", "clear", "closed"}
                            /\ k.pc = "writing" => Len(k.out) = 1
                            /\ k.pc \in {"reading", "parsing"} => k.out = <<>>
                            /\ 0 <= k.skip /\ k.skip <= Len(k.got)
                            /\ 0 <= k.base /\ k.taken <= Len(k.stream)
                            /\ k.base <= k.taken - Len(k.buf)
                            /\ k.buf = SubSeq(k.stream, k.taken - Len(k.buf) + 1, k.taken)
      BY DEF ServerTypeOK
    <2>1. PICK k : k = conn[c]
      OBVIOUS
    <2>2. ConnOK(k)
      BY <2>1 DEF ServerInv
    <2>3. k.pc = "writing" => Len(k.out) = 1
      <3>1. k.pc = "writing" => \E r : k.out = <<r>>
        BY <2>2 DEF ConnOK
      <3>2. \A r : Len(<<r>>) = 1
        OBVIOUS
      <3>3. QED
        BY <3>1, <3>2
    <2>4. 0 <= k.skip /\ 0 <= k.base /\ k.taken <= Len(k.stream)
      BY <2>2 DEF ConnOK
    <2>5. QED
      BY <2>1, <2>2, <2>3, <2>4 DEF ConnOK
  <1>2. QED
    BY <1>1, ServerInvInit, ServerInvStep, PTL DEF ServerSpec

\* Between whichever lines its stream is cut and whatever the other clients do, a client is answered
\* the requests it sent, one each and in order.
THEOREM ClientsAreAnsweredInOrder == ServerSpec => []AnswersInOrder
  <1>1. ServerInv => AnswersInOrder
    <2> SUFFICES ASSUME ServerInv, NEW c \in Clients
                 PROVE  /\ Len(Answered(c)) <= Len(Asked(c))
                        /\ Answered(c) = SubSeq(Asked(c), 1, Len(Answered(c)))
      BY DEF AnswersInOrder
    <2>1. PICK k : k = conn[c]
      OBVIOUS
    <2>2. ConnOK(k) /\ InOrder(k)
      BY <2>1 DEF ServerInv
    <2>3. PICK A : A = Requests(Since(k))
      OBVIOUS
    <2>4. Asked(c) = A
      BY <2>1, <2>3 DEF Asked, Since
    <2>5. PICK n \in Nat : n = Count(k)
      <3>1. k.skip \in Nat /\ k.skip <= Len(k.got) /\ Len(k.got) \in Nat
        BY <2>2 DEF ConnOK
      <3>2. Count(k) \in Nat
        BY <3>1 DEF Count
      <3>3. QED
        BY <3>2
    <2>6. n <= Len(A) /\ \A j \in 1..n : k.got[k.skip + j].req = A[j]
      BY <2>2, <2>3, <2>5 DEF InOrder
    <2>7. Answered(c) = [j \in 1..n |-> k.got[k.skip + j].req]
      BY <2>1, <2>5 DEF Answered, Count
    <2>8. Answered(c) = [j \in 1..n |-> A[j]]
      BY <2>6, <2>7
    <2>9. Len(Answered(c)) = n
      BY <2>8
    <2>10. Len(A) \in Nat
      BY <2>2, <2>3, AskedIsSequence
    <2>11. SubSeq(A, 1, n) = [j \in 1..n |-> A[j]]
      BY <2>6, <2>10
    <2>12. QED
      BY <2>4, <2>6, <2>8, <2>9, <2>11
  <1>2. QED
    BY <1>1, ServerInvInit, ServerInvStep, PTL DEF ServerSpec
=============================================================================
