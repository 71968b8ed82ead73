---------------------------- MODULE ZSetsProofs ----------------------------
(***************************************************************************)
(* Sorted sets: the map and the skip list of each agree after every        *)
(* command, every reader answers from the one set of pairs, and every      *)
(* writer keeps the promise of Ranking, whatever the keys, the members,    *)
(* the scores, the heights that are drawn and the order of the commands.   *)
(***************************************************************************)
EXTENDS ZSetsProps, EffectProofs, SkipListProofs

-----------------------------------------------------------------------------
(* One sorted set.                                                         *)

ZOK(z) == z \in ZSetObjects /\ SkipOK(z.sl, PairsOf(z))

LEMMA ZSetShape ==
  ASSUME NEW z \in ZSetObjects
  PROVE  /\ z.type = "zset" /\ IsZSet(z) /\ z \in Objects /\ z # Absent
         /\ z.scores \in [Chunks -> Scores \cup {Absent}] /\ z.sl \in SkipLists
         /\ z = [type |-> "zset", scores |-> z.scores, sl |-> z.sl]
  BY AbsentAssumption DEF ZSetObjects, IsZSet, Objects

LEMMA ObjectShape ==
  ASSUME NEW o \in Objects, IsZSet(o)
  PROVE  o \in ZSetObjects
  BY DEF IsZSet, Objects, SeqObjects, HashObjects, SetObjects

\* A member has one pair, so the pairs are as many as the members.
LEMMA PairsShape ==
  ASSUME NEW z \in ZSetObjects
  PROVE  /\ PairsOf(z) \in SUBSET Nodes
         /\ Members(z) \in SUBSET Chunks
         /\ \A m \in Members(z) : z.scores[m] \in Scores /\ <<z.scores[m], m>> \in PairsOf(z)
         /\ \A p \in PairsOf(z) : p[2] \in Members(z) /\ p[1] = z.scores[p[2]] /\ p = <<p[1], p[2]>>
  <1>1. \A m \in Members(z) : m \in Chunks /\ z.scores[m] \in Scores
    BY ZSetShape DEF Members
  <1>2. \A m \in Members(z) : <<z.scores[m], m>> \in Nodes
    BY <1>1, NodeShape
  <1>3. \A p \in PairsOf(z) : \E m \in Members(z) : p = <<z.scores[m], m>>
    BY DEF PairsOf
  <1>4. \A m \in Members(z) : <<z.scores[m], m>> \in PairsOf(z)
    BY DEF PairsOf
  <1>5. QED
    BY <1>1, <1>2, <1>3, <1>4 DEF Members

LEMMA AsManyMembers ==
  ASSUME NEW z, ZOK(z)
  PROVE  /\ IsFiniteSet(PairsOf(z)) /\ IsFiniteSet(Members(z))
         /\ Cardinality(Members(z)) = Cardinality(PairsOf(z))
         /\ Cardinality(Members(z)) \in Nat
         /\ Members(z) = {} <=> PairsOf(z) = {}
  <1> DEFINE f == [p \in PairsOf(z) |-> p[2]]
  <1>1. z \in ZSetObjects /\ IsFiniteSet(PairsOf(z))
    BY DEF ZOK, SkipOK
  <1>2. f \in [PairsOf(z) -> Members(z)]
    BY <1>1, PairsShape
  <1>3. ASSUME NEW p \in PairsOf(z), NEW q \in PairsOf(z), f[p] = f[q]
        PROVE  p = q
    <2>1. p[2] = q[2] /\ p[1] = z.scores[p[2]] /\ q[1] = z.scores[q[2]]
          /\ p = <<p[1], p[2]>> /\ q = <<q[1], q[2]>>
      BY <1>1, <1>3, PairsShape
    <2>2. QED
      BY <2>1
  <1>4. ASSUME NEW m \in Members(z)
        PROVE  \E p \in PairsOf(z) : f[p] = m
    BY <1>1, <1>4, PairsShape
  <1> HIDE DEF f
  <1>5. ExistsBijection(PairsOf(z), Members(z))
    <2>1. f \in Injection(PairsOf(z), Members(z))
      BY <1>2, <1>3 DEF Injection, IsInjective
    <2>2. f \in Surjection(PairsOf(z), Members(z))
      BY <1>2, <1>4 DEF Surjection
    <2>3. QED
      BY <2>1, <2>2 DEF ExistsBijection, Bijection
  <1>6. IsFiniteSet(Members(z)) /\ Cardinality(Members(z)) = Cardinality(PairsOf(z))
    BY <1>1, <1>5, FS_Bijection
  <1>7. Cardinality(Members(z)) \in Nat
    BY <1>6, FS_CardinalityType
  <1>8. Members(z) = {} <=> PairsOf(z) = {}
    BY DEF PairsOf
  <1>9. QED
    BY <1>1, <1>6, <1>7, <1>8

LEMMA NewZSetOK == ZOK(NewZSet) /\ PairsOf(NewZSet) = {} /\ Members(NewZSet) = {}
  <1>1. Members(NewZSet) = {}
    BY DEF Members, NewZSet
  <1>2. PairsOf(NewZSet) = {}
    BY <1>1 DEF PairsOf
  <1>3. NewZSet.sl = NewSkipList /\ SkipOK(NewSkipList, {})
    BY NewSkipOK DEF NewZSet
  <1>4. NewSkipList \in SkipLists
    BY <1>3 DEF SkipOK
  <1>5. NewZSet \in ZSetObjects
    BY <1>4 DEF NewZSet, ZSetObjects
  <1>6. QED
    BY <1>1, <1>2, <1>3, <1>5 DEF ZOK

-----------------------------------------------------------------------------
(* ZSetInner.                                                              *)

\* remove takes the pair of the member out of both indices.
LEMMA RemovedMember ==
  ASSUME NEW z, ZOK(z), NEW m \in Chunks
  PROVE  /\ ZOK(RemoveMember(z, m))
         /\ Members(RemoveMember(z, m)) = Members(z) \ {m}
         /\ PairsOf(RemoveMember(z, m)) = Ranks!Drop(PairsOf(z), {m})
  <1> DEFINE w == RemoveMember(z, m)
  <1>1. z \in ZSetObjects /\ SkipOK(z.sl, PairsOf(z))
    BY DEF ZOK
  <1>2. /\ z.scores \in [Chunks -> Scores \cup {Absent}]
        /\ z = [type |-> "zset", scores |-> z.scores, sl |-> z.sl]
    BY <1>1, ZSetShape
  <1>3. CASE m \notin Members(z)
    <2>1. w = z
      BY <1>3 DEF RemoveMember
    <2>2. \A p \in PairsOf(z) : p[2] # m
      BY <1>1, <1>3, PairsShape
    <2>3. Ranks!Drop(PairsOf(z), {m}) = PairsOf(z)
      BY <2>2 DEF Ranks!Drop
    <2>4. QED
      BY <1>3, <2>1, <2>3
  <1>4. CASE m \in Members(z)
    <2> DEFINE x == <<z.scores[m], m>>
    <2>1. x \in PairsOf(z) /\ x \in Nodes
      BY <1>1, <1>4, PairsShape
    <2>2. w = [type |-> "zset", scores |-> [z.scores EXCEPT ![m] = Absent],
               sl |-> Remove(z.sl, x)]
      BY <1>1, <1>4 DEF RemoveMember, ZSetObjects
    <2>3. Members(w) = Members(z) \ {m}
      BY <1>2, <2>2 DEF Members
    <2>4. \A n \in Members(w) : w.scores[n] = z.scores[n]
      BY <1>2, <2>2, <2>3 DEF Members
    <2>5. PairsOf(w) = PairsOf(z) \ {x}
      <3>1. \A n \in Members(w) : n \in Members(z) /\ n # m
        BY <2>3
      <3>2. \A n \in Members(z) : n # m => n \in Members(w)
        BY <2>3
      <3>3. QED
        BY <2>4, <3>1, <3>2 DEF PairsOf
    <2>6. Ranks!Drop(PairsOf(z), {m}) = PairsOf(z) \ {x}
      <3>1. \A p \in PairsOf(z) : p[2] = m <=> p = x
        BY <1>1, PairsShape
      <3>2. QED
        BY <3>1 DEF Ranks!Drop
    <2>7. SkipOK(w.sl, PairsOf(w))
      BY <1>1, <2>1, <2>2, <2>5, RemoveOK
    <2>8. w \in ZSetObjects
      <3>1. w.sl \in SkipLists
        BY <2>7 DEF SkipOK
      <3>2. QED
        BY <1>2, <2>2, <3>1 DEF ZSetObjects
    <2>9. QED
      BY <2>3, <2>5, <2>6, <2>7, <2>8 DEF ZOK
  <1>5. QED
    BY <1>3, <1>4

\* add puts the pair in, and takes the pair the member had before out.
LEMMA AddedMember ==
  ASSUME NEW z, ZOK(z), NEW m \in Chunks, NEW s \in Scores, NEW height \in 1..MaxLevel
  PROVE  /\ ZOK(AddMember(z, m, s, height))
         /\ Members(AddMember(z, m, s, height)) = Members(z) \cup {m}
         /\ PairsOf(AddMember(z, m, s, height)) = Ranks!Put(PairsOf(z), s, m)
  <1> DEFINE w == AddMember(z, m, s, height)
             cleared == IF m \in Members(z) THEN Remove(z.sl, <<z.scores[m], m>>) ELSE z.sl
             Q == Ranks!Drop(PairsOf(z), {m})
             x == <<s, m>>
  <1>1. z \in ZSetObjects /\ SkipOK(z.sl, PairsOf(z))
    BY DEF ZOK
  <1>2. /\ z.scores \in [Chunks -> Scores \cup {Absent}]
        /\ z = [type |-> "zset", scores |-> z.scores, sl |-> z.sl]
    BY <1>1, ZSetShape
  <1>3. x \in Nodes
    BY NodeShape
  <1>4. SkipOK(cleared, Q)
    <2>1. CASE m \in Members(z)
      <3>1. <<z.scores[m], m>> \in Nodes
        BY <1>1, <2>1, PairsShape
      <3>2. Q = PairsOf(z) \ {<<z.scores[m], m>>}
        <4>1. \A p \in PairsOf(z) : p[2] = m <=> p = <<z.scores[m], m>>
          BY <1>1, PairsShape
        <4>2. QED
          BY <4>1 DEF Ranks!Drop
      <3>3. SkipOK(Remove(z.sl, <<z.scores[m], m>>), PairsOf(z) \ {<<z.scores[m], m>>})
        BY <1>1, <3>1, RemoveOK
      <3>4. cleared = Remove(z.sl, <<z.scores[m], m>>)
        BY <2>1
      <3> HIDE DEF cleared, Q
      <3>5. QED
        BY <3>2, <3>3, <3>4
    <2>2. CASE m \notin Members(z)
      <3>1. \A p \in PairsOf(z) : p[2] # m
        BY <1>1, <2>2, PairsShape
      <3>2. Q = PairsOf(z)
        BY <3>1 DEF Ranks!Drop
      <3>3. QED
        BY <1>1, <2>2, <3>2
    <2>3. QED
      BY <2>1, <2>2
  <1>5. w = [type |-> "zset", scores |-> [z.scores EXCEPT ![m] = s],
             sl |-> Insert(cleared, x, height)]
    <2>1. w = [z EXCEPT !.scores = [@ EXCEPT ![m] = s], !.sl = Insert(cleared, x, height)]
      BY DEF AddMember
    <2> HIDE DEF w, cleared, x
    <2>2. QED
      BY <1>1, <2>1 DEF ZSetObjects
  <1>6. s # Absent
    BY AbsentAssumption
  <1>7. Members(w) = Members(z) \cup {m}
    BY <1>2, <1>5, <1>6 DEF Members
  <1>8. w.scores[m] = s /\ \A n \in Members(z) : n # m => w.scores[n] = z.scores[n]
    BY <1>2, <1>5 DEF Members
  <1>9. PairsOf(w) = Q \cup {x}
    <2>1. \A p \in PairsOf(w) : p \in Q \cup {x}
      <3>1. ASSUME NEW p \in PairsOf(w)
            PROVE  p \in Q \cup {x}
        <4>1. PICK n \in Members(w) : p = <<w.scores[n], n>>
          BY DEF PairsOf
        <4>2. CASE n = m
          BY <1>8, <4>1, <4>2
        <4>3. CASE n # m
          <5>1. n \in Members(z) /\ p = <<z.scores[n], n>>
            BY <1>7, <1>8, <4>1, <4>3
          <5>2. p \in PairsOf(z) /\ p[2] # m
            BY <1>1, <4>3, <5>1, PairsShape
          <5>3. QED
            BY <5>2 DEF Ranks!Drop
        <4>4. QED
          BY <4>2, <4>3
      <3>2. QED
        BY <3>1
    <2>2. \A p \in Q : p \in PairsOf(w)
      <3>1. ASSUME NEW p \in Q
            PROVE  p \in PairsOf(w)
        <4>1. p \in PairsOf(z) /\ p[2] # m
          BY DEF Ranks!Drop
        <4>2. p[2] \in Members(z) /\ p = <<z.scores[p[2]], p[2]>>
          BY <1>1, <4>1, PairsShape
        <4>3. p[2] \in Members(w) /\ w.scores[p[2]] = z.scores[p[2]]
          BY <1>7, <1>8, <4>1, <4>2
        <4>4. QED
          BY <4>2, <4>3 DEF PairsOf
      <3>2. QED
        BY <3>1
    <2>3. x \in PairsOf(w)
      BY <1>7, <1>8 DEF PairsOf
    <2>4. QED
      BY <2>1, <2>2, <2>3
  <1>10. SkipOK(w.sl, PairsOf(w))
    <2>1. SkipOK(Insert(cleared, x, height), Q \cup {x})
      BY <1>3, <1>4, InsertOK
    <2> HIDE DEF cleared, Q, x
    <2>2. QED
      BY <1>5, <1>9, <2>1
  <1>11. w \in ZSetObjects
    <2>1. w.sl \in SkipLists
      BY <1>10 DEF SkipOK
    <2> HIDE DEF cleared
    <2>2. QED
      BY <1>2, <1>5, <2>1 DEF ZSetObjects
  <1>12. Ranks!Put(PairsOf(z), s, m) = Q \cup {x}
    BY DEF Ranks!Put
  <1>13. QED
    BY <1>7, <1>9, <1>10, <1>11, <1>12 DEF ZOK

-----------------------------------------------------------------------------
(* The order of the pairs.                                                 *)

\* The operators Ranking shares with the model.
LEMMA SameOperators ==
  /\ \A S : Ranks!Cardinality(S) = Cardinality(S)
  /\ \A n : Ranks!Num(n) = Num(n) /\ Ranks!Bulk(n) = Bulk(n) /\ Ranks!Err(n) = Err(n)
  <1>1. \A S : Ranks!Cardinality(S) = Cardinality(S)
    BY DEF Ranks!Cardinality, Cardinality
  <1>2. QED
    BY <1>1 DEF Ranks!Num, Num, Ranks!Bulk, Bulk, Ranks!Err, Err

LEMMA RankIsUnder ==
  ASSUME NEW P \in SUBSET Nodes, NEW p \in P
  PROVE  Ranks!RankIn(P, p) = Cardinality(Under(Up, P, p))
  <1>1. \A q \in P : Ranks!InFront(q, p) <=> <<q, p>> \in Up
    BY UpIsNodeLess DEF Ranks!InFront, NodeLess
  <1>2. {q \in P : Ranks!InFront(q, p)} = Under(Up, P, p)
    BY <1>1 DEF Under
  <1>3. QED
    BY <1>2, SameOperators DEF Ranks!RankIn

LEMMA RankOfPlace ==
  ASSUME NEW P \in SUBSET Nodes, IsFiniteSet(P)
  PROVE  /\ Cardinality(P) \in Nat
         /\ \A p \in P : Ranks!RankIn(P, p) \in 0..(Cardinality(P) - 1)
         /\ \A p, q \in P : Ranks!RankIn(P, p) = Ranks!RankIn(P, q) => p = q
         /\ \A j \in 1..Cardinality(P) :
              Line(Up, P)[j] \in P /\ Ranks!RankIn(P, Line(Up, P)[j]) = j - 1
         /\ \A p \in P : Line(Up, P)[Ranks!RankIn(P, p) + 1] = p
  <1> DEFINE s == Line(Up, P)
             n == Cardinality(P)
  <1>1. n \in Nat
    BY FS_CardinalityType
  <1>2. Orders(Up, P) /\ Lists(Up, s, P) /\ Len(s) = n
    BY UpOrders, LineLists
  <1>3. \A p \in P : Ranks!RankIn(P, p) \in 0..(n - 1)
    BY <1>2, RankIsUnder, RanksRise
  <1>4. ASSUME NEW p \in P, NEW q \in P, Ranks!RankIn(P, p) = Ranks!RankIn(P, q)
        PROVE  p = q
    <2>1. Cardinality(Under(Up, P, p)) = Cardinality(Under(Up, P, q))
      BY <1>4, RankIsUnder
    <2>2. QED
      BY <1>2, <2>1, RanksDiffer
  <1>5. \A j \in 1..n : s[j] \in P /\ Cardinality(Under(Up, P, s[j])) = j - 1
    <2>1. s \in Seq(P)
      BY <1>2 DEF Lists
    <2> HIDE DEF s
    <2>2. \A j \in 1..n : Cardinality(Under(Up, P, s[j])) = j - 1
      BY <1>2, ListsIsLine
    <2>3. \A j \in 1..n : s[j] \in P
      BY <1>2, <2>1
    <2>4. QED
      BY <2>2, <2>3
  <1> HIDE DEF s
  <1>6. \A j \in 1..n : s[j] \in P /\ Ranks!RankIn(P, s[j]) = j - 1
    BY <1>5, RankIsUnder
  <1>7. ASSUME NEW p \in P
        PROVE  s[Ranks!RankIn(P, p) + 1] = p
    <2> DEFINE j == Ranks!RankIn(P, p) + 1
    <2>1. j \in 1..n /\ Ranks!RankIn(P, p) = j - 1
      BY <1>1, <1>3
    <2> HIDE DEF j
    <2>2. s[j] \in P /\ Ranks!RankIn(P, s[j]) = Ranks!RankIn(P, p)
      BY <1>6, <2>1
    <2>3. s[j] = p
      BY <1>4, <2>2
    <2>4. QED
      BY <2>3 DEF j
  <1>8. QED
    BY <1>1, <1>3, <1>4, <1>6, <1>7 DEF s

LEMMA AscendingIsLine ==
  ASSUME NEW P \in SUBSET Nodes, IsFiniteSet(P)
  PROVE  /\ Ranks!Ascending(P) = Line(Up, P)
         /\ Lists(Up, Ranks!Ascending(P), P) /\ Len(Ranks!Ascending(P)) = Cardinality(P)
  <1> DEFINE s == Line(Up, P)
             n == Cardinality(P)
  <1>1. Lists(Up, s, P) /\ Len(s) = n /\ s = [j \in 1..n |-> s[j]]
    <2>1. Lists(Up, s, P) /\ Len(s) = n
      BY UpOrders, LineLists
    <2>2. s = [j \in 1..n |-> s[j]]
      BY DEF Line
    <2>3. QED
      BY <2>1, <2>2
  <1> HIDE DEF s
  <1>2. ASSUME NEW j \in 1..n
        PROVE  (CHOOSE p \in P : Ranks!RankIn(P, p) = j - 1) = s[j]
    <2>1. s[j] \in P /\ Ranks!RankIn(P, s[j]) = j - 1
      BY RankOfPlace DEF s
    <2>2. \A p \in P : Ranks!RankIn(P, p) = j - 1 => p = s[j]
      BY <2>1, RankOfPlace
    <2>3. QED
      BY <2>1, <2>2
  <1>3. Ranks!Ascending(P) = s
    BY <1>1, <1>2, SameOperators DEF Ranks!Ascending
  <1>4. QED
    BY <1>1, <1>3 DEF s

\* From the highest to the lowest.
Down == {p \in Nodes \X Nodes : NodeLess(p[2], p[1])}

LEMMA DownOrders ==
  ASSUME NEW S \in SUBSET Nodes
  PROVE  Orders(Down, S) /\ \A x, y \in S : <<x, y>> \in Down <=> <<y, x>> \in Up
  <1>1. \A x \in S : x \in Nodes
    OBVIOUS
  <1>2. \A x, y \in Nodes : <<x, y>> \in Down <=> NodeLess(y, x)
    BY DEF Down
  <1>3. Orders(Down, S)
    BY <1>1, <1>2, NodesCompare DEF Orders
  <1>4. QED
    BY <1>1, <1>2, <1>3, UpIsNodeLess

LEMMA TurnedLists ==
  ASSUME NEW P \in SUBSET Nodes, NEW s, Lists(Up, s, P)
  PROVE  Lists(Down, Reversed(s), P) /\ Len(Reversed(s)) = Len(s)
  <1> DEFINE n == Len(s)
             r == Reversed(s)
  <1>1. s \in Seq(P) /\ n \in Nat /\ \A j \in 1..n : s[j] \in P
    BY DEF Lists
  <1>2. r = [j \in 1..n |-> s[n + 1 - j]]
    BY DEF Reversed
  <1>3. \A j \in 1..n : n + 1 - j \in 1..n /\ n + 1 - (n + 1 - j) = j
    BY <1>1
  <1>4. r \in Seq(P) /\ Len(r) = n /\ \A j \in 1..n : r[j] = s[n + 1 - j]
    BY <1>1, <1>2, <1>3
  <1> HIDE DEF r
  <1>5. ASSUME NEW x \in P
        PROVE  \E j \in 1..n : r[j] = x
    <2>1. PICK i \in 1..n : s[i] = x
      BY DEF Lists
    <2>2. n + 1 - i \in 1..n /\ r[n + 1 - i] = x
      BY <1>3, <1>4, <2>1
    <2>3. QED
      BY <2>2
  <1>6. ASSUME NEW i \in 1..n, NEW j \in 1..n, i < j
        PROVE  <<r[i], r[j]>> \in Down
    <2>1. n + 1 - j < n + 1 - i /\ n + 1 - j \in 1..n /\ n + 1 - i \in 1..n
      BY <1>1, <1>3, <1>6
    <2>2. <<s[n + 1 - j], s[n + 1 - i]>> \in Up
      BY <2>1 DEF Lists
    <2>3. r[i] = s[n + 1 - i] /\ r[j] = s[n + 1 - j] /\ r[i] \in P /\ r[j] \in P
      BY <1>1, <1>4, <2>1
    <2>4. QED
      BY <2>2, <2>3, DownOrders
  <1> HIDE DEF n
  <1>7. QED
    BY <1>4, <1>5, <1>6 DEF Lists, r, n

LEMMA DescendingIsTurned ==
  ASSUME NEW P \in SUBSET Nodes, IsFiniteSet(P)
  PROVE  /\ Ranks!Descending(P) = Reversed(Ranks!Ascending(P))
         /\ Lists(Down, Ranks!Descending(P), P) /\ Len(Ranks!Descending(P)) = Cardinality(P)
  <1> DEFINE s == Ranks!Ascending(P)
             n == Cardinality(P)
  <1>1. Lists(Up, s, P) /\ Len(s) = n /\ n \in Nat /\ s = Line(Up, P)
    BY AscendingIsLine, RankOfPlace
  <1> HIDE DEF s
  <1>2. ASSUME NEW j \in 1..n
        PROVE  (CHOOSE p \in P : Ranks!RankIn(P, p) = n - j) = s[n + 1 - j]
    <2>1. n + 1 - j \in 1..n /\ (n + 1 - j) - 1 = n - j
      BY <1>1
    <2>2. s[n + 1 - j] \in P /\ Ranks!RankIn(P, s[n + 1 - j]) = n - j
      BY <1>1, <2>1, RankOfPlace
    <2>3. \A p \in P : Ranks!RankIn(P, p) = n - j => p = s[n + 1 - j]
      BY <2>2, RankOfPlace
    <2>4. QED
      BY <2>2, <2>3
  <1>3. Ranks!Descending(P) = Reversed(s)
    BY <1>1, <1>2, SameOperators DEF Ranks!Descending, Reversed
  <1>4. QED
    BY <1>1, <1>3, TurnedLists DEF s

\* What the skip list of a sorted set shows.
LEMMA ShownInOrder ==
  ASSUME NEW z, ZOK(z)
  PROVE  /\ Iter(z.sl) = Ranks!Ascending(PairsOf(z))
         /\ IterRev(z.sl) = Ranks!Descending(PairsOf(z))
         /\ Lists(Up, Iter(z.sl), PairsOf(z)) /\ Lists(Down, IterRev(z.sl), PairsOf(z))
         /\ Len(Iter(z.sl)) = Cardinality(PairsOf(z))
         /\ Len(IterRev(z.sl)) = Cardinality(PairsOf(z))
         /\ PairsOf(z) \in SUBSET Nodes /\ IsFiniteSet(PairsOf(z))
  <1>1. SkipOK(z.sl, PairsOf(z)) /\ PairsOf(z) \in SUBSET Nodes /\ IsFiniteSet(PairsOf(z))
    BY DEF ZOK, SkipOK
  <1>2. Iter(z.sl) = Ranks!Ascending(PairsOf(z))
    BY <1>1, IterIsLine, AscendingIsLine
  <1>3. IterRev(z.sl) = Reversed(Iter(z.sl))
    BY DEF IterRev, Reversed
  <1>4. QED
    BY <1>1, <1>2, <1>3, AscendingIsLine, DescendingIsTurned

-----------------------------------------------------------------------------
(* Ranges.                                                                 *)

\* The walk of range_by_score.
Keeping(s, lo, hi, g) ==
  g = [j \in 0..Len(s) |->
         IF j = 0 THEN <<>>
         ELSE IF AtLeast(lo, s[j][1]) /\ AtMost(hi, s[j][1])
         THEN Append(g[j - 1], s[j])
         ELSE g[j - 1]]

Within(P, lo, hi) == {p \in P : Ranks!Inside(p, lo, hi)}

LEMMA InsideMeans ==
  ASSUME NEW p, NEW lo, NEW hi
  PROVE  Ranks!Inside(p, lo, hi) <=> AtLeast(lo, p[1]) /\ AtMost(hi, p[1])
  BY DEF Ranks!Inside, AtLeast, AtMost

LEMMA HasKept ==
  ASSUME NEW P, NEW s \in Seq(P), NEW lo, NEW hi
  PROVE  \E g : Keeping(s, lo, hi, g)
  <1> DEFINE n == Len(s)
             in(j) == AtLeast(lo, s[j][1]) /\ AtMost(hi, s[j][1])
             step == [j \in 1..n |-> [q \in Seq(P) |-> IF in(j) THEN Append(q, s[j]) ELSE q]]
  <1>1. n \in Nat /\ \A j \in 1..n : s[j] \in P
    OBVIOUS
  <1>2. <<>> \in Seq(P) /\ step \in [1..n -> [Seq(P) -> Seq(P)]]
    <2>1. \A j \in 1..n, q \in Seq(P) : Append(q, s[j]) \in Seq(P)
      BY <1>1
    <2> HIDE DEF in
    <2>2. QED
      BY <2>1
  <1>3. \A j \in 1..n, q \in Seq(P) : step[j][q] = IF in(j) THEN Append(q, s[j]) ELSE q
    OBVIOUS
  <1> HIDE DEF step, n
  <1>4. PICK f : Stepping(n, Seq(P), <<>>, step, f)
    BY <1>1, <1>2, StepByStep
  <1>5. f \in [0..n -> Seq(P)] /\ f[0] = <<>> /\ \A j \in 1..n : f[j] = step[j][f[j - 1]]
    BY <1>4 DEF Stepping
  <1> HIDE DEF in
  <1>6. ASSUME NEW j \in 0..n
        PROVE  f[j] = IF j = 0 THEN <<>>
                      ELSE IF in(j) THEN Append(f[j - 1], s[j]) ELSE f[j - 1]
    <2>1. CASE j = 0
      BY <1>5, <2>1
    <2>2. CASE j # 0
      <3>1. j \in 1..n /\ j - 1 \in 0..n
        BY <1>1, <2>2
      <3>2. f[j - 1] \in Seq(P)
        BY <1>5, <3>1
      <3>3. QED
        BY <1>3, <1>5, <2>2, <3>1, <3>2
    <2>3. QED
      BY <2>1, <2>2
  <1>7. f = [j \in 0..n |-> IF j = 0 THEN <<>>
                            ELSE IF in(j) THEN Append(f[j - 1], s[j]) ELSE f[j - 1]]
    BY <1>5, <1>6
  <1>8. Keeping(s, lo, hi, f)
    BY <1>7 DEF Keeping, in, n
  <1>9. QED
    BY <1>8

\* The pairs between the bounds, in the order they had.
LEMMA BetweenLists ==
  ASSUME NEW R, NEW P, NEW s, Lists(R, s, P), NEW lo, NEW hi
  PROVE  Lists(R, Between(s, lo, hi), Within(P, lo, hi))
  <1> DEFINE n == Len(s)
             in(p) == Ranks!Inside(p, lo, hi)
             T(j) == {p \in P : in(p) /\ \E i \in 1..j : s[i] = p}
             g == CHOOSE h : Keeping(s, lo, hi, h)
             G == {j \in 0..n : Lists(R, g[j], T(j))}
  <1>1. s \in Seq(P) /\ n \in Nat /\ \A j \in 1..n : s[j] \in P
    BY DEF Lists
  <1>2. Between(s, lo, hi) = g[n]
    BY DEF Between, Keeping
  <1>3. Keeping(s, lo, hi, g)
    BY <1>1, HasKept
  <1> HIDE DEF g
  <1>4. \A j \in 0..n : g[j] = IF j = 0 THEN <<>>
                               ELSE IF in(s[j]) THEN Append(g[j - 1], s[j]) ELSE g[j - 1]
    <2>1. \A j \in 0..n : g[j] = IF j = 0 THEN <<>>
                                 ELSE IF AtLeast(lo, s[j][1]) /\ AtMost(hi, s[j][1])
                                 THEN Append(g[j - 1], s[j]) ELSE g[j - 1]
      BY <1>3 DEF Keeping
    <2>2. QED
      BY <2>1, InsideMeans
  <1> HIDE DEF in
  <1>5. 0 \in G
    <2>1. T(0) = {}
      OBVIOUS
    <2>2. g[0] = <<>> /\ 0 \in 0..n
      BY <1>1, <1>4
    <2>3. Lists(R, <<>>, {})
      BY DEF Lists
    <2> HIDE DEF T
    <2>4. QED
      BY <2>1, <2>2, <2>3
  <1>6. ASSUME NEW j \in 1..n, j - 1 \in G
        PROVE  j \in G
    <2>1. j \in 0..n /\ j # 0 /\ s[j] \in P /\ Lists(R, g[j - 1], T(j - 1))
      BY <1>1, <1>6
    <2>2. g[j] = IF in(s[j]) THEN Append(g[j - 1], s[j]) ELSE g[j - 1]
      BY <1>4, <2>1
    <2>3. \A i \in 1..j : i = j \/ i \in 1..(j - 1)
      OBVIOUS
    <2>4. \A i \in 1..(j - 1) : i \in 1..j /\ i \in 1..n /\ i < j
      BY <1>1
    <2>5. CASE in(s[j])
      <3>1. T(j) = T(j - 1) \cup {s[j]}
        BY <2>1, <2>3, <2>4, <2>5
      <3>2. \A y \in T(j - 1) : <<y, s[j]>> \in R
        BY <2>1, <2>4 DEF Lists
      <3>3. s[j] \in T(j) /\ T(j - 1) \in SUBSET T(j)
        BY <3>1
      <3> HIDE DEF T
      <3>4. Lists(R, Append(g[j - 1], s[j]), T(j))
        BY <2>1, <3>1, <3>2, <3>3, RestThenLast
      <3>5. QED
        BY <2>1, <2>2, <2>5, <3>4
    <2>6. CASE ~in(s[j])
      <3>1. T(j) = T(j - 1)
        BY <2>3, <2>4, <2>6
      <3> HIDE DEF T
      <3>2. QED
        BY <2>1, <2>2, <2>6, <3>1
    <2>7. QED
      BY <2>5, <2>6
  <1> HIDE DEF G
  <1>7. n \in G
    <2>1. \A j \in 1..n : j - 1 \in G => j \in G
      BY <1>6
    <2> HIDE DEF n
    <2>2. \A j \in 0..n : j \in G
      BY <1>1, <1>5, <2>1, Climb
    <2>3. QED
      BY <1>1, <2>2
  <1>8. T(n) = Within(P, lo, hi)
    BY DEF Lists, Within, in
  <1>9. QED
    BY <1>2, <1>7, <1>8 DEF G

LEMMA BetweenInOrder ==
  ASSUME NEW z, ZOK(z), NEW lo, NEW hi
  PROVE  LET W == Within(PairsOf(z), lo, hi)
         IN  /\ W \in SUBSET PairsOf(z) /\ W \in SUBSET Nodes /\ IsFiniteSet(W)
             /\ Between(Iter(z.sl), lo, hi) = Ranks!Ascending(W)
             /\ Between(IterRev(z.sl), lo, hi) = Ranks!Descending(W)
             /\ Len(Between(Iter(z.sl), lo, hi)) = Cardinality(W)
             /\ Len(Between(IterRev(z.sl), lo, hi)) = Cardinality(W)
             /\ Cardinality(W) \in Nat
  <1> DEFINE P == PairsOf(z)
             W == Within(P, lo, hi)
  <1>1. /\ Lists(Up, Iter(z.sl), P) /\ Lists(Down, IterRev(z.sl), P)
        /\ P \in SUBSET Nodes /\ IsFiniteSet(P)
    BY ShownInOrder
  <1>2. W \in SUBSET P /\ W \in SUBSET Nodes /\ IsFiniteSet(W)
    BY <1>1, FS_Subset DEF Within
  <1>3. Lists(Up, Between(Iter(z.sl), lo, hi), W) /\ Lists(Down, Between(IterRev(z.sl), lo, hi), W)
    BY <1>1, BetweenLists
  <1> HIDE DEF W, P
  <1>4. Orders(Up, W) /\ Orders(Down, W)
    BY <1>2, UpOrders, DownOrders
  <1>5. Between(Iter(z.sl), lo, hi) = Line(Up, W) /\ Between(IterRev(z.sl), lo, hi) = Line(Down, W)
    BY <1>3, <1>4, ListsIsLine
  <1>6. Lists(Up, Ranks!Ascending(W), W) /\ Lists(Down, Ranks!Descending(W), W)
        /\ Len(Ranks!Ascending(W)) = Cardinality(W) /\ Len(Ranks!Descending(W)) = Cardinality(W)
    BY <1>2, AscendingIsLine, DescendingIsTurned
  <1>7. Ranks!Ascending(W) = Line(Up, W) /\ Ranks!Descending(W) = Line(Down, W)
    BY <1>4, <1>6, ListsIsLine
  <1>8. Cardinality(W) \in Nat
    BY <1>2, FS_CardinalityType
  <1>9. QED
    BY <1>2, <1>5, <1>6, <1>7, <1>8 DEF W, P

\* A stretch of a list lists the elements of the stretch.
LEMMA StretchLists ==
  ASSUME NEW R, NEW S, NEW s, Lists(R, s, S), NEW m \in Nat, NEW n \in Nat,
         m <= n, n <= Len(s)
  PROVE  Lists(R, SubSeq(s, m + 1, n), {s[i] : i \in (m + 1)..n})
         /\ Len(SubSeq(s, m + 1, n)) = n - m
  <1> DEFINE t == SubSeq(s, m + 1, n)
             T == {s[i] : i \in (m + 1)..n}
  <1>1. s \in Seq(S) /\ Len(s) \in Nat
    BY DEF Lists
  <1>2. n - m \in Nat /\ \A i \in 1..(n - m) : m + i \in (m + 1)..n /\ m + i \in 1..Len(s)
    BY <1>1
  <1>3. t = [i \in 1..(n - m) |-> s[m + i]]
    <2>1. t = [i \in 1..(n - (m + 1) + 1) |-> s[i + (m + 1) - 1]]
      BY DEF SubSeq
    <2>2. n - (m + 1) + 1 = n - m /\ \A i \in 1..(n - m) : i + (m + 1) - 1 = m + i
      OBVIOUS
    <2>3. QED
      BY <2>1, <2>2
  <1>4. \A i \in 1..(n - m) : s[m + i] \in T
    BY <1>2
  <1> HIDE DEF T
  <1>5. t \in Seq(T) /\ Len(t) = n - m /\ \A i \in 1..(n - m) : t[i] = s[m + i]
    <2>1. t \in [1..(n - m) -> T]
      BY <1>3, <1>4
    <2>2. \A i \in 1..(n - m) : t[i] = s[m + i]
      BY <1>3
    <2> HIDE DEF t
    <2>3. t \in Seq(T) /\ Len(t) = n - m
      BY <1>2, <2>1, TableSeq
    <2>4. QED
      BY <2>2, <2>3
  <1> HIDE DEF t
  <1>6. ASSUME NEW x \in T
        PROVE  \E j \in 1..(n - m) : t[j] = x
    <2>1. PICK i \in (m + 1)..n : s[i] = x
      BY DEF T
    <2>2. i - m \in 1..(n - m) /\ m + (i - m) = i
      OBVIOUS
    <2>3. QED
      BY <1>5, <2>1, <2>2
  <1>7. ASSUME NEW i \in 1..(n - m), NEW j \in 1..(n - m), i < j
        PROVE  <<t[i], t[j]>> \in R
    <2>1. m + i < m + j
      BY <1>7
    <2>2. <<s[m + i], s[m + j]>> \in R
      BY <1>2, <2>1 DEF Lists
    <2>3. QED
      BY <1>5, <2>2
  <1>8. QED
    BY <1>5, <1>6, <1>7 DEF Lists, t, T

\* A stretch of the ranks.
LEMMA ByRankLists ==
  ASSUME NEW P \in SUBSET Nodes, IsFiniteSet(P), NEW m \in Nat, NEW n \in Nat,
         m <= n, n <= Cardinality(P)
  PROVE  LET T == {p \in P : m <= Ranks!RankIn(P, p) /\ Ranks!RankIn(P, p) < n}
             s == SubSeq(Ranks!Ascending(P), m + 1, n)
         IN  s = Ranks!Ascending(T) /\ Len(s) = Cardinality(T) /\ Cardinality(T) = n - m
             /\ Lists(Up, s, T)
  <1> DEFINE a == Ranks!Ascending(P)
             N == Cardinality(P)
             T == {p \in P : m <= Ranks!RankIn(P, p) /\ Ranks!RankIn(P, p) < n}
             s == SubSeq(a, m + 1, n)
             E == {a[i] : i \in (m + 1)..n}
  <1>1. Lists(Up, a, P) /\ Len(a) = N /\ N \in Nat /\ a = Line(Up, P)
    BY AscendingIsLine, RankOfPlace
  <1>2. Lists(Up, s, E) /\ Len(s) = n - m
    <2> HIDE DEF a, N
    <2>1. n <= Len(a)
      BY <1>1 DEF N
    <2>2. QED
      BY <1>1, <2>1, StretchLists
  <1>3. E = T
    <2> HIDE DEF a
    <2>1. \A j \in 1..N : a[j] \in P /\ Ranks!RankIn(P, a[j]) = j - 1
      BY <1>1, RankOfPlace
    <2>2. \A p \in P : Ranks!RankIn(P, p) \in 0..(N - 1) /\ a[Ranks!RankIn(P, p) + 1] = p
      BY <1>1, RankOfPlace
    <2> HIDE DEF N
    <2>3. ASSUME NEW i \in (m + 1)..n
          PROVE  a[i] \in T
      <3>1. i \in 1..N /\ m <= i - 1 /\ i - 1 < n
        BY <1>1 DEF N
      <3>2. QED
        BY <2>1, <3>1
    <2>4. ASSUME NEW p \in T
          PROVE  p \in E
      <3> DEFINE r == Ranks!RankIn(P, p)
      <3>1. r \in 0..(N - 1) /\ a[r + 1] = p /\ m <= r /\ r < n
        BY <2>2
      <3> HIDE DEF r
      <3>2. r + 1 \in (m + 1)..n
        BY <1>1, <3>1
      <3>3. QED
        BY <3>1, <3>2
    <2> HIDE DEF T
    <2>5. \A p \in E : p \in T
      BY <2>3
    <2> HIDE DEF E
    <2>6. QED
      BY <2>4, <2>5
  <1>4. T \in SUBSET Nodes /\ IsFiniteSet(T) /\ Orders(Up, T)
    <2>1. T \in SUBSET P
      OBVIOUS
    <2> HIDE DEF T
    <2>2. T \in SUBSET Nodes /\ IsFiniteSet(T)
      BY <2>1, FS_Subset
    <2>3. QED
      BY <2>2, UpOrders
  <1> HIDE DEF E, T, s
  <1>5. s = Line(Up, T) /\ Len(s) = Cardinality(T) /\ Ranks!Ascending(T) = Line(Up, T)
    BY <1>2, <1>3, <1>4, ListsIsLine, AscendingIsLine
  <1>6. QED
    BY <1>2, <1>3, <1>5 DEF T, s

LEMMA NothingAscends == Ranks!Ascending({}) = <<>> /\ Ranks!Descending({}) = <<>>
  BY FS_EmptySet, SameOperators DEF Ranks!Ascending, Ranks!Descending

\* The ranks range_by_index and remove_by_rank cut out, unless the stop is in front of
\* the lowest member.
LEMMA ByIndexIsRanked ==
  ASSUME NEW z, ZOK(z), NEW start \in Int, NEW stop \in Int,
         stop >= -Cardinality(PairsOf(z))
  PROVE  LET T == Ranks!RankedIn(PairsOf(z), start, stop)
         IN  /\ ByIndex(z, start, stop) = Ranks!Ascending(T)
             /\ T \in SUBSET PairsOf(z) /\ Len(ByIndex(z, start, stop)) = Cardinality(T)
             /\ Lists(Up, ByIndex(z, start, stop), T)
  <1> DEFINE P == PairsOf(z)
             len == Cardinality(Members(z))
             N == Cardinality(P)
             T == Ranks!RankedIn(P, start, stop)
             from == Least(NormalizeIndex(start, len), len)
             to == Least(NormalizeIndex(stop, len), IF len = 0 THEN 0 ELSE len - 1)
             s == ByIndex(z, start, stop)
             a == IF start < 0 THEN N + start ELSE start
             b == IF stop < 0 THEN N + stop ELSE stop
  <1>1. P \in SUBSET Nodes /\ IsFiniteSet(P) /\ len = N /\ N \in Nat
        /\ Iter(z.sl) = Ranks!Ascending(P) /\ Len(Iter(z.sl)) = N
    BY ShownInOrder, AsManyMembers
  <1>2. T = {p \in P : a <= Ranks!RankIn(P, p) /\ Ranks!RankIn(P, p) <= b}
    BY SameOperators DEF Ranks!RankedIn, Ranks!FromLowest
  <1>3. \A p \in P : Ranks!RankIn(P, p) \in 0..(N - 1)
    BY <1>1, RankOfPlace
  <1>4. s = IF from > to THEN <<>> ELSE SkipTake(Iter(z.sl), from, to - from + 1)
    BY DEF ByIndex
  <1> HIDE DEF s, T
  <1>5. a \in Int /\ b \in Int /\ b >= 0
    BY <1>1
  <1>6. CASE N = 0
    <2>1. P = {}
      BY <1>1, <1>6, FS_EmptySet
    <2>2. T = {}
      BY <1>2, <2>1
    <2>3. from = 0 /\ to = 0
      BY <1>1, <1>6 DEF Least, NormalizeIndex
    <2>4. s = SubSeq(<<>>, 1, 0)
      <3>1. Iter(z.sl) = <<>>
        BY <1>1, <2>1, NothingAscends
      <3> HIDE DEF from, to
      <3>2. QED
        BY <1>4, <2>3, <3>1 DEF SkipTake
    <2>5. s = <<>>
      BY <2>4
    <2>6. Lists(Up, <<>>, {})
      BY DEF Lists
    <2>7. QED
      BY <2>2, <2>5, <2>6, NothingAscends, FS_EmptySet DEF s, T
  <1>7. CASE N # 0
    <2>1. /\ from \in Nat /\ to \in Nat /\ to <= N - 1
          /\ from = IF a < 0 THEN 0 ELSE IF a < N THEN a ELSE N
          /\ to = IF b < N THEN b ELSE N - 1
      BY <1>1, <1>7 DEF Least, NormalizeIndex
    <2> HIDE DEF from, to
    <2>2. CASE from > to
      <3>1. ASSUME NEW p \in T
            PROVE  FALSE
        <4>1. Ranks!RankIn(P, p) \in 0..(N - 1) /\ a <= Ranks!RankIn(P, p)
              /\ Ranks!RankIn(P, p) <= b
          BY <1>2, <1>3
        <4> HIDE DEF a, b
        <4>2. QED
          BY <1>1, <1>5, <2>1, <2>2, <4>1
      <3>2. T = {} /\ s = <<>>
        BY <1>4, <2>2, <3>1
      <3>3. Lists(Up, <<>>, {})
        BY DEF Lists
      <3>4. QED
        BY <3>2, <3>3, NothingAscends, FS_EmptySet DEF s, T
    <2>3. CASE from <= to
      <3> HIDE DEF N, a, b
      <3> DEFINE n == to + 1
      <3>1. /\ from \in Nat /\ n \in Nat /\ from <= n /\ n <= N
            /\ from + (to - from + 1) = n
        <4>1. N \in Nat /\ from \in Nat /\ to \in Nat /\ to <= N - 1
          BY <1>1, <2>1
        <4>2. QED
          BY <2>3, <4>1
      <3>2. s = SubSeq(Iter(z.sl), from + 1, n)
        <4>1. s = SkipTake(Iter(z.sl), from, to - from + 1)
          BY <1>4, <2>1, <2>3
        <4>2. s = SubSeq(Iter(z.sl), from + 1, IF n < N THEN n ELSE N)
          BY <1>1, <3>1, <4>1 DEF SkipTake
        <4>3. (IF n < N THEN n ELSE N) = n
          BY <1>1, <3>1
        <4>4. QED
          BY <4>2, <4>3
      <3>3. T = {p \in P : from <= Ranks!RankIn(P, p) /\ Ranks!RankIn(P, p) < n}
        <4>1. ASSUME NEW r \in 0..(N - 1)
              PROVE  (a <= r /\ r <= b) <=> (from <= r /\ r < n)
          BY <1>1, <1>5, <2>1, <2>3, <4>1
        <4>2. QED
          BY <1>2, <1>3, <4>1
      <3> HIDE DEF n
      <3>4. s = Ranks!Ascending(T) /\ Len(s) = Cardinality(T) /\ Lists(Up, s, T)
        <4> DEFINE U == {p \in P : from <= Ranks!RankIn(P, p) /\ Ranks!RankIn(P, p) < n}
                   t == SubSeq(Ranks!Ascending(P), from + 1, n)
        <4>1. from \in Nat /\ n \in Nat /\ from <= n /\ n <= Cardinality(P)
          BY <3>1 DEF N
        <4>2. t = Ranks!Ascending(U) /\ Len(t) = Cardinality(U) /\ Lists(Up, t, U)
          BY <1>1, <4>1, ByRankLists
        <4>3. s = t /\ T = U
          BY <1>1, <3>2, <3>3
        <4> HIDE DEF U, t
        <4>4. QED
          BY <4>2, <4>3
      <3>5. T \in SUBSET P
        BY <1>2
      <3>6. QED
        BY <3>4, <3>5 DEF s, T
    <2>4. QED
      BY <2>1, <2>2, <2>3
  <1>8. QED
    BY <1>1, <1>6, <1>7

-----------------------------------------------------------------------------
(* Members taken out.                                                      *)

ZSetsOK == {z \in ZSetObjects : ZOK(z)}

LEMMA InZSetsOK ==
  \A z : z \in ZSetsOK <=> ZOK(z)
  BY DEF ZSetsOK, ZOK

Removing(z, ms, g) ==
  g = [j \in 0..Len(ms) |-> IF j = 0 THEN z ELSE RemoveMember(g[j - 1], ms[j])]

LEMMA HasRemoved ==
  ASSUME NEW z, ZOK(z), NEW ms \in Seq(Chunks)
  PROVE  \E g : Removing(z, ms, g)
  <1> DEFINE n == Len(ms)
             step == [j \in 1..n |-> [w \in ZSetsOK |-> RemoveMember(w, ms[j])]]
  <1>1. n \in Nat /\ \A j \in 1..n : ms[j] \in Chunks
    OBVIOUS
  <1>2. step \in [1..n -> [ZSetsOK -> ZSetsOK]]
    <2>1. \A j \in 1..n, w \in ZSetsOK : RemoveMember(w, ms[j]) \in ZSetsOK
      BY <1>1, InZSetsOK, RemovedMember
    <2>2. QED
      BY <2>1
  <1>3. \A j \in 1..n, w \in ZSetsOK : step[j][w] = RemoveMember(w, ms[j])
    OBVIOUS
  <1>4. z \in ZSetsOK
    BY InZSetsOK
  <1> HIDE DEF step, n
  <1>5. PICK f : Stepping(n, ZSetsOK, z, step, f)
    BY <1>1, <1>2, <1>4, StepByStep
  <1>6. f \in [0..n -> ZSetsOK] /\ f[0] = z /\ \A j \in 1..n : f[j] = step[j][f[j - 1]]
    BY <1>5 DEF Stepping
  <1>7. ASSUME NEW j \in 0..n
        PROVE  f[j] = IF j = 0 THEN z ELSE RemoveMember(f[j - 1], ms[j])
    <2>1. CASE j = 0
      BY <1>6, <2>1
    <2>2. CASE j # 0
      <3>1. j \in 1..n /\ j - 1 \in 0..n
        BY <1>1, <2>2
      <3>2. f[j - 1] \in ZSetsOK
        BY <1>6, <3>1
      <3>3. QED
        BY <1>3, <1>6, <2>2, <3>1, <3>2
    <2>3. QED
      BY <2>1, <2>2
  <1>8. f = [j \in 0..n |-> IF j = 0 THEN z ELSE RemoveMember(f[j - 1], ms[j])]
    BY <1>6, <1>7
  <1>9. QED
    BY <1>8 DEF Removing, n

LEMMA RemovedMembers ==
  ASSUME NEW z, ZOK(z), NEW ms \in Seq(Chunks)
  PROVE  LET M == {ms[j] : j \in 1..Len(ms)}
             w == RemoveMembers(z, ms)
         IN  /\ ZOK(w) /\ Members(w) = Members(z) \ M
             /\ PairsOf(w) = Ranks!Drop(PairsOf(z), M)
  <1> DEFINE n == Len(ms)
             M(j) == {ms[i] : i \in 1..j}
             g == CHOOSE h : Removing(z, ms, h)
             Good(w, S) == /\ ZOK(w) /\ Members(w) = Members(z) \ S
                           /\ PairsOf(w) = Ranks!Drop(PairsOf(z), S)
             G == {j \in 0..n : Good(g[j], M(j))}
  <1>1. n \in Nat /\ \A j \in 1..n : ms[j] \in Chunks
    OBVIOUS
  <1>2. RemoveMembers(z, ms) = g[n]
    BY DEF RemoveMembers, Removing
  <1>3. Removing(z, ms, g)
    BY HasRemoved
  <1> HIDE DEF g
  <1>4. \A j \in 0..n : g[j] = IF j = 0 THEN z ELSE RemoveMember(g[j - 1], ms[j])
    BY <1>3 DEF Removing
  <1>5. Good(z, {})
    BY DEF Ranks!Drop
  <1>6. 0 \in G
    <2>1. M(0) = {}
      OBVIOUS
    <2>2. g[0] = z /\ 0 \in 0..n
      BY <1>1, <1>4
    <2> HIDE DEF Good, M
    <2>3. QED
      BY <1>5, <2>1, <2>2
  <1>7. ASSUME NEW j \in 1..n, j - 1 \in G
        PROVE  j \in G
    <2>1. j \in 0..n /\ j # 0 /\ ms[j] \in Chunks /\ Good(g[j - 1], M(j - 1))
      BY <1>1, <1>7
    <2>2. g[j] = RemoveMember(g[j - 1], ms[j])
      BY <1>4, <2>1
    <2>3. M(j) = M(j - 1) \cup {ms[j]}
      <3>1. \A i \in 1..j : i = j \/ i \in 1..(j - 1)
        OBVIOUS
      <3>2. \A i \in 1..(j - 1) : i \in 1..j
        OBVIOUS
      <3>3. QED
        BY <3>1, <3>2
    <2> HIDE DEF M
    <2>4. /\ ZOK(g[j]) /\ Members(g[j]) = Members(g[j - 1]) \ {ms[j]}
          /\ PairsOf(g[j]) = Ranks!Drop(PairsOf(g[j - 1]), {ms[j]})
      BY <2>1, <2>2, RemovedMember
    <2>5. Good(g[j], M(j))
      BY <2>1, <2>3, <2>4 DEF Ranks!Drop
    <2> HIDE DEF Good
    <2>6. QED
      BY <2>1, <2>5
  <1> HIDE DEF G, Good
  <1>8. n \in G
    <2>1. \A j \in 1..n : j - 1 \in G => j \in G
      BY <1>7
    <2> HIDE DEF n
    <2>2. \A j \in 0..n : j \in G
      BY <1>1, <1>6, <2>1, Climb
    <2>3. QED
      BY <1>1, <2>2
  <1>9. Good(g[n], M(n))
    BY <1>8 DEF G
  <1>10. QED
    BY <1>2, <1>9 DEF Good

\* A member has one pair.
LEMMA PairsOfSome ==
  ASSUME NEW z, ZOK(z), NEW M
  PROVE  /\ Cardinality(M \cap Members(z)) = Cardinality({p \in PairsOf(z) : p[2] \in M})
         /\ IsFiniteSet({p \in PairsOf(z) : p[2] \in M})
  <1> DEFINE Q == {p \in PairsOf(z) : p[2] \in M}
             N == M \cap Members(z)
             f == [p \in Q |-> p[2]]
  <1>1. z \in ZSetObjects /\ IsFiniteSet(PairsOf(z))
    BY DEF ZOK, SkipOK
  <1>2. f \in [Q -> N]
    BY <1>1, PairsShape
  <1>3. ASSUME NEW p \in Q, NEW q \in Q, f[p] = f[q]
        PROVE  p = q
    <2>1. p[2] = q[2] /\ p[1] = z.scores[p[2]] /\ q[1] = z.scores[q[2]]
          /\ p = <<p[1], p[2]>> /\ q = <<q[1], q[2]>>
      BY <1>1, <1>3, PairsShape
    <2>2. QED
      BY <2>1
  <1>4. ASSUME NEW m \in N
        PROVE  \E p \in Q : f[p] = m
    <2>1. <<z.scores[m], m>> \in Q
      BY <1>1, PairsShape
    <2>2. f[<<z.scores[m], m>>] = m
      BY <2>1
    <2>3. QED
      BY <2>1, <2>2
  <1>5. Q \in SUBSET PairsOf(z)
    OBVIOUS
  <1> HIDE DEF f, Q, N
  <1>6. ExistsBijection(Q, N)
    <2>1. f \in Injection(Q, N)
      BY <1>2, <1>3 DEF Injection, IsInjective
    <2>2. f \in Surjection(Q, N)
      BY <1>2, <1>4 DEF Surjection
    <2>3. QED
      BY <2>1, <2>2 DEF ExistsBijection, Bijection
  <1>7. IsFiniteSet(Q)
    BY <1>1, <1>5, FS_Subset
  <1>8. IsFiniteSet(N) /\ Cardinality(N) = Cardinality(Q)
    BY <1>6, <1>7, FS_Bijection
  <1>9. QED
    BY <1>7, <1>8 DEF Q, N

LEMMA ScoresAreThePairs ==
  ASSUME NEW z, ZOK(z)
  PROVE  /\ \A m : Ranks!Has(PairsOf(z), m) <=> m \in Members(z)
         /\ \A m \in Members(z) : Ranks!ScoreIn(PairsOf(z), m) = z.scores[m]
         /\ \A m \in Members(z) : z.scores[m] \in Scores
  <1>1. z \in ZSetObjects
    BY DEF ZOK
  <1>2. \A m : Ranks!Has(PairsOf(z), m) <=> m \in Members(z)
    BY <1>1, PairsShape DEF Ranks!Has
  <1>3. ASSUME NEW m \in Members(z)
        PROVE  Ranks!ScoreIn(PairsOf(z), m) = z.scores[m]
    <2> DEFINE x == <<z.scores[m], m>>
    <2>1. x \in PairsOf(z) /\ x[2] = m /\ x[1] = z.scores[m]
      BY <1>1, PairsShape
    <2>2. \A p \in PairsOf(z) : p[2] = m => p = x
      BY <1>1, PairsShape
    <2> HIDE DEF x
    <2>3. (CHOOSE p \in PairsOf(z) : p[2] = m) = x
      BY <2>1, <2>2
    <2>4. QED
      BY <2>1, <2>3 DEF Ranks!ScoreIn
  <1>4. QED
    BY <1>1, <1>2, <1>3, PairsShape

\* The members of the pairs a list shows.
LEMMA ShownTakenOut ==
  ASSUME NEW z, ZOK(z), NEW R, NEW T \in SUBSET PairsOf(z), NEW s, Lists(R, s, T)
  PROVE  LET w == RemoveMembers(z, MembersOf(s))
         IN  /\ ZOK(w) /\ PairsOf(w) = PairsOf(z) \ T
             /\ PairsOf(w) = PairsOf(z) \ {s[j] : j \in DOMAIN s}
  <1> DEFINE n == Len(s)
             ms == MembersOf(s)
             M == {ms[j] : j \in 1..Len(ms)}
             w == RemoveMembers(z, ms)
  <1>1. z \in ZSetObjects
    BY DEF ZOK
  <1>2. s \in Seq(T) /\ n \in Nat /\ DOMAIN s = 1..n /\ \A j \in 1..n : s[j] \in T
    BY DEF Lists
  <1>3. \A j \in 1..n : s[j][2] \in Chunks
    BY <1>1, <1>2, PairsShape
  <1>4. ms \in Seq(Chunks) /\ Len(ms) = n /\ \A j \in 1..n : ms[j] = s[j][2]
    <2>1. ms \in [1..n -> Chunks] /\ \A j \in 1..n : ms[j] = s[j][2]
      BY <1>3 DEF MembersOf
    <2> HIDE DEF ms
    <2>2. QED
      BY <1>2, <2>1, TableSeq
  <1> HIDE DEF ms
  <1>5. ZOK(w) /\ PairsOf(w) = Ranks!Drop(PairsOf(z), M)
    BY <1>4, RemovedMembers
  <1>6. \A p \in PairsOf(z) : p[2] \in M <=> p \in T
    <2>1. ASSUME NEW p \in PairsOf(z), p \in T
          PROVE  p[2] \in M
      <3>1. PICK j \in 1..n : s[j] = p
        BY <2>1 DEF Lists
      <3>2. QED
        BY <1>4, <3>1
    <2>2. ASSUME NEW p \in PairsOf(z), p[2] \in M
          PROVE  p \in T
      <3>1. PICK j \in 1..n : p[2] = s[j][2]
        BY <1>4, <2>2
      <3>2. s[j] \in PairsOf(z) /\ s[j] \in T
        BY <1>2
      <3> DEFINE q == s[j]
      <3>3. p[1] = z.scores[p[2]] /\ q[1] = z.scores[q[2]]
            /\ p = <<p[1], p[2]>> /\ q = <<q[1], q[2]>>
        BY <1>1, <3>2, PairsShape
      <3>4. p = q
        BY <3>1, <3>3
      <3>5. QED
        BY <3>2, <3>4
    <2>3. QED
      BY <2>1, <2>2
  <1>7. {s[j] : j \in DOMAIN s} = T
    BY <1>2 DEF Lists
  <1> HIDE DEF M, w
  <1>8. PairsOf(w) = PairsOf(z) \ T
    BY <1>5, <1>6 DEF Ranks!Drop
  <1>9. QED
    BY <1>5, <1>7, <1>8 DEF w, ms

-----------------------------------------------------------------------------
(* One database.                                                           *)

\* Every sorted set it holds has two indices that agree.
ZWell(l) == WellFormed(l) /\ \A k \in Keys : ZSetStored(l, k) => ZOK(l.data[k])

PairsAt(l, k) == IF ZSetStored(l, k) THEN PairsOf(l.data[k]) ELSE {}
OtherAt(l, k) == Stored(l, k) /\ ~IsZSet(l.data[k])

\* A sorted set without a member.
ZHollow(l, k) == ZSetStored(l, k) /\ Members(l.data[k]) = {}

\* What a sorted set command about k may leave: the database it found, or the key
\* gone, or a sorted set written in place.
ZDone(l, k, w) ==
  \/ w = l
  \/ ~OtherAt(l, k) /\ w = RemoveKey(l, k)
  \/ ~OtherAt(l, k) /\ \E z : ZOK(z) /\ w = Write(l, k, z)

LEMMA ZWrites ==
  ASSUME NEW l, ZWell(l), NEW k \in Keys, NEW z, ZOK(z)
  PROVE  /\ Write(l, k, z).data[k] = z /\ Stored(Write(l, k, z), k)
         /\ ZSetStored(Write(l, k, z), k) /\ PairsAt(Write(l, k, z), k) = PairsOf(z)
         /\ WellFormed(Write(l, k, z))
         /\ \A j \in Keys : j # k => Write(l, k, z).data[j] = l.data[j]
         /\ Write(l, k, z).expiry = l.expiry
  <1>1. z \in Objects /\ z # Absent /\ IsZSet(z)
    BY ZSetShape DEF ZOK
  <1>2. WellFormed(Write(l, k, z))
    BY <1>1, WriteWF DEF ZWell
  <1>3. /\ Write(l, k, z).data[k] = z /\ Write(l, k, z).expiry = l.expiry
        /\ \A j \in Keys : j # k => Write(l, k, z).data[j] = l.data[j]
    BY DEF ZWell, WellFormed, LDBs, Write
  <1>4. QED
    BY <1>1, <1>2, <1>3 DEF PairsAt, ZSetStored, Stored

LEMMA ZRemoves ==
  ASSUME NEW l, ZWell(l), NEW k \in Keys
  PROVE  /\ ~Stored(RemoveKey(l, k), k) /\ PairsAt(RemoveKey(l, k), k) = {}
         /\ WellFormed(RemoveKey(l, k))
         /\ \A j \in Keys : j # k => /\ RemoveKey(l, k).data[j] = l.data[j]
                                     /\ RemoveKey(l, k).expiry[j] = l.expiry[j]
  <1>1. WellFormed(RemoveKey(l, k))
    BY RemoveWF DEF ZWell
  <1>2. /\ RemoveKey(l, k).data[k] = Absent
        /\ \A j \in Keys : j # k => /\ RemoveKey(l, k).data[j] = l.data[j]
                                    /\ RemoveKey(l, k).expiry[j] = l.expiry[j]
    BY DEF ZWell, WellFormed, LDBs, RemoveKey
  <1>3. QED
    BY <1>1, <1>2 DEF PairsAt, ZSetStored, Stored

LEMMA ZDoneMeans ==
  ASSUME NEW l, ZWell(l), NEW k \in Keys, NEW w, ZDone(l, k, w)
  PROVE  /\ ZWell(w) /\ Keeps(l, w) /\ (OtherAt(w, k) <=> OtherAt(l, k))
         /\ \A j \in Keys : j # k => w.data[j] = l.data[j] /\ w.expiry[j] = l.expiry[j]
  <1>1. CASE w = l
    BY <1>1, KeepsItself
  <1>2. CASE ~OtherAt(l, k) /\ w = RemoveKey(l, k)
    <2>1. Keeps(l, w)
      BY <1>2, RemoveKeeps DEF ZWell
    <2>2. ZWell(w)
      <3>1. ASSUME NEW j \in Keys, ZSetStored(w, j)
            PROVE  ZOK(w.data[j])
        <4>1. j # k /\ w.data[j] = l.data[j]
          BY <1>2, <3>1, ZRemoves DEF ZSetStored
        <4>2. QED
          BY <3>1, <4>1 DEF ZWell, ZSetStored, Stored
      <3>2. QED
        BY <1>2, <3>1, ZRemoves DEF ZWell
    <2>3. QED
      BY <1>2, <2>1, <2>2, ZRemoves DEF OtherAt
  <1>3. ASSUME NEW z, ZOK(z), ~OtherAt(l, k), w = Write(l, k, z)
        PROVE  /\ ZWell(w) /\ Keeps(l, w) /\ (OtherAt(w, k) <=> OtherAt(l, k))
               /\ \A j \in Keys : j # k => w.data[j] = l.data[j] /\ w.expiry[j] = l.expiry[j]
    <2>1. Keeps(l, w)
      BY <1>3, WriteKeeps
    <2>2. ZWell(w)
      <3>1. ASSUME NEW j \in Keys, ZSetStored(w, j)
            PROVE  ZOK(w.data[j])
        <4>1. CASE j = k
          BY <1>3, <4>1, ZWrites
        <4>2. CASE j # k
          <5>1. w.data[j] = l.data[j]
            BY <1>3, <4>2, ZWrites
          <5>2. QED
            BY <3>1, <5>1 DEF ZWell, ZSetStored, Stored
        <4>3. QED
          BY <4>1, <4>2
      <3>2. QED
        BY <1>3, <3>1, ZWrites DEF ZWell
    <2>3. ~OtherAt(w, k)
      BY <1>3, ZWrites DEF OtherAt, ZSetStored
    <2>4. QED
      BY <1>3, <2>1, <2>2, <2>3, ZWrites
  <1>4. QED
    BY <1>1, <1>2, <1>3 DEF ZDone

-----------------------------------------------------------------------------
(* What clients can see of it.                                             *)

Shows(l, k, t) ==
  LET o == Get(l, k, t)
  IN  IF o = Absent THEN [other |-> FALSE, pairs |-> {}]
      ELSE IF ~IsZSet(o) THEN [other |-> TRUE, pairs |-> {}]
      ELSE [other |-> FALSE, pairs |-> PairsOf(o)]

LEMMA ShowsMeans ==
  ASSUME NEW l, NEW k, NEW t, ~Dead(l, k, t)
  PROVE  Shows(l, k, t) = [other |-> OtherAt(l, k), pairs |-> PairsAt(l, k)]
  <1>1. Get(l, k, t) = l.data[k]
    BY DEF Dead, Get, Stored
  <1>2. CASE ~Stored(l, k)
    <2>1. Shows(l, k, t) = [other |-> FALSE, pairs |-> {}]
      BY <1>1, <1>2 DEF Shows, Stored
    <2>2. OtherAt(l, k) = FALSE /\ PairsAt(l, k) = {}
      BY <1>2 DEF OtherAt, PairsAt, ZSetStored
    <2>3. QED
      BY <2>1, <2>2
  <1>3. CASE Stored(l, k) /\ ~IsZSet(l.data[k])
    <2>1. Shows(l, k, t) = [other |-> TRUE, pairs |-> {}]
      BY <1>1, <1>3 DEF Shows, Stored
    <2>2. OtherAt(l, k) = TRUE /\ PairsAt(l, k) = {}
      BY <1>3 DEF OtherAt, PairsAt, ZSetStored
    <2>3. QED
      BY <2>1, <2>2
  <1>4. CASE Stored(l, k) /\ IsZSet(l.data[k])
    <2>1. Shows(l, k, t) = [other |-> FALSE, pairs |-> PairsOf(l.data[k])]
      BY <1>1, <1>4 DEF Shows, Stored
    <2>2. OtherAt(l, k) = FALSE /\ PairsAt(l, k) = PairsOf(l.data[k])
      BY <1>4 DEF OtherAt, PairsAt, ZSetStored
    <2>3. QED
      BY <2>1, <2>2
  <1>5. QED
    BY <1>2, <1>3, <1>4

\* Only the pairs under k change.
LEMMA ZDoneShows ==
  ASSUME NEW l, ZWell(l), NEW k \in Keys, NEW w, ZDone(l, k, w), NEW t, ~Dead(l, k, t)
  PROVE  /\ Shows(w, k, t) = [Shows(l, k, t) EXCEPT !.pairs = PairsAt(w, k)]
         /\ \A j \in Keys : j # k => Shows(w, j, t) = Shows(l, j, t)
  <1>1. /\ ZWell(w) /\ Keeps(l, w) /\ (OtherAt(w, k) <=> OtherAt(l, k))
        /\ \A j \in Keys : j # k => w.data[j] = l.data[j] /\ w.expiry[j] = l.expiry[j]
    BY ZDoneMeans
  <1>2. ~Dead(w, k, t)
    <2>1. SUFFICES ASSUME Stored(w, k), IsExpired(w, k, t)
                   PROVE  FALSE
      BY DEF Dead
    <2>2. w.expiry[k] = l.expiry[k] /\ w.expiry[k] # Never
      BY <1>1, <2>1 DEF Keeps, IsExpired
    <2>3. Stored(l, k)
      BY <2>2 DEF ZWell, WellFormed, Stored
    <2>4. QED
      BY <2>1, <2>2, <2>3 DEF Dead, IsExpired
  <1>3. OtherAt(w, k) = OtherAt(l, k)
    BY <1>1 DEF OtherAt, Stored
  <1>4. Shows(w, k, t) = [other |-> OtherAt(l, k), pairs |-> PairsAt(w, k)]
    BY <1>2, <1>3, ShowsMeans
  <1>5. Shows(l, k, t) = [other |-> OtherAt(l, k), pairs |-> PairsAt(l, k)]
    BY ShowsMeans
  <1>6. ASSUME NEW j \in Keys, j # k
        PROVE  Shows(w, j, t) = Shows(l, j, t)
    <2>1. w.data[j] = l.data[j] /\ w.expiry[j] = l.expiry[j]
      BY <1>1, <1>6
    <2>2. Get(w, j, t) = Get(l, j, t)
      BY <2>1 DEF Get, IsExpired
    <2>3. QED
      BY <2>2 DEF Shows
  <1>7. QED
    BY <1>4, <1>5, <1>6

LEMMA ZViewShows == ZView = [i \in Dbs |-> [k \in Keys |-> Shows(dbs[i], k, now)]]
  BY DEF ZView, Shows

ZAllWell == \A i \in Dbs : ZWell(dbs[i])

\* A sorted set command on a key that is not dead serves a request.
LEMMA ZServes ==
  ASSUME IInv, ZAllWell, NEW op, NEW i \in Dbs, NEW k \in Keys, NEW arg, NEW out,
         Run(op, i, {k}, arg, out), ~Dead(dbs[i], k, now), ZDone(dbs[i], k, out.ldb)
  PROVE  /\ Ranks!Serve(op, k, PairsAt(out.ldb, k), out.reply)
         /\ Ranks!Here(k) = [other |-> OtherAt(dbs[i], k), pairs |-> PairsAt(dbs[i], k)]
         /\ last'.db = i
  <1> DEFINE l == dbs[i]
             w == out.ldb
             P == PairsAt(w, k)
             B == [j \in Dbs |-> [q \in Keys |-> Shows(dbs[j], q, now)]]
             C == [j \in Dbs |-> [q \in Keys |-> Shows(dbs'[j], q, now')]]
  <1>1. /\ last'.op = op /\ last'.db = i /\ last'.keys = {k} /\ last'.reply = out.reply
        /\ now' = now /\ dbs' = [dbs EXCEPT ![i] = w]
    BY DEF Run
  <1>2. \A j \in Dbs : dbs'[j] = IF j = i THEN w ELSE dbs[j]
    BY <1>1 DEF IInv, AllWellFormed
  <1>3. ZView = B /\ ZView' = C
    <2>1. ZView = B
      BY ZViewShows
    <2>2. ZView' = C
      BY DEF ZView, Shows
    <2>3. QED
      BY <2>1, <2>2
  <1>4. /\ Shows(w, k, now) = [Shows(l, k, now) EXCEPT !.pairs = P]
        /\ \A q \in Keys : q # k => Shows(w, q, now) = Shows(l, q, now)
    BY ZDoneShows DEF ZAllWell
  <1> HIDE DEF P
  <1>5. C = [B EXCEPT ![i] = [@ EXCEPT ![k].pairs = P]]
    <2> DEFINE D == [B EXCEPT ![i] = [@ EXCEPT ![k].pairs = P]]
    <2>1. D = [j \in Dbs |-> IF j = i THEN [B[i] EXCEPT ![k].pairs = P] ELSE B[j]]
      OBVIOUS
    <2>2. [B[i] EXCEPT ![k].pairs = P]
            = [q \in Keys |-> IF q = k THEN [Shows(l, k, now) EXCEPT !.pairs = P]
                              ELSE Shows(l, q, now)]
      OBVIOUS
    <2>3. [q \in Keys |-> Shows(w, q, now)]
            = [q \in Keys |-> IF q = k THEN [Shows(l, k, now) EXCEPT !.pairs = P]
                              ELSE Shows(l, q, now)]
      BY <1>4
    <2>4. \A j \in Dbs : C[j] = IF j = i THEN [q \in Keys |-> Shows(w, q, now)] ELSE B[j]
      BY <1>1, <1>2
    <2>5. \A j \in Dbs : C[j] = IF j = i THEN [B[i] EXCEPT ![k].pairs = P] ELSE B[j]
      BY <2>2, <2>3, <2>4
    <2>6. C = [j \in Dbs |-> C[j]]
      OBVIOUS
    <2> HIDE DEF B, C, D
    <2>7. C = D
      BY <2>1, <2>5, <2>6
    <2>8. QED
      BY <2>7 DEF D
  <1>6. Ranks!Here(k) = Shows(l, k, now)
    BY <1>1, <1>3 DEF Ranks!Here
  <1> HIDE DEF B, C
  <1>7. Ranks!Serve(op, k, P, out.reply)
    BY <1>1, <1>3, <1>5 DEF Ranks!Serve
  <1>8. QED
    BY <1>1, <1>6, <1>7, ShowsMeans DEF P

-----------------------------------------------------------------------------
(* The commands that take members out.                                     *)

\* The members ms of the sorted set under k are those of the pairs T.
Takes(l, k, ms, T) ==
  ZSetStored(l, k) => LET w == RemoveMembers(l.data[k], ms)
                      IN  ZOK(w) /\ PairsOf(w) = PairsOf(l.data[k]) \ T

LEMMA TakeOutDone ==
  ASSUME NEW l, ZWell(l), NEW k \in Keys, NEW none, NEW ms, NEW answer, NEW T,
         Takes(l, k, ms, T)
  PROVE  LET out == TakeOut(l, k, none, ms, answer)
         IN  /\ ZDone(l, k, out.ldb) /\ PairsAt(out.ldb, k) = PairsAt(l, k) \ T
             /\ out.reply = IF ~Stored(l, k) THEN none
                            ELSE IF OtherAt(l, k) THEN Err("WRONGTYPE") ELSE answer
             /\ ZHollow(out.ldb, k) => ZHollow(l, k)
             /\ ~ZSetStored(l, k) => out.ldb = l
  <1> DEFINE out == TakeOut(l, k, none, ms, answer)
             w == RemoveMembers(l.data[k], ms)
  <1>1. CASE ~Stored(l, k)
    <2>1. out = Out(l, none)
      BY <1>1 DEF TakeOut
    <2> HIDE DEF out
    <2>2. out.ldb = l /\ out.reply = none
      BY <2>1 DEF Out
    <2>3. PairsAt(l, k) = {}
      BY <1>1 DEF PairsAt, ZSetStored
    <2>4. QED
      BY <1>1, <2>2, <2>3 DEF ZDone, out
  <1>2. CASE OtherAt(l, k)
    <2>1. out = Out(l, Err("WRONGTYPE"))
      BY <1>2 DEF TakeOut, OtherAt
    <2> HIDE DEF out
    <2>2. out.ldb = l /\ out.reply = Err("WRONGTYPE")
      BY <2>1 DEF Out
    <2>3. PairsAt(l, k) = {} /\ Stored(l, k)
      BY <1>2 DEF PairsAt, ZSetStored, OtherAt
    <2>4. QED
      BY <1>2, <2>2, <2>3 DEF ZDone, out
  <1>3. CASE ZSetStored(l, k)
    <2>1. Stored(l, k) /\ IsZSet(l.data[k]) /\ ~OtherAt(l, k) /\ PairsAt(l, k) = PairsOf(l.data[k])
      BY <1>3 DEF ZSetStored, OtherAt, PairsAt
    <2>2. ZOK(w) /\ PairsOf(w) = PairsOf(l.data[k]) \ T
      BY <1>3 DEF Takes
    <2>3. out = Out(PutBack(l, k, w), answer)
      BY <2>1 DEF TakeOut
    <2> HIDE DEF out, w
    <2>4. out.ldb = PutBack(l, k, w) /\ out.reply = answer
      BY <2>3 DEF Out
    <2>5. CASE Members(w) = {}
      <3>1. out.ldb = RemoveKey(l, k)
        BY <2>4, <2>5 DEF PutBack
      <3>2. PairsOf(w) = {}
        BY <2>5 DEF PairsOf
      <3>3. PairsAt(out.ldb, k) = {} /\ ~ZHollow(out.ldb, k)
        BY <3>1, ZRemoves DEF ZHollow, ZSetStored
      <3>4. ZDone(l, k, out.ldb)
        BY <2>1, <3>1 DEF ZDone
      <3>5. QED
        BY <1>3, <2>1, <2>2, <2>4, <3>2, <3>3, <3>4 DEF out
    <2>6. CASE Members(w) # {}
      <3>1. out.ldb = Write(l, k, w)
        BY <2>4, <2>6 DEF PutBack
      <3>2. PairsAt(out.ldb, k) = PairsOf(w) /\ out.ldb.data[k] = w
        BY <2>2, <3>1, ZWrites
      <3>3. ~ZHollow(out.ldb, k)
        BY <2>6, <3>2 DEF ZHollow
      <3>4. ZDone(l, k, out.ldb)
        BY <2>1, <2>2, <3>1 DEF ZDone
      <3>5. QED
        BY <1>3, <2>1, <2>2, <2>4, <3>2, <3>3, <3>4 DEF out
    <2>7. QED
      BY <2>5, <2>6
  <1>4. QED
    BY <1>1, <1>2, <1>3 DEF OtherAt, ZSetStored

\* Such a command about k, as Ranking sees it.
LEMMA TakeServes ==
  ASSUME IInv, ZAllWell, NEW op, NEW i \in Dbs, NEW k \in Keys, NEW arg, NEW none, NEW ms,
         NEW answer, NEW T, Takes(dbs[i], k, ms, T), ~Dead(dbs[i], k, now),
         Run(op, i, {k}, arg, TakeOut(dbs[i], k, none, ms, answer))
  PROVE  /\ Ranks!Here(k) = [other |-> OtherAt(dbs[i], k), pairs |-> PairsAt(dbs[i], k)]
         /\ last'.db = i /\ last'.op = op /\ last'.arg = arg
         /\ OtherAt(dbs[i], k) => Ranks!Refuse(op, k, Err("WRONGTYPE"))
         /\ ~OtherAt(dbs[i], k) =>
              Ranks!Serve(op, k, Ranks!Here(k).pairs \ T,
                          IF Stored(dbs[i], k) THEN answer ELSE none)
  <1> DEFINE out == TakeOut(dbs[i], k, none, ms, answer)
             l == dbs[i]
  <1>1. ZWell(l)
    BY DEF ZAllWell
  <1>2. /\ ZDone(l, k, out.ldb) /\ PairsAt(out.ldb, k) = PairsAt(l, k) \ T
        /\ out.reply = IF ~Stored(l, k) THEN none
                       ELSE IF OtherAt(l, k) THEN Err("WRONGTYPE") ELSE answer
        /\ ~ZSetStored(l, k) => out.ldb = l
    BY <1>1, TakeOutDone
  <1>3. Run(op, i, {k}, arg, out)
    OBVIOUS
  <1> HIDE DEF out
  <1>4. /\ Ranks!Serve(op, k, PairsAt(out.ldb, k), out.reply)
        /\ Ranks!Here(k) = [other |-> OtherAt(l, k), pairs |-> PairsAt(l, k)]
        /\ last'.db = i
    BY <1>2, <1>3, ZServes
  <1>5. last'.op = op /\ last'.arg = arg
    BY <1>3 DEF Run
  <1>6. Ranks!Here(k).pairs = PairsAt(l, k)
    BY <1>4
  <1>7. OtherAt(l, k) => Ranks!Refuse(op, k, Err("WRONGTYPE"))
    <2>1. SUFFICES ASSUME OtherAt(l, k)
                   PROVE  Ranks!Refuse(op, k, Err("WRONGTYPE"))
      OBVIOUS
    <2>2. Stored(l, k) /\ ~ZSetStored(l, k)
      BY <2>1 DEF OtherAt, ZSetStored
    <2>3. out.reply = Err("WRONGTYPE") /\ out.ldb = l
      BY <1>2, <2>1, <2>2
    <2>4. QED
      BY <1>4, <1>6, <2>3 DEF Ranks!Refuse
  <1>8. ~OtherAt(l, k) => out.reply = IF Stored(l, k) THEN answer ELSE none
    BY <1>2
  <1>9. QED
    BY <1>2, <1>4, <1>5, <1>6, <1>7, <1>8

LEMMA RankingNames ==
  {"ZINCRBY", "ZREM", "ZREMRANGEBYSCORE", "ZREMRANGEBYRANK", "ZPOPMIN", "ZPOPMAX"}
    = Ranks!RankingOps \ {"ZADD"}
  BY DEF Ranks!RankingOps

\* A refusal for the type, and a removal, are steps of Ranking.
LEMMA RefusedForType ==
  ASSUME NEW k \in Keys, last'.db \in Dbs, Ranks!Here(k).other, NEW op,
         op \in Ranks!RankingOps \ {"ZADD"}, last'.op = op,
         Ranks!Refuse(op, k, Err("WRONGTYPE"))
  PROVE  Ranks!Next
  BY SameOperators DEF Ranks!Next

LEMMA TakenAsPromised ==
  ASSUME NEW k \in Keys, last'.db \in Dbs, ~Ranks!Here(k).other, Ranks!TakePromise(k)
  PROVE  Ranks!Next
  BY DEF Ranks!Next

LEMMA TakesShown ==
  ASSUME NEW l, ZWell(l), NEW k \in Keys, NEW R, NEW T, NEW s,
         ZSetStored(l, k) => T \in SUBSET PairsOf(l.data[k]) /\ Lists(R, s, T)
  PROVE  Takes(l, k, MembersOf(s), T)
  <1>1. CASE ZSetStored(l, k)
    <2>1. ZOK(l.data[k]) /\ T \in SUBSET PairsOf(l.data[k]) /\ Lists(R, s, T)
      BY <1>1 DEF ZWell
    <2>2. QED
      BY <2>1, ShownTakenOut DEF Takes
  <1>2. CASE ~ZSetStored(l, k)
    BY <1>2 DEF Takes
  <1>3. QED
    BY <1>1, <1>2

\* ZREM
LEMMA ZRemTakes ==
  ASSUME NEW l, ZWell(l), NEW k \in Keys, NEW ms \in Seq(Chunks)
  PROVE  LET T == {p \in PairsAt(l, k) : \E j \in DOMAIN ms : ms[j] = p[2]}
         IN  /\ Takes(l, k, ms, T)
             /\ ZSetStored(l, k) =>
                  Cardinality({ms[j] : j \in 1..Len(ms)} \cap Members(l.data[k])) = Cardinality(T)
             /\ ~Stored(l, k) => Cardinality(T) = 0
  <1> DEFINE T == {p \in PairsAt(l, k) : \E j \in DOMAIN ms : ms[j] = p[2]}
             M == {ms[j] : j \in 1..Len(ms)}
             z == l.data[k]
  <1>1. DOMAIN ms = 1..Len(ms)
    OBVIOUS
  <1>2. CASE ZSetStored(l, k)
    <2>1. ZOK(z) /\ PairsAt(l, k) = PairsOf(z)
      BY <1>2 DEF ZWell, PairsAt
    <2>2. T = {p \in PairsOf(z) : p[2] \in M}
      BY <1>1, <2>1
    <2>3. /\ ZOK(RemoveMembers(z, ms))
          /\ PairsOf(RemoveMembers(z, ms)) = Ranks!Drop(PairsOf(z), M)
      BY <2>1, RemovedMembers
    <2> HIDE DEF M, T
    <2>4. Ranks!Drop(PairsOf(z), M) = PairsOf(z) \ T
      BY <2>2 DEF Ranks!Drop
    <2>5. Cardinality(M \cap Members(z)) = Cardinality(T)
      BY <2>1, <2>2, PairsOfSome
    <2>6. QED
      BY <1>2, <2>3, <2>4, <2>5 DEF Takes, M, T, ZSetStored
  <1>3. CASE ~ZSetStored(l, k)
    <2>1. T = {}
      BY <1>3 DEF PairsAt
    <2> HIDE DEF T
    <2>2. Cardinality(T) = 0
      BY <2>1, FS_EmptySet
    <2>3. QED
      BY <1>3, <2>2 DEF Takes, T
  <1>4. QED
    BY <1>2, <1>3

\* ZREMRANGEBYSCORE
LEMMA ZByScoreTakes ==
  ASSUME NEW l, ZWell(l), NEW k \in Keys, NEW lo, NEW hi
  PROVE  LET T == {p \in PairsAt(l, k) : Ranks!Inside(p, lo, hi)}
             range == Between(Iter(l.data[k].sl), lo, hi)
         IN  /\ Takes(l, k, MembersOf(range), T)
             /\ ZSetStored(l, k) => Len(range) = Cardinality(T)
             /\ ~Stored(l, k) => Cardinality(T) = 0
  <1> DEFINE T == {p \in PairsAt(l, k) : Ranks!Inside(p, lo, hi)}
             range == Between(Iter(l.data[k].sl), lo, hi)
             z == l.data[k]
  <1>1. CASE ZSetStored(l, k)
    <2>1. ZOK(z) /\ PairsAt(l, k) = PairsOf(z)
      BY <1>1 DEF ZWell, PairsAt
    <2>2. T = Within(PairsOf(z), lo, hi)
      BY <2>1 DEF Within
    <2> HIDE DEF T
    <2>3. T \in SUBSET PairsOf(z) /\ T \in SUBSET Nodes /\ IsFiniteSet(T)
          /\ range = Ranks!Ascending(T) /\ Len(range) = Cardinality(T)
      BY <2>1, <2>2, BetweenInOrder
    <2> HIDE DEF range
    <2>4. Lists(Up, range, T)
      BY <2>3, AscendingIsLine
    <2>5. Takes(l, k, MembersOf(range), T)
      BY <2>3, <2>4, TakesShown
    <2>6. QED
      BY <1>1, <2>3, <2>5 DEF T, range, ZSetStored
  <1>2. CASE ~ZSetStored(l, k)
    <2>1. T = {}
      BY <1>2 DEF PairsAt
    <2> HIDE DEF T
    <2>2. Cardinality(T) = 0
      BY <2>1, FS_EmptySet
    <2>3. QED
      BY <1>2, <2>2 DEF Takes, T
  <1>3. QED
    BY <1>1, <1>2

\* t lists a part of S.
ListsPart(R, S, t) ==
  {t[j] : j \in DOMAIN t} \in SUBSET S /\ Lists(R, t, {t[j] : j \in DOMAIN t})

\* skip(m).take(d) of a list lists a part of what the list lists.
LEMMA SkipTakeLists ==
  ASSUME NEW R, NEW S, NEW s, Lists(R, s, S), NEW m \in Nat, NEW d \in Nat, m <= Len(s)
  PROVE  ListsPart(R, S, SkipTake(s, m, d))
  <1> DEFINE t == SkipTake(s, m, d)
             N == Len(s)
             n == IF m + d < N THEN m + d ELSE N
             E == {s[i] : i \in (m + 1)..n}
  <1>1. s \in Seq(S) /\ N \in Nat /\ \A i \in 1..N : s[i] \in S
    BY DEF Lists
  <1>2. n \in Nat /\ m <= n /\ n <= N
    BY <1>1
  <1>3. t = SubSeq(s, m + 1, n)
    BY DEF SkipTake
  <1> HIDE DEF n, t
  <1>4. Lists(R, t, E)
    <2>1. n \in Nat /\ m <= n /\ n <= Len(s)
      BY <1>2
    <2>2. Lists(R, SubSeq(s, m + 1, n), {s[i] : i \in (m + 1)..n})
      BY ONLY <2>1, StretchLists, Lists(R, s, S), m \in Nat
    <2>3. QED
      BY <1>3, <2>2
  <1>5. E \in SUBSET S
    <2>1. \A i \in (m + 1)..n : i \in 1..N
      BY <1>1, <1>2
    <2>2. QED
      BY <1>1, <2>1
  <1> HIDE DEF E
  <1>6. t \in Seq(E) /\ \A x \in E : \E j \in 1..Len(t) : t[j] = x
    BY <1>4 DEF Lists
  <1>7. DOMAIN t = 1..Len(t) /\ \A j \in 1..Len(t) : t[j] \in E
    BY <1>6
  <1>8. {t[j] : j \in DOMAIN t} = E
    BY <1>6, <1>7
  <1>9. QED
    BY <1>4, <1>5, <1>8 DEF ListsPart, t

\* ZREMRANGEBYRANK, whatever the ranks.
LEMMA ByIndexLists ==
  ASSUME NEW z, ZOK(z), NEW start \in Int, NEW stop \in Int
  PROVE  \E T \in SUBSET PairsOf(z) : Lists(Up, ByIndex(z, start, stop), T)
  <1> DEFINE len == Cardinality(Members(z))
             from == Least(NormalizeIndex(start, len), len)
             to == Least(NormalizeIndex(stop, len), IF len = 0 THEN 0 ELSE len - 1)
             s == ByIndex(z, start, stop)
  <1>1. len \in Nat /\ Lists(Up, Iter(z.sl), PairsOf(z)) /\ Len(Iter(z.sl)) = len
    BY ShownInOrder, AsManyMembers
  <1>2. s = IF from > to THEN <<>> ELSE SkipTake(Iter(z.sl), from, to - from + 1)
    BY DEF ByIndex
  <1>3. from \in Nat /\ to \in Nat /\ from <= len
    BY <1>1 DEF Least, NormalizeIndex
  <1> HIDE DEF from, to, s
  <1>4. CASE from > to
    <2>1. s = <<>> /\ {} \in SUBSET PairsOf(z) /\ Lists(Up, <<>>, {})
      BY <1>2, <1>4 DEF Lists
    <2>2. QED
      BY <2>1 DEF s
  <1>5. CASE ~(from > to)
    <2>1. s = SkipTake(Iter(z.sl), from, to - from + 1)
      BY <1>2, <1>5
    <2>2. to - from + 1 \in Nat /\ from <= Len(Iter(z.sl))
      BY <1>1, <1>3, <1>5
    <2>3. ListsPart(Up, PairsOf(z), s)
      BY <1>1, <1>3, <2>1, <2>2, SkipTakeLists
    <2>4. QED
      BY <2>3 DEF ListsPart, s
  <1>6. QED
    BY <1>4, <1>5

LEMMA ZByRankTakes ==
  ASSUME NEW l, ZWell(l), NEW k \in Keys, NEW start \in Int, NEW stop \in Int
  PROVE  LET T == Ranks!RankedIn(PairsAt(l, k), start, stop)
             range == ByIndex(l.data[k], start, stop)
         IN  /\ \E U : Takes(l, k, MembersOf(range), U)
             /\ stop >= -Cardinality(PairsAt(l, k)) =>
                  /\ Takes(l, k, MembersOf(range), T)
                  /\ ZSetStored(l, k) => Len(range) = Cardinality(T)
             /\ ~Stored(l, k) => Cardinality(T) = 0
  <1> DEFINE T == Ranks!RankedIn(PairsAt(l, k), start, stop)
             range == ByIndex(l.data[k], start, stop)
             z == l.data[k]
  <1>1. CASE ZSetStored(l, k)
    <2>1. ZOK(z) /\ PairsAt(l, k) = PairsOf(z) /\ Stored(l, k)
      BY <1>1 DEF ZWell, PairsAt, ZSetStored
    <2>2. PICK U \in SUBSET PairsOf(z) : Lists(Up, range, U)
      BY <2>1, ByIndexLists
    <2>3. Takes(l, k, MembersOf(range), U)
      BY <2>2, TakesShown
    <2>4. ASSUME stop >= -Cardinality(PairsAt(l, k))
          PROVE  Takes(l, k, MembersOf(range), T) /\ Len(range) = Cardinality(T)
      <3>1. T \in SUBSET PairsOf(z) /\ Len(range) = Cardinality(T) /\ Lists(Up, range, T)
        BY <2>1, <2>4, ByIndexIsRanked
      <3> HIDE DEF T, range
      <3>2. Takes(l, k, MembersOf(range), T)
        BY <3>1, TakesShown
      <3>3. QED
        BY <3>1, <3>2
    <2> HIDE DEF T, range
    <2>5. QED
      BY <2>1, <2>3, <2>4 DEF T, range
  <1>2. CASE ~ZSetStored(l, k)
    <2>1. T = {}
      BY <1>2 DEF PairsAt, Ranks!RankedIn
    <2> HIDE DEF T
    <2>2. Cardinality(T) = 0
      BY <2>1, FS_EmptySet
    <2>3. QED
      BY <1>2, <2>2 DEF Takes, T
  <1>3. QED
    BY <1>1, <1>2

\* ZPOPMIN and ZPOPMAX
LEMMA ZPopTakes ==
  ASSUME NEW l, ZWell(l), NEW k \in Keys, NEW n \in Nat
  PROVE  LET lowest == SkipTake(Iter(l.data[k].sl), 0, n)
             highest == SkipTake(IterRev(l.data[k].sl), 0, n)
         IN  /\ Takes(l, k, MembersOf(lowest), {lowest[j] : j \in DOMAIN lowest})
             /\ Takes(l, k, MembersOf(highest), {highest[j] : j \in DOMAIN highest})
             /\ ZSetStored(l, k) =>
                  /\ lowest = Ranks!First(Ranks!Ascending(PairsAt(l, k)), n)
                  /\ highest = Ranks!First(Ranks!Descending(PairsAt(l, k)), n)
  <1> DEFINE z == l.data[k]
             lowest == SkipTake(Iter(z.sl), 0, n)
             highest == SkipTake(IterRev(z.sl), 0, n)
  <1>1. CASE ZSetStored(l, k)
    <2>1. ZOK(z) /\ PairsAt(l, k) = PairsOf(z)
      BY <1>1 DEF ZWell, PairsAt
    <2>2. /\ Iter(z.sl) = Ranks!Ascending(PairsOf(z)) /\ IterRev(z.sl) = Ranks!Descending(PairsOf(z))
          /\ Lists(Up, Iter(z.sl), PairsOf(z)) /\ Lists(Down, IterRev(z.sl), PairsOf(z))
      BY <2>1, ShownInOrder
    <2>3. ASSUME NEW s
          PROVE  SkipTake(s, 0, n) = Ranks!First(s, n)
      <3>1. 0 + 1 = 1 /\ 0 + n = n
        OBVIOUS
      <3>2. QED
        BY <3>1 DEF SkipTake, Ranks!First
    <2>4. Len(Iter(z.sl)) \in Nat /\ Len(IterRev(z.sl)) \in Nat
      BY <2>2 DEF Lists
    <2>5. 0 \in Nat /\ 0 <= Len(Iter(z.sl)) /\ 0 <= Len(IterRev(z.sl))
      BY <2>4
    <2>6. /\ {lowest[j] : j \in DOMAIN lowest} \in SUBSET PairsOf(z)
          /\ Lists(Up, lowest, {lowest[j] : j \in DOMAIN lowest})
      <3>1. Lists(Up, Iter(z.sl), PairsOf(z)) /\ 0 \in Nat /\ n \in Nat /\ 0 <= Len(Iter(z.sl))
        BY <2>2, <2>5
      <3>2. ListsPart(Up, PairsOf(z), lowest)
        BY <3>1, SkipTakeLists
      <3>3. QED
        BY <3>2 DEF ListsPart
    <2>7. /\ {highest[j] : j \in DOMAIN highest} \in SUBSET PairsOf(z)
          /\ Lists(Down, highest, {highest[j] : j \in DOMAIN highest})
      <3>1. Lists(Down, IterRev(z.sl), PairsOf(z)) /\ 0 \in Nat /\ n \in Nat /\ 0 <= Len(IterRev(z.sl))
        BY <2>2, <2>5
      <3>2. ListsPart(Down, PairsOf(z), highest)
        BY <3>1, SkipTakeLists
      <3>3. QED
        BY <3>2 DEF ListsPart
    <2>8. lowest = Ranks!First(Ranks!Ascending(PairsAt(l, k)), n)
          /\ highest = Ranks!First(Ranks!Descending(PairsAt(l, k)), n)
      BY <2>1, <2>2, <2>3
    <2> HIDE DEF lowest, highest
    <2>9. /\ Takes(l, k, MembersOf(lowest), {lowest[j] : j \in DOMAIN lowest})
          /\ Takes(l, k, MembersOf(highest), {highest[j] : j \in DOMAIN highest})
      BY <2>6, <2>7, TakesShown
    <2>10. QED
      BY <2>8, <2>9 DEF lowest, highest
  <1>2. CASE ~ZSetStored(l, k)
    BY <1>2 DEF Takes
  <1>3. QED
    BY <1>1, <1>2

-----------------------------------------------------------------------------
(* ZINCRBY.                                                                *)

\* or_insert_with: the sorted set that is there, or a new one.
LEMMA ZEntry ==
  ASSUME NEW l, ZWell(l), NEW k \in Keys
  PROVE  LET e == EntryOr(l, k, NewZSet)
             z == e.data[k]
         IN  /\ OtherAt(l, k) => e = l /\ ~IsZSet(z)
             /\ ~OtherAt(l, k) =>
                  /\ IsZSet(z) /\ ZOK(z) /\ PairsOf(z) = PairsAt(l, k)
                  /\ Members(z) = {} => ZHollow(l, k) \/ ~Stored(l, k)
                  /\ Stored(l, k) => e = l
             /\ ZDone(l, k, e) /\ PairsAt(e, k) = PairsAt(l, k)
             /\ ZHollow(e, k) => ZHollow(l, k) \/ ~Stored(l, k)
             /\ \A w : Write(e, k, w) = Write(l, k, w)
  <1> DEFINE e == EntryOr(l, k, NewZSet)
             z == e.data[k]
  <1>1. CASE Stored(l, k)
    <2>1. e = l
      BY <1>1 DEF EntryOr
    <2> HIDE DEF e
    <2>2. CASE OtherAt(l, k)
      BY <1>1, <2>1, <2>2 DEF OtherAt, ZDone, e
    <2>3. CASE ~OtherAt(l, k)
      <3>1. IsZSet(z) /\ ZSetStored(l, k) /\ z = l.data[k]
        BY <1>1, <2>1, <2>3 DEF OtherAt, ZSetStored
      <3>2. ZOK(z) /\ PairsOf(z) = PairsAt(l, k)
        BY <3>1 DEF ZWell, PairsAt
      <3>3. Members(z) = {} => ZHollow(l, k)
        BY <3>1 DEF ZHollow
      <3>4. QED
        BY <1>1, <2>1, <2>3, <3>1, <3>2, <3>3 DEF ZDone, e
    <2>4. QED
      BY <2>2, <2>3
  <1>2. CASE ~Stored(l, k)
    <2>1. e = Write(l, k, NewZSet)
      BY <1>2 DEF EntryOr
    <2>2. \A w : Write(e, k, w) = Write(l, k, w)
      BY <1>2 DEF EntryOr, Write, ZWell, WellFormed, LDBs
    <2> HIDE DEF e
    <2>3. ~OtherAt(l, k) /\ PairsAt(l, k) = {}
      BY <1>2 DEF OtherAt, PairsAt, ZSetStored
    <2>4. ZOK(NewZSet) /\ PairsOf(NewZSet) = {} /\ IsZSet(NewZSet)
      BY NewZSetOK, ZSetShape DEF ZOK
    <2>7. PairsAt(e, k) = PairsOf(NewZSet) /\ z = NewZSet
      BY <2>1, <2>4, ZWrites
    <2>5. ZDone(l, k, e)
      BY <2>1, <2>3, NewZSetOK DEF ZDone
    <2>6. QED
      BY <1>2, <2>2, <2>3, <2>4, <2>5, <2>7 DEF e
  <1>3. QED
    BY <1>1, <1>2

\* Two infinities of different signs have no sum.
LEMMA PlusAsPromised ==
  ASSUME NEW s \in Scores, NEW d \in Scores \cup {NaN}
  PROVE  LET infinite == {s, d} \cap {-ScoreInf, ScoreInf}
         IN  /\ Plus(s, d) = NaN <=> d = NaN \/ Cardinality(infinite) = 2
             /\ Plus(s, d) # NaN =>
                  Plus(s, d) = IF infinite = {} THEN s + d ELSE CHOOSE x \in infinite : TRUE
  <1> DEFINE infinite == {s, d} \cap {-ScoreInf, ScoreInf}
  <1>1. ScoreInf \in Nat /\ ScoreInf # 0 /\ -ScoreInf # ScoreInf /\ -(-ScoreInf) = ScoreInf
        /\ s \in Int /\ s # NaN /\ ScoreInf # NaN /\ -ScoreInf # NaN
    BY ScoreAssumption, NaNAssumption DEF Scores
  <1>2. CASE d = NaN
    BY <1>2 DEF Plus
  <1>3. CASE d # NaN
    <2>1. d \in Int /\ s + d \in Int /\ s + d # NaN
      BY <1>1, <1>3, NaNAssumption DEF Scores
    <2>2. CASE s \in {-ScoreInf, ScoreInf} /\ d = -s
      <3>1. infinite = {s} \cup {d} /\ d \notin {s} /\ d # s
        BY <1>1, <2>2
      <3>2. IsFiniteSet({s}) /\ Cardinality({s}) = 1
        BY FS_Singleton
      <3>3. Cardinality({s} \cup {d}) = 2
        BY <3>1, <3>2, FS_AddElement
      <3>4. Plus(s, d) = NaN
        BY <2>2 DEF Plus
      <3>5. QED
        BY <3>1, <3>3, <3>4
    <2>3. CASE ~(s \in {-ScoreInf, ScoreInf} /\ d = -s)
      <3>1. Plus(s, d) = IF s \in {-ScoreInf, ScoreInf} THEN s
                         ELSE IF d \in {-ScoreInf, ScoreInf} THEN d ELSE s + d
        BY <1>3, <2>3 DEF Plus
      <3>2. CASE s \in {-ScoreInf, ScoreInf}
        <4>1. infinite = {s}
          BY <1>1, <2>1, <2>3, <3>2
        <4>2. Cardinality({s}) = 1 /\ (CHOOSE x \in {s} : TRUE) = s /\ {s} # {}
          BY FS_Singleton
        <4> HIDE DEF infinite
        <4>3. QED
          BY <1>1, <1>3, <3>1, <3>2, <4>1, <4>2 DEF infinite
      <3>3. CASE s \notin {-ScoreInf, ScoreInf} /\ d \in {-ScoreInf, ScoreInf}
        <4>1. infinite = {d}
          BY <3>3
        <4>2. Cardinality({d}) = 1 /\ (CHOOSE x \in {d} : TRUE) = d /\ {d} # {}
          BY FS_Singleton
        <4> HIDE DEF infinite
        <4>3. QED
          BY <1>3, <3>1, <3>3, <4>1, <4>2 DEF infinite
      <3>4. CASE s \notin {-ScoreInf, ScoreInf} /\ d \notin {-ScoreInf, ScoreInf}
        <4>1. infinite = {}
          BY <3>4
        <4>2. Cardinality({}) = 0
          BY FS_EmptySet
        <4> HIDE DEF infinite
        <4>3. QED
          BY <1>3, <2>1, <3>1, <3>4, <4>1, <4>2 DEF infinite
      <3>5. QED
        BY <3>2, <3>3, <3>4
    <2>4. QED
      BY <2>2, <2>3
  <1>4. QED
    BY <1>2, <1>3

ScoreAt(P, m) == IF Ranks!Has(P, m) THEN Ranks!ScoreIn(P, m) ELSE 0

LEMMA ZIncrDone ==
  ASSUME NEW l, ZWell(l), NEW k \in Keys, NEW d \in Scores \cup {NaN}, NEW m \in Chunks,
         NEW height \in 1..MaxLevel,
         LET sum == Plus(ScoreAt(PairsAt(l, k), m), d) IN sum = NaN \/ sum \in Scores
  PROVE  LET out == ZIncrBy(l, k, d, m, height)
             P == PairsAt(l, k)
             sum == Plus(ScoreAt(P, m), d)
         IN  /\ ZDone(l, k, out.ldb)
             /\ OtherAt(l, k) => out.reply = Err("WRONGTYPE") /\ out.ldb = l
             /\ ~OtherAt(l, k) /\ sum = NaN => out.reply = Err("SCORENAN") /\ PairsAt(out.ldb, k) = P
             /\ ~OtherAt(l, k) /\ sum # NaN =>
                  out.reply = Num(sum) /\ PairsAt(out.ldb, k) = Ranks!Put(P, sum, m)
             /\ ZHollow(out.ldb, k) =>
                  ZHollow(l, k) \/ (~Stored(l, k) /\ out.reply = Err("SCORENAN"))
  <1> DEFINE out == ZIncrBy(l, k, d, m, height)
             P == PairsAt(l, k)
             sum == Plus(ScoreAt(P, m), d)
             e == EntryOr(l, k, NewZSet)
             z == e.data[k]
             mine == IF m \in Members(z) THEN z.scores[m] ELSE 0
  <1>1. /\ OtherAt(l, k) => e = l /\ ~IsZSet(z)
        /\ ~OtherAt(l, k) =>
             /\ IsZSet(z) /\ ZOK(z) /\ PairsOf(z) = P
             /\ Members(z) = {} => ZHollow(l, k) \/ ~Stored(l, k)
             /\ Stored(l, k) => e = l
        /\ ZDone(l, k, e) /\ PairsAt(e, k) = P
        /\ ZHollow(e, k) => ZHollow(l, k) \/ ~Stored(l, k)
        /\ \A w : Write(e, k, w) = Write(l, k, w)
    BY ZEntry
  <1>2. out = IF ~IsZSet(z) THEN Out(e, Err("WRONGTYPE"))
              ELSE IF Plus(mine, d) = NaN THEN Out(e, Err("SCORENAN"))
              ELSE Out(Write(e, k, AddMember(z, m, Plus(mine, d), height)), Num(Plus(mine, d)))
    BY DEF ZIncrBy
  <1>3. ~OtherAt(l, k) => mine = ScoreAt(P, m)
    BY <1>1, ScoresAreThePairs DEF ScoreAt
  <1> HIDE DEF out, e, mine, sum
  <1>4. sum = NaN \/ sum \in Scores
    BY DEF sum
  <1>5. CASE OtherAt(l, k)
    <2>1. out.ldb = l /\ out.reply = Err("WRONGTYPE")
      BY <1>1, <1>2, <1>5 DEF Out
    <2>2. QED
      BY <1>5, <2>1 DEF ZDone, out
  <1>6. CASE ~OtherAt(l, k) /\ sum = NaN
    <2>1. out.ldb = e /\ out.reply = Err("SCORENAN")
      BY <1>1, <1>2, <1>3, <1>6 DEF Out, sum
    <2>2. ZHollow(out.ldb, k) => ZHollow(l, k) \/ (~Stored(l, k) /\ out.reply = Err("SCORENAN"))
      BY <1>1, <2>1
    <2>3. QED
      BY <1>1, <1>6, <2>1, <2>2 DEF out, sum
  <1>7. CASE ~OtherAt(l, k) /\ sum # NaN
    <2> DEFINE w == AddMember(z, m, sum, height)
    <2>1. ZOK(z) /\ PairsOf(z) = P /\ sum \in Scores
      BY <1>1, <1>4, <1>7
    <2>2. out = Out(Write(l, k, w), Num(sum))
      BY <1>1, <1>2, <1>3, <1>7 DEF sum
    <2>3. ZOK(w) /\ Members(w) = Members(z) \cup {m} /\ PairsOf(w) = Ranks!Put(P, sum, m)
      BY <2>1, AddedMember
    <2> HIDE DEF w
    <2>4. out.ldb = Write(l, k, w) /\ out.reply = Num(sum)
      BY <2>2 DEF Out
    <2>5. ZDone(l, k, out.ldb)
      BY <1>7, <2>3, <2>4 DEF ZDone
    <2>6. PairsAt(out.ldb, k) = PairsOf(w) /\ out.ldb.data[k] = w
      BY <2>3, <2>4, ZWrites
    <2>7. ~ZHollow(out.ldb, k)
      BY <2>3, <2>6 DEF ZHollow
    <2>8. QED
      BY <1>7, <2>3, <2>4, <2>5, <2>6, <2>7 DEF out, sum
  <1>8. QED
    BY <1>5, <1>6, <1>7

-----------------------------------------------------------------------------
(* ZADD.                                                                   *)

Flagged == [nx: BOOLEAN, xx: BOOLEAN, gt: BOOLEAN, lt: BOOLEAN, ch: BOOLEAN]

\* One pair of a ZADD.
AddStep(at, s, m, o, height) ==
  IF ~Passes(at.z, s, m, o) THEN at
  ELSE [z |-> AddMember(at.z, m, s, height),
        count |-> IF o.ch \/ m \notin Members(at.z) THEN at.count + 1 ELSE at.count]

Adding(z, pairs, o, heights, n, g) ==
  g = [j \in 0..n |-> IF j = 0 THEN [z |-> z, count |-> 0]
                      ELSE AddStep(g[j - 1], pairs[j][1], pairs[j][2], o, heights[j])]

\* What Ranking has after each pair.
LetIn(P, s, m, o) == IF Ranks!Lets(P, s, m, o) THEN Ranks!Put(P, s, m) ELSE P

LettingIn(P, pairs, o, n, f) ==
  f = [j \in 0..n |-> IF j = 0 THEN P ELSE LetIn(f[j - 1], pairs[j][1], pairs[j][2], o)]

\* w is what Ranking has after the pair <<s, m>>.
SteppedTo(at, w, s, m, o) ==
  LET P == PairsOf(at.z)
  IN  /\ ZOK(w.z) /\ w.count \in Nat /\ PairsOf(w.z) = LetIn(P, s, m, o)
      /\ w.count = IF Ranks!Lets(P, s, m, o) /\ (o.ch \/ ~Ranks!Has(P, m))
                   THEN at.count + 1 ELSE at.count
      /\ Members(w.z) = {} => Members(at.z) = {} /\ w.count = at.count

LEMMA AddStepOK ==
  ASSUME NEW at, ZOK(at.z), at.count \in Nat, NEW s \in Scores, NEW m \in Chunks,
         NEW o \in Flagged, NEW height \in 1..MaxLevel
  PROVE  SteppedTo(at, AddStep(at, s, m, o, height), s, m, o)
  <1> DEFINE w == AddStep(at, s, m, o, height)
             P == PairsOf(at.z)
  <1>1. /\ Ranks!Has(P, m) <=> m \in Members(at.z)
        /\ m \in Members(at.z) => Ranks!ScoreIn(P, m) = at.z.scores[m]
    BY ScoresAreThePairs
  <1>2. Passes(at.z, s, m, o) <=> Ranks!Lets(P, s, m, o)
    BY <1>1 DEF Passes, Ranks!Lets
  <1>3. CASE Passes(at.z, s, m, o)
    <2> DEFINE y == AddMember(at.z, m, s, height)
               c == IF o.ch \/ m \notin Members(at.z) THEN at.count + 1 ELSE at.count
    <2>1. ZOK(y) /\ Members(y) = Members(at.z) \cup {m} /\ PairsOf(y) = Ranks!Put(P, s, m)
      BY AddedMember
    <2>2. w = [z |-> y, count |-> c]
      BY <1>3 DEF AddStep
    <2> HIDE DEF w, y, P
    <2>3. c \in Nat /\ c = IF o.ch \/ ~Ranks!Has(P, m) THEN at.count + 1 ELSE at.count
      BY <1>1
    <2> HIDE DEF c
    <2>4. w.z = y /\ w.count = c
      BY <2>2
    <2>5. Members(w.z) # {}
      BY <2>1, <2>4
    <2>6. PairsOf(w.z) = LetIn(P, s, m, o)
      BY <1>2, <1>3, <2>1, <2>4 DEF LetIn
    <2>7. w.count = IF Ranks!Lets(P, s, m, o) /\ (o.ch \/ ~Ranks!Has(P, m))
                    THEN at.count + 1 ELSE at.count
      BY <1>2, <1>3, <2>3, <2>4
    <2>8. QED
      BY <2>1, <2>3, <2>4, <2>5, <2>6, <2>7 DEF SteppedTo, w, P
  <1>4. CASE ~Passes(at.z, s, m, o)
    <2>1. w = at /\ ~Ranks!Lets(P, s, m, o)
      BY <1>2, <1>4 DEF AddStep
    <2> HIDE DEF w
    <2>2. QED
      BY <2>1 DEF SteppedTo, LetIn, w
  <1>5. QED
    BY <1>3, <1>4

\* Where the first NaN stands, or behind the last pair.
FirstNaN(pairs) ==
  CHOOSE j \in 1..(Len(pairs) + 1) :
    /\ j <= Len(pairs) => pairs[j][1] = NaN
    /\ \A i \in 1..(j - 1) : pairs[i][1] # NaN

LEMMA FirstNaNIsFirst ==
  ASSUME NEW A, NEW pairs \in Seq(A)
  PROVE  LET first == FirstNaN(pairs)
         IN  /\ first \in 1..(Len(pairs) + 1)
             /\ first <= Len(pairs) => pairs[first][1] = NaN
             /\ \A i \in 1..(first - 1) : pairs[i][1] # NaN
  <1> DEFINE N == Len(pairs)
             IsFirst(j) == /\ j \in 1..(N + 1) /\ (j <= N => pairs[j][1] = NaN)
                           /\ \A i \in 1..(j - 1) : pairs[i][1] # NaN
             Clean(j) == \A i \in 1..j : pairs[i][1] # NaN
             G == {j \in 0..N : Clean(j) \/ \E h : IsFirst(h)}
  <1>1. N \in Nat
    OBVIOUS
  <1>2. 0 \in G
    BY <1>1
  <1>3. ASSUME NEW j \in 1..N, j - 1 \in G
        PROVE  j \in G
    <2>1. CASE Clean(j - 1) /\ pairs[j][1] = NaN
      <3>1. IsFirst(j)
        BY <1>1, <2>1
      <3>2. QED
        BY <1>1, <3>1
    <2>2. CASE Clean(j - 1) /\ pairs[j][1] # NaN
      <3>1. \A i \in 1..j : i \in 1..(j - 1) \/ i = j
        OBVIOUS
      <3>2. Clean(j)
        BY <2>2, <3>1
      <3>3. QED
        BY <1>1, <3>2
    <2>3. CASE \E h : IsFirst(h)
      BY <1>1, <2>3
    <2>4. QED
      BY <1>3, <2>1, <2>2, <2>3
  <1>4. N \in G
    <2>1. \A j \in 1..N : j - 1 \in G => j \in G
      BY <1>3
    <2> HIDE DEF G, N
    <2>2. \A j \in 0..N : j \in G
      BY <1>1, <1>2, <2>1, Climb
    <2>3. QED
      BY <1>1, <2>2
  <1>5. \E h : IsFirst(h)
    <2>1. CASE Clean(N)
      <3>1. IsFirst(N + 1)
        BY <1>1, <2>1
      <3>2. QED
        BY <3>1
    <2>2. QED
      BY <1>4, <2>1
  <1>6. IsFirst(FirstNaN(pairs))
    BY <1>5 DEF FirstNaN
  <1>7. QED
    BY <1>6

\* The pairs a ZADD looks at: what it has before the first NaN.
LEMMA HasAdding ==
  ASSUME NEW z, ZOK(z), NEW pairs, NEW n \in Nat,
         \A j \in 1..n : pairs[j] \in Scores \X Chunks,
         NEW o \in Flagged, NEW heights, \A j \in 1..n : heights[j] \in 1..MaxLevel
  PROVE  \E g : Adding(z, pairs, o, heights, n, g)
  <1> DEFINE A == [z: ZSetsOK, count: Nat]
             step == [j \in 1..n |-> [at \in A |->
                        AddStep(at, pairs[j][1], pairs[j][2], o, heights[j])]]
             start == [z |-> z, count |-> 0]
  <1>1. start \in A
    <2>1. z \in ZSetsOK
      BY InZSetsOK
    <2>2. QED
      BY <2>1
  <1>2. step \in [1..n -> [A -> A]]
    <2>1. ASSUME NEW j \in 1..n, NEW at \in A
          PROVE  AddStep(at, pairs[j][1], pairs[j][2], o, heights[j]) \in A
      <3> DEFINE s == pairs[j][1]
                 m == pairs[j][2]
                 w == AddStep(at, s, m, o, heights[j])
                 y == AddMember(at.z, m, s, heights[j])
                 c == IF o.ch \/ m \notin Members(at.z) THEN at.count + 1 ELSE at.count
      <3>1. ZOK(at.z) /\ at.count \in Nat
        BY InZSetsOK
      <3>2. s \in Scores /\ m \in Chunks /\ heights[j] \in 1..MaxLevel
        OBVIOUS
      <3>3. w = at \/ w = [z |-> y, count |-> c]
        BY DEF AddStep
      <3> HIDE DEF w
      <3>4. ZOK(y) /\ c \in Nat
        BY <3>1, <3>2, AddedMember
      <3> HIDE DEF y, c
      <3>5. y \in ZSetsOK
        BY <3>4, InZSetsOK
      <3>6. w \in A
        BY <3>3, <3>4, <3>5
      <3>7. QED
        BY <3>6 DEF w
    <2> HIDE DEF A
    <2>2. QED
      BY <2>1
  <1>3. \A j \in 1..n, at \in A : step[j][at] = AddStep(at, pairs[j][1], pairs[j][2], o, heights[j])
    OBVIOUS
  <1> HIDE DEF step, A, start
  <1>4. PICK f : Stepping(n, A, start, step, f)
    BY <1>1, <1>2, StepByStep
  <1>5. f \in [0..n -> A] /\ f[0] = start /\ \A j \in 1..n : f[j] = step[j][f[j - 1]]
    BY <1>4 DEF Stepping
  <1>6. ASSUME NEW j \in 0..n
        PROVE  f[j] = IF j = 0 THEN start
                      ELSE AddStep(f[j - 1], pairs[j][1], pairs[j][2], o, heights[j])
    <2>1. CASE j = 0
      BY <1>5, <2>1
    <2>2. CASE j # 0
      <3>1. j \in 1..n /\ j - 1 \in 0..n
        BY <2>2
      <3>2. f[j - 1] \in A
        BY <1>5, <3>1
      <3>3. QED
        BY <1>3, <1>5, <2>2, <3>1, <3>2
    <2>3. QED
      BY <2>1, <2>2
  <1>7. f = [j \in 0..n |-> IF j = 0 THEN start
                            ELSE AddStep(f[j - 1], pairs[j][1], pairs[j][2], o, heights[j])]
    BY <1>5, <1>6
  <1>8. QED
    BY <1>7 DEF Adding, start

\* The pairs that Ranking counts.
CountsIn(P, s, m, o) ==
  Ranks!Lets(P, s, m, o) /\ (~Ranks!Has(P, m) \/ (o.ch /\ Ranks!ScoreIn(P, m) # s))

CountedIn(f, pairs, o, n) ==
  {j \in 1..n : CountsIn(f[j - 1], pairs[j][1], pairs[j][2], o)}

\* A pair that is there already.
Repeats(P, pairs) ==
  \E j \in DOMAIN pairs : pairs[j] \in P \/ \E h \in 1..(j - 1) : pairs[h] = pairs[j]

\* The sorted set and the count after j of the pairs.
AddedSoFar(z, pairs, o, g, j) ==
  LET f(h) == PairsOf(g[h].z)
      counted == {h \in 1..j : CountsIn(f(h - 1), pairs[h][1], pairs[h][2], o)}
  IN  /\ ZOK(g[j].z) /\ g[j].count \in Nat
      /\ \A p \in f(j) : p \in PairsOf(z) \/ \E h \in 1..j : pairs[h] = p
      /\ Members(g[j].z) = {} => Members(z) = {} /\ g[j].count = 0
      /\ IsFiniteSet(counted)
      /\ g[j].count = Cardinality(counted) \/ (o.ch /\ Repeats(PairsOf(z), pairs))

LetInNext(pairs, o, g, j) ==
  PairsOf(g[j].z) = LetIn(PairsOf(g[j - 1].z), pairs[j][1], pairs[j][2], o)

LEMMA AddingKeepsOn ==
  ASSUME NEW z, ZOK(z), NEW pairs \in Seq((Scores \cup {NaN}) \X Chunks), NEW n \in 0..Len(pairs),
         \A j \in 1..n : pairs[j] \in Scores \X Chunks,
         NEW o \in Flagged, NEW heights, \A j \in 1..n : heights[j] \in 1..MaxLevel,
         NEW g, Adding(z, pairs, o, heights, n, g), NEW j \in 1..n,
         AddedSoFar(z, pairs, o, g, j - 1)
  PROVE  AddedSoFar(z, pairs, o, g, j) /\ LetInNext(pairs, o, g, j)
  <1> DEFINE at == g[j - 1]
             s == pairs[j][1]
             m == pairs[j][2]
             P == PairsOf(at.z)
             f(h) == PairsOf(g[h].z)
             Q(h) == CountsIn(f(h - 1), pairs[h][1], pairs[h][2], o)
             C(i) == {h \in 1..i : Q(h)}
  <1>1. j \in Nat /\ j - 1 \in Nat /\ j \in 1..Len(pairs) /\ DOMAIN pairs = 1..Len(pairs) /\ j \in 0..n
    OBVIOUS
  <1>2. s \in Scores /\ m \in Chunks /\ pairs[j] = <<s, m>> /\ heights[j] \in 1..MaxLevel
    OBVIOUS
  <1>3. g[j] = AddStep(at, s, m, o, heights[j])
    BY <1>1 DEF Adding
  <1>4. /\ ZOK(at.z) /\ at.count \in Nat
        /\ \A p \in P : p \in PairsOf(z) \/ \E h \in 1..(j - 1) : pairs[h] = p
        /\ Members(at.z) = {} => Members(z) = {} /\ at.count = 0
        /\ IsFiniteSet(C(j - 1))
        /\ at.count = Cardinality(C(j - 1)) \/ (o.ch /\ Repeats(PairsOf(z), pairs))
    BY DEF AddedSoFar
  <1>5. /\ ZOK(g[j].z) /\ g[j].count \in Nat /\ PairsOf(g[j].z) = LetIn(P, s, m, o)
        /\ g[j].count = IF Ranks!Lets(P, s, m, o) /\ (o.ch \/ ~Ranks!Has(P, m))
                        THEN at.count + 1 ELSE at.count
        /\ Members(g[j].z) = {} => Members(at.z) = {} /\ g[j].count = at.count
    <2> DEFINE height == heights[j]
    <2>1. ZOK(at.z) /\ at.count \in Nat /\ s \in Scores /\ m \in Chunks /\ height \in 1..MaxLevel
          /\ o \in Flagged /\ g[j] = AddStep(at, s, m, o, height)
      BY <1>2, <1>3, <1>4
    <2> HIDE DEF at, s, m, height
    <2>2. SteppedTo(at, AddStep(at, s, m, o, height), s, m, o)
      BY <2>1, AddStepOK
    <2>3. SteppedTo(at, g[j], s, m, o)
      BY <2>1, <2>2
    <2>4. QED
      BY <2>3 DEF SteppedTo
  <1>6. ASSUME NEW p \in f(j)
        PROVE  p \in PairsOf(z) \/ \E h \in 1..j : pairs[h] = p
    <2>1. p \in P \/ p = pairs[j]
      BY <1>2, <1>5 DEF LetIn, Ranks!Put, Ranks!Drop
    <2>2. j \in 1..j /\ \A h \in 1..(j - 1) : h \in 1..j
      BY <1>1
    <2>3. QED
      BY <1>4, <2>1, <2>2
  <1>7. C(j) = IF Q(j) THEN C(j - 1) \cup {j} ELSE C(j - 1)
    <2>1. \A h \in 1..j : h = j \/ h \in 1..(j - 1)
      BY <1>1
    <2>2. j \in 1..j /\ \A h \in 1..(j - 1) : h \in 1..j
      BY <1>1
    <2> HIDE DEF Q
    <2>3. QED
      BY <2>1, <2>2
  <1>8. Q(j) <=> CountsIn(P, s, m, o)
    OBVIOUS
  <1>9. IsFiniteSet(C(j)) /\ Cardinality(C(j)) = IF Q(j) THEN Cardinality(C(j - 1)) + 1
                                                 ELSE Cardinality(C(j - 1))
    <2>1. j \notin C(j - 1)
      BY <1>1
    <2> DEFINE K == C(j - 1)
               L == C(j)
    <2>2. IsFiniteSet(K) /\ j \notin K /\ L = IF Q(j) THEN K \cup {j} ELSE K
      BY <1>4, <1>7, <2>1
    <2> HIDE DEF Q, C, K, L
    <2>3. IsFiniteSet(K \cup {j}) /\ Cardinality(K \cup {j}) = Cardinality(K) + 1
      BY <2>2, FS_AddElement
    <2>4. IsFiniteSet(L) /\ Cardinality(L) = IF Q(j) THEN Cardinality(K) + 1 ELSE Cardinality(K)
      BY <2>2, <2>3
    <2>5. QED
      BY <2>4 DEF K, L
  <1>10. g[j].count = Cardinality(C(j)) \/ (o.ch /\ Repeats(PairsOf(z), pairs))
    <2>1. SUFFICES ASSUME ~(o.ch /\ Repeats(PairsOf(z), pairs))
                   PROVE  g[j].count = Cardinality(C(j))
      OBVIOUS
    <2>2. at.count = Cardinality(C(j - 1))
      BY <1>4, <2>1
    <2>3. Ranks!Lets(P, s, m, o) /\ (o.ch \/ ~Ranks!Has(P, m)) <=> CountsIn(P, s, m, o)
      <3>1. SUFFICES ASSUME Ranks!Lets(P, s, m, o), o.ch, Ranks!Has(P, m)
                     PROVE  Ranks!ScoreIn(P, m) # s
        BY DEF CountsIn
      <3>2. SUFFICES ASSUME Ranks!ScoreIn(P, m) = s
                     PROVE  FALSE
        OBVIOUS
      <3>3. m \in Members(at.z) /\ at.z.scores[m] = s
        BY <1>4, <3>1, <3>2, ScoresAreThePairs
      <3>4. pairs[j] \in P
        BY <1>2, <3>3 DEF PairsOf
      <3>5. pairs[j] \in PairsOf(z) \/ \E h \in 1..(j - 1) : pairs[h] = pairs[j]
        BY <1>4, <3>4
      <3>6. Repeats(PairsOf(z), pairs)
        BY <1>1, <3>5 DEF Repeats
      <3>7. QED
        BY <2>1, <3>1, <3>6
    <2> HIDE DEF C, Q, at, P
    <2>4. QED
      BY <1>5, <1>8, <1>9, <2>2, <2>3
  <1>11. Members(g[j].z) = {} => Members(z) = {} /\ g[j].count = 0
    BY <1>4, <1>5
  <1> HIDE DEF at, s, m
  <1>12. AddedSoFar(z, pairs, o, g, j)
    BY <1>5, <1>6, <1>9, <1>10, <1>11 DEF AddedSoFar
  <1>13. LetInNext(pairs, o, g, j)
    BY <1>5 DEF LetInNext, at, s, m
  <1>14. QED
    BY <1>12, <1>13

\* All the pairs Q that Ranking lets in after P, and its count r, but for the pairs
\* that CH counts although they are there already.
AddedAsPromised(P, pairs, o, Q, c) ==
  \E f : /\ LettingIn(P, pairs, o, Len(pairs), f) /\ Q = f[Len(pairs)]
         /\ c = Cardinality(CountedIn(f, pairs, o, Len(pairs))) \/ (o.ch /\ Repeats(P, pairs))

LEMMA AddingEnds ==
  ASSUME NEW z, ZOK(z), NEW pairs \in Seq((Scores \cup {NaN}) \X Chunks), NEW n \in 0..Len(pairs),
         \A j \in 1..n : pairs[j] \in Scores \X Chunks,
         NEW o \in Flagged, NEW heights, \A j \in 1..n : heights[j] \in 1..MaxLevel,
         NEW g, Adding(z, pairs, o, heights, n, g)
  PROVE  /\ ZOK(g[n].z) /\ g[n].count \in Nat
         /\ Members(g[n].z) = {} => Members(z) = {} /\ g[n].count = 0
         /\ n = 0 => PairsOf(g[n].z) = PairsOf(z)
         /\ n = Len(pairs) => AddedAsPromised(PairsOf(z), pairs, o, PairsOf(g[n].z), g[n].count)
  <1> DEFINE G == {j \in 0..n : AddedSoFar(z, pairs, o, g, j)}
             f == [j \in 0..n |-> PairsOf(g[j].z)]
             P == PairsOf(z)
  <1>1. n \in Nat /\ Len(pairs) \in Nat /\ 0 \in 0..n /\ n \in 0..n
    OBVIOUS
  <1>2. g[0] = [z |-> z, count |-> 0]
    BY <1>1 DEF Adding
  <1>3. g[0].z = z /\ g[0].count = 0
    BY <1>2
  <1>4. 0 \in G
    <2> DEFINE C == {h \in 1..0 : CountsIn(PairsOf(g[h - 1].z), pairs[h][1], pairs[h][2], o)}
    <2>1. C = {}
      OBVIOUS
    <2> HIDE DEF C
    <2>2. IsFiniteSet(C) /\ Cardinality(C) = 0
      BY <2>1, FS_EmptySet
    <2>3. AddedSoFar(z, pairs, o, g, 0)
      BY <1>3, <2>2 DEF AddedSoFar, C
    <2>4. QED
      BY <1>1, <2>3
  <1>5. ASSUME NEW j \in 1..n, j - 1 \in G
        PROVE  AddedSoFar(z, pairs, o, g, j) /\ LetInNext(pairs, o, g, j)
    <2>1. AddedSoFar(z, pairs, o, g, j - 1)
      BY <1>5
    <2> HIDE DEF G, f, P
    <2>2. QED
      BY <2>1, AddingKeepsOn
  <1>6. \A j \in 0..n : j \in G
    <2>1. \A j \in 1..n : j - 1 \in G => j \in G
      BY <1>1, <1>5
    <2> HIDE DEF G
    <2>2. QED
      BY <1>1, <1>4, <2>1, Climb
  <1>7. AddedSoFar(z, pairs, o, g, n)
    BY <1>1, <1>6
  <1>8. LettingIn(P, pairs, o, n, f)
    <2>1. ASSUME NEW j \in 0..n
          PROVE  f[j] = IF j = 0 THEN P ELSE LetIn(f[j - 1], pairs[j][1], pairs[j][2], o)
      <3>1. CASE j = 0
        BY <1>3, <3>1
      <3>2. CASE j # 0
        <4>1. j \in 1..n /\ j - 1 \in 0..n
          BY <3>2
        <4>2. PairsOf(g[j].z) = LetIn(PairsOf(g[j - 1].z), pairs[j][1], pairs[j][2], o)
          BY <1>5, <1>6, <4>1 DEF LetInNext
        <4>3. f[j] = PairsOf(g[j].z) /\ f[j - 1] = PairsOf(g[j - 1].z)
          BY <4>1
        <4> HIDE DEF f
        <4>4. QED
          BY <3>2, <4>2, <4>3
      <3>3. QED
        BY <3>1, <3>2
    <2>2. f = [j \in 0..n |-> f[j]]
      OBVIOUS
    <2> HIDE DEF f
    <2>3. QED
      BY <2>1, <2>2 DEF LettingIn
  <1>9. ASSUME n = Len(pairs)
        PROVE  AddedAsPromised(P, pairs, o, PairsOf(g[n].z), g[n].count)
    <2>1. f[n] = PairsOf(g[n].z) /\ \A h \in 1..n : h - 1 \in 0..n /\ f[h - 1] = PairsOf(g[h - 1].z)
      BY <1>1
    <2> HIDE DEF f
    <2> DEFINE C == {h \in 1..n : CountsIn(PairsOf(g[h - 1].z), pairs[h][1], pairs[h][2], o)}
    <2>2. CountedIn(f, pairs, o, n) = C
      BY <2>1 DEF CountedIn
    <2>3. g[n].count = Cardinality(C) \/ (o.ch /\ Repeats(P, pairs))
      BY <1>7 DEF AddedSoFar
    <2>4. QED
      BY <1>8, <1>9, <2>1, <2>2, <2>3 DEF AddedAsPromised
  <1>10. CASE n = 0
    BY <1>3, <1>7, <1>9, <1>10 DEF AddedSoFar
  <1>11. CASE n # 0
    BY <1>7, <1>9, <1>11 DEF AddedSoFar
  <1>12. QED
    BY <1>10, <1>11

\* Where it stops at a NaN.
HasNaN(pairs) == \E j \in 1..Len(pairs) : pairs[j][1] = NaN

ZAddMeans(l, k, pairs, o, out) ==
  LET P == PairsAt(l, k)
  IN  /\ ZDone(l, k, out.ldb)
      /\ OtherAt(l, k) => out.reply = Err("WRONGTYPE") /\ out.ldb = l
      /\ ~OtherAt(l, k) /\ HasNaN(pairs) =>
           /\ out.reply = Err("SCORENAN")
           /\ pairs[1][1] = NaN => PairsAt(out.ldb, k) = P
      /\ ~OtherAt(l, k) /\ ~HasNaN(pairs) =>
           \E c \in Nat : out.reply = Num(c)
                          /\ AddedAsPromised(P, pairs, o, PairsAt(out.ldb, k), c)
      /\ ZHollow(out.ldb, k) =>
           ZHollow(l, k) \/ (~Stored(l, k) /\ out.reply \in {Num(0), Err("SCORENAN")})

LEMMA ZAddDone ==
  ASSUME NEW l, ZWell(l), NEW k \in Keys, NEW pairs \in Seq((Scores \cup {NaN}) \X Chunks),
         NEW o \in Flagged, NEW heights \in [1..Len(pairs) -> 1..MaxLevel]
  PROVE  ZAddMeans(l, k, pairs, o, ZAdd(l, k, pairs, o, heights))
  <1> DEFINE out == ZAdd(l, k, pairs, o, heights)
             P == PairsAt(l, k)
             N == Len(pairs)
             e == EntryOr(l, k, NewZSet)
             z == e.data[k]
             first == FirstNaN(pairs)
             n == first - 1
             g == CHOOSE h : Adding(z, pairs, o, heights, n, h)
             end == g[n]
  <1>1. /\ OtherAt(l, k) => e = l /\ ~IsZSet(z)
        /\ ~OtherAt(l, k) =>
             /\ IsZSet(z) /\ ZOK(z) /\ PairsOf(z) = P
             /\ Members(z) = {} => ZHollow(l, k) \/ ~Stored(l, k)
        /\ \A w : Write(e, k, w) = Write(l, k, w)
    BY ZEntry
  <1>2. /\ first \in 1..(N + 1) /\ (first <= N => pairs[first][1] = NaN)
        /\ \A i \in 1..(first - 1) : pairs[i][1] # NaN
    BY FirstNaNIsFirst
  <1>3. out = IF ~IsZSet(z) THEN Out(e, Err("WRONGTYPE"))
              ELSE Out(Write(e, k, end.z),
                       IF first <= N THEN Err("SCORENAN") ELSE Num(end.count))
    BY DEF ZAdd, FirstNaN, Adding, AddStep
  <1> HIDE DEF out, e, first, g
  <1>4. N \in Nat /\ n \in 0..N /\ n \in Nat
    BY <1>2
  <1>5. CASE OtherAt(l, k)
    <2>1. out = Out(l, Err("WRONGTYPE"))
      BY <1>1, <1>3, <1>5
    <2>2. out.ldb = l /\ out.reply = Err("WRONGTYPE")
      BY <2>1 DEF Out
    <2>3. QED
      BY <1>5, <2>2 DEF ZAddMeans, ZDone, out
  <1>6. CASE ~OtherAt(l, k)
    <2>1. IsZSet(z) /\ ZOK(z) /\ PairsOf(z) = P
      BY <1>1, <1>6
    <2>2. \A j \in 1..n : pairs[j] \in Scores \X Chunks /\ heights[j] \in 1..MaxLevel
      <3>1. ASSUME NEW j \in 1..n
            PROVE  pairs[j] \in Scores \X Chunks /\ heights[j] \in 1..MaxLevel
        <4>1. j \in 1..N /\ pairs[j][1] # NaN
          BY <1>2, <1>4
        <4>2. pairs[j] \in (Scores \cup {NaN}) \X Chunks
          BY <4>1
        <4>3. QED
          BY <4>1, <4>2
      <3>2. QED
        BY <3>1
    <2> HIDE DEF z, n, P
    <2>3. Adding(z, pairs, o, heights, n, g)
      BY <1>4, <2>1, <2>2, HasAdding DEF g
    <2>4. /\ ZOK(g[n].z) /\ g[n].count \in Nat
          /\ Members(g[n].z) = {} => Members(z) = {} /\ g[n].count = 0
          /\ n = 0 => PairsOf(g[n].z) = PairsOf(z)
          /\ n = Len(pairs) => AddedAsPromised(PairsOf(z), pairs, o, PairsOf(g[n].z), g[n].count)
      BY <1>4, <2>1, <2>2, <2>3, AddingEnds
    <2> DEFINE r == IF first <= N THEN Err("SCORENAN") ELSE Num(end.count)
    <2>5. out = Out(Write(l, k, end.z), r)
      BY <1>1, <1>3, <2>1 DEF z
    <2>6. out.ldb = Write(l, k, end.z) /\ out.reply = r
      BY <2>5 DEF Out
    <2> HIDE DEF end
    <2>7. ZOK(end.z) /\ end.count \in Nat /\ (Members(end.z) = {} => Members(z) = {} /\ end.count = 0)
      BY <2>4 DEF end
    <2>8. PairsAt(out.ldb, k) = PairsOf(end.z) /\ out.ldb.data[k] = end.z
      BY <2>6, <2>7, ZWrites
    <2>9. ZDone(l, k, out.ldb)
      BY <1>6, <2>6, <2>7 DEF ZDone
    <2>10. ASSUME ZHollow(out.ldb, k)
           PROVE  ZHollow(l, k) \/ (~Stored(l, k) /\ out.reply \in {Num(0), Err("SCORENAN")})
      <3>1. Members(end.z) = {}
        BY <2>8, <2>10 DEF ZHollow
      <3>2. Members(z) = {} /\ r \in {Num(0), Err("SCORENAN")}
        BY <2>7, <3>1
      <3>3. QED
        BY <1>1, <1>6, <2>6, <3>2 DEF z
    <2>11. HasNaN(pairs) <=> first <= N
      <3>1. ASSUME first <= N
            PROVE  HasNaN(pairs)
        <4>1. first \in 1..N /\ pairs[first][1] = NaN
          BY <1>2, <1>4, <3>1
        <4>2. QED
          BY <4>1 DEF HasNaN
      <3>2. ASSUME ~(first <= N)
            PROVE  ~HasNaN(pairs)
        <4>1. first = N + 1
          BY <1>2, <1>4, <3>2
        <4>2. first - 1 = N
          BY <1>4, <4>1
        <4>3. QED
          BY <1>2, <4>2 DEF HasNaN
      <3>3. QED
        BY <3>1, <3>2
    <2>12. ASSUME HasNaN(pairs), pairs[1][1] = NaN
           PROVE  PairsAt(out.ldb, k) = P
      <3>1. ~(1 \in 1..(first - 1))
        BY <1>2, <2>12
      <3>2. n = 0
        BY <1>2, <1>4, <3>1 DEF n
      <3>3. QED
        BY <2>1, <2>4, <2>8, <3>2 DEF end
    <2>13. ASSUME ~HasNaN(pairs)
           PROVE  \E c \in Nat : out.reply = Num(c)
                                 /\ AddedAsPromised(P, pairs, o, PairsAt(out.ldb, k), c)
      <3>1. ~(first <= N)
        BY <2>11, <2>13
      <3>2. n = Len(pairs)
        BY <1>2, <1>4, <3>1 DEF n
      <3>3. AddedAsPromised(P, pairs, o, PairsAt(out.ldb, k), end.count)
        BY <2>1, <2>4, <2>8, <3>2 DEF end
      <3>4. out.reply = Num(end.count)
        BY <2>6, <3>1
      <3>5. QED
        BY <2>7, <3>3, <3>4
    <2>14. HasNaN(pairs) => out.reply = Err("SCORENAN")
      BY <2>6, <2>11
    <2>15. QED
      BY <1>6, <2>9, <2>10, <2>12, <2>13, <2>14 DEF ZAddMeans, out, P
  <1>7. QED
    BY <1>5, <1>6

-----------------------------------------------------------------------------
(* A command.                                                              *)

LEMMA SumStays ==
  ASSUME ZAllWell, NEW i \in Dbs, NEW k \in Keys, NEW m \in Chunks, NEW d \in Scores \cup {NaN},
         StaysFinite(i, k, d, m)
  PROVE  /\ ScoreAt(PairsAt(dbs[i], k), m) \in Scores
         /\ LET sum == Plus(ScoreAt(PairsAt(dbs[i], k), m), d)
            IN  sum = NaN \/ sum \in Scores
  <1> DEFINE l == dbs[i]
             P == PairsAt(l, k)
             s == ScoreAt(P, m)
             sum == Plus(s, d)
  <1>1. ScoreInf \in Nat /\ ScoreInf # 0 /\ 0 \in Scores /\ Scores \subseteq Int
        /\ ScoreInf \in Scores /\ -ScoreInf \in Scores /\ -(-ScoreInf) = ScoreInf
    BY ScoreAssumption DEF Scores
  <1>2. CASE ZSetStored(l, k) /\ m \in Members(l.data[k])
    <2>1. ZOK(l.data[k]) /\ P = PairsOf(l.data[k])
      BY <1>2 DEF ZAllWell, ZWell, PairsAt
    <2>2. s = l.data[k].scores[m] /\ s \in Scores
      BY <1>2, <2>1, ScoresAreThePairs DEF ScoreAt
    <2>3. {s, d} \cap {-ScoreInf, ScoreInf, NaN} = {} => s + d \in (1 - ScoreInf)..(ScoreInf - 1)
      BY <1>2, <2>2 DEF StaysFinite, ZSetStored
    <2>4. (1 - ScoreInf)..(ScoreInf - 1) \subseteq Scores
      BY <1>1 DEF Scores
    <2>5. s # NaN
      BY <1>1, <2>2, NaNAssumption
    <2> HIDE DEF s, P
    <2>6. sum = NaN \/ sum = s \/ sum = d \/ sum = s + d
      BY DEF Plus
    <2>7. sum # NaN => sum \in Scores
      <3>1. CASE sum = s
        BY <2>2, <3>1
      <3>2. CASE sum = d
        BY <3>2
      <3>3. CASE sum = s + d /\ sum # s /\ sum # d /\ sum # NaN
        <4>1. s \notin {-ScoreInf, ScoreInf} /\ d \notin {-ScoreInf, ScoreInf} /\ d # NaN
          BY <3>3 DEF Plus
        <4>2. {s, d} \cap {-ScoreInf, ScoreInf, NaN} = {}
          BY <2>5, <4>1
        <4>3. QED
          BY <2>3, <2>4, <3>3, <4>2
      <3> HIDE DEF sum
      <3>4. QED
        BY <2>6, <3>1, <3>2, <3>3
    <2> HIDE DEF sum
    <2>8. QED
      BY <2>2, <2>7 DEF sum, s, P
  <1>3. CASE ~(ZSetStored(l, k) /\ m \in Members(l.data[k]))
    <2>1. s = 0
      <3>1. CASE ZSetStored(l, k)
        <4>1. ZOK(l.data[k]) /\ P = PairsOf(l.data[k])
          BY <3>1 DEF ZAllWell, ZWell, PairsAt
        <4>2. ~Ranks!Has(P, m)
          BY <1>3, <3>1, <4>1, ScoresAreThePairs
        <4>3. QED
          BY <4>2 DEF ScoreAt
      <3>2. CASE ~ZSetStored(l, k)
        BY <3>2 DEF PairsAt, ScoreAt, Ranks!Has
      <3>3. QED
        BY <3>1, <3>2
    <2> HIDE DEF s
    <2>2. sum = NaN \/ sum = d
      <3>1. 0 \notin {-ScoreInf, ScoreInf}
        BY <1>1
      <3>2. d # NaN => 0 + d = d
        BY <1>1
      <3>3. sum = IF d = NaN THEN NaN ELSE IF d \in {-ScoreInf, ScoreInf} THEN d ELSE 0 + d
        BY <2>1, <3>1 DEF Plus
      <3>4. QED
        BY <3>2, <3>3
    <2> HIDE DEF sum
    <2>3. sum # NaN => sum \in Scores
      BY <2>2
    <2>4. QED
      BY <1>1, <2>1, <2>3 DEF sum, s
  <1>4. QED
    BY <1>2, <1>3

\* A ZADD and a ZINCRBY that create a key and refuse leave it without a member.
RefusedEmpty(op, l, k, r) ==
  /\ ~Stored(l, k)
  /\ \/ op = "ZADD" /\ r \in {Num(0), Err("SCORENAN")}
     \/ op = "ZINCRBY" /\ r = Err("SCORENAN")

\* What every sorted set command does to the database it finds.
ZCommanded(i, op, k, arg, out) ==
  /\ op \in Ranks!RankingOps
  /\ Run(op, i, {k}, arg, out)
  /\ i \in Dbs => /\ ZDone(dbs[i], k, out.ldb)
                  /\ ZHollow(out.ldb, k) => ZHollow(dbs[i], k)
                                            \/ RefusedEmpty(op, dbs[i], k, out.reply)

LEMMA FromPairs ==
  ASSUME NEW p \in Pairs
  PROVE  p \in Seq((Scores \cup {NaN}) \X Chunks) /\ Len(p) \in Nat
  <1>1. p \in Seq((Scores \cup {NaN}) \X Names) /\ Names \subseteq Chunks
    BY NamesAssumption
  <1>2. (Scores \cup {NaN}) \X Names \subseteq (Scores \cup {NaN}) \X Chunks
    BY <1>1
  <1>3. QED
    BY <1>1, <1>2

LEMMA FromNameLists ==
  ASSUME NEW ms \in NameLists
  PROVE  ms \in Seq(Chunks)
  <1>1. Names \subseteq Chunks
    BY NamesAssumption
  <1>2. CASE \E m \in Names : ms = <<m>>
    BY <1>1, <1>2
  <1>3. CASE \E m, n \in Names : ms = <<m, n>>
    BY <1>1, <1>3
  <1>4. QED
    BY <1>2, <1>3 DEF NameLists

LEMMA FromLimits ==
  ASSUME NEW b \in Limits
  PROVE  b.value \in Scores /\ b.value \in Int /\ b.excl \in BOOLEAN
  BY FlagsAssumption, ScoreAssumption DEF Scores

LEMMA TakingIsDone ==
  ASSUME ZAllWell, NEW op \in Ranks!RankingOps, NEW i, NEW k \in Keys, NEW arg, NEW none, NEW ms,
         NEW answer, i \in Dbs => \E T : Takes(dbs[i], k, ms, T),
         Run(op, i, {k}, arg, TakeOut(dbs[i], k, none, ms, answer))
  PROVE  ZCommanded(i, op, k, arg, TakeOut(dbs[i], k, none, ms, answer))
  <1> DEFINE out == TakeOut(dbs[i], k, none, ms, answer)
  <1>1. ASSUME i \in Dbs
        PROVE  ZDone(dbs[i], k, out.ldb) /\ (ZHollow(out.ldb, k) => ZHollow(dbs[i], k))
    <2>1. PICK T : Takes(dbs[i], k, ms, T)
      BY <1>1
    <2>2. ZWell(dbs[i])
      BY <1>1 DEF ZAllWell
    <2>3. QED
      BY <2>1, <2>2, TakeOutDone
  <1> HIDE DEF out
  <1>2. QED
    BY <1>1 DEF ZCommanded, out

LEMMA ZAddIsDone ==
  ASSUME ZAllWell, NEW i, NEW k \in Keys, NEW p \in Pairs, NEW o \in Flags, ZAddCmd(i, k, p, o)
  PROVE  \E op, arg, out : ZCommanded(i, op, k, arg, out)
  <1> DEFINE arg == [pairs |-> p, opt |-> o]
  <1>1. "ZADD" \in Ranks!RankingOps
    BY DEF Ranks!RankingOps
  <1>2. CASE ParsesFlags(o)
    <2>1. PICK heights \in [1..Len(p) -> Heights] :
            Run("ZADD", i, {k}, arg, ZAdd(dbs[i], k, p, o, heights))
      BY <1>2 DEF ZAddCmd
    <2> DEFINE out == ZAdd(dbs[i], k, p, o, heights)
    <2>2. ASSUME i \in Dbs
          PROVE  /\ ZDone(dbs[i], k, out.ldb)
                 /\ ZHollow(out.ldb, k) => ZHollow(dbs[i], k)
                                           \/ RefusedEmpty("ZADD", dbs[i], k, out.reply)
      <3>1. ZWell(dbs[i]) /\ o \in Flagged /\ heights \in [1..Len(p) -> 1..MaxLevel]
            /\ p \in Seq((Scores \cup {NaN}) \X Chunks)
        BY <2>1, <2>2, FlagsAssumption, FromPairs DEF ZAllWell, Flagged, Heights
      <3>2. ZAddMeans(dbs[i], k, p, o, out)
        BY <3>1, ZAddDone
      <3> HIDE DEF out
      <3>3. QED
        BY <3>2 DEF ZAddMeans, RefusedEmpty
    <2> HIDE DEF arg, out
    <2>3. ZCommanded(i, "ZADD", k, arg, out)
      BY <1>1, <2>1, <2>2 DEF ZCommanded, out
    <2>4. QED
      BY <2>3
  <1>3. CASE ~ParsesFlags(o)
    <2> DEFINE out == Out(dbs[i], Err("SYNTAX"))
    <2>1. Run("ZADD", i, {k}, arg, out)
      BY <1>3 DEF ZAddCmd
    <2>2. out.ldb = dbs[i]
      BY DEF Out
    <2> HIDE DEF arg, out
    <2>3. ZCommanded(i, "ZADD", k, arg, out)
      BY <1>1, <2>1, <2>2 DEF ZCommanded, ZDone
    <2>4. QED
      BY <2>3
  <1>4. QED
    BY <1>2, <1>3

LEMMA ZIncrIsDone ==
  ASSUME ZAllWell, NEW i, NEW k \in Keys, NEW d \in Amounts, NEW m \in Names,
         ZIncrByCmd(i, k, d, m)
  PROVE  \E op, arg, out : ZCommanded(i, op, k, arg, out)
  <1>1. "ZINCRBY" \in Ranks!RankingOps
    BY DEF Ranks!RankingOps
  <1>2. StaysFinite(i, k, d, m)
    BY DEF ZIncrByCmd
  <1>3. PICK height \in Heights : Run("ZINCRBY", i, {k}, <<d, m>>, ZIncrBy(dbs[i], k, d, m, height))
    BY DEF ZIncrByCmd
  <1> DEFINE out == ZIncrBy(dbs[i], k, d, m, height)
  <1>4. ASSUME i \in Dbs
        PROVE  /\ ZDone(dbs[i], k, out.ldb)
               /\ ZHollow(out.ldb, k) => ZHollow(dbs[i], k)
                                         \/ RefusedEmpty("ZINCRBY", dbs[i], k, out.reply)
    <2>1. ZWell(dbs[i]) /\ d \in Scores \cup {NaN} /\ m \in Chunks /\ height \in 1..MaxLevel
      BY <1>3, <1>4, NamesAssumption DEF ZAllWell, Heights
    <2>2. LET sum == Plus(ScoreAt(PairsAt(dbs[i], k), m), d) IN sum = NaN \/ sum \in Scores
      BY <1>2, <1>4, <2>1, SumStays
    <2>3. /\ ZDone(dbs[i], k, out.ldb)
          /\ ZHollow(out.ldb, k) =>
                  ZHollow(dbs[i], k) \/ (~Stored(dbs[i], k) /\ out.reply = Err("SCORENAN"))
      BY <2>1, <2>2, ZIncrDone
    <2> HIDE DEF out
    <2>4. QED
      BY <2>3 DEF RefusedEmpty
  <1> HIDE DEF out
  <1>5. ZCommanded(i, "ZINCRBY", k, <<d, m>>, out)
    BY <1>1, <1>3, <1>4 DEF ZCommanded, out
  <1>6. QED
    BY <1>5

LEMMA ZSetCommandIsDone ==
  ASSUME ZAllWell, NEW i, ZSetCommand(i)
  PROVE  \E k \in Keys : \E op, arg, out : ZCommanded(i, op, k, arg, out)
  <1>1. ASSUME NEW k \in Keys, NEW op \in Ranks!RankingOps, NEW arg, NEW none, NEW ms, NEW answer,
               i \in Dbs => \E T : Takes(dbs[i], k, ms, T),
               Run(op, i, {k}, arg, TakeOut(dbs[i], k, none, ms, answer))
        PROVE  \E q \in Keys : \E p, a, out : ZCommanded(i, p, q, a, out)
    <2>1. ZCommanded(i, op, k, arg, TakeOut(dbs[i], k, none, ms, answer))
      BY <1>1, TakingIsDone
    <2>2. QED
      BY <2>1
  <1>2. i \in Dbs => ZWell(dbs[i])
    BY DEF ZAllWell
  <1>3. /\ "ZREM" \in Ranks!RankingOps /\ "ZREMRANGEBYSCORE" \in Ranks!RankingOps
        /\ "ZREMRANGEBYRANK" \in Ranks!RankingOps /\ "ZPOPMIN" \in Ranks!RankingOps
        /\ "ZPOPMAX" \in Ranks!RankingOps
    BY DEF Ranks!RankingOps
  <1>4. CASE \E k \in Keys, p \in Pairs, o \in Flags : ZAddCmd(i, k, p, o)
    BY <1>4, ZAddIsDone
  <1>5. CASE \E k \in Keys, d \in Amounts, m \in Names : ZIncrByCmd(i, k, d, m)
    BY <1>5, ZIncrIsDone
  <1>6. ASSUME NEW k \in Keys, NEW ms \in NameLists, ZRemCmd(i, k, ms)
        PROVE  \E q \in Keys : \E p, a, out : ZCommanded(i, p, q, a, out)
    <2> DEFINE answer == Num(Cardinality({ms[j] : j \in 1..Len(ms)} \cap Members(dbs[i].data[k])))
    <2>1. Run("ZREM", i, {k}, ms, TakeOut(dbs[i], k, Num(0), ms, answer))
      BY <1>6 DEF ZRemCmd, ZRem
    <2> HIDE DEF answer
    <2>2. i \in Dbs => \E T : Takes(dbs[i], k, ms, T)
      BY <1>2, FromNameLists, ZRemTakes
    <2>3. QED
      BY <1>1, <1>3, <2>1, <2>2
  <1>7. ASSUME NEW k \in Keys, NEW lo \in Limits, NEW hi \in Limits, ZRemRangeByScoreCmd(i, k, lo, hi)
        PROVE  \E q \in Keys : \E p, a, out : ZCommanded(i, p, q, a, out)
    <2> DEFINE range == Between(Iter(dbs[i].data[k].sl), lo, hi)
               ms == MembersOf(range)
               answer == Num(Len(range))
    <2>1. Run("ZREMRANGEBYSCORE", i, {k}, <<lo, hi>>, TakeOut(dbs[i], k, Num(0), ms, answer))
      BY <1>7 DEF ZRemRangeByScoreCmd, ZRemRangeByScore
    <2>2. i \in Dbs => \E T : Takes(dbs[i], k, ms, T)
      BY <1>2, ZByScoreTakes
    <2> HIDE DEF answer, ms
    <2>3. QED
      BY <1>1, <1>3, <2>1, <2>2
  <1>8. ASSUME NEW k \in Keys, NEW start \in Places, NEW stop \in Places,
               ZRemRangeByRankCmd(i, k, start, stop)
        PROVE  \E q \in Keys : \E p, a, out : ZCommanded(i, p, q, a, out)
    <2> DEFINE range == ByIndex(dbs[i].data[k], start, stop)
               ms == MembersOf(range)
               answer == Num(Len(range))
    <2>1. Run("ZREMRANGEBYRANK", i, {k}, <<start, stop>>, TakeOut(dbs[i], k, Num(0), ms, answer))
      BY <1>8 DEF ZRemRangeByRankCmd, ZRemRangeByRank
    <2>2. start \in Int /\ stop \in Int
      BY FlagsAssumption
    <2>3. i \in Dbs => \E T : Takes(dbs[i], k, ms, T)
      BY <1>2, <2>2, ZByRankTakes
    <2> HIDE DEF answer, ms
    <2>4. QED
      BY <1>1, <1>3, <2>1, <2>3
  <1>9. ASSUME NEW k \in Keys, NEW n \in 0..MaxCount, ZPopMinCmd(i, k, n)
        PROVE  \E q \in Keys : \E p, a, out : ZCommanded(i, p, q, a, out)
    <2> DEFINE lowest == SkipTake(Iter(dbs[i].data[k].sl), 0, n)
               ms == MembersOf(lowest)
               answer == Bulk(lowest)
               none == Bulk(<<>>)
    <2>1. Run("ZPOPMIN", i, {k}, n, TakeOut(dbs[i], k, none, ms, answer))
      BY <1>9 DEF ZPopMinCmd, ZPopMin
    <2>2. n \in Nat
      BY FlagsAssumption
    <2>3. i \in Dbs => \E T : Takes(dbs[i], k, ms, T)
      BY <1>2, <2>2, ZPopTakes
    <2> HIDE DEF answer, ms, none
    <2>4. QED
      BY <1>1, <1>3, <2>1, <2>3
  <1>10. ASSUME NEW k \in Keys, NEW n \in 0..MaxCount, ZPopMaxCmd(i, k, n)
         PROVE  \E q \in Keys : \E p, a, out : ZCommanded(i, p, q, a, out)
    <2> DEFINE highest == SkipTake(IterRev(dbs[i].data[k].sl), 0, n)
               ms == MembersOf(highest)
               answer == Bulk(highest)
               none == Bulk(<<>>)
    <2>1. Run("ZPOPMAX", i, {k}, n, TakeOut(dbs[i], k, none, ms, answer))
      BY <1>10 DEF ZPopMaxCmd, ZPopMax
    <2>2. n \in Nat
      BY FlagsAssumption
    <2>3. i \in Dbs => \E T : Takes(dbs[i], k, ms, T)
      BY <1>2, <2>2, ZPopTakes
    <2> HIDE DEF answer, ms, none
    <2>4. QED
      BY <1>1, <1>3, <2>1, <2>3
  <1>11. QED
    BY <1>4, <1>5, <1>6, <1>7, <1>8, <1>9, <1>10 DEF ZSetCommand

-----------------------------------------------------------------------------
(* The invariant.                                                          *)

ZInv == IInv /\ ZAllWell

LEMMA ZInvInit == Init => ZInv
  <1> SUFFICES ASSUME Init
               PROVE  ZAllWell
    BY InvInit DEF ZInv
  <1>1. ASSUME NEW i \in Dbs
        PROVE  ZWell(dbs[i])
    <2>1. dbs[i] = EmptyDb
      BY DEF Init
    <2>2. \A k \in Keys : ~ZSetStored(EmptyDb, k)
      BY DEF EmptyDb, ZSetStored, Stored
    <2>3. QED
      BY <2>1, <2>2, EmptyWF DEF ZWell
  <1>2. QED
    BY <1>1 DEF ZAllWell

\* The commands of the Keyspace have other names.
LEMMA OtherNames ==
  ASSUME Next
  PROVE  last'.op \notin Ranks!RankingOps
  <1> USE DEF Run, Ranks!RankingOps
  <1>1. ASSUME NEW i, GenericCommand(i)
        PROVE  last'.op \notin Ranks!RankingOps
    BY <1>1 DEF GenericCommand, DelCmd, RenameCmd, RenamenxCmd, ExpireCmd, PExpireCmd,
         ExpireAtCmd, PExpireAtCmd, PersistCmd, FlushDbCmd, FlushAllCmd
  <1>2. ASSUME NEW i, StringCommand(i)
        PROVE  last'.op \notin Ranks!RankingOps
    BY <1>2 DEF StringCommand, SetCmd, SetnxCmd, GetSetCmd, GetDelCmd, GetExCmd, MSetCmd,
         MSetNxCmd, AppendCmd, SetRangeCmd, IncrByCmd, DecrByCmd, IncrByFloatCmd
  <1>3. ASSUME NEW i, ListCommand(i)
        PROVE  last'.op \notin Ranks!RankingOps
    BY <1>3 DEF ListCommand, RPushCmd, RPushXCmd, LPopCmd
  <1>4. CASE EvictCmd \/ Tick
    BY <1>4 DEF EvictCmd, Tick
  <1>5. QED
    BY <1>1, <1>2, <1>3, <1>4 DEF Next, Command

\* They write no sorted set: one that is there after them was there before, if need
\* be under the key a RENAME took it from.
LEMMA ZSetsUntouched ==
  ASSUME IInv, Next, NEW j \in Dbs, NEW k \in Keys, ZSetStored(dbs'[j], k)
  PROVE  \/ ZSetStored(dbs[j], k) /\ dbs'[j].data[k] = dbs[j].data[k]
         \/ /\ last'.op \in {"RENAME", "RENAMENX"} /\ last'.arg[1] \in Keys /\ last'.arg[2] = k
            /\ ZSetStored(dbs[j], last'.arg[1]) /\ dbs'[j].data[k] = dbs[j].data[last'.arg[1]]
  <1>1. dbs'[j].data[k] # Absent /\ dbs'[j].data[k].type = "zset"
    BY DEF ZSetStored, Stored, IsZSet
  <1>2. ~Ordinary(dbs'[j].data[k])
    BY <1>1 DEF Ordinary, IsStr, IsList
  <1>3. ASSUME NEW q \in Keys, dbs'[j].data[k] = dbs[j].data[q]
        PROVE  ZSetStored(dbs[j], q)
    BY <1>1, <1>3 DEF ZSetStored, Stored, IsZSet
  <1>4. PlainStep(j) \/ MovingStep(j)
    BY KeyspaceQuiet
  <1>5. CASE PlainStep(j)
    BY <1>1, <1>2, <1>3, <1>5 DEF PlainStep, Plainly
  <1>6. CASE MovingStep(j)
    BY <1>1, <1>3, <1>6 DEF MovingStep
  <1>7. QED
    BY <1>4, <1>5, <1>6

\* A command of the sorted sets, seen from database j.
LEMMA ZCommandAt ==
  ASSUME ZInv, NEW i, NEW op, NEW k \in Keys, NEW arg, NEW out, ZCommanded(i, op, k, arg, out),
         NEW j \in Dbs
  PROVE  /\ IInv' /\ ZWell(dbs'[j]) /\ Keeps(dbs[j], dbs'[j])
         /\ last'.op = op
         /\ \A q \in Keys : ZHollow(dbs'[j], q) =>
              \/ ZHollow(dbs[j], q)
              \/ q = k /\ RefusedEmpty(op, dbs[j], q, last'.reply)
  <1>1. Run(op, i, {k}, arg, out) /\ IInv /\ ZAllWell
    BY DEF ZCommanded, ZInv
  <1>2. i \in Dbs =>
          /\ ZWell(out.ldb) /\ Keeps(dbs[i], out.ldb)
          /\ \A q \in Keys : q # k => out.ldb.data[q] = dbs[i].data[q]
    <2>1. i \in Dbs => ZWell(dbs[i]) /\ ZDone(dbs[i], k, out.ldb)
      BY <1>1 DEF ZCommanded, ZAllWell
    <2>2. QED
      BY <2>1, ZDoneMeans
  <1>3. i \in Dbs => WellFormed(out.ldb)
    BY <1>2 DEF ZWell
  <1>4. IInv'
    BY <1>1, <1>3, RunInv
  <1>5. /\ dbs'[j] = IF i \in Dbs /\ i = j THEN out.ldb ELSE dbs[j]
        /\ last'.op = op /\ (i \in Dbs => last'.reply = out.reply)
    BY <1>1 DEF Run, IInv, AllWellFormed
  <1>6. CASE i \in Dbs /\ i = j
    <2>1. ASSUME NEW q \in Keys, ZHollow(dbs'[j], q)
          PROVE  ZHollow(dbs[j], q) \/ (q = k /\ RefusedEmpty(op, dbs[j], q, last'.reply))
      <3>1. CASE q = k
        BY <1>5, <1>6, <2>1, <3>1 DEF ZCommanded
      <3>2. CASE q # k
        <4>1. dbs'[j].data[q] = dbs[j].data[q]
          BY <1>2, <1>5, <1>6, <3>2
        <4>2. QED
          BY <2>1, <4>1 DEF ZHollow, ZSetStored, Stored
      <3>3. QED
        BY <3>1, <3>2
    <2>2. QED
      BY <1>2, <1>4, <1>5, <1>6, <2>1
  <1>7. CASE ~(i \in Dbs /\ i = j)
    <2>1. dbs'[j] = dbs[j] /\ ZWell(dbs[j])
      BY <1>1, <1>5, <1>7 DEF ZAllWell
    <2>2. QED
      BY <1>4, <1>5, <2>1, KeepsItself
  <1>8. QED
    BY <1>6, <1>7

LEMMA ZInvStep == ZInv /\ [ZSetsNext]_vars => ZInv'
  <1> SUFFICES ASSUME ZInv, [ZSetsNext]_vars
               PROVE  ZInv'
    OBVIOUS
  <1>1. ASSUME NEW i \in Index, ZSetCommand(i)
        PROVE  ZInv'
    <2>1. PICK k \in Keys : \E op, arg, out : ZCommanded(i, op, k, arg, out)
      BY <1>1, ZSetCommandIsDone DEF ZInv
    <2>2. PICK op, arg, out : ZCommanded(i, op, k, arg, out)
      BY <2>1
    <2>3. \A j \in Dbs : IInv' /\ ZWell(dbs'[j])
      BY <2>2, ZCommandAt
    <2>4. IInv'
      <3>1. ASSUME Dbs = {}
            PROVE  IInv'
        BY <2>2, <3>1, RunInv DEF ZCommanded, ZInv
      <3>2. QED
        BY <2>3, <3>1
    <2>5. QED
      BY <2>3, <2>4 DEF ZInv, ZAllWell
  <1>2. CASE Next
    <2>1. IInv'
      BY <1>2, InvStep DEF ZInv
    <2>2. ASSUME NEW j \in Dbs
          PROVE  ZWell(dbs'[j])
      <3>1. WellFormed(dbs'[j])
        BY <2>1 DEF IInv, AllWellFormed
      <3>2. ASSUME NEW k \in Keys, ZSetStored(dbs'[j], k)
            PROVE  ZOK(dbs'[j].data[k])
        <4>1. PICK q \in Keys : ZSetStored(dbs[j], q) /\ dbs'[j].data[k] = dbs[j].data[q]
          BY <1>2, <3>2, ZSetsUntouched DEF ZInv
        <4>2. QED
          BY <4>1 DEF ZInv, ZAllWell, ZWell
      <3>3. QED
        BY <3>1, <3>2 DEF ZWell
    <2>3. QED
      BY <2>1, <2>2 DEF ZInv, ZAllWell
  <1>3. CASE UNCHANGED vars
    BY <1>3 DEF vars, ZInv, IInv, ZAllWell
  <1>4. QED
    BY <1>1, <1>2, <1>3 DEF ZSetsNext

\* With the sorted set commands too, no deadline is left behind for a key of the same
\* name to inherit.
THEOREM ZSetsLeaveNoOrphan == ZSetsSpec => []NoOrphanDeadline
  <1>1. ZInv => NoOrphanDeadline
    BY DEF ZInv, IInv, AllWellFormed, WellFormed, NoOrphanDeadline, Stored
  <1>2. QED
    BY ZInvInit, ZInvStep, <1>1, PTL DEF ZSetsSpec

\* Updates, pops and removals leave the time to live of a sorted set alone, and a key
\* they create has none.
THEOREM ZSetsLeaveDeadlines == ZSetsSpec => ZSetsKeepDeadlines
  <1> DEFINE Kept(i, k) ==
        last'.op \in Ranks!RankingOps /\ Stored(dbs'[i], k)
        => \/ dbs'[i].expiry[k] = dbs[i].expiry[k]
           \/ ~Stored(dbs[i], k) /\ dbs'[i].expiry[k] = Never
  <1>1. ASSUME ZInv, NEW h, ZSetCommand(h), NEW i \in Dbs, NEW k \in Keys
        PROVE  Kept(i, k)
    <2>1. PICK q \in Keys : \E op, arg, out : ZCommanded(h, op, q, arg, out)
      BY <1>1, ZSetCommandIsDone DEF ZInv
    <2>2. PICK op, arg, out : ZCommanded(h, op, q, arg, out)
      BY <2>1
    <2>3. Keeps(dbs[i], dbs'[i])
      BY <1>1, <2>2, ZCommandAt
    <2>4. QED
      BY <2>3 DEF Keeps
  <1>2. ASSUME ZInv, Next, NEW i \in Dbs, NEW k \in Keys
        PROVE  Kept(i, k)
    BY <1>2, OtherNames
  <1>3. ZInv /\ [ZSetsNext]_vars =>
          [\A i \in Dbs, k \in Keys :
             last'.op \in Ranks!RankingOps /\ Stored(dbs'[i], k)
             => \/ dbs'[i].expiry[k] = dbs[i].expiry[k]
                \/ ~Stored(dbs[i], k) /\ dbs'[i].expiry[k] = Never]_vars
    <2>1. CASE UNCHANGED vars
      BY <2>1
    <2>2. CASE ZSetsNext
      BY <1>1, <1>2, <2>2 DEF ZSetsNext
    <2>3. QED
      BY <2>1, <2>2
  <1>4. QED
    BY ZInvInit, ZInvStep, <1>3, PTL DEF ZSetsSpec, ZSetsKeepDeadlines

\* A sorted set without a member is one that a ZADD or a ZINCRBY created and refused to
\* fill, or one that a RENAME took from another key.
THEOREM EmptyZSetsComeFromRefusals == ZSetsSpec => EmptyOnlyFromRefusal
  <1> DEFINE Goal(i, k) ==
        /\ ZSetStored(dbs'[i], k) /\ Members(dbs'[i].data[k]) = {}
        /\ ~(ZSetStored(dbs[i], k) /\ Members(dbs[i].data[k]) = {})
        => \/ /\ ~Stored(dbs[i], k)
              /\ \/ last'.op = "ZADD" /\ last'.reply \in {Num(0), Err("SCORENAN")}
                 \/ last'.op = "ZINCRBY" /\ last'.reply = Err("SCORENAN")
           \/ /\ last'.op \in {"RENAME", "RENAMENX"} /\ last'.arg[2] = k
              /\ ZSetStored(dbs[i], last'.arg[1]) /\ Members(dbs[i].data[last'.arg[1]]) = {}
  <1>1. ASSUME ZInv, NEW h, ZSetCommand(h), NEW i \in Dbs, NEW k \in Keys
        PROVE  Goal(i, k)
    <2>1. PICK q \in Keys : \E op, arg, out : ZCommanded(h, op, q, arg, out)
      BY <1>1, ZSetCommandIsDone DEF ZInv
    <2>2. PICK op, arg, out : ZCommanded(h, op, q, arg, out)
      BY <2>1
    <2>3. /\ last'.op = op
          /\ ZHollow(dbs'[i], k) => \/ ZHollow(dbs[i], k)
                                    \/ RefusedEmpty(op, dbs[i], k, last'.reply)
      BY <1>1, <2>2, ZCommandAt
    <2>4. QED
      BY <2>3 DEF ZHollow, RefusedEmpty
  <1>2. ASSUME ZInv, Next, NEW i \in Dbs, NEW k \in Keys
        PROVE  Goal(i, k)
    <2>1. SUFFICES ASSUME ZSetStored(dbs'[i], k), Members(dbs'[i].data[k]) = {},
                          ~(ZSetStored(dbs[i], k) /\ Members(dbs[i].data[k]) = {})
                   PROVE  Goal(i, k)
      OBVIOUS
    <2>2. \/ ZSetStored(dbs[i], k) /\ dbs'[i].data[k] = dbs[i].data[k]
          \/ /\ last'.op \in {"RENAME", "RENAMENX"} /\ last'.arg[1] \in Keys /\ last'.arg[2] = k
             /\ ZSetStored(dbs[i], last'.arg[1]) /\ dbs'[i].data[k] = dbs[i].data[last'.arg[1]]
      BY <1>2, <2>1, ZSetsUntouched DEF ZInv
    <2>3. QED
      BY <2>1, <2>2
  <1>3. ZInv /\ [ZSetsNext]_vars =>
          [\A i \in Dbs, k \in Keys :
             /\ ZSetStored(dbs'[i], k) /\ Members(dbs'[i].data[k]) = {}
             /\ ~(ZSetStored(dbs[i], k) /\ Members(dbs[i].data[k]) = {})
             => \/ /\ ~Stored(dbs[i], k)
                   /\ \/ last'.op = "ZADD" /\ last'.reply \in {Num(0), Err("SCORENAN")}
                      \/ last'.op = "ZINCRBY" /\ last'.reply = Err("SCORENAN")
                \/ /\ last'.op \in {"RENAME", "RENAMENX"} /\ last'.arg[2] = k
                   /\ ZSetStored(dbs[i], last'.arg[1]) /\ Members(dbs[i].data[last'.arg[1]]) = {}]_vars
    <2>1. CASE UNCHANGED vars
      BY <2>1
    <2>2. CASE ZSetsNext
      BY <1>1, <1>2, <2>2 DEF ZSetsNext
    <2>3. QED
      BY <2>1, <2>2
  <1>4. QED
    BY ZInvInit, ZInvStep, <1>3, PTL DEF ZSetsSpec, EmptyOnlyFromRefusal

-----------------------------------------------------------------------------
(* The two indices.                                                        *)

\* Where a chain goes on from its place j.
LEMMA ChainGoesOn ==
  ASSUME NEW S \in SUBSET Nodes, NEW a, Lists(Up, a, S), NEW j \in 1..(Len(a) + 1),
         NEW y, y = IF j = 1 THEN HeadNode ELSE a[j - 1], NEW f, NextIn(S, y, f)
  PROVE  f = IF j = Len(a) + 1 THEN NilNode ELSE a[j]
  <1> DEFINE n == Len(a)
  <1>1. n \in Nat /\ a \in Seq(S)
    BY DEF Lists
  <1>2. \A i \in 1..n : a[i] \in S /\ a[i] \in Nodes /\ a[i] # HeadNode
    BY <1>1, Marks
  <1>3. ASSUME NEW h \in 1..n, NEW i \in 1..n, NodeLess(a[h], a[i])
        PROVE  h < i
    <2>1. SUFFICES ASSUME i <= h
                   PROVE  FALSE
      OBVIOUS
    <2>2. i = h \/ NodeLess(a[i], a[h])
      <3>1. i < h => <<a[i], a[h]>> \in Up
        BY DEF Lists
      <3>2. QED
        BY <1>2, <2>1, <3>1, UpIsNodeLess
    <2>3. QED
      BY <1>2, <1>3, <2>2, NodesCompare
  <1>4. \A h, i \in 1..n : h < i => NodeLess(a[h], a[i])
    BY <1>2, UpIsNodeLess DEF Lists
  <1>5. \A z \in S : \E i \in 1..n : a[i] = z
    BY DEF Lists
  <1>6. ASSUME NEW i \in 1..n
        PROVE  Ahead(y, a[i]) <=> j <= i
    <2>1. CASE j = 1
      BY <2>1 DEF Ahead
    <2>2. CASE j # 1
      <3>1. j - 1 \in 1..n /\ y = a[j - 1] /\ y # HeadNode
        BY <1>1, <1>2, <2>2
      <3>2. Ahead(y, a[i]) <=> NodeLess(a[j - 1], a[i])
        BY <3>1 DEF Ahead
      <3>3. NodeLess(a[j - 1], a[i]) <=> j - 1 < i
        BY <1>3, <1>4, <3>1
      <3>4. QED
        BY <3>2, <3>3
    <2>3. QED
      BY <2>1, <2>2
  <1> HIDE DEF n
  <1>7. CASE j = n + 1
    <2>1. ASSUME NEW z \in S, Ahead(y, z)
          PROVE  FALSE
      <3>1. PICK i \in 1..n : a[i] = z
        BY <1>5
      <3>2. j <= i
        BY <1>6, <2>1, <3>1
      <3>3. QED
        BY <1>1, <1>7, <3>2
    <2>2. f = NilNode
      BY <2>1 DEF NextIn
    <2>3. QED
      BY <1>7, <2>2 DEF n
  <1>8. CASE j # n + 1
    <2>1. j \in 1..n
      BY <1>1, <1>8 DEF n
    <2>2. a[j] \in S /\ Ahead(y, a[j])
      BY <1>2, <1>6, <2>1
    <2>3. f \in S /\ Ahead(y, f) /\ (a[j] = f \/ NodeLess(f, a[j]))
      BY <2>2 DEF NextIn
    <2>4. PICK i \in 1..n : a[i] = f
      BY <1>5, <2>3
    <2>5. j <= i
      BY <1>6, <2>3, <2>4
    <2>6. ~NodeLess(a[i], a[j])
      <3>1. NodeLess(a[i], a[j]) => i < j
        BY <1>3, <2>1
      <3>2. QED
        BY <2>1, <2>5, <3>1
    <2>7. f = a[j]
      BY <2>3, <2>4, <2>6
    <2>8. QED
      BY <1>8, <2>7 DEF n
  <1>9. QED
    BY <1>7, <1>8

LEMMA LevelsAreLinked ==
  ASSUME NEW sl, NEW P, SkipOK(sl, P), NEW h \in 1..MaxLevel
  PROVE  LevelIsLinked(sl, h)
  <1> DEFINE S == Reaching(sl, h)
             a == Tower(sl, h)
             n == Len(a)
             chain == <<HeadNode>> \o a \o <<NilNode>>
  <1>1. S = OnLevel(sl, h)
    BY DEF Reaching, OnLevel
  <1>2. S \in SUBSET Nodes /\ IsFiniteSet(S)
    BY <1>1, SkipShape
  <1>3. \A y \in S \cup {HeadNode} : NextIn(S, y, sl.forward[y][h])
    BY <1>1 DEF SkipOK, Chained
  <1> HIDE DEF S
  <1>4. Lists(Up, a, S)
    BY <1>2, AscendingIsLine DEF Tower, S
  <1> HIDE DEF a
  <1>5. a \in Seq(S) /\ n \in Nat /\ \A j \in 1..n : a[j] \in S
    BY <1>4 DEF Lists
  <1>6. /\ Len(chain) = n + 2 /\ chain[1] = HeadNode /\ chain[n + 2] = NilNode
        /\ \A j \in 1..n : chain[j + 1] = a[j]
    <2> DEFINE T == S \cup {HeadNode, NilNode}
               front == <<HeadNode>> \o a
    <2>1. a \in Seq(T) /\ <<HeadNode>> \in Seq(T) /\ <<NilNode>> \in Seq(T)
          /\ Len(<<HeadNode>>) = 1 /\ Len(<<NilNode>>) = 1
      BY <1>5
    <2> HIDE DEF T
    <2>2. /\ front \in Seq(T) /\ Len(front) = n + 1 /\ front[1] = HeadNode
          /\ \A j \in 1..n : front[j + 1] = a[j]
      <3>1. front \in Seq(T) /\ Len(front) = 1 + n
        BY <1>5, <2>1
      <3>2. front[1] = HeadNode
        BY <1>5, <2>1
      <3>3. ASSUME NEW j \in 1..n
            PROVE  front[j + 1] = a[j]
        <4>1. j + 1 \in 1..(1 + n) /\ ~(j + 1 <= 1) /\ (j + 1) - 1 = j
          BY <1>5
        <4>2. front[j + 1] = a[(j + 1) - 1]
          BY <1>5, <2>1, <4>1
        <4>3. QED
          BY <4>1, <4>2
      <3>4. QED
        BY <1>5, <3>1, <3>2, <3>3
    <2> HIDE DEF front, n
    <2>3. chain = front \o <<NilNode>>
      BY DEF front
    <2>4. /\ Len(front \o <<NilNode>>) = n + 2 /\ (front \o <<NilNode>>)[n + 2] = NilNode
          /\ \A j \in 1..(n + 1) : (front \o <<NilNode>>)[j] = front[j]
      BY <1>5, <2>1, <2>2
    <2>5. 1 \in 1..(n + 1) /\ \A j \in 1..n : j + 1 \in 1..(n + 1)
      BY <1>5
    <2> HIDE DEF chain
    <2>6. QED
      BY <2>2, <2>3, <2>4, <2>5
  <1> HIDE DEF chain
  <1>7. ASSUME NEW j \in 1..(n + 1)
        PROVE  sl.forward[chain[j]][h] = chain[j + 1]
    <2>1. chain[j] = IF j = 1 THEN HeadNode ELSE a[j - 1]
      <3>1. CASE j = 1
        BY <1>6, <3>1
      <3>2. CASE j # 1
        <4>1. j - 1 \in 1..n /\ (j - 1) + 1 = j
          BY <1>5, <3>2
        <4>2. QED
          BY <1>6, <3>2, <4>1
      <3>3. QED
        BY <3>1, <3>2
    <2>2. chain[j] \in S \cup {HeadNode}
      <3>1. j # 1 => j - 1 \in 1..n
        BY <1>5
      <3>2. QED
        BY <1>5, <2>1, <3>1
    <2>3. NextIn(S, chain[j], sl.forward[chain[j]][h])
      BY <1>3, <2>2
    <2>4. sl.forward[chain[j]][h] = IF j = Len(a) + 1 THEN NilNode ELSE a[j]
      BY <1>2, <1>4, <2>1, <2>3, ChainGoesOn
    <2>5. chain[j + 1] = IF j = n + 1 THEN NilNode ELSE a[j]
      <3>1. CASE j = n + 1
        <4>1. j + 1 = n + 2
          BY <1>5, <3>1
        <4>2. QED
          BY <1>6, <3>1, <4>1
      <3>2. CASE j # n + 1
        <4>1. j \in 1..n
          BY <1>5, <3>2
        <4>2. QED
          BY <1>6, <3>2, <4>1
      <3>3. QED
        BY <3>1, <3>2
    <2>6. QED
      BY <2>4, <2>5
  <1>8. Len(chain) - 1 = n + 1
    BY <1>5, <1>6
  <1>9. QED
    BY <1>7, <1>8 DEF LevelIsLinked, chain, a

\* The map and the skip list of every sorted set name the same members with the same
\* scores, the skip list links them in order on every level, and its length and its
\* level are what they should be.
THEOREM IndicesAlwaysAgree == ZSetsSpec => []IndicesAgree
  <1>1. ASSUME ZInv, NEW i \in Dbs, NEW k \in Keys, ZSetStored(dbs[i], k)
        PROVE  LET z == dbs[i].data[k]
                   order == Iter(z.sl)
               IN  /\ order = Ranks!Ascending(PairsOf(z))
                   /\ Reaching(z.sl, 1) = PairsOf(z)
                   /\ \A h \in 2..MaxLevel : Reaching(z.sl, h) \subseteq Reaching(z.sl, h - 1)
                   /\ \A h \in 1..MaxLevel : LevelIsLinked(z.sl, h)
                   /\ z.sl.length = Cardinality(Members(z))
                   /\ z.sl.level >= 1 /\ z.sl.level <= MaxLevel
                   /\ \A h \in 1..MaxLevel : h > z.sl.level => Reaching(z.sl, h) = {}
                   /\ z.sl.level > 1 => Reaching(z.sl, z.sl.level) # {}
    <2> DEFINE z == dbs[i].data[k]
               sl == z.sl
    <2>1. ZOK(z)
      BY <1>1 DEF ZInv, ZAllWell, ZWell
    <2>2. SkipOK(sl, PairsOf(z))
      BY <2>1 DEF ZOK
    <2> HIDE DEF z
    <2>3. \A h : Reaching(sl, h) = OnLevel(sl, h)
      BY DEF Reaching, OnLevel
    <2>4. Iter(sl) = Ranks!Ascending(PairsOf(z))
      BY <2>1, ShownInOrder
    <2>5. MaxLevel \in Nat /\ sl.level \in 1..MaxLevel
      BY <2>2, SkipShape
    <2>6. ASSUME NEW h \in 2..MaxLevel
          PROVE  Reaching(sl, h) \subseteq Reaching(sl, h - 1)
      <3>1. h \in 1..MaxLevel /\ h - 1 \in 1..MaxLevel /\ h - 1 < h
        BY <2>5
      <3>2. QED
        BY <2>2, <2>3, <3>1 DEF SkipOK
    <2>7. \A h \in 1..MaxLevel : LevelIsLinked(sl, h)
      BY <2>2, LevelsAreLinked
    <2>8. sl.length = Cardinality(Members(z))
      <3>1. sl.length = Cardinality(PairsOf(z))
        BY <2>2 DEF SkipOK
      <3>2. Cardinality(PairsOf(z)) = Cardinality(Members(z))
        BY <2>1, <2>2, AsManyMembers DEF ZOK, SkipOK
      <3>3. QED
        BY <3>1, <3>2
    <2>9. /\ Reaching(sl, 1) = PairsOf(z)
          /\ \A h \in 1..MaxLevel : h > sl.level => Reaching(sl, h) = {}
          /\ sl.level > 1 => Reaching(sl, sl.level) # {}
      BY <2>2, <2>3 DEF SkipOK
    <2>10. sl.level >= 1 /\ sl.level <= MaxLevel
      BY <2>5
    <2>11. QED
      BY <2>4, <2>6, <2>7, <2>8, <2>9, <2>10 DEF z
  <1>2. ZInv => IndicesAgree
    BY <1>1 DEF IndicesAgree
  <1>3. QED
    BY ZInvInit, ZInvStep, <1>2, PTL DEF ZSetsSpec

-----------------------------------------------------------------------------
(* The readers.                                                            *)

\* What the readers of the sorted set z have to show.
PlacesShown(l, k, t) ==
  LET P == PairsOf(l.data[k])
      up == Ranks!Ascending(P)
      down == Ranks!Descending(P)
  IN  \A p \in P : /\ ZScore(l, k, p[2], t) = Num(p[1])
                   /\ up[1 + ZRank(l, k, p[2], t)[2]] = p
                   /\ down[1 + ZRevRank(l, k, p[2], t)[2]] = p

LEMMA SeenZSet ==
  ASSUME NEW l, ZWell(l), NEW k \in Keys, NEW t, ZSetStored(l, k), Live(l, k, t)
  PROVE  /\ ZOK(l.data[k]) /\ Get(l, k, t) = l.data[k]
         /\ \A none, answer : ReadZSet(l.data[k], none, answer) = answer
  <1>1. ZOK(l.data[k]) /\ l.data[k] # Absent /\ IsZSet(l.data[k])
    BY DEF ZWell, ZSetStored, Stored
  <1>2. QED
    BY <1>1 DEF Live, Get, ReadZSet

LEMMA PlacesAreExact ==
  ASSUME NEW l, ZWell(l), NEW k \in Keys, NEW t, ZSetStored(l, k), Live(l, k, t)
  PROVE  PlacesShown(l, k, t)
  <1> DEFINE z == l.data[k]
             P == PairsOf(z)
             N == Cardinality(P)
             up == Ranks!Ascending(P)
             down == Ranks!Descending(P)
  <1>1. ZOK(z) /\ Get(l, k, t) = z /\ \A none, answer : ReadZSet(z, none, answer) = answer
    BY SeenZSet
  <1> HIDE DEF z
  <1>2. /\ P \in SUBSET Nodes /\ IsFiniteSet(P) /\ N \in Nat /\ Cardinality(Members(z)) = N
        /\ SkipOK(z.sl, P) /\ z \in ZSetObjects
    BY <1>1, AsManyMembers, RankOfPlace DEF ZOK, SkipOK
  <1>3. down = Reversed(up) /\ Len(up) = N /\ up = Line(Up, P)
    BY <1>2, DescendingIsTurned, AscendingIsLine
  <1>4. ASSUME NEW p \in P
        PROVE  /\ ZScore(l, k, p[2], t) = Num(p[1])
               /\ up[1 + ZRank(l, k, p[2], t)[2]] = p
               /\ down[1 + ZRevRank(l, k, p[2], t)[2]] = p
    <2> DEFINE m == p[2]
               r == Ranks!RankIn(P, p)
    <2>1. m \in Members(z) /\ z.scores[m] = p[1] /\ p = <<p[1], p[2]>>
      BY <1>2, PairsShape
    <2>2. r \in 0..(N - 1) /\ up[r + 1] = p
      BY <1>2, <1>3, RankOfPlace
    <2>3. Rank(z, m) = r
      <3>1. <<z.scores[m], m>> = p
        BY <2>1
      <3>2. RankOf(z.sl, p) = Cardinality(Under(Up, P, p))
        BY <1>2, RankOfCounts
      <3>3. Ranks!RankIn(P, p) = Cardinality(Under(Up, P, p))
        BY <1>2, RankIsUnder
      <3>4. Rank(z, m) = RankOf(z.sl, p)
        BY <2>1, <3>1 DEF Rank
      <3>5. QED
        BY <3>2, <3>3, <3>4
    <2> HIDE DEF r, up, N
    <2>4. r \in Nat /\ r # -1 /\ N - 1 - r \in Nat /\ N - 1 - r # -1 /\ r + 1 = 1 + r
          /\ 1 + (N - 1 - r) \in 1..N /\ N + 1 - (1 + (N - 1 - r)) = r + 1
      BY <1>2, <2>2
    <2>5. RevRank(z, m) = N - 1 - r
      BY <1>2, <2>3, <2>4 DEF RevRank, N
    <2>6. /\ ZScore(l, k, m, t) = Num(p[1])
          /\ ZRank(l, k, m, t) = OrNil(r) /\ ZRevRank(l, k, m, t) = OrNil(N - 1 - r)
      BY <1>1, <2>1, <2>3, <2>5 DEF ZScore, ZRank, ZRevRank
    <2>7. OrNil(r) = Num(r) /\ OrNil(N - 1 - r) = Num(N - 1 - r)
      BY <2>4 DEF OrNil
    <2>8. \A x : Num(x)[2] = x
      BY DEF Num
    <2>9. up[1 + ZRank(l, k, m, t)[2]] = p
      <3>1. ZRank(l, k, m, t)[2] = r
        BY <2>6, <2>7, <2>8
      <3>2. QED
        BY <2>2, <2>4, <3>1
    <2>10. down[1 + ZRevRank(l, k, m, t)[2]] = p
      <3>1. ZRevRank(l, k, m, t)[2] = N - 1 - r
        BY <2>6, <2>7, <2>8
      <3>2. \A j \in 1..N : down[j] = up[N + 1 - j]
        BY <1>3 DEF Reversed
      <3> HIDE DEF down
      <3>3. down[1 + (N - 1 - r)] = up[r + 1]
        BY <2>4, <3>2
      <3>4. QED
        BY <2>2, <3>1, <3>3
    <2>11. QED
      BY <2>6, <2>9, <2>10
  <1> HIDE DEF up, down
  <1>5. QED
    BY <1>4 DEF PlacesShown, up, down, z

LEMMA OnlyMembersHaveRanks ==
  ASSUME NEW l, ZWell(l), NEW k \in Keys, NEW t, ZSetStored(l, k), Live(l, k, t), NEW m \in Chunks
  PROVE  (ZRank(l, k, m, t) = Nil) = (m \notin Members(l.data[k]))
  <1> DEFINE z == l.data[k]
  <1>1. ZOK(z) /\ Get(l, k, t) = z /\ \A none, answer : ReadZSet(z, none, answer) = answer
    BY SeenZSet
  <1>2. ZRank(l, k, m, t) = OrNil(Rank(z, m))
    BY <1>1 DEF ZRank
  <1> HIDE DEF z
  <1>3. CASE m \in Members(z)
    <2>1. z.scores[m] \in Scores /\ SkipOK(z.sl, PairsOf(z)) /\ <<z.scores[m], m>> \in PairsOf(z)
      BY <1>1, <1>3, ScoresAreThePairs DEF ZOK, PairsOf
    <2>2. PairsOf(z) \in SUBSET Nodes /\ IsFiniteSet(PairsOf(z))
      BY <2>1 DEF SkipOK
    <2>3. Rank(z, m) = Cardinality(Under(Up, PairsOf(z), <<z.scores[m], m>>))
      BY <1>3, <2>1, <2>2, RankOfCounts DEF Rank
    <2>4. Rank(z, m) # -1
      <3>1. Rank(z, m) \in 0..(Cardinality(PairsOf(z)) - 1)
        BY <2>1, <2>2, <2>3, RankOfPlace, RankIsUnder
      <3>2. QED
        BY <3>1
    <2>5. Num(Rank(z, m)) # Nil
      BY DEF Num, Nil
    <2>6. ZRank(l, k, m, t) # Nil
      BY <1>2, <2>4, <2>5 DEF OrNil
    <2>7. QED
      BY <1>3, <2>6 DEF z
  <1>4. CASE m \notin Members(z)
    <2>1. Rank(z, m) = -1
      BY <1>4 DEF Rank
    <2>2. ZRank(l, k, m, t) = Nil
      BY <1>2, <2>1 DEF OrNil
    <2>3. QED
      BY <1>4, <2>2 DEF z
  <1>5. QED
    BY <1>3, <1>4

LEMMA WholeRangeTurned ==
  ASSUME NEW z, ZOK(z)
  PROVE  Reversed(ByIndex(z, 0, -1)) = Ranks!Descending(PairsOf(z))
  <1> DEFINE P == PairsOf(z)
             N == Cardinality(P)
  <1>1. P \in SUBSET Nodes /\ IsFiniteSet(P) /\ N \in Nat
    BY ShownInOrder, RankOfPlace
  <1>2. CASE N = 0
    <2>1. P = {}
      BY <1>1, <1>2, FS_EmptySet
    <2>2. PICK U \in SUBSET P : Lists(Up, ByIndex(z, 0, -1), U)
      BY ByIndexLists
    <2>3. U = {}
      BY <2>1, <2>2
    <2>4. ByIndex(z, 0, -1) = <<>>
      <3> DEFINE s == ByIndex(z, 0, -1)
      <3>1. Lists(Up, s, {})
        BY <2>2, <2>3
      <3> HIDE DEF s
      <3>2. s \in Seq({})
        BY <3>1 DEF Lists
      <3>3. s = <<>>
        BY <3>2
      <3>4. QED
        BY <3>3 DEF s
    <2>5. Reversed(<<>>) = <<>>
      BY DEF Reversed
    <2>6. QED
      BY <2>1, <2>4, <2>5, NothingAscends
  <1>3. CASE N # 0
    <2>1. -1 >= -N /\ 0 \in Int /\ -1 \in Int
      BY <1>1, <1>3
    <2>2. ByIndex(z, 0, -1) = Ranks!Ascending(Ranks!RankedIn(P, 0, -1))
      BY <2>1, ByIndexIsRanked
    <2>3. Ranks!RankedIn(P, 0, -1) = P
      <3>1. \A p \in P : 0 <= Ranks!RankIn(P, p) /\ Ranks!RankIn(P, p) <= N + -1
        BY <1>1, RankOfPlace
      <3>2. Ranks!FromLowest(0, P) = 0 /\ Ranks!FromLowest(-1, P) = N + -1
        BY SameOperators DEF Ranks!FromLowest
      <3>3. QED
        BY <3>1, <3>2 DEF Ranks!RankedIn
    <2>4. QED
      BY <1>1, <2>2, <2>3, DescendingIsTurned
  <1>4. QED
    BY <1>2, <1>3

\* A LIMIT cuts both ways.
CutOut(s, off, n) ==
  SubSeq(s, off + 1, IF n = Never THEN Len(s) ELSE IF off + n < Len(s) THEN off + n ELSE Len(s))

LEMMA LimitCuts ==
  ASSUME NEW nodes, NEW lo, NEW hi, Len(Between(nodes, lo, hi)) \in Nat,
         NEW off \in 0..1, NEW n \in {1, Never}
  PROVE  ByScore(nodes, lo, hi, off, n) = CutOut(Between(nodes, lo, hi), off, n)
  <1> DEFINE s == Between(nodes, lo, hi)
  <1>1. ByScore(nodes, lo, hi, off, n) = SkipTake(s, off, IF n = Never THEN Len(s) ELSE n)
    BY DEF ByScore
  <1> HIDE DEF s
  <1>2. Len(s) \in Nat /\ ~(off + Len(s) < Len(s))
    BY DEF s
  <1>3. CASE n = Never
    BY <1>1, <1>2, <1>3 DEF SkipTake, CutOut, s
  <1>4. CASE n # Never
    BY <1>1, <1>4 DEF SkipTake, CutOut, s
  <1>5. QED
    BY <1>3, <1>4

\* What each reader of the sorted set under k has to answer.
RangesShown(l, k, t) ==
  LET P == PairsOf(l.data[k])
  IN  /\ \A m, n \in Places : n >= -Cardinality(P) =>
           ZRange(l, k, m, n, FALSE, t) = Bulk(Ranks!Ascending(Ranks!RankedIn(P, m, n)))
      /\ ZRange(l, k, 0, -1, TRUE, t) = Bulk(Ranks!Descending(P))

LEMMA RangesAreExact ==
  ASSUME NEW l, ZWell(l), NEW k \in Keys, NEW t, ZSetStored(l, k), Live(l, k, t)
  PROVE  RangesShown(l, k, t)
  <1> DEFINE z == l.data[k]
  <1>1. ZOK(z) /\ Get(l, k, t) = z /\ \A none, answer : ReadZSet(z, none, answer) = answer
    BY SeenZSet
  <1>2. \A m, n, rev : ZRange(l, k, m, n, rev, t)
                         = Bulk(IF rev THEN Reversed(ByIndex(z, m, n)) ELSE ByIndex(z, m, n))
    BY <1>1 DEF ZRange
  <1> HIDE DEF z
  <1>3. ASSUME NEW m \in Places, NEW n \in Places, n >= -Cardinality(PairsOf(z))
        PROVE  ZRange(l, k, m, n, FALSE, t) = Bulk(Ranks!Ascending(Ranks!RankedIn(PairsOf(z), m, n)))
    <2>1. m \in Int /\ n \in Int
      BY FlagsAssumption
    <2>2. ByIndex(z, m, n) = Ranks!Ascending(Ranks!RankedIn(PairsOf(z), m, n))
      BY <1>1, <1>3, <2>1, ByIndexIsRanked
    <2>3. QED
      BY <1>2, <2>2
  <1>4. ZRange(l, k, 0, -1, TRUE, t) = Bulk(Ranks!Descending(PairsOf(z)))
    BY <1>1, <1>2, WholeRangeTurned
  <1>5. QED
    BY <1>3, <1>4 DEF RangesShown, z

BoundsShown(l, k, lo, hi, t) ==
  LET W == Within(PairsOf(l.data[k]), lo, hi)
  IN  /\ ZCount(l, k, lo, hi, t) = Num(Cardinality(W))
      /\ \A off \in 0..1, n \in {1, Never} :
           /\ ZRangeByScore(l, k, lo, hi, off, n, t) = Bulk(CutOut(Ranks!Ascending(W), off, n))
           /\ ZRevRangeByScore(l, k, hi, lo, off, n, t) = Bulk(CutOut(Ranks!Descending(W), off, n))

LEMMA BoundsAreExact ==
  ASSUME NEW l, ZWell(l), NEW k \in Keys, NEW t, ZSetStored(l, k), Live(l, k, t), NEW lo, NEW hi
  PROVE  BoundsShown(l, k, lo, hi, t)
  <1> DEFINE z == l.data[k]
             W == Within(PairsOf(z), lo, hi)
             up == Between(Iter(z.sl), lo, hi)
             down == Between(IterRev(z.sl), lo, hi)
  <1>1. ZOK(z) /\ Get(l, k, t) = z /\ \A none, answer : ReadZSet(z, none, answer) = answer
    BY SeenZSet
  <1>2. ZCount(l, k, lo, hi, t) = Num(Len(up))
    BY <1>1 DEF ZCount
  <1>3. \A off, n :
          /\ ZRangeByScore(l, k, lo, hi, off, n, t) = Bulk(ByScore(Iter(z.sl), lo, hi, off, n))
          /\ ZRevRangeByScore(l, k, hi, lo, off, n, t) = Bulk(ByScore(IterRev(z.sl), lo, hi, off, n))
    BY <1>1 DEF ZRangeByScore, ZRevRangeByScore
  <1> HIDE DEF z
  <1>4. /\ up = Ranks!Ascending(W) /\ down = Ranks!Descending(W)
        /\ Len(up) = Cardinality(W) /\ Len(down) = Cardinality(W) /\ Cardinality(W) \in Nat
    BY <1>1, BetweenInOrder
  <1>5. ASSUME NEW off \in 0..1, NEW n \in {1, Never}
        PROVE  /\ ZRangeByScore(l, k, lo, hi, off, n, t) = Bulk(CutOut(Ranks!Ascending(W), off, n))
               /\ ZRevRangeByScore(l, k, hi, lo, off, n, t) = Bulk(CutOut(Ranks!Descending(W), off, n))
    <2>1. ByScore(Iter(z.sl), lo, hi, off, n) = CutOut(up, off, n)
      BY <1>4, LimitCuts
    <2>2. ByScore(IterRev(z.sl), lo, hi, off, n) = CutOut(down, off, n)
      BY <1>4, LimitCuts
    <2> HIDE DEF up, down, W
    <2>3. QED
      BY <1>3, <1>4, <2>1, <2>2
  <1> HIDE DEF up, down
  <1>6. ZCount(l, k, lo, hi, t) = Num(Cardinality(W))
    BY <1>2, <1>4
  <1>7. QED
    BY <1>5, <1>6 DEF BoundsShown, W, z

\* Every reader of a sorted set answers from the one set of pairs, whichever of the two
\* indices it looks into: ranks from below and from above, scores, ranges by rank and by
\* score in both directions, and every LIMIT.
THEOREM ReadersAreExact == ZSetsSpec => []RanksAreExact
  <1>1. ASSUME ZInv, NEW i \in Dbs, NEW k \in Keys, ZSetStored(dbs[i], k), Live(dbs[i], k, now)
        PROVE  LET l == dbs[i]
                   P == PairsOf(l.data[k])
                   up == Ranks!Ascending(P)
                   down == Ranks!Descending(P)
                   within(lo, hi) == {p \in P : Ranks!Inside(p, lo, hi)}
               IN  /\ ZCard(l, k, now) = Num(Cardinality(P))
                   /\ \A p \in P :
                        /\ ZScore(l, k, p[2], now) = Num(p[1])
                        /\ up[1 + ZRank(l, k, p[2], now)[2]] = p
                        /\ down[1 + ZRevRank(l, k, p[2], now)[2]] = p
                   /\ \A m \in Names :
                        (ZRank(l, k, m, now) = Nil) = (m \notin Members(l.data[k]))
                   /\ \A m, n \in Places : n >= -Cardinality(P) =>
                        ZRange(l, k, m, n, FALSE, now)
                          = Bulk(Ranks!Ascending(Ranks!RankedIn(P, m, n)))
                   /\ ZRange(l, k, 0, -1, TRUE, now) = Bulk(down)
                   /\ \A lo, hi \in Limits :
                        /\ ZCount(l, k, lo, hi, now) = Num(Cardinality(within(lo, hi)))
                        /\ \A off \in 0..1, n \in {1, Never} :
                             LET cut(s) == SubSeq(s, off + 1, IF n = Never THEN Len(s) ELSE
                                             IF off + n < Len(s) THEN off + n ELSE Len(s))
                             IN  /\ ZRangeByScore(l, k, lo, hi, off, n, now)
                                      = Bulk(cut(Ranks!Ascending(within(lo, hi))))
                                 /\ ZRevRangeByScore(l, k, hi, lo, off, n, now)
                                      = Bulk(cut(Ranks!Descending(within(lo, hi))))
    <2> DEFINE l == dbs[i]
               P == PairsOf(l.data[k])
               z == l.data[k]
    <2>1. ZWell(l)
      BY <1>1 DEF ZInv, ZAllWell
    <2> HIDE DEF l
    <2>2. ZSetStored(l, k) /\ Live(l, k, now)
      BY <1>1 DEF l
    <2>3. ZOK(z) /\ Get(l, k, now) = z /\ \A none, answer : ReadZSet(z, none, answer) = answer
      BY <2>1, <2>2, SeenZSet
    <2>4. ZCard(l, k, now) = Num(Cardinality(P))
      <3>1. Cardinality(Members(z)) = Cardinality(P)
        BY <2>3, AsManyMembers
      <3>2. ZCard(l, k, now) = Num(Cardinality(Members(z)))
        BY <2>3 DEF ZCard
      <3>3. QED
        BY <3>1, <3>2
    <2>5. PlacesShown(l, k, now) /\ RangesShown(l, k, now)
      BY <2>1, <2>2, PlacesAreExact, RangesAreExact
    <2>6. \A m \in Names : (ZRank(l, k, m, now) = Nil) = (m \notin Members(z))
      BY <2>1, <2>2, OnlyMembersHaveRanks, NamesAssumption
    <2>7. \A lo, hi \in Limits : BoundsShown(l, k, lo, hi, now)
      BY <2>1, <2>2, BoundsAreExact
    <2>8. ASSUME NEW lo \in Limits, NEW hi \in Limits
          PROVE  /\ ZCount(l, k, lo, hi, now) = Num(Cardinality(Within(P, lo, hi)))
                 /\ \A off \in 0..1, n \in {1, Never} :
                      LET cut(s) == SubSeq(s, off + 1, IF n = Never THEN Len(s) ELSE
                                      IF off + n < Len(s) THEN off + n ELSE Len(s))
                      IN  /\ ZRangeByScore(l, k, lo, hi, off, n, now)
                               = Bulk(cut(Ranks!Ascending(Within(P, lo, hi))))
                          /\ ZRevRangeByScore(l, k, hi, lo, off, n, now)
                               = Bulk(cut(Ranks!Descending(Within(P, lo, hi))))
      BY <2>7, <2>8 DEF BoundsShown, CutOut
    <2>9. \A p \in P : /\ ZScore(l, k, p[2], now) = Num(p[1])
                       /\ Ranks!Ascending(P)[1 + ZRank(l, k, p[2], now)[2]] = p
                       /\ Ranks!Descending(P)[1 + ZRevRank(l, k, p[2], now)[2]] = p
      BY <2>5 DEF PlacesShown
    <2>10. /\ \A m, n \in Places : n >= -Cardinality(P) =>
                ZRange(l, k, m, n, FALSE, now) = Bulk(Ranks!Ascending(Ranks!RankedIn(P, m, n)))
           /\ ZRange(l, k, 0, -1, TRUE, now) = Bulk(Ranks!Descending(P))
      BY <2>5 DEF RangesShown
    <2>11. QED
      BY <2>4, <2>6, <2>8, <2>9, <2>10 DEF Within, l
  <1>2. ZInv => RanksAreExact
    BY <1>1 DEF RanksAreExact
  <1>3. QED
    BY ZInvInit, ZInvStep, <1>2, PTL DEF ZSetsSpec

-----------------------------------------------------------------------------
(* The promise: the commands of the sorted sets.                           *)

LEMMA OneLetting ==
  ASSUME NEW P, NEW pairs, NEW o, NEW n \in Nat, NEW f, LettingIn(P, pairs, o, n, f),
         NEW g, LettingIn(P, pairs, o, n, g)
  PROVE  f = g
  <1> DEFINE G == {j \in 0..n : f[j] = g[j]}
             F(h) == [j \in 0..n |-> IF j = 0 THEN P ELSE LetIn(h[j - 1], pairs[j][1], pairs[j][2], o)]
  <1>1. f = F(f) /\ g = F(g)
    BY DEF LettingIn
  <1>2. \A h, j : j \in 0..n => F(h)[j] = IF j = 0 THEN P ELSE LetIn(h[j - 1], pairs[j][1], pairs[j][2], o)
    OBVIOUS
  <1>3. \A h : F(h) = [j \in 0..n |-> F(h)[j]]
    OBVIOUS
  <1> HIDE DEF F
  <1>4. 0 \in G
    <2>1. f[0] = P /\ g[0] = P
      BY <1>1, <1>2
    <2>2. QED
      BY <2>1
  <1>5. ASSUME NEW j \in 1..n, j - 1 \in G
        PROVE  j \in G
    <2>1. j \in 0..n /\ j # 0 /\ f[j - 1] = g[j - 1]
      BY <1>5
    <2>2. f[j] = LetIn(f[j - 1], pairs[j][1], pairs[j][2], o)
      BY <1>1, <1>2, <2>1
    <2>3. g[j] = LetIn(g[j - 1], pairs[j][1], pairs[j][2], o)
      BY <1>1, <1>2, <2>1
    <2>4. QED
      BY <2>1, <2>2, <2>3
  <1> HIDE DEF G
  <1>6. \A j \in 0..n : j \in G
    BY <1>4, <1>5, Climb
  <1>7. \A j \in 0..n : F(f)[j] = F(g)[j]
    BY <1>1, <1>6 DEF G
  <1>8. [j \in 0..n |-> F(f)[j]] = [j \in 0..n |-> F(g)[j]]
    BY <1>7
  <1>9. F(f) = F(g)
    BY <1>3, <1>8
  <1>10. QED
    BY <1>1, <1>9

\* A ZADD with the flags o and the pairs, no score of them NaN.
LEMMA AddIsPromised ==
  ASSUME NEW k \in Keys, last'.db \in Dbs, last'.op = "ZADD", ~Ranks!Here(k).other,
         NEW pairs, pairs = last'.arg.pairs, Len(pairs) \in Nat, ~HasNaN(pairs),
         NEW o, o = last'.arg.opt, ParsesFlags(o),
         NEW f, LettingIn(Ranks!Here(k).pairs, pairs, o, Len(pairs), f),
         Ranks!Serve("ZADD", k, f[Len(pairs)], Num(Cardinality(CountedIn(f, pairs, o, Len(pairs)))))
  PROVE  Ranks!Next
  <1> DEFINE q == last'.arg.pairs
             u == last'.arg.opt
             P == Ranks!Here(k).pairs
             a == CHOOSE h : LettingIn(P, q, u, Len(q), h)
  <1>1. Ranks!AddPromise(k) <=>
          IF (u.nx /\ u.xx) \/ (u.gt /\ u.lt) THEN Ranks!Refuse("ZADD", k, Ranks!Err("SYNTAX"))
          ELSE IF Ranks!Here(k).other THEN Ranks!Refuse("ZADD", k, Ranks!Err("WRONGTYPE"))
          ELSE IF HasNaN(q) THEN Ranks!Refuse("ZADD", k, Ranks!Err("SCORENAN"))
          ELSE Ranks!Serve("ZADD", k, a[Len(q)],
                           Ranks!Num(Ranks!Cardinality(CountedIn(a, q, u, Len(q)))))
    BY DEF Ranks!AddPromise, LettingIn, LetIn, CountedIn, CountsIn, HasNaN
  <1> HIDE DEF a
  <1>2. LettingIn(P, q, u, Len(q), f)
    OBVIOUS
  <1>3. LettingIn(P, q, u, Len(q), a)
    BY <1>2 DEF a
  <1>4. a = f
    <2>1. Len(q) \in Nat
      OBVIOUS
    <2> HIDE DEF q, u, P
    <2>2. QED
      BY <1>2, <1>3, <2>1, OneLetting
  <1>5. Ranks!AddPromise(k)
    <2>1. Ranks!Serve("ZADD", k, a[Len(q)], Ranks!Num(Ranks!Cardinality(CountedIn(a, q, u, Len(q)))))
      BY <1>4, SameOperators
    <2>2. ~HasNaN(q) /\ ~((u.nx /\ u.xx) \/ (u.gt /\ u.lt))
      BY DEF ParsesFlags
    <2>3. QED
      BY <1>1, <2>1, <2>2
  <1>6. QED
    BY <1>5 DEF Ranks!Next

\* The refusals of ZADD.
LEMMA AddIsRefused ==
  ASSUME NEW k \in Keys, last'.db \in Dbs, last'.op = "ZADD",
         NEW pairs, pairs = last'.arg.pairs, NEW o, o = last'.arg.opt,
         \/ ~ParsesFlags(o) /\ Ranks!Refuse("ZADD", k, Err("SYNTAX"))
         \/ ParsesFlags(o) /\ Ranks!Here(k).other /\ Ranks!Refuse("ZADD", k, Err("WRONGTYPE"))
         \/ ParsesFlags(o) /\ ~Ranks!Here(k).other /\ HasNaN(pairs)
            /\ Ranks!Refuse("ZADD", k, Err("SCORENAN"))
  PROVE  Ranks!Next
  <1> DEFINE q == last'.arg.pairs
             u == last'.arg.opt
             P == Ranks!Here(k).pairs
             a == CHOOSE h : LettingIn(P, q, u, Len(q), h)
  <1>1. Ranks!AddPromise(k) <=>
          IF (u.nx /\ u.xx) \/ (u.gt /\ u.lt) THEN Ranks!Refuse("ZADD", k, Ranks!Err("SYNTAX"))
          ELSE IF Ranks!Here(k).other THEN Ranks!Refuse("ZADD", k, Ranks!Err("WRONGTYPE"))
          ELSE IF HasNaN(q) THEN Ranks!Refuse("ZADD", k, Ranks!Err("SCORENAN"))
          ELSE Ranks!Serve("ZADD", k, a[Len(q)],
                           Ranks!Num(Ranks!Cardinality(CountedIn(a, q, u, Len(q)))))
    BY DEF Ranks!AddPromise, LettingIn, LetIn, CountedIn, CountsIn, HasNaN
  <1> HIDE DEF a
  <1>2. \A r : Ranks!Err(r) = Err(r)
    BY SameOperators
  <1>3. Ranks!AddPromise(k)
    BY <1>1, <1>2 DEF ParsesFlags
  <1>4. QED
    BY <1>3 DEF Ranks!Next

LEMMA ZAddPromised ==
  ASSUME IInv, ZAllWell, NEW i \in Dbs, NEW k \in Keys, NEW p \in Pairs, NEW o \in Flags,
         ZAddCmd(i, k, p, o), ~Dead(dbs[i], k, now)
  PROVE  ZDeparture(last') \/ Ranks!Next
  <1> DEFINE arg == [pairs |-> p, opt |-> o]
             l == dbs[i]
             P == PairsAt(l, k)
  <1>0. ZWell(l) /\ p \in Seq((Scores \cup {NaN}) \X Chunks) /\ Len(p) \in Nat /\ o \in Flagged
    BY FromPairs, FlagsAssumption DEF ZAllWell, Flagged
  <1>1. PICK out : /\ Run("ZADD", i, {k}, arg, out)
                   /\ \/ ~ParsesFlags(o) /\ out = Out(l, Err("SYNTAX"))
                      \/ ParsesFlags(o) /\ ZAddMeans(l, k, p, o, out)
    <2>1. CASE ~ParsesFlags(o)
      BY <2>1 DEF ZAddCmd
    <2>2. CASE ParsesFlags(o)
      <3>1. PICK heights \in [1..Len(p) -> Heights] :
              Run("ZADD", i, {k}, arg, ZAdd(l, k, p, o, heights))
        BY <2>2 DEF ZAddCmd
      <3>2. heights \in [1..Len(p) -> 1..MaxLevel]
        BY <3>1 DEF Heights
      <3>3. ZAddMeans(l, k, p, o, ZAdd(l, k, p, o, heights))
        BY <1>0, <3>2, ZAddDone
      <3>4. QED
        BY <2>2, <3>1, <3>3
    <2>3. QED
      BY <2>1, <2>2
  <1>2. ZDone(l, k, out.ldb)
    BY <1>1 DEF ZAddMeans, ZDone, Out
  <1>3. /\ Ranks!Serve("ZADD", k, PairsAt(out.ldb, k), out.reply)
        /\ Ranks!Here(k) = [other |-> OtherAt(l, k), pairs |-> P]
        /\ last'.db = i
    BY <1>1, <1>2, ZServes
  <1>4. /\ last'.op = "ZADD" /\ last'.arg = arg /\ last'.keys = {k} /\ last'.reply = out.reply
        /\ last'.db \in Dbs
    BY <1>1, <1>3 DEF Run
  <1>5. last'.arg.pairs = p /\ last'.arg.opt = o
    BY <1>4
  <1>6. Ranks!Here(k).other = OtherAt(l, k) /\ Ranks!Here(k).pairs = P
    BY <1>3
  <1> HIDE DEF arg, P
  <1>7. ASSUME out.ldb = l
        PROVE  Ranks!Refuse("ZADD", k, out.reply)
    <2>1. PairsAt(out.ldb, k) = Ranks!Here(k).pairs
      BY <1>6, <1>7 DEF P
    <2>2. QED
      BY <1>3, <2>1 DEF Ranks!Refuse
  <1>8. CASE ~ParsesFlags(o)
    <2>1. out.ldb = l /\ out.reply = Err("SYNTAX")
      BY <1>1, <1>8 DEF Out
    <2>2. QED
      BY <1>4, <1>5, <1>7, <1>8, <2>1, AddIsRefused
  <1>9. CASE ParsesFlags(o) /\ OtherAt(l, k)
    <2>1. out.ldb = l /\ out.reply = Err("WRONGTYPE")
      BY <1>1, <1>9 DEF ZAddMeans
    <2>2. QED
      BY <1>4, <1>5, <1>6, <1>7, <1>9, <2>1, AddIsRefused
  <1>10. CASE ParsesFlags(o) /\ ~OtherAt(l, k) /\ HasNaN(p)
    <2>1. out.reply = Err("SCORENAN") /\ (p[1][1] = NaN => PairsAt(out.ldb, k) = P)
      BY <1>1, <1>10 DEF ZAddMeans, P
    <2>2. CASE p[1][1] = NaN
      <3>1. PairsAt(out.ldb, k) = Ranks!Here(k).pairs
        BY <1>6, <2>1, <2>2
      <3>2. Ranks!Refuse("ZADD", k, Err("SCORENAN"))
        BY <1>3, <2>1, <3>1 DEF Ranks!Refuse
      <3>3. QED
        BY <1>4, <1>5, <1>6, <1>10, <3>2, AddIsRefused
    <2>3. CASE p[1][1] # NaN
      BY <1>4, <1>5, <2>1, <2>3 DEF ZDeparture
    <2>4. QED
      BY <2>2, <2>3
  <1>11. CASE ParsesFlags(o) /\ ~OtherAt(l, k) /\ ~HasNaN(p)
    <2>1. PICK c \in Nat : out.reply = Num(c) /\ AddedAsPromised(P, p, o, PairsAt(out.ldb, k), c)
      BY <1>1, <1>11 DEF ZAddMeans, P
    <2>2. PICK f : /\ LettingIn(P, p, o, Len(p), f) /\ PairsAt(out.ldb, k) = f[Len(p)]
                   /\ c = Cardinality(CountedIn(f, p, o, Len(p))) \/ (o.ch /\ Repeats(P, p))
      BY <2>1 DEF AddedAsPromised
    <2>3. CASE c = Cardinality(CountedIn(f, p, o, Len(p)))
      <3>1. Ranks!Serve("ZADD", k, f[Len(p)], Num(Cardinality(CountedIn(f, p, o, Len(p)))))
        BY <1>3, <2>1, <2>2, <2>3
      <3>2. ~Ranks!Here(k).other /\ LettingIn(Ranks!Here(k).pairs, p, o, Len(p), f)
        BY <1>6, <1>11, <2>2
      <3>3. QED
        BY <1>0, <1>4, <1>5, <1>11, <3>1, <3>2, AddIsPromised
    <2>4. CASE o.ch /\ Repeats(P, p)
      <3>1. last'.reply[1] = "int"
        BY <1>4, <2>1 DEF Num
      <3>2. PICK j \in DOMAIN p : p[j] \in P \/ \E h \in 1..(j - 1) : p[h] = p[j]
        BY <2>4 DEF Repeats
      <3>3. QED
        BY <1>4, <1>5, <1>6, <2>4, <3>1, <3>2 DEF ZDeparture
    <2>5. QED
      BY <2>2, <2>3, <2>4
  <1>12. QED
    BY <1>8, <1>9, <1>10, <1>11

LEMMA IncrIsPromised ==
  ASSUME NEW k \in Keys, last'.db \in Dbs, last'.op = "ZINCRBY", ~Ranks!Here(k).other,
         NEW d \in Scores \cup {NaN}, d = last'.arg[1], NEW m, m = last'.arg[2],
         NEW s \in Scores, s = ScoreAt(Ranks!Here(k).pairs, m),
         \/ Plus(s, d) = NaN /\ Ranks!Refuse("ZINCRBY", k, Err("SCORENAN"))
         \/ /\ Plus(s, d) # NaN
            /\ Ranks!Serve("ZINCRBY", k, Ranks!Put(Ranks!Here(k).pairs, Plus(s, d), m), Num(Plus(s, d)))
  PROVE  Ranks!Next
  <1> DEFINE P == Ranks!Here(k).pairs
             b == last'.arg[1]
             n == last'.arg[2]
             r == IF Ranks!Has(P, n) THEN Ranks!ScoreIn(P, n) ELSE 0
             infinite == {r, b} \cap {-ScoreInf, ScoreInf}
             sum == IF infinite = {} THEN r + b ELSE CHOOSE x \in infinite : TRUE
  <1>1. Ranks!IncrPromise(k) <=>
          IF b = NaN \/ Ranks!Cardinality(infinite) = 2
          THEN Ranks!Refuse("ZINCRBY", k, Ranks!Err("SCORENAN"))
          ELSE Ranks!Serve("ZINCRBY", k, Ranks!Put(P, sum, n), Ranks!Num(sum))
    BY DEF Ranks!IncrPromise
  <1>2. b = d /\ n = m /\ r = s
    BY DEF ScoreAt
  <1>3. /\ Plus(s, d) = NaN <=> d = NaN \/ Cardinality(infinite) = 2
        /\ Plus(s, d) # NaN => Plus(s, d) = sum
    <2> DEFINE inf == {s, d} \cap {-ScoreInf, ScoreInf}
    <2>1. /\ Plus(s, d) = NaN <=> d = NaN \/ Cardinality(inf) = 2
          /\ Plus(s, d) # NaN => Plus(s, d) = IF inf = {} THEN s + d ELSE CHOOSE x \in inf : TRUE
      BY PlusAsPromised
    <2>2. infinite = inf /\ r + b = s + d
      BY <1>2
    <2> HIDE DEF inf, infinite, r, b
    <2>3. QED
      BY <2>1, <2>2
  <1> HIDE DEF infinite, sum
  <1>4. Ranks!IncrPromise(k)
    <2>1. CASE Plus(s, d) = NaN
      BY <1>1, <1>2, <1>3, <2>1, SameOperators
    <2>2. CASE Plus(s, d) # NaN
      BY <1>1, <1>2, <1>3, <2>2, SameOperators
    <2>3. QED
      BY <2>1, <2>2
  <1>5. QED
    BY <1>4 DEF Ranks!Next

LEMMA ZIncrPromised ==
  ASSUME IInv, ZAllWell, NEW i \in Dbs, NEW k \in Keys, NEW d \in Amounts, NEW m \in Names,
         ZIncrByCmd(i, k, d, m), ~Dead(dbs[i], k, now)
  PROVE  Ranks!Next
  <1> DEFINE l == dbs[i]
             P == PairsAt(l, k)
             s == ScoreAt(P, m)
             sum == Plus(s, d)
  <1>1. ZWell(l) /\ d \in Scores \cup {NaN} /\ m \in Chunks
    BY NamesAssumption DEF ZAllWell
  <1>2. StaysFinite(i, k, d, m)
    BY DEF ZIncrByCmd
  <1>3. s \in Scores /\ (sum = NaN \/ sum \in Scores)
    BY <1>1, <1>2, SumStays
  <1>4. PICK height \in Heights : Run("ZINCRBY", i, {k}, <<d, m>>, ZIncrBy(l, k, d, m, height))
    BY DEF ZIncrByCmd
  <1> DEFINE out == ZIncrBy(l, k, d, m, height)
  <1>5. /\ ZDone(l, k, out.ldb)
        /\ OtherAt(l, k) => out.reply = Err("WRONGTYPE") /\ out.ldb = l
        /\ ~OtherAt(l, k) /\ sum = NaN => out.reply = Err("SCORENAN") /\ PairsAt(out.ldb, k) = P
        /\ ~OtherAt(l, k) /\ sum # NaN =>
             out.reply = Num(sum) /\ PairsAt(out.ldb, k) = Ranks!Put(P, sum, m)
    BY <1>1, <1>3, <1>4, ZIncrDone DEF Heights
  <1>6. Run("ZINCRBY", i, {k}, <<d, m>>, out)
    BY <1>4
  <1> HIDE DEF out, s, sum
  <1>7. /\ Ranks!Serve("ZINCRBY", k, PairsAt(out.ldb, k), out.reply)
        /\ Ranks!Here(k) = [other |-> OtherAt(l, k), pairs |-> P]
        /\ last'.db = i
    BY <1>5, <1>6, ZServes
  <1>8. last'.op = "ZINCRBY" /\ last'.arg = <<d, m>> /\ last'.db \in Dbs
    BY <1>6, <1>7 DEF Run
  <1>9. last'.arg[1] = d /\ last'.arg[2] = m
    BY <1>8
  <1>10. Ranks!Here(k).other = OtherAt(l, k) /\ Ranks!Here(k).pairs = P
    BY <1>7
  <1> HIDE DEF P
  <1>11. CASE OtherAt(l, k)
    <2>1. PairsAt(out.ldb, k) = Ranks!Here(k).pairs /\ out.reply = Err("WRONGTYPE")
      BY <1>5, <1>10, <1>11 DEF P
    <2>2. Ranks!Refuse("ZINCRBY", k, Err("WRONGTYPE"))
      BY <1>7, <2>1 DEF Ranks!Refuse
    <2>3. "ZINCRBY" \in Ranks!RankingOps \ {"ZADD"}
      BY DEF Ranks!RankingOps
    <2>4. QED
      BY <1>8, <1>10, <1>11, <2>2, <2>3, RefusedForType
  <1>12. CASE ~OtherAt(l, k)
    <2>1. s = ScoreAt(Ranks!Here(k).pairs, m)
      BY <1>10 DEF s
    <2>2. \/ Plus(s, d) = NaN /\ Ranks!Refuse("ZINCRBY", k, Err("SCORENAN"))
          \/ /\ Plus(s, d) # NaN
             /\ Ranks!Serve("ZINCRBY", k, Ranks!Put(Ranks!Here(k).pairs, Plus(s, d), m), Num(Plus(s, d)))
      BY <1>5, <1>7, <1>10, <1>12 DEF Ranks!Refuse, sum
    <2>3. QED
      BY <1>1, <1>3, <1>8, <1>9, <1>10, <1>12, <2>1, <2>2, IncrIsPromised
  <1>13. QED
    BY <1>11, <1>12

\* A command that takes the pairs T out and answers r, and is promised to.
TakesAndAnswers(op, i, k, arg, none, ms, answer, T, r) ==
  /\ Takes(dbs[i], k, ms, T) /\ Run(op, i, {k}, arg, TakeOut(dbs[i], k, none, ms, answer))
  /\ ZSetStored(dbs[i], k) => answer = r
  /\ ~Stored(dbs[i], k) => none = r

MeantBy(op, k, arg, P, T, r) ==
  /\ last'.op = op /\ last'.arg = arg /\ Ranks!Here(k).pairs = P
  /\ Ranks!Serve(op, k, Ranks!Here(k).pairs \ T, r)
  => Ranks!TakePromise(k)

LEMMA TakeIsPromised ==
  ASSUME IInv, ZAllWell, NEW op, op \in Ranks!RankingOps \ {"ZADD"}, NEW i \in Dbs, NEW k \in Keys,
         ~Dead(dbs[i], k, now), NEW arg, NEW none, NEW ms, NEW answer, NEW T, NEW r,
         TakesAndAnswers(op, i, k, arg, none, ms, answer, T, r),
         MeantBy(op, k, arg, PairsAt(dbs[i], k), T, r)
  PROVE  Ranks!Next
  <1> DEFINE l == dbs[i]
  <1>0. /\ Takes(l, k, ms, T) /\ Run(op, i, {k}, arg, TakeOut(l, k, none, ms, answer))
        /\ ZSetStored(l, k) => answer = r
        /\ ~Stored(l, k) => none = r
    BY DEF TakesAndAnswers
  <1>1. /\ Ranks!Here(k) = [other |-> OtherAt(l, k), pairs |-> PairsAt(l, k)]
        /\ last'.db = i /\ last'.op = op /\ last'.arg = arg
        /\ OtherAt(l, k) => Ranks!Refuse(op, k, Err("WRONGTYPE"))
        /\ ~OtherAt(l, k) =>
             Ranks!Serve(op, k, Ranks!Here(k).pairs \ T, IF Stored(l, k) THEN answer ELSE none)
    BY <1>0, TakeServes
  <1>2. Ranks!Here(k).other = OtherAt(l, k) /\ Ranks!Here(k).pairs = PairsAt(l, k)
    BY <1>1
  <1>3. CASE OtherAt(l, k)
    BY <1>1, <1>2, <1>3, RefusedForType
  <1>4. CASE ~OtherAt(l, k)
    <2>1. (IF Stored(l, k) THEN answer ELSE none) = r
      BY <1>0, <1>4 DEF OtherAt, ZSetStored
    <2>2. Ranks!TakePromise(k)
      BY <1>1, <1>2, <1>4, <2>1 DEF MeantBy
    <2>3. QED
      BY <1>1, <1>2, <1>4, <2>2, TakenAsPromised
  <1>5. QED
    BY <1>3, <1>4

LEMMA TakesPromised ==
  ASSUME IInv, ZAllWell, NEW i \in Dbs, NEW k \in Keys, ~Dead(dbs[i], k, now)
  PROVE  /\ \A ms \in NameLists : ZRemCmd(i, k, ms) => Ranks!Next
         /\ \A lo, hi \in Limits : ZRemRangeByScoreCmd(i, k, lo, hi) => Ranks!Next
         /\ \A m, n \in Places : ZRemRangeByRankCmd(i, k, m, n) => ZDeparture(last') \/ Ranks!Next
         /\ \A n \in 0..MaxCount : ZPopMinCmd(i, k, n) \/ ZPopMaxCmd(i, k, n) => Ranks!Next
  <1> DEFINE l == dbs[i]
             P == PairsAt(l, k)
             z == l.data[k]
  <1>0. ZWell(l)
    BY DEF ZAllWell
  <1>1. /\ "ZREM" \in Ranks!RankingOps \ {"ZADD"} /\ "ZREMRANGEBYSCORE" \in Ranks!RankingOps \ {"ZADD"}
        /\ "ZREMRANGEBYRANK" \in Ranks!RankingOps \ {"ZADD"}
        /\ "ZPOPMIN" \in Ranks!RankingOps \ {"ZADD"} /\ "ZPOPMAX" \in Ranks!RankingOps \ {"ZADD"}
    BY DEF Ranks!RankingOps
  <1>2. \A R : Ranks!Num(Ranks!Cardinality(R)) = Num(Cardinality(R))
    BY SameOperators
  <1>3. ASSUME NEW ms \in NameLists, ZRemCmd(i, k, ms)
        PROVE  Ranks!Next
    <2> DEFINE T == {p \in P : \E j \in DOMAIN ms : ms[j] = p[2]}
               answer == Num(Cardinality({ms[j] : j \in 1..Len(ms)} \cap Members(z)))
    <2>1. /\ Takes(l, k, ms, T)
          /\ ZSetStored(l, k) =>
               Cardinality({ms[j] : j \in 1..Len(ms)} \cap Members(z)) = Cardinality(T)
          /\ ~Stored(l, k) => Cardinality(T) = 0
      BY <1>0, FromNameLists, ZRemTakes
    <2>2. Run("ZREM", i, {k}, ms, TakeOut(l, k, Num(0), ms, answer))
      BY <1>3 DEF ZRemCmd, ZRem
    <2>3. (ZSetStored(l, k) => answer = Num(Cardinality(T))) /\ (~Stored(l, k) => Num(0) = Num(Cardinality(T)))
      BY <2>1
    <2> HIDE DEF answer
    <2>4. /\ last'.op = "ZREM" /\ last'.arg = ms /\ Ranks!Here(k).pairs = P
          /\ Ranks!Serve("ZREM", k, Ranks!Here(k).pairs \ T, Num(Cardinality(T)))
          => Ranks!TakePromise(k)
      <3>1. SUFFICES ASSUME last'.op = "ZREM", last'.arg = ms, Ranks!Here(k).pairs = P,
                            Ranks!Serve("ZREM", k, Ranks!Here(k).pairs \ T, Num(Cardinality(T)))
                     PROVE  Ranks!TakePromise(k)
        OBVIOUS
      <3>2. {p \in Ranks!Here(k).pairs : \E j \in DOMAIN last'.arg : last'.arg[j] = p[2]} = T
        BY <3>1
      <3> HIDE DEF T
      <3>3. Ranks!Counted("ZREM", k, T)
        BY <1>2, <3>1 DEF Ranks!Counted
      <3>4. QED
        BY <3>1, <3>2, <3>3 DEF Ranks!TakePromise
    <2> HIDE DEF T
    <2>5. TakesAndAnswers("ZREM", i, k, ms, Num(0), ms, answer, T, Num(Cardinality(T)))
      BY <2>1, <2>2, <2>3 DEF TakesAndAnswers
    <2>6. MeantBy("ZREM", k, ms, PairsAt(l, k), T, Num(Cardinality(T)))
      BY <2>4 DEF MeantBy
    <2>7. QED
      BY <1>1, <2>5, <2>6, TakeIsPromised
  <1>4. ASSUME NEW lo \in Limits, NEW hi \in Limits, ZRemRangeByScoreCmd(i, k, lo, hi)
        PROVE  Ranks!Next
    <2> DEFINE T == {p \in P : Ranks!Inside(p, lo, hi)}
               range == Between(Iter(z.sl), lo, hi)
               ms == MembersOf(range)
               answer == Num(Len(range))
               arg == <<lo, hi>>
    <2>1. /\ Takes(l, k, ms, T)
          /\ ZSetStored(l, k) => Len(range) = Cardinality(T)
          /\ ~Stored(l, k) => Cardinality(T) = 0
      BY <1>0, ZByScoreTakes
    <2>2. Run("ZREMRANGEBYSCORE", i, {k}, arg, TakeOut(l, k, Num(0), ms, answer))
      BY <1>4 DEF ZRemRangeByScoreCmd, ZRemRangeByScore
    <2>3. (ZSetStored(l, k) => answer = Num(Cardinality(T))) /\ (~Stored(l, k) => Num(0) = Num(Cardinality(T)))
      BY <2>1
    <2>4. arg[1] = lo /\ arg[2] = hi
      OBVIOUS
    <2> HIDE DEF answer, ms, arg
    <2>5. /\ last'.op = "ZREMRANGEBYSCORE" /\ last'.arg = arg /\ Ranks!Here(k).pairs = P
          /\ Ranks!Serve("ZREMRANGEBYSCORE", k, Ranks!Here(k).pairs \ T, Num(Cardinality(T)))
          => Ranks!TakePromise(k)
      <3>1. SUFFICES ASSUME last'.op = "ZREMRANGEBYSCORE", last'.arg = arg, Ranks!Here(k).pairs = P,
                            Ranks!Serve("ZREMRANGEBYSCORE", k, Ranks!Here(k).pairs \ T, Num(Cardinality(T)))
                     PROVE  Ranks!TakePromise(k)
        OBVIOUS
      <3>2. {p \in Ranks!Here(k).pairs : Ranks!Inside(p, last'.arg[1], last'.arg[2])} = T
        BY <2>4, <3>1
      <3> HIDE DEF T
      <3>3. Ranks!Counted("ZREMRANGEBYSCORE", k, T)
        BY <1>2, <3>1 DEF Ranks!Counted
      <3>4. QED
        BY <3>1, <3>2, <3>3 DEF Ranks!TakePromise
    <2> HIDE DEF T
    <2>6. TakesAndAnswers("ZREMRANGEBYSCORE", i, k, arg, Num(0), ms, answer, T, Num(Cardinality(T)))
      BY <2>1, <2>2, <2>3 DEF TakesAndAnswers
    <2>7. MeantBy("ZREMRANGEBYSCORE", k, arg, PairsAt(l, k), T, Num(Cardinality(T)))
      BY <2>5 DEF MeantBy
    <2>8. QED
      BY <1>1, <2>6, <2>7, TakeIsPromised
  <1>5. ASSUME NEW m \in Places, NEW n \in Places, ZRemRangeByRankCmd(i, k, m, n)
        PROVE  ZDeparture(last') \/ Ranks!Next
    <2> DEFINE T == Ranks!RankedIn(P, m, n)
               range == ByIndex(z, m, n)
               ms == MembersOf(range)
               answer == Num(Len(range))
               arg == <<m, n>>
    <2>0. m \in Int /\ n \in Int
      BY FlagsAssumption
    <2>1. /\ \E U : Takes(l, k, ms, U)
          /\ n >= -Cardinality(P) =>
                   /\ Takes(l, k, ms, T)
                   /\ ZSetStored(l, k) => Len(range) = Cardinality(T)
          /\ ~Stored(l, k) => Cardinality(T) = 0
      BY <1>0, <2>0, ZByRankTakes
    <2>2. Run("ZREMRANGEBYRANK", i, {k}, arg, TakeOut(l, k, Num(0), ms, answer))
      BY <1>5 DEF ZRemRangeByRankCmd, ZRemRangeByRank
    <2>4. arg[1] = m /\ arg[2] = n
      OBVIOUS
    <2>5. CASE n >= -Cardinality(P)
      <3>1. (ZSetStored(l, k) => answer = Num(Cardinality(T))) /\ (~Stored(l, k) => Num(0) = Num(Cardinality(T)))
        BY <2>1, <2>5
      <3>2. Takes(l, k, ms, T)
        BY <2>1, <2>5
      <3> HIDE DEF answer, ms, arg
      <3>3. /\ last'.op = "ZREMRANGEBYRANK" /\ last'.arg = arg /\ Ranks!Here(k).pairs = P
            /\ Ranks!Serve("ZREMRANGEBYRANK", k, Ranks!Here(k).pairs \ T, Num(Cardinality(T)))
            => Ranks!TakePromise(k)
        <4>1. SUFFICES ASSUME last'.op = "ZREMRANGEBYRANK", last'.arg = arg, Ranks!Here(k).pairs = P,
                              Ranks!Serve("ZREMRANGEBYRANK", k, Ranks!Here(k).pairs \ T, Num(Cardinality(T)))
                       PROVE  Ranks!TakePromise(k)
          OBVIOUS
        <4>2. Ranks!RankedIn(Ranks!Here(k).pairs, last'.arg[1], last'.arg[2]) = T
          BY <2>4, <4>1
        <4> HIDE DEF T
        <4>3. Ranks!Counted("ZREMRANGEBYRANK", k, T)
          BY <1>2, <4>1 DEF Ranks!Counted
        <4>4. QED
          BY <4>1, <4>2, <4>3 DEF Ranks!TakePromise
      <3> HIDE DEF T
      <3>4. TakesAndAnswers("ZREMRANGEBYRANK", i, k, arg, Num(0), ms, answer, T, Num(Cardinality(T)))
        BY <2>2, <3>1, <3>2 DEF TakesAndAnswers
      <3>5. MeantBy("ZREMRANGEBYRANK", k, arg, PairsAt(l, k), T, Num(Cardinality(T)))
        BY <3>3 DEF MeantBy
      <3>6. Ranks!Next
        BY <1>1, <3>4, <3>5, TakeIsPromised
      <3>7. QED
        BY <3>6
    <2>6. CASE ~(n >= -Cardinality(P))
      <3> HIDE DEF answer, ms, arg
      <3>1. PICK U : Takes(l, k, ms, U)
        BY <2>1
      <3>2. /\ Ranks!Here(k) = [other |-> OtherAt(l, k), pairs |-> P]
            /\ last'.op = "ZREMRANGEBYRANK" /\ last'.arg = arg
        BY <2>2, <3>1, TakeServes
      <3>3. Cardinality(P) \in Nat
        <4>1. CASE ZSetStored(l, k)
          <5>1. ZOK(z) /\ P = PairsOf(z)
            BY <1>0, <4>1 DEF ZWell, PairsAt
          <5>2. QED
            BY <5>1, AsManyMembers
        <4>2. CASE ~ZSetStored(l, k)
          BY <4>2, FS_EmptySet DEF PairsAt
        <4>3. QED
          BY <4>1, <4>2
      <3>4. Ranks!Here(k).pairs = P
        BY <3>2
      <3> HIDE DEF P
      <3>5. last'.arg[2] < -Cardinality(Ranks!Here(k).pairs)
        BY <2>0, <2>4, <2>6, <3>2, <3>3, <3>4
      <3>6. k \in last'.keys
        BY <2>2 DEF Run
      <3>7. QED
        BY <3>2, <3>5, <3>6 DEF ZDeparture
    <2>7. QED
      BY <2>5, <2>6
  <1>6. ASSUME NEW n \in 0..MaxCount, NEW op, NEW s,
               \/ /\ op = "ZPOPMIN" /\ ZPopMinCmd(i, k, n) /\ s = SkipTake(Iter(z.sl), 0, n)
               \/ /\ op = "ZPOPMAX" /\ ZPopMaxCmd(i, k, n) /\ s = SkipTake(IterRev(z.sl), 0, n)
        PROVE  Ranks!Next
    <2> DEFINE T == {s[j] : j \in DOMAIN s}
               ms == MembersOf(s)
               answer == Bulk(s)
               none == Bulk(<<>>)
               v == Ranks!First(IF op = "ZPOPMIN" THEN Ranks!Ascending(P) ELSE Ranks!Descending(P), n)
               U == {v[j] : j \in DOMAIN v}
    <2>0. n \in Nat
      BY FlagsAssumption
    <2>1. Run(op, i, {k}, n, TakeOut(l, k, none, ms, answer))
      <3>1. CASE op = "ZPOPMIN" /\ ZPopMinCmd(i, k, n) /\ s = SkipTake(Iter(z.sl), 0, n)
        BY <3>1 DEF ZPopMinCmd, ZPopMin
      <3>2. CASE op = "ZPOPMAX" /\ ZPopMaxCmd(i, k, n) /\ s = SkipTake(IterRev(z.sl), 0, n)
        BY <3>2 DEF ZPopMaxCmd, ZPopMax
      <3>3. QED
        BY <1>6, <3>1, <3>2
    <2>2. Takes(l, k, ms, T) /\ (ZSetStored(l, k) => s = v)
      <3> DEFINE lowest == SkipTake(Iter(z.sl), 0, n)
                 highest == SkipTake(IterRev(z.sl), 0, n)
      <3>1. /\ Takes(l, k, MembersOf(lowest), {lowest[j] : j \in DOMAIN lowest})
            /\ Takes(l, k, MembersOf(highest), {highest[j] : j \in DOMAIN highest})
            /\ ZSetStored(l, k) =>
                   /\ lowest = Ranks!First(Ranks!Ascending(P), n)
                   /\ highest = Ranks!First(Ranks!Descending(P), n)
        BY <1>0, <2>0, ZPopTakes
      <3>2. (op = "ZPOPMIN" /\ s = lowest) \/ (op = "ZPOPMAX" /\ s = highest)
        BY <1>6
      <3> HIDE DEF lowest, highest, P
      <3>3. QED
        BY <3>1, <3>2
    <2>3. ~Stored(l, k) => v = <<>> /\ P = {}
      <3>1. ~Stored(l, k) => P = {}
        BY DEF PairsAt, ZSetStored
      <3>2. Ranks!First(<<>>, n) = <<>>
        BY <2>0 DEF Ranks!First
      <3>3. QED
        BY <3>1, <3>2, NothingAscends
    <2>4. (ZSetStored(l, k) => answer = Bulk(v)) /\ (~Stored(l, k) => none = Bulk(v))
      BY <2>2, <2>3
    <2>5. op \in Ranks!RankingOps \ {"ZADD"}
      BY <1>1, <1>6
    <2>6. Takes(l, k, ms, U)
      <3>1. CASE ZSetStored(l, k)
        BY <2>2, <3>1
      <3>2. CASE ~ZSetStored(l, k)
        BY <3>2 DEF Takes
      <3>3. QED
        BY <3>1, <3>2
    <2>7. op = "ZPOPMIN" \/ op = "ZPOPMAX"
      BY <1>6
    <2>8. /\ last'.op = op /\ last'.arg = n /\ Ranks!Here(k).pairs = P
          /\ Ranks!Serve(op, k, Ranks!Here(k).pairs \ U, Bulk(v))
          => Ranks!TakePromise(k)
      <3>1. SUFFICES ASSUME last'.op = op, last'.arg = n, Ranks!Here(k).pairs = P,
                            Ranks!Serve(op, k, Ranks!Here(k).pairs \ U, Bulk(v))
                     PROVE  Ranks!TakePromise(k)
        OBVIOUS
      <3>2. v = Ranks!First(IF op = "ZPOPMIN" THEN Ranks!Ascending(Ranks!Here(k).pairs)
                            ELSE Ranks!Descending(Ranks!Here(k).pairs), last'.arg)
        BY <3>1
      <3>3. Ranks!Shown(op, k, v)
        <4> HIDE DEF v
        <4>1. QED
          BY <3>1, SameOperators DEF Ranks!Shown
      <3> HIDE DEF v
      <3>4. QED
        BY <2>7, <3>1, <3>2, <3>3 DEF Ranks!TakePromise
    <2> HIDE DEF v, U, T, ms, answer, none
    <2>9. TakesAndAnswers(op, i, k, n, none, ms, answer, U, Bulk(v))
      BY <2>1, <2>4, <2>6 DEF TakesAndAnswers
    <2>10. MeantBy(op, k, n, PairsAt(l, k), U, Bulk(v))
      BY <2>8 DEF MeantBy
    <2>11. QED
      BY <2>5, <2>9, <2>10, TakeIsPromised
  <1>7. QED
    BY <1>3, <1>4, <1>5, <1>6

LEMMA ZSetCommandPromised ==
  ASSUME IInv, ZAllWell, NEW i, ZSetCommand(i)
  PROVE  ZMeetsDeadKey(last') \/ ZDeparture(last') \/ Ranks!Next
  <1>1. PICK k \in Keys : \E op, arg, out : ZCommanded(i, op, k, arg, out)
    BY ZSetCommandIsDone
  <1>2. PICK op, arg, out : ZCommanded(i, op, k, arg, out)
    BY <1>1
  <1>3. op \in Ranks!RankingOps /\ Run(op, i, {k}, arg, out)
    BY <1>2 DEF ZCommanded
  <1>4. last'.op = op /\ last'.db = i /\ last'.keys = {k} /\ now' = now
    BY <1>3 DEF Run
  <1>5. CASE i \notin Dbs
    <2>1. dbs' = dbs /\ last'.reply = Err("DBINDEX")
      BY <1>3, <1>5 DEF Run
    <2>2. ZView' = ZView
      BY <1>4, <2>1 DEF ZView
    <2>3. Ranks!NoSuchDb
      BY <1>4, <1>5, <2>1, <2>2, SameOperators DEF Ranks!NoSuchDb
    <2>4. QED
      BY <2>3 DEF Ranks!Next
  <1>6. CASE i \in Dbs /\ Dead(dbs[i], k, now)
    BY <1>3, <1>4, <1>6 DEF ZMeetsDeadKey
  <1>7. CASE i \in Dbs /\ ~Dead(dbs[i], k, now)
    <2>1. ASSUME NEW q \in Keys, last'.keys = {q}
          PROVE  q = k
      BY <1>4, <2>1
    <2>2. ASSUME NEW q \in Keys, NEW p \in Pairs, NEW o \in Flags, ZAddCmd(i, q, p, o)
          PROVE  ZDeparture(last') \/ Ranks!Next
      <3>1. last'.keys = {q}
        BY <2>2 DEF ZAddCmd, Run
      <3>2. QED
        BY <1>7, <2>1, <2>2, <3>1, ZAddPromised
    <2>3. ASSUME NEW q \in Keys, NEW d \in Amounts, NEW m \in Names, ZIncrByCmd(i, q, d, m)
          PROVE  Ranks!Next
      <3>1. last'.keys = {q}
        BY <2>3 DEF ZIncrByCmd, Run
      <3>2. QED
        BY <1>7, <2>1, <2>3, <3>1, ZIncrPromised
    <2>4. /\ \A ms \in NameLists : ZRemCmd(i, k, ms) => Ranks!Next
          /\ \A lo, hi \in Limits : ZRemRangeByScoreCmd(i, k, lo, hi) => Ranks!Next
          /\ \A m, n \in Places : ZRemRangeByRankCmd(i, k, m, n) => ZDeparture(last') \/ Ranks!Next
          /\ \A n \in 0..MaxCount : ZPopMinCmd(i, k, n) \/ ZPopMaxCmd(i, k, n) => Ranks!Next
      BY <1>7, TakesPromised
    <2>5. ASSUME NEW q \in Keys,
                 \/ \E ms \in NameLists : ZRemCmd(i, q, ms)
                 \/ \E lo, hi \in Limits : ZRemRangeByScoreCmd(i, q, lo, hi)
                 \/ \E m, n \in Places : ZRemRangeByRankCmd(i, q, m, n)
                 \/ \E n \in 0..MaxCount : ZPopMinCmd(i, q, n)
                 \/ \E n \in 0..MaxCount : ZPopMaxCmd(i, q, n)
          PROVE  ZDeparture(last') \/ Ranks!Next
      <3>1. last'.keys = {q}
        BY <2>5 DEF ZRemCmd, ZRemRangeByScoreCmd, ZRemRangeByRankCmd, ZPopMinCmd, ZPopMaxCmd, Run
      <3>2. q = k
        BY <2>1, <3>1
      <3>3. QED
        BY <2>4, <2>5, <3>2
    <2>6. QED
      BY <2>2, <2>3, <2>5 DEF ZSetCommand
  <1>8. QED
    BY <1>5, <1>6, <1>7

-----------------------------------------------------------------------------
(* The promise: the other commands.  All of them but those that overwrite  *)
(* a key with a string, or move it, leave its sorted set where it is; what *)
(* brings a dead key back is a Reviver, about that key.                    *)

\* The key q has what it had.
Same(l, w, q) == w.data[q] = l.data[q] /\ w.expiry[q] = l.expiry[q]

\* Every key but those of S has what it had.
Spares(l, w, S) == \A q \in Keys : q \in S \/ Same(l, w, q)

\* Every key has a string, or nothing, or what it had.
Overwrites(l, w) == \A q \in Keys : IsStr(w.data[q]) \/ w.data[q] = Absent \/ Same(l, w, q)

LEMMA SparesPrimitives ==
  ASSUME NEW l, WellFormed(l), NEW k \in Keys
  PROVE  /\ Spares(l, l, {k}) /\ Spares(l, RemoveKey(l, k), {k}) /\ Spares(l, DropExpiry(l, k), {k})
         /\ \A o : Spares(l, InsertKey(l, k, o), {k})
         /\ \A at : Spares(l, SetExpiryAt(l, k, at).ldb, {k})
         /\ \A d, t : Spares(l, SetExpiry(l, k, d, t).ldb, {k})
  BY DEF WellFormed, LDBs, Spares, Same, RemoveKey, DropExpiry, InsertKey, SetExpiryAt, SetExpiry, Out

LEMMA SparesTimes ==
  ASSUME NEW l, WellFormed(l), NEW k \in Keys, NEW n, NEW t
  PROVE  /\ Spares(l, Expire(l, k, n, t).ldb, {k}) /\ Spares(l, PExpire(l, k, n, t).ldb, {k})
         /\ Spares(l, ExpireAtCommand(l, k, n, t).ldb, {k})
         /\ Spares(l, PExpireAt(l, k, n, t).ldb, {k})
         /\ Spares(l, Persist(l, k).ldb, {k})
  <1>1. Spares(l, DeleteNow(l, k).ldb, {k}) /\ Spares(l, Persist(l, k).ldb, {k})
    BY SparesPrimitives DEF DeleteNow, Persist, Out
  <1>2. \A m : Spares(l, Expire(l, k, m, t).ldb, {k})
    BY <1>1, SparesPrimitives DEF Expire
  <1>3. QED
    BY <1>1, <1>2, SparesPrimitives DEF PExpire, PExpireAt, ExpireAtCommand

LEMMA SparesGetDel ==
  ASSUME NEW l, WellFormed(l), NEW k \in Keys
  PROVE  Spares(l, StrGetDel(l, k).ldb, {k})
  <1>1. WellFormed(RemoveKey(l, k))
    BY RemoveWF
  <1>2. \A o : Spares(RemoveKey(l, k), InsertKey(RemoveKey(l, k), k, o), {k})
    BY <1>1, SparesPrimitives
  <1>3. Spares(l, RemoveKey(l, k), {k})
    BY SparesPrimitives
  <1>4. \A o : Spares(l, InsertKey(RemoveKey(l, k), k, o), {k})
    BY <1>2, <1>3 DEF Spares, Same
  <1>5. QED
    BY <1>3, <1>4 DEF StrGetDel, Out

LEMMA SparesMove ==
  ASSUME NEW l, WellFormed(l), NEW src \in Keys, NEW dst \in Keys, NEW t
  PROVE  /\ Spares(l, Rename(l, src, dst).ldb, {src, dst})
         /\ Spares(l, Renamenx(l, src, dst, t).ldb, {src, dst})
  <1>1. ASSUME NEW r
        PROVE  Spares(l, MoveObject(l, src, dst, r).ldb, {src, dst})
    <2>1. WellFormed(RemoveKey(l, src)) /\ Spares(l, RemoveKey(l, src), {src})
      BY RemoveWF, SparesPrimitives
    <2>2. \A o : Spares(RemoveKey(l, src), InsertKey(RemoveKey(l, src), dst, o), {dst})
      BY <2>1, SparesPrimitives
    <2>3. \A o : Spares(l, InsertKey(RemoveKey(l, src), dst, o), {src, dst})
      BY <2>1, <2>2 DEF Spares, Same
    <2>4. Spares(l, RemoveKey(l, src), {src, dst})
      BY <2>1 DEF Spares
    <2>5. QED
      BY <2>3, <2>4 DEF MoveObject, Out
  <1>2. Spares(l, l, {src, dst})
    BY DEF Spares, Same
  <1>3. QED
    BY <1>1, <1>2 DEF Rename, Renamenx, Out

LEMMA OverwritesPrimitives ==
  ASSUME NEW l, WellFormed(l), NEW k \in Keys, NEW v
  PROVE  /\ Overwrites(l, l) /\ Overwrites(l, InsertKey(l, k, Str(v)))
         /\ \A d, t : Overwrites(l, SetExpiry(InsertKey(l, k, Str(v)), k, d, t).ldb)
         /\ \A n, t : Overwrites(l, Expire(InsertKey(l, k, Str(v)), k, n, t).ldb)
  <1> DEFINE w == InsertKey(l, k, Str(v))
  <1>1. IsStr(Str(v))
    BY DEF IsStr, Str
  <1>2. /\ w.data = [l.data EXCEPT ![k] = Str(v)] /\ w.expiry = [l.expiry EXCEPT ![k] = Never]
        /\ w = [data |-> w.data, expiry |-> w.expiry]
    BY DEF InsertKey
  <1> HIDE DEF w
  <1>3. Overwrites(l, l) /\ Overwrites(l, w)
    BY <1>1, <1>2 DEF Overwrites, Same, WellFormed, LDBs
  <1>4. \A e : Overwrites(l, [w EXCEPT !.expiry = [@ EXCEPT ![k] = e]])
    BY <1>1, <1>2 DEF Overwrites, Same, WellFormed, LDBs
  <1>5. \A d, t : Overwrites(l, SetExpiry(w, k, d, t).ldb)
    BY <1>3, <1>4 DEF SetExpiry, SetExpiryAt, Out
  <1>6. Overwrites(l, RemoveKey(w, k))
    BY <1>2 DEF RemoveKey, Overwrites, Same, WellFormed, LDBs
  <1>7. \A n, t : Overwrites(l, Expire(w, k, n, t).ldb)
    BY <1>5, <1>6 DEF Expire, DeleteNow, Out
  <1>8. QED
    BY <1>3, <1>5, <1>7 DEF w

LEMMA OverwritesStrings ==
  ASSUME NEW l, WellFormed(l), NEW k \in Keys, NEW v, NEW t
  PROVE  /\ \A o : Overwrites(l, ExecSet(l, k, v, o, t).ldb)
         /\ Overwrites(l, StrSetNx(l, k, v, t).ldb)
         /\ Overwrites(l, StrGetSet(l, k, v, t).ldb)
  <1>1. \A d : Overwrites(l, StrSet(l, k, v, d, t).ldb)
    BY OverwritesPrimitives DEF StrSet, AndReply, Out
  <1>2. Overwrites(l, StrSetNx(l, k, v, t).ldb) /\ Overwrites(l, l)
    BY OverwritesPrimitives DEF StrSetNx, Out
  <1>3. \A d : Overwrites(l, StrSetXx(l, k, v, d, t).ldb)
    BY <1>1, <1>2 DEF StrSetXx, Out
  <1>4. \A d : Overwrites(l, SetNxThenExpire(l, k, v, d, t).ldb)
    <2>1. StrSetNx(l, k, v, t).ldb \in {l, InsertKey(l, k, Str(v))}
          /\ (StrSetNx(l, k, v, t).ldb = l => StrSetNx(l, k, v, t).reply = BoolInt(FALSE)
                                              \/ l = InsertKey(l, k, Str(v)))
      BY DEF StrSetNx, Out
    <2> DEFINE set == StrSetNx(l, k, v, t)
    <2>2. \A d : SetNxThenExpire(l, k, v, d, t)
                   = IF set.reply = BoolInt(FALSE) THEN Out(l, Nil)
                     ELSE IF d = Never THEN Out(set.ldb, Ok)
                     ELSE AndReply(Expire(set.ldb, k, d \div Sec, t), Ok)
      BY DEF SetNxThenExpire
    <2> HIDE DEF set
    <2>3. set.reply # BoolInt(FALSE) => set.ldb = InsertKey(l, k, Str(v))
      BY <2>1 DEF set
    <2>4. set.reply # BoolInt(FALSE) => \A n : Overwrites(l, Expire(set.ldb, k, n, t).ldb)
      BY <2>3, OverwritesPrimitives
    <2>5. \A r : AndReply(r, Ok).ldb = r.ldb
      BY DEF AndReply, Out
    <2>6. \A r, s : Out(r, s).ldb = r
      BY DEF Out
    <2>7. Overwrites(l, l) /\ (set.reply # BoolInt(FALSE) => Overwrites(l, set.ldb))
      BY <1>2 DEF set
    <2>8. ASSUME NEW d
          PROVE  Overwrites(l, SetNxThenExpire(l, k, v, d, t).ldb)
      <3>1. CASE set.reply = BoolInt(FALSE)
        BY <2>2, <2>6, <2>7, <3>1
      <3>2. CASE set.reply # BoolInt(FALSE) /\ d = Never
        BY <2>2, <2>6, <2>7, <3>2
      <3>3. CASE set.reply # BoolInt(FALSE) /\ d # Never
        <4>1. SetNxThenExpire(l, k, v, d, t) = AndReply(Expire(set.ldb, k, d \div Sec, t), Ok)
          BY <2>2, <3>3
        <4>2. Overwrites(l, Expire(set.ldb, k, d \div Sec, t).ldb)
          BY <2>4, <3>3
        <4>3. AndReply(Expire(set.ldb, k, d \div Sec, t), Ok).ldb = Expire(set.ldb, k, d \div Sec, t).ldb
          BY <2>5
        <4>4. QED
          BY <4>1, <4>2, <4>3
      <3>4. QED
        BY <3>1, <3>2, <3>3
    <2>9. QED
      BY <2>8
  <1>5. \A o : Overwrites(l, ExecSet(l, k, v, o, t).ldb)
    BY <1>1, <1>2, <1>3, <1>4 DEF ExecSet, Out
  <1>6. Overwrites(l, StrGetSet(l, k, v, t).ldb)
    BY <1>1, <1>2 DEF StrGetSet, Out
  <1>7. QED
    BY <1>2, <1>5, <1>6

LEMMA OverwritesMany ==
  ASSUME NEW l, WellFormed(l), NEW kv, NEW t
  PROVE  Overwrites(l, MSet(l, kv).ldb) /\ Overwrites(l, MSetNx(l, kv, t).ldb)
  <1>1. \A v : IsStr(Str(v))
    BY DEF IsStr, Str
  <1>2. Overwrites(l, MSet(l, kv).ldb)
    BY <1>1 DEF Overwrites, Same, MSet, Out
  <1>3. Overwrites(l, l)
    BY DEF Overwrites, Same
  <1>4. QED
    BY <1>2, <1>3 DEF MSetNx, AndReply, Out

\* What a named command does to the databases, but for RENAME.
Overwritten ==
  /\ now' = now /\ last'.op \notin {"RENAME", "RENAMENX"}
  /\ \A j \in Dbs : Overwrites(dbs[j], dbs'[j])

\* What a Reviver does to them.
Reviving ==
  /\ now' = now /\ last'.op \in Revivers
  /\ last'.op \in {"RENAME", "RENAMENX"} => last'.arg[1] \in last'.keys
  /\ \A j \in Dbs, q \in Keys : (last'.db = j /\ q \in last'.keys) \/ Same(dbs[j], dbs'[j], q)

LEMMA RunOverwrites ==
  ASSUME IInv, NEW op, op \notin {"RENAME", "RENAMENX"}, NEW i, NEW S, NEW arg, NEW out,
         Run(op, i, S, arg, out), i \in Dbs => Overwrites(dbs[i], out.ldb)
  PROVE  Overwritten
  <1>1. now' = now /\ last'.op = op
    BY DEF Run
  <1>2. ASSUME NEW j \in Dbs
        PROVE  Overwrites(dbs[j], dbs'[j])
    <2>1. dbs'[j] = IF i \in Dbs /\ i = j THEN out.ldb ELSE dbs[j]
      BY DEF Run, IInv, AllWellFormed
    <2>2. Overwrites(dbs[j], dbs[j])
      BY DEF Overwrites, Same
    <2>3. QED
      BY <2>1, <2>2
  <1>3. QED
    BY <1>1, <1>2 DEF Overwritten

LEMMA RunRevives ==
  ASSUME IInv, NEW op \in Revivers, NEW i, NEW S, NEW arg, NEW out,
         Run(op, i, S, arg, out), i \in Dbs => Spares(dbs[i], out.ldb, S),
         op \in {"RENAME", "RENAMENX"} => arg[1] \in S
  PROVE  Reviving
  <1>1. now' = now /\ last'.op = op /\ last'.db = i /\ last'.keys = S /\ last'.arg = arg
    BY DEF Run
  <1>2. ASSUME NEW j \in Dbs, NEW q \in Keys
        PROVE  (i = j /\ q \in S) \/ Same(dbs[j], dbs'[j], q)
    <2>1. dbs'[j] = IF i \in Dbs /\ i = j THEN out.ldb ELSE dbs[j]
      BY DEF Run, IInv, AllWellFormed
    <2>2. QED
      BY <2>1 DEF Spares, Same
  <1>3. QED
    BY <1>1, <1>2 DEF Reviving

LEMMA GenericTouches ==
  ASSUME IInv, NEW i, GenericCommand(i), Named
  PROVE  Reviving
  <1>0. i \in Dbs => WellFormed(dbs[i])
    BY DEF IInv, AllWellFormed
  <1>1. ASSUME NEW S \in SUBSET Keys, DelCmd(i, S)
        PROVE  ~Named
    BY <1>1 DEF DelCmd, Run, Named, Overwriting
  <1>2. CASE FlushDbCmd(i) \/ FlushAllCmd(i)
    BY <1>2 DEF FlushDbCmd, FlushAllCmd, Run, Named, Overwriting
  <1>3. ASSUME NEW src \in Keys, NEW dst \in Keys, RenameCmd(i, src, dst) \/ RenamenxCmd(i, src, dst)
        PROVE  Reviving
    <2>1. i \in Dbs => /\ Spares(dbs[i], Rename(dbs[i], src, dst).ldb, {src, dst})
                       /\ Spares(dbs[i], Renamenx(dbs[i], src, dst, now).ldb, {src, dst})
      BY <1>0, SparesMove
    <2>2. <<src, dst>>[1] \in {src, dst} /\ "RENAME" \in Revivers /\ "RENAMENX" \in Revivers
      BY DEF Revivers
    <2>3. CASE RenameCmd(i, src, dst)
      BY <2>1, <2>2, <2>3, RunRevives DEF RenameCmd
    <2>4. CASE RenamenxCmd(i, src, dst)
      BY <2>1, <2>2, <2>4, RunRevives DEF RenamenxCmd
    <2>5. QED
      BY <1>3, <2>3, <2>4
  <1>4. ASSUME NEW k \in Keys, NEW n, \/ ExpireCmd(i, k, n) \/ PExpireCmd(i, k, n)
                                     \/ ExpireAtCmd(i, k, n) \/ PExpireAtCmd(i, k, n)
                                     \/ PersistCmd(i, k)
        PROVE  Reviving
    <2>1. i \in Dbs => /\ Spares(dbs[i], Expire(dbs[i], k, n, now).ldb, {k})
                       /\ Spares(dbs[i], PExpire(dbs[i], k, n, now).ldb, {k})
                       /\ Spares(dbs[i], ExpireAtCommand(dbs[i], k, n, now).ldb, {k})
                       /\ Spares(dbs[i], PExpireAt(dbs[i], k, n, now).ldb, {k})
                       /\ Spares(dbs[i], Persist(dbs[i], k).ldb, {k})
      BY <1>0, SparesTimes
    <2>2. /\ "EXPIRE" \in Revivers /\ "PEXPIRE" \in Revivers /\ "EXPIREAT" \in Revivers
          /\ "PEXPIREAT" \in Revivers /\ "PERSIST" \in Revivers
          /\ {"EXPIRE", "PEXPIRE", "EXPIREAT", "PEXPIREAT", "PERSIST"} \cap {"RENAME", "RENAMENX"} = {}
      BY DEF Revivers
    <2>3. CASE ExpireCmd(i, k, n)
      BY <2>1, <2>2, <2>3, RunRevives DEF ExpireCmd
    <2>4. CASE PExpireCmd(i, k, n)
      BY <2>1, <2>2, <2>4, RunRevives DEF PExpireCmd
    <2>5. CASE ExpireAtCmd(i, k, n)
      BY <2>1, <2>2, <2>5, RunRevives DEF ExpireAtCmd
    <2>6. CASE PExpireAtCmd(i, k, n)
      BY <2>1, <2>2, <2>6, RunRevives DEF PExpireAtCmd
    <2>7. CASE PersistCmd(i, k)
      BY <2>1, <2>2, <2>7, RunRevives DEF PersistCmd
    <2>8. QED
      BY <1>4, <2>3, <2>4, <2>5, <2>6, <2>7
  <1>5. QED
    BY <1>1, <1>2, <1>3, <1>4 DEF GenericCommand

LEMMA StringTouches ==
  ASSUME IInv, NEW i, StringCommand(i), Named
  PROVE  Reviving \/ Overwritten
  <1>0. i \in Dbs => WellFormed(dbs[i])
    BY DEF IInv, AllWellFormed
  <1>1. ASSUME NEW k \in Keys, NEW v, \/ \E o \in SetOptions : SetCmd(i, k, v, o)
                                     \/ SetnxCmd(i, k, v) \/ GetSetCmd(i, k, v)
        PROVE  Overwritten
    <2>1. i \in Dbs => /\ \A o : Overwrites(dbs[i], ExecSet(dbs[i], k, v, o, now).ldb)
                       /\ Overwrites(dbs[i], StrSetNx(dbs[i], k, v, now).ldb)
                       /\ Overwrites(dbs[i], StrGetSet(dbs[i], k, v, now).ldb)
      BY <1>0, OverwritesStrings
    <2>2. CASE \E o \in SetOptions : SetCmd(i, k, v, o)
      BY <2>1, <2>2, RunOverwrites DEF SetCmd
    <2>3. CASE SetnxCmd(i, k, v)
      BY <2>1, <2>3, RunOverwrites DEF SetnxCmd
    <2>4. CASE GetSetCmd(i, k, v)
      BY <2>1, <2>4, RunOverwrites DEF GetSetCmd
    <2>5. QED
      BY <1>1, <2>2, <2>3, <2>4
  <1>2. ASSUME NEW kv, MSetCmd(i, kv) \/ MSetNxCmd(i, kv)
        PROVE  Overwritten
    <2>1. i \in Dbs => /\ Overwrites(dbs[i], MSet(dbs[i], kv).ldb)
                       /\ Overwrites(dbs[i], MSetNx(dbs[i], kv, now).ldb)
      BY <1>0, OverwritesMany
    <2>2. CASE MSetCmd(i, kv)
      BY <2>1, <2>2, RunOverwrites DEF MSetCmd
    <2>3. CASE MSetNxCmd(i, kv)
      BY <2>1, <2>3, RunOverwrites DEF MSetNxCmd
    <2>4. QED
      BY <1>2, <2>2, <2>3
  <1>3. ASSUME NEW k \in Keys, GetDelCmd(i, k)
        PROVE  Reviving
    <2>1. i \in Dbs => Spares(dbs[i], StrGetDel(dbs[i], k).ldb, {k})
      BY <1>0, SparesGetDel
    <2>2. "GETDEL" \in Revivers /\ "GETDEL" \notin {"RENAME", "RENAMENX"}
      BY DEF Revivers
    <2>3. QED
      BY <1>3, <2>1, <2>2, RunRevives DEF GetDelCmd
  <1>4. ASSUME \/ \E k \in Keys, p \in BOOLEAN, ms \in GetExTimes : GetExCmd(i, k, p, ms)
               \/ \E k \in Keys, v \in TextValues : AppendCmd(i, k, v)
               \/ \E k \in Keys, off \in 0..MaxLen, v \in TextValues : SetRangeCmd(i, k, off, v)
               \/ \E k \in Keys, n \in Deltas : IncrByCmd(i, k, n)
               \/ \E k \in Keys, n \in Deltas : DecrByCmd(i, k, n)
               \/ \E k \in Keys, n \in Deltas \cup {Inf} : IncrByFloatCmd(i, k, n)
        PROVE  ~Named
    BY <1>4 DEF GetExCmd, AppendCmd, SetRangeCmd, IncrByCmd, DecrByCmd, IncrByFloatCmd, Run, Named,
         Overwriting
  <1>5. QED
    BY <1>1, <1>2, <1>3, <1>4 DEF StringCommand

LEMMA NamedTouches ==
  ASSUME IInv, Next, Named
  PROVE  Reviving \/ Overwritten
  <1>1. ASSUME NEW i, ListCommand(i)
        PROVE  ~Named
    BY <1>1 DEF ListCommand, RPushCmd, RPushXCmd, LPopCmd, Run, Named, Overwriting
  <1>2. CASE EvictCmd \/ Tick
    BY <1>2 DEF EvictCmd, Tick, Named, Overwriting
  <1>3. QED
    BY <1>1, <1>2, GenericTouches, StringTouches DEF Next, Command

\* A sorted set that comes back is one a Reviver is about.
LEMMA OnlyReviversRevive ==
  ASSUME IInv, Next, NEW j \in Dbs, NEW k \in Keys, ComesBack(j, k),
         dbs'[j].data[k] = dbs[j].data[k], IsZSet(dbs[j].data[k])
  PROVE  ZMeetsDeadKey(last')
  <1>1. Named
    BY UnnamedRevives DEF Harmless
  <1>2. now' = now => ~Same(dbs[j], dbs'[j], k)
    BY DEF ComesBack, Same, Dead, Live, Get, IsExpired
  <1>3. CASE Overwritten
    <2>1. IsStr(dbs'[j].data[k]) \/ dbs'[j].data[k] = Absent
      BY <1>2, <1>3 DEF Overwritten, Overwrites
    <2>2. dbs'[j].data[k] # Absent
      BY DEF ComesBack, Dead, Stored
    <2>3. ~IsStr(dbs'[j].data[k])
      BY DEF IsStr, IsZSet
    <2>4. QED
      BY <2>1, <2>2, <2>3
  <1>4. CASE Reviving
    <2>1. last'.op \in Revivers /\ last'.db = j /\ k \in last'.keys
      BY <1>2, <1>4 DEF Reviving
    <2>2. Dead(dbs[j], k, now)
      BY DEF ComesBack
    <2>3. QED
      BY <2>1, <2>2 DEF ZMeetsDeadKey
  <1>5. QED
    BY <1>1, <1>3, <1>4, NamedTouches

\* What another command leaves of the sorted set clients see under k.
LEMMA ElsewhereAt ==
  ASSUME IInv, Next, ~ZMeetsDeadKey(last'), NEW j \in Dbs, NEW k \in Keys
  PROVE  \/ ZView'[j][k] \in {ZView[j][k], Ranks!Nothing, Ranks!SomethingElse}
         \/ Ranks!Renamed(j, k)
  <1>1. ZView'[j][k] = Shows(dbs'[j], k, now')
    <2>1. ZView' = [h \in Dbs |-> [q \in Keys |-> Shows(dbs'[h], q, now')]]
      BY DEF ZView, Shows
    <2>2. QED
      BY <2>1
  <1>2. \A q \in Keys : ZView[j][q] = Shows(dbs[j], q, now)
    BY ZViewShows
  <1>3. ASSUME NEW l, NEW q, NEW t
        PROVE  \/ Shows(l, q, t) \in {Ranks!Nothing, Ranks!SomethingElse}
               \/ /\ ZSetStored(l, q) /\ Live(l, q, t)
                  /\ Shows(l, q, t) = [other |-> FALSE, pairs |-> PairsOf(l.data[q])]
    BY DEF Shows, Ranks!Nothing, Ranks!SomethingElse, ZSetStored, Stored, Live, Get
  <1>4. ASSUME NEW l, NEW q, NEW t, ZSetStored(l, q), ~Dead(l, q, t)
        PROVE  Shows(l, q, t) = [other |-> FALSE, pairs |-> PairsOf(l.data[q])]
    <2>1. Get(l, q, t) = l.data[q] /\ l.data[q] # Absent /\ IsZSet(l.data[q])
      BY <1>4 DEF Dead, Get, ZSetStored, Stored
    <2>2. QED
      BY <2>1 DEF Shows
  <1>5. CASE Shows(dbs'[j], k, now') \in {Ranks!Nothing, Ranks!SomethingElse}
    BY <1>1, <1>5
  <1>6. CASE /\ ZSetStored(dbs'[j], k) /\ Live(dbs'[j], k, now')
             /\ Shows(dbs'[j], k, now') = [other |-> FALSE, pairs |-> PairsOf(dbs'[j].data[k])]
    <2>1. ASSUME ZSetStored(dbs[j], k), dbs'[j].data[k] = dbs[j].data[k]
          PROVE  ZView'[j][k] = ZView[j][k]
      <3>1. ~Dead(dbs[j], k, now)
        <4>1. SUFFICES ASSUME Dead(dbs[j], k, now) PROVE FALSE
          OBVIOUS
        <4>2. ComesBack(j, k)
          BY <1>6, <4>1 DEF ComesBack
        <4>3. IsZSet(dbs[j].data[k])
          BY <2>1 DEF ZSetStored
        <4>4. ZMeetsDeadKey(last')
          BY <2>1, <4>2, <4>3, OnlyReviversRevive
        <4>5. QED
          BY <4>4
      <3>2. Shows(dbs[j], k, now) = [other |-> FALSE, pairs |-> PairsOf(dbs[j].data[k])]
        BY <1>4, <2>1, <3>1
      <3>3. Shows(dbs'[j], k, now') = [other |-> FALSE, pairs |-> PairsOf(dbs[j].data[k])]
        BY <1>6, <2>1
      <3>4. QED
        BY <1>1, <1>2, <3>2, <3>3
    <2>2. CASE /\ last'.op \in {"RENAME", "RENAMENX"} /\ last'.arg[1] \in Keys /\ last'.arg[2] = k
               /\ ZSetStored(dbs[j], last'.arg[1]) /\ dbs'[j].data[k] = dbs[j].data[last'.arg[1]]
      <3> DEFINE src == last'.arg[1]
      <3>1. Reviving
        <4>1. Named
          BY <2>2 DEF Named, Overwriting
        <4>2. QED
          BY <2>2, <4>1, NamedTouches DEF Overwritten
      <3>2. CASE last'.db = j
        <4>1. src \in last'.keys /\ last'.op \in Revivers
          BY <2>2, <3>1 DEF Reviving
        <4>2. ~Dead(dbs[j], src, now)
          <5> HIDE DEF src
          <5>1. SUFFICES ASSUME Dead(dbs[j], src, now) PROVE FALSE
            OBVIOUS
          <5>2. last'.op \in Ranks!RankingOps \cup Revivers /\ last'.db \in Dbs
            BY <3>2, <4>1
          <5>3. \E q \in last'.keys : Dead(dbs[last'.db], q, now)
            BY <3>2, <4>1, <5>1
          <5>4. ZMeetsDeadKey(last')
            BY <5>2, <5>3 DEF ZMeetsDeadKey
          <5>5. QED
            BY <5>4
        <4>3. ZView[j][src] = ZView'[j][k]
          <5>1. Shows(dbs[j], src, now) = [other |-> FALSE, pairs |-> PairsOf(dbs[j].data[src])]
            BY <1>4, <2>2, <4>2
          <5>2. Shows(dbs'[j], k, now') = [other |-> FALSE, pairs |-> PairsOf(dbs[j].data[src])]
            BY <1>6, <2>2
          <5>3. src \in Keys
            BY <2>2
          <5>4. QED
            BY <1>1, <1>2, <5>1, <5>2, <5>3
        <4>4. QED
          BY <2>2, <3>2, <4>3 DEF Ranks!Renamed
      <3>3. CASE last'.db # j
        <4>1. dbs'[j].data[k] = dbs[j].data[k]
          BY <3>1, <3>3 DEF Reviving, Same
        <4>2. ZSetStored(dbs[j], k)
          BY <1>6, <4>1 DEF ZSetStored, Stored
        <4>3. QED
          BY <2>1, <4>1, <4>2
      <3>4. QED
        BY <3>2, <3>3
    <2>3. QED
      BY <1>6, <2>1, <2>2, ZSetsUntouched
  <1>7. QED
    BY <1>3, <1>5, <1>6

LEMMA KeyspaceElsewhere ==
  ASSUME IInv, Next
  PROVE  ZMeetsDeadKey(last') \/ Ranks!Next
  <1>1. last'.op \notin Ranks!RankingOps
    BY OtherNames
  <1>2. CASE ~ZMeetsDeadKey(last')
    <2>1. \A j \in Dbs, k \in Keys :
            \/ ZView'[j][k] \in {ZView[j][k], Ranks!Nothing, Ranks!SomethingElse}
            \/ Ranks!Renamed(j, k)
      BY <1>2, ElsewhereAt
    <2>2. Ranks!Elsewhere
      BY <1>1, <2>1 DEF Ranks!Elsewhere
    <2>3. QED
      BY <2>2 DEF Ranks!Next
  <1>3. QED
    BY <1>2

\* Whatever the history, the heights that were drawn and the databases in use, every step
\* does to the pairs clients see what Ranking says, and is answered what Ranking says,
\* unless its key is past its deadline or it is one of the three departures of the code.
THEOREM ZSetsKeepRanking == ZSetsSpec => KeepsRanking
  <1>1. ZInv /\ [ZSetsNext]_vars
          => [ZMeetsDeadKey(last') \/ ZDeparture(last') \/ Ranks!Next]_vars
    <2> SUFFICES ASSUME ZInv, [ZSetsNext]_vars
                 PROVE  [ZMeetsDeadKey(last') \/ ZDeparture(last') \/ Ranks!Next]_vars
      OBVIOUS
    <2>1. ASSUME NEW i, ZSetCommand(i)
          PROVE  ZMeetsDeadKey(last') \/ ZDeparture(last') \/ Ranks!Next
      BY <2>1, ZSetCommandPromised DEF ZInv
    <2>2. CASE Next
      BY <2>2, KeyspaceElsewhere DEF ZInv
    <2>3. QED
      BY <2>1, <2>2 DEF ZSetsNext
  <1>2. QED
    BY ZInvInit, ZInvStep, <1>1, PTL DEF ZSetsSpec, KeepsRanking
=============================================================================
