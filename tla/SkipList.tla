------------------------------ MODULE SkipList ------------------------------
(***************************************************************************)
(* The skip list that orders a sorted set (src/db/skiplist.rs).            *)
(*                                                                         *)
(* The code keeps its nodes in an arena and links them by slot number.     *)
(* Here a node is the pair <<score, member>> it holds, which is what the   *)
(* list is sorted by and what it refuses to hold twice; the slots of       *)
(* removed nodes, which nothing leads to, are left out.  Levels count from *)
(* 1; the head reaches all of them.  The height of a new node, drawn at    *)
(* random in the code, is an argument.                                     *)
(***************************************************************************)
EXTENDS Objects

CONSTANT Before(_, _)    \* the byte order of the members

\* Any two byte strings are comparable.
ASSUME BeforeAssumption ==
  \A x, y \in Chunks :
    /\ ~Before(x, x)
    /\ x # y => Before(x, y) \/ Before(y, x)
    /\ \A z \in Chunks : Before(x, y) /\ Before(y, z) => Before(x, z)

\* SkipList::new
NewSkipList ==
  [forward |-> [x \in Nodes \cup {HeadNode} |->
                  [i \in 1..MaxLevel |-> IF x = HeadNode THEN NilNode ELSE NoLink]],
   level |-> 1, length |-> 0]

\* key_cmp(..) == Ordering::Less
NodeLess(x, y) == x[1] < y[1] \/ (x[1] = y[1] /\ Before(x[2], y[2]))

\* The inner loop of a search for x: where it leaves level i, from each node.
Walk(sl, x, i) ==
  LET from[y \in DOMAIN sl.forward] ==
        LET next == sl.forward[y][i]
        IN  IF next \notin {NilNode, NoLink} /\ NodeLess(next, x) THEN from[next] ELSE y
  IN  from

\* The array `update`: the last node before x on every level, each search
\* starting where the one on the level above ended.
Update(sl, x) ==
  LET update[i \in 1..sl.level] ==
        Walk(sl, x, i)[IF i = sl.level THEN HeadNode ELSE update[i + 1]]
  IN  update

\* The node on the lowest level a search for x stops in front of.
Found(sl, x) == sl.forward[Update(sl, x)[1]][1]

\* Faulty variant: the levels a new node adds are not linked from the head.
InsertLow(sl, x, height) ==
  LET update == Update(sl, x)
      levels == 1..(IF height < sl.level THEN height ELSE sl.level)
      tower == [i \in 1..MaxLevel |->
                  IF i \in levels THEN sl.forward[update[i]][i]
                  ELSE IF i <= height THEN NilNode ELSE NoLink]
      relinked(y) == [i \in 1..MaxLevel |->
                        IF i \in levels /\ update[i] = y THEN x ELSE sl.forward[y][i]]
  IN  IF Found(sl, x) = x THEN sl
      ELSE [forward |-> [y \in DOMAIN sl.forward |-> IF y = x THEN tower ELSE relinked(y)],
            level   |-> IF height > sl.level THEN height ELSE sl.level,
            length  |-> sl.length + 1]

\* SkipList::insert
Insert(sl, x, height) ==
  LET found == Update(sl, x)
      update == [i \in 1..height |-> IF i <= sl.level THEN found[i] ELSE HeadNode]
      tower == [i \in 1..MaxLevel |->
                  IF i <= height THEN sl.forward[update[i]][i] ELSE NoLink]
      relinked(y) == [i \in 1..MaxLevel |->
                        IF sl.forward[y][i] # NoLink /\ i <= height /\ update[i] = y
                        THEN x ELSE sl.forward[y][i]]
  IN  IF Found(sl, x) = x THEN sl
      ELSE [forward |-> [y \in DOMAIN sl.forward |-> IF y = x THEN tower ELSE relinked(y)],
            level   |-> IF height > sl.level THEN height ELSE sl.level,
            length  |-> sl.length + 1]

\* The level after a removal: the empty levels at the top are given up.
LevelOf(forward, level) ==
  CHOOSE i \in 1..level :
    /\ i = 1 \/ forward[HeadNode][i] # NilNode
    /\ \A j \in (i + 1)..level : forward[HeadNode][j] = NilNode

\* SkipList::remove; the levels from the first one x is not linked on are left
\* alone.
Remove(sl, x) ==
  LET update == Update(sl, x)
      linked(i) == \A j \in 1..i : sl.forward[update[j]][j] = x
      relinked(y) == [i \in 1..MaxLevel |->
                        IF /\ sl.forward[y][i] # NoLink /\ i <= sl.level
                           /\ update[i] = y /\ linked(i)
                        THEN sl.forward[x][i] ELSE sl.forward[y][i]]
      unlinked == [i \in 1..MaxLevel |-> NoLink]
      forward == [y \in DOMAIN sl.forward |-> IF y = x THEN unlinked ELSE relinked(y)]
  IN  IF Found(sl, x) # x THEN sl
      ELSE [forward |-> forward, level |-> LevelOf(forward, sl.level),
            length |-> sl.length - 1]

\* SkipList::iter: the nodes in the order of the lowest level.
Iter(sl) ==
  LET after[y \in DOMAIN sl.forward] ==
        LET next == sl.forward[y][1]
        IN  IF next \notin {NilNode, NoLink} THEN <<next>> \o after[next] ELSE <<>>
  IN  after[HeadNode]

\* SkipList::iter_rev
IterRev(sl) ==
  LET order == Iter(sl)
  IN  [j \in 1..Len(order) |-> order[Len(order) + 1 - j]]

\* SkipList::rank_of: walks the lowest level up to the first node that is not less;
\* -1 if that is another one.
RankOf(sl, x) ==
  LET order == Iter(sl)
      rank == CHOOSE n \in 0..Len(order) :
                /\ \A j \in 1..n : NodeLess(order[j], x)
                /\ n < Len(order) => ~NodeLess(order[n + 1], x)
  IN  IF rank < Len(order) /\ order[rank + 1] = x THEN rank ELSE -1
=============================================================================
