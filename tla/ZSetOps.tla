------------------------------ MODULE ZSetOps ------------------------------
(***************************************************************************)
(* The sorted set methods of Database (src/db/mod.rs).  A sorted set is    *)
(* two indices of the same members, a map from members to scores and a     *)
(* skip list (struct ZSetInner).                                           *)
(*                                                                         *)
(* Scores are small integers whose two ends stand for the infinities; NaN  *)
(* can be asked for and computed, but is not a score.                      *)
(***************************************************************************)
EXTENDS ListOps, SkipList

NewZSet == [type |-> "zset", scores |-> [m \in Chunks |-> Absent], sl |-> NewSkipList]

Members(z) == {m \in Chunks : z.scores[m] # Absent}

-----------------------------------------------------------------------------
(* ZSetInner.                                                              *)

\* ZSetInner::add
AddMember(z, m, s, height) ==
  LET cleared == IF m \in Members(z) THEN Remove(z.sl, <<z.scores[m], m>>) ELSE z.sl
  IN  [z EXCEPT !.scores = [@ EXCEPT ![m] = s],
                !.sl = Insert(cleared, <<s, m>>, height)]

\* ZSetInner::remove
RemoveMember(z, m) ==
  IF m \notin Members(z) THEN z
  ELSE [z EXCEPT !.scores = [@ EXCEPT ![m] = Absent],
                 !.sl = Remove(z.sl, <<z.scores[m], m>>)]

RemoveMembers(z, ms) ==
  LET after[j \in 0..Len(ms)] == IF j = 0 THEN z ELSE RemoveMember(after[j - 1], ms[j])
  IN  after[Len(ms)]

\* ZSetInner::rank and revrank; -1 for None.
Rank(z, m) == IF m \in Members(z) THEN RankOf(z.sl, <<z.scores[m], m>>) ELSE -1
RevRank(z, m) == IF Rank(z, m) = -1 THEN -1 ELSE Cardinality(Members(z)) - 1 - Rank(z, m)

\* skip(start).take(n)
SkipTake(nodes, start, n) ==
  SubSeq(nodes, start + 1, IF start + n < Len(nodes) THEN start + n ELSE Len(nodes))

Least(m, n) == IF m < n THEN m ELSE n

\* The nodes range_by_index and remove_by_rank pick.
ByIndex(z, start, stop) ==
  LET len == Cardinality(Members(z))
      from == Least(NormalizeIndex(start, len), len)
      to == Least(NormalizeIndex(stop, len), IF len = 0 THEN 0 ELSE len - 1)
  IN  IF from > to THEN <<>> ELSE SkipTake(Iter(z.sl), from, to - from + 1)

\* ScoreBound::contains and contains_upper.
AtLeast(b, s) == IF b.excl THEN s > b.value ELSE s >= b.value
AtMost(b, s)  == IF b.excl THEN s < b.value ELSE s <= b.value

Between(nodes, lo, hi) ==
  LET kept[j \in 0..Len(nodes)] ==
        IF j = 0 THEN <<>>
        ELSE IF AtLeast(lo, nodes[j][1]) /\ AtMost(hi, nodes[j][1])
        THEN Append(kept[j - 1], nodes[j])
        ELSE kept[j - 1]
  IN  kept[Len(nodes)]

\* range_by_score; n is Never without a LIMIT.
ByScore(nodes, lo, hi, off, n) ==
  LET picked == Between(nodes, lo, hi)
  IN  SkipTake(picked, off, IF n = Never THEN Len(picked) ELSE n)

-----------------------------------------------------------------------------
(* Readers.  An answer is the nodes it shows.                              *)

\* What a reader that has found z answers: none for a missing key.
ReadZSet(z, none, answer) ==
  IF z = Absent THEN none
  ELSE IF ~IsZSet(z) THEN Err("WRONGTYPE")
  ELSE answer

OrNil(n) == IF n = -1 THEN Nil ELSE Num(n)

ZScore(l, k, m, t) ==
  LET z == Get(l, k, t)
  IN  ReadZSet(z, Nil, IF m \in Members(z) THEN Num(z.scores[m]) ELSE Nil)

ZMScore(l, k, ms, t) == [j \in 1..Len(ms) |-> ZScore(l, k, ms[j], t)]

ZRank(l, k, m, t) ==
  LET z == Get(l, k, t) IN ReadZSet(z, Nil, OrNil(Rank(z, m)))

ZRevRank(l, k, m, t) ==
  LET z == Get(l, k, t) IN ReadZSet(z, Nil, OrNil(RevRank(z, m)))

ZCard(l, k, t) ==
  LET z == Get(l, k, t) IN ReadZSet(z, Num(0), Num(Cardinality(Members(z))))

ZCount(l, k, lo, hi, t) ==
  LET z == Get(l, k, t) IN ReadZSet(z, Num(0), Num(Len(Between(Iter(z.sl), lo, hi))))

\* ZRANGE [REV], and ZREVRANGE with rev: the range is cut out first.
ZRange(l, k, start, stop, rev, t) ==
  LET z == Get(l, k, t)
      range == ByIndex(z, start, stop)
  IN  ReadZSet(z, Bulk(<<>>), Bulk(IF rev THEN Reversed(range) ELSE range))

ZRangeByScore(l, k, lo, hi, off, n, t) ==
  LET z == Get(l, k, t)
  IN  ReadZSet(z, Bulk(<<>>), Bulk(ByScore(Iter(z.sl), lo, hi, off, n)))

ZRevRangeByScore(l, k, hi, lo, off, n, t) ==
  LET z == Get(l, k, t)
  IN  ReadZSet(z, Bulk(<<>>), Bulk(ByScore(IterRev(z.sl), lo, hi, off, n)))

-----------------------------------------------------------------------------
(* Writers.                                                                *)

\* The flags of ZADD let the pair <<s, m>> through.
Passes(z, s, m, o) ==
  /\ o.nx => m \notin Members(z)
  /\ o.xx => m \in Members(z)
  /\ m \in Members(z) => (o.gt => s > z.scores[m]) /\ (o.lt => s < z.scores[m])

\* zadd: the pairs one after the other, up to the first NaN.  The key is created
\* before the first is looked at.  heights[j] is drawn for the j-th pair.
ZAdd(l, k, pairs, o, heights) ==
  LET e == EntryOr(l, k, NewZSet)
      first == CHOOSE j \in 1..(Len(pairs) + 1) :
                 /\ j <= Len(pairs) => pairs[j][1] = NaN
                 /\ \A i \in 1..(j - 1) : pairs[i][1] # NaN
      after[j \in 0..(first - 1)] ==
        IF j = 0 THEN [z |-> e.data[k], count |-> 0]
        ELSE LET at == after[j - 1]
                 s == pairs[j][1]
                 m == pairs[j][2]
             IN  IF ~Passes(at.z, s, m, o) THEN at
                 ELSE [z |-> AddMember(at.z, m, s, heights[j]),
                       count |-> IF o.ch \/ m \notin Members(at.z) THEN at.count + 1 ELSE at.count]
      end == after[first - 1]
  IN  IF ~IsZSet(e.data[k]) THEN Out(e, Err("WRONGTYPE"))
      ELSE Out(Write(e, k, end.z),
               IF first <= Len(pairs) THEN Err("SCORENAN") ELSE Num(end.count))

\* Faulty variant: only the increment is checked, not the sum.
PlusUnchecked(s, d) ==
  IF d = NaN THEN NaN
  ELSE IF s \in {-ScoreInf, ScoreInf} THEN s
  ELSE IF d \in {-ScoreInf, ScoreInf} THEN d
  ELSE s + d

\* f64 addition, on scores whose finite sums stay finite.
Plus(s, d) ==
  IF d = NaN \/ (s \in {-ScoreInf, ScoreInf} /\ d = -s) THEN NaN
  ELSE IF s \in {-ScoreInf, ScoreInf} THEN s
  ELSE IF d \in {-ScoreInf, ScoreInf} THEN d
  ELSE s + d

\* Faulty variant: stores the sorted set anew.
ZIncrByFresh(l, k, d, m, height) ==
  LET e == EntryOr(l, k, NewZSet)
      z == e.data[k]
      sum == Plus(IF m \in Members(z) THEN z.scores[m] ELSE 0, d)
  IN  IF ~IsZSet(z) THEN Out(e, Err("WRONGTYPE"))
      ELSE IF sum = NaN THEN Out(e, Err("SCORENAN"))
      ELSE Out(InsertKey(e, k, AddMember(z, m, sum, height)), Num(sum))

ZIncrBy(l, k, d, m, height) ==
  LET e == EntryOr(l, k, NewZSet)
      z == e.data[k]
      sum == Plus(IF m \in Members(z) THEN z.scores[m] ELSE 0, d)
  IN  IF ~IsZSet(z) THEN Out(e, Err("WRONGTYPE"))
      ELSE IF sum = NaN THEN Out(e, Err("SCORENAN"))
      ELSE Out(Write(e, k, AddMember(z, m, sum, height)), Num(sum))

\* Faulty variant: the emptied key stays.
PutBackAny(l, k, z) == Write(l, k, z)

\* A sorted set is removed with its last member.
PutBack(l, k, z) == IF Members(z) = {} THEN RemoveKey(l, k) ELSE Write(l, k, z)

MembersOf(nodes) == [j \in 1..Len(nodes) |-> nodes[j][2]]

\* The commands that take members out look the key up without the clock; ms are
\* the members to go.
TakeOut(l, k, none, ms, answer) ==
  IF ~Stored(l, k) THEN Out(l, none)
  ELSE IF ~IsZSet(l.data[k]) THEN Out(l, Err("WRONGTYPE"))
  ELSE Out(PutBack(l, k, RemoveMembers(l.data[k], ms)), answer)

ZRem(l, k, ms) ==
  TakeOut(l, k, Num(0), ms,
          Num(Cardinality({ms[j] : j \in 1..Len(ms)} \cap Members(l.data[k]))))

ZRemRangeByScore(l, k, lo, hi) ==
  LET range == Between(Iter(l.data[k].sl), lo, hi)
  IN  TakeOut(l, k, Num(0), MembersOf(range), Num(Len(range)))

ZRemRangeByRank(l, k, start, stop) ==
  LET range == ByIndex(l.data[k], start, stop)
  IN  TakeOut(l, k, Num(0), MembersOf(range), Num(Len(range)))

ZPopMin(l, k, n) ==
  LET lowest == SkipTake(Iter(l.data[k].sl), 0, n)
  IN  TakeOut(l, k, Bulk(<<>>), MembersOf(lowest), Bulk(lowest))

ZPopMax(l, k, n) ==
  LET highest == SkipTake(IterRev(l.data[k].sl), 0, n)
  IN  TakeOut(l, k, Bulk(<<>>), MembersOf(highest), Bulk(highest))
=============================================================================
