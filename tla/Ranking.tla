------------------------------ MODULE Ranking ------------------------------
(***************************************************************************)
(* What the sorted sets promise their clients, without the machinery that  *)
(* keeps the promise: a sorted set is a set of <<score, member>> pairs, no *)
(* member twice, and the rank of a pair is the number of pairs in front of *)
(* it.  There is one index, no level and no height, and a sorted set with  *)
(* nothing in it is nothing.                                               *)
(*                                                                         *)
(* As in TtlStore, `last` is the request the implementation has just       *)
(* served, with its reply.                                                 *)
(***************************************************************************)
EXTENDS Objects

CONSTANTS Keys, Dbs, Before(_, _)

VARIABLES board,   \* board[i][k]: is it of another type, and its pairs
          last

ranked == <<board, last>>

Nothing     == [other |-> FALSE, pairs |-> {}]
SomethingElse == [other |-> TRUE, pairs |-> {}]

-----------------------------------------------------------------------------
(* Pairs in order.                                                         *)

InFront(p, q) == p[1] < q[1] \/ (p[1] = q[1] /\ Before(p[2], q[2]))

RankIn(P, p) == Cardinality({q \in P : InFront(q, p)})

Ascending(P)  == [j \in 1..Cardinality(P) |-> CHOOSE p \in P : RankIn(P, p) = j - 1]
Descending(P) == [j \in 1..Cardinality(P) |-> CHOOSE p \in P : RankIn(P, p) = Cardinality(P) - j]

Has(P, m)     == \E p \in P : p[2] = m
ScoreIn(P, m) == (CHOOSE p \in P : p[2] = m)[1]
Drop(P, S)    == {p \in P : p[2] \notin S}
Put(P, s, m)  == Drop(P, {m}) \cup {<<s, m>>}

Inside(p, lo, hi) ==
  /\ IF lo.excl THEN p[1] > lo.value ELSE p[1] >= lo.value
  /\ IF hi.excl THEN p[1] < hi.value ELSE p[1] <= hi.value

\* A negative rank counts from the highest pair.
FromLowest(n, P) == IF n < 0 THEN Cardinality(P) + n ELSE n

RankedIn(P, start, stop) ==
  {p \in P : FromLowest(start, P) <= RankIn(P, p) /\ RankIn(P, p) <= FromLowest(stop, P)}

-----------------------------------------------------------------------------
(* Requests.                                                               *)

Here(k) == board[last'.db][k]

\* The request op about k leaves the pairs P there and is answered r.
Serve(op, k, P, r) ==
  /\ last'.op = op
  /\ last'.keys = {k}
  /\ last'.reply = r
  /\ board' = [board EXCEPT ![last'.db] = [@ EXCEPT ![k].pairs = P]]

Refuse(op, k, r) == Serve(op, k, Here(k).pairs, r)

\* NX only adds, XX only updates, GT only raises, LT only lowers.
Lets(P, s, m, o) ==
  IF Has(P, m) THEN /\ ~o.nx
                    /\ o.gt => s > ScoreIn(P, m)
                    /\ o.lt => s < ScoreIn(P, m)
  ELSE ~o.xx

\* Pair after pair; CH also counts the updates.
AddPromise(k) ==
  LET o == last'.arg.opt
      pairs == last'.arg.pairs
      counts(P, s, m) ==
        Lets(P, s, m, o) /\ (~Has(P, m) \/ (o.ch /\ ScoreIn(P, m) # s))
      after[j \in 0..Len(pairs)] ==
        IF j = 0 THEN Here(k).pairs
        ELSE LET s == pairs[j][1]
                 m == pairs[j][2]
             IN  IF Lets(after[j - 1], s, m, o) THEN Put(after[j - 1], s, m) ELSE after[j - 1]
      counted == {j \in 1..Len(pairs) : counts(after[j - 1], pairs[j][1], pairs[j][2])}
  IN  IF (o.nx /\ o.xx) \/ (o.gt /\ o.lt) THEN Refuse("ZADD", k, Err("SYNTAX"))
      ELSE IF Here(k).other THEN Refuse("ZADD", k, Err("WRONGTYPE"))
      ELSE IF \E j \in 1..Len(pairs) : pairs[j][1] = NaN THEN Refuse("ZADD", k, Err("SCORENAN"))
      ELSE Serve("ZADD", k, after[Len(pairs)], Num(Cardinality(counted)))

IncrPromise(k) ==
  LET d == last'.arg[1]
      m == last'.arg[2]
      P == Here(k).pairs
      s == IF Has(P, m) THEN ScoreIn(P, m) ELSE 0
      infinite == {s, d} \cap {-ScoreInf, ScoreInf}
      sum == IF infinite = {} THEN s + d ELSE CHOOSE x \in infinite : TRUE
  IN  IF d = NaN \/ Cardinality(infinite) = 2 THEN Refuse("ZINCRBY", k, Err("SCORENAN"))
      ELSE Serve("ZINCRBY", k, Put(P, sum, m), Num(sum))

\* The pairs R go; the answer is their number, or shows them.
Counted(op, k, R)  == Serve(op, k, Here(k).pairs \ R, Num(Cardinality(R)))
Shown(op, k, r) == Serve(op, k, Here(k).pairs \ {r[j] : j \in DOMAIN r}, Bulk(r))

First(s, n) == SubSeq(s, 1, IF n < Len(s) THEN n ELSE Len(s))

TakePromise(k) ==
  LET P == Here(k).pairs
      arg == last'.arg
  IN  \/ last'.op = "ZREM" /\ Counted("ZREM", k, {p \in P : \E j \in DOMAIN arg : arg[j] = p[2]})
      \/ last'.op = "ZREMRANGEBYSCORE"
         /\ Counted("ZREMRANGEBYSCORE", k, {p \in P : Inside(p, arg[1], arg[2])})
      \/ last'.op = "ZREMRANGEBYRANK"
         /\ Counted("ZREMRANGEBYRANK", k, RankedIn(P, arg[1], arg[2]))
      \/ last'.op = "ZPOPMIN" /\ Shown("ZPOPMIN", k, First(Ascending(P), arg))
      \/ last'.op = "ZPOPMAX" /\ Shown("ZPOPMAX", k, First(Descending(P), arg))

RankingOps == {"ZADD", "ZINCRBY", "ZREM", "ZREMRANGEBYSCORE", "ZREMRANGEBYRANK",
               "ZPOPMIN", "ZPOPMAX"}

\* RENAME gives a sorted set another key.
Renamed(i, k) ==
  /\ last'.op \in {"RENAME", "RENAMENX"} /\ last'.db = i /\ last'.arg[2] = k
  /\ board'[i][k] = board[i][last'.arg[1]]

\* The other commands, and the clock, remove a sorted set or put something else in
\* its place; they never touch its pairs.
Elsewhere ==
  /\ last'.op \notin RankingOps
  /\ \A i \in Dbs, k \in Keys :
       board'[i][k] \in {board[i][k], Nothing, SomethingElse} \/ Renamed(i, k)

NoSuchDb == last'.db \notin Dbs /\ last'.reply = Err("DBINDEX") /\ UNCHANGED board

Init == board = [i \in Dbs |-> [k \in Keys |-> Nothing]]

Next ==
  \/ \E k \in Keys :
       /\ last'.db \in Dbs
       /\ \/ last'.op = "ZADD" /\ AddPromise(k)
          \/ Here(k).other /\ last'.op \in RankingOps \ {"ZADD"}
             /\ Refuse(last'.op, k, Err("WRONGTYPE"))
          \/ ~Here(k).other /\ last'.op = "ZINCRBY" /\ IncrPromise(k)
          \/ ~Here(k).other /\ TakePromise(k)
  \/ Elsewhere \/ NoSuchDb

Spec == Init /\ [][Next]_ranked
=============================================================================
