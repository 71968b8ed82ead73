------------------------------- MODULE ZSets -------------------------------
(***************************************************************************)
(* The Keyspace with the sorted set commands (src/cmd/zset.rs).  The       *)
(* height of every node the skip list gets is drawn at random.             *)
(***************************************************************************)
EXTENDS Keyspace, ZSetOps

CONSTANTS Names,      \* the members clients use
          Amounts,    \* the scores and increments they send
          Pairs,      \* the <<score, member>> sequences of their ZADDs
          Flags,      \* the option records of their ZADDs
          Limits,     \* the score bounds they send
          Places,     \* the ranks they send
          MaxCount    \* the most members they pop at once

ASSUME NamesAssumption ==
  /\ Names \subseteq Chunks
  /\ Amounts \subseteq Scores \cup {NaN}
  /\ Pairs \subseteq Seq((Scores \cup {NaN}) \X Names)
ASSUME FlagsAssumption ==
  /\ Flags \subseteq [nx: BOOLEAN, xx: BOOLEAN, gt: BOOLEAN, lt: BOOLEAN, ch: BOOLEAN]
  /\ Limits \subseteq [value: Scores, excl: BOOLEAN]
  /\ Places \subseteq Int /\ MaxCount \in Nat

Heights == 1..MaxLevel

\* parse_zadd refuses flags that contradict each other.
ParsesFlags(o) == ~(o.nx /\ o.xx) /\ ~(o.gt /\ o.lt)

ZAddCmd(i, k, pairs, o) ==
  IF ParsesFlags(o)
  THEN \E heights \in [1..Len(pairs) -> Heights] :
         Run("ZADD", i, {k}, [pairs |-> pairs, opt |-> o], ZAdd(dbs[i], k, pairs, o, heights))
  ELSE Run("ZADD", i, {k}, [pairs |-> pairs, opt |-> o], Out(dbs[i], Err("SYNTAX")))

\* Bound: the finite scores of database i stay finite.
StaysFinite(i, k, d, m) ==
  i \in Dbs /\ Stored(dbs[i], k) /\ IsZSet(dbs[i].data[k]) /\ m \in Members(dbs[i].data[k])
    => LET s == dbs[i].data[k].scores[m]
       IN  {s, d} \cap {-ScoreInf, ScoreInf, NaN} = {} => s + d \in (1 - ScoreInf)..(ScoreInf - 1)

\* A NaN increment makes the sum NaN.
ZIncrByCmd(i, k, d, m) ==
  /\ StaysFinite(i, k, d, m)
  /\ \E height \in Heights :
       Run("ZINCRBY", i, {k}, <<d, m>>, ZIncrBy(dbs[i], k, d, m, height))

ZRemCmd(i, k, ms) == Run("ZREM", i, {k}, ms, ZRem(dbs[i], k, ms))

ZRemRangeByScoreCmd(i, k, lo, hi) ==
  Run("ZREMRANGEBYSCORE", i, {k}, <<lo, hi>>, ZRemRangeByScore(dbs[i], k, lo, hi))

ZRemRangeByRankCmd(i, k, start, stop) ==
  Run("ZREMRANGEBYRANK", i, {k}, <<start, stop>>, ZRemRangeByRank(dbs[i], k, start, stop))

ZPopMinCmd(i, k, n) == Run("ZPOPMIN", i, {k}, n, ZPopMin(dbs[i], k, n))

ZPopMaxCmd(i, k, n) == Run("ZPOPMAX", i, {k}, n, ZPopMax(dbs[i], k, n))

\* One or two members.
NameLists == {<<m>> : m \in Names} \cup (Names \X Names)

ZSetCommand(i) ==
  \/ \E k \in Keys, p \in Pairs, o \in Flags : ZAddCmd(i, k, p, o)
  \/ \E k \in Keys, d \in Amounts, m \in Names : ZIncrByCmd(i, k, d, m)
  \/ \E k \in Keys, ms \in NameLists : ZRemCmd(i, k, ms)
  \/ \E k \in Keys, lo, hi \in Limits : ZRemRangeByScoreCmd(i, k, lo, hi)
  \/ \E k \in Keys, m, n \in Places : ZRemRangeByRankCmd(i, k, m, n)
  \/ \E k \in Keys, n \in 0..MaxCount : ZPopMinCmd(i, k, n)
  \/ \E k \in Keys, n \in 0..MaxCount : ZPopMaxCmd(i, k, n)

ZSetsNext == Next \/ \E i \in Index : ZSetCommand(i)

ZSetsSpec == Init /\ [][ZSetsNext]_vars
=============================================================================
