----------------------------- MODULE ZSetsProps -----------------------------
(***************************************************************************)
(* What should be true of the sorted sets: the two indices of each, the    *)
(* answers of the readers, the promise of Ranking and the places where the *)
(* code departs from it.                                                   *)
(***************************************************************************)
EXTENDS ZSets

ZSetStored(l, k) == Stored(l, k) /\ IsZSet(l.data[k])

PairsOf(z) == {<<z.scores[m], m>> : m \in Members(z)}

\* What clients can see of the sorted sets.
ZView == [i \in Dbs |-> [k \in Keys |->
           LET o == Get(dbs[i], k, now)
           IN  IF o = Absent THEN [other |-> FALSE, pairs |-> {}]
               ELSE IF ~IsZSet(o) THEN [other |-> TRUE, pairs |-> {}]
               ELSE [other |-> FALSE, pairs |-> PairsOf(o)]]]

Ranks == INSTANCE Ranking WITH board <- ZView

-----------------------------------------------------------------------------
(* The two indices.                                                        *)

Reaching(sl, i) == {x \in Nodes : sl.forward[x][i] # NoLink}

\* The nodes that reach level i, in order: what level i should link.
Tower(sl, i) == Ranks!Ascending(Reaching(sl, i))

\* Level i links the nodes that reach it, in order and up to the end.
LevelIsLinked(sl, i) ==
  LET chain == <<HeadNode>> \o Tower(sl, i) \o <<NilNode>>
  IN  \A j \in 1..(Len(chain) - 1) : sl.forward[chain[j]][i] = chain[j + 1]

\* The map and the skip list of a sorted set name the same members with the same
\* scores, through every add, update, pop and range removal: add and remove look
\* the node up by the score the map holds.  The lowest level has the nodes in
\* strict order, each higher level is a part of the one below, the level is the height
\* of the highest node and the length the number of nodes; so a search that starts
\* on top ends in front of the right node.
IndicesAgree ==
  \A i \in Dbs, k \in Keys : ZSetStored(dbs[i], k) =>
    LET z == dbs[i].data[k]
        order == Iter(z.sl)
    IN  /\ order = Ranks!Ascending(PairsOf(z))
        /\ Reaching(z.sl, 1) = PairsOf(z)
        /\ \A h \in 2..MaxLevel : Reaching(z.sl, h) \subseteq Reaching(z.sl, h - 1)
        /\ \A h \in 1..MaxLevel : LevelIsLinked(z.sl, h)
        /\ z.sl.length = Cardinality(Members(z))
        /\ z.sl.level >= 1 /\ z.sl.level <= MaxLevel
        /\ \A h \in 1..MaxLevel : h > z.sl.level => Reaching(z.sl, h) = {}
        /\ z.sl.level > 1 => Reaching(z.sl, z.sl.level) # {}

-----------------------------------------------------------------------------
(* Readers.                                                                *)

ShownAs(r, s) == r = Bulk(s)

\* ZRANK, ZREVRANK, ZSCORE, ZCARD, ZCOUNT and the range commands answer from one
\* index or the other; all of them give the answer of the one set of pairs, for
\* every sign and size of the ranks, both kinds of score bounds, every LIMIT.
\* Left out, because the code answers otherwise: a stop in front of the lowest
\* member is moved to the lowest, and ZREVRANGE counts its ranks from the lowest
\* member and turns around what it found.
RanksAreExact ==
  \A i \in Dbs, k \in Keys :
    LET l == dbs[i]
        P == PairsOf(l.data[k])
        up == Ranks!Ascending(P)
        down == Ranks!Descending(P)
        within(lo, hi) == {p \in P : Ranks!Inside(p, lo, hi)}
    IN  ZSetStored(l, k) /\ Live(l, k, now) =>
          /\ ZCard(l, k, now) = Num(Cardinality(P))
          /\ \A p \in P :
               /\ ZScore(l, k, p[2], now) = Num(p[1])
               /\ up[1 + ZRank(l, k, p[2], now)[2]] = p
               /\ down[1 + ZRevRank(l, k, p[2], now)[2]] = p
          /\ \A m \in Names : (ZRank(l, k, m, now) = Nil) = (m \notin Members(l.data[k]))
          /\ \A m, n \in Places : n >= -Cardinality(P) =>
               ZRange(l, k, m, n, FALSE, now) = Bulk(Ranks!Ascending(Ranks!RankedIn(P, m, n)))
          /\ ZRange(l, k, 0, -1, TRUE, now) = Bulk(down)
          /\ \A lo, hi \in Limits :
               /\ ZCount(l, k, lo, hi, now) = Num(Cardinality(within(lo, hi)))
               /\ \A off \in 0..1, n \in {1, Never} :
                    LET cut(s) == SubSeq(s, off + 1, IF n = Never THEN Len(s) ELSE
                                           IF off + n < Len(s) THEN off + n ELSE Len(s))
                    IN  /\ ZRangeByScore(l, k, lo, hi, off, n, now)
                             = Bulk(cut(Ranks!Ascending(within(lo, hi))))
                        /\ ZRevRangeByScore(l, k, hi, lo, off, n, now)
                             = Bulk(cut(Ranks!Descending(within(lo, hi))))

-----------------------------------------------------------------------------
(* The promise.                                                            *)

\* Every writer of a sorted set looks its key up without the clock, and so do the
\* commands that give a dead key another life, or its object another key.
Revivers == {"RENAME", "RENAMENX", "PERSIST", "EXPIRE", "PEXPIRE", "EXPIREAT", "PEXPIREAT",
             "GETDEL"}
ZMeetsDeadKey(req) ==
  /\ req.op \in Ranks!RankingOps \cup Revivers /\ req.db \in Dbs
  /\ \E k \in req.keys : Dead(dbs[req.db], k, now)

\* CH counts the member whose score is the one it had; a NaN stops ZADD where it
\* stands; a stop rank in front of the lowest member is moved to the lowest.
ZDeparture(req) ==
  \/ req.op = "ZADD" /\ req.arg.opt.ch /\ req.reply[1] = "int"
     /\ \E k \in req.keys, j \in DOMAIN req.arg.pairs :
          \/ req.arg.pairs[j] \in Ranks!Here(k).pairs
          \/ \E h \in 1..(j - 1) : req.arg.pairs[h] = req.arg.pairs[j]
  \/ req.op = "ZADD" /\ req.reply = Err("SCORENAN") /\ req.arg.pairs[1][1] # NaN
  \/ req.op = "ZREMRANGEBYRANK"
     /\ \E k \in req.keys : req.arg[2] < -Cardinality(Ranks!Here(k).pairs)

\* Every command, on whatever history and with whatever heights, does to the pairs
\* what Ranking says and answers what Ranking says: the options of ZADD against the
\* order of its pairs, infinities, the bounds of the range removals, the order of
\* the pops, in which the two indices take turns being the one that is asked.
KeepsRanking == [][ZMeetsDeadKey(last') \/ ZDeparture(last') \/ Ranks!Next]_vars

\* A sorted set that lost its last member is gone.  An empty one is left behind
\* only by a ZADD or ZINCRBY that created the key and then added nothing, and moved
\* by a RENAME.
EmptyOnlyFromRefusal ==
  [][\A i \in Dbs, k \in Keys :
       /\ ZSetStored(dbs'[i], k) /\ Members(dbs'[i].data[k]) = {}
       /\ ~(ZSetStored(dbs[i], k) /\ Members(dbs[i].data[k]) = {})
       => \/ /\ ~Stored(dbs[i], k)
             /\ \/ last'.op = "ZADD" /\ last'.reply \in {Num(0), Err("SCORENAN")}
                \/ last'.op = "ZINCRBY" /\ last'.reply = Err("SCORENAN")
          \/ /\ last'.op \in {"RENAME", "RENAMENX"} /\ last'.arg[2] = k
             /\ ZSetStored(dbs[i], last'.arg[1]) /\ Members(dbs[i].data[last'.arg[1]]) = {}]_vars

\* Updates, pops and removals leave the time to live of a sorted set alone, as long
\* as it has a member; a key they create has none.
ZSetsKeepDeadlines ==
  [][\A i \in Dbs, k \in Keys :
       last'.op \in Ranks!RankingOps /\ Stored(dbs'[i], k)
       => \/ dbs'[i].expiry[k] = dbs[i].expiry[k]
          \/ ~Stored(dbs[i], k) /\ dbs'[i].expiry[k] = Never]_vars
=============================================================================
