------------------------------ MODULE MCZSets ------------------------------
(***************************************************************************)
(* Small instances of the ZSets for TLC.                                   *)
(***************************************************************************)
EXTENDS ZSetsProps, TLC

CONSTANTS k1, a, b, c, inf, nan, absent, never

MCTexts  == {a, b, c}
MinusOne == -1

\* As in MCKeyspace: no guard reads `last`.
Seen == <<dbs, now>>

\* The numerals, and then a, b, c in this order.
Place == [x \in Chunks |-> CASE x = a -> 2 [] x = b -> 3 [] x = c -> 4 [] OTHER -> x]
ByName(x, y) == Place[x] < Place[y]

\* Commands.
ZOps == {"ZADD", "ZINCRBY", "ZREM", "ZREMRANGEBYSCORE", "ZREMRANGEBYRANK", "ZPOPMIN",
         "ZPOPMAX", "SET", "PEXPIRE", "PERSIST", "RENAME", "DEL"}

\* Arguments: the finite scores are 0 and 1, -2 and 2 the infinities.  PEXPIRE 0 kills
\* a key at once, PEXPIRE 1 gives it a deadline the clock never reaches.
OneWord  == {<<a>>}
Option   == [nx |-> FALSE, xx |-> FALSE, get |-> FALSE, keepttl |-> FALSE, expire |-> Never]
Plain    == {Option}
Steps    == {1, 2, nan}
OnePair  == {<<<<s, m>>>> : s \in {0, 1}, m \in {a, b, c}}
MorePairs == {<<<<-2, a>>, <<1, a>>>>, <<<<1, b>>, <<0, b>>>>, <<<<1, c>>, <<nan, a>>>>, <<<<nan, b>>>>,
              <<<<1, b>>, <<1, a>>>>}
SomePairs == OnePair \cup MorePairs
Flag(nx, xx, gt, lt, ch) == [nx |-> nx, xx |-> xx, gt |-> gt, lt |-> lt, ch |-> ch]
T == TRUE
F == FALSE
SomeFlags == {Flag(F, F, F, F, F), Flag(T, F, F, F, F), Flag(F, T, F, F, T), Flag(F, F, T, F, T),
              Flag(F, F, F, T, F), Flag(T, T, F, F, F)}
From(s)   == [value |-> s, excl |-> FALSE]
Beyond(s) == [value |-> s, excl |-> TRUE]
SomeLimits == {From(-2), From(0), Beyond(0), From(1), Beyond(2)}
Around   == {-4, -2, -1, 0, 3}
=============================================================================
