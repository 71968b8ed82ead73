-------------------------------- MODULE Lists --------------------------------
(***************************************************************************)
(* The Keyspace with all of the list commands (src/cmd/list.rs).           *)
(***************************************************************************)
EXTENDS Keyspace

CONSTANTS Elements,   \* what clients put into lists
          Indices     \* the index and count arguments they send

ASSUME ElementsAssumption == Elements \subseteq Chunks
ASSUME IndicesAssumption == Indices \subseteq Int

LPushCmd(i, k, v) ==
  Fits(i, k, Len(v)) /\ Run("LPUSH", i, {k}, v, LPush(dbs[i], k, v))

LPushXCmd(i, k, v) ==
  Fits(i, k, Len(v)) /\ Run("LPUSHX", i, {k}, v, LPushX(dbs[i], k, v, now))

RPopCmd(i, k, n) == Run("RPOP", i, {k}, n, RPop(dbs[i], k, n))

LSetCmd(i, k, n, v) == Run("LSET", i, {k}, <<n, v>>, LSet(dbs[i], k, n, v, now))

LInsertCmd(i, k, before, pivot, v) ==
  Fits(i, k, 1)
  /\ Run("LINSERT", i, {k}, <<before, pivot, v>>, LInsert(dbs[i], k, before, pivot, v, now))

LRemCmd(i, k, n, v) == Run("LREM", i, {k}, <<n, v>>, LRem(dbs[i], k, n, v, now))

LTrimCmd(i, k, start, stop) ==
  Run("LTRIM", i, {k}, <<start, stop>>, LTrim(dbs[i], k, start, stop))

LMoveCmd(i, src, dst, fromLeft, toLeft) ==
  Fits(i, dst, 1)
  /\ Run("LMOVE", i, {src, dst}, <<src, dst, fromLeft, toLeft>>,
         LMove(dbs[i], src, dst, fromLeft, toLeft))

\* One or two elements at a time.
Pushes == {<<v>> : v \in Elements} \cup {<<v, w>> : v, w \in Elements}

MoreListCommand(i) ==
  \/ \E k \in Keys, v \in Pushes : LPushCmd(i, k, v)
  \/ \E k \in Keys, v \in Pushes : LPushXCmd(i, k, v)
  \/ \E k \in Keys, n \in PopCounts : RPopCmd(i, k, n)
  \/ \E k \in Keys, n \in Indices, v \in Elements : LSetCmd(i, k, n, v)
  \/ \E k \in Keys, b \in BOOLEAN, p, v \in Elements : LInsertCmd(i, k, b, p, v)
  \/ \E k \in Keys, n \in Indices, v \in Elements : LRemCmd(i, k, n, v)
  \/ \E k \in Keys, m, n \in Indices : LTrimCmd(i, k, m, n)
  \/ \E src, dst \in Keys, f, t \in BOOLEAN : LMoveCmd(i, src, dst, f, t)

ListsNext == Next \/ \E i \in Index : MoreListCommand(i)

ListsSpec == Init /\ [][ListsNext]_vars
=============================================================================
