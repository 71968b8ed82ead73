---------------------------- MODULE Containers ----------------------------
(***************************************************************************)
(* The Keyspace with the hash and set commands (src/cmd/hash.rs and        *)
(* src/cmd/set.rs).                                                        *)
(***************************************************************************)
EXTENDS Keyspace, HashOps, SetOps

CONSTANTS Fields,       \* the hash fields clients use
          FieldPairs,   \* the <<field, value>> sequences of their HSETs
          Amounts,      \* what they increment fields by
          Names         \* the members of their sets

\* The parser refuses a HSET or a HMSET without a pair.
ASSUME FieldsAssumption ==
  /\ Fields \subseteq Chunks
  /\ FieldPairs \subseteq Seq(Fields \X Chunks) \ {<<>>}
  /\ Amounts \subseteq Numbers
ASSUME NamesAssumption == Names \subseteq Chunks

\* One or two of S, in the order of the request.
Some(S) == {<<x>> : x \in S} \cup (S \X S)

-----------------------------------------------------------------------------
(* Hashes.                                                                 *)

HSetCmd(i, k, pairs) == Run("HSET", i, {k}, pairs, HSet(dbs[i], k, pairs))

HMSetCmd(i, k, pairs) == Run("HMSET", i, {k}, pairs, HMSet(dbs[i], k, pairs))

HSetNxCmd(i, k, f, v) == Run("HSETNX", i, {k}, <<f, v>>, HSetNx(dbs[i], k, f, v))

HDelCmd(i, k, fs) == Run("HDEL", i, {k}, fs, HDel(dbs[i], k, fs))

HIncrByCmd(i, k, f, d) == Run("HINCRBY", i, {k}, <<f, d>>, HIncrBy(dbs[i], k, f, d))

\* Bound: the sums of database i stay in the range of the numerals; no increment
\* is infinite.
FieldFits(i, k, f, d) ==
  i \in Dbs /\ d # NaN /\ Stored(dbs[i], k) /\ IsHash(dbs[i].data[k])
       /\ dbs[i].data[k].fields[f] \in Numbers
    => dbs[i].data[k].fields[f] + d \in Numbers

HIncrByFloatCmd(i, k, f, d) ==
  /\ FieldFits(i, k, f, d)
  /\ Run("HINCRBYFLOAT", i, {k}, <<f, d>>, HIncrByFloat(dbs[i], k, f, d))

HashCommand(i) ==
  \/ \E k \in Keys, p \in FieldPairs : HSetCmd(i, k, p)
  \/ \E k \in Keys, p \in FieldPairs : HMSetCmd(i, k, p)
  \/ \E k \in Keys, p \in FieldPairs : HSetNxCmd(i, k, p[1][1], p[1][2])
  \/ \E k \in Keys, fs \in Some(Fields) : HDelCmd(i, k, fs)
  \/ \E k \in Keys, f \in Fields, d \in Amounts : HIncrByCmd(i, k, f, d)
  \/ \E k \in Keys, f \in Fields, d \in Amounts \cup {NaN} : HIncrByFloatCmd(i, k, f, d)

-----------------------------------------------------------------------------
(* Sets.                                                                   *)

SAddCmd(i, k, ms) == Run("SADD", i, {k}, ms, SAdd(dbs[i], k, ms))

SRemCmd(i, k, ms) == Run("SREM", i, {k}, ms, SRem(dbs[i], k, ms))

SUnionStoreCmd(i, dst, ks) ==
  Run("SUNIONSTORE", i, {dst, ks[1], ks[Len(ks)]}, <<dst, ks>>,
      SUnionStore(dbs[i], dst, ks, now))

SInterStoreCmd(i, dst, ks) ==
  Run("SINTERSTORE", i, {dst, ks[1], ks[Len(ks)]}, <<dst, ks>>,
      SInterStore(dbs[i], dst, ks, now))

SDiffStoreCmd(i, dst, ks) ==
  Run("SDIFFSTORE", i, {dst, ks[1], ks[Len(ks)]}, <<dst, ks>>,
      SDiffStore(dbs[i], dst, ks, now))

\* The members of the set k of database i, none if it is no set.
Pool(i, k) ==
  IF i \in Dbs /\ Stored(dbs[i], k) /\ IsSet(dbs[i].data[k]) THEN dbs[i].data[k].members ELSE {}

SPopCmd(i, k, n) ==
  \E chosen \in Choices(Pool(i, k), n) :
    Run("SPOP", i, {k}, n, SPop(dbs[i], k, n, chosen))

SMoveCmd(i, src, dst, m) ==
  Run("SMOVE", i, {src, dst}, <<src, dst, m>>, SMove(dbs[i], src, dst, m))

SetCommand(i) ==
  \/ \E k \in Keys, ms \in Some(Names) : SAddCmd(i, k, ms)
  \/ \E k \in Keys, ms \in Some(Names) : SRemCmd(i, k, ms)
  \/ \E dst \in Keys, ks \in Some(Keys) : SUnionStoreCmd(i, dst, ks)
  \/ \E dst \in Keys, ks \in Some(Keys) : SInterStoreCmd(i, dst, ks)
  \/ \E dst \in Keys, ks \in Some(Keys) : SDiffStoreCmd(i, dst, ks)
  \/ \E k \in Keys, n \in 0..Cardinality(Names) \cup {ReserveMax + 1} : SPopCmd(i, k, n)
  \/ \E src, dst \in Keys, m \in Names : SMoveCmd(i, src, dst, m)

-----------------------------------------------------------------------------
ContainersNext == Next \/ \E i \in Index : HashCommand(i) \/ SetCommand(i)

ContainersSpec == Init /\ [][ContainersNext]_vars
=============================================================================
