-------------------------- MODULE ContainersProps --------------------------
(***************************************************************************)
(* What should be true of the hashes and the sets.                         *)
(***************************************************************************)
EXTENDS Containers, KeyspaceProps

HashOpNames  == {"HSET", "HMSET", "HSETNX", "HDEL", "HINCRBY", "HINCRBYFLOAT"}
StoreOpNames == {"SUNIONSTORE", "SINTERSTORE", "SDIFFSTORE"}
SetOpNames   == {"SADD", "SREM", "SPOP", "SMOVE"} \cup StoreOpNames

-----------------------------------------------------------------------------
(* Readers.                                                                *)

NoneOr(type, l, k) == TypeOf(l, k, now) \in {"none", type}

\* HLEN, HKEYS, HVALS, HGETALL, HGET, HMGET and HEXISTS look a hash up one by one
\* and agree on its fields, a dead hash being an empty one.
HashReadersAgree ==
  \A i \in Dbs, k \in Keys :
    LET l == dbs[i]
        fields == {f \in Chunks : HGet(l, k, f, now) # Nil}
    IN  IF ~NoneOr("hash", l, k)
        THEN \A r \in {HLen(l, k, now), HKeys(l, k, now), HVals(l, k, now), HGetAll(l, k, now)} :
               r = Err("WRONGTYPE")
        ELSE /\ HLen(l, k, now) = Num(Cardinality(fields))
             /\ HKeys(l, k, now) = Bulk(fields)
             /\ \A v \in Chunks :
                  HVals(l, k, now)[2][v]
                    = Cardinality({p \in HGetAll(l, k, now)[2] : p[2] = v})
             /\ \A f \in Chunks : HExists(l, k, f, now) = BoolInt(f \in fields)
             /\ \A fs \in Some(Fields) : \A j \in 1..Len(fs) :
                  HMGet(l, k, fs, now)[2][j] = HGet(l, k, fs[j], now)

SetsAgree(l, j, k) ==
  LET S == SMembers(l, j, now)[2]
      R == SMembers(l, k, now)[2]
      union == SUnion(l, <<j, k>>, now)
      inter == SInter(l, <<j, k>>, now)
      diff  == SDiff(l, <<j, k>>, now)
  IN  IF ~NoneOr("set", l, j) \/ ~NoneOr("set", l, k)
      THEN \A r \in {union, inter, diff} : r = Err("WRONGTYPE")
      ELSE /\ union = Bulk(S \cup R) /\ inter = Bulk(S \cap R) /\ diff = Bulk(S \ R)
           /\ SCard(l, j, now) = Num(Cardinality(S))
           /\ \A m \in Names : SIsMember(l, j, m, now) = BoolInt(m \in S)
           /\ \A ms \in Some(Names) : \A h \in 1..Len(ms) :
                SMIsMember(l, j, ms, now)[2][h] = SIsMember(l, j, ms[h], now)
           /\ \A n \in -2..2 : \A r \in SRandMember(l, j, n, now) :
                IF r = Nil THEN n = 1 /\ S = {}
                ELSE r[2] \subseteq S /\ (S # {} /\ n # 0 => r[2] # {})

\* The set readers agree on the members; the operations on several keys find in
\* each what SMEMBERS shows, a dead set being an empty one, and are refused as soon
\* as one key, wherever it stands, is of another type.
SetReadersAgree == \A i \in Dbs, j, k \in Keys : SetsAgree(dbs[i], j, k)

-----------------------------------------------------------------------------
(* Steps.                                                                  *)

\* A refused command changed before it was refused.
TracesKnown(req) ==
  \/ req.op = "SMOVE" /\ req.reply = Err("WRONGTYPE")
  \/ req.op = "HINCRBYFLOAT" /\ req.reply = Err("NAN")
  \/ req.op = "INCRBYFLOAT" /\ req.reply = Err("NANORINF")
  \/ req.op = "GETDEL" /\ req.reply = Err("WRONGTYPE")

\* A command that is answered with an error did nothing: the writers create the
\* key, write or remove before their last check, and nothing is rolled back.  Left
\* out are the four that do leave a trace: SMOVE to a key of another type loses the
\* member, HINCRBYFLOAT nan and INCRBYFLOAT inf leave a "0", GETDEL of another type
\* loses the deadline.
ErrorsLeaveNoTrace ==
  [][IsError(last'.reply) /\ ~TracesKnown(last') => dbs' = dbs]_vars

Hollow(l, k) ==
  /\ Stored(l, k)
  /\ \/ IsHash(l.data[k]) /\ FieldsOf(l.data[k]) = {}
     \/ IsSet(l.data[k]) /\ l.data[k].members = {}

\* A hash or a set goes with its last field or member, whichever command takes it;
\* only a STORE whose result is empty puts an empty set under a key, which EXISTS
\* then finds, every command of another type refuses and RENAME moves.
HollowOnlyByStore ==
  [][\A i \in Dbs, k \in Keys :
       Hollow(dbs'[i], k) /\ ~Hollow(dbs[i], k) =>
         \/ last'.op \in StoreOpNames /\ last'.reply = Num(0) /\ last'.arg[1] = k
         \/ /\ last'.op \in {"RENAME", "RENAMENX"} /\ last'.arg[2] = k
            /\ Hollow(dbs[i], last'.arg[1])]_vars

\* A STORE gives its destination a life without a deadline.  Any other hash or set
\* command leaves the time to live of a key alone as long as the key exists; left
\* out is SMOVE of the only member of a set onto itself, which removes the key and
\* makes it again.
ContainersKeepDeadlines ==
  [][\A i \in Dbs, k \in Keys :
       last'.op \in HashOpNames \cup SetOpNames /\ last'.db = i /\ Stored(dbs'[i], k) =>
         IF last'.op \in StoreOpNames /\ last'.arg[1] = k /\ ~IsError(last'.reply)
         THEN dbs'[i].expiry[k] = Never
         ELSE \/ dbs'[i].expiry[k] = dbs[i].expiry[k]
              \/ ~Stored(dbs[i], k) /\ dbs'[i].expiry[k] = Never
              \/ /\ last'.op = "SMOVE" /\ last'.arg[1] = k /\ last'.arg[2] = k
                 /\ Pool(i, k) = {last'.arg[3]}]_vars

MembersAt(l, k) == IF Stored(l, k) /\ IsSet(l.data[k]) THEN l.data[k].members ELSE {}

\* SMOVE takes the member from one set and puts it into the other: it is in the
\* destination afterwards, in the source only if the two are one, and no other
\* member comes or goes, whether or not either key is made or removed on the way.
\* Left out: a destination of another type, where smove finds out too late.
SMoveConserves ==
  [][last'.op = "SMOVE" /\ last'.db \in Dbs /\ ~IsError(last'.reply) =>
       LET old == dbs[last'.db]
           new == dbs'[last'.db]
           src == last'.arg[1]
           dst == last'.arg[2]
           m == last'.arg[3]
       IN  \A k \in Keys :
             MembersAt(new, k) =
               IF last'.reply = BoolInt(FALSE) THEN MembersAt(old, k)
               ELSE IF k = dst THEN MembersAt(old, k) \cup {m}
               ELSE IF k = src THEN MembersAt(old, k) \ {m}
               ELSE MembersAt(old, k)]_vars

Shown(l, k, t) == IF Live(l, k, t) THEN MembersAt(l, k) ELSE {}

\* A member that clients see in a set was sent by a SADD or was seen in a set
\* before: what a dead set still holds does not come back through the operands or
\* the destination of another command.  Left out is SMOVE from a dead set, which
\* finds it without the clock.
NoMemberFromTheDead ==
  [][last'.op \in SetOpNames \ {"SADD"} /\ last'.db \in Dbs =>
       LET old == dbs[last'.db]
           new == dbs'[last'.db]
       IN  \/ last'.op = "SMOVE" /\ Dead(old, last'.arg[1], now)
           \/ \A k \in Keys :
                Shown(new, k, now') \subseteq UNION {Shown(old, j, now) : j \in Keys}]_vars
=============================================================================
