------------------------------ MODULE Keyspace ------------------------------
(***************************************************************************)
(* The database of a running mini-rudis: DbCount logical databases, the    *)
(* clock, the commands clients issue on them and the background task that  *)
(* evicts expired keys.  The server runs every task on one thread and a    *)
(* command never awaits, so a command, and one pass of the eviction task,  *)
(* is a single step; their order is arbitrary, and so is the time between  *)
(* them.  A command reads the clock once here (the code may read it twice  *)
(* within the same few microseconds).                                      *)
(*                                                                         *)
(* Each action is one command as parsed and executed by src/cmd, on the    *)
(* database index i its connection has selected.                           *)
(***************************************************************************)
EXTENDS ListOps

CONSTANTS DbCount,     \* --databases
          SelectMax,   \* SELECT accepts 0..SelectMax-1 (16 in the code)
          Issued,      \* the commands clients issue
          Values,      \* the strings they write
          Deltas,      \* the amounts they increment by
          SetOptions,  \* the option records of their SETs
          Seconds,     \* arguments of EXPIRE, EXPIREAT and GETEX EX
          Millis,      \* arguments of PEXPIRE and GETEX PX
          Stamps,      \* arguments of PEXPIREAT
          MaxLen,      \* bound: no string or list grows beyond MaxLen chunks
          MaxTime      \* bound: the clock stops at MaxTime

ASSUME DbAssumption ==
  DbCount \in Nat /\ SelectMax \in Nat /\ DbCount <= SelectMax
ASSUME ValuesAssumption == Values \subseteq Seq(Chunks)
ASSUME TimesAssumption ==
  Seconds \subseteq Int /\ Millis \subseteq Int /\ Deltas \subseteq Numbers
ASSUME StampsAssumption == \A ts \in Stamps : ts \in Int /\ AsU64(ts) \in Nat
\* parse_set refuses NX together with XX.
ASSUME OptionsAssumption ==
  /\ SetOptions \subseteq [nx: BOOLEAN, xx: BOOLEAN, get: BOOLEAN,
                           keepttl: BOOLEAN, expire: Nat \cup {Never}]
  /\ \A o \in SetOptions : ~(o.nx /\ o.xx)
ASSUME BoundAssumption == MaxLen \in Nat /\ MaxTime \in Nat

Dbs   == 0..(DbCount - 1)
Index == 0..(SelectMax - 1)

VARIABLES dbs,    \* Database::dbs
          now,    \* the clock
          last    \* the last thing that happened: the request and its reply

vars == <<dbs, now, last>>

Init ==
  /\ dbs = [i \in Dbs |-> EmptyDb]
  /\ now = 0
  /\ last = [op |-> "START", db |-> 0, keys |-> {}, arg |-> {}, reply |-> Ok]

\* The command `op` on database i, about the keys S, ends with `out`.
\* Database::db and db_mut refuse an index the database does not have.
Run(op, i, S, arg, out) ==
  /\ op \in Issued
  /\ IF i \in Dbs
     THEN /\ dbs' = [dbs EXCEPT ![i] = out.ldb]
          /\ last' = [op |-> op, db |-> i, keys |-> S, arg |-> arg,
                      reply |-> out.reply]
     ELSE /\ dbs' = dbs
          /\ last' = [op |-> op, db |-> i, keys |-> S, arg |-> arg,
                      reply |-> Err("DBINDEX")]
  /\ UNCHANGED now

\* Bound: the strings and lists of database i stay within MaxLen chunks.
Fits(i, k, n) ==
  i \in Dbs /\ Stored(dbs[i], k) /\ (IsStr(dbs[i].data[k]) \/ IsList(dbs[i].data[k]))
    => Len(dbs[i].data[k].val) + n <= MaxLen

-----------------------------------------------------------------------------
(* Generic commands.                                                       *)

DelCmd(i, S) == Run("DEL", i, S, {}, Del(dbs[i], S))

RenameCmd(i, src, dst) ==
  Run("RENAME", i, {src, dst}, <<src, dst>>, Rename(dbs[i], src, dst))

RenamenxCmd(i, src, dst) ==
  Run("RENAMENX", i, {src, dst}, <<src, dst>>, Renamenx(dbs[i], src, dst, now))

ExpireCmd(i, k, s) == Run("EXPIRE", i, {k}, s, Expire(dbs[i], k, s, now))

PExpireCmd(i, k, ms) == Run("PEXPIRE", i, {k}, ms, PExpire(dbs[i], k, ms, now))

ExpireAtCmd(i, k, ts) ==
  Run("EXPIREAT", i, {k}, ts, ExpireAtCommand(dbs[i], k, ts, now))

PExpireAtCmd(i, k, ts) ==
  Run("PEXPIREAT", i, {k}, ts, PExpireAt(dbs[i], k, ts, now))

PersistCmd(i, k) == Run("PERSIST", i, {k}, {}, Persist(dbs[i], k))

FlushDbCmd(i) == Run("FLUSHDB", i, Keys, {}, FlushDb(dbs[i]))

\* The only command that touches every database; it checks no index.
FlushAllCmd(i) ==
  /\ "FLUSHALL" \in Issued
  /\ dbs' = [j \in Dbs |-> EmptyDb]
  /\ last' = [op |-> "FLUSHALL", db |-> i, keys |-> Keys, arg |-> {}, reply |-> Ok]
  /\ UNCHANGED now

GenericCommand(i) ==
  \/ \E S \in SUBSET Keys : S # {} /\ DelCmd(i, S)
  \/ \E src, dst \in Keys : RenameCmd(i, src, dst)
  \/ \E src, dst \in Keys : RenamenxCmd(i, src, dst)
  \/ \E k \in Keys, s \in Seconds : ExpireCmd(i, k, s)
  \/ \E k \in Keys, ms \in Millis : PExpireCmd(i, k, ms)
  \/ \E k \in Keys, ts \in Seconds : ExpireAtCmd(i, k, ts)
  \/ \E k \in Keys, ts \in Stamps : PExpireAtCmd(i, k, ts)
  \/ \E k \in Keys : PersistCmd(i, k)
  \/ FlushDbCmd(i)
  \/ FlushAllCmd(i)

-----------------------------------------------------------------------------
(* String commands.  SETEX and PSETEX are SET with an expiry and no option *)
(* (the same str_set call), so SET stands for them.  A SET or a GETEX that *)
(* lacks the time after EX panics in parse_set or parse_getex, which index *)
(* behind their arguments: no database sees it (Scripts has that of SET).  *)

SetCmd(i, k, v, o) ==
  Run("SET", i, {k}, [val |-> v, opt |-> o], ExecSet(dbs[i], k, v, o, now))

SetnxCmd(i, k, v) == Run("SETNX", i, {k}, v, StrSetNx(dbs[i], k, v, now))

GetSetCmd(i, k, v) == Run("GETSET", i, {k}, v, StrGetSet(dbs[i], k, v, now))

GetDelCmd(i, k) == Run("GETDEL", i, {k}, {}, StrGetDel(dbs[i], k))

GetExCmd(i, k, persist, ms) ==
  Run("GETEX", i, {k}, <<persist, ms>>, ExecGetEx(dbs[i], k, persist, ms, now))

MSetCmd(i, kv) == Run("MSET", i, DOMAIN kv, kv, MSet(dbs[i], kv))

MSetNxCmd(i, kv) == Run("MSETNX", i, DOMAIN kv, kv, MSetNx(dbs[i], kv, now))

AppendCmd(i, k, v) ==
  Fits(i, k, Len(v)) /\ Run("APPEND", i, {k}, v, StrAppend(dbs[i], k, v))

SetRangeCmd(i, k, off, v) ==
  off + Len(v) <= MaxLen
  /\ Run("SETRANGE", i, {k}, <<off, v>>, StrSetRange(dbs[i], k, off, v))

IncrByCmd(i, k, n) == Run("INCRBY", i, {k}, n, StrIncr(dbs[i], k, n))

\* A build with overflow checks panics on -i64::MIN instead of wrapping.
DecrByCmd(i, k, n) ==
  \/ Run("DECRBY", i, {k}, n, StrIncr(dbs[i], k, Negated(n)))
  \/ n = IntMin /\ Run("DECRBY", i, {k}, n, Out(dbs[i], Panic))

\* Bound: float sums stay in the range of the numerals.
FloatFits(i, k, n) ==
  i \in Dbs /\ n # Inf /\ Stored(dbs[i], k) /\ IsStr(dbs[i].data[k])
       /\ IsNumeral(dbs[i].data[k].val)
    => dbs[i].data[k].val[1] + n \in Numbers

IncrByFloatCmd(i, k, n) ==
  FloatFits(i, k, n) /\ Run("INCRBYFLOAT", i, {k}, n, StrIncrFloat(dbs[i], k, n))

\* The times GETEX is given, in milliseconds.
GetExTimes == Millis \cup {s * Sec : s \in Seconds} \cup {Never}

\* Maps from a non-empty set of keys to values: what MSET and MSETNX carry.
KeyValues == UNION {[S -> Values] : S \in (SUBSET Keys) \ {{}}}

\* The texts clients append and patch in; a numeral would have to be glued to
\* its neighbours.
TextValues == {v \in Values : \A j \in 1..Len(v) : v[j] \in Texts}

StringCommand(i) ==
  \/ \E k \in Keys, v \in Values, o \in SetOptions : SetCmd(i, k, v, o)
  \/ \E k \in Keys, v \in Values : SetnxCmd(i, k, v)
  \/ \E k \in Keys, v \in Values : GetSetCmd(i, k, v)
  \/ \E k \in Keys : GetDelCmd(i, k)
  \/ \E k \in Keys, p \in BOOLEAN, ms \in GetExTimes : GetExCmd(i, k, p, ms)
  \/ \E kv \in KeyValues : MSetCmd(i, kv)
  \/ \E kv \in KeyValues : MSetNxCmd(i, kv)
  \/ \E k \in Keys, v \in TextValues : AppendCmd(i, k, v)
  \/ \E k \in Keys, off \in 0..MaxLen, v \in TextValues : SetRangeCmd(i, k, off, v)
  \/ \E k \in Keys, n \in Deltas : IncrByCmd(i, k, n)
  \/ \E k \in Keys, n \in Deltas : DecrByCmd(i, k, n)
  \/ \E k \in Keys, n \in Deltas \cup {Inf} : IncrByFloatCmd(i, k, n)

-----------------------------------------------------------------------------
(* List commands: the ones that create and remove a key of another type.   *)

RPushCmd(i, k, v) ==
  Fits(i, k, Len(v)) /\ Run("RPUSH", i, {k}, v, RPush(dbs[i], k, v))

RPushXCmd(i, k, v) ==
  Fits(i, k, Len(v)) /\ Run("RPUSHX", i, {k}, v, RPushX(dbs[i], k, v, now))

\* The counts clients pop: up to all there is, and one that nothing has room for.
PopCounts == (0..MaxLen) \cup {ReserveMax + 1}

LPopCmd(i, k, n) == Run("LPOP", i, {k}, n, LPop(dbs[i], k, n))

ListCommand(i) ==
  \/ \E k \in Keys, v \in Values : v # <<>> /\ RPushCmd(i, k, v)
  \/ \E k \in Keys, v \in Values : v # <<>> /\ RPushXCmd(i, k, v)
  \/ \E k \in Keys, n \in PopCounts : LPopCmd(i, k, n)

-----------------------------------------------------------------------------
\* Faulty variant: the task sweeps the first database only.
EvictFirst ==
  /\ dbs' = [dbs EXCEPT ![0] = EvictExpired(dbs[0], now)]
  /\ last' = [op |-> "EVICT", db |-> 0, keys |-> {}, arg |-> {}, reply |-> Ok]
  /\ UNCHANGED now

\* The background task of server::run, once per interval.
EvictCmd ==
  /\ dbs' = [i \in Dbs |-> EvictExpired(dbs[i], now)]
  /\ last' = [op |-> "EVICT", db |-> 0, keys |-> {}, arg |-> {}, reply |-> Ok]
  /\ UNCHANGED now

Tick ==
  /\ now < MaxTime
  /\ now' = now + 1
  /\ last' = [op |-> "TICK", db |-> 0, keys |-> {}, arg |-> {}, reply |-> Ok]
  /\ UNCHANGED dbs

Command(i) == GenericCommand(i) \/ StringCommand(i) \/ ListCommand(i)

Next == (\E i \in Index : Command(i)) \/ EvictCmd \/ Tick

Spec == Init /\ [][Next]_vars

\* The interval timer fires again and again, and no command holds the thread
\* for ever: the eviction task keeps running.  Nothing is assumed of clients.
FairSpec == Spec /\ WF_vars(EvictCmd)
=============================================================================
