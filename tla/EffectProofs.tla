---------------------------- MODULE EffectProofs ----------------------------
(***************************************************************************)
(* What every command of the Keyspace leaves behind: which methods leave   *)
(* the deadline of the keys they do not remove alone, and which commands   *)
(* are able to bring a dead key back; what they write, a string or a list  *)
(* with elements; and what their refusals change, which is nothing.        *)
(***************************************************************************)
EXTENDS KeyspaceProofs

\* Every key that w still holds has the deadline it has in l; in a well-formed l
\* that is none for a key l does not hold.
Keeps(l, w) == \A k \in Keys : Stored(w, k) => w.expiry[k] = l.expiry[k]

-----------------------------------------------------------------------------
(* The primitives.                                                         *)

LEMMA KeepsItself ==
  ASSUME NEW l
  PROVE  Keeps(l, l)
  BY DEF Keeps

\* A write in place, and an entry made for it, leave the deadlines alone.
LEMMA WriteKeeps ==
  ASSUME NEW l, NEW k, NEW o
  PROVE  Keeps(l, Write(l, k, o)) /\ Write(l, k, o).expiry = l.expiry
  BY DEF Keeps, Write

LEMMA EntryKeeps ==
  ASSUME NEW l, NEW k, NEW d
  PROVE  /\ Keeps(l, EntryOr(l, k, d))
         /\ \A o : Keeps(l, Write(EntryOr(l, k, d), k, o))
  BY DEF Keeps, EntryOr, Write

LEMMA RemoveKeeps ==
  ASSUME NEW l, WellFormed(l), NEW k \in Keys
  PROVE  Keeps(l, RemoveKey(l, k))
  BY DEF Keeps, RemoveKey, WellFormed, LDBs, Stored

\* A lookup may drop the key; if it does not, a write to it keeps its deadline.
LEMMA GetMutKeeps ==
  ASSUME NEW l, WellFormed(l), NEW k \in Keys, NEW t
  PROVE  /\ Keeps(l, GetMut(l, k, t))
         /\ \A o : Stored(GetMut(l, k, t), k) => Keeps(l, Write(GetMut(l, k, t), k, o))
  <1>1. CASE IsExpired(l, k, t)
    <2>1. GetMut(l, k, t) = RemoveKey(l, k)
      BY <1>1 DEF GetMut
    <2>2. ~Stored(RemoveKey(l, k), k)
      BY DEF RemoveKey, WellFormed, LDBs, Stored
    <2>3. QED
      BY <2>1, <2>2, RemoveKeeps
  <1>2. CASE ~IsExpired(l, k, t)
    <2>1. GetMut(l, k, t) = l
      BY <1>2 DEF GetMut
    <2>2. QED
      BY <2>1, WriteKeeps, KeepsItself
  <1>3. QED
    BY <1>1, <1>2

\* Where deadlines are kept, a dead key does not come back.
LEMMA DeadStaysDead ==
  ASSUME NEW l, NEW w, Keeps(l, w), NEW k \in Keys, NEW t, Dead(l, k, t)
  PROVE  ~Live(w, k, t)
  BY DEF Keeps, Dead, Live, Get, IsExpired, Stored

-----------------------------------------------------------------------------
(* The commands that keep every deadline.                                  *)

LEMMA DelKeepsDeadlines ==
  ASSUME NEW l, NEW S
  PROVE  Keeps(l, Del(l, S).ldb)
  BY DEF Keeps, Del, Out, Stored

LEMMA EmptyKeepsDeadlines ==
  ASSUME NEW l
  PROVE  Keeps(l, EmptyDb)
  BY DEF Keeps, EmptyDb, Stored

LEMMA GetDelKeepsDeadlines ==
  ASSUME NEW l, WellFormed(l), NEW k \in Keys, StrGetDel(l, k).reply # Err("WRONGTYPE")
  PROVE  Keeps(l, StrGetDel(l, k).ldb)
  BY RemoveKeeps DEF StrGetDel, Out

LEMMA StringWritersKeepDeadlines ==
  ASSUME NEW l, NEW k, NEW x
  PROVE  /\ Keeps(l, StrAppend(l, k, x).ldb) /\ Keeps(l, StrIncr(l, k, x).ldb)
         /\ Keeps(l, StrIncrFloat(l, k, x).ldb)
         /\ \A off : Keeps(l, StrSetRange(l, k, off, x).ldb)
         /\ Keeps(l, RPush(l, k, x).ldb)
  BY EntryKeeps DEF StrAppend, StrIncr, StrIncrFloat, StrSetRange, RPush, Out

LEMMA RPushXKeepsDeadlines ==
  ASSUME NEW l, WellFormed(l), NEW k \in Keys, NEW x, NEW t
  PROVE  Keeps(l, RPushX(l, k, x, t).ldb)
  BY GetMutKeeps DEF RPushX, Out

LEMMA LPopKeepsDeadlines ==
  ASSUME NEW l, WellFormed(l), NEW k \in Keys, NEW n
  PROVE  Keeps(l, LPop(l, k, n).ldb)
  BY RemoveKeeps, WriteKeeps, KeepsItself DEF LPop, Out

LEMMA EvictKeepsDeadlines ==
  ASSUME NEW l, NEW t
  PROVE  Keeps(l, EvictExpired(l, t))
  BY DEF Keeps, EvictExpired, Stored

-----------------------------------------------------------------------------
(* Revival.                                                                *)

\* GETEX gives a new deadline, but only to a key it has found alive.
LEMMA GetExRevivesNothing ==
  ASSUME NEW l, WellFormed(l), NEW k \in Keys, NEW p, NEW ms, NEW t,
         NEW j \in Keys, Dead(l, j, t)
  PROVE  ~Live(ExecGetEx(l, k, p, ms, t).ldb, j, t)
  <1> DEFINE w == ExecGetEx(l, k, p, ms, t).ldb
  <1>0. ~Live(l, j, t)
    BY DEF Dead, Live, Get
  <1>1. CASE Get(l, k, t) = Absent
    <2>1. w = l
      BY <1>1 DEF ExecGetEx, StrGet, Out
    <2>2. QED
      BY <1>0, <2>1
  <1>2. CASE Get(l, k, t) # Absent
    <2>1. j # k
      BY <1>0, <1>2 DEF Live
    <2>2. w.data[j] \in {l.data[j], Absent} /\ w.expiry[j] \in {l.expiry[j], Never}
            /\ (w.expiry[j] = l.expiry[j] \/ w.data[j] = Absent)
      BY <2>1 DEF ExecGetEx, AndReply, Out, Persist, DropExpiry, PExpire, DeleteNow,
                  RemoveKey, SetExpiry, SetExpiryAt, WellFormed, LDBs
    <2>3. QED
      BY <2>2 DEF Dead, Live, Get, IsExpired
  <1>3. QED
    BY <1>1, <1>2

\* What a command may do that is not one of those RevivedOnlyBy names.
Harmless(i) == \A k \in Keys : ~ComesBack(i, k)

\* The commands that are named.
Named ==
  \/ last'.op \in Overwriting
  \/ last'.op \in {"PERSIST", "EXPIRE", "PEXPIRE", "EXPIREAT", "PEXPIREAT"}
  \/ last'.op = "GETDEL" /\ last'.reply = Err("WRONGTYPE")

\* A command changes one database; it revives nothing elsewhere, and nothing there
\* if it keeps the deadlines of the keys it leaves.
LEMMA ElsewhereHarmless ==
  ASSUME NEW op, NEW i, NEW S, NEW arg, NEW out, Run(op, i, S, arg, out), IInv,
         NEW j \in Dbs, i \in Dbs => j # i
  PROVE  Harmless(j)
  <1>1. dbs'[j] = dbs[j] /\ now' = now
    BY DEF Run, IInv, AllWellFormed
  <1>2. QED
    BY <1>1 DEF Harmless, ComesBack, Dead, Live, Get

LEMMA KeepingIsHarmless ==
  ASSUME NEW op, NEW i, NEW S, NEW arg, NEW out, Run(op, i, S, arg, out), IInv,
         i \in Dbs => Keeps(dbs[i], out.ldb), NEW j \in Dbs
  PROVE  Harmless(j)
  <1>1. CASE i \in Dbs /\ j = i
    <2>1. dbs'[i] = out.ldb /\ now' = now
      BY <1>1 DEF Run, IInv, AllWellFormed
    <2>2. QED
      BY <1>1, <2>1, DeadStaysDead DEF Harmless, ComesBack
  <1>2. CASE ~(i \in Dbs /\ j = i)
    BY <1>2, ElsewhereHarmless
  <1>3. QED
    BY <1>1, <1>2

LEMMA GenericRevives ==
  ASSUME IInv, NEW i, GenericCommand(i), NEW j \in Dbs, ~Named
  PROVE  Harmless(j)
  <1>1. ASSUME NEW S \in SUBSET Keys, DelCmd(i, S)
        PROVE  Harmless(j)
    BY <1>1, DelKeepsDeadlines, KeepingIsHarmless DEF DelCmd
  <1>2. CASE FlushDbCmd(i)
    <2>1. Keeps(dbs[i], FlushDb(dbs[i]).ldb)
      BY EmptyKeepsDeadlines DEF FlushDb, Out
    <2>2. QED
      BY <1>2, <2>1, KeepingIsHarmless DEF FlushDbCmd
  <1>3. CASE FlushAllCmd(i)
    <2>1. dbs'[j] = EmptyDb
      BY <1>3 DEF FlushAllCmd
    <2>2. QED
      BY <2>1 DEF Harmless, ComesBack, EmptyDb, Live, Get
  <1>4. ASSUME NEW src, NEW dst, RenameCmd(i, src, dst) \/ RenamenxCmd(i, src, dst)
        PROVE  Named
    BY <1>4 DEF RenameCmd, RenamenxCmd, Run, Named, Overwriting
  <1>5. ASSUME NEW k, NEW n, \/ ExpireCmd(i, k, n) \/ PExpireCmd(i, k, n)
                             \/ ExpireAtCmd(i, k, n) \/ PExpireAtCmd(i, k, n)
                             \/ PersistCmd(i, k)
        PROVE  Named
    BY <1>5 DEF ExpireCmd, PExpireCmd, ExpireAtCmd, PExpireAtCmd, PersistCmd, Run, Named
  <1>6. QED
    BY <1>1, <1>2, <1>3, <1>4, <1>5 DEF GenericCommand

LEMMA StringRevives ==
  ASSUME IInv, NEW i, StringCommand(i), NEW j \in Dbs, ~Named
  PROVE  Harmless(j)
  <1>0. i \in Dbs => WellFormed(dbs[i])
    BY DEF IInv, AllWellFormed
  <1>1. ASSUME NEW k, NEW v, \/ \E o \in SetOptions : SetCmd(i, k, v, o)
                             \/ SetnxCmd(i, k, v) \/ GetSetCmd(i, k, v)
        PROVE  Named
    BY <1>1 DEF SetCmd, SetnxCmd, GetSetCmd, Run, Named, Overwriting
  <1>2. ASSUME NEW kv, MSetCmd(i, kv) \/ MSetNxCmd(i, kv)
        PROVE  Named
    BY <1>2 DEF MSetCmd, MSetNxCmd, Run, Named, Overwriting
  <1>3. ASSUME NEW k \in Keys, GetDelCmd(i, k)
        PROVE  Harmless(j)
    <2>1. i \in Dbs => StrGetDel(dbs[i], k).reply # Err("WRONGTYPE")
      BY <1>3 DEF GetDelCmd, Run, Named
    <2>2. i \in Dbs => Keeps(dbs[i], StrGetDel(dbs[i], k).ldb)
      BY <1>0, <2>1, GetDelKeepsDeadlines
    <2>3. QED
      BY <1>3, <2>2, KeepingIsHarmless DEF GetDelCmd
  <1>4. ASSUME NEW k \in Keys, NEW p, NEW ms, GetExCmd(i, k, p, ms)
        PROVE  Harmless(j)
    <2>1. CASE i \in Dbs /\ j = i
      <3>1. dbs'[i] = ExecGetEx(dbs[i], k, p, ms, now).ldb /\ now' = now
        BY <1>4, <2>1 DEF GetExCmd, Run, IInv, AllWellFormed
      <3>2. QED
        BY <1>0, <2>1, <3>1, GetExRevivesNothing DEF Harmless, ComesBack
    <2>2. CASE ~(i \in Dbs /\ j = i)
      BY <1>4, <2>2, ElsewhereHarmless DEF GetExCmd
    <2>3. QED
      BY <2>1, <2>2
  <1>5. ASSUME NEW k, NEW v, AppendCmd(i, k, v)
        PROVE  Harmless(j)
    BY <1>5, StringWritersKeepDeadlines, KeepingIsHarmless DEF AppendCmd
  <1>6. ASSUME NEW k, NEW off, NEW v, SetRangeCmd(i, k, off, v)
        PROVE  Harmless(j)
    BY <1>6, StringWritersKeepDeadlines, KeepingIsHarmless DEF SetRangeCmd
  <1>7. ASSUME NEW k, NEW n, IncrByCmd(i, k, n)
        PROVE  Harmless(j)
    BY <1>7, StringWritersKeepDeadlines, KeepingIsHarmless DEF IncrByCmd
  <1>8. ASSUME NEW k, NEW n, DecrByCmd(i, k, n)
        PROVE  Harmless(j)
    <2>1. Keeps(dbs[i], Out(dbs[i], Panic).ldb)
      BY KeepsItself DEF Out
    <2>2. QED
      BY <1>8, <2>1, StringWritersKeepDeadlines, KeepingIsHarmless DEF DecrByCmd
  <1>9. ASSUME NEW k, NEW n, IncrByFloatCmd(i, k, n)
        PROVE  Harmless(j)
    BY <1>9, StringWritersKeepDeadlines, KeepingIsHarmless DEF IncrByFloatCmd
  <1>10. QED
    BY <1>1, <1>2, <1>3, <1>4, <1>5, <1>6, <1>7, <1>8, <1>9 DEF StringCommand

LEMMA ListRevives ==
  ASSUME IInv, NEW i, ListCommand(i), NEW j \in Dbs
  PROVE  Harmless(j)
  <1>0. i \in Dbs => WellFormed(dbs[i])
    BY DEF IInv, AllWellFormed
  <1>1. ASSUME NEW k, NEW v, RPushCmd(i, k, v)
        PROVE  Harmless(j)
    BY <1>1, StringWritersKeepDeadlines, KeepingIsHarmless DEF RPushCmd
  <1>2. ASSUME NEW k \in Keys, NEW v, RPushXCmd(i, k, v)
        PROVE  Harmless(j)
    BY <1>0, <1>2, RPushXKeepsDeadlines, KeepingIsHarmless DEF RPushXCmd
  <1>3. ASSUME NEW k \in Keys, NEW n, LPopCmd(i, k, n)
        PROVE  Harmless(j)
    BY <1>0, <1>3, LPopKeepsDeadlines, KeepingIsHarmless DEF LPopCmd
  <1>4. QED
    BY <1>1, <1>2, <1>3 DEF ListCommand

LEMMA UnnamedRevives ==
  ASSUME IInv, Next, ~Named, NEW j \in Dbs
  PROVE  Harmless(j)
  <1>1. ASSUME NEW i, Command(i)
        PROVE  Harmless(j)
    BY <1>1, GenericRevives, StringRevives, ListRevives DEF Command
  <1>2. CASE EvictCmd
    <2>1. dbs'[j] = EvictExpired(dbs[j], now) /\ now' = now
      BY <1>2 DEF EvictCmd
    <2>2. QED
      BY <2>1, EvictKeepsDeadlines, DeadStaysDead DEF Harmless, ComesBack
  <1>3. CASE Tick
    <2>1. dbs' = dbs /\ now' = now + 1 /\ now \in Nat /\ dbs[j] \in LDBs
      BY <1>3 DEF Tick, IInv, AllWellFormed
    <2>2. ASSUME NEW k \in Keys, Dead(dbs[j], k, now)
          PROVE  ~Live(dbs[j], k, now + 1)
      BY <2>1, <2>2 DEF Dead, Live, Get, IsExpired, LDBs
    <2>3. QED
      BY <2>1, <2>2 DEF Harmless, ComesBack
  <1>4. QED
    BY <1>1, <1>2, <1>3 DEF Next

\* Of the commands of the Keyspace, the eviction task and the clock, only those named
\* can make a key reappear whose time is over: in particular no write through
\* data.entry(..) does.
THEOREM NothingElseRevives == Spec => RevivedOnlyBy
  <1>1. ASSUME IInv, Next, ~Named, NEW j \in Dbs
        PROVE  Harmless(j)
    BY <1>1, UnnamedRevives
  <1>2. IInv /\ [Next]_vars =>
          [\A i \in Dbs, k \in Keys : ComesBack(i, k) =>
             \/ last'.op \in Overwriting
             \/ last'.op \in {"PERSIST", "EXPIRE", "PEXPIRE", "EXPIREAT", "PEXPIREAT"}
             \/ last'.op = "GETDEL" /\ last'.reply = Err("WRONGTYPE")]_vars
    <2>1. CASE Next
      BY <1>1, <2>1 DEF Harmless, Named
    <2>2. CASE UNCHANGED vars
      BY <2>2
    <2>3. QED
      BY <2>1, <2>2
  <1>3. QED
    BY InvInit, InvStep, <1>2, PTL DEF Spec, RevivedOnlyBy

-----------------------------------------------------------------------------
(* Replies.                                                                *)

LEMMA Replies ==
  /\ \A n : ~IsError(Num(n)) /\ ~IsError(Bulk(n)) /\ ~IsError(BoolInt(n)) /\ IsError(Err(n))
  /\ ~IsError(Nil) /\ ~IsError(Ok) /\ ~IsError(Panic)
  /\ ~IsError(BoolInt(TRUE)) /\ ~IsError(BoolInt(FALSE))
  BY DEF IsError, Num, Bulk, BoolInt, Err, Nil, Ok, Panic

-----------------------------------------------------------------------------
(* Plain databases.                                                        *)

\* A string, or a list that is not empty.
Ordinary(o) == IsStr(o) \/ (IsList(o) /\ o.val # <<>>)

\* Every key has the object it had, or none, or an ordinary one.
Plainly(l, w) == \A k \in Keys : w.data[k] \in {l.data[k], Absent} \/ Ordinary(w.data[k])

LEMMA PlainStart ==
  ASSUME NEW l
  PROVE  Plainly(l, l) /\ Plainly(l, EmptyDb)
  BY DEF Plainly, EmptyDb

\* One key written, removed, or given another deadline.
LEMMA PlainPrimitives ==
  ASSUME NEW l, WellFormed(l), NEW k \in Keys
  PROVE  /\ Plainly(l, RemoveKey(l, k)) /\ Plainly(l, DropExpiry(l, k))
         /\ \A t : Plainly(l, GetMut(l, k, t))
         /\ \A v : Plainly(l, InsertKey(l, k, Str(v)))
         /\ \A at : Plainly(l, SetExpiryAt(l, k, at).ldb)
         /\ \A d, t : Plainly(l, SetExpiry(l, k, d, t).ldb)
  BY DEF WellFormed, LDBs, Plainly, Ordinary, RemoveKey, DropExpiry, GetMut, InsertKey, Str,
         IsStr, SetExpiryAt, SetExpiry, Out

LEMMA PlainTimes ==
  ASSUME NEW l, WellFormed(l), NEW k \in Keys, NEW n, NEW t
  PROVE  /\ Plainly(l, Expire(l, k, n, t).ldb) /\ ~IsError(Expire(l, k, n, t).reply)
         /\ Plainly(l, PExpire(l, k, n, t).ldb) /\ ~IsError(PExpire(l, k, n, t).reply)
         /\ Plainly(l, PExpireAt(l, k, n, t).ldb) /\ ~IsError(PExpireAt(l, k, n, t).reply)
         /\ Plainly(l, Persist(l, k).ldb) /\ ~IsError(Persist(l, k).reply)
  <1>1. /\ Plainly(l, DeleteNow(l, k).ldb) /\ ~IsError(DeleteNow(l, k).reply)
        /\ Plainly(l, Persist(l, k).ldb) /\ ~IsError(Persist(l, k).reply)
    BY PlainPrimitives, Replies DEF DeleteNow, Persist, Out, BoolInt
  <1>2. /\ \A at : ~IsError(SetExpiryAt(l, k, at).reply)
        /\ \A d : ~IsError(SetExpiry(l, k, d, t).reply)
    BY Replies DEF SetExpiry, SetExpiryAt, Out, BoolInt
  <1>3. QED
    BY <1>1, <1>2, PlainPrimitives DEF Expire, PExpire, PExpireAt

LEMMA PlainGeneric ==
  ASSUME NEW l, WellFormed(l)
  PROVE  /\ \A S \in SUBSET Keys : Plainly(l, Del(l, S).ldb) /\ ~IsError(Del(l, S).reply)
         /\ \A src, dst \in Keys : \A r : ~IsError(r) =>
              (IsError(MoveObject(l, src, dst, r).reply) =>
                 MoveObject(l, src, dst, r).ldb = l)
  <1>1. \A S \in SUBSET Keys : Plainly(l, Del(l, S).ldb) /\ ~IsError(Del(l, S).reply)
    BY Replies DEF Plainly, Del, Out
  <1>2. \A src \in Keys : ~Stored(l, src) => RemoveKey(l, src) = l
    BY DEF RemoveKey, WellFormed, LDBs, Stored
  <1>3. QED
    BY <1>1, <1>2 DEF MoveObject, Out

\* The object RENAME moves is the one of the source.
LEMMA MovedObject ==
  ASSUME NEW l, WellFormed(l), NEW src \in Keys, NEW dst \in Keys, NEW r, NEW k \in Keys
  PROVE  LET w == MoveObject(l, src, dst, r).ldb
         IN  w.data[k] \in {l.data[k], Absent} \/ (k = dst /\ w.data[k] = l.data[src])
  BY DEF MoveObject, Out, InsertKey, RemoveKey, Stored, WellFormed, LDBs

LEMMA PlainSet ==
  ASSUME NEW l, WellFormed(l), NEW k \in Keys, NEW v \in Seq(Chunks), NEW t \in Nat
  PROVE  /\ \A d : Plainly(l, StrSet(l, k, v, d, t).ldb) /\ ~IsError(StrSet(l, k, v, d, t).reply)
         /\ Plainly(l, StrSetNx(l, k, v, t).ldb) /\ ~IsError(StrSetNx(l, k, v, t).reply)
         /\ \A n : Plainly(l, Expire(StrSetNx(l, k, v, t).ldb, k, n, t).ldb)
  <1>1. Plainly(l, StrSetNx(l, k, v, t).ldb) /\ ~IsError(StrSetNx(l, k, v, t).reply)
    BY PlainPrimitives, PlainStart, Replies DEF StrSetNx, Out, BoolInt
  <1>2. \A n : Plainly(l, Expire(StrSetNx(l, k, v, t).ldb, k, n, t).ldb)
    <2>1. WellFormed(StrSetNx(l, k, v, t).ldb)
      BY StrSetNxWF
    <2> DEFINE w == StrSetNx(l, k, v, t).ldb
    <2> HIDE DEF w
    <2>2. \A n : Plainly(w, Expire(w, k, n, t).ldb)
      BY <2>1, PlainTimes DEF w
    <2>3. QED
      BY <1>1, <2>2 DEF Plainly, w
  <1>3. \A d : Plainly(l, StrSet(l, k, v, d, t).ldb) /\ ~IsError(StrSet(l, k, v, d, t).reply)
    <2> DEFINE w == InsertKey(l, k, Str(v))
    <2>1. Plainly(l, w) /\ WellFormed(w)
      BY PlainPrimitives, InsertWF, StrObject
    <2>2. \A d : /\ Plainly(w, SetExpiry(w, k, d, t).ldb)
                 /\ StrSet(l, k, v, d, t) = IF d = Never THEN Out(w, Ok)
                                             ELSE AndReply(SetExpiry(w, k, d, t), Ok)
      BY <2>1, PlainPrimitives DEF StrSet
    <2> HIDE DEF w
    <2>3. \A d : Plainly(l, SetExpiry(w, k, d, t).ldb)
      BY <2>1, <2>2 DEF Plainly
    <2>4. QED
      BY <2>1, <2>2, <2>3, Replies DEF AndReply, Out
  <1>4. QED
    BY <1>1, <1>2, <1>3

\* What is asked of every outcome.
Quiet(l, out) == Plainly(l, out.ldb) /\ (IsError(out.reply) => out.ldb = l)

LEMMA QuietOut ==
  ASSUME NEW l, NEW w, NEW r, Plainly(l, w), IsError(r) => w = l
  PROVE  Quiet(l, Out(w, r))
  BY DEF Quiet, Out

LEMMA QuietExecSet ==
  ASSUME NEW l, WellFormed(l), NEW k \in Keys, NEW v \in Seq(Chunks), NEW o, NEW t \in Nat
  PROVE  Quiet(l, ExecSet(l, k, v, o, t))
  <1> DEFINE old == StrGet(l, k, t)
             set == IF o.nx THEN SetNxThenExpire(l, k, v, o.expire, t)
                    ELSE IF o.xx THEN StrSetXx(l, k, v, o.expire, t)
                    ELSE StrSet(l, k, v, o.expire, t)
  <1>1. Plainly(l, set.ldb) /\ ~IsError(set.reply)
    <2>1. /\ Plainly(l, SetNxThenExpire(l, k, v, o.expire, t).ldb)
          /\ ~IsError(SetNxThenExpire(l, k, v, o.expire, t).reply)
      BY PlainSet, PlainStart, Replies DEF SetNxThenExpire, AndReply, Out
    <2>2. /\ Plainly(l, StrSetXx(l, k, v, o.expire, t).ldb)
          /\ ~IsError(StrSetXx(l, k, v, o.expire, t).reply)
      BY PlainSet, PlainStart, Replies DEF StrSetXx, Out
    <2>3. QED
      BY <2>1, <2>2, PlainSet
  <1>2. ExecSet(l, k, v, o, t) = IF o.get /\ IsError(old) THEN Out(l, old)
                                 ELSE IF o.get /\ set.reply = Ok THEN Out(set.ldb, old)
                                 ELSE set
    BY DEF ExecSet
  <1> HIDE DEF old, set
  <1>3. QED
    BY <1>1, <1>2, PlainStart DEF Quiet, Out

LEMMA QuietStrings ==
  ASSUME NEW l, WellFormed(l), NEW k \in Keys, NEW v \in Seq(Chunks), NEW t \in Nat
  PROVE  /\ Quiet(l, StrSetNx(l, k, v, t)) /\ Quiet(l, StrGetSet(l, k, v, t))
         /\ \A p, ms : Quiet(l, ExecGetEx(l, k, p, ms, t))
  <1>1. Quiet(l, StrSetNx(l, k, v, t))
    BY PlainSet DEF Quiet
  <1>2. Quiet(l, StrGetSet(l, k, v, t))
    BY PlainSet, PlainStart, QuietOut DEF StrGetSet
  <1>3. ASSUME NEW p, NEW ms
        PROVE  Quiet(l, ExecGetEx(l, k, p, ms, t))
    <2> DEFINE old == StrGet(l, k, t)
               retime == IF p THEN Persist(l, k)
                         ELSE IF ms = Never THEN Out(l, Nil) ELSE PExpire(l, k, AsI64(ms), t)
    <2>1. Plainly(l, retime.ldb) /\ ~IsError(retime.reply)
      BY PlainTimes, PlainStart, Replies DEF Out
    <2>2. ExecGetEx(l, k, p, ms, t) = IF IsError(old) \/ old = Nil THEN Out(l, old)
                                      ELSE AndReply(retime, old)
      BY DEF ExecGetEx
    <2> HIDE DEF old, retime
    <2>3. QED
      BY <2>1, <2>2, PlainStart DEF Quiet, AndReply, Out
  <1>4. QED
    BY <1>1, <1>2, <1>3

\* GETDEL of another type puts the object back, without its deadline.
LEMMA QuietGetDel ==
  ASSUME NEW l, WellFormed(l), NEW k \in Keys
  PROVE  LET out == StrGetDel(l, k)
         IN  Plainly(l, out.ldb) /\ (IsError(out.reply) => out.reply = Err("WRONGTYPE"))
  <1>1. Plainly(l, InsertKey(RemoveKey(l, k), k, l.data[k]))
    BY DEF Plainly, InsertKey, RemoveKey, WellFormed, LDBs
  <1>2. QED
    BY <1>1, PlainPrimitives, Replies DEF StrGetDel, Out

LEMMA QuietMSet ==
  ASSUME NEW l, WellFormed(l), NEW kv, NEW t
  PROVE  Quiet(l, MSet(l, kv)) /\ Quiet(l, MSetNx(l, kv, t))
  <1>1. Plainly(l, MSet(l, kv).ldb) /\ MSet(l, kv).reply = Ok
    BY DEF Plainly, Ordinary, MSet, Out, Str, IsStr
  <1>2. QED
    BY <1>1, PlainStart, Replies DEF Quiet, MSetNx, AndReply, Out, BoolInt

\* The string writers through data.entry(..): what they refuse was there before.
LEMMA PlainWrite ==
  ASSUME NEW l, WellFormed(l), NEW k \in Keys, NEW d \in Objects \ {Absent}, IsStr(d)
  PROVE  LET e == EntryOr(l, k, d)
         IN  /\ Plainly(l, e)
             /\ \A v : Plainly(l, Write(e, k, Str(v)))
             /\ Stored(l, k) => e = l
             /\ ~Stored(l, k) => e.data[k] = d
  BY DEF Plainly, Ordinary, EntryOr, Write, Str, IsStr, Stored, WellFormed, LDBs

LEMMA Starters ==
  /\ Str(<<>>) \in Objects \ {Absent} /\ IsStr(Str(<<>>))
  /\ ListObj(<<>>) \in Objects \ {Absent} /\ IsList(ListObj(<<>>)) /\ ListObj(<<>>).val = <<>>
  /\ Str(<<0>>) \in Objects \ {Absent} /\ IsStr(Str(<<0>>))
  /\ Str(<<0>>).val = <<0>> /\ IsNumeral(<<0>>)
  <1>1. 0 \in Numbers
    BY IntAssumption DEF Numbers
  <1>2. QED
    BY <1>1, Defaults, AbsentAssumption DEF Str, ListObj, IsStr, IsList, IsNumeral

LEMMA QuietWriters ==
  ASSUME NEW l, WellFormed(l), NEW k \in Keys, NEW v
  PROVE  /\ Quiet(l, StrAppend(l, k, v))
         /\ \A off : Quiet(l, StrSetRange(l, k, off, v))
  <1>1. Quiet(l, StrAppend(l, k, v))
    BY PlainWrite, Starters, Replies DEF StrAppend, Quiet, Out
  <1>2. ASSUME NEW off
        PROVE  Quiet(l, StrSetRange(l, k, off, v))
    BY PlainWrite, Starters, Replies DEF StrSetRange, Quiet, Out
  <1>3. QED
    BY <1>1, <1>2

\* 0 plus the argument is in range, so a counter that overflows was there before.
LEMMA QuietIncr ==
  ASSUME NEW l, WellFormed(l), NEW k \in Keys, NEW n \in Numbers
  PROVE  Quiet(l, StrIncr(l, k, n))
  <1> DEFINE e == EntryOr(l, k, Str(<<0>>))
             o == e.data[k]
  <1>1. /\ Plainly(l, e) /\ (Stored(l, k) => e = l)
        /\ \A v : Plainly(l, Write(e, k, Str(v)))
        /\ ~Stored(l, k) => o = Str(<<0>>)
    BY PlainWrite, Starters
  <1>2. ~Stored(l, k) => IsStr(o) /\ IsNumeral(o.val) /\ o.val[1] + n \in Numbers
    <2>1. <<0>>[1] + n = n
      BY DEF Numbers
    <2>2. QED
      BY <1>1, <2>1, Starters
  <1>3. StrIncr(l, k, n) = IF ~IsStr(o) THEN Out(e, Err("WRONGTYPE"))
                           ELSE IF ~IsNumeral(o.val) THEN Out(e, Err("NOTINT"))
                           ELSE IF o.val[1] + n \notin Numbers THEN Out(e, Err("OVERFLOW"))
                           ELSE Out(Write(e, k, Str(<<o.val[1] + n>>)), Num(o.val[1] + n))
    BY DEF StrIncr
  <1> HIDE DEF e, o
  <1>4. QED
    BY <1>1, <1>2, <1>3, Replies DEF Quiet, Out

LEMMA NegatedInRange ==
  ASSUME NEW n \in Numbers
  PROVE  Negated(n) \in Numbers
  BY IntAssumption DEF Numbers, Negated

LEMMA QuietIncrFloat ==
  ASSUME NEW l, WellFormed(l), NEW k \in Keys, NEW n
  PROVE  LET out == StrIncrFloat(l, k, n)
         IN  Plainly(l, out.ldb) /\ (Quiet(l, out) \/ out.reply = Err("NANORINF"))
  <1> DEFINE e == EntryOr(l, k, Str(<<0>>))
             o == e.data[k]
  <1>1. /\ Plainly(l, e) /\ (Stored(l, k) => e = l)
        /\ \A v : Plainly(l, Write(e, k, Str(v)))
        /\ ~Stored(l, k) => IsStr(o) /\ IsNumeral(o.val)
    BY PlainWrite, Starters
  <1>2. StrIncrFloat(l, k, n) = IF ~IsStr(o) THEN Out(e, Err("WRONGTYPE"))
                           ELSE IF ~IsNumeral(o.val) THEN Out(e, Err("NOTFLOAT"))
                           ELSE IF n = Inf THEN Out(e, Err("NANORINF"))
                           ELSE Out(Write(e, k, Str(<<o.val[1] + n>>)), Bulk(<<o.val[1] + n>>))
    BY DEF StrIncrFloat
  <1> HIDE DEF e, o
  <1>3. QED
    BY <1>1, <1>2, Replies DEF Quiet, Out

\* A list with elements, written in place of the list there was or of none.
LEMMA PlainList ==
  ASSUME NEW l, WellFormed(l), NEW k \in Keys, NEW s, s # <<>>
  PROVE  LET e == EntryOr(l, k, ListObj(<<>>))
         IN  /\ Plainly(l, Write(l, k, ListObj(s))) /\ Plainly(l, Write(e, k, ListObj(s)))
             /\ ~IsList(e.data[k]) => e = l
             /\ ~Stored(l, k) => e.data[k] = ListObj(<<>>)
  <1>1. ListObj(s).type = "list" /\ ListObj(s).val = s /\ IsList(ListObj(<<>>))
    BY DEF ListObj, IsList
  <1>2. QED
    BY <1>1 DEF Plainly, Ordinary, EntryOr, Write, IsList, Stored, WellFormed, LDBs

LEMMA QuietRPush ==
  ASSUME NEW l, WellFormed(l), NEW k \in Keys, NEW v \in Seq(Chunks), v # <<>>
  PROVE  Quiet(l, RPush(l, k, v))
  <1> DEFINE e == EntryOr(l, k, ListObj(<<>>))
             w == e.data[k].val \o v
  <1>1. e.data[k] \in Objects
    BY Starters, EntryWF
  <1>2. IsList(e.data[k]) => w # <<>>
    <2>1. IsList(e.data[k]) => e.data[k].val \in Seq(Chunks)
      BY <1>1, SeqObject DEF IsList
    <2>2. QED
      BY <2>1
  <1>3. /\ IsList(e.data[k]) => Plainly(l, Write(e, k, ListObj(w)))
        /\ ~IsList(e.data[k]) => e = l
    <2>1. /\ \A s : s # <<>> => Plainly(l, Write(e, k, ListObj(s)))
          /\ ~IsList(e.data[k]) => e = l
      BY PlainList, <<0>> # <<>>
    <2>2. QED
      BY <1>2, <2>1
  <1>4. RPush(l, k, v) = IF IsList(e.data[k]) THEN Out(Write(e, k, ListObj(w)), Num(Len(w)))
                         ELSE Out(e, Err("WRONGTYPE"))
    BY DEF RPush
  <1> HIDE DEF e, w
  <1>5. QED
    BY <1>3, <1>4, PlainStart, QuietOut, Replies

LEMMA QuietRPushX ==
  ASSUME NEW l, WellFormed(l), NEW k \in Keys, NEW v \in Seq(Chunks), v # <<>>, NEW t
  PROVE  Quiet(l, RPushX(l, k, v, t))
  <1> DEFINE e == GetMut(l, k, t)
             w == e.data[k].val \o v
  <1>1. (Stored(e, k) => e = l) /\ Plainly(l, e)
    BY PlainPrimitives DEF GetMut, RemoveKey, Stored, WellFormed, LDBs
  <1>2. Stored(l, k) /\ IsList(l.data[k]) => l.data[k].val \o v # <<>>
    <2>1. Stored(l, k) /\ IsList(l.data[k]) => l.data[k].val \in Seq(Chunks)
      BY SeqObject DEF WellFormed, LDBs, Stored, IsList
    <2>2. QED
      BY <2>1
  <1>3. Stored(e, k) /\ IsList(e.data[k]) => Plainly(l, Write(e, k, ListObj(w)))
    BY <1>1, <1>2, PlainList
  <1>4. RPushX(l, k, v, t) =
          IF ~Stored(e, k) THEN Out(e, Num(0))
          ELSE IF IsList(e.data[k]) THEN Out(Write(e, k, ListObj(w)), Num(Len(w)))
          ELSE Out(e, Err("WRONGTYPE"))
    BY DEF RPushX
  <1> HIDE DEF e, w
  <1>5. QED
    BY <1>1, <1>3, <1>4, QuietOut, Replies

LEMMA QuietLPop ==
  ASSUME NEW l, WellFormed(l), NEW k \in Keys, NEW n
  PROVE  Quiet(l, LPop(l, k, n))
  <1> DEFINE old == l.data[k].val
             m == IF n < Len(old) THEN n ELSE Len(old)
             rest == SubSeq(old, m + 1, Len(old))
             reply == IF m = 0 THEN Nil ELSE Bulk(SubSeq(old, 1, m))
  <1>1. ~IsError(reply)
    BY Replies
  <1>2. rest # <<>> => Plainly(l, Write(l, k, ListObj(rest)))
    BY PlainList
  <1>3. LPop(l, k, n) = IF ~Stored(l, k) THEN Out(l, Nil)
                        ELSE IF ~IsList(l.data[k]) THEN Out(l, Err("WRONGTYPE"))
                        ELSE IF n > ReserveMax THEN Out(l, Panic)
                        ELSE IF rest = <<>> THEN Out(RemoveKey(l, k), reply)
                        ELSE Out(Write(l, k, ListObj(rest)), reply)
    BY DEF LPop
  <1> HIDE DEF rest, reply
  <1>4. QED
    BY <1>1, <1>2, <1>3, PlainPrimitives, PlainStart, QuietOut, Replies

-----------------------------------------------------------------------------
(* Steps of the Keyspace.                                                  *)

\* The two refusals of the Keyspace that come too late.
LateRefusal ==
  \/ last'.op = "INCRBYFLOAT" /\ last'.reply = Err("NANORINF")
  \/ last'.op = "GETDEL" /\ last'.reply = Err("WRONGTYPE")

CleanRefusal == IsError(last'.reply) /\ ~LateRefusal => dbs' = dbs

PlainStep(j) == Plainly(dbs[j], dbs'[j])

\* RENAME puts the object of the source, last.arg[1], under last.arg[2].
MovingStep(j) ==
  /\ last'.op \in {"RENAME", "RENAMENX"} /\ last'.arg[1] \in Keys
  /\ \A k \in Keys :
       \/ dbs'[j].data[k] \in {dbs[j].data[k], Absent}
       \/ k = last'.arg[2] /\ dbs'[j].data[k] = dbs[j].data[last'.arg[1]]

LEMMA RunClean ==
  ASSUME IInv, NEW op, NEW i, NEW S, NEW arg, NEW out, Run(op, i, S, arg, out),
         i \in Dbs => (IsError(out.reply) => out.ldb = dbs[i])
  PROVE  IsError(last'.reply) => dbs' = dbs
  <1>1. i \in Dbs => [dbs EXCEPT ![i] = dbs[i]] = dbs
    BY DEF IInv, AllWellFormed
  <1>2. QED
    BY <1>1 DEF Run

LEMMA RunPlain ==
  ASSUME IInv, NEW op, NEW i, NEW S, NEW arg, NEW out, Run(op, i, S, arg, out),
         i \in Dbs => Plainly(dbs[i], out.ldb), NEW j \in Dbs
  PROVE  PlainStep(j)
  <1>1. dbs'[j] = IF i \in Dbs /\ i = j THEN out.ldb ELSE dbs[j]
    BY DEF Run, IInv, AllWellFormed
  <1>2. QED
    BY <1>1, PlainStart DEF PlainStep

LEMMA RunQuiet ==
  ASSUME IInv, NEW op, NEW i, NEW S, NEW arg, NEW out, Run(op, i, S, arg, out),
         i \in Dbs => Quiet(dbs[i], out), NEW j \in Dbs
  PROVE  CleanRefusal /\ PlainStep(j)
  <1>1. IsError(last'.reply) => dbs' = dbs
    BY RunClean DEF Quiet
  <1>2. PlainStep(j)
    BY RunPlain DEF Quiet
  <1>3. QED
    BY <1>1, <1>2 DEF CleanRefusal

LEMMA GenericQuiet ==
  ASSUME IInv, NEW i \in Index, GenericCommand(i), NEW j \in Dbs
  PROVE  CleanRefusal /\ (PlainStep(j) \/ MovingStep(j))
  <1>0. i \in Dbs => WellFormed(dbs[i])
    BY DEF IInv, AllWellFormed
  <1>1. ASSUME NEW S \in SUBSET Keys, DelCmd(i, S)
        PROVE  CleanRefusal /\ PlainStep(j)
    BY <1>0, <1>1, PlainGeneric, RunQuiet DEF DelCmd, Quiet
  <1>2. ASSUME NEW src \in Keys, NEW dst \in Keys,
               RenameCmd(i, src, dst) \/ RenamenxCmd(i, src, dst)
        PROVE  CleanRefusal /\ MovingStep(j)
    <2>1. PICK op, out :
            /\ op \in {"RENAME", "RENAMENX"}
            /\ Run(op, i, {src, dst}, <<src, dst>>, out)
            /\ \/ out = Out(dbs[i], BoolInt(FALSE))
               \/ \E r : ~IsError(r) /\ out = MoveObject(dbs[i], src, dst, r)
      BY <1>2, Replies DEF RenameCmd, RenamenxCmd, Rename, Renamenx, BoolInt
    <2>2. i \in Dbs => (IsError(out.reply) => out.ldb = dbs[i])
      BY <1>0, <2>1, PlainGeneric, Replies DEF Out, BoolInt
    <2>3. IsError(last'.reply) => dbs' = dbs
      BY <2>1, <2>2, RunClean
    <2>4. last'.op = op /\ last'.arg = <<src, dst>>
      BY <2>1 DEF Run
    <2>5. ASSUME NEW k \in Keys
          PROVE  \/ dbs'[j].data[k] \in {dbs[j].data[k], Absent}
                 \/ k = dst /\ dbs'[j].data[k] = dbs[j].data[src]
      <3>1. dbs'[j] = IF i \in Dbs /\ i = j THEN out.ldb ELSE dbs[j]
        BY <2>1 DEF Run, IInv, AllWellFormed
      <3>2. CASE out = Out(dbs[i], BoolInt(FALSE))
        BY <3>1, <3>2 DEF Out, BoolInt
      <3>3. CASE i \in Dbs /\ i = j /\ \E r : out = MoveObject(dbs[i], src, dst, r)
        BY <1>0, <3>1, <3>3, MovedObject
      <3>4. CASE ~(i \in Dbs /\ i = j)
        BY <3>1, <3>4
      <3>5. QED
        BY <2>1, <3>2, <3>3, <3>4
    <2>6. last'.op \in {"RENAME", "RENAMENX"} /\ last'.arg[1] = src /\ last'.arg[2] = dst
      BY <2>1, <2>4
    <2>7. QED
      BY <2>3, <2>5, <2>6 DEF CleanRefusal, MovingStep
  <1>3. ASSUME NEW k \in Keys, NEW n, \/ ExpireCmd(i, k, n) \/ PExpireCmd(i, k, n)
                                     \/ ExpireAtCmd(i, k, n) \/ PExpireAtCmd(i, k, n)
                                     \/ PersistCmd(i, k)
        PROVE  CleanRefusal /\ PlainStep(j)
    <2>1. i \in Dbs => /\ Quiet(dbs[i], Expire(dbs[i], k, n, now))
                       /\ Quiet(dbs[i], PExpire(dbs[i], k, n, now))
                       /\ Quiet(dbs[i], ExpireAtCommand(dbs[i], k, n, now))
                       /\ Quiet(dbs[i], PExpireAt(dbs[i], k, n, now))
                       /\ Quiet(dbs[i], Persist(dbs[i], k))
      BY <1>0, PlainTimes DEF Quiet, ExpireAtCommand
    <2>2. QED
      BY <1>3, <2>1, RunQuiet DEF ExpireCmd, PExpireCmd, ExpireAtCmd, PExpireAtCmd, PersistCmd
  <1>4. CASE FlushDbCmd(i)
    BY <1>4, PlainStart, QuietOut, Replies, RunQuiet DEF FlushDbCmd, FlushDb
  <1>5. CASE FlushAllCmd(i)
    <2>1. dbs'[j] = EmptyDb /\ ~IsError(last'.reply)
      BY <1>5, Replies DEF FlushAllCmd
    <2>2. QED
      BY <2>1, PlainStart DEF CleanRefusal, PlainStep
  <1>6. QED
    BY <1>1, <1>2, <1>3, <1>4, <1>5 DEF GenericCommand

LEMMA StringQuiet ==
  ASSUME IInv, NEW i \in Index, StringCommand(i), NEW j \in Dbs
  PROVE  CleanRefusal /\ PlainStep(j)
  <1>0. now \in Nat /\ (i \in Dbs => WellFormed(dbs[i]))
    BY DEF IInv, AllWellFormed
  <1>1. ASSUME NEW k \in Keys, NEW v \in Values, NEW o, SetCmd(i, k, v, o)
        PROVE  CleanRefusal /\ PlainStep(j)
    <2>1. i \in Dbs => Quiet(dbs[i], ExecSet(dbs[i], k, v, o, now))
      BY <1>0, QuietExecSet, ValuesAssumption
    <2>2. QED
      BY <1>1, <2>1, RunQuiet DEF SetCmd
  <1>2. ASSUME NEW k \in Keys, NEW v \in Values, SetnxCmd(i, k, v) \/ GetSetCmd(i, k, v)
        PROVE  CleanRefusal /\ PlainStep(j)
    <2>1. i \in Dbs => /\ Quiet(dbs[i], StrSetNx(dbs[i], k, v, now))
                       /\ Quiet(dbs[i], StrGetSet(dbs[i], k, v, now))
      BY <1>0, QuietStrings, ValuesAssumption
    <2>2. QED
      BY <1>2, <2>1, RunQuiet DEF SetnxCmd, GetSetCmd
  <1>3. ASSUME NEW k \in Keys, NEW p, NEW ms, GetExCmd(i, k, p, ms)
        PROVE  CleanRefusal /\ PlainStep(j)
    <2>1. i \in Dbs => Quiet(dbs[i], ExecGetEx(dbs[i], k, p, ms, now))
      <3>1. <<>> \in Seq(Chunks)
        OBVIOUS
      <3>2. QED
        BY <1>0, <3>1, QuietStrings
    <2>2. QED
      BY <1>3, <2>1, RunQuiet DEF GetExCmd
  <1>4. ASSUME NEW k \in Keys, GetDelCmd(i, k)
        PROVE  CleanRefusal /\ PlainStep(j)
    <2> DEFINE out == StrGetDel(dbs[i], k)
    <2>1. i \in Dbs => /\ Plainly(dbs[i], out.ldb)
                       /\ IsError(out.reply) => out.reply = Err("WRONGTYPE")
      BY <1>0, QuietGetDel
    <2>2. Run("GETDEL", i, {k}, {}, out)
      BY <1>4 DEF GetDelCmd
    <2> HIDE DEF out
    <2>3. PlainStep(j)
      BY <2>1, <2>2, RunPlain
    <2>4. CleanRefusal
      BY <2>1, <2>2 DEF Run, CleanRefusal, LateRefusal
    <2>5. QED
      BY <2>3, <2>4
  <1>5. ASSUME NEW kv, MSetCmd(i, kv) \/ MSetNxCmd(i, kv)
        PROVE  CleanRefusal /\ PlainStep(j)
    <2>1. i \in Dbs => Quiet(dbs[i], MSet(dbs[i], kv)) /\ Quiet(dbs[i], MSetNx(dbs[i], kv, now))
      BY <1>0, QuietMSet
    <2>2. QED
      BY <1>5, <2>1, RunQuiet DEF MSetCmd, MSetNxCmd
  <1>6. ASSUME NEW k \in Keys, NEW v,
               AppendCmd(i, k, v) \/ \E off \in 0..MaxLen : SetRangeCmd(i, k, off, v)
        PROVE  CleanRefusal /\ PlainStep(j)
    <2>1. i \in Dbs => /\ Quiet(dbs[i], StrAppend(dbs[i], k, v))
                       /\ \A off : Quiet(dbs[i], StrSetRange(dbs[i], k, off, v))
      BY <1>0, QuietWriters
    <2>2. QED
      BY <1>6, <2>1, RunQuiet DEF AppendCmd, SetRangeCmd
  <1>7. ASSUME NEW k \in Keys, NEW n \in Deltas, IncrByCmd(i, k, n) \/ DecrByCmd(i, k, n)
        PROVE  CleanRefusal /\ PlainStep(j)
    <2>1. n \in Numbers /\ Negated(n) \in Numbers
      BY TimesAssumption, NegatedInRange
    <2>2. i \in Dbs => /\ Quiet(dbs[i], StrIncr(dbs[i], k, n))
                       /\ Quiet(dbs[i], StrIncr(dbs[i], k, Negated(n)))
                       /\ Quiet(dbs[i], Out(dbs[i], Panic))
      BY <1>0, <2>1, QuietIncr, QuietOut, PlainStart
    <2>3. QED
      BY <1>7, <2>2, RunQuiet DEF IncrByCmd, DecrByCmd
  <1>8. ASSUME NEW k \in Keys, NEW n, IncrByFloatCmd(i, k, n)
        PROVE  CleanRefusal /\ PlainStep(j)
    <2> DEFINE out == StrIncrFloat(dbs[i], k, n)
    <2>1. i \in Dbs => /\ Plainly(dbs[i], out.ldb)
                       /\ Quiet(dbs[i], out) \/ out.reply = Err("NANORINF")
      BY <1>0, QuietIncrFloat
    <2>2. Run("INCRBYFLOAT", i, {k}, n, out)
      BY <1>8 DEF IncrByFloatCmd
    <2> HIDE DEF out
    <2>3. PlainStep(j)
      BY <2>1, <2>2, RunPlain
    <2>4. CASE i \in Dbs /\ out.reply = Err("NANORINF")
      BY <2>2, <2>3, <2>4 DEF Run, CleanRefusal, LateRefusal
    <2>5. CASE ~(i \in Dbs /\ out.reply = Err("NANORINF"))
      BY <2>1, <2>2, <2>5, RunQuiet
    <2>6. QED
      BY <2>4, <2>5
  <1>9. QED
    BY <1>1, <1>2, <1>3, <1>4, <1>5, <1>6, <1>7, <1>8 DEF StringCommand

LEMMA ListQuiet ==
  ASSUME IInv, NEW i \in Index, ListCommand(i), NEW j \in Dbs
  PROVE  CleanRefusal /\ PlainStep(j)
  <1>0. i \in Dbs => WellFormed(dbs[i])
    BY DEF IInv, AllWellFormed
  <1>1. ASSUME NEW k \in Keys, NEW v \in Values, v # <<>>,
               RPushCmd(i, k, v) \/ RPushXCmd(i, k, v)
        PROVE  CleanRefusal /\ PlainStep(j)
    <2>1. i \in Dbs => /\ Quiet(dbs[i], RPush(dbs[i], k, v))
                       /\ Quiet(dbs[i], RPushX(dbs[i], k, v, now))
      BY <1>0, <1>1, QuietRPush, QuietRPushX, ValuesAssumption
    <2>2. QED
      BY <1>1, <2>1, RunQuiet DEF RPushCmd, RPushXCmd
  <1>2. ASSUME NEW k \in Keys, NEW n, LPopCmd(i, k, n)
        PROVE  CleanRefusal /\ PlainStep(j)
    BY <1>0, <1>2, QuietLPop, RunQuiet DEF LPopCmd
  <1>3. QED
    BY <1>1, <1>2 DEF ListCommand

LEMMA KeyspaceQuiet ==
  ASSUME IInv, Next, NEW j \in Dbs
  PROVE  CleanRefusal /\ (PlainStep(j) \/ MovingStep(j))
  <1>1. ASSUME NEW i \in Index, Command(i)
        PROVE  CleanRefusal /\ (PlainStep(j) \/ MovingStep(j))
    BY <1>1, GenericQuiet, StringQuiet, ListQuiet DEF Command
  <1>2. CASE EvictCmd
    <2>1. dbs'[j] = EvictExpired(dbs[j], now) /\ ~IsError(last'.reply)
      BY <1>2, Replies DEF EvictCmd
    <2>2. Plainly(dbs[j], EvictExpired(dbs[j], now))
      BY DEF Plainly, EvictExpired
    <2>3. QED
      BY <2>1, <2>2 DEF CleanRefusal, PlainStep
  <1>3. CASE Tick
    <2>1. dbs' = dbs
      BY <1>3 DEF Tick
    <2>2. QED
      BY <2>1, PlainStart DEF CleanRefusal, PlainStep
  <1>4. QED
    BY <1>1, <1>2, <1>3 DEF Next

-----------------------------------------------------------------------------
(* A command on one database.                                              *)

LEMMA RunInv ==
  ASSUME IInv, NEW op, NEW i, NEW S, NEW arg, NEW out, Run(op, i, S, arg, out),
         i \in Dbs => WellFormed(out.ldb)
  PROVE  IInv'
  BY Install DEF IInv, Run

LEMMA RunAt ==
  ASSUME IInv, NEW op, NEW i \in Dbs, NEW S, NEW arg, NEW out, NEW j, Run(op, j, S, arg, out),
         last'.db = i
  PROVE  /\ j = i /\ dbs'[i] = out.ldb /\ now' = now
         /\ last'.op = op /\ last'.arg = arg /\ last'.reply = out.reply
  BY DEF Run, IInv, AllWellFormed
=============================================================================
