------------------------------ MODULE StringOps ------------------------------
(***************************************************************************)
(* The string methods of Database (src/db/mod.rs) and the two string       *)
(* commands that are more than one method call, SET and GETEX              *)
(* (src/cmd/string.rs).                                                    *)
(***************************************************************************)
EXTENDS KeyOps

-----------------------------------------------------------------------------
StrGet(l, k, t) ==
  LET o == Get(l, k, t)
  IN  IF o = Absent THEN Nil
      ELSE IF IsStr(o) THEN Bulk(o.val) ELSE Err("WRONGTYPE")

\* mget: a missing key and a key of another type are both NULL.
MGet(l, S, t) ==
  [k \in S |-> IF IsError(StrGet(l, k, t)) THEN Nil ELSE StrGet(l, k, t)]

Strlen(l, k, t) ==
  LET r == StrGet(l, k, t)
  IN  IF r = Nil THEN Num(0) ELSE IF IsError(r) THEN r ELSE Num(Len(r[2]))

\* d = Never: no expire option.
StrSet(l, k, v, d, t) ==
  LET w == InsertKey(l, k, Str(v))
  IN  IF d = Never THEN Out(w, Ok) ELSE AndReply(SetExpiry(w, k, d, t), Ok)

StrSetNx(l, k, v, t) ==
  IF Get(l, k, t) # Absent THEN Out(l, BoolInt(FALSE))
  ELSE Out(InsertKey(l, k, Str(v)), BoolInt(TRUE))

StrSetXx(l, k, v, d, t) ==
  IF Get(l, k, t) = Absent THEN Out(l, Nil) ELSE StrSet(l, k, v, d, t)

StrGetSet(l, k, v, t) ==
  LET old == StrGet(l, k, t)
  IN  IF IsError(old) THEN Out(l, old)
      ELSE Out(StrSet(l, k, v, Never, t).ldb, old)

\* Takes the object out first; one of another type is inserted again.
StrGetDel(l, k) ==
  IF ~Stored(l, k) THEN Out(RemoveKey(l, k), Nil)
  ELSE IF IsStr(l.data[k]) THEN Out(RemoveKey(l, k), Bulk(l.data[k].val))
  ELSE Out(InsertKey(RemoveKey(l, k), k, l.data[k]), Err("WRONGTYPE"))

StrAppend(l, k, v) ==
  LET e == EntryOr(l, k, Str(<<>>))
      w == e.data[k].val \o v
  IN  IF IsStr(e.data[k]) THEN Out(Write(e, k, Str(w)), Num(Len(w)))
      ELSE Out(e, Err("WRONGTYPE"))

\* Faulty variant: resize() shortens a longer string.
StrSetRangeShort(l, k, off, v) ==
  LET e == EntryOr(l, k, Str(<<>>))
      old == e.data[k].val
      w == [j \in 1..(off + Len(v)) |-> IF j > off THEN v[j - off]
                                       ELSE IF j <= Len(old) THEN old[j] ELSE Nul]
  IN  IF IsStr(e.data[k]) THEN Out(Write(e, k, Str(w)), Num(Len(w)))
      ELSE Out(e, Err("WRONGTYPE"))

\* resize() to off + Len(v), then overwrite from off.
StrSetRange(l, k, off, v) ==
  LET e == EntryOr(l, k, Str(<<>>))
      old == e.data[k].val
      size == IF Len(old) < off + Len(v) THEN off + Len(v) ELSE Len(old)
      w == [j \in 1..size |-> IF j \in (off + 1)..(off + Len(v)) THEN v[j - off]
                              ELSE IF j <= Len(old) THEN old[j] ELSE Nul]
  IN  IF IsStr(e.data[k]) THEN Out(Write(e, k, Str(w)), Num(size))
      ELSE Out(e, Err("WRONGTYPE"))

StrIncr(l, k, delta) ==
  LET e == EntryOr(l, k, Str(<<0>>))
      o == e.data[k]
      sum == o.val[1] + delta
  IN  IF ~IsStr(o) THEN Out(e, Err("WRONGTYPE"))
      ELSE IF ~IsNumeral(o.val) THEN Out(e, Err("NOTINT"))
      ELSE IF sum \notin Numbers THEN Out(e, Err("OVERFLOW"))
      ELSE Out(Write(e, k, Str(<<sum>>)), Num(sum))

\* -delta on an i64, in an optimised build: the negation of IntMin wraps.
Negated(delta) == IF delta = IntMin THEN IntMin ELSE -delta

\* The sum is checked after the entry was created.
StrIncrFloat(l, k, delta) ==
  LET e == EntryOr(l, k, Str(<<0>>))
      o == e.data[k]
      sum == o.val[1] + delta
  IN  IF ~IsStr(o) THEN Out(e, Err("WRONGTYPE"))
      ELSE IF ~IsNumeral(o.val) THEN Out(e, Err("NOTFLOAT"))
      ELSE IF delta = Inf THEN Out(e, Err("NANORINF"))
      ELSE Out(Write(e, k, Str(<<sum>>)), Bulk(<<sum>>))

\* kv maps the keys of the request to their values.
MSet(l, kv) ==
  Out([data   |-> [k \in Keys |-> IF k \in DOMAIN kv THEN Str(kv[k]) ELSE l.data[k]],
       expiry |-> [k \in Keys |-> IF k \in DOMAIN kv THEN Never ELSE l.expiry[k]]],
      Ok)

\* Faulty variant: refuses only when every key exists.
MSetNxAll(l, kv, t) ==
  IF \A k \in DOMAIN kv : Get(l, k, t) # Absent THEN Out(l, BoolInt(FALSE))
  ELSE AndReply(MSet(l, kv), BoolInt(TRUE))

MSetNx(l, kv, t) ==
  IF \E k \in DOMAIN kv : Get(l, k, t) # Absent THEN Out(l, BoolInt(FALSE))
  ELSE AndReply(MSet(l, kv), BoolInt(TRUE))

-----------------------------------------------------------------------------
(* exec_set.  o holds the options parse_set accepted; NX with XX is a      *)
(* syntax error there, so at most one of the two is set.                   *)

\* as_secs() drops the milliseconds; the result of expire() is dropped too.
SetNxThenExpire(l, k, v, d, t) ==
  LET set == StrSetNx(l, k, v, t)
      expire == Expire(set.ldb, k, d \div Sec, t)
  IN  IF set.reply = BoolInt(FALSE) THEN Out(l, Nil)
      ELSE IF d = Never THEN Out(set.ldb, Ok)
      ELSE AndReply(expire, Ok)

ExecSet(l, k, v, o, t) ==
  LET old == StrGet(l, k, t)
      set == IF o.nx THEN SetNxThenExpire(l, k, v, o.expire, t)
             ELSE IF o.xx THEN StrSetXx(l, k, v, o.expire, t)
             ELSE StrSet(l, k, v, o.expire, t)
  IN  IF o.get /\ IsError(old) THEN Out(l, old)
      ELSE IF o.get /\ set.reply = Ok THEN Out(set.ldb, old)
      ELSE set

\* exec_getex: PERSIST wins over an expiry; ms = Never when neither is given.  The
\* milliseconds go through u128 and back to i64, where a long time turns negative; a
\* negative argument, which parse_getex casts to u64, is back what it was.
ExecGetEx(l, k, persist, ms, t) ==
  LET old == StrGet(l, k, t)
      retime == IF persist THEN Persist(l, k)
                ELSE IF ms = Never THEN Out(l, Nil) ELSE PExpire(l, k, AsI64(ms), t)
  IN  IF IsError(old) \/ old = Nil THEN Out(l, old)
      ELSE AndReply(retime, old)
=============================================================================
