------------------------------- MODULE KeyOps -------------------------------
(***************************************************************************)
(* The type-independent methods of Database (src/db/mod.rs): keys, TTLs    *)
(* and flushes, on the logical database l the connection has selected.     *)
(***************************************************************************)
EXTENDS LogicalDb

CONSTANT WrapU64    \* 2^64: what `as u64` adds to a negative number

ASSUME WrapAssumption == WrapU64 \in Nat \ {0}

-----------------------------------------------------------------------------
(* Readers.  Each compares the clock with the deadline on its own.         *)

Exists(l, S, t) == Cardinality({k \in S : Get(l, k, t) # Absent})

TypeOf(l, k, t) == IF Get(l, k, t) = Absent THEN "none" ELSE Get(l, k, t).type

\* keys, dbsize and randomkey walk the data map and filter it themselves.
Unexpired(l, t) ==
  {k \in Keys : Stored(l, k) /\ (l.expiry[k] # Never => t < l.expiry[k])}

KeysMatching(l, pattern, t) == Unexpired(l, t) \cap pattern
DbSize(l, t) == Cardinality(Unexpired(l, t))
RandomKeys(l, t) == Unexpired(l, t)     \* any of them; NULL if there is none

Pttl(l, k, t) == TtlMs(l, k, t)
Ttl(l, k, t) == LET ms == Pttl(l, k, t) IN IF ms >= 0 THEN ms \div Sec ELSE ms

-----------------------------------------------------------------------------
(* Writers.                                                                *)

\* Database::del: counts every stored key, expired ones too.
Del(l, S) ==
  Out([data   |-> [k \in Keys |-> IF k \in S THEN Absent ELSE l.data[k]],
       expiry |-> [k \in Keys |-> IF k \in S THEN Never ELSE l.expiry[k]]],
      Num(Cardinality({k \in S : Stored(l, k)})))

\* Faulty variant: the source leaves its deadline behind.
MoveObjectOnly(l, src, dst, r) ==
  IF Stored(l, src)
  THEN Out(InsertKey([l EXCEPT !.data = [@ EXCEPT ![src] = Absent]], dst, l.data[src]), r)
  ELSE Out(l, Err("NOSUCHKEY"))

\* remove(src) then insert(dst): the object moves, its deadline does not.
MoveObject(l, src, dst, r) ==
  IF Stored(l, src) THEN Out(InsertKey(RemoveKey(l, src), dst, l.data[src]), r)
  ELSE Out(RemoveKey(l, src), Err("NOSUCHKEY"))

Rename(l, src, dst) == MoveObject(l, src, dst, Ok)

Renamenx(l, src, dst, t) ==
  IF Get(l, dst, t) # Absent THEN Out(l, BoolInt(FALSE))
  ELSE MoveObject(l, src, dst, BoolInt(TRUE))

\* A deadline that has already passed deletes the key (`remove(..).is_some()`).
DeleteNow(l, k) == Out(RemoveKey(l, k), BoolInt(Stored(l, k)))

\* Faulty variant: a negative duration is not told apart.
ExpireUnchecked(l, k, secs, t) == SetExpiry(l, k, secs * Sec, t)

Expire(l, k, secs, t) ==
  IF secs < 0 THEN DeleteNow(l, k) ELSE SetExpiry(l, k, secs * Sec, t)

PExpire(l, k, ms, t) ==
  IF ms < 0 THEN DeleteNow(l, k) ELSE SetExpiry(l, k, ms, t)

\* i64 as u64
AsU64(n) == IF n < 0 THEN n + WrapU64 ELSE n

\* u128 as i64: the residue modulo 2^64 that lies in the range of i64.
AsI64(n) == LET m == n % WrapU64 IN IF 2 * m < WrapU64 THEN m ELSE m - WrapU64

\* The wall clock and the monotonic clock advance together: ts is on t's scale.
PExpireAt(l, k, ts, t) ==
  IF AsU64(ts) <= t THEN DeleteNow(l, k) ELSE SetExpiryAt(l, k, AsU64(ts))

\* EXPIREAT as the command layer runs it: parse_expire ignores its `_at` flag
\* and builds Command::Expire, so the timestamp is taken for a number of seconds.
ExpireAtCommand(l, k, ts, t) == Expire(l, k, ts, t)

Persist(l, k) == Out(DropExpiry(l, k), BoolInt(l.expiry[k] # Never))

FlushDb(l) == Out(EmptyDb, Ok)
=============================================================================
