------------------------------ MODULE LogicalDb ------------------------------
(***************************************************************************)
(* One logical database of mini-rudis (struct LogicalDb, src/db/mod.rs):   *)
(* a map `data` from keys to objects and, beside it, a map `expiry` from   *)
(* keys to deadlines.  A HashMap is a total function here: a key it does   *)
(* not hold is mapped to Absent (data) or to Never (expiry).               *)
(*                                                                         *)
(* The module is constant-level: each operator takes the database l it is  *)
(* applied to and, where the code reads Instant::now(), the time t.  Time  *)
(* is counted in milliseconds, Sec of them to the second.                  *)
(***************************************************************************)
EXTENDS Objects

CONSTANTS Keys,        \* the key names clients use
          InstantMax   \* the last instant the clock type can represent

ASSUME InstantAssumption == InstantMax \in Nat

LDBs == [data: [Keys -> Objects \cup {Absent}], expiry: [Keys -> Nat \cup {Never}]]

EmptyDb == [data |-> [k \in Keys |-> Absent], expiry |-> [k \in Keys |-> Never]]

\* What a Database method leaves behind: the database and the reply.
Out(l, r) == [ldb |-> l, reply |-> r]

\* The reply r after the call `out`, unless that call panicked.
AndReply(out, r) == IF out.reply = Panic THEN out ELSE Out(out.ldb, r)

-----------------------------------------------------------------------------
Stored(l, k) == l.data[k] # Absent

\* Faulty variant: the instant of the deadline itself still counts as alive.
IsExpiredLate(l, k, t) == l.expiry[k] # Never /\ t > l.expiry[k]

IsExpired(l, k, t) == l.expiry[k] # Never /\ t >= l.expiry[k]

\* LogicalDb::get: looks at the clock, removes nothing.
Get(l, k, t) == IF IsExpired(l, k, t) THEN Absent ELSE l.data[k]

\* What every reader should agree on.
Live(l, k, t) == Get(l, k, t) # Absent
\* Past its deadline and not evicted yet.
Dead(l, k, t) == Stored(l, k) /\ IsExpired(l, k, t)

\* Faulty variant: the expiry map is forgotten.
RemoveKeyDataOnly(l, k) == [l EXCEPT !.data = [@ EXCEPT ![k] = Absent]]

RemoveKey(l, k) == [data   |-> [l.data EXCEPT ![k] = Absent],
                    expiry |-> [l.expiry EXCEPT ![k] = Never]]

\* Faulty variant: the lookup skips the clock, as data.get_mut would.
GetMutUnchecked(l, k, t) == l

\* LogicalDb::get_mut: the database after the lookup; the object it yields is
\* the one stored there.
GetMut(l, k, t) == IF IsExpired(l, k, t) THEN RemoveKey(l, k) ELSE l

\* Faulty variant: a write in place clears the deadline, as insert does.
WriteFresh(l, k, o) == [data   |-> [l.data EXCEPT ![k] = o],
                        expiry |-> [l.expiry EXCEPT ![k] = Never]]

\* A write through the reference a lookup returned: the deadline stays.
Write(l, k, o) == [l EXCEPT !.data = [@ EXCEPT ![k] = o]]

\* data.entry(key).or_insert(o): the map is consulted, the clock is not.
EntryOr(l, k, o) == IF Stored(l, k) THEN l ELSE Write(l, k, o)

\* LogicalDb::insert: a new object never inherits a deadline.
InsertKey(l, k, o) == [data   |-> [l.data EXCEPT ![k] = o],
                       expiry |-> [l.expiry EXCEPT ![k] = Never]]

\* LogicalDb::set_expiry_at: needs a stored object, even an expired one.
SetExpiryAt(l, k, at) ==
  IF Stored(l, k)
  THEN Out([l EXCEPT !.expiry = [@ EXCEPT ![k] = at]], BoolInt(TRUE))
  ELSE Out(l, BoolInt(FALSE))

\* LogicalDb::set_expiry: Instant + Duration panics when it overflows.
SetExpiry(l, k, d, t) ==
  IF Stored(l, k) /\ t + d > InstantMax THEN Out(l, Panic)
  ELSE SetExpiryAt(l, k, t + d)

\* Faulty variant: at the instant of the deadline there are 0 ms left.
TtlMsLate(l, k, t) ==
  IF ~Stored(l, k) THEN -2
  ELSE IF l.expiry[k] = Never THEN -1
  ELSE IF t > l.expiry[k] THEN -2
  ELSE l.expiry[k] - t

\* LogicalDb::ttl_ms: -2 no key, -1 no deadline.
TtlMs(l, k, t) ==
  IF ~Stored(l, k) THEN -2
  ELSE IF l.expiry[k] = Never THEN -1
  ELSE IF t >= l.expiry[k] THEN -2
  ELSE l.expiry[k] - t

\* LogicalDb::persist: drops the deadline whether or not it has passed.
DropExpiry(l, k) == [l EXCEPT !.expiry = [@ EXCEPT ![k] = Never]]

\* LogicalDb::evict_expired: collects the expired keys, then drops them.
EvictExpired(l, t) ==
  [data   |-> [k \in Keys |-> IF IsExpired(l, k, t) THEN Absent ELSE l.data[k]],
   expiry |-> [k \in Keys |-> IF IsExpired(l, k, t) THEN Never ELSE l.expiry[k]]]
=============================================================================
