---------------------------- MODULE KeyspaceProps ----------------------------
(***************************************************************************)
(* What should be true of the Keyspace: the invariants of the two maps,    *)
(* the agreement of the readers, the promise of TtlStore and the places    *)
(* where the code departs from it.                                         *)
(***************************************************************************)
EXTENDS Keyspace

-----------------------------------------------------------------------------
(* Invariants.                                                             *)

\* Every database maps every key to an object or nothing, and to a deadline
\* or nothing; the clock counts up from 0.
TypeOK ==
  /\ dbs \in [Dbs -> LDBs]
  /\ now \in Nat

\* The expiry map never names a key the data map does not hold.  The paths
\* that write through data.entry(..) (APPEND, INCR, RPUSH...) do not touch the
\* expiry map, so an orphaned deadline would silently become the time to live
\* of the next key of that name.
NoOrphanDeadline ==
  \A i \in Dbs, k \in Keys : dbs[i].expiry[k] # Never => Stored(dbs[i], k)

\* The readers compare the clock with the deadline in six places (get, is_expired,
\* ttl_ms, keys, dbsize, randomkey); at every instant, the boundary included,
\* they agree on which keys exist, and TTL and PTTL on how long they will.
ReadersAgree ==
  \A i \in Dbs :
    LET l == dbs[i]
        live == {k \in Keys : Live(l, k, now)}
    IN  /\ KeysMatching(l, Keys, now) = live
        /\ DbSize(l, now) = Cardinality(live)
        /\ RandomKeys(l, now) = live
        /\ Exists(l, Keys, now) = Cardinality(live)
        /\ \A k \in Keys :
             /\ (TypeOf(l, k, now) # "none") = (k \in live)
             /\ (Pttl(l, k, now) # -2) = (k \in live)
             /\ (Ttl(l, k, now) # -2) = (k \in live)
             /\ (Pttl(l, k, now) = -1) = (k \in live /\ l.expiry[k] = Never)
             /\ (MGet(l, {k}, now)[k] = Nil) = (TypeOf(l, k, now) # "string")
             /\ (StrGet(l, k, now) = Nil) = (k \notin live)

-----------------------------------------------------------------------------
(* The promise, and the refinement.                                        *)

\* An object with its deadline is not the missing entry of the promised store.
ASSUME EntryAssumption == Absent \notin [obj: Objects, at: Nat \cup {Never}]

\* What clients can see of the two maps of one database, at time t.
ViewOf(l, t) == [k \in Keys |->
  IF Live(l, k, t) THEN [obj |-> l.data[k], at |-> l.expiry[k]] ELSE Absent]

View == [i \in Dbs |-> ViewOf(dbs[i], now)]

Promise == INSTANCE TtlStore WITH store <- View, clock <- now

\* The whole specification TtlStore, for clients that keep to the commands
\* that consult the clock.
KeepsPromise == Promise!Spec

\* These commands look a key up without the clock: they see the expired key the
\* background task has not evicted yet.
ClocklessOps == {"DEL", "RENAME", "RENAMENX", "EXPIRE", "PEXPIRE", "EXPIREAT",
                 "PEXPIREAT", "PERSIST", "GETDEL", "APPEND", "SETRANGE",
                 "INCRBY", "DECRBY", "INCRBYFLOAT", "RPUSH", "LPOP"}

MeetsDeadKey(req) ==
  /\ req.op \in ClocklessOps
  /\ req.db \in Dbs
  /\ \E k \in req.keys : Dead(dbs[req.db], k, now)

\* Requests whose outcome departs from the promise whatever the clock says;
\* each has a line of its own below, or in the README.
KnownDeparture(req) ==
  \/ req.op = "SET" /\ req.arg.opt.keepttl
  \/ req.op = "SET" /\ req.arg.opt.nx /\ req.arg.opt.expire # Never
  \/ req.op = "GETEX" /\ req.arg[2] # Never /\ AsI64(req.arg[2]) # req.arg[2]
  \/ req.op = "GETDEL" /\ req.reply = Err("WRONGTYPE")
  \/ req.op = "DECRBY" /\ req.arg = IntMin
  \/ req.op = "INCRBYFLOAT" /\ req.arg = Inf
  \/ req.op = "EXPIREAT"
  \/ req.op = "PEXPIREAT" /\ req.arg < 0
  \/ req.reply = Panic

\* Every command, on whatever history, does to what clients can see exactly
\* what TtlStore says and replies what TtlStore says, unless it meets a dead key
\* without looking at the clock or is one of the known departures.
StepsKeepPromise ==
  [][MeetsDeadKey(last') \/ KnownDeparture(last') \/ Promise!Next]_vars

-----------------------------------------------------------------------------
(* Dead keys.                                                              *)

\* Commands that leave a key with an object it did not hold before.
Overwriting == {"SET", "SETNX", "GETSET", "MSET", "MSETNX", "RENAME", "RENAMENX"}

ComesBack(i, k) == Dead(dbs[i], k, now) /\ Live(dbs'[i], k, now')

\* The other commands of the Keyspace that do bring a dead key back: those that give
\* it another deadline, take the deadline away, or take the object out and put it
\* back.  A command that writes through data.entry(..) never does: what it writes to
\* a dead key stays invisible.  (In Containers a STORE does too, and SMOVE of the only
\* member of a set onto itself.)
RevivedOnlyBy ==
  [][\A i \in Dbs, k \in Keys : ComesBack(i, k) =>
       \/ last'.op \in Overwriting
       \/ last'.op \in {"PERSIST", "EXPIRE", "PEXPIRE", "EXPIREAT", "PEXPIREAT"}
       \/ last'.op = "GETDEL" /\ last'.reply = Err("WRONGTYPE")]_vars

\* GETRANGE reads back what SETRANGE has written, where it was written; what was in
\* front of it is there, with NULs up to the offset, and so is what was behind it.
\* The end of the string is -1 to GETRANGE.
WritesReadBack ==
  [][\A i \in Dbs, k \in Keys :
       /\ last'.op = "SETRANGE" /\ last'.db = i /\ k \in last'.keys
       /\ ~IsError(last'.reply) /\ last'.arg[2] # <<>> /\ Live(dbs'[i], k, now')
       => LET off == last'.arg[1]
              size == Len(last'.arg[2])
              was == IF Stored(dbs[i], k) THEN dbs[i].data[k].val ELSE <<>>
              at(j) == IF j <= Len(was) THEN was[j] ELSE Nul
              Read(m, n) == StrGetRange(dbs'[i], k, m, n, now')
          IN  /\ Read(off, off + size - 1) = Bulk(last'.arg[2])
              /\ off > 0 => Read(0, off - 1) = Bulk([j \in 1..off |-> at(j)])
              /\ off + size < Len(was) =>
                   Read(off + size, -1) = Bulk(SubSeq(was, off + size + 1, Len(was)))]_vars

\* docs/design.md on TTLs, again: the value a counter or length command answers
\* with is the value the next reader gets, so the key is alive after it.
AcknowledgedIsVisible ==
  [][last'.op \in {"APPEND", "SETRANGE", "INCRBY", "DECRBY", "RPUSH"}
       /\ last'.reply[1] = "int"
       => \A k \in last'.keys : Live(dbs'[last'.db], k, now')]_vars

\* The eviction task gets rid of every dead key, unless clients get there first.
DeadKeysGo ==
  \A i \in Dbs, k \in Keys : Dead(dbs[i], k, now) ~> ~Dead(dbs[i], k, now)

-----------------------------------------------------------------------------
(* Departures a document or a comment of the repository speaks against.    *)

\* A SET was carried out on the database its connection has.
SetDone == last'.op = "SET" /\ last'.reply = Ok

\* CHANGELOG.md lists KEEPTTL among the options of SET: a SET KEEPTTL that was
\* carried out leaves the deadline of the key as it was.
KeepTtlKeeps ==
  [][\A i \in Dbs, k \in Keys :
       SetDone /\ last'.db = i /\ k \in last'.keys /\ last'.arg.opt.keepttl
         /\ Live(dbs[i], k, now)
       => dbs'[i].expiry[k] = dbs[i].expiry[k]]_vars

\* CHANGELOG.md lists PX and NX among the options of SET: a SET that was carried
\* out with a time to live gives the key that time to live.
SetGetsItsTime ==
  [][\A i \in Dbs, k \in Keys :
       SetDone /\ last'.db = i /\ k \in last'.keys /\ last'.arg.opt.expire # Never
       => dbs'[i].expiry[k] = now + last'.arg.opt.expire]_vars

\* README.md lists EXPIREAT: its argument is a point in time, not a duration.
ExpireAtIsAbsolute ==
  [][\A i \in Dbs, k \in Keys :
       last'.op = "EXPIREAT" /\ last'.reply = Num(1) /\ last'.db = i
         /\ k \in last'.keys /\ last'.arg * Sec > now
       => dbs'[i].expiry[k] = last'.arg * Sec]_vars

\* str_incr has an error for a decrement that would overflow: without one, the
\* counter goes down by what the client asked for.
DecrementIsExact ==
  [][\A i \in Dbs, k \in Keys :
       last'.op = "DECRBY" /\ last'.reply[1] = "int" /\ last'.db = i
         /\ k \in last'.keys /\ Stored(dbs[i], k)
       => last'.reply[2] = dbs[i].data[k].val[1] - last'.arg]_vars
=============================================================================
