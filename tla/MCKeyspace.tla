----------------------------- MODULE MCKeyspace -----------------------------
(***************************************************************************)
(* Small instances of the Keyspace for TLC.                                *)
(***************************************************************************)
EXTENDS KeyspaceProps, TLC

CONSTANTS k1, k2, a, nul, inf, nan, absent, never

MCTexts == {a, nul}
SymKeys == Permutations({k1, k2})

\* `last` only reports the step: no guard reads it, so states that differ in it
\* alone have the same future.  The properties about it are about steps.
Seen == <<dbs, now>>

\* Commands.
AllOps == {"DEL", "RENAME", "RENAMENX", "EXPIRE", "PEXPIRE", "EXPIREAT",
           "PEXPIREAT", "PERSIST", "FLUSHDB", "FLUSHALL", "SET", "SETNX",
           "GETSET", "GETDEL", "GETEX", "MSET", "MSETNX", "APPEND", "SETRANGE",
           "INCRBY", "DECRBY", "INCRBYFLOAT", "RPUSH", "RPUSHX", "LPOP"}
ClockOps == AllOps \ ClocklessOps

\* Commands about two keys, and those that make the keys differ.
PairOps     == {"SET", "RPUSH", "PEXPIRE", "PERSIST", "DEL", "RENAME", "RENAMENX",
                "MSET", "MSETNX", "FLUSHDB"}
IncrOps     == {"SET", "INCRBY"}
SetOps      == {"SET"}
ExpireAtOps == {"SET", "EXPIREAT"}
DecrOps     == {"SET", "DECRBY"}
TtlOps      == {"SET", "PEXPIRE", "PERSIST", "APPEND", "GETEX", "RENAME", "FLUSHALL"}

\* Arguments.
Word   == <<a>>
One    == <<1>>
Option(nx, xx, get, keep, expire) ==
  [nx |-> nx, xx |-> xx, get |-> get, keepttl |-> keep, expire |-> expire]
T == TRUE
F == FALSE

Plain     == Option(F, F, F, F, Never)
For(d)    == Option(F, F, F, F, d)
Nx        == Option(T, F, F, F, Never)
XxFor(d)  == Option(F, T, F, F, d)
NxFor(d)  == Option(T, F, F, F, d)
Get_      == Option(F, F, T, F, Never)
NxGet     == Option(T, F, T, F, Never)
KeepTtl   == Option(F, F, F, T, Never)

OneWord   == {Word}
OneNumber == {One}
WordOrOne == {Word, One}

MinusTwo   == -2
UpOrDown   == {1, -2}
AgoOrLater == {-1, 1}
SecondsArgs == {-1, 1, 40}
StampArgs  == {-1, 1, 2}

\* SET, SET PX, SET EXAT with a time that has passed, SET NX, ...; 40 seconds are
\* more than the clock can hold.
ClockSets == {Plain, For(1), For(2), For(0), Nx, XxFor(1), Get_, NxGet, Option(F, T, T, F, 2)}
AllSets   == ClockSets \cup {KeepTtl, NxFor(1), For(80)}
FewSets   == {Plain, For(1)}
KeepSets  == {For(2), KeepTtl}
NxSets    == {NxFor(1)}
=============================================================================
