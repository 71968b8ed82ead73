------------------------------ MODULE MCLists ------------------------------
(***************************************************************************)
(* Small instances of the Lists for TLC.                                   *)
(***************************************************************************)
EXTENDS ListsProps, TLC

CONSTANTS k1, k2, a, b, nul, inf, nan, absent, never

MCTexts  == {a, b, nul}
MinusTwo == -2
SymKeys  == Permutations({k1, k2})

\* `last` only reports the step: no guard reads it, so states that differ in it
\* alone have the same future.  The properties about it are about steps.
Seen == <<dbs, now>>
Singles  == {<<a>>, <<b>>}

Around   == -3..3

\* Commands.
IssuedOps == ListCommands \cup {"SET", "PEXPIRE", "RENAME"}

Option == [nx |-> FALSE, xx |-> FALSE, get |-> FALSE, keepttl |-> FALSE, expire |-> Never]
Plain  == {Option}
=============================================================================
