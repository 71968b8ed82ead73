--------------------------- MODULE MCContainers ---------------------------
(***************************************************************************)
(* Small instances of the Containers for TLC.                              *)
(***************************************************************************)
EXTENDS ContainersProps, TLC

CONSTANTS k1, k2, a, b, inf, nan, absent, never

MCTexts  == {a, b}
MinusOne == -1
UpOrDown == {-1, 1}
SymKeys  == Permutations({k1, k2})

\* As in MCKeyspace: no guard reads `last`.
Seen == <<dbs, now>>

\* Commands: the strings come from SET, INCRBYFLOAT and GETDEL.
ContainerOps ==
  HashOpNames \cup SetOpNames \cup {"SET", "INCRBYFLOAT", "GETDEL", "PEXPIRE"}

Option  == [nx |-> FALSE, xx |-> FALSE, get |-> FALSE, keepttl |-> FALSE, expire |-> Never]
Plain   == {Option}
OneWord == {<<a>>}

\* A text, a number, both fields at once, one field twice.
SomePairs == {<<<<a, b>>>>, <<<<b, 1>>>>, <<<<a, 1>>, <<b, b>>>>, <<<<a, b>>, <<a, 1>>>>}
=============================================================================
