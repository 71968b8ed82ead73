# mini-rudis in TLA+

A specification of [mini-rudis](../src), a Redis-compatible server in Rust, with
TLC models and TLAPS proofs. It is read beside the code: every definition names
its lines in `PROJECT.json` ("map").

## 1. The system

One process, one thread. `server::run` starts a background task that evicts
expired keys every `--eviction-interval-ms`, accepts connections and gives each
a task of its own (`spawn_local`). All tasks share one `Rc<RefCell<Database>>`;
no command awaits while it holds it. So a command is atomic, and what interleaves
is commands of different connections, evictions, and the passing of time.

| Component | State | Operations | Interacts with |
|---|---|---|---|
| Logical database (`db/mod.rs`, `LogicalDb`) | `data`: key → object, `expiry`: key → instant | `get` (clock, removes nothing), `get_mut` (clock, removes), `insert`, `remove`, `set_expiry(_at)`, `ttl_ms`, `persist`, `evict_expired` | only through `Database` |
| Generic commands and TTLs | – | DEL EXISTS TYPE RENAME(NX) (P)EXPIRE(AT) (P)TTL PERSIST KEYS RANDOMKEY DBSIZE FLUSHDB FLUSHALL | logical databases |
| String commands | – | SET with options, GETEX, MSET(NX), INCR family, APPEND, SETRANGE … | logical databases |
| List commands | – | pushes, pops, LRANGE LINDEX LSET LINSERT LREM LTRIM LMOVE | logical databases |
| Hash commands | – | HSET HMSET HSETNX HGET HMGET HGETALL HDEL HEXISTS HLEN HKEYS HVALS HINCRBY(FLOAT) | logical databases |
| Set commands | – | SADD SREM SPOP SMOVE SRANDMEMBER, readers, SUNION SINTER SDIFF and their STOREs | logical databases |
| Sorted sets (`ZSetInner`) | `scores`: member → score, and a skip list | ZADD ZINCRBY ZREM, pops, ranks, ranges by rank and score and their removals | logical databases, skip list |
| Skip list (`db/skiplist.rs`) | an arena of nodes with towers of links, `level`, `length` | insert, remove, rank_of, iterators | `ZSetInner` |
| Protocol (`proto/mod.rs`) | the connection's buffer | `parse_frame`, `frame_to_cmd_args`, `encode` | handler |
| Connections (`server/handler.rs`) | `buf`, `db_index`, the socket | read, parse, execute, write | protocol, commands |
| Commands (`cmd/`) | – | `parse`, `execute` | database, script engine |
| Script engine (`script/mod.rs`) | cache sha → source | EVAL EVALSHA SCRIPT LOAD/FLUSH, `redis.call` | runs commands on the shared database |
| Persistence (`persistence/`) | – | stubs, called by nothing | – |
| `main.rs`, `lib.rs`, `error.rs` | – | command line, logging, error texts | – |

What is hard here, and what makes each part correct:

* *Logical database.* Two maps that 60 methods update by hand; a deadline is
  compared with the clock in six places; some methods look keys up with the clock
  and some without, so an expired key that is not evicted yet is met in two ways.
  Correct: no deadline without an object; all readers agree at every instant; an
  expired key is gone for everybody; the eviction task gets rid of every one.
* *Commands that do two things* (RENAME, SET with options, GETEX, GETDEL, MSETNX,
  LMOVE): what is left behind when the second thing fails.
* *Numbers*: `i64` at its ends, negative indices, `as u64`, `as_secs`.
* *Connections*: TCP cuts the bytes anywhere, a protocol error clears the buffer,
  QUIT and panics end a task with requests pipelined behind them. Correct: one
  answer per request, in order; the selected database belongs to the connection;
  every request is answered while the connection lives.
* *Hashes and sets*: who removes an emptied key; SMOVE and the STORE commands, which
  read some keys and write others, when two of them are one, dead or of another
  type. Correct: members are neither lost nor duplicated, a refused command has done
  nothing, deadlines stay with their keys.
* *Sorted sets*: two indices of the same members, updated one after the other, and a
  skip list whose mistakes show much later. Correct: both name the same pairs, every
  level links what reaches it, every rank and range is that of the one set of pairs.
* *Scripts*: several commands in one step, nothing rolled back, errors that raise
  in `redis.call` and do not in `redis.pcall`, a cache all connections share.
  Correct: a script is its calls, up to the one that failed; its SELECTs stay in it.

`PROJECT.json` lists the hazards with their lines and the properties about each.

## 2. The modules

Operators, one per method of the code, with no state of their own:

```
Objects ── LogicalDb ── KeyOps ── StringOps ── ListOps ─┬─ HashOps
   │                                                    ├─ SetOps
   └─ SkipList ─────────────────────────────────────────┴─ ZSetOps
```

State machines, their properties and their instances (`A ── B`: B extends A):

```
ListOps ── Keyspace ─┬─ KeyspaceProps ── MCKeyspace         INSTANCE TtlStore
                     ├─ Lists ── ListsProps ── MCLists
  HashOps, SetOps ───┼─ Containers ── ContainersProps ── MCContainers
  ZSetOps ───────────┼─ ZSets ── ZSetsProps ── MCZSets      INSTANCE Ranking
  Resp ──────────────┴─ Server ─┬─ ServerProps ─┐
                                └─ Scripts ─────┴─ ScriptsProps ── MCServer
```

Proofs (`A ── B`: B extends A; in brackets the module with the properties):

```
KeyspaceProofs ─┬─ PromiseProofs [KeyspaceProps]
                └─ EffectProofs ─┬─ ListsProofs [ListsProps]
                                 ├─ ContainersProofs [ContainersProps]
SkipListProofs [SkipList] ───────┴─ ZSetsProofs [ZSetsProps]
ServerProofs [ServerProps]
```

* **Objects**: objects and replies. A string is a sequence of chunks, a chunk a
  decimal numeral (its number) or a text no number parser accepts. `Panic` is the
  reply of a command that panicked: the client sees the socket close.
* **LogicalDb**: `struct LogicalDb` as a record of two total functions; a key a
  `HashMap` does not hold is mapped to `Absent` or `Never`.
* **KeyOps, StringOps, ListOps, HashOps, SetOps, ZSetOps**: one operator per method
  of `Database` and for `exec_set` and `exec_getex`. An operator takes the logical database, the
  arguments and, exactly where the code reads `Instant::now()`, the time; it
  returns what the method leaves behind and its reply.
* **Keyspace**: the state machine. `dbs` is `Database::dbs`, `now` the clock,
  `last` the latest request and its reply, which the action properties are about.
  An action per command that writes, `EvictCmd`, and `Tick`. `Issued` is the set
  of commands the clients of an instance use.
* **TtlStore**: the abstract specification. One map from keys to an object and a
  deadline, in which a key vanishes at its deadline; each command described by
  what Redis clients expect of it, except that RENAME drops the deadline of the key, as
  the code does, where Redis carries it over. Nothing in it knows of two maps, lazy
  expiry or eviction.
* **KeyspaceProps**: the properties. `View` maps the two maps and the clock to the
  map of `TtlStore`: the keys that are stored and not past their deadline.
* **Lists**: the Keyspace with all of the list commands; **ListsProps** their
  properties.
* **Containers**: the Keyspace with the hash and set commands; **ContainersProps**
  their properties. The members SPOP and SRANDMEMBER draw are any members.
* **SkipList**: `skiplist.rs`. A node is the `<<score, member>>` pair it holds;
  `forward[x][i]` is the next node on level i, `NilNode` at its end, and `NoLink` where
  the tower of `x` does not reach. `Update` is the array of that name, level by level
  from the top.
* **ZSets**: the Keyspace with the sorted set commands. A sorted set is the record of
  its two indices; the height the code draws for a new node is any height.
* **Ranking**: the abstract specification of sorted sets: a set of pairs and the order
  between them, without levels, heights or a second index, and each command
  described by what it does to the pairs.
* **ZSetsProps**: the properties; `ZView` maps the two indices to the pairs of
  `Ranking`.
* **Resp**: `decode_frame` over lines (up to a CRLF), and `frame_to_cmd_args`.
* **Server**: connections that execute requests. `conn[c]` holds the locals of
  `handle_connection` and the socket, `cache` is the script cache; `pc` is at one of
  the two awaits (`reading`, `writing`), in the inner loop (`parsing`) or `closed`. A
  step between two awaits touches only the connection itself and, when it executes a
  request, the databases and the cache, so cutting it at `parsing` adds no behaviour
  that matters. `stream` is all the client will send, and `read_buf` returns any
  number of the lines that are left, so the bytes are cut between any two lines and
  arrive at any pace. A cut inside a line is to `parse_frame`, which waits for the CRLF
  or the rest of the bulk string, the same as one before that line; what is not in the model is that
  `buf.clear()` after a protocol error may drop half a line, so that the next read
  starts in the middle of one. `base` and `skip` are history variables. What the requests
  do is a parameter: `Parses(args)` says whether `cmd::parse` succeeds, and
  `Performs(w, args, t)` what `cmd::execute` does to a world `w` of databases, script
  cache and `db_index`, and what it answers.
* **ServerProps**: what holds whatever those two are.
* **Scripts**: those two for fifteen commands, as `Accepted` and `Execute`: `cmd::parse`,
  `cmd::execute` and the script engine. A panic of `cmd::parse` (SET with EX and no time
  behind it) is one of `Execute`, as no one can tell the two apart. A Lua program is the sequence of `redis.call` and
  `redis.pcall` it makes; it stands for its SHA1 as well. The configurations of the
  server put them in for the parameters, through `MCParses` and `MCPerforms` of MCServer,
  which evaluate the arguments once and apply `Accepted` and `Execute` to the values.
* **ScriptsProps**: the selected database, the script cache, and what a script amounts
  to.
* **KeyspaceProofs** and the other modules of proofs: section 4.
* Definitions introduced by "Faulty variant" are no part of the specification:
  they are the mistakes each property has been tried against.

Abstractions to know about: a command reads the clock once (the code may read it
twice a few microseconds apart); the wall clock and the monotonic clock advance
together; INCRBYFLOAT adds integers; KEYS takes a set of names for its pattern;
SETEX and PSETEX are SET with a time (the same `str_set` call); DECRBY of the
smallest integer either wraps or panics, as the build has overflow checks or not;
the Server executes PING, ECHO, SELECT, GET, DBSIZE, SET, EXPIRE, DEL, RPUSH, FLUSHDB,
FLUSHALL, QUIT, EVAL, EVALSHA and SCRIPT; their arity and numerals are parsed, and at most
one option of SET.
Scores are small integers whose two ends are the infinities, and NaN; the arena of the
skip list is left out, so that a removed node's slot, which the code never uses
again, is simply gone. Whatever a `HashMap` or `HashSet` lists comes in no order. A
bulk string is as long as its header says, and ends with a CRLF.

Resources: `Vec::with_capacity` panics for a count it cannot hold, and that is modelled:
`ReserveMax` for the counts of LPOP, RPOP, SPOP and SRANDMEMBER, `ArrayMax` for the
header of a RESP array. A smaller request that memory cannot serve aborts the process,
and so does an array nested deeper than the stack: neither is in the model.

Bounds in the guards: no string or list grows beyond `MaxLen`, the clock stops at
`MaxTime`, numerals stay in `IntMin..IntMax` where the
code computes with floats, finite scores stay finite.

## 3. What the runs show

Runs that pass:

| Run | Bounds | Shows |
|---|---|---|
| `Keyspace` | 2 symmetric keys, 1 of 2 selectable databases, all 25 commands and option sets, times 0–2, strings and lists up to 2 | `TypeOK`; `NoOrphanDeadline`: the expiry map names only stored keys; `ReadersAgree`: ten readers agree, at the deadline too; `StepsKeepPromise`: every command does what `TtlStore` says unless it meets a dead key without looking at the clock or is one of the named departures; `RevivedOnlyBy`: which commands of the Keyspace bring a dead key back, and that no other of them does; `WritesReadBack`: GETRANGE finds what SETRANGE wrote, where it was written, and all else unharmed |
| `KeyspaceRefines` | 1 key, 2 databases, the commands that consult the clock | `KeepsPromise`: the Keyspace implements `TtlStore`; `DeadKeysGo`: under a fair eviction task no key stays dead |
| `ListsTwoKeys` | 2 symmetric keys, lists up to 3, indices −3…3, strings, dead keys, RENAME | `RangeIsExact`: LRANGE against a set-based definition; `EmptiedOnlyByLRem`: an emptied list goes, but for LREM; `ListsKeepDeadlines`; `MoveConserves`: LMOVE loses and duplicates nothing and touches no other key |
| `Containers` | 2 symmetric keys, 2 fields, 2 members, strings, dead keys, times 0–2 | `NoOrphanDeadline` again; `HashReadersAgree`, `SetReadersAgree`; `ErrorsLeaveNoTrace`: who is refused has changed nothing; `HollowOnlyByStore`: an emptied key goes, but for the STOREs, and RENAME moves an empty one; `ContainersKeepDeadlines`; `SMoveConserves`; `NoMemberFromTheDead` |
| `ZSets` | 1 key, 3 members, 4 scores with both infinities, 2 levels, alive with and without a deadline, dead | `IndicesAgree`: map and skip list, level by level; `RanksAreExact`: every reader against one set of ranked pairs; `KeepsRanking`: every writer does what `Ranking` says; `EmptyOnlyFromRefusal`; `ZSetsKeepDeadlines` |
| `ServerSharing` | 2 connections with 3 and 5 streams, 7 scripts, 2 databases, times 0–1 | `ServerTypeOK`: one answer under way at most, and the buffer is the end of what was received; `SelectionIsOwn`: a command runs on the database its own connection selected, which SELECT accepts; `ScriptsStayLoaded`: a loaded script can be run until somebody flushes the cache; `ScriptIsPipeline`: a script does what its calls would do one after the other, up to the first that ends it: one that parse refuses, in `pcall` too; one that is answered with an error, in `call` only; one that panics |
| `ServerProtocol` | 1 connection with 8 streams of malformed, odd and overlong frames and of panics, cut between any two lines, beside one that panics as well | `AnswersInOrder`: the requests answered are those the stream holds when it arrives in one piece, also after a protocol error, and none behind a QUIT that parses; `EveryRequestAnswered` |

Why the bounds are enough. The interesting states of a key are absent, alive
without a deadline, alive with one, and dead, with an object of the right type or
another: a clock of two or three instants reaches all of them and the boundary
between them, and so does PEXPIRE 0 with a clock that stands still (`ZSets`). The
commands that take more than two keys (MSET, DEL, SUNION and the like) treat all of
theirs alike, but for a destination and a first operand. Numerals run from −2 to 1, so that overflow on both sides
and a lopsided range (−`IntMin` is no number) happen; `Sec` = 2 makes rounding to
seconds lose something; `InstantMax` = 60 and arguments of 40 seconds make
`Instant + Duration` overflow; with `WrapU64` = 50 the same 40 seconds are more milliseconds than
GETEX can cast, and a negative time comes back from `u64` as it was. The counts of the
pops go up to `MaxLen`, and one exceeds `ReserveMax`. Three members give a node on both sides of any other
and, with two levels, every shape of a search that goes down from the top; a third
level repeats what the second does to the first. RENAME from one sorted set to
another key is in no run, as two keys are too many for `ZSets`: that case of `KeepsRanking`
and `EmptyOnlyFromRefusal` rests on the proofs. The server's streams are short, but
they are cut between any two lines, and the scripts fail in `call` and in `pcall`, at a parse
error and at an execution error, panic, nest, select and flush.

`VIEW Seen`, where a run has it, leaves `last` out of the state: it only reports the
latest step, no guard reads it, so states that differ in it alone have the same
future, and the properties about it are about steps, which TLC evaluates one by one.
No run with a liveness property uses it.

Runs that end in a counterexample, each against a sentence of the repository
(quoted in `PROJECT.json`, "findings"):

| Run | What happens |
|---|---|
| `LazyExpiryLosesWrite` | INCRBY on a key that has expired and is not evicted yet answers 2 and writes it where no reader sees it |
| `SetKeepTtl` | KEEPTTL is parsed and ignored |
| `SetNxPx` | SET NX PX 1 gives the key 0 ms |
| `ExpireAt` | EXPIREAT takes its timestamp for a duration |
| `DecrByMin` | DECRBY of the smallest integer changes the counter by something else |

Other departures the runs allow for, each in its place:

* `MeetsDeadKey` and `RevivedOnlyBy`: PERSIST, (P)EXPIRE and (P)EXPIREAT bring a key
  back that has expired and is not evicted yet, GETDEL of another type too; RENAME
  and LMOVE take an object, or an element, out of a dead key into a living one. (In
  `Containers` the STOREs bring a dead destination back, and SMOVE of the only member of
  a dead set onto itself.)
* `KnownDeparture`: GETDEL of another type puts the object back without its
  deadline; INCRBYFLOAT by infinity creates the key; PEXPIREAT with a negative time
  sets a deadline in the far future; a SET with a time the clock cannot hold panics
  and leaves the value without a deadline; GETEX EX with more milliseconds than an
  `i64` holds wraps, and may delete the key.
* `RangeIsExact` leaves out a stop before the head (the first element is answered),
  `MoveConserves` LMOVE onto a key that is no list (the element is lost).
* `TracesKnown`: SMOVE onto a key of another type loses the member, HINCRBYFLOAT nan
  and INCRBYFLOAT inf leave a "0".
* A STORE with an empty result writes an empty set (`HollowOnlyByStore`); SMOVE of the
  only member of a set onto itself makes the key anew, without its deadline
  (`ContainersKeepDeadlines`); SMOVE takes members out of a dead set
  (`NoMemberFromTheDead`).
* `ZMeetsDeadKey`: the writers of sorted sets do not look at the clock, nor do RENAME,
  PERSIST, the EXPIRE family and GETDEL (`Revivers`). `ZDeparture`: CH
  counts a member whose score stays what it was; ZADD keeps the pairs in front of a
  NaN; ZREMRANGEBYRANK moves a stop in front of the lowest member to the lowest.
  `EmptyOnlyFromRefusal`: ZADD XX, ZADD nan and ZINCRBY nan leave an empty sorted set,
  and RENAME moves one.
  `RanksAreExact` leaves out ZRANGE with a stop in front of the lowest member, and
  ZREVRANGE, which counts its ranks from the lowest member, but for the whole range.
* SELECT accepts 0 to 15 whatever `--databases` says; the commands that follow
  answer `DBINDEX` and change nothing (`Keyspace` selects such a database).

**Fairness.** `FairSpec` assumes the eviction task keeps running: the interval
timer fires for ever, and no command blocks the thread. Nothing is assumed of
clients. `ServerFairSpec` assumes that a task that can go on is polled, which
tokio's queue guarantees, and that clients take their answers (a client that does
not read stalls its own connection only). It does not assume that clients send
anything, hang up, or keep the connection.

Deadlock is checked everywhere; the eviction task can always run.

## 4. What is proved

For every set of keys, every number of databases, every argument and every bound, of
every behaviour of the specification named:

| Module | Theorem | States |
|---|---|---|
| `KeyspaceProofs` | `TypeInvariant` | `Spec => []TypeOK` |
| | `NoDeadlineIsOrphaned` | `Spec => []NoOrphanDeadline` |
| | `ReadersNeverDisagree` | `Spec => []ReadersAgree` |
| | `SetRangeReadsBack` | `Spec => WritesReadBack` |
| `PromiseProofs` | `EveryStepKeepsPromise` | `Spec => StepsKeepPromise` |
| | `KeyspaceRefinesTtlStore` | `WellBehaved` implies `Spec => KeepsPromise`: the refinement |
| `EffectProofs` | `NothingElseRevives` | `Spec => RevivedOnlyBy` |
| `ListsProofs` | `ListsLeaveNoOrphan` | `ListsSpec => []NoOrphanDeadline` |
| | `RangesAreExact` | `ListsSpec => []RangeIsExact` |
| | `LMoveIsAMove` | `ListsSpec => MoveConserves` |
| | `EmptyListsComeFromLRem` | `ListsSpec => EmptiedOnlyByLRem` |
| | `ListsLeaveDeadlines` | `ListsSpec => ListsKeepDeadlines` |
| `ContainersProofs` | `ContainersLeaveNoOrphan` | `ContainersSpec => []NoOrphanDeadline` |
| | `HashReadersNeverDisagree` | `ContainersSpec => []HashReadersAgree` |
| | `SetReadersNeverDisagree` | `ContainersSpec => []SetReadersAgree` |
| | `RefusalsLeaveNoTrace` | `ContainersSpec => ErrorsLeaveNoTrace` |
| | `HollowsComeFromStores` | `ContainersSpec => HollowOnlyByStore` |
| | `ContainersLeaveDeadlines` | `ContainersSpec => ContainersKeepDeadlines` |
| | `SMoveIsAMove` | `ContainersSpec => SMoveConserves` |
| | `NothingRisesFromTheDead` | `ContainersSpec => NoMemberFromTheDead` |
| `SkipListProofs` | `SkipListHoldsItsPairs` | insert and remove, at any height, keep the list in order on every level; search, iteration and rank are exact |
| `ZSetsProofs` | `ZSetsLeaveNoOrphan` | `ZSetsSpec => []NoOrphanDeadline` |
| | `IndicesAlwaysAgree` | `ZSetsSpec => []IndicesAgree` |
| | `ReadersAreExact` | `ZSetsSpec => []RanksAreExact` |
| | `ZSetsKeepRanking` | `ZSetsSpec => KeepsRanking` |
| | `EmptyZSetsComeFromRefusals` | `ZSetsSpec => EmptyOnlyFromRefusal` |
| | `ZSetsLeaveDeadlines` | `ZSetsSpec => ZSetsKeepDeadlines` |
| `ServerProofs` | `TasksAreWellFormed` | `ServerSpec => []ServerTypeOK` |
| | `ClientsAreAnsweredInOrder` | `ServerSpec => []AnswersInOrder` |
| | `FramesAreDecided` | what `decode_frame` decides of a frame does not depend on what follows it |

**The inductive invariant** of all that is about databases is `IInv`: the clock is a
natural number and every database is `WellFormed`, which is to say typed and without
orphaned deadlines. The two parts need each other: a method that tests one map and
changes the other keeps neither without knowing that they are in step. `KeyspaceProofs`
has a lemma per method, "a well-formed database stays well formed"; `GenericStep`,
`StringStep` and `ListStep` cite one per command, and `InvStep` combines them with
`EvictCmd` and `Tick`. `ListsInvStep` and `ContainersInvStep` add the commands of those
two modules. Every other theorem about databases is proved from `IInv` in the state
before the step:

* *Readers* (`ReadersAgree`, `HashReadersAgree`, `SetReadersAgree`): what each of them
  means in a well-formed database, one lemma each. That HVALS and HGETALL count the
  same takes a bijection between fields and pairs, and so that a hash is finite, which
  is part of its type (`HashMaps`, `HashSets`).
* *The promise.* What each primitive of `LogicalDb` does to what clients see (`ViewOf`);
  then, for each command, that its effect on the view and its answer are those
  `TtlStore` describes, or that the request is one of `MeetsDeadKey` and
  `KnownDeparture`. For the refinement the clock's bound joins the invariant
  (`TimedInv`), and `WellBehaved` excludes those requests beforehand: no command that
  does not consult the clock, no KEEPTTL, no NX with a time, no time the clock
  or an `i64` of milliseconds cannot hold. The `KeyspaceRefines` run satisfies it.
* *Deadlines* (`RevivedOnlyBy`, `ListsKeepDeadlines`, `ContainersKeepDeadlines`): `Keeps`,
  "every key that is still stored has the deadline it had", is proved method by method;
  a key that was dead then stays dead, but for the commands that are named.
* *What writers leave behind* (`EmptiedOnlyByLRem`, `HollowOnlyByStore`,
  `ErrorsLeaveNoTrace`): a method's outcome is `Sound` (well formed, deadlines kept, no
  new empty list, hash or set) and `Tidy` (moreover, an error changed nothing).
* *Conservation.* LMOVE: the occurrences of every value in a sequence that loses or
  gains an element at an end, counted by bijections. SMOVE: the members of every key
  after the two steps of the move, for one key or two, made or removed on the way.
* *Ranges.* `RangeIsExact` is about positions between two bounds, LRANGE about a
  subsequence: both are intervals, and the element of rank n among the positions of an
  interval is the one n places behind its start.

**Sorted sets.** One level of a skip list is a chain: `NextIn(S, y, f)` says that f is the
first node of S behind y, or that there is none. `SkipOK(sl, P)` says that on every level
the links chain the nodes that reach it, that each level holds part of the one below, the
lowest all of P, that no node is higher than `level`, that a top level above the first is
not empty, and that `length` counts P. It is inductive where "iteration lists P in
order" is not:
a search comes down from the top, so inserting needs every level to be right before it
can find the place on the lowest. `Walk` and `Update` are recursive functions on nodes and
levels; that they exist, and stop at the last node in front of the one looked for
(`Place`), is by induction from the end of the level and from the top level down.
(Inductions are over sets, `Climb` over numbers and `Backwards` over nodes: a finite set
of exceptions would have a last one.) `LinkIn` and
`LinkOut` say what one link does to one chain, `InsertOK` and `RemoveOK` put the levels
together. `Line(R, S)` is the one sequence that lists a finite S in the order R; `Iter`
is `Line`, upwards, and so are `Ascending` and `Descending` of `Ranking`, each with its
own order: from there on a range is a stretch of one sequence.

`ZInv` adds to `IInv` that every sorted set is `ZOK`: its skip list is `SkipOK` for the
pairs of its `scores`. `ZSetsUntouched` says that the commands of the Keyspace take a
sorted set over unchanged, from its own key or by RENAME, or make none. `IndicesAgree` is
then what `ZOK` means, and `RanksAreExact` one lemma per reader. For `KeepsRanking` each
writer is done pair by pair: what `AddMember` and `RemoveMember` do to the pairs, ZADD by
induction on its list, the removals and pops by what they take out of `Line`, which is
`Ascending`, from below or above. The commands of the Keyspace belong there too: most
leave a key as it is or overwrite it with a string (`SparesPrimitives`, `Overwrites`); what
may show pairs that did not show before is about a key of a `Reviver` (`OnlyReviversRevive`).
`IndicesAgree` is `ZOK` written out, so the run `ZSets` has checked the invariant with TLC.

**The server** is proved for every `Parses`, every `Performs` and all finite streams, so
for every set of commands that answer. `DecodeFrame` and `Requests` are recursive
functions on the positions of lines; each value depends on values further back, so the
functions exist, and statements about them hold, by well-founded induction downwards
(`Downwards`). That gives `FramesAreDecided`: what is decided of a prefix is decided of
the whole. The inductive invariant is `ServerInv`: `ConnOK`, the types, and that the
buffer is the stretch of the stream in front of what is still to be read; and `InOrder`:
the answers given are the first of those the stream asks for, and the ones owed are
what `Requests` lists from the next line to be parsed on. The second part is what
makes the induction go through: it says where in the stream, not only how far in the
list of answers, the connection is. `AnswersInOrder` follows at once. TLC has checked it
as an invariant of `ServerProtocol` before.

**Assumptions.** The constants have the types the code gives them. Beyond that:
`IntAssumption` (the integers are those of two's complement: every number but the
smallest has its negation), `AbsentAssumption` and `EntryAssumption` (the mark of a
missing entry is no object, no chunk, no score and no entry), `BeforeAssumption` (byte
strings are totally ordered), `ScoreAssumption` (infinity is not 0, and there is a level), `OptionsAssumption` (`parse_set`
refuses NX with XX), `FieldsAssumption` (a HSET without a pair is refused when it is
parsed), `StreamsAssumption` (a client sends finitely many lines, and an array header
has a natural number: `*-1` is a null, any other negative length malformed),
`ReserveAssumption` (a `Vec` has room for two elements) and `WrapAssumption` (2^64 is
not 0). TLC evaluates all of them
in every run.

**Only model-checked**, and why:

* `DeadKeysGo` and `EveryRequestAnswered`: liveness under fairness is beyond the prover.
* `SelectionIsOwn`, `ScriptsStayLoaded`, `ScriptIsPipeline`: a script that runs scripts
  is a RECURSIVE operator, about which the prover proves nothing.

## 5. Not modelled, and the plan

Done: the logical databases, all commands on the five types, the skip list, the
connections, scripts. Next, in this order:

1. The parsing of score bounds and LIMIT (`ZRANGEBYSCORE k 0 1 LIMIT` indexes behind its
   arguments and panics, as does `GETEX k EX`; of such panics only SET's is modelled),
   and the arity of the commands the Server does not execute.
2. Accepting connections, and the encoding of replies.

Left out for good: persistence (stubs nothing calls; nothing survives a restart, so
a crash is the initial state again), the command line (with it
`--eviction-interval-ms 0`, with which the eviction task panics as it starts), logging,
the wording of errors and INFO, glob matching, the arena of the skip list, and of Lua
all but the calls a script makes.
