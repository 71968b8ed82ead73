------------------------------- MODULE Server -------------------------------
(***************************************************************************)
(* The connections of mini-rudis (src/server) on top of the Keyspace.      *)
(*                                                                         *)
(* Every connection is a task of one thread (spawn_local).  It runs until  *)
(* it awaits its socket, in read_buf or in write_all; between two awaits   *)
(* it parses at most one frame and executes it, and no other task runs.    *)
(* Each action is one such stretch, or the end of an await.                *)
(*                                                                         *)
(* A connection supplies its database index and the arguments to parse and *)
(* execute, which are parameters of this module, and sends the reply; the  *)
(* eviction task and the clock are those of the Keyspace.                  *)
(***************************************************************************)
EXTENDS Keyspace, Resp

CONSTANTS Clients,             \* the connections
          Streams,             \* what each client may send over its life, as lines
          Parses(_),           \* Parses(args): parse succeeds
          Performs(_, _, _)    \* Performs(w, args, t): what execute does to the world w

\* What a client sends is a sequence; the length of an array is a number.
ASSUME StreamsAssumption ==
  \A c \in Clients : \A s \in Streams[c] :
    /\ s \in Seq({s[j] : j \in DOMAIN s})
    /\ \A j \in DOMAIN s : s[j].t = "array" => s[j].n \in Nat

(***************************************************************************)
(* What a request sees and changes: the databases, ScriptEngine::cache and *)
(* the db_index it is handed by reference.                                 *)
(***************************************************************************)
World(d, scripts, i) == [dbs |-> d, cache |-> scripts, index |-> i]
Answer(w, r) == [world |-> w, reply |-> r]

VARIABLES conn,   \* conn[c]: the locals of handle_connection and its socket
          cache   \* ScriptEngine::cache, shared by the connections

svars == <<dbs, now, last, conn, cache>>

(***************************************************************************)
(* stream, taken: what client c sends and how many lines of it read_buf    *)
(* has returned; buf, index: the locals; pc: "reading" and "writing" are   *)
(* the two awaits, "parsing" the inner loop, "closed" the end of the task; *)
(* out: the answer write_all is sending; then: what follows the write;     *)
(* got: the answers the client has received.  base and skip are history:   *)
(* where in stream the bytes start that followed the last buf.clear(), and *)
(* how many answers came before them.                                      *)
(***************************************************************************)
Connected(s) ==
  [stream |-> s, taken |-> 0, buf |-> <<>>, index |-> 0, pc |-> "reading",
   out |-> <<>>, then |-> "parsing", got |-> <<>>, base |-> 0, skip |-> 0]

ServerInit ==
  /\ Init
  /\ cache = {}
  /\ \E s \in [Clients -> UNION {Streams[c] : c \in Clients}] :
       /\ \A c \in Clients : s[c] \in Streams[c]
       /\ conn = [c \in Clients |-> Connected(s[c])]

-----------------------------------------------------------------------------
(* The socket.                                                             *)

\* Faulty variant: the bytes that are still in the buffer are delivered again.
ReadAgain(c) ==
  /\ conn[c].pc = "reading"
  /\ \E n \in (conn[c].taken + 1)..Len(conn[c].stream) :
       conn' = [conn EXCEPT ![c].taken = n, ![c].pc = "parsing",
                  ![c].buf = @ \o SubSeq(conn[c].stream, conn[c].taken + 1 - Len(@), n)]
  /\ UNCHANGED <<vars, cache>>

\* read_buf returns any number of the lines under way, at least one.  The part of a
\* line behind them, should the cut be inside one, is not told from no part: it
\* matters only to a buf.clear() that would leave the next read in mid-line.
Read(c) ==
  /\ conn[c].pc = "reading"
  /\ \E n \in (conn[c].taken + 1)..Len(conn[c].stream) :
       conn' = [conn EXCEPT ![c].taken = n, ![c].pc = "parsing",
                  ![c].buf = @ \o SubSeq(conn[c].stream, conn[c].taken + 1, n)]
  /\ UNCHANGED <<vars, cache>>

\* read_buf returns 0: the client is done sending.  A frame left incomplete in
\* buf is dropped.
EndOfStream(c) ==
  /\ conn[c].pc = "reading"
  /\ conn[c].taken = Len(conn[c].stream)
  /\ conn' = [conn EXCEPT ![c].pc = "closed"]
  /\ UNCHANGED <<vars, cache>>

\* An await fails: handle_connection returns the error, the answer is lost.
ConnectionLost(c) ==
  /\ conn[c].pc \in {"reading", "writing"}
  /\ conn' = [conn EXCEPT ![c].pc = "closed"]
  /\ UNCHANGED <<vars, cache>>

\* Faulty variant: one frame per read, the pipelined ones wait for more data.
WrittenOnce(c) ==
  LET got  == conn[c].got \o conn[c].out
      next == IF conn[c].then = "closed" THEN "closed" ELSE "reading"
  IN  /\ conn[c].pc = "writing"
      /\ conn' = [conn EXCEPT ![c].pc = next, ![c].got = got, ![c].out = <<>>]
      /\ UNCHANGED <<vars, cache>>

\* write_all is done; after a protocol error buf.clear() follows.
Written(c) ==
  LET got  == conn[c].got \o conn[c].out
      done == [conn[c] EXCEPT !.pc = conn[c].then, !.got = got, !.out = <<>>]
  IN  /\ conn[c].pc = "writing"
      /\ conn' = [conn EXCEPT ![c] =
           IF conn[c].then # "clear" THEN done
           ELSE [done EXCEPT !.buf = <<>>, !.pc = "reading",
                             !.base = conn[c].taken, !.skip = Len(got)]]
      /\ UNCHANGED <<vars, cache>>

-----------------------------------------------------------------------------
(* The inner loop.                                                         *)

Parsed(c) == DecodeFrame(conn[c].buf)
HasFrame(c) == conn[c].pc = "parsing" /\ Parsed(c).st = "ok"
TheFrame(c) == FrameOf(conn[c].buf, Parsed(c))
Args(c) == CmdArgs(TheFrame(c))
Rest(c) == After(conn[c].buf, Parsed(c))

\* The request req of connection c is answered with reply, and i is the database
\* selected from then on; a panic takes the task with it.
Respond(c, req, i, reply) ==
  conn' = [conn EXCEPT ![c].buf = Rest(c), ![c].index = i,
             ![c].pc = IF reply = Panic THEN "closed" ELSE "writing",
             ![c].out = <<[req |-> req, db |-> conn[c].index, reply |-> reply]>>,
             ![c].then = "parsing"]

\* parse_frame needs more bytes: back to read_buf.
NeedMore(c) ==
  /\ conn[c].pc = "parsing"
  /\ Parsed(c).st = "incomplete"
  /\ conn' = [conn EXCEPT ![c].pc = "reading"]
  /\ UNCHANGED <<vars, cache>>

\* The error goes out first, then the whole buffer is dropped.
ProtocolError(c) ==
  /\ conn[c].pc = "parsing"
  /\ Parsed(c).st = "error"
  /\ conn' = [conn EXCEPT ![c].pc = "writing", ![c].then = "clear",
                ![c].out = <<[req |-> <<>>, db |-> conn[c].index,
                              reply |-> Err("PROTOCOL")]>>]
  /\ UNCHANGED <<vars, cache>>

\* parse_frame panics: the task is gone, without an answer.
FramePanics(c) ==
  /\ conn[c].pc = "parsing"
  /\ Parsed(c).st = "panic"
  /\ conn' = [conn EXCEPT ![c].pc = "closed"]
  /\ UNCHANGED <<vars, cache>>

\* The frame is not a list of strings; the bytes behind it are kept.
NotARequest(c) ==
  /\ HasFrame(c)
  /\ ~IsRequest(TheFrame(c))
  /\ Respond(c, <<>>, conn[c].index, Err("PROTOCOL"))
  /\ UNCHANGED <<vars, cache>>

\* *0: no answer, and on to the next frame.
EmptyRequest(c) ==
  /\ HasFrame(c)
  /\ IsRequest(TheFrame(c)) /\ Args(c) = <<>>
  /\ conn' = [conn EXCEPT ![c].buf = Rest(c)]
  /\ UNCHANGED <<vars, cache>>

HasRequest(c) == HasFrame(c) /\ IsRequest(TheFrame(c)) /\ Args(c) # <<>>

\* QUIT answers and returns, with whatever was pipelined behind it.
Quit(c) ==
  /\ HasRequest(c) /\ Args(c)[1] = "QUIT" /\ Parses(Args(c))
  /\ conn' = [conn EXCEPT ![c].buf = Rest(c), ![c].pc = "writing", ![c].then = "closed",
                ![c].out = <<[req |-> Args(c), db |-> conn[c].index, reply |-> Ok]>>]
  /\ UNCHANGED <<vars, cache>>

\* parse() fails.
ParseError(c) ==
  /\ HasRequest(c) /\ ~Parses(Args(c))
  /\ Respond(c, Args(c), conn[c].index, Err("PARSE"))
  /\ UNCHANGED <<vars, cache>>

\* parse() succeeds and execute() runs, all of it before the next await: one
\* command or a whole script.  It may select another database for c.  A request on
\* which parse() panics ends the task in the same way, so it is Performs that
\* answers it with Panic.
ExecuteRequest(c) ==
  LET req  == Args(c)
      done == Performs(World(dbs, cache, conn[c].index), req, now)
  IN  /\ HasRequest(c) /\ Parses(req) /\ req[1] # "QUIT"
      /\ Respond(c, req, done.world.index, done.reply)
      /\ dbs' = done.world.dbs
      /\ cache' = done.world.cache
      /\ last' = [op |-> req[1], db |-> conn[c].index, keys |-> {}, arg |-> req,
                  reply |-> done.reply]
      /\ UNCHANGED now

-----------------------------------------------------------------------------
\* The next step of the task of connection c, with data from the client or an
\* answer taken by it.
Task(c) ==
  \/ Read(c) \/ Written(c) \/ NeedMore(c) \/ ProtocolError(c) \/ FramePanics(c)
  \/ NotARequest(c) \/ EmptyRequest(c) \/ Quit(c) \/ ParseError(c) \/ ExecuteRequest(c)

ServerNext ==
  \/ \E c \in Clients : Task(c) \/ EndOfStream(c) \/ ConnectionLost(c)
  \/ EvictCmd /\ UNCHANGED <<conn, cache>>
  \/ Tick /\ UNCHANGED <<conn, cache>>

ServerSpec == ServerInit /\ [][ServerNext]_svars

\* The runtime polls every task that can go on, and clients take their answers.
\* Nothing is assumed of where between two lines what they send is cut, or that
\* they hang up.
ServerFairSpec == ServerSpec /\ \A c \in Clients : WF_svars(Task(c))
=============================================================================
