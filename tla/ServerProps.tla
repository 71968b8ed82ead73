----------------------------- MODULE ServerProps -----------------------------
(***************************************************************************)
(* What a client may rely on, between whichever lines the network cuts the *)
(* stream and whatever the other clients do.                               *)
(***************************************************************************)
EXTENDS Server

\* Every task is at one of its awaits or in the inner loop, with at most one
\* answer under way; what is in its buffer is what it has received last, and all of
\* it since the last buf.clear().
ServerTypeOK ==
  \A c \in Clients :
    /\ conn[c].pc \in {"reading", "parsing", "writing", "closed"}
    /\ conn[c].then \in {"parsing", "clear", "closed"}
    /\ conn[c].pc = "writing" => Len(conn[c].out) = 1
    /\ conn[c].pc \in {"reading", "parsing"} => conn[c].out = <<>>
    /\ 0 <= conn[c].skip /\ conn[c].skip <= Len(conn[c].got)
    /\ 0 <= conn[c].base /\ conn[c].taken <= Len(conn[c].stream)
    /\ LET start == conn[c].taken - Len(conn[c].buf)
       IN  /\ conn[c].base <= start
           /\ conn[c].buf = SubSeq(conn[c].stream, start + 1, conn[c].taken)

\* The requests the first frame of s makes, none or one, which is <<>> for one that
\* is no list of strings, and whether it is the last to be read: there is none, or
\* it is a QUIT that parses.
FirstAsks(s) ==
  LET d == DecodeFrame(s)
      f == FrameOf(s, d)
  IN  IF d.st # "ok" THEN [asks |-> <<>>, ends |-> TRUE]
      ELSE IF ~IsRequest(f) THEN [asks |-> <<(<<>>)>>, ends |-> FALSE]
      ELSE IF CmdArgs(f) = <<>> THEN [asks |-> <<>>, ends |-> FALSE]
      ELSE [asks |-> <<CmdArgs(f)>>, ends |-> CmdArgs(f)[1] = "QUIT" /\ Parses(CmdArgs(f))]

\* The requests in s when it arrives in one piece.
Requests(s) ==
  LET from[p \in 1..(Len(s) + 1)] ==
        LET arrived == SubSeq(s, p, Len(s))
            first == FirstAsks(arrived)
        IN  IF first.ends THEN first.asks
            ELSE first.asks \o from[p + DecodeFrame(arrived).pos]
  IN  from[1]

\* The requests connection c has been answered since the last buf.clear(), and
\* those it should be.
Answered(c) ==
  [j \in 1..(Len(conn[c].got) - conn[c].skip) |-> conn[c].got[conn[c].skip + j].req]
Asked(c) ==
  Requests(SubSeq(conn[c].stream, conn[c].base + 1, Len(conn[c].stream)))

\* parse_frame consumes a frame or nothing: the answers are those to the requests
\* the client sent, one each and in order, as if its bytes had come in one piece.
\* A protocol error costs the bytes received so far; those that follow it are
\* read afresh, even where they begin in the middle of a frame.
AnswersInOrder ==
  \A c \in Clients :
    LET asked == Asked(c)
    IN  /\ Len(Answered(c)) <= Len(asked)
        /\ Answered(c) = SubSeq(asked, 1, Len(Answered(c)))

-----------------------------------------------------------------------------
\* Every request is answered in the end, whatever is pipelined with it, unless
\* the connection ends first.
EveryRequestAnswered ==
  \A c \in Clients :
    <>[](conn[c].pc = "closed" \/ Len(Answered(c)) = Len(Asked(c)))

=============================================================================
