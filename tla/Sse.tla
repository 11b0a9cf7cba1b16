------------------------------- MODULE Sse -------------------------------
(***************************************************************************)
(* The parser of server-sent events, model/stream.c, as operators on its   *)
(* record: pending bytes, the data of the current event, have_event, done. *)
(*                                                                         *)
(* A byte sequence is a sequence of pieces: a line end, a carriage return, *)
(* the "data: " prefix, the [DONE] mark, the two halves of the payload of  *)
(* event number `of', and the rest (comments, event: lines).  A read may   *)
(* stop between any two pieces; a line is only looked at when complete, so *)
(* a read that stops inside a piece changes nothing.                       *)
(***************************************************************************)
EXTENDS Naturals, Sequences, SequencesExt

CONSTANT MaxLine   \* SSE_MAX_LINE_BYTES, in pieces

Piece(is, k) == [is |-> is, of |-> k]
LineEnd  == Piece("\n", 0)
Return   == Piece("\r", 0)
DataMark == Piece("data:", 0)
DoneMark == Piece("[DONE]", 0)
Comment  == Piece("other", 0)
Left(k)  == Piece("left", k)
Right(k) == Piece("right", k)

NewParser == [pending |-> << >>, data |-> << >>, have |-> FALSE, done |-> FALSE, emitted |-> << >>]

\* What the callback receives: a payload, or the end of the stream.
Payload(data) == [done |-> FALSE, data |-> data]
StreamDone    == [done |-> TRUE, data |-> << >>]

\* sse_flush_event
FlushEvent(p) ==
  IF p.have
    THEN [p EXCEPT !.emitted = Append(@, Payload(p.data)), !.data = << >>, !.have = FALSE]
    ELSE p

\* mutation: the carriage return of a line end stays in the line
KeepReturn(line) == line

StripReturn(line) == IF line # << >> /\ Last(line) = Return THEN Front(line) ELSE line

\* sse_process_line
ProcessLine(p, raw) ==
  LET line == StripReturn(raw)
  IN IF line = << >> THEN FlushEvent(p)
     ELSE IF Head(line) # DataMark THEN p
     ELSE IF ~p.have /\ Tail(line) = << DoneMark >>
            THEN [p EXCEPT !.done = TRUE, !.emitted = Append(@, StreamDone)]
     ELSE [p EXCEPT !.data = @ \o Tail(line), !.have = TRUE]

\* One byte of sse_parser_feed: a line end hands the pending line on, and what
\* follows [DONE] is discarded.
FeedByte(p, byte) ==
  IF p.done THEN p
  ELSE IF byte = LineEnd THEN [ProcessLine(p, p.pending) EXCEPT !.pending = << >>]
  ELSE [p EXCEPT !.pending = Append(@, byte)]

\* sse_parser_feed: the parser after it.
Feed(p, bytes) == FoldLeft(FeedByte, p, bytes)

\* sse_parser_feed returns an error: a line grows without an end.
TooLong(p) == ~p.done /\ Len(p.pending) > MaxLine

\* sse_parser_finish
Finish(p) ==
  LET last == IF p.pending = << >> THEN p ELSE ProcessLine(p, p.pending)
  IN IF p.done THEN p ELSE [FlushEvent(last) EXCEPT !.pending = << >>, !.done = TRUE]
==========================================================================
