---------------------------- MODULE Anthropic ----------------------------
(* The Messages accumulator: model/anthropic.c.  Tool calls are numbered  *)
(* by a counter of their own; at most one content block is open.          *)
EXTENDS Accum

\* parse_stop_reason
StopReason(r) ==
  CASE r \in {"end_turn", "stop_sequence"} -> "complete"
    [] r = "tool_use"   -> "tool_calls"
    [] r = "max_tokens" -> "max_tokens"
    [] r = "refusal"    -> "content_filter"
    [] OTHER            -> "incomplete"

CurrentTool(a) == a.counter - 1

\* content_block_start: START comes whether or not a state could be made (its
\* seen_start is never read)
BlockStart(a, e) ==
  IF e.kind # "tool_block" THEN [a EXCEPT !.inTool = FALSE]
  ELSE LET b == EnsureCall(a, a.counter)
       IN [Emit(b, ToolStart(a.counter, e.id)) EXCEPT !.inTool = TRUE, !.counter = @ + 1]

EndBlock(a) == IF a.inTool THEN [Emit(a, ToolEnd(CurrentTool(a))) EXCEPT !.inTool = FALSE] ELSE a

BlockDelta(a, e) == IF a.inTool THEN Emit(a, ToolDelta(CurrentTool(a), e.args)) ELSE a

\* message_stop and [DONE]: the counts, then the end
MessageStop(a) == EmitDone(EmitUsage(a))

\* handle_event
AnthropicEvent(a, e) ==
  CASE e.kind = "malformed"     -> EmitError(a, "json")
    [] e.kind = "message_start" -> [a EXCEPT !.usage = TRUE]
    [] e.kind \in {"tool_block", "text_block"} -> BlockStart(a, e)
    [] e.kind = "text"          -> Emit(a, TextDelta)
    [] e.kind = "json_delta"    -> BlockDelta(a, e)
    [] e.kind = "block_stop"    -> EndBlock(a)
    [] e.kind = "message_delta" ->
         IF e.reason = "" THEN a ELSE [a EXCEPT !.reason = StopReason(e.reason)]
    [] e.kind = "message_stop"  -> MessageStop(a)
    [] e.kind = "error"         -> EmitError(a, "model")
    [] OTHER                    -> a

\* sse_cb on the [DONE] of a gateway
AnthropicDone(a) == MessageStop(EndBlock(a))

\* done_cb: a clean end of the transfer without message_stop.  Input tokens
\* arrive with message_start, the first event of every stream.
AnthropicClosed(a) ==
  IF a.reason # "unknown" \/ a.usage THEN AnthropicDone(a) ELSE EmitError(a, "http")
==========================================================================
