------------------------------ MODULE Openai ------------------------------
(* The chat-completions accumulator: model/openai.c. *)
EXTENDS Accum

\* parse_finish_reason
FinishReason(r) ==
  CASE r = "stop" -> "complete"
    [] r \in {"tool_calls", "function_call"} -> "tool_calls"
    [] r = "length" -> "max_tokens"
    [] r = "content_filter" -> "content_filter"
    [] OTHER -> "incomplete"

\* One element of delta.tool_calls: START with the first fragment of a call,
\* DELTA for the arguments of any.
Fragment(a, e) ==
  LET b == EnsureCall(a, e.index)
      c == CallState(b, e.index)
      s == IF c.started THEN b
           ELSE SetCall(Emit(b, ToolStart(e.index, e.id)), e.index, [c EXCEPT !.started = TRUE])
  IN IF ~HasCall(b, e.index) THEN a
     ELSE IF e.args = << >> THEN s ELSE Emit(s, ToolDelta(e.index, e.args))

\* handle_chunk, and the error sse_cb makes of a malformed one
OpenaiChunk(a, e) ==
  LET counted == IF e.usage THEN EmitUsage(a) ELSE a
      ended   == IF e.reason = "" THEN counted
                 ELSE [counted EXCEPT !.reason = FinishReason(e.reason)]
  IN CASE e.kind = "malformed" -> EmitError(a, "json")
       [] e.kind = "text"      -> Emit(ended, TextDelta)
       [] e.kind = "fragment"  -> Fragment(ended, e)
       [] OTHER                -> ended

\* sse_cb on [DONE]
OpenaiDone(a) == EmitDone(EndCalls(a))

\* openai_done_cb: a clean end of the transfer without [DONE]
OpenaiClosed(a) ==
  IF a.reason # "unknown" \/ a.usage THEN OpenaiDone(a) ELSE EmitError(a, "http")
===========================================================================
