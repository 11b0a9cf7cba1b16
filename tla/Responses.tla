---------------------------- MODULE Responses ----------------------------
(* The Responses accumulator: model/responses.c.  A call is known by its   *)
(* output_index, and started once its call_id is.                          *)
EXTENDS Accum

\* parse_usage: token counts are reported once
ResponsesUsage(a, e) == IF e.usage /\ ~a.usage /\ ~Over(a) THEN EmitUsage(a) ELSE a

\* parse_incomplete_reason
IncompleteReason(r) ==
  CASE r \in {"max_output_tokens", "max_tokens"} -> "max_tokens"
    [] r = "content_filter" -> "content_filter"
    [] OTHER -> "incomplete"

\* emit_call_start_if_needed: START, then what came before the id
CallStart(a, index) ==
  LET c == CallState(a, index)
      s == Emit(a, ToolStart(index, c.id))
      d == IF c.pending = << >> THEN s ELSE Emit(s, ToolDelta(index, c.pending))
  IN IF c.started \/ c.id = 0 THEN a
     ELSE SetCall(d, index, [c EXCEPT !.started = TRUE, !.pending = << >>,
                                      !.sent = @ + Len(c.pending)])

\* call_state_set keeps the first id that is not empty
WithId(c, id) == IF c.id = 0 THEN [c EXCEPT !.id = id] ELSE c

\* mutation: the arguments of a completed item are appended to what the deltas gave
SendFull(a, index, args) ==
  LET c == CallState(a, index)
  IN IF args = << >> THEN a
     ELSE IF c.started
       THEN SetCall(Emit(a, ToolDelta(index, args)), index, [c EXCEPT !.sent = Len(args)])
     ELSE SetCall(a, index, [c EXCEPT !.pending = @ \o args])

\* The complete arguments, of output_item.added and .done and of
\* function_call_arguments.done: used only when no fragment came before.
FullArgs(a, index, args) ==
  LET c == CallState(a, index)
  IN IF args = << >> \/ c.sent > 0 THEN a
     ELSE IF c.started
       THEN SetCall(Emit(a, ToolDelta(index, args)), index, [c EXCEPT !.sent = Len(args)])
     ELSE IF c.pending = << >> THEN SetCall(a, index, [c EXCEPT !.pending = args])
     ELSE a

\* response.output_item.added and .done
OutputItem(a, e) ==
  LET known == SetCall(a, e.index, WithId(CallState(a, e.index), e.id))
  IN CallStart(FullArgs(known, e.index, e.args), e.index)

\* response.function_call_arguments.delta
ArgsDelta(a, e) ==
  LET c == CallState(a, e.index)
  IN IF c.started
       THEN SetCall(Emit(a, ToolDelta(e.index, e.args)), e.index, [c EXCEPT !.sent = @ + Len(e.args)])
       ELSE SetCall(a, e.index, [c EXCEPT !.pending = @ \o e.args])

\* response.function_call_arguments.done
ArgsDone(a, e) == FullArgs(CallStart(FullArgs(a, e.index, e.args), e.index), e.index, e.args)

\* finish_stream
FinishStream(a, reason) ==
  LET calls == a.calls # << >>
  IN IF Over(a) THEN a
     ELSE IF \E k \in DOMAIN a.calls : ~a.calls[k].started THEN EmitError(a, "model")
     ELSE EmitDone([EndCalls(a) EXCEPT !.reason =
                      IF reason = "complete" /\ calls THEN "tool_calls" ELSE reason])

\* handle_event, and the error sse_cb makes of what it refuses
ResponsesEvent(a, e) ==
  LET b == EnsureCall(a, e.index)
  IN CASE e.kind = "malformed" -> EmitError(a, "json")
       [] e.kind = "text"      -> Emit(a, TextDelta)
       [] e.kind \in {"item", "args_delta", "args_done"} ->
            IF ~HasCall(b, e.index) THEN EmitError(a, "json")
            ELSE IF e.kind = "item" THEN OutputItem(b, e)
            ELSE IF e.kind = "args_delta" THEN ArgsDelta(b, e)
            ELSE ArgsDone(b, e)
       [] e.kind = "usage"      -> ResponsesUsage(a, e)
       [] e.kind = "completed"  -> FinishStream(ResponsesUsage(a, e), "complete")
       [] e.kind = "incomplete" -> FinishStream(ResponsesUsage(a, e), IncompleteReason(e.reason))
       [] e.kind = "failed"     -> EmitError(a, "model")
       [] OTHER                 -> a

\* sse_cb on the [DONE] some gateways append
ResponsesDone(a) == FinishStream(a, "unknown")

\* responses_done_cb: a clean end of the transfer without a terminal event
ResponsesClosed(a) == IF a.usage THEN ResponsesDone(a) ELSE EmitError(a, "http")
==========================================================================
