------------------------------ MODULE Accum ------------------------------
(***************************************************************************)
(* From the JSON events of a stream to ModelEvents: what the accumulators  *)
(* of model/openai.c, model/anthropic.c and model/responses.c do alike.    *)
(* The handlers of each are in the module of its name.                     *)
(*                                                                         *)
(* A JSON event of the server is a record                                  *)
(*   kind    what it is, in the terms of its protocol                      *)
(*   index   the tool call or output item it speaks of, from 0             *)
(*   id      the call it names, 0 when the field is absent or empty        *)
(*   args    the fragments of the arguments it carries                     *)
(*   reason  the finish or stop reason, "" when absent                     *)
(*   usage   whether it carries token counts                               *)
(***************************************************************************)
EXTENDS Naturals, Sequences, SequencesExt

CONSTANT MaxToolCalls   \* MAX_TOOL_CALLS

ModelEvent(type, index, id, args, reason) ==
  [type |-> type, index |-> index, id |-> id, args |-> args, reason |-> reason]
TextDelta == ModelEvent("text", 0, 0, << >>, "")
UsageEvent == ModelEvent("usage", 0, 0, << >>, "")
ToolStart(index, id)   == ModelEvent("start", index, id, << >>, "")
ToolDelta(index, args) == ModelEvent("delta", index, 0, args, "")
ToolEnd(index)         == ModelEvent("end", index, 0, << >>, "")
Done(reason)           == ModelEvent("done", 0, 0, << >>, reason)
Error(code)            == ModelEvent("error", 0, 0, << >>, code)
IsTerminal(e)          == e.type \in {"done", "error"}

\* `out' is everything the callback was given.
NewAccum ==
  [out |-> << >>, error |-> FALSE, done |-> FALSE, usage |-> FALSE, reason |-> "unknown",
   calls |-> << >>, inTool |-> FALSE, counter |-> 0]

Over(a) == a.error \/ a.done

\* mutation: emit without its guard
EmitAlways(a, e) == [a EXCEPT !.out = Append(@, e)]

\* emit: nothing reaches the callback after a terminal event
Emit(a, e) == IF Over(a) THEN a ELSE [a EXCEPT !.out = Append(@, e)]

\* emit_error
EmitError(a, code) == IF Over(a) THEN a ELSE [Emit(a, Error(code)) EXCEPT !.error = TRUE]

\* emit_done
EmitDone(a) == IF Over(a) THEN a ELSE [Emit(a, Done(a.reason)) EXCEPT !.done = TRUE]

\* emit_usage
EmitUsage(a) == [Emit(a, UsageEvent) EXCEPT !.usage = TRUE]

\* The ToolCallStates, found by index.
Position(a, index) == {k \in DOMAIN a.calls : a.calls[k].index = index}
HasCall(a, index)  == Position(a, index) # {}
CallState(a, index) == a.calls[CHOOSE k \in Position(a, index) : TRUE]
SetCall(a, index, c) ==
  [a EXCEPT !.calls = [k \in DOMAIN @ |-> IF @[k].index = index THEN c ELSE @[k]]]

\* accum_ensure_call: no state is made past the limit
EnsureCall(a, index) ==
  IF index >= MaxToolCalls \/ HasCall(a, index) THEN a
  ELSE [a EXCEPT !.calls =
          Append(@, [index |-> index, started |-> FALSE, id |-> 0, pending |-> << >>, sent |-> 0])]

\* The END of every call seen, in the order they were first seen.
EndCalls(a) ==
  IF Over(a) THEN a
  ELSE [a EXCEPT !.out = @ \o [k \in DOMAIN a.calls |-> ToolEnd(a.calls[k].index)]]
==========================================================================
