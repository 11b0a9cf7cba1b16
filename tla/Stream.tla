------------------------------ MODULE Stream ------------------------------
(***************************************************************************)
(* One streamed model request, from the request body to the last           *)
(* ModelEvent: model/openai.c, model/anthropic.c and model/responses.c     *)
(* over the parser of model/stream.c.                                      *)
(*                                                                         *)
(* The server says JSON events one by one (the grammars below), their      *)
(* bytes are read in chunks of any size, and the transfer ends at any      *)
(* point: closed by the server, broken by the network, or aborted by a     *)
(* cancel.                                                                 *)
(***************************************************************************)
EXTENDS FiniteSets, Sse, Openai, Anthropic, Responses, Wire

CONSTANTS
  Protocols,   \* which of "openai", "anthropic" and "responses" are served
  Forms,       \* how a server lays out an event: "lf", "crlf" and "split"
  Histories,   \* the conversations a request may carry
  MaxEvents,   \* bound: events a server of each protocol says
  MaxNoise,    \* bound: malformed, endless and irrelevant lines among them
  MaxCalls     \* bound: tool calls of one answer

ASSUME StreamAssumption ==
  /\ Protocols \subseteq {"openai", "anthropic", "responses"}
  /\ Forms \subseteq {"lf", "crlf", "split"}
  /\ MaxLine \in Nat
  /\ Histories \subseteq Seq(Speech)

VARIABLES
  protocol,    \* the provider of the model
  form,        \* the layout this server uses
  phase,       \* "idle", "built", "open", "refused" (a read failed), "closed"
  conversation, \* the messages the body was built from
  body,        \* the request body, freed once the transfer has started
  status,      \* the HTTP status of the answer
  said,        \* the events the server has said
  wire,        \* their bytes that have not been read yet
  parser,      \* t->sse
  acc,         \* t->accum, with all the callback was given
  rc           \* how the transfer ended: "ok" or, broken or aborted, "fail"

vars == << protocol, form, phase, conversation, body, status, said, wire, parser, acc, rc >>

-----------------------------------------------------------------------------
(* The servers.  `call' numbers the tool call an event belongs to, from 1.  *)

Say0 == [kind |-> "other", index |-> 0, call |-> 0, id |-> 0, args |-> << >>, reason |-> "",
         usage |-> FALSE]
Malformed == [Say0 EXCEPT !.kind = "malformed"]
LongLine  == [Say0 EXCEPT !.kind = "long"]
Comments  == [Say0 EXCEPT !.kind = "comment"]
Mark      == [Say0 EXCEPT !.kind = "[DONE]"]
Texts     == [Say0 EXCEPT !.kind = "text"]

Saying(kinds) == {k \in DOMAIN said : said[k].kind \in kinds}
SaysReason == \E k \in DOMAIN said : said[k].reason # ""
CallsSaid  == {said[k].call : k \in DOMAIN said} \ {0}
CallIndex(c) == said[CHOOSE k \in DOMAIN said : said[k].call = c].index
Fresh == Cardinality(CallsSaid) + 1
NewCall == {Fresh} \cap 1 .. MaxCalls
Fragment1 == << Len(said) + 1 >>    \* a fragment of arguments, named by its event
Noise == {e \in {Malformed, LongLine, Comments} :
            Cardinality(Saying({"malformed", "long", "comment"})) < MaxNoise}

\* Chunks: text, fragments of calls in any interleaving, the finish reason
\* with or without the counts, the counts alone.
OpenaiSays ==
  IF SaysReason
    THEN {Mark, [Say0 EXCEPT !.usage = TRUE]}
    ELSE Noise \cup {Texts, [Say0 EXCEPT !.usage = TRUE]}
         \cup {[Say0 EXCEPT !.kind = "fragment", !.index = c - 1, !.call = c, !.id = c,
                            !.args = a] : c \in NewCall, a \in {<< >>, Fragment1}}
         \cup {[Say0 EXCEPT !.kind = "fragment", !.index = c - 1, !.call = c, !.args = Fragment1] :
                 c \in CallsSaid}
         \cup {[Say0 EXCEPT !.reason = r, !.usage = u] :
                 r \in {IF CallsSaid = {} THEN "stop" ELSE "tool_calls", "length"},
                 u \in BOOLEAN}

\* Blocks one after the other, each opened, filled and stopped.
Opens == Saying({"tool_block", "text_block"})
BlockOpen == Cardinality(Opens) > Cardinality(Saying({"block_stop"}))
OpenedLast == CHOOSE k \in Opens : \A j \in Opens : j <= k
AnthropicSays ==
  IF said = << >> THEN {[Say0 EXCEPT !.kind = "message_start"]}
  ELSE IF SaysReason THEN {Mark, [Say0 EXCEPT !.kind = "message_stop"]}
  ELSE Noise \cup {[Say0 EXCEPT !.kind = "error"]} \cup
    LET b == [Say0 EXCEPT !.index = Cardinality(Opens)]
        o == [Say0 EXCEPT !.index = said[OpenedLast].index, !.call = said[OpenedLast].call]
    IN IF BlockOpen
         THEN {[o EXCEPT !.kind = "block_stop"],
               IF o.call = 0 THEN Texts
               ELSE [o EXCEPT !.kind = "json_delta", !.args = Fragment1]}
         ELSE {[b EXCEPT !.kind = "text_block"]}
              \cup {[b EXCEPT !.kind = "tool_block", !.call = c, !.id = c] : c \in NewCall}
              \cup {[Say0 EXCEPT !.kind = "message_delta", !.reason = r] :
                      r \in {IF CallsSaid = {} THEN "end_turn" ELSE "tool_use", "max_tokens"}}

\* Output items: a text, then calls.  An item is announced, its arguments
\* come as fragments, as a whole or both, and the item completes; its id may
\* come at either end.
Whole(c) ==
  LET parts == {k \in DOMAIN said : said[k].call = c /\ said[k].args # << >>}
      deltas == SelectSeq(said, LAMBDA e : e.call = c /\ e.kind = "args_delta")
  IN IF deltas # << >> THEN FoldLeft(LAMBDA x, e : x \o e.args, << >>, deltas)
     ELSE IF parts # {} THEN said[CHOOSE k \in parts : TRUE].args
     ELSE Fragment1
Times(c, kind) == Cardinality({k \in Saying({kind}) : said[k].call = c})
Completed(c) == Times(c, "item") = 2
ItemSaid(c) ==
  [Say0 EXCEPT !.kind = "item", !.call = c,
               !.index = IF c = Fresh THEN c - 1 + (IF Saying({"text"}) = {} THEN 0 ELSE 1)
                                      ELSE CallIndex(c)]
Going   == {c \in CallsSaid : ~Completed(c)}
Filling == {c \in Going : Times(c, "args_done") = 0}
Announces == UNION {{[ItemSaid(c) EXCEPT !.id = i] : i \in {0, c}} : c \in NewCall}
Fills     == {[ItemSaid(c) EXCEPT !.kind = "args_delta", !.args = Fragment1] : c \in Filling}
Repeats   == {[ItemSaid(c) EXCEPT !.kind = "args_done", !.args = Whole(c)] : c \in Filling}
Completes == UNION {{[ItemSaid(c) EXCEPT !.id = i, !.args = Whole(c)] : i \in {0, c}} : c \in Going}
Ends == {Mark, [Say0 EXCEPT !.kind = "failed"],
         [Say0 EXCEPT !.kind = "incomplete", !.reason = "max_output_tokens"]}
        \cup (IF Going = {} THEN {[Say0 EXCEPT !.kind = "completed", !.usage = TRUE]} ELSE {})
ResponsesSays ==
  UNION {Noise, Announces, Fills, Repeats, Completes, Ends,
         {[Say0 EXCEPT !.kind = "usage", !.usage = TRUE]},
         IF CallsSaid = {} THEN {Texts} ELSE {}}

Finished == Saying({"[DONE]", "message_stop", "completed", "incomplete", "failed", "error"}) # {}

\* The bytes of event number k.
Payload2(k) == << Left(k), Right(k) >>
Bytes(e, k) ==
  IF e.kind = "comment" THEN << Comment, LineEnd, LineEnd >>
  ELSE IF e.kind = "[DONE]" THEN << DataMark, DoneMark, LineEnd, LineEnd >>
  ELSE IF e.kind = "long"
    THEN << DataMark >> \o [n \in 1 .. MaxLine |-> Left(k)] \o << LineEnd, LineEnd >>
  ELSE CASE form = "lf"    -> << DataMark >> \o Payload2(k) \o << LineEnd, LineEnd >>
         [] form = "crlf"  -> << DataMark >> \o Payload2(k) \o << Return, LineEnd, Return, LineEnd >>
         [] form = "split" -> << DataMark, Left(k), LineEnd, DataMark, Right(k), LineEnd, LineEnd >>

\* After a line nobody can parse a server goes on, with a text or the end
\* (a bound: the accumulator is over by then).
Says ==
  IF Saying({"malformed", "long"}) # {} THEN {Texts, Mark}
  ELSE CASE protocol = "openai" -> OpenaiSays
         [] protocol = "anthropic" -> AnthropicSays
         [] protocol = "responses" -> ResponsesSays

\* The server says one more event, once most of the last one has been read.
ServerSays ==
  /\ phase = "open" /\ status = 200
  /\ Len(said) < MaxEvents[protocol] /\ ~Finished /\ Len(wire) <= 2
  /\ \E e \in Says :
       /\ said' = Append(said, e)
       /\ wire' = wire \o Bytes(e, Len(said) + 1)
  /\ UNCHANGED << protocol, form, phase, conversation, body, status, parser, acc, rc >>

-----------------------------------------------------------------------------
(* The provider. *)

\* The JSON event a payload parses to.
Parsed(data) ==
  IF \E k \in DOMAIN said : data = Payload2(k)
    THEN said[CHOOSE k \in DOMAIN said : data = Payload2(k)]
    ELSE Malformed

\* sse_cb of the three providers
OnSse(a, ev) ==
  CASE protocol = "openai" ->
         IF ev.done THEN OpenaiDone(a) ELSE OpenaiChunk(a, Parsed(ev.data))
    [] protocol = "anthropic" ->
         IF ev.done THEN AnthropicDone(a) ELSE AnthropicEvent(a, Parsed(ev.data))
    [] protocol = "responses" ->
         IF ev.done THEN ResponsesDone(a) ELSE ResponsesEvent(a, Parsed(ev.data))

\* What the parser p has emitted goes to the accumulator.
Accumulated(p) == FoldLeft(OnSse, acc, p.emitted)

Init ==
  /\ protocol \in Protocols /\ form \in Forms
  /\ phase = "idle" /\ conversation = << >> /\ body = << >>
  /\ status = 0 /\ said = << >> /\ wire = << >>
  /\ parser = NewParser /\ acc = NewAccum /\ rc = "none"

\* The request up to http_request_start: no credentials, no body, or a body.
Request(p, Built(_, _)) ==
  /\ protocol = p /\ phase = "idle"
  /\ \E list \in Histories, prompt \in BOOLEAN, auth \in BOOLEAN :
       LET built == Built(list, prompt)
       IN /\ conversation' = list
          /\ IF ~auth
               THEN acc' = EmitError(acc, "401") /\ phase' = "closed" /\ body' = << >>
             ELSE IF built = Refused
               THEN acc' = EmitError(acc, "model") /\ phase' = "closed" /\ body' = << >>
             ELSE acc' = acc /\ phase' = "built" /\ body' = built
  /\ UNCHANGED << protocol, form, status, said, wire, parser, rc >>

OpenaiRequest    == Request("openai", OpenaiBody)
AnthropicRequest == Request("anthropic", AnthropicBody)
ResponsesRequest == Request("responses", ResponsesBody)

\* http_request_start fails, or the request goes out and the body is freed.
Begin ==
  /\ phase = "built"
  /\ body' = << >> /\ conversation' = << >>
  /\ \/ phase' = "closed" /\ acc' = EmitError(acc, "http") /\ status' = 0
     \/ phase' = "open" /\ acc' = acc /\ status' \in {200, 429}
  /\ UNCHANGED << protocol, form, said, wire, parser, rc >>

\* write_cb
Read ==
  /\ phase = "open"
  /\ \E n \in 1 .. Len(wire) :
       LET fed == Feed(parser, SubSeq(wire, 1, n))
       IN /\ wire' = SubSeq(wire, n + 1, Len(wire))
          /\ acc' = Accumulated(fed)
          /\ parser' = [fed EXCEPT !.emitted = << >>]
          /\ phase' = IF TooLong(fed) THEN "refused" ELSE "open"
  /\ UNCHANGED << protocol, form, conversation, body, status, said, rc >>

\* done_cb of a provider: what is left is parsed, a clean end without a
\* terminal event is judged, and an error of the transfer reported if
\* nothing terminal was.
DoneCb(p, Closed(_)) ==
  /\ protocol = p /\ phase \in {"open", "refused"}
  /\ \E how \in {"ok", "fail"} :
       LET last  == Finish(parser)
           heard == Accumulated(last)
           ended == IF how = "ok" /\ status = 200 /\ ~Over(heard) THEN Closed(heard) ELSE heard
       IN /\ how = "ok" => phase = "open" /\ wire = << >>
          /\ acc' = IF how # "ok" THEN EmitError(ended, "http")
                    ELSE IF status # 200 THEN EmitError(ended, "status")
                    ELSE ended
          /\ parser' = [last EXCEPT !.emitted = << >>]
          /\ rc' = how
  /\ phase' = "closed" /\ wire' = << >>
  /\ UNCHANGED << protocol, form, conversation, body, status, said >>

OpenaiEnds    == DoneCb("openai", OpenaiClosed)
AnthropicEnds == DoneCb("anthropic", AnthropicClosed)
ResponsesEnds == DoneCb("responses", ResponsesClosed)

Next ==
  \/ OpenaiRequest \/ AnthropicRequest \/ ResponsesRequest
  \/ Begin \/ ServerSays \/ Read
  \/ OpenaiEnds \/ AnthropicEnds \/ ResponsesEnds

Spec == Init /\ [][Next]_vars

-----------------------------------------------------------------------------
(* What the agent makes of the events: loop_ensure_tool_call and           *)
(* on_model_event of agent/loop.c.                                         *)

NoCall == [id |-> 0, args |-> << >>]

\* The list of calls, grown with empty slots up to `index'.
Grown(slots, index) ==
  slots \o [k \in 1 .. (IF index >= Len(slots) THEN index + 1 - Len(slots) ELSE 0) |-> NoCall]

Take(slots, e) ==
  LET s == Grown(slots, e.index) n == e.index + 1
  IN CASE e.type = "start" -> [s EXCEPT ![n].id = IF @ = 0 THEN e.id ELSE @]
       [] e.type = "delta" -> [s EXCEPT ![n].args = @ \o e.args]
       [] OTHER -> slots

Slots == FoldLeft(Take, << >>, acc.out)

-----------------------------------------------------------------------------
(* Properties. *)

\* A request ends exactly once for its agent: one DONE or ERROR, after which
\* nothing comes, by the time the transfer is freed and never a second one,
\* however the stream and the connection end.  loop.c waits for it without a
\* timeout of its own, and counts the request when it comes.
EndsOnce ==
  LET ends == {k \in DOMAIN acc.out : IsTerminal(acc.out[k])}
  IN /\ \A k \in ends : k = Len(acc.out)
     /\ phase = "closed" => ends # {}

\* The slot a call ends up in.
SlotOf(c) == IF protocol = "anthropic" THEN c ELSE CallIndex(c) + 1

\* The whole arguments of a call, however the server divided or repeated them.
Meant(c) ==
  LET pieces == SelectSeq(said, LAMBDA e :
                  e.call = c /\ e.kind \in {"fragment", "json_delta", "args_delta"})
      given == FoldLeft(LAMBDA x, e : x \o e.args, << >>, pieces)
      whole == {k \in DOMAIN said : said[k].call = c /\ said[k].args # << >>}
  IN IF given = << >> /\ whole # {} THEN said[CHOOSE k \in whole : TRUE].args ELSE given

\* Reads that end anywhere, interleaved calls, ids that come late and
\* arguments given twice: when DONE comes, every call the server spoke of is
\* in its slot with its id and its arguments, each fragment once and in order.
Assembled ==
  acc.done => \A c \in CallsSaid :
    SlotOf(c) <= MaxToolCalls =>
      /\ SlotOf(c) <= Len(Slots)
      /\ Slots[SlotOf(c)] = [id |-> c, args |-> Meant(c)]

\* "malformed stream JSON" is only said of a stream that was malformed, or
\* was cut by a transfer that failed: no division of well-formed bytes into
\* reads and lines makes one.  (The server closes cleanly between two events
\* only; the code reports a clean close inside a line in the same way.)
HonestError ==
  acc.error /\ Last(acc.out).reason = "json" =>
    \/ Saying({"malformed", "long"}) # {}
    \/ \E c \in CallsSaid : CallIndex(c) >= MaxToolCalls
    \/ rc = "fail"

\* Each call of the conversation is answered, in order, by the messages behind it.
EachAnswered(list) ==
  \A k \in DOMAIN list : \A j \in DOMAIN list[k].calls :
    k + j <= Len(list) /\ list[k + j].role = "tool" /\ list[k + j].id = list[k].calls[j]

\* The calls of an assistant message of a body.
CallsIn(m) == IF m.role = "assistant" THEN Traffic(m.blocks) ELSE << >>

\* Neighbours differ in role and, if every call of the conversation has been
\* answered, a message with calls is followed by one that begins with their results.
Ordered(messages, list) ==
  \A k \in DOMAIN messages :
    LET calls == CallsIn(messages[k])
    IN /\ k > 1 => messages[k].role # messages[k - 1].role
       /\ EachAnswered(list) /\ calls # << >> =>
            /\ k < Len(messages)
            /\ \A j \in DOMAIN calls : /\ j \in DOMAIN messages[k + 1].blocks
                                        /\ messages[k + 1].blocks[j] = Result(calls[j].id)

\* The body says what the conversation says: its calls and results in order
\* and nothing twice (the serializers of the three providers); for anthropic,
\* neighbours of one role are merged by msg_start.
BodyFaithful ==
  phase = "built" => /\ Traffic(Blocks(body)) = ToolTraffic(conversation)
                     /\ protocol = "anthropic" => Ordered(body, conversation)

\* Not kept when output indices have gaps (loop.c:200 fills the slots between
\* with empty ones).  responses.c:187 refuses to end a stream with a call that
\* has no call_id, so that no such call reaches the next request.
SlotsHaveIds == acc.done => \A k \in DOMAIN Slots : Slots[k].id # 0

\* Not kept when the connection closes early.  loop.c:1067: "Never execute or replay a tool call whose JSON may have been
\* cut off by a non-complete terminal condition."  The agent keeps the calls
\* of a DONE unless its reason is max_tokens, content_filter or incomplete.
ClosedCall(c) ==
  CASE protocol = "openai"    -> SaysReason
    [] protocol = "anthropic" -> Times(c, "block_stop") > 0
    [] protocol = "responses" -> Completed(c)
NoCutCall ==
  acc.done /\ Last(acc.out).reason \in {"unknown", "complete", "tool_calls"} =>
    \A c \in CallsSaid : ClosedCall(c)
============================================================================
