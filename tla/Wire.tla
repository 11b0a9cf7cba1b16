------------------------------- MODULE Wire -------------------------------
(***************************************************************************)
(* The conversation as each provider puts it into a request body.          *)
(*                                                                         *)
(* A message of the conversation keeps its role, whether it has text, the  *)
(* ids of its calls (0: the provider gave none) and, for a tool result,    *)
(* the id it answers.  A body is a sequence of messages [role, blocks];    *)
(* a block is a text, a call or the result of a call.                      *)
(***************************************************************************)
EXTENDS Naturals, Sequences, SequencesExt

Say(role, text, calls, id) == [role |-> role, text |-> text, calls |-> calls, id |-> id]

\* The messages of a conversation: only the assistant calls (message.h:48).
Speech == {m \in [role : {"system", "user", "assistant", "tool"}, text : BOOLEAN,
                  calls : Seq(Nat), id : Nat] : m.role # "assistant" => m.calls = << >>}

Text       == [block |-> "text", id |-> 0]
Use(id)    == [block |-> "call", id |-> id]
Result(id) == [block |-> "result", id |-> id]
Uses(calls) == [k \in DOMAIN calls |-> Use(calls[k])]

\* The texts for the system, in a message of their own or a field beside it.
SystemText == [role |-> "system", blocks |-> << Text >>]

Refused == << [role |-> "refused", blocks |-> << >>] >>

-----------------------------------------------------------------------------
(* model/openai.c: one message each, content always present. *)

OpenaiMessage(m) ==
  [role |-> m.role,
   blocks |-> IF m.role = "tool" THEN << Result(m.id) >> ELSE << Text >> \o Uses(m.calls)]

\* serialize_messages: the merged system prompt replaces the system messages
OpenaiMessages(list, prompt) ==
  FlattenSeq([k \in DOMAIN list |-> IF prompt /\ list[k].role = "system" THEN << >>
                                    ELSE << OpenaiMessage(list[k]) >>])

OpenaiBody(list, prompt) ==
  (IF prompt THEN << SystemText >> ELSE << >>) \o OpenaiMessages(list, prompt)

-----------------------------------------------------------------------------
(* model/anthropic.c: system text apart, neighbours of one role merged. *)

\* mutation: no message is merged into the one before it
StartAlways(msgs, role, blocks) == Append(msgs, [role |-> role, blocks |-> blocks])

\* msg_start with the blocks its callers add: the first one starts a message
\* or goes to the last one, and the others follow it.
AddBlocks(msgs, role, blocks) ==
  IF msgs # << >> /\ Last(msgs).role = role
    THEN Append(Front(msgs), [role |-> role, blocks |-> Last(msgs).blocks \o blocks])
    ELSE Append(msgs, [role |-> role, blocks |-> blocks])

\* The text of an assistant message; without calls it is not left out.
Spoken(m) == IF m.text \/ m.calls = << >> THEN << Text >> ELSE << >>

\* serialize_messages, one message
AnthropicMessage(msgs, m) ==
  CASE m.role = "system" -> msgs
    [] m.role = "user"   -> AddBlocks(msgs, "user", << Text >>)
    [] m.role = "tool"   -> AddBlocks(msgs, "user", << Result(m.id) >>)
    [] m.role = "assistant" ->
         AddBlocks(msgs, "assistant", Spoken(m) \o Uses(m.calls))

AnthropicMessages(list) ==
  LET after[k \in 0 .. Len(list)] ==
        IF k = 0 THEN << >> ELSE AnthropicMessage(after[k - 1], list[k])
  IN after[Len(list)]

\* anthropic_build_request_body: the system texts joined to the prompt
AnthropicBody(list, prompt) ==
  LET system == prompt \/ \E k \in DOMAIN list : list[k].role = "system"
  IN (IF system THEN << SystemText >> ELSE << >>) \o AnthropicMessages(list)

-----------------------------------------------------------------------------
(* model/responses.c: a flat list of items; an id may not be missing. *)

\* add_function_call, add_function_output
MissingId(m) == \/ \E k \in DOMAIN m.calls : m.calls[k] = 0
                \/ m.role = "tool" /\ m.id = 0

Item(role, block) == [role |-> role, blocks |-> << block >>]

\* One message as input items.
ResponsesItems(m) ==
  CASE m.role = "system" -> << >>
    [] m.role = "user"   -> << Item("user", Text) >>
    [] m.role = "tool"   -> << Item("tool", Result(m.id)) >>
    [] m.role = "assistant" ->
         LET blocks == Spoken(m) \o Uses(m.calls)
         IN [k \in DOMAIN blocks |-> Item("assistant", blocks[k])]

\* responses_build_request_body
ResponsesBody(list, prompt) ==
  LET system == prompt \/ \E k \in DOMAIN list : list[k].role = "system"
  IN IF \E k \in DOMAIN list : MissingId(list[k]) THEN Refused
     ELSE (IF system THEN << SystemText >> ELSE << >>)
            \o FlattenSeq([k \in DOMAIN list |-> ResponsesItems(list[k])])

-----------------------------------------------------------------------------
(* What a body must be, whatever the protocol. *)

Blocks(body) == FlattenSeq([k \in DOMAIN body |-> body[k].blocks])

\* The calls and results among blocks, in order.
Traffic(blocks) ==
  FlattenSeq([k \in DOMAIN blocks |-> IF blocks[k].block = "text" THEN << >> ELSE << blocks[k] >>])

\* The calls and results of the conversation, in order.
MessageTraffic(m) == IF m.role = "tool" THEN << Result(m.id) >> ELSE Uses(m.calls)
ToolTraffic(list) == FlattenSeq([k \in DOMAIN list |-> MessageTraffic(list[k])])
===========================================================================
