------------------------------ MODULE History ------------------------------
(***************************************************************************)
(* The conversation an agent sends to a provider, and the operations that  *)
(* shorten it: agent/message.c (the list) and agent/context.c (compaction).*)
(*                                                                         *)
(* A message keeps what the provider protocol can tell apart: its role,    *)
(* the tool calls an assistant message carries, and for a tool result the  *)
(* position of the call it answers.  Text is left out.  C indices start at *)
(* 0 and TLA+ sequences at 1, so items[k] is list[k + 1]; `start' and      *)
(* `count' keep their C values.                                            *)
(***************************************************************************)
EXTENDS Naturals, Sequences

CONSTANTS
  Call,         \* what a tool call can be
  MinKeep,      \* COMPACT_MIN_KEEP, the least tail a compaction leaves alone
  KeepRecent    \* the keep_recent argument (10 in every caller)

ASSUME KeepAssumption == MinKeep \in Nat \ {0} /\ KeepRecent \in Nat

Roles == {"system", "user", "assistant", "tool"}

Message == [role : Roles, calls : Seq(Call), answers : Nat]

UserMessage == [role |-> "user", calls |-> << >>, answers |-> 0]
AssistantMessage(calls) == [role |-> "assistant", calls |-> calls, answers |-> 0]
ToolMessage(i) == [role |-> "tool", calls |-> << >>, answers |-> i]

IsTool(list, k) == list[k].role = "tool"
OpensUnit(list, k) == list[k].role = "assistant" /\ list[k].calls # << >>

-----------------------------------------------------------------------------
(* The tool protocol. *)

\* A tool result follows the assistant message that asked for it, with only
\* other tool results between the two.
Owned(list, k) ==
  \E a \in 1 .. k - 1 : OpensUnit(list, a) /\ \A m \in a + 1 .. k : IsTool(list, m)

NoOrphans(list) == \A k \in 1 .. Len(list) : IsTool(list, k) => Owned(list, k)

\* Every call of every assistant message is answered, in call order, before
\* any other message.
Answered(list, k) ==
  \A i \in 1 .. Len(list[k].calls) :
    /\ k + i <= Len(list)
    /\ IsTool(list, k + i)
    /\ list[k + i].answers = i

AllAnswered(list) == \A k \in 1 .. Len(list) : Answered(list, k)

-----------------------------------------------------------------------------
(* Compaction. *)

\* The last index of start .. end that is `start' itself or no tool result:
\* where the backwards scan of message_list_tool_safe_prefix_count stops.
UnitStart(list, start, end) ==
  CHOOSE e \in start .. end :
    /\ e = start \/ ~IsTool(list, e + 1)
    /\ \A m \in e + 1 .. end : IsTool(list, m + 1)

\* mutation: the cut is not moved out of a tool unit
BoundedPrefix(list, start, count) == IF count > Len(list) - start THEN Len(list) - start ELSE count

\* message_list_tool_safe_prefix_count
ToolSafePrefix(list, start, count) ==
  LET bounded == IF count > Len(list) - start THEN Len(list) - start ELSE count
      end     == start + bounded
      back    == UnitStart(list, start, end)
  IN IF start >= Len(list) \/ count = 0 THEN 0
     ELSE IF end >= Len(list) THEN bounded
     ELSE IF ~IsTool(list, end + 1) THEN bounded
     ELSE IF OpensUnit(list, back + 1) THEN back - start
     ELSE bounded

\* compaction_bounds
CompactionBounds(list) ==
  LET keep  == IF KeepRecent < MinKeep THEN MinKeep ELSE KeepRecent
      start == IF list[1].role = "system" THEN 1 ELSE 0
  IN IF Len(list) <= MinKeep + 2 \/ Len(list) <= keep + 1
       THEN [start |-> 0, count |-> 0]
       ELSE [start |-> start,
             count |-> ToolSafePrefix(list, start, Len(list) - start - keep)]

\* list[start + 1 .. start + count] replaced by one message:
\* message_list_insert followed by message_list_remove_range.
Replace(list, start, count, summary) ==
  SubSeq(list, 1, start) \o << summary >> \o SubSeq(list, start + count + 1, Len(list))

\* context_compaction_apply: the list after it, the same list when it refuses.
Compact(list, bounds, summary) ==
  LET safe == ToolSafePrefix(list, bounds.start, bounds.count)
  IN IF \/ bounds.count = 0
        \/ bounds.start >= Len(list)
        \/ bounds.count > Len(list) - bounds.start
        \/ safe = 0
       THEN list
       ELSE Replace(list, bounds.start, safe, summary)
=============================================================================
