-------------------------- MODULE AgentLoopProofs --------------------------
(***************************************************************************)
(* Safety of the agent loop for every value of its constants, in two       *)
(* layers.  IInv: types, the tool protocol of the conversation, and the    *)
(* authority under which tools start.  RequestInv, over it: what the loop  *)
(* owns and what it sends, one request at a time, each call started once,  *)
(* every request after the results it needs, and the contract of           *)
(* AgentTurn.                                                              *)
(***************************************************************************)
EXTENDS AgentLoop, AgentLoopTurn, SequenceTheorems, WellFoundedInduction, TLAPS

\* A finished compaction range starts at the head of the list, or behind a
\* leading system message.
BoundsFit ==
  bounds.start = 0 \/ (bounds.start = 1 /\ messages # << >> /\ messages[1].role = "system")

\* What waits for something, or runs, is a turn, and a batch belongs to a turn
\* that waits for its tools.
TurnInv ==
  /\ resuming => inTurn
  /\ state \in {"wait_model", "wait_tool", "wait_user"} => inTurn
  /\ batch # << >> => state = "wait_tool"

\* While tools run, the conversation ends with the answer that asked for them
\* and the results before the cursor; a batch runs from the first call.
CursorInv ==
  state \in {"wait_tool", "wait_user"} =>
    /\ toolMsg \in 1 .. Len(messages)
    /\ OpensUnit(messages, toolMsg)
    /\ toolIndex \in 1 .. Len(ToolCalls) + 1
    /\ Len(messages) = toolMsg + toolIndex - 1
    /\ \A i \in 1 .. toolIndex - 1 : messages[toolMsg + i] = ToolMessage(i)
    /\ batch # << >> => toolIndex = 1 /\ Len(batch) = Len(ToolCalls)

\* A grant is the user's, for the call at the cursor, which has not started.
GrantInv ==
  approval.granted =>
    /\ state \in {"wait_user", "wait_tool", "cancelled"}
    /\ state \in {"wait_user", "wait_tool"} =>
         /\ host # "none" /\ approval.call = toolIndex /\ toolIndex \in grants
         /\ toolIndex <= Len(ToolCalls) /\ NextCall.gated
         /\ task = "none" /\ batch = << >>
    /\ state = "wait_tool" => resuming /\ ~cancelled

\* Whoever waits for the user waits for the call at the cursor.
AskInv ==
  state = "wait_user" =>
    /\ host # "none" /\ approval.call = toolIndex
    /\ toolIndex <= Len(ToolCalls) /\ NextCall.gated
    /\ task = "none" /\ batch = << >>

LoopInv == BoundsFit /\ TurnInv /\ CursorInv /\ AskInv /\ GrantInv /\ Unorphaned
IInv == TypeOK /\ LoopInv

-----------------------------------------------------------------------------
(* What compaction does to every conversation: types, length, and no tool  *)
(* result left without the answer that asked for it.                       *)

\* A nonempty set of natural numbers has a least element.
LEMMA LeastElement ==
  ASSUME NEW T \in SUBSET Nat, T # {}
  PROVE  \E x \in T : \A y \in T : x <= y
<1>1. PICK x \in T : \A y \in T : ~(<<y, x>> \in OpToRel(<, Nat))
  BY NatLessThanWellFounded, WFMin
<1>2. \A y \in T : ~(y < x)
  BY <1>1 DEF OpToRel
<1>3. T \subseteq Nat
  OBVIOUS
<1>4. ASSUME NEW y \in T PROVE x <= y
  <2>1. x \in Nat /\ y \in Nat
    BY <1>3
  <2>2. ~(y < x)
    BY <1>2
  <2> QED
    BY <2>1, <2>2
<1> QED
  BY <1>4

\* The backwards scan of message_list_tool_safe_prefix_count stops inside its
\* range, at `start' or at a message that is no tool result.
LEMMA UnitStartStops ==
  ASSUME NEW list \in Seq(Message), NEW start \in Nat, NEW end \in Nat,
         start <= end, end < Len(list)
  PROVE  LET e == UnitStart(list, start, end)
         IN /\ e \in start .. end
            /\ e = start \/ ~IsTool(list, e + 1)
            /\ \A m \in e + 1 .. end : IsTool(list, m + 1)
<1> DEFINE Stop(e) == e = start \/ ~IsTool(list, e + 1)
           T == {end - e : e \in {x \in start .. end : Stop(x)}}
<1>1. T \in SUBSET Nat /\ end - start \in T
  OBVIOUS
<1>2. PICK d \in T : \A y \in T : d <= y
  BY <1>1, LeastElement
<1>3. PICK e \in start .. end : Stop(e) /\ d = end - e
  BY <1>2
<1>4. ASSUME NEW m \in e + 1 .. end
      PROVE  IsTool(list, m + 1)
  <2>1. SUFFICES ASSUME Stop(m) PROVE FALSE
    OBVIOUS
  <2>2. end - m \in T
    BY <1>3, <1>4, <2>1
  <2>3. d <= end - m
    BY <1>2, <2>2
  <2>4. e \in Nat /\ m \in Nat /\ e < m /\ m <= end
    BY <1>4
  <2> HIDE DEF T, Stop
  <2> QED
    BY <1>3, <2>3, <2>4
<1> HIDE DEF T
<1>5. \E x \in start .. end :
        /\ x = start \/ ~IsTool(list, x + 1)
        /\ \A m \in x + 1 .. end : IsTool(list, m + 1)
  BY <1>3, <1>4
<1> QED
  BY <1>5 DEF UnitStart

\* The prefix is no longer than asked for and stays inside the list.
LEMMA ToolSafePrefixBound ==
  ASSUME NEW list \in Seq(Message), NEW start \in Nat, NEW count \in Nat
  PROVE  /\ ToolSafePrefix(list, start, count) \in Nat
         /\ ToolSafePrefix(list, start, count) <= count
         /\ start < Len(list) => start + ToolSafePrefix(list, start, count) <= Len(list)
<1> DEFINE bounded == IF count > Len(list) - start THEN Len(list) - start ELSE count
           end     == start + bounded
<1>1. CASE start >= Len(list) \/ count = 0
  BY <1>1 DEF ToolSafePrefix
<1>2. CASE start < Len(list) /\ count # 0
  <2>1. bounded \in Nat /\ bounded <= count /\ end <= Len(list) /\ Len(list) \in Nat
    BY <1>2
  <2>2. CASE end >= Len(list)
    BY <1>2, <2>1, <2>2 DEF ToolSafePrefix
  <2>3. CASE end < Len(list)
    <3>1. UnitStart(list, start, end) \in start .. end
      BY <2>1, <2>3, UnitStartStops
    <3>2. ToolSafePrefix(list, start, count)
            \in {bounded, UnitStart(list, start, end) - start}
      BY <1>2, <2>3 DEF ToolSafePrefix
    <3> QED
      BY <1>2, <2>1, <3>1, <3>2
  <2> QED
    BY <2>1, <2>2, <2>3
<1> QED
  BY <1>1, <1>2

\* compaction_bounds never reaches past the list, and starts after a leading
\* system message.
LEMMA BoundsInside ==
  ASSUME NEW list \in Seq(Message)
  PROVE  /\ CompactionBounds(list) \in [start : Nat, count : Nat]
         /\ CompactionBounds(list).count > 0 =>
              /\ CompactionBounds(list).start < Len(list)
              /\ CompactionBounds(list).start = 0
                   \/ (CompactionBounds(list).start = 1 /\ list[1].role = "system")
<1> DEFINE keep  == IF KeepRecent < MinKeep THEN MinKeep ELSE KeepRecent
           start == IF list[1].role = "system" THEN 1 ELSE 0
<1>1. keep \in Nat /\ keep > 0 /\ MinKeep \in Nat /\ start \in {0, 1} /\ Len(list) \in Nat
  BY KeepAssumption
<1>2. CASE Len(list) <= MinKeep + 2 \/ Len(list) <= keep + 1
  BY <1>2 DEF CompactionBounds
<1>3. CASE ~(Len(list) <= MinKeep + 2 \/ Len(list) <= keep + 1)
  <2>1. Len(list) - start - keep \in Nat /\ start < Len(list)
    BY <1>1, <1>3
  <2>2. CompactionBounds(list)
          = [start |-> start, count |-> ToolSafePrefix(list, start, Len(list) - start - keep)]
    BY <1>3 DEF CompactionBounds
  <2>3. ToolSafePrefix(list, start, Len(list) - start - keep) \in Nat
    BY <1>1, <2>1, ToolSafePrefixBound
  <2> QED
    BY <1>1, <2>1, <2>2, <2>3
<1> QED
  BY <1>2, <1>3

\* Replacing a range inside the list by one message gives a list.
LEMMA ReplaceType ==
  ASSUME NEW list \in Seq(Message), NEW start \in Nat, NEW count \in Nat,
         start + count <= Len(list), NEW summary \in Message
  PROVE  LET new == Replace(list, start, count, summary)
         IN /\ new \in Seq(Message)
            /\ Len(new) = Len(list) - count + 1
            /\ \A k \in 1 .. start : new[k] = list[k]
            /\ new[start + 1] = summary
            /\ \A k \in start + 2 .. Len(new) : new[k] = list[k + count - 1]
<1> DEFINE head == SubSeq(list, 1, start)
           tail == SubSeq(list, start + count + 1, Len(list))
<1>0. Len(list) \in Nat /\ \A i \in 1 .. Len(list) : list[i] \in Message
  BY ElementOfSeq
<1>1. /\ head \in Seq(Message) /\ Len(head) = start
      /\ \A i \in 1 .. start : head[i] = list[i]
  BY <1>0, SubSeqProperties, Z3
<1>2. /\ tail \in Seq(Message) /\ Len(tail) = Len(list) - start - count
      /\ \A i \in 1 .. Len(list) - start - count : tail[i] = list[start + count + i]
  BY <1>0, SubSeqProperties, Z3
<1>3. << summary >> \in Seq(Message) /\ Len(<< summary >>) = 1 /\ << summary >>[1] = summary
  OBVIOUS
<1> HIDE DEF head, tail
<1> DEFINE front == head \o << summary >>
<1>4. /\ front \in Seq(Message) /\ Len(front) = start + 1
      /\ \A i \in 1 .. start + 1 : front[i] = IF i <= start THEN list[i] ELSE summary
  BY <1>1, <1>3, ConcatProperties, Z3
<1> HIDE DEF front
<1>a. Len(front) + Len(tail) = Len(list) - count + 1
  BY <1>0, <1>2, <1>4
<1>b. /\ front \o tail \in Seq(Message)
      /\ Len(front \o tail) = Len(front) + Len(tail)
      /\ \A i \in 1 .. Len(front) + Len(tail) :
           (front \o tail)[i] = IF i <= Len(front) THEN front[i] ELSE tail[i - Len(front)]
  BY <1>2, <1>4, ConcatProperties
<1>5. /\ front \o tail \in Seq(Message)
      /\ Len(front \o tail) = Len(list) - count + 1
      /\ \A i \in 1 .. Len(list) - count + 1 :
           (front \o tail)[i] = IF i <= start + 1 THEN front[i] ELSE tail[i - (start + 1)]
  BY <1>a, <1>b, <1>4
<1>6. Replace(list, start, count, summary) = front \o tail
  BY DEF Replace, front, head, tail
<1> DEFINE whole == front \o tail
<1> HIDE DEF whole
<1>c. /\ whole \in Seq(Message) /\ Len(whole) = Len(list) - count + 1
      /\ \A k \in 1 .. Len(list) - count + 1 :
           whole[k] = IF k <= start + 1 THEN front[k] ELSE tail[k - (start + 1)]
  BY <1>5 DEF whole
<1>7. \A k \in 1 .. start : whole[k] = list[k]
  BY <1>0, <1>4, <1>c
<1>8. whole[start + 1] = summary
  BY <1>0, <1>4, <1>c
<1>9. ASSUME NEW k \in start + 2 .. Len(whole)
      PROVE  whole[k] = list[k + count - 1]
  <2>1. k - (start + 1) \in 1 .. Len(list) - start - count
    BY <1>0, <1>9, <1>c
  <2>2. start + count + (k - (start + 1)) = k + count - 1
    BY <1>9
  <2>3. whole[k] = tail[k - (start + 1)]
    BY <1>0, <1>9, <1>c
  <2>4. tail[k - (start + 1)] = list[start + count + (k - (start + 1))]
    BY <1>2, <2>1
  <2> QED
    BY <2>2, <2>3, <2>4
<1>d. Replace(list, start, count, summary) = whole
  BY <1>6 DEF whole
<1> HIDE DEF front, tail
<1> QED
  BY <1>7, <1>8, <1>9, <1>c, <1>d

\* The summary takes the place of what it replaces.
LEMMA ReplaceAt ==
  ASSUME NEW list \in Seq(Message), NEW start \in Nat, NEW count \in Nat,
         start + count <= Len(list), NEW summary \in Message
  PROVE  Replace(list, start, count, summary)[start + 1] = summary
BY ReplaceType, Zenon

\* context_compaction_apply keeps a conversation a conversation.
THEOREM CompactType ==
  ASSUME NEW list \in Seq(Message), NEW cut \in [start : Nat, count : Nat],
         NEW summary \in Message
  PROVE  Compact(list, cut, summary) \in Seq(Message)
<1> DEFINE safe == ToolSafePrefix(list, cut.start, cut.count)
<1>1. CASE cut.count = 0 \/ cut.start >= Len(list)
             \/ cut.count > Len(list) - cut.start \/ safe = 0
  BY <1>1 DEF Compact
<1>2. CASE ~(cut.count = 0 \/ cut.start >= Len(list)
               \/ cut.count > Len(list) - cut.start \/ safe = 0)
  <2>1. cut.start \in Nat /\ cut.count \in Nat /\ Len(list) \in Nat
    OBVIOUS
  <2>2. safe \in Nat /\ cut.start + safe <= Len(list)
    <3>1. cut.start < Len(list)
      BY <1>2, <2>1
    <3> QED
      BY <2>1, <3>1, ToolSafePrefixBound
  <2>3. Compact(list, cut, summary) = Replace(list, cut.start, safe, summary)
    BY <1>2 DEF Compact
  <2> QED
    BY <2>1, <2>2, <2>3, ReplaceType
<1> QED
  BY <1>1, <1>2

\* Where a compaction cuts, the kept tail does not begin with a tool result.
LEMMA CutIsClean ==
  ASSUME NEW list \in Seq(Message), NEW start \in Nat, NEW count \in Nat,
         NoOrphans(list), start < Len(list), count # 0,
         start = 0 \/ (start = 1 /\ list[1].role = "system")
  PROVE  LET cut == start + ToolSafePrefix(list, start, count)
         IN cut >= Len(list) \/ ~IsTool(list, cut + 1)
<1> DEFINE bounded == IF count > Len(list) - start THEN Len(list) - start ELSE count
           end     == start + bounded
           back    == UnitStart(list, start, end)
           safe    == ToolSafePrefix(list, start, count)
<1>1. end \in Nat /\ start <= end /\ Len(list) \in Nat
  OBVIOUS
<1>2. CASE end >= Len(list) \/ ~IsTool(list, end + 1)
  <2>1. safe = bounded
    BY <1>2 DEF ToolSafePrefix
  <2> QED
    BY <1>2, <2>1
<1>3. CASE end < Len(list) /\ IsTool(list, end + 1)
  <2>1. /\ back \in start .. end
        /\ back = start \/ ~IsTool(list, back + 1)
        /\ \A m \in back + 1 .. end : IsTool(list, m + 1)
    BY <1>1, <1>3, UnitStartStops
  <2>2. PICK a \in 1 .. end : /\ OpensUnit(list, a)
                              /\ \A m \in a + 1 .. end + 1 : IsTool(list, m)
    <3>1. Owned(list, end + 1)
      BY <1>1, <1>3 DEF NoOrphans
    <3> QED
      BY <1>1, <3>1 DEF Owned
  <2>3. a - 1 \in start .. end /\ ~IsTool(list, a)
    BY <1>1, <2>2 DEF OpensUnit, IsTool
  <2> HIDE DEF bounded, end, back
  <2>4. ~(back > a - 1)
    <3>1. ASSUME back > a - 1 PROVE FALSE
      <4>1. back # start
        BY <2>3, <3>1, <2>1, <1>1
      <4>2. back + 1 \in a + 1 .. end + 1
        BY <2>1, <2>2, <3>1, <1>1
      <4> QED
        BY <2>1, <2>2, <4>1, <4>2
    <3> QED
      BY <3>1
  <2>5. ~(back < a - 1)
    <3>1. ASSUME back < a - 1 PROVE FALSE
      <4>1. a - 1 \in back + 1 .. end
        BY <2>1, <2>3, <3>1, <1>1
      <4>2. IsTool(list, (a - 1) + 1)
        BY <2>1, <4>1
      <4>3. (a - 1) + 1 = a
        BY <2>2, <1>1
      <4> QED
        BY <2>3, <4>2, <4>3
    <3> QED
      BY <3>1
  <2>6. back + 1 = a
    BY <1>1, <2>1, <2>2, <2>4, <2>5
  <2>7. safe = back - start
    BY <1>3, <2>2, <2>6 DEF ToolSafePrefix, bounded, end, back
  <2>8. start + safe = back
    BY <1>1, <2>1, <2>7
  <2> QED
    BY <2>3, <2>6, <2>8
<1> QED
  BY <1>2, <1>3

\* Replacing a clean prefix by a message of the user orphans nothing.
LEMMA ReplaceKeepsUnits ==
  ASSUME NEW list \in Seq(Message), NEW start \in {0, 1}, NEW count \in Nat \ {0},
         NEW summary \in Message, summary.role = "user", NoOrphans(list),
         start + count <= Len(list),
         start + count = Len(list) \/ ~IsTool(list, start + count + 1)
  PROVE  NoOrphans(Replace(list, start, count, summary))
<1> DEFINE new == Replace(list, start, count, summary)
<1>1. /\ Len(new) = Len(list) - count + 1 /\ Len(list) \in Nat
      /\ \A k \in 1 .. start : new[k] = list[k]
      /\ new[start + 1] = summary
      /\ \A k \in start + 2 .. Len(new) : new[k] = list[k + count - 1]
  <2>1. start \in Nat /\ count \in Nat /\ Len(list) \in Nat
    OBVIOUS
  <2> QED
    <3> HIDE DEF new
    <3>1. Len(Replace(list, start, count, summary)) = Len(list) - count + 1
      BY <2>1, ReplaceType
    <3>2. \A k \in 1 .. start : Replace(list, start, count, summary)[k] = list[k]
      BY <2>1, ReplaceType
    <3>3. Replace(list, start, count, summary)[start + 1] = summary
      BY <2>1, ReplaceAt
    <3>4. \A k \in start + 2 .. Len(Replace(list, start, count, summary)) :
            Replace(list, start, count, summary)[k] = list[k + count - 1]
      BY <2>1, ReplaceType
    <3> QED
      BY <2>1, <3>1, <3>2, <3>3, <3>4 DEF new
<1> HIDE DEF new
<1>2. ASSUME NEW k \in 1 .. Len(new), IsTool(new, k)
      PROVE  Owned(new, k)
  <2>1. k # start + 1
    BY <1>1, <1>2 DEF IsTool
  <2>2. ~(k <= start)
    <3>1. ASSUME k <= start PROVE FALSE
      <4>1. k = 1 /\ IsTool(list, 1) /\ 1 \in 1 .. Len(list)
        BY <1>1, <1>2, <3>1 DEF IsTool
      <4>2. Owned(list, 1)
        BY <4>1 DEF NoOrphans
      <4> QED
        BY <4>2 DEF Owned
    <3> QED
      BY <3>1
  <2> DEFINE j == k + count - 1
  <2>3. /\ j \in 1 .. Len(list) /\ IsTool(list, j) /\ j >= start + count + 1
    BY <1>1, <1>2, <2>1, <2>2 DEF IsTool
  <2>4. PICK a \in 1 .. j - 1 : OpensUnit(list, a) /\ \A m \in a + 1 .. j : IsTool(list, m)
    BY <2>3 DEF NoOrphans, Owned
  <2>5. a >= start + count + 1
    <3>1. ~IsTool(list, start + count + 1)
      BY <1>1, <2>3
    <3> QED
      BY <1>1, <2>3, <2>4, <3>1
  <2> DEFINE b == a - count + 1
  <2>6. b \in 1 .. k - 1 /\ b > start + 1 /\ b \in 1 .. Len(new) /\ b + count - 1 = a
    BY <1>1, <1>2, <2>4, <2>5
  <2>7. new[b] = list[a]
    <3>1. b \in start + 2 .. Len(new)
      BY <1>1, <2>6
    <3>2. new[b] = list[b + count - 1]
      BY <1>1, <3>1
    <3> QED
      BY <2>6, <3>2
  <2>8. ASSUME NEW m \in b + 1 .. k
        PROVE  IsTool(new, m)
    <3>1. m \in 1 .. Len(new) /\ m > start + 1 /\ m + count - 1 \in a + 1 .. j
      BY <1>1, <1>2, <2>6, <2>8
    <3>2. new[m] = list[m + count - 1]
      BY <1>1, <3>1
    <3> QED
      BY <2>4, <3>1, <3>2 DEF IsTool
  <2>9. OpensUnit(new, b)
    BY <2>4, <2>7 DEF OpensUnit
  <2> QED
    BY <2>6, <2>8, <2>9 DEF Owned
<1> QED
  BY <1>2 DEF NoOrphans, new

\* Compaction never cuts a tool result off from the answer that asked for it
\* (message.c:190-193), whatever the conversation, as long as it starts behind
\* the system message at most: compaction_bounds does.
THEOREM CompactKeepsUnits ==
  ASSUME NEW list \in Seq(Message), NEW cut \in [start : Nat, count : Nat],
         NEW summary \in Message, summary.role = "user", NoOrphans(list),
         cut.start = 0 \/ (cut.start = 1 /\ list[1].role = "system")
  PROVE  NoOrphans(Compact(list, cut, summary))
<1> DEFINE start == cut.start
           safe  == ToolSafePrefix(list, start, cut.count)
<1>1. CASE cut.count = 0 \/ start >= Len(list)
             \/ cut.count > Len(list) - start \/ safe = 0
  BY <1>1 DEF Compact
<1>2. CASE ~(cut.count = 0 \/ start >= Len(list)
               \/ cut.count > Len(list) - start \/ safe = 0)
  <2>1. start \in {0, 1} /\ cut.count \in Nat /\ Len(list) \in Nat /\ start < Len(list)
    BY <1>2
  <2>2. safe \in Nat \ {0} /\ start + safe <= Len(list)
    BY <1>2, <2>1, ToolSafePrefixBound
  <2>3. start + safe >= Len(list) \/ ~IsTool(list, start + safe + 1)
    BY <1>2, <2>1, CutIsClean
  <2>4. Compact(list, cut, summary) = Replace(list, start, safe, summary)
    BY <1>2 DEF Compact
  <2>5. start + safe = Len(list) \/ ~IsTool(list, start + safe + 1)
    BY <2>1, <2>2, <2>3
  <2> HIDE DEF start, safe
  <2>6. NoOrphans(Replace(list, start, safe, summary))
    BY <2>1, <2>2, <2>5, ReplaceKeepsUnits
  <2> QED
    BY <2>4, <2>6
<1> QED
  BY <1>1, <1>2

\* Appending a message to a conversation.
LEMMA AppendType ==
  ASSUME NEW list \in Seq(Message), NEW m \in Message
  PROVE  /\ Append(list, m) \in Seq(Message)
         /\ Len(Append(list, m)) = Len(list) + 1
         /\ \A k \in 1 .. Len(list) : Append(list, m)[k] = list[k]
         /\ Append(list, m)[Len(list) + 1] = m
OBVIOUS

\* Appending a message that is no tool result orphans nothing.
LEMMA AppendKeepsUnits ==
  ASSUME NEW list \in Seq(Message), NoOrphans(list), NEW m \in Message, m.role # "tool"
  PROVE  NoOrphans(Append(list, m))
<1> DEFINE new == Append(list, m)
<1>1. /\ Len(new) = Len(list) + 1 /\ Len(list) \in Nat
      /\ \A k \in 1 .. Len(list) : new[k] = list[k]
      /\ new[Len(list) + 1] = m
  OBVIOUS
<1> HIDE DEF new
<1>2. ASSUME NEW k \in 1 .. Len(new), IsTool(new, k)
      PROVE  Owned(new, k)
  <2>1. k \in 1 .. Len(list) /\ IsTool(list, k)
    BY <1>1, <1>2 DEF IsTool
  <2>2. PICK a \in 1 .. k - 1 : OpensUnit(list, a) /\ \A i \in a + 1 .. k : IsTool(list, i)
    BY <2>1 DEF NoOrphans, Owned
  <2>3. new[a] = list[a] /\ \A i \in a + 1 .. k : new[i] = list[i]
    BY <1>1, <2>1
  <2> QED
    BY <2>2, <2>3 DEF Owned, OpensUnit, IsTool
<1> QED
  BY <1>2 DEF NoOrphans, new

-----------------------------------------------------------------------------
(* Types. *)

\* What a step leaves alone keeps its types.
LEMMA Frame ==
  ASSUME TypeOK
  PROVE  /\ UNCHANGED turnVars => TurnTypes'
         /\ UNCHANGED hostVars => HostTypes'
         /\ UNCHANGED cursorVars => CursorTypes'
         /\ UNCHANGED requestVars => RequestTypes'
         /\ UNCHANGED retryVars => RetryTypes'
         /\ UNCHANGED compactVars => CompactTypes'
         /\ UNCHANGED toolVars => ToolTypes'
         /\ UNCHANGED approvalVars => ApprovalTypes'
         /\ UNCHANGED messages => messages' \in Seq(Message)
         /\ UNCHANGED continuations => continuations' \in Nat
<1>1. UNCHANGED turnVars => TurnTypes'
  BY DEF TypeOK, TurnTypes, turnVars
<1>2. UNCHANGED hostVars => HostTypes'
  BY DEF TypeOK, HostTypes, hostVars
<1>3. UNCHANGED cursorVars => CursorTypes'
  BY DEF TypeOK, CursorTypes, cursorVars
<1>4. UNCHANGED requestVars => RequestTypes'
  BY DEF TypeOK, RequestTypes, requestVars
<1>5. UNCHANGED retryVars => RetryTypes'
  BY DEF TypeOK, RetryTypes, retryVars
<1>6. UNCHANGED compactVars => CompactTypes'
  BY DEF TypeOK, CompactTypes, compactVars
<1>7. UNCHANGED toolVars => ToolTypes'
  BY DEF TypeOK, ToolTypes, toolVars
<1>8. UNCHANGED approvalVars => ApprovalTypes'
  BY DEF TypeOK, ApprovalTypes, approvalVars
<1>9. /\ UNCHANGED messages => messages' \in Seq(Message)
      /\ UNCHANGED continuations => continuations' \in Nat
  BY DEF TypeOK
<1> QED
  BY <1>1, <1>2, <1>3, <1>4, <1>5, <1>6, <1>7, <1>8, <1>9, Zenon

\* The constant messages are messages.
LEMMA MessageTypes ==
  /\ UserMessage \in Message
  /\ \A calls \in Seq(Call) : AssistantMessage(calls) \in Message
  /\ \A i \in Nat : ToolMessage(i) \in Message
BY DEF UserMessage, AssistantMessage, ToolMessage, Message, Roles

\* What a provider may answer is typed.
LEMMA AnswerTypes == Answers \subseteq Seq(Call)
<1> SUFFICES ASSUME NEW calls \in Answers PROVE calls \in Seq(Call)
  OBVIOUS
<1>1. PICK n \in 0 .. MaxCalls : calls \in [1 .. n -> Call]
  BY DEF Answers
<1>2. n \in Nat
  BY LoopAssumption
<1> QED
  BY <1>1, <1>2

\* The assembled assistant message and what is left of ctx are typed.
LEMMA AssembledType ==
  ASSUME TypeOK
  PROVE  /\ Assembled \in Message /\ Append(messages, Assembled) \in Seq(Message)
         /\ Taken \in Output
<1>1. (IF ctx.stop = "stop" THEN ctx.calls ELSE << >>) \in Seq(Call)
  BY DEF TypeOK, RequestTypes, Output
<1>2. Assembled \in Message
  BY <1>1, MessageTypes DEF Assembled
<1>3. Taken \in Output
  <2>1. ctx \in Output /\ << >> \in Seq(Call)
    BY DEF TypeOK, RequestTypes
  <2> QED
    BY <2>1 DEF Output, Taken
<1>4. messages \in Seq(Message)
  BY DEF TypeOK
<1>5. Append(messages, Assembled) \in Seq(Message)
  BY <1>2, <1>4, AppendType
<1> QED
  BY <1>2, <1>3, <1>5

\* start_model_request keeps the variables it touches typed.
LEMMA StartModelRequestType ==
  ASSUME TypeOK, NEW id \in Nat, NEW refusal \in {"none", "fatal"},
         StartModelRequest(id, refusal)
  PROVE  TurnTypes' /\ RequestTypes'
<1>1. NoOutput \in Output
  BY DEF NoOutput, Output
<1>2. \A e \in {"none", "retryable", "fatal"} : [NoOutput EXCEPT !.error = e] \in Output
  BY <1>1 DEF Output
<1>3. Flight(id, FALSE) \in [id : Nat, model : Models, summary : BOOLEAN]
  BY DEF TypeOK, HostTypes, Flight
<1>4. TurnTypes'
  BY DEF TypeOK, TurnTypes, StartModelRequest, AgentStates
<1>5. sequence' \in Nat /\ requestId' \in Nat /\ cancelRequested' \in BOOLEAN
      /\ requestDone' \in BOOLEAN /\ ctx' \in Output
  BY <1>1, <1>2 DEF StartModelRequest
<1>6. flight' \subseteq [id : Nat, model : Models, summary : BOOLEAN]
  BY <1>3 DEF TypeOK, RequestTypes, StartModelRequest
<1> QED
  BY <1>4, <1>5, <1>6 DEF RequestTypes

\* start_compaction_request keeps the variables it touches typed.
LEMMA StartCompactionRequestType ==
  ASSUME TypeOK, NEW list \in Seq(Message), NEW c \in Output,
         StartCompactionRequest(list), ctx' = c
  PROVE  TurnTypes' /\ RequestTypes' /\ CompactTypes' /\ messages' \in Seq(Message)
<1>1. CompactionBounds(list) \in [start : Nat, count : Nat]
  BY BoundsInside
<1>2. sequence + 1 \in Nat
  BY DEF TypeOK, RequestTypes
<1>3. Flight(sequence + 1, TRUE) \in [id : Nat, model : Models, summary : BOOLEAN]
  BY <1>2 DEF TypeOK, HostTypes, Flight
<1>4. TurnTypes'
  BY DEF TypeOK, TurnTypes, StartCompactionRequest, AgentStates
<1>5. CompactTypes' /\ messages' \in Seq(Message)
  BY <1>1 DEF TypeOK, CompactTypes, StartCompactionRequest
<1>6. flight' \subseteq [id : Nat, model : Models, summary : BOOLEAN]
  BY <1>3 DEF TypeOK, RequestTypes, StartCompactionRequest
<1>7. sequence' \in Nat /\ requestId' \in Nat /\ cancelRequested' \in BOOLEAN
      /\ requestDone' \in BOOLEAN /\ ctx' \in Output
  BY <1>2 DEF TypeOK, RequestTypes, StartCompactionRequest
<1> QED
  BY <1>4, <1>5, <1>6, <1>7 DEF RequestTypes

\* start_request, by either way, keeps the variables it touches typed.
LEMMA StartRequestType ==
  ASSUME TypeOK, NEW list \in Seq(Message), NEW c \in Output, StartRequest(list, c)
  PROVE  /\ TurnTypes' /\ RequestTypes' /\ RetryTypes' /\ CompactTypes'
         /\ messages' \in Seq(Message)
<1>1. CompactionBounds(list) \in [start : Nat, count : Nat] /\ NoBounds \in [start : Nat, count : Nat]
  BY BoundsInside DEF NoBounds
<1>2. sequence + 1 \in Nat /\ sequence + 2 \in Nat
  BY DEF TypeOK, RequestTypes
<1>3. RetryTypes'
  BY DEF StartRequest, RetryTypes
<1>4. CASE StartCompactionRequest(list) /\ ctx' = c
  BY <1>3, <1>4, StartCompactionRequestType
<1>5. CASE /\ messages' = Compact(list, CompactionBounds(list), UserMessage)
           /\ bounds' = NoBounds /\ compaction' = "idle" /\ skipCompaction' = FALSE
           /\ StartModelRequest(sequence + 2, "none")
  <2>1. messages' \in Seq(Message)
    BY <1>1, <1>5, CompactType, MessageTypes
  <2>2. TurnTypes' /\ RequestTypes'
    BY <1>2, <1>5, StartModelRequestType
  <2>3. CompactTypes'
    BY <1>1, <1>5 DEF CompactTypes
  <2> QED
    BY <1>3, <2>1, <2>2, <2>3
<1>6. CASE /\ messages' = list /\ skipCompaction' = FALSE
           /\ UNCHANGED << compaction, bounds >>
           /\ StartModelRequest(sequence + 1, "none")
  <2>1. TurnTypes' /\ RequestTypes'
    BY <1>2, <1>6, StartModelRequestType
  <2>2. CompactTypes' /\ messages' \in Seq(Message)
    BY <1>6 DEF TypeOK, CompactTypes
  <2> QED
    BY <1>3, <2>1, <2>2
<1> QED
  BY <1>4, <1>5, <1>6 DEF StartRequest

\* append_tool_result keeps the variables it touches typed.
LEMMA AppendResultType ==
  ASSUME TypeOK, NEW i \in Nat, AppendResult(i)
  PROVE  messages' \in Seq(Message) /\ toolIndex' \in Nat /\ TurnTypes'
<1>1. Append(messages, ToolMessage(i)) \in Seq(Message)
  BY MessageTypes, AppendType DEF TypeOK
<1>2. CASE /\ messages' = Append(messages, ToolMessage(i)) /\ toolIndex' = toolIndex + 1
           /\ state' = "wait_tool" /\ UNCHANGED << inTurn, resuming, alive >>
  BY <1>1, <1>2 DEF TypeOK, TurnTypes, CursorTypes, AgentStates
<1>3. CASE EndTurn("error") /\ UNCHANGED << messages, toolIndex >>
  BY <1>3 DEF TypeOK, TurnTypes, CursorTypes, EndTurn, AgentStates
<1> QED
  BY <1>2, <1>3 DEF AppendResult

\* Every step keeps the variables typed.  Only the start of a batch needs more
\* than their types: the cursor is then at an answer of the list.
LEMMA TypeNext ==
  ASSUME TypeOK, CursorInv, [Next]_vars
  PROVE  TypeOK'
<1>1. CASE Start
  <2>1. TurnTypes'
    BY <1>1 DEF TypeOK, Start, TurnTypes, AgentStates
  <2>2. messages' \in Seq(Message)
    BY <1>1, MessageTypes, AppendType DEF TypeOK, Start
  <2>3. HostTypes'
    BY <1>1 DEF TypeOK, Start, TokenAtStart, HostTypes
  <2>4. RetryTypes'
    BY <1>1 DEF TypeOK, Start, RetryTypes
  <2>5. continuations' \in Nat
    BY <1>1 DEF TypeOK, Start
  <2>6. ApprovalTypes'
    BY <1>1 DEF TypeOK, Start, ApprovalTypes, approvalVars
  <2> QED
    BY <1>1, <2>1, <2>2, <2>3, <2>4, <2>5, <2>6, Frame DEF TypeOK, Start
<1>2. CASE Resume
  <2>1. TurnTypes'
    BY <1>2 DEF TypeOK, Resume, TurnTypes
  <2> QED
    BY <1>2, <2>1, Frame DEF TypeOK, Resume
<1>3. CASE CancelRequest
  <2>1. RequestTypes'
    BY <1>3 DEF TypeOK, CancelRequest, RequestTypes, Output
  <2>2. CompactTypes'
    BY <1>3 DEF TypeOK, CancelRequest, CompactTypes
  <2> QED
    BY <1>3, <2>1, <2>2, Frame DEF TypeOK, CancelRequest
<1>4. CASE CancelWaits
  <2>1. TurnTypes'
    BY <1>4 DEF TypeOK, CancelWaits, TurnTypes, Suspend
  <2>2. RequestTypes'
    BY <1>4 DEF TypeOK, CancelWaits, RequestTypes
  <2> QED
    BY <1>4, <2>1, <2>2, Frame DEF TypeOK, CancelWaits
<1>5. CASE CancelRelease
  <2>1. ToolTypes'
    <3>1. \A t \in ToolStates : AskToStop(t) \in ToolStates
      BY DEF AskToStop, ToolStates
    <3>2. task \in {"running", "cancelling"} => AskToStop(task) \in {"none"} \cup ToolStates
      BY <3>1 DEF ToolStates
    <3>3. StoppedBatch \in Seq(ToolStates)
      BY <3>1 DEF TypeOK, ToolTypes, StoppedBatch
    <3>4. batch' \in Seq(ToolStates)
      <4>1. batch' = batch \/ batch' = << >> \/ batch' = StoppedBatch
        BY <1>5 DEF CancelRelease
      <4>2. batch \in Seq(ToolStates)
        BY DEF TypeOK, ToolTypes
      <4>3. << >> \in Seq(ToolStates)
        OBVIOUS
      <4> QED
        BY <3>3, <4>1, <4>2, <4>3, Zenon
    <3>5. task' \in {"none"} \cup ToolStates
      BY <1>5, <3>2 DEF CancelRelease
    <3> QED
      BY <1>5, <3>4, <3>5 DEF TypeOK, ToolTypes, CancelRelease
  <2>2. TurnTypes'
    BY <1>5 DEF TypeOK, TurnTypes, CancelRelease, Suspend, EndTurn, AgentStates
  <2>3. CompactTypes'
    BY <1>5 DEF TypeOK, CompactTypes, CancelRelease, NoBounds
  <2> QED
    BY <1>5, <2>1, <2>2, <2>3, Frame DEF TypeOK, CancelRelease
<1>6. CASE BeginTurn
  <2>1. StartRequest(messages, ctx) /\ messages \in Seq(Message) /\ ctx \in Output
    BY <1>6 DEF TypeOK, RequestTypes, BeginTurn
  <2> QED
    BY <1>6, <2>1, StartRequestType, Frame DEF TypeOK, BeginTurn
<1>7. CASE AwaitModel
  <2>1. TurnTypes'
    BY <1>7 DEF TypeOK, AwaitModel, TurnTypes, Suspend
  <2> QED
    BY <1>7, <2>1, Frame DEF TypeOK, AwaitModel
<1>8. CASE FinishCompaction
  <2>1. TurnTypes'
    BY <1>8 DEF TypeOK, FinishCompaction, TurnTypes, AgentStates
  <2>2. messages' \in Seq(Message)
    BY <1>8, CompactType, MessageTypes DEF TypeOK, FinishCompaction, CompactTypes
  <2>3. CompactTypes'
    BY <1>8 DEF TypeOK, FinishCompaction, CompactTypes, NoBounds
  <2> QED
    BY <1>8, <2>1, <2>2, <2>3, Frame DEF TypeOK, FinishCompaction
<1>9. CASE RetryRequest
  <2>1. StartModelRequest(sequence + 1, "fatal") /\ sequence + 1 \in Nat
    BY <1>9 DEF TypeOK, RequestTypes, RetryRequest
  <2>2. RetryTypes'
    BY <1>9 DEF TypeOK, RetryTypes, RetryRequest
  <2> QED
    BY <1>9, <2>1, <2>2, StartModelRequestType, Frame DEF TypeOK, RetryRequest
<1>10. CASE ScheduleRetry
  <2>1. TurnTypes'
    BY <1>10 DEF TypeOK, ScheduleRetry, TurnTypes, Suspend
  <2>2. RetryTypes'
    BY <1>10 DEF TypeOK, ScheduleRetry, RetryTypes
  <2> QED
    BY <1>10, <2>1, <2>2, Frame DEF TypeOK, ScheduleRetry
<1>11. CASE FailTurn
  <2>1. TurnTypes'
    BY <1>11 DEF TypeOK, FailTurn, TurnTypes, EndTurn, AgentStates
  <2> QED
    BY <1>11, <2>1, Frame DEF TypeOK, FailTurn
<1>12. CASE ContinueAnswer
  <2>1. StartRequest(Append(messages, Assembled), Taken) /\ continuations' \in Nat
    BY <1>12 DEF TypeOK, ContinueAnswer
  <2> QED
    BY <1>12, <2>1, StartRequestType, AssembledType, Frame DEF TypeOK, ContinueAnswer
<1>13. CASE GiveUp
  <2>1. TurnTypes'
    BY <1>13 DEF TypeOK, GiveUp, TurnTypes, EndTurn, AgentStates
  <2>2. RequestTypes' /\ messages' \in Seq(Message)
    BY <1>13, AssembledType DEF TypeOK, GiveUp, RequestTypes
  <2>3. continuations' \in Nat
    BY <1>13 DEF TypeOK, GiveUp
  <2> QED
    BY <1>13, <2>1, <2>2, <2>3, Frame DEF TypeOK, GiveUp
<1>14. CASE FinalAnswer
  <2>1. TurnTypes'
    BY <1>14 DEF TypeOK, FinalAnswer, TurnTypes, EndTurn, AgentStates
  <2>2. RequestTypes' /\ messages' \in Seq(Message)
    BY <1>14, AssembledType DEF TypeOK, FinalAnswer, RequestTypes
  <2>3. continuations' \in Nat
    BY <1>14 DEF TypeOK, FinalAnswer
  <2> QED
    BY <1>14, <2>1, <2>2, <2>3, Frame DEF TypeOK, FinalAnswer
<1>15. CASE CallTools
  <2>1. TurnTypes'
    BY <1>15 DEF TypeOK, CallTools, TurnTypes, Suspend, AgentStates
  <2>2. RequestTypes' /\ messages' \in Seq(Message)
    BY <1>15, AssembledType DEF TypeOK, CallTools, RequestTypes
  <2>3. continuations' \in Nat
    BY <1>15 DEF TypeOK, CallTools
  <2>4. CursorTypes'
    BY <1>15 DEF TypeOK, CallTools, CursorTypes
  <2>5. ToolTypes'
    BY <1>15 DEF TypeOK, CallTools, ToolTypes
  <2>6. ApprovalTypes'
    BY <1>15 DEF TypeOK, CallTools, ApprovalTypes
  <2> QED
    BY <1>15, <2>1, <2>2, <2>3, <2>4, <2>5, <2>6, Frame DEF TypeOK, CallTools
<1>16. CASE AwaitUser
  <2>1. TurnTypes'
    BY <1>16 DEF TypeOK, AwaitUser, TurnTypes, Suspend
  <2> QED
    BY <1>16, <2>1, Frame DEF TypeOK, AwaitUser
<1>17. CASE RejectCall
  <2>1. AppendResult(toolIndex) /\ toolIndex \in Nat
    BY <1>17 DEF TypeOK, CursorTypes, RejectCall
  <2>2. messages' \in Seq(Message) /\ toolIndex' \in Nat /\ TurnTypes'
    BY <2>1, AppendResultType
  <2>3. ApprovalTypes'
    BY <1>17 DEF TypeOK, ApprovalTypes, RejectCall
  <2>4. CursorTypes'
    BY <1>17, <2>2 DEF TypeOK, CursorTypes, RejectCall
  <2> QED
    BY <1>17, <2>2, <2>3, <2>4, Frame DEF TypeOK, RejectCall
<1>18. CASE AcceptCall
  <2>1. TurnTypes'
    BY <1>18 DEF TypeOK, AcceptCall, TurnTypes, AgentStates
  <2>2. ApprovalTypes'
    BY <1>18 DEF TypeOK, AcceptCall, ApprovalTypes
  <2> QED
    BY <1>18, <2>1, <2>2, Frame DEF TypeOK, AcceptCall
<1>19. CASE StartBatch
  <2>1. Len(ToolCalls) \in Nat /\ Len(ToolCalls) >= 2
    <3>1. toolMsg \in 1 .. Len(messages)
      BY <1>19 DEF StartBatch, CursorInv
    <3>2. messages[toolMsg] \in Message
      BY <3>1 DEF TypeOK
    <3>3. ToolCalls \in Seq(Call)
      BY <3>2 DEF ToolCalls, Message
    <3> QED
      BY <1>19, <3>3 DEF StartBatch, Eligible
  <2>2. batch' \in [1 .. Len(ToolCalls) -> ToolStates]
    BY <1>19 DEF StartBatch, ToolStates
  <2>3. batch' \in Seq(ToolStates) /\ started' \in Seq(Nat)
    BY <1>19, <2>1, <2>2 DEF StartBatch
  <2>4. ToolTypes'
    BY <1>19, <2>3 DEF TypeOK, ToolTypes, StartBatch
  <2> QED
    BY <1>19, <2>4, Frame DEF TypeOK, StartBatch
<1>20. CASE PollBatch
  <2>1. messages' \in Seq(Message) /\ TurnTypes' /\ toolIndex' \in Nat /\ batch' \in Seq(ToolStates)
    <3>1. CASE Suspend /\ UNCHANGED << state, batch, messages, toolIndex >>
      BY <3>1 DEF TypeOK, TurnTypes, CursorTypes, ToolTypes, Suspend
    <3>2. CASE batch' = << >> /\ \E n \in 0 .. Len(batch) :
                  /\ \A i \in 1 .. n : ToolCalls[i].id
                  /\ messages' = messages \o [i \in 1 .. n |-> ToolMessage(i)]
                  /\ \/ /\ n = Len(batch) /\ toolIndex' = n + 1
                        /\ UNCHANGED << state, inTurn, resuming, alive >>
                     \/ /\ n < Len(batch) /\ ~ToolCalls[n + 1].id
                        /\ EndTurn("error") /\ UNCHANGED toolIndex
      <4>1. PICK n \in 0 .. Len(batch) :
               /\ messages' = messages \o [i \in 1 .. n |-> ToolMessage(i)]
               /\ \/ /\ toolIndex' = n + 1
                     /\ UNCHANGED << state, inTurn, resuming, alive >>
                  \/ EndTurn("error") /\ UNCHANGED toolIndex
        BY <3>2
      <4>2. n \in Nat
        BY DEF TypeOK, ToolTypes
      <4>3. [i \in 1 .. n |-> ToolMessage(i)] \in Seq(Message)
        BY <4>2, MessageTypes
      <4>4. messages' \in Seq(Message)
        BY <4>1, <4>3 DEF TypeOK
      <4>5. toolIndex' \in Nat
        BY <4>1, <4>2 DEF TypeOK, CursorTypes
      <4>6. TurnTypes'
        BY <4>1, Zenon DEF TypeOK, TurnTypes, EndTurn, AgentStates
      <4> QED
        BY <3>2, <4>4, <4>5, <4>6
    <3> QED
      BY <1>20, <3>1, <3>2 DEF PollBatch
  <2>2. CursorTypes' /\ ToolTypes'
    BY <1>20, <2>1 DEF TypeOK, CursorTypes, ToolTypes, PollBatch
  <2> QED
    BY <1>20, <2>1, <2>2, Frame DEF TypeOK, PollBatch
<1>21. CASE PollTask
  <2>1. messages' \in Seq(Message) /\ TurnTypes' /\ toolIndex' \in Nat /\ task' \in {"none"} \cup ToolStates
    <3>1. CASE Suspend /\ UNCHANGED << state, task, messages, toolIndex >>
      BY <3>1 DEF TypeOK, TurnTypes, CursorTypes, ToolTypes, Suspend
    <3>2. CASE task' = "none" /\ AppendResult(toolIndex)
      BY <3>2, AppendResultType DEF TypeOK, CursorTypes
    <3> QED
      BY <1>21, <3>1, <3>2 DEF PollTask
  <2>2. CursorTypes' /\ ToolTypes'
    BY <1>21, <2>1 DEF TypeOK, CursorTypes, ToolTypes, PollTask
  <2> QED
    BY <1>21, <2>1, <2>2, Frame DEF TypeOK, PollTask
<1>22. CASE DenyCall
  <2>1. messages' \in Seq(Message) /\ TurnTypes' /\ toolIndex' \in Nat
    BY <1>22, AppendResultType DEF TypeOK, CursorTypes, DenyCall
  <2>2. CursorTypes'
    BY <1>22, <2>1 DEF TypeOK, CursorTypes, DenyCall
  <2> QED
    BY <1>22, <2>1, <2>2, Frame DEF TypeOK, DenyCall
<1>23. CASE AskUser
  <2>1. ApprovalTypes'
    <3>1. toolIndex \in Nat /\ grants \subseteq Nat
          /\ approval \in [pending : BOOLEAN, decided : BOOLEAN, granted : BOOLEAN, call : Nat]
      BY DEF TypeOK, CursorTypes, ApprovalTypes
    <3>2. \/ \E yes \in BOOLEAN :
               /\ approval' = [pending |-> TRUE, decided |-> TRUE, granted |-> yes,
                               call |-> toolIndex]
               /\ grants' = IF yes THEN grants \cup {toolIndex} ELSE grants
          \/ /\ approval' = [approval EXCEPT !.pending = TRUE, !.decided = FALSE,
                                             !.call = toolIndex]
             /\ grants' = grants
      BY <1>23 DEF AskUser
    <3>3. approval' \in [pending : BOOLEAN, decided : BOOLEAN, granted : BOOLEAN, call : Nat]
      <4>1. CASE \E yes \in BOOLEAN :
                   approval' = [pending |-> TRUE, decided |-> TRUE, granted |-> yes,
                                call |-> toolIndex]
        BY <3>1, <4>1
      <4>2. CASE approval' = [approval EXCEPT !.pending = TRUE, !.decided = FALSE,
                                              !.call = toolIndex]
        BY <3>1, <4>2
      <4> QED
        BY <3>2, <4>1, <4>2
    <3>4. grants' \subseteq Nat
      BY <3>1, <3>2
    <3> QED
      BY <3>3, <3>4 DEF ApprovalTypes
  <2>2. TurnTypes'
    BY <1>23 DEF TypeOK, AskUser, TurnTypes, Suspend, AgentStates
  <2>3. HostTypes'
    BY <1>23 DEF TypeOK, AskUser, HostTypes
  <2> QED
    BY <1>23, <2>1, <2>2, <2>3, Frame DEF TypeOK, AskUser
<1>24. CASE StartCall
  <2>1. messages' \in Seq(Message) /\ TurnTypes' /\ toolIndex' \in Nat /\ task' \in {"none"} \cup ToolStates
    <3>1. CASE task' = "running" /\ Suspend /\ UNCHANGED << state, messages, toolIndex >>
      BY <3>1 DEF TypeOK, TurnTypes, CursorTypes, ToolStates, Suspend
    <3>2. CASE UNCHANGED task /\ AppendResult(toolIndex)
      BY <3>2, AppendResultType DEF TypeOK, CursorTypes, ToolTypes
    <3> QED
      BY <1>24, <3>1, <3>2 DEF StartCall
  <2>2. CursorTypes' /\ ToolTypes'
    BY <1>24, <2>1 DEF TypeOK, CursorTypes, ToolTypes, StartCall
  <2>3. ApprovalTypes'
    BY <1>24 DEF TypeOK, ApprovalTypes, StartCall, SpendGrant
  <2> QED
    BY <1>24, <2>1, <2>2, <2>3, Frame DEF TypeOK, StartCall
<1>25. CASE ToolsDone
  <2>1. StartRequest(messages, ctx) /\ messages \in Seq(Message) /\ ctx \in Output
    BY <1>25 DEF TypeOK, RequestTypes, ToolsDone
  <2> QED
    BY <1>25, <2>1, StartRequestType, Frame DEF TypeOK, ToolsDone
<1>26. CASE Cancel
  <2>1. HostTypes'
    BY <1>26 DEF TypeOK, Cancel, HostTypes
  <2> QED
    BY <1>26, <2>1, Frame DEF TypeOK, Cancel
<1>27. CASE SetModel
  <2>1. HostTypes'
    BY <1>27 DEF TypeOK, SetModel, HostTypes
  <2> QED
    BY <1>27, <2>1, Frame DEF TypeOK, SetModel
<1>28. CASE SetTrusted
  <2>1. HostTypes'
    BY <1>28 DEF TypeOK, SetTrusted, HostTypes
  <2> QED
    BY <1>28, <2>1, Frame DEF TypeOK, SetTrusted
<1>29. CASE Decide
  <2>1. ApprovalTypes'
    BY <1>29 DEF TypeOK, Decide, ApprovalTypes
  <2>2. HostTypes'
    BY <1>29 DEF TypeOK, Decide, HostTypes
  <2> QED
    BY <1>29, <2>1, <2>2, Frame DEF TypeOK, Decide
<1>30. CASE Destroy
  <2>1. TurnTypes'
    BY <1>30 DEF TypeOK, Destroy, TurnTypes
  <2>2. RequestTypes'
    BY <1>30 DEF TypeOK, Destroy, RequestTypes
  <2>3. ToolTypes'
    BY <1>30 DEF TypeOK, Destroy, ToolTypes
  <2> QED
    BY <1>30, <2>1, <2>2, <2>3, Frame DEF TypeOK, Destroy
<1>31. CASE ModelDelta
  <2>1. RequestTypes'
    BY <1>31 DEF TypeOK, ModelDelta, RequestTypes, Output
  <2> QED
    BY <1>31, <2>1, Frame DEF TypeOK, ModelDelta
<1>32. CASE RequestEnds
  <2>1. PICK f \in flight : ModelDone(f) \/ ModelError(f) \/ SummaryEnds(f)
    BY <1>32 DEF RequestEnds
  <2>2. CASE ModelDone(f)
    <3>1. RequestTypes'
      BY <2>2, AnswerTypes DEF TypeOK, RequestTypes, ModelDone, Output
    <3> QED
      BY <2>2, <3>1, Frame DEF TypeOK, ModelDone
  <2>3. CASE ModelError(f)
    <3>1. RequestTypes'
      BY <2>3 DEF TypeOK, RequestTypes, ModelError, Output
    <3> QED
      BY <2>3, <3>1, Frame DEF TypeOK, ModelError
  <2>4. CASE SummaryEnds(f)
    <3>1. RequestTypes' /\ CompactTypes'
      BY <2>4 DEF TypeOK, RequestTypes, CompactTypes, SummaryEnds
    <3> QED
      BY <2>4, <3>1, Frame DEF TypeOK, SummaryEnds
  <2> QED
    BY <2>1, <2>2, <2>3, <2>4
<1>33. CASE RetryTimer
  <2>1. RetryTypes'
    BY <1>33 DEF TypeOK, RetryTimer, RetryTypes
  <2> QED
    BY <1>33, <2>1, Frame DEF TypeOK, RetryTimer
<1>34. CASE TaskEnds
  <2>1. ToolTypes'
    BY <1>34 DEF TypeOK, TaskEnds, ToolTypes, ToolStates
  <2> QED
    BY <1>34, <2>1, Frame DEF TypeOK, TaskEnds
<1>35. CASE \E i \in 1 .. MaxCalls : BatchCallEnds(i)
  <2>1. ToolTypes'
    BY <1>35 DEF TypeOK, BatchCallEnds, ToolTypes, ToolStates
  <2> QED
    BY <1>35, <2>1, Frame DEF TypeOK, BatchCallEnds
<1>36. CASE UNCHANGED vars
  BY <1>36, Frame DEF TypeOK, vars
<1> QED
    BY <1>1, <1>2, <1>3, <1>4, <1>5, <1>6, <1>7, <1>8, <1>9, <1>10, <1>11, <1>12, <1>13, <1>14,
     <1>15, <1>16, <1>17, <1>18, <1>19, <1>20, <1>21, <1>22, <1>23, <1>24, <1>25, <1>26, <1>27,
     <1>28, <1>29, <1>30, <1>31, <1>32, <1>33, <1>34, <1>35, <1>36 DEF Next, Pass, User

-----------------------------------------------------------------------------
(* What a step that leaves the tools has to show. *)

\* The cursor means nothing outside the tool states.
LEMMA Elsewhere ==
  ASSUME state' \notin {"wait_tool", "wait_user"}
  PROVE  CursorInv' /\ AskInv'
BY DEF CursorInv, AskInv

\* No grant is left when no tool call is being decided or started.
LEMMA Ungranted ==
  ASSUME GrantInv
  PROVE  /\ state \in {"ready", "wait_model", "done", "error"} => ~approval.granted
         /\ ~approval'.granted => GrantInv'
<1>1. state \in {"ready", "wait_model", "done", "error"} => ~approval.granted
  BY DEF GrantInv
<1>2. ~approval'.granted => GrantInv'
  BY DEF GrantInv
<1> QED
  BY <1>1, <1>2

\* A list that only grows keeps the range of a compaction where it is.
LEMMA Extended ==
  ASSUME TypeOK, BoundsFit, messages' \in Seq(Message), bounds' = bounds,
         Len(messages') >= Len(messages),
         \A k \in 1 .. Len(messages) : messages'[k] = messages[k]
  PROVE  BoundsFit'
<1>1. CASE bounds.start = 0
  BY <1>1 DEF BoundsFit
<1>2. CASE messages # << >> /\ messages[1].role = "system" /\ bounds.start = 1
  <2>1. 1 \in 1 .. Len(messages)
    BY <1>2 DEF TypeOK
  <2>2. messages'[1] = messages[1] /\ messages' # << >>
    BY <2>1
  <2> QED
    BY <1>2, <2>2 DEF BoundsFit
<1> QED
  BY <1>1, <1>2 DEF BoundsFit

\* What follows a conversation when n results are appended to it.
LEMMA Concatenated ==
  ASSUME NEW list \in Seq(Message), NEW n \in Nat, NEW results \in Seq(Message),
         Len(results) = n
  PROVE  /\ list \o results \in Seq(Message) /\ Len(list \o results) = Len(list) + n
         /\ \A k \in 1 .. Len(list) : (list \o results)[k] = list[k]
         /\ \A k \in Len(list) + 1 .. Len(list) + n :
              (list \o results)[k] = results[k - Len(list)]
OBVIOUS

\* Results appended to an open unit that reaches the end of the list belong to
\* it.
LEMMA ResultsKeepUnits ==
  ASSUME messages \in Seq(Message), Unorphaned, messages' \in Seq(Message),
         NEW a \in 1 .. Len(messages), OpensUnit(messages, a),
         \A m \in a + 1 .. Len(messages) : IsTool(messages, m),
         Len(messages') >= Len(messages),
         \A k \in 1 .. Len(messages) : messages'[k] = messages[k],
         \A k \in Len(messages) + 1 .. Len(messages') : IsTool(messages', k)
  PROVE  Unorphaned'
<1>1. SUFFICES ASSUME NEW k \in 1 .. Len(messages'), IsTool(messages', k)
               PROVE  Owned(messages', k)
  BY DEF Unorphaned, NoOrphans
<1>2. CASE k \in 1 .. Len(messages)
  <2>1. IsTool(messages, k)
    BY <1>1, <1>2 DEF IsTool
  <2>2. PICK b \in 1 .. k - 1 : OpensUnit(messages, b) /\ \A i \in b + 1 .. k : IsTool(messages, i)
    BY <1>2, <2>1 DEF Unorphaned, NoOrphans, Owned
  <2>3. messages'[b] = messages[b] /\ \A i \in b + 1 .. k : messages'[i] = messages[i]
    BY <1>2
  <2> QED
    BY <2>2, <2>3 DEF Owned, OpensUnit, IsTool
<1>3. CASE k > Len(messages)
  <2>1. a \in 1 .. k - 1 /\ Len(messages) \in Nat /\ Len(messages') \in Nat
    BY <1>3
  <2>2. OpensUnit(messages', a)
    BY DEF OpensUnit
  <2>3. ASSUME NEW m \in a + 1 .. k PROVE IsTool(messages', m)
    <3>1. CASE m <= Len(messages)
      <4>1. m \in a + 1 .. Len(messages) /\ m \in 1 .. Len(messages)
        BY <2>1, <3>1
      <4> QED
        BY <4>1 DEF IsTool
    <3>2. CASE m > Len(messages)
      BY <2>1, <3>2
    <3> QED
      BY <2>1, <3>1, <3>2
  <2> QED
    BY <2>1, <2>2, <2>3 DEF Owned
<1> QED
  BY <1>2, <1>3

-----------------------------------------------------------------------------
(* The steps that extend the conversation. *)

\* start_request leaves the tools, keeps tool units whole and takes the range
\* of a new compaction from the list it sends.
LEMMA StartRequestInv ==
  ASSUME TypeOK, BoundsFit, NEW list \in Seq(Message), NoOrphans(list),
         Len(list) >= Len(messages),
         \A k \in 1 .. Len(messages) : list[k] = messages[k],
         NEW c \in Output, StartRequest(list, c),
         inTurn, batch' = << >>, ~approval'.granted, GrantInv
  PROVE  LoopInv'
<1>1. /\ CompactionBounds(list) \in [start : Nat, count : Nat]
      /\ CompactionBounds(list).count > 0 =>
           /\ CompactionBounds(list).start < Len(list)
           /\ CompactionBounds(list).start = 0
                \/ (CompactionBounds(list).start = 1 /\ list[1].role = "system")
  BY BoundsInside
<1>2. /\ state' \in {"wait_model", "error"} /\ ~resuming'
      /\ state' = "wait_model" => inTurn'
  BY DEF StartRequest, StartCompactionRequest, StartModelRequest
<1>3. TurnInv'
  BY <1>2 DEF TurnInv
<1>4. CursorInv' /\ AskInv' /\ GrantInv'
  BY <1>2, Elsewhere, Ungranted
<1>5. CASE StartCompactionRequest(list) /\ CompactionBounds(list).count > 0
  <2>1. messages' = list /\ bounds' = CompactionBounds(list)
    BY <1>5 DEF StartCompactionRequest
  <2>2. CompactionBounds(list).start < Len(list) => list # << >>
    BY <1>1
  <2> QED
    BY <1>1, <1>3, <1>4, <1>5, <2>1, <2>2 DEF LoopInv, BoundsFit, Unorphaned
<1>6. CASE /\ messages' = Compact(list, CompactionBounds(list), UserMessage)
           /\ bounds' = NoBounds /\ CompactionBounds(list).count > 0
  <2>1. UserMessage.role = "user" /\ UserMessage \in Message
    BY MessageTypes DEF UserMessage
  <2>2. Unorphaned'
    BY <1>1, <1>6, <2>1, CompactKeepsUnits DEF Unorphaned
  <2>3. BoundsFit'
    BY <1>6 DEF BoundsFit, NoBounds
  <2> QED
    BY <1>3, <1>4, <2>2, <2>3 DEF LoopInv
<1>7. CASE messages' = list /\ bounds' = bounds
  BY <1>3, <1>4, <1>7, Extended DEF LoopInv, Unorphaned
<1> QED
  BY <1>5, <1>6, <1>7 DEF StartRequest

\* append_tool_result for the call at the cursor: one more result of the open
\* unit, or the end of the turn.
LEMMA AppendResultInv ==
  ASSUME TypeOK, BoundsFit, TurnInv, CursorInv, Unorphaned,
         state \in {"wait_tool", "wait_user"}, batch = << >>,
         toolIndex <= Len(ToolCalls), AppendResult(toolIndex),
         UNCHANGED << toolMsg, batch, bounds >>
  PROVE  BoundsFit' /\ TurnInv' /\ CursorInv' /\ AskInv' /\ Unorphaned'
<1>1. /\ toolMsg \in 1 .. Len(messages) /\ OpensUnit(messages, toolMsg)
      /\ toolIndex \in 1 .. Len(ToolCalls) + 1
      /\ Len(messages) = toolMsg + toolIndex - 1
      /\ \A i \in 1 .. toolIndex - 1 : messages[toolMsg + i] = ToolMessage(i)
  BY DEF CursorInv
<1>2. messages \in Seq(Message) /\ toolIndex \in Nat /\ toolMsg \in Nat
  BY DEF TypeOK, CursorTypes
<1>3. CASE EndTurn("error") /\ UNCHANGED << messages, toolIndex >>
  <2>1. BoundsFit' /\ Unorphaned'
    BY <1>3 DEF BoundsFit, Unorphaned
  <2>2. state' = "error" /\ ~resuming'
    BY <1>3 DEF EndTurn
  <2>3. TurnInv'
    BY <2>2 DEF TurnInv
  <2> QED
    BY <2>1, <2>2, <2>3, Elsewhere
<1>4. CASE /\ messages' = Append(messages, ToolMessage(toolIndex)) /\ toolIndex' = toolIndex + 1
           /\ state' = "wait_tool" /\ UNCHANGED << inTurn, resuming, alive >>
  <2>1. /\ messages' \in Seq(Message) /\ Len(messages') = Len(messages) + 1
        /\ \A k \in 1 .. Len(messages) : messages'[k] = messages[k]
        /\ messages'[Len(messages) + 1] = ToolMessage(toolIndex)
    BY <1>2, <1>4, AppendType, MessageTypes
  <2>2. BoundsFit'
    BY <2>1, Extended
  <2>3. TurnInv' /\ AskInv'
    BY <1>4 DEF TurnInv, AskInv
  <2>4. IsTool(messages', Len(messages) + 1)
    BY <2>1 DEF IsTool, ToolMessage
  <2>5. \A m \in toolMsg + 1 .. Len(messages) : IsTool(messages, m)
    <3>1. TAKE m \in toolMsg + 1 .. Len(messages)
    <3>2. m - toolMsg \in 1 .. toolIndex - 1 /\ toolMsg + (m - toolMsg) = m
      BY <1>1, <1>2
    <3>3. messages[m] = ToolMessage(m - toolMsg)
      BY <1>1, <3>2
    <3> QED
      BY <3>3 DEF IsTool, ToolMessage
  <2>6. Unorphaned'
    <3>1. \A k \in Len(messages) + 1 .. Len(messages') : IsTool(messages', k)
      BY <1>2, <2>1, <2>4
    <3>2. Len(messages') >= Len(messages)
      BY <1>2, <2>1
    <3> QED
      BY <1>1, <1>2, <2>1, <2>5, <3>1, <3>2, ResultsKeepUnits
  <2>7. CursorInv'
    <3>1. toolMsg' = toolMsg /\ batch' = << >> /\ toolMsg' \in 1 .. Len(messages')
      BY <1>1, <2>1
    <3>2. messages'[toolMsg] = messages[toolMsg]
      BY <1>1, <2>1
    <3>3. OpensUnit(messages', toolMsg') /\ ToolCalls' = ToolCalls
      BY <1>1, <3>1, <3>2 DEF OpensUnit, ToolCalls
    <3>4. Len(ToolCalls) \in Nat
      <4>1. messages[toolMsg] \in Message
        BY <1>1, <1>2
      <4> QED
        BY <4>1 DEF Message, ToolCalls
    <3>a. /\ toolIndex \in Nat /\ toolIndex >= 1 /\ toolIndex' = toolIndex + 1
          /\ Len(messages) \in Nat /\ Len(messages) = toolMsg + toolIndex - 1
          /\ Len(messages') = Len(messages) + 1
      BY <1>1, <1>2, <1>4, <2>1
    <3>5. toolIndex' \in 1 .. Len(ToolCalls) + 1 /\ Len(messages') = toolMsg' + toolIndex' - 1
      BY <1>2, <3>a, <3>1, <3>4
    <3>6. ASSUME NEW i \in 1 .. toolIndex' - 1
          PROVE  messages'[toolMsg' + i] = ToolMessage(i)
      <4>1. CASE i = toolIndex
        BY <1>1, <1>2, <2>1, <3>1, <4>1
      <4>2. CASE i # toolIndex
        <5>1. i \in 1 .. toolIndex - 1 /\ toolMsg + i \in 1 .. Len(messages)
          BY <1>1, <1>2, <1>4, <4>2
        <5> QED
          BY <1>1, <2>1, <3>1, <5>1
      <4> QED
        BY <4>1, <4>2
    <3> QED
      BY <3>1, <3>3, <3>5, <3>6 DEF CursorInv
  <2> QED
    BY <2>2, <2>3, <2>6, <2>7
<1> QED
  BY <1>3, <1>4 DEF AppendResult

-----------------------------------------------------------------------------
(* The steps that leave the conversation alone. *)

\* A step that touches neither the conversation, the cursor, the tools nor the
\* approval, and does not leave a granted call behind.
LEMMA Quiet ==
  ASSUME LoopInv,
         UNCHANGED << state, inTurn, messages, toolMsg, toolIndex, bounds, task, batch,
                      approval, grants, host >>,
         resuming' => inTurn,
         approval.granted /\ state = "wait_tool" => resuming' /\ ~cancelled'
  PROVE  LoopInv'
<1>1. BoundsFit' /\ Unorphaned'
  BY DEF LoopInv, BoundsFit, Unorphaned
<1>2. TurnInv'
  BY DEF LoopInv, TurnInv
<1>3. CursorInv'
  BY DEF LoopInv, CursorInv, ToolCalls
<1>4. AskInv'
  BY DEF LoopInv, AskInv, ToolCalls, NextCall
<1>5. GrantInv'
  BY DEF LoopInv, GrantInv, ToolCalls, NextCall
<1> QED
  BY <1>1, <1>2, <1>3, <1>4, <1>5 DEF LoopInv

\* The loop leaves its tools for a state without a cursor.
LEMMA Leaves ==
  ASSUME LoopInv, UNCHANGED messages, bounds' \in {bounds, NoBounds},
         state' \in {"ready", "wait_model", "done", "error", "cancelled"},
         state' = "wait_model" \/ resuming' => inTurn', batch' = << >>,
         state' = "cancelled" \/ ~approval'.granted
  PROVE  LoopInv'
<1>1. Unorphaned' /\ BoundsFit'
  BY DEF LoopInv, BoundsFit, Unorphaned, NoBounds
<1>2. TurnInv'
  BY DEF TurnInv
<1>3. CursorInv' /\ AskInv'
  BY Elsewhere
<1>4. GrantInv'
  BY DEF GrantInv
<1> QED
  BY <1>1, <1>2, <1>3, <1>4 DEF LoopInv

\* A message that is no tool result is appended and the tools are left, or not
\* reached yet.
LEMMA Appends ==
  ASSUME TypeOK, LoopInv, NEW m \in Message, m.role # "tool",
         messages' = Append(messages, m), bounds' = bounds,
         state' \in {"ready", "done", "error"}, resuming' => inTurn',
         batch' = << >>, ~approval'.granted
  PROVE  LoopInv'
<1>1. /\ messages' \in Seq(Message) /\ Len(messages') = Len(messages) + 1
      /\ \A k \in 1 .. Len(messages) : messages'[k] = messages[k]
      /\ messages \in Seq(Message)
  BY AppendType DEF TypeOK
<1>2. BoundsFit'
  BY <1>1, Extended DEF LoopInv
<1>3. Unorphaned'
  BY <1>1, AppendKeepsUnits DEF LoopInv, Unorphaned
<1>4. TurnInv'
  BY DEF TurnInv
<1> QED
  BY <1>2, <1>3, <1>4, Elsewhere, Ungranted DEF LoopInv

\* The initial state satisfies the invariant.
LEMMA InitInv ==
  ASSUME Init
  PROVE  IInv
<1>1. TurnTypes /\ HostTypes /\ messages \in Seq(Message) /\ CursorTypes
  <2>1. TurnTypes
    BY DEF Init, TurnTypes, AgentStates
  <2>2. HostTypes /\ CursorTypes
    BY DEF Init, HostTypes, CursorTypes
  <2>3. messages \in Seq(Message)
    BY DEF Init
  <2> QED
    BY <2>1, <2>2, <2>3
<1>2. RequestTypes
  <2>1. << >> \in Seq(Call)
    OBVIOUS
  <2>2. ctx \in Output
    BY <2>1 DEF Init, Output, NoOutput
  <2> QED
    BY <2>2 DEF Init, RequestTypes
<1>3. RetryTypes /\ continuations \in Nat /\ CompactTypes
  <2>1. RetryTypes /\ continuations \in Nat
    BY DEF Init, RetryTypes
  <2>2. CompactTypes
    BY DEF Init, CompactTypes, NoBounds
  <2> QED
    BY <2>1, <2>2
<1>4. ToolTypes /\ ApprovalTypes
  <2>1. batch \in Seq(ToolStates) /\ started \in Seq(Nat) /\ task \in {"none"} \cup ToolStates
    BY DEF Init
  <2> QED
    BY <2>1 DEF Init, ToolTypes, ApprovalTypes, NoApproval
<1>5. BoundsFit /\ TurnInv /\ CursorInv /\ AskInv
  BY DEF Init, BoundsFit, TurnInv, CursorInv, AskInv, NoBounds
<1>6. GrantInv
  BY DEF Init, GrantInv, NoApproval
<1>7. Unorphaned
  BY DEF Init, Unorphaned, NoOrphans
<1> QED
  BY <1>1, <1>2, <1>3, <1>4, <1>5, <1>6, <1>7 DEF IInv, LoopInv, TypeOK

\* Every step of the loop keeps the invariant.
LEMMA InvNext ==
  ASSUME TypeOK, LoopInv, [Next]_vars
  PROVE  LoopInv'
<1> USE DEF LoopInv
<1> USE DEF turnVars, hostVars, cursorVars, requestVars, retryVars, compactVars, toolVars,
            approvalVars
<1>1. CASE Start
  <2>1. /\ messages' = Append(messages, UserMessage) /\ bounds' = bounds /\ batch' = batch
        /\ state' = "ready" /\ inTurn' /\ ~approval'.granted
        /\ state \notin {"wait_tool"}
    BY <1>1 DEF Start, TypeOK, ApprovalTypes
  <2>2. UserMessage \in Message /\ UserMessage.role # "tool"
    BY MessageTypes DEF UserMessage
  <2> QED
    BY <2>1, <2>2, Appends DEF TurnInv
<1>2. CASE Resume
  <2>1. UNCHANGED << state, inTurn, messages, toolMsg, toolIndex,
                     bounds, task, batch, approval, grants, host >>
    BY <1>2 DEF Resume
  <2>2. resuming' => inTurn
    BY <1>2 DEF Resume, TurnInv
  <2>3. approval.granted /\ state = "wait_tool" => resuming' /\ ~cancelled'
    BY <1>2, Ungranted DEF Resume, GrantInv
  <2> QED
    BY <2>1, <2>2, <2>3, Quiet
<1>3. CASE CancelRequest
  <2>1. UNCHANGED << state, inTurn, messages, toolMsg, toolIndex,
                     bounds, task, batch, approval, grants, host >>
    BY <1>3 DEF CancelRequest, ModelPending
  <2>2. resuming' => inTurn
    BY <1>3 DEF CancelRequest, ModelPending, TurnInv
  <2>3. approval.granted /\ state = "wait_tool" => resuming' /\ ~cancelled'
    BY <1>3 DEF CancelRequest, ModelPending, GrantInv
  <2> QED
    BY <2>1, <2>2, <2>3, Quiet
<1>4. CASE CancelWaits
  <2>1. UNCHANGED << state, inTurn, messages, toolMsg, toolIndex,
                     bounds, task, batch, approval, grants, host >>
    BY <1>4 DEF CancelWaits, ModelPending, Suspend
  <2>2. resuming' => inTurn
    BY <1>4 DEF CancelWaits, ModelPending, Suspend, TurnInv
  <2>3. approval.granted /\ state = "wait_tool" => resuming' /\ ~cancelled'
    BY <1>4 DEF CancelWaits, ModelPending, Suspend, GrantInv
  <2> QED
    BY <2>1, <2>2, <2>3, Quiet
<1>5. CASE CancelRelease
  <2>1. UNCHANGED << messages, toolMsg, toolIndex, approval, grants, host, cancelled >> /\ bounds' = NoBounds
        /\ cancelled
    BY <1>5 DEF CancelRelease
  <2>2. CASE state' = "cancelled" /\ ~resuming' /\ batch' = << >>
    BY <2>1, <2>2, Leaves
  <2>3. CASE Suspend /\ state' = state /\ (batch' = batch \/ batch' = StoppedBatch)
             /\ (task \in {"running", "cancelling"} \/ \E i \in 1 .. Len(batch) : Unfinished(i))
    <3>1. batch' # << >> => batch # << >>
      BY <2>3 DEF StoppedBatch, TypeOK, ToolTypes
    <3>2. Len(batch') = Len(batch)
      BY <2>3 DEF StoppedBatch, TypeOK, ToolTypes
    <3>3. task \in {"running", "cancelling"} \/ batch # << >>
      BY <2>3
    <3>4. BoundsFit' /\ Unorphaned'
      BY <2>1 DEF BoundsFit, Unorphaned, NoBounds
    <3>5. TurnInv'
      BY <2>3, <3>1 DEF TurnInv, Suspend
    <3>6. CursorInv'
      BY <2>1, <2>3, <3>1, <3>2 DEF CursorInv, ToolCalls
    <3>7. state # "wait_user"
      BY <3>3 DEF AskInv
    <3>8. AskInv'
      BY <2>3, <3>7 DEF AskInv
    <3>9. approval.granted => state = "cancelled"
      BY <2>1, <3>7 DEF GrantInv
    <3>10. GrantInv'
      BY <2>1, <2>3, <3>9 DEF GrantInv
    <3> QED
      BY <3>4, <3>5, <3>6, <3>8, <3>10
  <2> QED
    BY <1>5, <2>2, <2>3 DEF CancelRelease, EndTurn
<1>6. CASE BeginTurn
  <2>1. /\ StartRequest(messages, ctx) /\ messages \in Seq(Message) /\ ctx \in Output
        /\ inTurn /\ UNCHANGED << batch, approval >>
    BY <1>6 DEF BeginTurn, Iterating, TurnInv, TypeOK, RequestTypes
  <2>2. batch' = << >>
    BY <1>6, <2>1 DEF BeginTurn, TurnInv
  <2>3. ~approval'.granted
    BY <1>6, <2>1, Ungranted DEF BeginTurn
  <2>4. Len(messages) >= Len(messages)
    BY <2>1
  <2> QED
    BY <2>1, <2>2, <2>3, <2>4, StartRequestInv DEF Unorphaned
<1>7. CASE AwaitModel
  <2>1. UNCHANGED << state, inTurn, messages, toolMsg, toolIndex,
                     bounds, task, batch, approval, grants, host >>
    BY <1>7 DEF AwaitModel, Suspend
  <2>2. resuming' => inTurn
    BY <1>7 DEF AwaitModel, Suspend, TurnInv
  <2>3. approval.granted /\ state = "wait_tool" => resuming' /\ ~cancelled'
    BY <1>7 DEF AwaitModel, Suspend, GrantInv
  <2> QED
    BY <2>1, <2>2, <2>3, Quiet
<1>8. CASE FinishCompaction
  <2>1. /\ messages' = Compact(messages, bounds, UserMessage) /\ bounds' = NoBounds
        /\ state' = "ready" /\ UNCHANGED << inTurn, resuming, batch, approval >>
        /\ state = "wait_model"
    BY <1>8 DEF FinishCompaction
  <2>2. UserMessage.role = "user" /\ UserMessage \in Message
    BY MessageTypes DEF UserMessage
  <2>3. bounds \in [start : Nat, count : Nat] /\ messages \in Seq(Message)
    BY DEF TypeOK, CompactTypes
  <2>4. bounds.start = 0 \/ (bounds.start = 1 /\ messages[1].role = "system")
    BY DEF BoundsFit
  <2>5. Unorphaned'
    BY <2>1, <2>2, <2>3, <2>4, CompactKeepsUnits DEF Unorphaned
  <2>6. BoundsFit' /\ TurnInv'
    BY <2>1 DEF BoundsFit, NoBounds, TurnInv
  <2>7. CursorInv' /\ AskInv' /\ GrantInv'
    BY <2>1, Elsewhere, Ungranted
  <2> QED
    BY <2>5, <2>6, <2>7
<1>9. CASE RetryRequest
  <2>1. /\ state = "wait_model" /\ UNCHANGED << messages, bounds, batch, approval >>
        /\ StartModelRequest(sequence + 1, "fatal")
    BY <1>9 DEF RetryRequest, Failed, Answer
  <2>2. state' \in {"wait_model", "error"} /\ ~resuming' /\ (state' = "wait_model" => inTurn' = inTurn)
    BY <2>1 DEF StartModelRequest
  <2>3. batch' = << >> /\ ~approval'.granted /\ inTurn
    BY <2>1, Ungranted DEF TurnInv
  <2> QED
    BY <2>1, <2>2, <2>3, Leaves
<1>10. CASE ScheduleRetry
  <2>1. UNCHANGED << state, inTurn, messages, toolMsg, toolIndex,
                     bounds, task, batch, approval, grants, host >>
    BY <1>10 DEF ScheduleRetry, Failed, Answer, Suspend
  <2>2. resuming' => inTurn
    BY <1>10 DEF ScheduleRetry, Failed, Answer, Suspend, TurnInv
  <2>3. approval.granted /\ state = "wait_tool" => resuming' /\ ~cancelled'
    BY <1>10 DEF ScheduleRetry, Failed, Answer, Suspend, GrantInv
  <2> QED
    BY <2>1, <2>2, <2>3, Quiet
<1>11. CASE FailTurn
  <2>1. /\ state = "wait_model" /\ UNCHANGED << messages, bounds, batch, approval >>
        /\ state' = "error" /\ ~resuming'
    BY <1>11 DEF FailTurn, Failed, Answer, EndTurn
  <2>2. batch' = << >> /\ ~approval'.granted
    BY <2>1, Ungranted DEF TurnInv
  <2> QED
    BY <2>1, <2>2, Leaves
<1>12. CASE ContinueAnswer
  <2>1. /\ StartRequest(Append(messages, Assembled), Taken) /\ state = "wait_model"
        /\ UNCHANGED << batch, approval >>
    BY <1>12 DEF ContinueAnswer, Complete, Answer
  <2>2. batch' = << >> /\ ~approval'.granted /\ inTurn
    BY <2>1, Ungranted DEF TurnInv
  <2>3. /\ Append(messages, Assembled) \in Seq(Message)
        /\ Len(Append(messages, Assembled)) >= Len(messages)
        /\ \A k \in 1 .. Len(messages) : Append(messages, Assembled)[k] = messages[k]
    BY AssembledType, AppendType DEF TypeOK
  <2>4. NoOrphans(Append(messages, Assembled))
    BY AssembledType, AppendKeepsUnits DEF TypeOK, Unorphaned, Assembled, AssistantMessage
  <2> QED
    BY <2>1, <2>2, <2>3, <2>4, AssembledType, StartRequestInv
<1>13. CASE GiveUp
  <2>1. /\ messages' = Append(messages, Assembled) /\ state = "wait_model"
        /\ UNCHANGED << bounds, batch, approval >>
        /\ state' \in {"done", "error"} /\ ~resuming'
    BY <1>13 DEF GiveUp, Complete, Answer, EndTurn
  <2>2. batch' = << >> /\ ~approval'.granted
    BY <2>1, Ungranted DEF TurnInv
  <2>3. Assembled \in Message /\ Assembled.role # "tool"
    BY AssembledType DEF Assembled, AssistantMessage
  <2> QED
    BY <2>1, <2>2, <2>3, Appends
<1>14. CASE FinalAnswer
  <2>1. /\ messages' = Append(messages, Assembled) /\ state = "wait_model"
        /\ UNCHANGED << bounds, batch, approval >>
        /\ state' \in {"done", "error"} /\ ~resuming'
    BY <1>14 DEF FinalAnswer, Complete, Answer, EndTurn
  <2>2. batch' = << >> /\ ~approval'.granted
    BY <2>1, Ungranted DEF TurnInv
  <2>3. Assembled \in Message /\ Assembled.role # "tool"
    BY AssembledType DEF Assembled, AssistantMessage
  <2> QED
    BY <2>1, <2>2, <2>3, Appends
<1>15. CASE CallTools
  <2>1. /\ messages' = Append(messages, Assembled) /\ state = "wait_model" /\ ctx.stop = "stop"
        /\ ctx.calls # << >> /\ UNCHANGED << inTurn, bounds, batch, approval >>
        /\ state' = "wait_tool" /\ toolMsg' = Len(messages) + 1 /\ toolIndex' = 1
        /\ resuming' = FALSE
    BY <1>15 DEF CallTools, Complete, Answer, Suspend
  <2>2. batch' = << >> /\ ~approval'.granted /\ inTurn
    BY <2>1, Ungranted DEF TurnInv
  <2>3. Assembled \in Message /\ Assembled.role = "assistant" /\ Assembled.calls = ctx.calls
    BY <2>1, AssembledType DEF Assembled, AssistantMessage
  <2>4. /\ messages' \in Seq(Message) /\ Len(messages') = Len(messages) + 1
        /\ \A k \in 1 .. Len(messages) : messages'[k] = messages[k]
        /\ messages'[Len(messages) + 1] = Assembled
        /\ messages \in Seq(Message)
    BY <2>1, <2>3, AppendType DEF TypeOK
  <2>5. BoundsFit'
    BY <2>1, <2>4, Extended
  <2>6. Unorphaned'
    BY <2>1, <2>3, <2>4, AppendKeepsUnits DEF Unorphaned
  <2>7. TurnInv' /\ AskInv' /\ GrantInv'
    BY <2>1, <2>2, Ungranted DEF TurnInv, AskInv
  <2>8. CursorInv'
    <3>1. ToolCalls' = ctx.calls /\ Len(ctx.calls) \in Nat
      BY <2>1, <2>3, <2>4 DEF ToolCalls, TypeOK, RequestTypes, Output
    <3>2. OpensUnit(messages', toolMsg')
      BY <2>1, <2>3, <2>4 DEF OpensUnit
    <3>3. toolMsg' \in 1 .. Len(messages') /\ Len(messages') = toolMsg' + toolIndex' - 1
      BY <2>1, <2>4
    <3>4. toolIndex' \in 1 .. Len(ToolCalls') + 1
      BY <2>1, <3>1
    <3>5. \A i \in 1 .. toolIndex' - 1 : messages'[toolMsg' + i] = ToolMessage(i)
      BY <2>1
    <3> QED
      BY <2>2, <3>2, <3>3, <3>4, <3>5 DEF CursorInv
  <2> QED
    BY <2>5, <2>6, <2>7, <2>8
<1>16. CASE AwaitUser
  <2>1. UNCHANGED << state, inTurn, messages, toolMsg, toolIndex,
                     bounds, task, batch, approval, grants, host >>
    BY <1>16 DEF AwaitUser, Suspend
  <2>2. resuming' => inTurn
    BY <1>16 DEF AwaitUser, Suspend, TurnInv
  <2>3. approval.granted /\ state = "wait_tool" => resuming' /\ ~cancelled'
    BY <1>16 DEF AwaitUser, Suspend, GrantInv
  <2> QED
    BY <2>1, <2>2, <2>3, Quiet
<1>17. CASE RejectCall
  <2>1. /\ state = "wait_user" /\ ~Approved /\ AppendResult(toolIndex)
        /\ UNCHANGED << toolMsg, batch, bounds >>
        /\ approval' = IF ToolCalls[toolIndex].id
                         THEN [approval EXCEPT !.pending = FALSE, !.decided = FALSE, !.granted = FALSE]
                         ELSE approval
    BY <1>17 DEF RejectCall, Decided
  <2>2. batch = << >> /\ toolIndex <= Len(ToolCalls)
    BY <2>1 DEF AskInv
  <2>3. BoundsFit' /\ TurnInv' /\ CursorInv' /\ AskInv' /\ Unorphaned'
    BY <2>1, <2>2, AppendResultInv
  <2>4. ~approval.granted
    BY <2>1 DEF GrantInv, Approved
  <2>5. ~approval'.granted
    BY <2>1, <2>4 DEF TypeOK, ApprovalTypes
  <2> QED
    BY <2>3, <2>5, Ungranted
<1>18. CASE AcceptCall
  <2>1. /\ state = "wait_user" /\ resuming /\ ~cancelled /\ state' = "wait_tool"
        /\ UNCHANGED << inTurn, resuming, cancelled, messages, toolMsg, toolIndex, bounds, task,
                        batch, grants, host >>
        /\ approval' = [approval EXCEPT !.pending = FALSE, !.decided = FALSE]
    BY <1>18 DEF AcceptCall, Decided, Iterating
  <2>2. approval'.granted = approval.granted /\ approval'.call = approval.call
    BY <2>1 DEF TypeOK, ApprovalTypes
  <2>3. BoundsFit' /\ Unorphaned' /\ TurnInv' /\ AskInv'
    BY <2>1 DEF BoundsFit, Unorphaned, TurnInv, AskInv
  <2>4. CursorInv'
    BY <2>1 DEF CursorInv, ToolCalls
  <2>5. GrantInv'
    BY <2>1, <2>2 DEF GrantInv, ToolCalls, NextCall
  <2> QED
    BY <2>3, <2>4, <2>5
<1>19. CASE StartBatch
  <2>1. /\ state = "wait_tool" /\ toolIndex = 1 /\ Eligible
        /\ batch' \in [1 .. Len(ToolCalls) -> {"running", "finished"}]
        /\ UNCHANGED << state, inTurn, resuming, messages, toolMsg, toolIndex, bounds, approval >>
    BY <1>19 DEF StartBatch
  <2>2. ToolCalls \in Seq(Call)
    <3>1. messages[toolMsg] \in Message
      BY <2>1 DEF CursorInv, TypeOK
    <3> QED
      BY <3>1 DEF ToolCalls, Message
  <2>3. Len(batch') = Len(ToolCalls)
    BY <2>1, <2>2
  <2>4. ~approval.granted
    <3>1. 1 \in 1 .. Len(ToolCalls)
      BY <2>1, <2>2 DEF Eligible
    <3>2. ToolCalls[1].safe /\ ToolCalls[1] \in Call
      BY <2>1, <2>2, <3>1 DEF Eligible
    <3> QED
      BY <2>1, <3>2, CallAssumption DEF GrantInv, NextCall
  <2>5. BoundsFit' /\ Unorphaned' /\ TurnInv' /\ AskInv'
    BY <2>1 DEF BoundsFit, Unorphaned, TurnInv, AskInv
  <2>6. CursorInv'
    BY <2>1, <2>3 DEF CursorInv, ToolCalls
  <2> QED
    BY <2>1, <2>4, <2>5, <2>6, Ungranted
<1>20. CASE PollBatch
  <2>1. state = "wait_tool" /\ batch # << >> /\ UNCHANGED << toolMsg, bounds, approval >>
    BY <1>20 DEF PollBatch
  <2>2. ~approval'.granted /\ toolIndex = 1 /\ Len(batch) = Len(ToolCalls)
    BY <2>1 DEF GrantInv, CursorInv
  <2>3. CASE Suspend /\ UNCHANGED << state, batch, messages, toolIndex >>
    <3>1. BoundsFit' /\ Unorphaned' /\ TurnInv' /\ AskInv'
      BY <2>1, <2>3 DEF BoundsFit, Unorphaned, TurnInv, AskInv, Suspend
    <3>2. CursorInv'
      BY <2>1, <2>3 DEF CursorInv, ToolCalls
    <3> QED
      BY <2>2, <3>1, <3>2, Ungranted
  <2>4. ASSUME NEW n \in 0 .. Len(batch), batch' = << >>,
               messages' = messages \o [i \in 1 .. n |-> ToolMessage(i)],
               \/ n = Len(batch) /\ toolIndex' = n + 1 /\ UNCHANGED << state, inTurn, resuming, alive >>
               \/ EndTurn("error") /\ UNCHANGED toolIndex
        PROVE  LoopInv'
    <3>1. /\ toolMsg \in 1 .. Len(messages) /\ OpensUnit(messages, toolMsg)
          /\ Len(messages) = toolMsg /\ messages \in Seq(Message)
          /\ n \in Nat /\ toolMsg \in Nat /\ Len(ToolCalls) \in Nat
      <4>1. /\ toolMsg \in 1 .. Len(messages) /\ OpensUnit(messages, toolMsg)
            /\ Len(messages) = toolMsg + toolIndex - 1
        BY <2>1 DEF CursorInv
      <4>2. messages \in Seq(Message) /\ Len(batch) \in Nat /\ toolMsg \in Nat
        BY DEF TypeOK, ToolTypes, CursorTypes
      <4> QED
        BY <2>2, <4>1, <4>2
    <3> DEFINE results == [i \in 1 .. n |-> ToolMessage(i)]
    <3>2. results \in Seq(Message) /\ Len(results) = n /\ \A i \in 1 .. n : results[i] = ToolMessage(i)
      BY <3>1, MessageTypes
    <3>c. messages' = messages \o results
      BY <2>4
    <3> HIDE DEF results
    <3>3. /\ messages' \in Seq(Message) /\ Len(messages') = Len(messages) + n
          /\ \A k \in 1 .. Len(messages) : messages'[k] = messages[k]
          /\ \A k \in Len(messages) + 1 .. Len(messages) + n :
               messages'[k] = ToolMessage(k - Len(messages))
      <4>0. /\ messages \o results \in Seq(Message)
            /\ Len(messages \o results) = Len(messages) + n
            /\ \A k \in 1 .. Len(messages) : (messages \o results)[k] = messages[k]
            /\ \A k \in Len(messages) + 1 .. Len(messages) + n :
                 (messages \o results)[k] = results[k - Len(messages)]
        <5>1. messages \in Seq(Message) /\ n \in Nat
          BY <3>1
        <5>2. results \in Seq(Message) /\ Len(results) = n
          BY <3>2
        <5> QED
          BY <5>1, <5>2, Concatenated
      <4>1. /\ messages' \in Seq(Message) /\ Len(messages') = Len(messages) + n
            /\ \A k \in 1 .. Len(messages) : messages'[k] = messages[k]
            /\ \A k \in Len(messages) + 1 .. Len(messages) + n :
                 messages'[k] = results[k - Len(messages)]
        BY <3>c, <4>0, Zenon
      <4>2. \A k \in Len(messages) + 1 .. Len(messages) + n : k - Len(messages) \in 1 .. n
        BY <3>1
      <4> QED
        BY <3>2, <4>1, <4>2
    <3>4. BoundsFit'
      BY <2>1, <3>1, <3>3, Extended
    <3>5. Unorphaned'
      <4>1. \A k \in Len(messages) + 1 .. Len(messages') : IsTool(messages', k)
        <5>1. TAKE k \in Len(messages) + 1 .. Len(messages')
        <5>2. messages'[k] = ToolMessage(k - Len(messages))
          BY <3>3
        <5> QED
          BY <5>2 DEF IsTool, ToolMessage
      <4>2. \A m \in toolMsg + 1 .. Len(messages) : IsTool(messages, m)
        BY <3>1
      <4>3. Len(messages') >= Len(messages)
        BY <3>1, <3>3
      <4> QED
        BY <3>1, <3>3, <4>1, <4>2, <4>3, ResultsKeepUnits
    <3>6. CASE EndTurn("error")
      <4>1. state' = "error" /\ ~resuming'
        BY <3>6 DEF EndTurn
      <4>2. TurnInv'
        BY <2>4, <4>1 DEF TurnInv
      <4> QED
        BY <2>2, <3>4, <3>5, <4>1, <4>2, Elsewhere, Ungranted
    <3>7. CASE n = Len(batch) /\ toolIndex' = n + 1 /\ UNCHANGED << state, inTurn, resuming >>
      <4>1. TurnInv' /\ AskInv'
        BY <2>1, <2>4, <3>7 DEF TurnInv, AskInv
      <4>2. messages'[toolMsg] = messages[toolMsg] /\ toolMsg' = toolMsg
        BY <2>1, <3>1, <3>3
      <4>3. ToolCalls' = ToolCalls /\ OpensUnit(messages', toolMsg')
        BY <3>1, <4>2 DEF ToolCalls, OpensUnit
      <4>4. /\ toolMsg' \in 1 .. Len(messages') /\ toolIndex' \in 1 .. Len(ToolCalls') + 1
            /\ Len(messages') = toolMsg' + toolIndex' - 1
        BY <2>2, <3>1, <3>3, <3>7, <4>2, <4>3
      <4>5. ASSUME NEW i \in 1 .. toolIndex' - 1 PROVE messages'[toolMsg' + i] = ToolMessage(i)
        <5>1. toolMsg' + i \in Len(messages) + 1 .. Len(messages) + n /\ (toolMsg' + i) - Len(messages) = i
          BY <3>1, <3>7, <4>2
        <5> QED
          BY <3>3, <5>1
      <4>6. CursorInv'
        BY <2>4, <4>3, <4>4, <4>5 DEF CursorInv
      <4> QED
        BY <2>2, <3>4, <3>5, <4>1, <4>6, Ungranted
    <3> QED
      BY <2>4, <3>6, <3>7
  <2> QED
    BY <1>20, <2>3, <2>4 DEF PollBatch
<1>21. CASE PollTask
  <2>1. /\ state = "wait_tool" /\ batch = << >> /\ toolIndex <= Len(ToolCalls) /\ task # "none"
        /\ UNCHANGED << toolMsg, batch, bounds, approval >>
    BY <1>21 DEF PollTask, AtCall
  <2>2. ~approval'.granted
    BY <2>1 DEF GrantInv
  <2>3. CASE Suspend /\ UNCHANGED << state, messages, toolIndex >>
    <3>1. BoundsFit' /\ Unorphaned' /\ TurnInv' /\ AskInv'
      BY <2>1, <2>3 DEF BoundsFit, Unorphaned, TurnInv, AskInv, Suspend
    <3>2. CursorInv'
      BY <2>1, <2>3 DEF CursorInv, ToolCalls
    <3> QED
      BY <2>2, <3>1, <3>2, Ungranted
  <2>4. CASE AppendResult(toolIndex)
    BY <2>1, <2>2, <2>4, AppendResultInv, Ungranted
  <2> QED
    BY <1>21, <2>3, <2>4 DEF PollTask
<1>22. CASE DenyCall
  <2>1. /\ state = "wait_tool" /\ batch = << >> /\ toolIndex <= Len(ToolCalls) /\ host = "none"
        /\ UNCHANGED << toolMsg, batch, bounds, approval >> /\ AppendResult(toolIndex)
    BY <1>22 DEF DenyCall, AtCall
  <2>2. ~approval'.granted
    BY <2>1 DEF GrantInv
  <2> QED
    BY <2>1, <2>2, AppendResultInv, Ungranted
<1>23. CASE AskUser
  <2>1. /\ state = "wait_tool" /\ batch = << >> /\ toolIndex <= Len(ToolCalls) /\ task = "none"
        /\ host # "none" /\ NextCall.gated /\ ~approval.granted /\ state' = "wait_user"
        /\ UNCHANGED << messages, toolMsg, toolIndex, bounds, task, batch, host >>
    BY <1>23 DEF AskUser, AtCall
  <2>2. approval'.call = toolIndex /\ (approval'.granted => toolIndex \in grants')
    <3>1. CASE /\ approval' = [approval EXCEPT !.pending = TRUE, !.decided = FALSE, !.call = toolIndex]
      BY <2>1, <3>1 DEF TypeOK, ApprovalTypes
    <3>2. CASE \E yes \in BOOLEAN :
                 /\ approval' = [pending |-> TRUE, decided |-> TRUE, granted |-> yes,
                                 call |-> toolIndex]
                 /\ grants' = IF yes THEN grants \cup {toolIndex} ELSE grants
      BY <3>2
    <3> QED
      BY <1>23, <3>1, <3>2 DEF AskUser
  <2>3. inTurn' = inTurn /\ (resuming' => resuming)
    BY <1>23 DEF AskUser, Suspend
  <2>4. BoundsFit' /\ Unorphaned'
    BY <2>1 DEF BoundsFit, Unorphaned
  <2>5. TurnInv'
    BY <2>1, <2>3 DEF TurnInv
  <2>6. CursorInv'
    BY <2>1 DEF CursorInv, ToolCalls
  <2>7. AskInv' /\ GrantInv'
    BY <2>1, <2>2 DEF AskInv, GrantInv, ToolCalls, NextCall
  <2> QED
    BY <2>4, <2>5, <2>6, <2>7
<1>24. CASE StartCall
  <2>1. /\ state = "wait_tool" /\ batch = << >> /\ toolIndex <= Len(ToolCalls)
        /\ UNCHANGED << toolMsg, batch, bounds >> /\ SpendGrant
    BY <1>24 DEF StartCall, AtCall
  <2>2. ~approval'.granted
    BY <2>1 DEF GrantInv, SpendGrant, TypeOK, ApprovalTypes
  <2>3. CASE Suspend /\ UNCHANGED << state, messages, toolIndex >>
    <3>1. BoundsFit' /\ Unorphaned' /\ TurnInv' /\ AskInv'
      BY <2>1, <2>3 DEF BoundsFit, Unorphaned, TurnInv, AskInv, Suspend
    <3>2. CursorInv'
      BY <2>1, <2>3 DEF CursorInv, ToolCalls
    <3> QED
      BY <2>2, <3>1, <3>2, Ungranted
  <2>4. CASE AppendResult(toolIndex)
    BY <2>1, <2>2, <2>4, AppendResultInv, Ungranted
  <2> QED
    BY <1>24, <2>3, <2>4 DEF StartCall
<1>25. CASE ToolsDone
  <2>1. /\ StartRequest(messages, ctx) /\ messages \in Seq(Message) /\ ctx \in Output
        /\ inTurn /\ UNCHANGED << batch, approval >>
    BY <1>25 DEF ToolsDone, Iterating, TurnInv, TypeOK, RequestTypes
  <2>2. batch' = << >>
    BY <1>25, <2>1 DEF ToolsDone
  <2>3. ~approval'.granted
    <3>1. state = "wait_tool" /\ toolIndex > Len(ToolCalls) /\ toolIndex \in Nat
      BY <1>25 DEF ToolsDone, TypeOK, CursorTypes
    <3>2. messages[toolMsg] \in Message
      BY <3>1 DEF CursorInv, TypeOK
    <3>3. Len(ToolCalls) \in Nat
      BY <3>2 DEF ToolCalls, Message
    <3> QED
      BY <2>1, <3>1, <3>3 DEF GrantInv
  <2>4. Len(messages) >= Len(messages)
    BY <2>1
  <2> QED
    BY <2>1, <2>2, <2>3, <2>4, StartRequestInv DEF Unorphaned
<1>26. CASE Cancel
  <2>1. UNCHANGED << state, inTurn, messages, toolMsg, toolIndex,
                     bounds, task, batch, approval, grants, host >>
    BY <1>26 DEF Cancel, Outside
  <2>2. resuming' => inTurn
    BY <1>26 DEF Cancel, Outside, TurnInv
  <2>3. approval.granted /\ state = "wait_tool" => resuming' /\ ~cancelled'
    BY <1>26 DEF Cancel, Outside, GrantInv
  <2> QED
    BY <2>1, <2>2, <2>3, Quiet
<1>27. CASE SetModel
  <2>1. UNCHANGED << state, inTurn, messages, toolMsg, toolIndex,
                     bounds, task, batch, approval, grants, host >>
    BY <1>27 DEF SetModel, Outside
  <2>2. resuming' => inTurn
    BY <1>27 DEF SetModel, Outside, TurnInv
  <2>3. approval.granted /\ state = "wait_tool" => resuming' /\ ~cancelled'
    BY <1>27 DEF SetModel, Outside, GrantInv
  <2> QED
    BY <2>1, <2>2, <2>3, Quiet
<1>28. CASE SetTrusted
  <2>1. UNCHANGED << state, inTurn, messages, toolMsg, toolIndex,
                     bounds, task, batch, approval, grants, host >>
    BY <1>28 DEF SetTrusted, Outside
  <2>2. resuming' => inTurn
    BY <1>28 DEF SetTrusted, Outside, TurnInv
  <2>3. approval.granted /\ state = "wait_tool" => resuming' /\ ~cancelled'
    BY <1>28 DEF SetTrusted, Outside, GrantInv
  <2> QED
    BY <2>1, <2>2, <2>3, Quiet
<1>29. CASE Decide
  <2>1. /\ state = "wait_user" /\ ~resuming
        /\ UNCHANGED << state, inTurn, resuming, messages, toolMsg, toolIndex, bounds, task, batch,
                        host >>
    BY <1>29 DEF Decide, AwaitsDecision, Outside
  <2>2. approval'.call = approval.call /\ (approval'.granted => approval.call \in grants')
    <3>1. PICK yes \in BOOLEAN :
            /\ approval' = [approval EXCEPT !.decided = TRUE, !.granted = yes]
            /\ grants' = IF yes THEN grants \cup {approval.call} ELSE grants
      BY <1>29 DEF Decide
    <3> QED
      BY <3>1 DEF TypeOK, ApprovalTypes
  <2>3. BoundsFit' /\ Unorphaned' /\ TurnInv'
    BY <2>1 DEF BoundsFit, Unorphaned, TurnInv
  <2>4. CursorInv'
    BY <2>1 DEF CursorInv, ToolCalls
  <2>5. AskInv' /\ GrantInv'
    BY <2>1, <2>2 DEF AskInv, GrantInv, ToolCalls, NextCall
  <2> QED
    BY <2>3, <2>4, <2>5
<1>30. CASE Destroy
  <2>1. /\ UNCHANGED << state, inTurn, resuming, cancelled, messages, toolMsg, toolIndex, bounds,
                        approval, grants, host >>
        /\ task' = "none" /\ batch' = << >>
    BY <1>30 DEF Destroy
  <2>2. BoundsFit' /\ Unorphaned' /\ TurnInv'
    BY <2>1 DEF BoundsFit, Unorphaned, TurnInv
  <2>3. CursorInv'
    BY <2>1 DEF CursorInv, ToolCalls
  <2>4. AskInv' /\ GrantInv'
    BY <2>1 DEF AskInv, GrantInv, ToolCalls, NextCall
  <2> QED
    BY <2>2, <2>3, <2>4
<1>31. CASE ModelDelta
  <2>1. UNCHANGED << state, inTurn, messages, toolMsg, toolIndex,
                     bounds, task, batch, approval, grants, host >>
    BY <1>31 DEF ModelDelta, Outside
  <2>2. resuming' => inTurn
    BY <1>31 DEF ModelDelta, Outside, TurnInv
  <2>3. approval.granted /\ state = "wait_tool" => resuming' /\ ~cancelled'
    BY <1>31 DEF ModelDelta, Outside, GrantInv
  <2> QED
    BY <2>1, <2>2, <2>3, Quiet
<1>32. CASE RequestEnds
  <2>1. PICK f \in flight : ModelDone(f) \/ ModelError(f) \/ SummaryEnds(f)
    BY <1>32 DEF RequestEnds
  <2>2. /\ UNCHANGED << state, inTurn, resuming, cancelled, messages, toolMsg, toolIndex, bounds,
                        task, batch, approval, grants, host >>
        /\ ~resuming
    BY <2>1 DEF ModelDone, ModelError, SummaryEnds, Outside
  <2>3. approval.granted /\ state = "wait_tool" => resuming' /\ ~cancelled'
    BY <2>2 DEF GrantInv
  <2> QED
    BY <2>2, <2>3, Quiet
<1>33. CASE RetryTimer
  <2>1. UNCHANGED << state, inTurn, messages, toolMsg, toolIndex,
                     bounds, task, batch, approval, grants, host >>
    BY <1>33 DEF RetryTimer, Outside
  <2>2. resuming' => inTurn
    BY <1>33 DEF RetryTimer, Outside, TurnInv
  <2>3. approval.granted /\ state = "wait_tool" => resuming' /\ ~cancelled'
    BY <1>33 DEF RetryTimer, Outside, GrantInv
  <2> QED
    BY <2>1, <2>2, <2>3, Quiet
<1>34. CASE TaskEnds
  <2>1. /\ UNCHANGED << state, inTurn, resuming, cancelled, messages, toolMsg, toolIndex, bounds,
                        approval, grants, host >>
        /\ ~resuming /\ Len(batch') = Len(batch) /\ (batch' # << >> <=> batch # << >>)
        /\ (task # "none" /\ batch' = batch) \/ batch # << >>
    BY <1>34 DEF TaskEnds, Outside, TypeOK, ToolTypes
  <2>2. BoundsFit' /\ Unorphaned' /\ TurnInv'
    BY <2>1 DEF BoundsFit, Unorphaned, TurnInv
  <2>3. CursorInv'
    BY <2>1 DEF CursorInv, ToolCalls
  <2>4. state # "wait_user"
    BY <2>1 DEF AskInv
  <2>5. AskInv'
    BY <2>1, <2>4 DEF AskInv
  <2>6. GrantInv'
    BY <2>1, <2>4 DEF GrantInv
  <2> QED
    BY <2>2, <2>3, <2>5, <2>6
<1>35. CASE \E i \in 1 .. MaxCalls : BatchCallEnds(i)
  <2>1. /\ UNCHANGED << state, inTurn, resuming, cancelled, messages, toolMsg, toolIndex, bounds,
                        approval, grants, host >>
        /\ ~resuming /\ Len(batch') = Len(batch) /\ (batch' # << >> <=> batch # << >>)
        /\ (task # "none" /\ batch' = batch) \/ batch # << >>
    BY <1>35 DEF BatchCallEnds, Unfinished, Outside, TypeOK, ToolTypes
  <2>2. BoundsFit' /\ Unorphaned' /\ TurnInv'
    BY <2>1 DEF BoundsFit, Unorphaned, TurnInv
  <2>3. CursorInv'
    BY <2>1 DEF CursorInv, ToolCalls
  <2>4. state # "wait_user"
    BY <2>1 DEF AskInv
  <2>5. AskInv'
    BY <2>1, <2>4 DEF AskInv
  <2>6. GrantInv'
    BY <2>1, <2>4 DEF GrantInv
  <2> QED
    BY <2>2, <2>3, <2>5, <2>6
<1>36. CASE UNCHANGED vars
  <2>1. UNCHANGED << state, inTurn, messages, toolMsg, toolIndex,
                     bounds, task, batch, approval, grants, host >>
    BY <1>36 DEF vars
  <2>2. resuming' => inTurn
    BY <1>36 DEF vars, TurnInv
  <2>3. approval.granted /\ state = "wait_tool" => resuming' /\ ~cancelled'
    BY <1>36 DEF vars, GrantInv
  <2> QED
    BY <2>1, <2>2, <2>3, Quiet
<1> QED
    BY <1>1, <1>2, <1>3, <1>4, <1>5, <1>6, <1>7, <1>8, <1>9, <1>10, <1>11, <1>12, <1>13, <1>14,
     <1>15, <1>16, <1>17, <1>18, <1>19, <1>20, <1>21, <1>22, <1>23, <1>24, <1>25, <1>26, <1>27,
     <1>28, <1>29, <1>30, <1>31, <1>32, <1>33, <1>34, <1>35, <1>36 DEF Next, Pass, User

-----------------------------------------------------------------------------
(* The theorems. *)

\* The invariant holds in every reachable state.
THEOREM Invariance == Spec => []IInv
<1>1. Init => IInv
  BY InitInv
<1>2. IInv /\ [Next]_vars => IInv'
  BY TypeNext, InvNext DEF IInv, LoopInv
<1> QED
  BY <1>1, <1>2, PTL DEF Spec

\* Every variable of agent/loop.c's state keeps its type.
THEOREM TypeCorrect == Spec => []TypeOK
<1>1. IInv => TypeOK
  BY DEF IInv
<1> QED
  BY <1>1, Invariance, PTL

\* However tool calls, approvals, compactions and cancellations interleave, the
\* conversation agent_resume builds never holds a tool result cut off from the
\* answer that asked for it.
THEOREM NeverOrphaned == Spec => []Unorphaned
<1>1. IInv => Unorphaned
  BY DEF IInv, LoopInv
<1> QED
  BY <1>1, Invariance, PTL

\* While tools run, serially or as a batch, the conversation ends with the
\* results of the calls before the cursor, one each and in call order.
THEOREM InOrder == Spec => []ResultsInOrder
<1>1. IInv => ResultsInOrder
  BY DEF IInv, LoopInv, CursorInv, ResultsInOrder
<1> QED
  BY <1>1, Invariance, PTL

\* A grant that outlives agent_resume belongs to the user who is still being
\* asked, or to a turn that was cancelled.
THEOREM GrantsAreSpent == Spec => []GrantIsSpent
<1>1. IInv => GrantIsSpent
  BY DEF IInv, LoopInv, TurnInv, GrantInv, GrantIsSpent
<1> QED
  BY <1>1, Invariance, PTL

\* The one step of each path that starts calls starts authorised ones.
LEMMA AuthorisedStep ==
  ASSUME IInv, [Next]_vars
  PROVE  \A k \in Len(started) + 1 .. Len(started') : Authorised(started'[k])
<1>1. TypeOK /\ CursorInv /\ GrantInv
  BY DEF IInv, LoopInv
<1>2. started \in Seq(Nat) /\ Len(started) \in Nat /\ toolIndex \in Nat
  BY <1>1 DEF TypeOK, ToolTypes, CursorTypes
<1>3. CASE started' = started
  BY <1>2, <1>3
<1>4. CASE CallTools
  BY <1>2, <1>4 DEF CallTools
<1>5. CASE StartBatch
  <2>1. /\ started' = [i \in 1 .. Len(ToolCalls) |-> i]
        /\ \A i \in 1 .. Len(ToolCalls) : ToolCalls[i].safe
        /\ state = "wait_tool"
    BY <1>5 DEF StartBatch, Eligible
  <2>2. messages[toolMsg] \in Message
    BY <1>1, <2>1 DEF CursorInv, TypeOK
  <2>3. ToolCalls \in Seq(Call)
    BY <2>2 DEF ToolCalls, Message
  <2>4. TAKE k \in Len(started) + 1 .. Len(started')
  <2>5. k \in 1 .. Len(ToolCalls) /\ started'[k] = k
    BY <1>2, <2>1, <2>3
  <2>6. ToolCalls[k] \in Call /\ ToolCalls[k].safe
    BY <2>1, <2>3, <2>5
  <2> QED
    BY <2>5, <2>6, CallAssumption DEF Authorised
<1>6. CASE StartCall
  <2>1. /\ started' = Append(started, toolIndex) /\ state = "wait_tool"
        /\ NextCall.gated => host # "none" /\ (trusted \/ approval.granted)
    BY <1>6 DEF StartCall, AtCall, MayStart
  <2>2. approval.granted => toolIndex \in grants
    BY <1>1, <2>1 DEF GrantInv
  <2>3. Authorised(toolIndex)
    BY <2>1, <2>2 DEF Authorised, NextCall
  <2>4. TAKE k \in Len(started) + 1 .. Len(started')
  <2>5. started'[k] = toolIndex
    BY <1>2, <2>1
  <2> QED
    BY <2>3, <2>5
<1>7. \/ started' = started \/ CallTools \/ StartBatch \/ StartCall
  <2> USE DEF toolVars
  <2>1. CASE UNCHANGED vars
    BY <2>1 DEF vars
  <2>2. CASE Pass
    BY <2>2 DEF Pass, CancelRequest, CancelWaits, CancelRelease, BeginTurn, AwaitModel,
                FinishCompaction, RetryRequest, ScheduleRetry, FailTurn, ContinueAnswer, GiveUp,
                FinalAnswer, AwaitUser, RejectCall, AcceptCall, PollBatch, PollTask, DenyCall,
                AskUser, ToolsDone
  <2>3. CASE Resume \/ User \/ ModelDelta \/ RequestEnds \/ RetryTimer \/ TaskEnds
             \/ \E i \in 1 .. MaxCalls : BatchCallEnds(i)
    BY <2>3 DEF Resume, User, Start, Cancel, SetModel, SetTrusted, Decide, Destroy, ModelDelta,
                RequestEnds, ModelDone, ModelError, SummaryEnds, RetryTimer, TaskEnds,
                BatchCallEnds
  <2> QED
    BY <2>1, <2>2, <2>3 DEF Next
<1> QED
  BY <1>3, <1>4, <1>5, <1>6, <1>7

\* No interleaving of prompts, decisions, mode switches and cancellations lets
\* a side-effecting call start that neither trusted mode nor the user's grant
\* for that very call covers.
THEOREM OnlyAuthorised == Spec => ExecutionAuthorised
<1>1. IInv /\ [Next]_vars =>
        [\A k \in Len(started) + 1 .. Len(started') : Authorised(started'[k])]_vars
  BY AuthorisedStep
<1> QED
  BY <1>1, Invariance, PTL DEF Spec, ExecutionAuthorised

-----------------------------------------------------------------------------
(* What the agent loop owns and what it sends.                             *)

\* A task or a batch is at work only while the loop waits for its tools, on a
\* call of the answer, and not both; a compaction only while it waits for the
\* model.
OwnsInv ==
  /\ task # "none" =>
       /\ state = "wait_tool" /\ batch = << >>
       /\ toolIndex <= Len(ToolCalls) /\ ~(toolIndex = 1 /\ Eligible)
  /\ compaction # "idle" => MayCompact /\ state = "wait_model"

\* There is one request in flight at most.
Alone == \A f, g \in flight : f = g

\* What has started is behind the cursor, or the task at it, or in the batch;
\* nothing has when a batch may start.
StartedInv ==
  /\ StartedOnce
  /\ alive /\ state \in {"wait_tool", "wait_user"} =>
       /\ batch = << >> =>
            \A i \in 1 .. Len(started) :
              started[i] < toolIndex \/ (started[i] = toolIndex /\ task # "none")
       /\ batch # << >> => \A i \in 1 .. Len(started) : started[i] <= Len(batch)
       /\ batch = << >> /\ toolIndex = 1 /\ Eligible => started = << >>

\* A retry waits for nothing but its delay, and nothing of the failed answer
\* was shown.
RetryInv ==
  alive /\ state = "wait_model" /\ retryPending # "no" =>
    compaction = "idle" /\ requestDone /\ ~ctx.partial

\* A token that outlives its turn is that of a cancelled one.
TokenInv == cancelled /\ ~inTurn => state = "cancelled"

\* No answer holds more calls than a provider returns.
CallsInv == Len(ctx.calls) <= MaxCalls

\* The calls of every message after the last one of the user are answered.
Recent(list, k) == \A j \in k .. Len(list) : list[j].role # "user"
AnsweredRecently(list) == \A k \in 1 .. Len(list) : Recent(list, k) => Answered(list, k)

\* Nothing is owed to the calls since the last user message, except, while
\* tools run, to those at the cursor.
AnsweredInv ==
  /\ state \in {"ready", "wait_model"} => AnsweredRecently(messages)
  /\ state \in {"wait_tool", "wait_user"} =>
       \A k \in 1 .. toolMsg - 1 : Recent(messages, k) => Answered(messages, k)

\* Without a switch of models a request that was cancelled is gone, unless it
\* is that of a summary.
OneModel == \A m, n \in Models : m = n
CancelInv == OneModel /\ cancelRequested => \A f \in flight : f.summary

RequestInv ==
  /\ OwnsInv /\ OneRequest /\ Alone /\ StartedInv /\ RetryInv /\ TokenInv /\ CallsInv
  /\ AnsweredInv /\ CancelInv /\ LeftBehind

-----------------------------------------------------------------------------
(* The three ways start_request goes. *)

\* From a loop without a compaction, start_request sends a summary request,
\* fails to, or goes on to the request itself.
LEMMA StartRequestForms ==
  ASSUME NEW list, NEW c, StartRequest(list, c), compaction = "idle"
  PROVE  /\ retryPending' = "no" /\ resuming' = FALSE /\ alive' = alive
         /\ \/ /\ MayCompact /\ state' = "wait_model" /\ inTurn' = inTurn /\ ctx' = c
               /\ UNCHANGED << requestDone, cancelRequested >> /\ messages' = list
               /\ requestId' = sequence + 1
               /\ \/ compaction' = "running" /\ flight' = flight \cup {Flight(sequence + 1, TRUE)}
                  \/ compaction' = "failed" /\ flight' = flight
            \/ /\ compaction' = "idle"
               /\ messages' = list \/ messages' = Compact(list, CompactionBounds(list), UserMessage)
               /\ \/ StartModelRequest(sequence + 1, "none")
                  \/ StartModelRequest(sequence + 2, "none")
<1>1. CASE MayCompact /\ StartCompactionRequest(list) /\ ctx' = c
  BY <1>1 DEF StartRequest, StartCompactionRequest
<1>2. CASE /\ messages' = Compact(list, CompactionBounds(list), UserMessage)
           /\ compaction' = "idle"
           /\ StartModelRequest(sequence + 2, "none")
  BY <1>2 DEF StartRequest, StartModelRequest
<1>3. CASE /\ messages' = list
           /\ UNCHANGED << compaction, bounds >>
           /\ StartModelRequest(sequence + 1, "none")
  BY <1>3 DEF StartRequest, StartModelRequest
<1> QED
  BY <1>1, <1>2, <1>3 DEF StartRequest

\* The steps that start a request take it up from a loop at rest: nothing is
\* in flight, no tool is at work and no compaction is left.
LEMMA Senders ==
  ASSUME IInv, RequestInv,
         BeginTurn \/ ContinueAnswer \/ ToolsDone
  PROVE  /\ alive /\ inTurn /\ ~cancelled /\ flight = {} /\ compaction = "idle"
         /\ task = "none" /\ batch = << >> /\ batch' = << >> /\ task' = "none"
         /\ cancelled' = cancelled /\ model' = model /\ started' = started
         /\ UNCHANGED << toolMsg, toolIndex >>
         /\ \E list, c : StartRequest(list, c) /\ c \in {ctx, Taken}
<1>1. alive /\ ~cancelled /\ resuming
  BY DEF BeginTurn, ContinueAnswer, ToolsDone, Complete, Answer, Iterating
<1>2. /\ UNCHANGED << batch, task, started, cancelled, model, toolMsg, toolIndex >>
      /\ \E list, c : StartRequest(list, c) /\ c \in {ctx, Taken}
  BY DEF BeginTurn, ContinueAnswer, ToolsDone, toolVars, hostVars, cursorVars
<1>3. \/ state = "ready"
      \/ state = "wait_model" /\ compaction = "idle" /\ requestDone
      \/ state = "wait_tool" /\ batch = << >> /\ toolIndex > Len(ToolCalls)
  BY DEF BeginTurn, ContinueAnswer, ToolsDone, Complete, Answer
<1>4. compaction = "idle" /\ inTurn /\ batch = << >>
  BY <1>1, <1>3 DEF RequestInv, OwnsInv, IInv, LoopInv, TurnInv
<1>5. flight = {}
  BY <1>1, <1>3, <1>4 DEF RequestInv, OneRequest, ModelPending
<1>6. task = "none"
  <2>1. CASE state = "wait_tool" /\ toolIndex > Len(ToolCalls)
    <3>1. toolIndex \in Nat /\ messages[toolMsg] \in Message
      BY <2>1 DEF IInv, LoopInv, CursorInv, TypeOK, CursorTypes
    <3>2. Len(ToolCalls) \in Nat
      BY <3>1 DEF ToolCalls, Message
    <3> QED
      BY <2>1, <3>1, <3>2 DEF RequestInv, OwnsInv
  <2> QED
    BY <1>3, <2>1 DEF RequestInv, OwnsInv
<1> QED
  BY <1>1, <1>2, <1>4, <1>5, <1>6

-----------------------------------------------------------------------------
(* Tasks, batches and compactions. *)

\* A step that touches no tool, cursor or compaction keeps them owned.
LEMMA OwnsFrame ==
  ASSUME OwnsInv,
         UNCHANGED << state, task, batch, messages, toolMsg, toolIndex, compaction >>
  PROVE  OwnsInv'
BY DEF OwnsInv, ToolCalls, Eligible

\* Whoever ends a request or a wait of agent_resume, starts or stops a tool, or
\* leaves the state the tool or the compaction belongs to, accounts for both.
LEMMA OwnsNext ==
  ASSUME IInv, RequestInv, [Next]_vars
  PROVE  OwnsInv'
<1> USE DEF turnVars, hostVars, cursorVars, requestVars, retryVars, compactVars, toolVars,
            approvalVars
<1>a. OwnsInv /\ TurnInv /\ OneRequest
  BY DEF IInv, LoopInv, RequestInv
<1>b. task' = "none" /\ compaction' = "idle" => OwnsInv'
  BY DEF OwnsInv
<1>1. CASE Start
  BY <1>1, <1>a, <1>b DEF Start, OwnsInv
<1>2. CASE \/ Resume \/ CancelWaits \/ AwaitModel \/ AwaitUser \/ ScheduleRetry \/ Cancel
           \/ SetModel \/ SetTrusted \/ Decide \/ ModelDelta \/ RetryTimer \/ UNCHANGED vars
  BY <1>2, <1>a, OwnsFrame
     DEF Resume, CancelWaits, AwaitModel, AwaitUser, ScheduleRetry, Suspend, Cancel, SetModel,
         SetTrusted, Decide, ModelDelta, RetryTimer, vars
<1>3. CASE CancelRequest
  BY <1>3, <1>a DEF CancelRequest, ModelPending, OwnsInv
<1>4. CASE CancelRelease
  BY <1>4, <1>a DEF CancelRelease, OwnsInv, ToolCalls, Eligible, Suspend
<1>5. CASE BeginTurn \/ ContinueAnswer \/ ToolsDone
  <2>1. task' = "none" /\ compaction = "idle" /\ \E list, c : StartRequest(list, c)
    BY <1>5, Senders
  <2>2. compaction' = "idle" \/ (MayCompact /\ state' = "wait_model")
    BY <2>1, StartRequestForms
  <2> QED
    BY <2>1, <2>2 DEF OwnsInv
<1>6. CASE FinishCompaction
  BY <1>6, <1>a, <1>b DEF FinishCompaction, OwnsInv
<1>7. CASE RetryRequest \/ FailTurn \/ GiveUp \/ FinalAnswer \/ CallTools
  <2>1. state = "wait_model" /\ compaction = "idle" /\ UNCHANGED << task, compaction >>
    BY <1>7 DEF RetryRequest, FailTurn, GiveUp, FinalAnswer, CallTools, Complete, Failed, Answer
  <2> QED
    BY <2>1, <1>a, <1>b DEF OwnsInv
<1>8. CASE RejectCall \/ AcceptCall
  BY <1>8, <1>a, <1>b DEF RejectCall, AcceptCall, Decided, OwnsInv
<1>9. CASE StartBatch
  <2>1. task = "none" /\ compaction = "idle"
    BY <1>9, <1>a DEF StartBatch, OwnsInv
  <2> QED
    BY <1>9, <1>b, <2>1 DEF StartBatch
<1>10. CASE PollBatch
  <2>1. task = "none" /\ compaction = "idle"
    BY <1>10, <1>a DEF PollBatch, OwnsInv
  <2> QED
    BY <1>10, <1>b, <2>1 DEF PollBatch
<1>11. CASE PollTask
  <2>1. compaction' = "idle"
    BY <1>11, <1>a DEF PollTask, AtCall, OwnsInv
  <2> QED
    BY <1>11, <1>a, <1>b, <2>1, OwnsFrame DEF PollTask, Suspend, AtCall
<1>12. CASE DenyCall \/ AskUser
  BY <1>12, <1>a, <1>b DEF DenyCall, AskUser, AtCall, OwnsInv
<1>13. CASE StartCall
  <2>1. compaction' = "idle"
    BY <1>13, <1>a DEF StartCall, AtCall, OwnsInv
  <2>2. CASE task' = "running" /\ Suspend /\ UNCHANGED << state, messages, toolIndex >>
    BY <1>13, <2>1, <2>2 DEF StartCall, AtCall, OwnsInv, ToolCalls, Eligible
  <2> QED
    BY <1>13, <1>b, <2>1, <2>2 DEF StartCall
<1>14. CASE Destroy
  BY <1>14, <1>a DEF Destroy, OwnsInv
<1>15. CASE RequestEnds
  <2>1. PICK f \in flight : ModelDone(f) \/ ModelError(f) \/ SummaryEnds(f)
    BY <1>15 DEF RequestEnds
  <2>2. CASE ModelDone(f) \/ ModelError(f)
    BY <1>a, <2>2, OwnsFrame DEF ModelDone, ModelError
  <2>3. CASE SummaryEnds(f)
    <3>1. compaction = "running"
      BY <1>a, <2>3 DEF SummaryEnds, Outside, OneRequest
    <3> QED
      BY <1>a, <2>3, <3>1 DEF SummaryEnds, OwnsInv
  <2> QED
    BY <2>1, <2>2, <2>3
<1>16. CASE TaskEnds
  BY <1>16, <1>a DEF TaskEnds, OwnsInv, ToolCalls, Eligible
<1>17. CASE \E i \in 1 .. MaxCalls : BatchCallEnds(i)
  <2>1. batch # << >>
    <3>1. PICK i \in 1 .. MaxCalls : i \in 1 .. Len(batch)
      BY <1>17 DEF BatchCallEnds
    <3> QED
      BY <3>1
  <2>2. task = "none" /\ UNCHANGED << task, state, compaction >>
    BY <1>17, <2>1, <1>a DEF BatchCallEnds, OwnsInv
  <2> QED
    BY <1>a, <2>2 DEF OwnsInv
<1> QED
  BY <1>1, <1>2, <1>3, <1>4, <1>5, <1>6, <1>7, <1>8, <1>9, <1>10, <1>11, <1>12, <1>13, <1>14,
     <1>15, <1>16, <1>17 DEF Next, Pass, User

-----------------------------------------------------------------------------
(* Requests. *)

\* start_model_request from a loop at rest leaves one request, waited for, or
\* none and its failure.
LEMMA SendAlone ==
  ASSUME NEW id, NEW refusal, StartModelRequest(id, refusal),
         flight = {}, compaction' = "idle"
  PROVE  OneRequest' /\ Alone' /\ (\A f \in flight' : ~f.summary)
<1>1. CASE /\ state' = "wait_model" /\ flight' = flight \cup {Flight(id, FALSE)}
           /\ requestDone' = FALSE /\ requestId' = id
  <2>1. flight' = {Flight(id, FALSE)}
    BY <1>1
  <2>2. \A f \in flight' : f = Flight(id, FALSE) /\ f.id = id /\ f.summary = FALSE
    BY <2>1 DEF Flight
  <2>3. ModelPending' /\ flight' # {}
    BY <1>1, <2>1 DEF ModelPending
  <2>4. \A f \in flight' : f.id = requestId' /\ f.summary = (compaction' = "running")
    BY <1>1, <2>2
  <2> QED
    BY <2>2, <2>3, <2>4 DEF OneRequest, Alone
<1>2. CASE state' = "wait_model" /\ flight' = flight /\ requestDone'
  BY <1>2 DEF OneRequest, Alone, ModelPending
<1>3. CASE state' = "error" /\ flight' = flight
  BY <1>3 DEF OneRequest, Alone, ModelPending
<1> QED
  BY <1>1, <1>2, <1>3 DEF StartModelRequest

\* The same of start_request, whose request may be that of a summary.
LEMMA StartAlone ==
  ASSUME NEW list, NEW c, StartRequest(list, c), flight = {}, compaction = "idle"
  PROVE  OneRequest' /\ Alone' /\ (cancelRequested' => \A f \in flight' : f.summary)
<1>1. CASE /\ compaction' = "idle"
           /\ \/ StartModelRequest(sequence + 1, "none")
              \/ StartModelRequest(sequence + 2, "none")
  <2>1. ~cancelRequested'
    BY <1>1 DEF StartModelRequest
  <2> QED
    BY <1>1, <2>1, SendAlone
<1>2. CASE /\ state' = "wait_model" /\ requestId' = sequence + 1
           /\ compaction' = "running" /\ flight' = flight \cup {Flight(sequence + 1, TRUE)}
  <2>1. flight' = {Flight(sequence + 1, TRUE)}
    BY <1>2
  <2>2. \A f \in flight' : f = Flight(sequence + 1, TRUE) /\ f.id = sequence + 1 /\ f.summary = TRUE
    BY <2>1 DEF Flight
  <2>3. ModelPending' /\ flight' # {}
    BY <1>2, <2>1 DEF ModelPending
  <2>4. \A f \in flight' : f.id = requestId' /\ f.summary = (compaction' = "running")
    BY <1>2, <2>2
  <2> QED
    BY <2>2, <2>3, <2>4 DEF OneRequest, Alone
<1>3. CASE state' = "wait_model" /\ compaction' = "failed" /\ flight' = flight
  BY <1>3 DEF OneRequest, Alone, ModelPending
<1> QED
  BY <1>1, <1>2, <1>3, StartRequestForms

\* A request that ends was the only one.
LEMMA LastOne ==
  ASSUME IInv, RequestInv, NEW f \in flight, alive
  PROVE  /\ flight \ {f} = {} /\ f.id = requestId /\ f.summary = (compaction = "running")
         /\ state = "wait_model" /\ (f.summary => MayCompact)
         /\ ~f.summary => (compaction = "idle" /\ ~requestDone)
<1>1. /\ OneRequest /\ Alone /\ OwnsInv /\ CompactTypes
      /\ flight \subseteq [id : Nat, model : Models, summary : BOOLEAN]
  BY DEF RequestInv, IInv, TypeOK, RequestTypes
<1>2. flight \ {f} = {}
  BY <1>1 DEF Alone
<1>3. f.id = requestId /\ f.summary = (compaction = "running") /\ ModelPending
  BY <1>1 DEF OneRequest
<1>4. state = "wait_model" /\ (f.summary => MayCompact)
      /\ (~f.summary => compaction = "idle" /\ ~requestDone)
  BY <1>1, <1>3 DEF ModelPending, OwnsInv, CompactTypes
<1> QED
  BY <1>2, <1>3, <1>4

\* Requests are sent by a loop at rest and awaited until they end.
LEMMA OneRequestNext ==
  ASSUME IInv, RequestInv, [Next]_vars
  PROVE  OneRequest' /\ Alone'
<1> USE DEF turnVars, hostVars, cursorVars, requestVars, retryVars, compactVars, toolVars,
            approvalVars
<1>a. OneRequest /\ Alone /\ OwnsInv
  BY DEF RequestInv
<1>b. ASSUME flight' = {}, ~ModelPending' PROVE OneRequest' /\ Alone'
  BY <1>b DEF OneRequest, Alone
<1>c. ASSUME UNCHANGED << flight, requestId, requestDone, compaction, state, alive >>
      PROVE  OneRequest' /\ Alone'
  BY <1>a, <1>c DEF OneRequest, Alone, ModelPending
<1>d. alive /\ ~ModelPending => flight = {}
  BY <1>a DEF OneRequest
<1>1. CASE Start
  BY <1>1, <1>a, <1>b DEF Start, OneRequest, ModelPending
<1>2. CASE \/ Resume \/ CancelWaits \/ AwaitModel \/ AwaitUser \/ ScheduleRetry \/ StartBatch
           \/ Cancel \/ SetModel \/ SetTrusted \/ Decide \/ ModelDelta \/ RetryTimer \/ TaskEnds
           \/ (\E i \in 1 .. MaxCalls : BatchCallEnds(i)) \/ UNCHANGED vars
  BY <1>2, <1>c
     DEF Resume, CancelWaits, AwaitModel, AwaitUser, ScheduleRetry, Suspend, Cancel, SetModel,
         SetTrusted, Decide, ModelDelta, RetryTimer, TaskEnds, BatchCallEnds, StartBatch, vars
<1>3. CASE CancelRequest
  <2>1. PICK f \in flight : f \in Target
    BY <1>3 DEF CancelRequest, Target
  <2>2. flight' = {} /\ alive /\ state' = state
    BY <1>3, <1>a, <2>1 DEF CancelRequest, Alone, Target
  <2>3. ~ModelPending'
    BY <1>3 DEF CancelRequest, ModelPending
  <2> QED
    BY <1>b, <2>2, <2>3
<1>4. CASE CancelRelease
  <2>1. flight' = {} /\ alive
    BY <1>4, <1>d DEF CancelRelease
  <2>2. CASE UNCHANGED state
    <3>1. CASE state = "wait_model"
      <4>1. task = "none" /\ batch = << >>
        BY <3>1 DEF RequestInv, OwnsInv, IInv, LoopInv, TurnInv
      <4> QED
        BY <1>4, <2>2, <3>1, <4>1 DEF CancelRelease, EndTurn
    <3>2. CASE state # "wait_model"
      BY <1>b, <2>1, <2>2, <3>2 DEF ModelPending
    <3> QED
      BY <3>1, <3>2
  <2>3. CASE state' = "cancelled"
    BY <1>b, <2>1, <2>3 DEF ModelPending
  <2> QED
    BY <1>4, <2>2, <2>3 DEF CancelRelease, EndTurn
<1>5. CASE BeginTurn \/ ContinueAnswer \/ ToolsDone
  BY <1>5, Senders, StartAlone
<1>6. CASE FinishCompaction
  <2>1. ~ModelPending /\ alive
    BY <1>6 DEF FinishCompaction, ModelPending, Iterating
  <2> QED
    BY <1>6, <1>b, <1>d, <2>1 DEF FinishCompaction, ModelPending
<1>7. CASE RetryRequest
  <2>1. flight = {} /\ compaction' = "idle" /\ StartModelRequest(sequence + 1, "fatal")
    BY <1>7, <1>d DEF RetryRequest, Failed, Answer, Iterating, ModelPending
  <2> QED
    BY <2>1, SendAlone
<1>8. CASE FailTurn \/ GiveUp \/ FinalAnswer \/ CallTools
  <2>1. ~ModelPending /\ alive /\ flight' = flight
    BY <1>8 DEF FailTurn, GiveUp, FinalAnswer, CallTools, Complete, Failed, Answer, Iterating,
                ModelPending
  <2>2. state' # "wait_model"
    BY <1>8 DEF FailTurn, GiveUp, FinalAnswer, CallTools, EndTurn
  <2> QED
    BY <1>b, <1>d, <2>1, <2>2 DEF ModelPending
<1>9. CASE RejectCall \/ AcceptCall \/ PollBatch \/ PollTask \/ DenyCall \/ AskUser \/ StartCall
  <2>1. state # "wait_model" /\ alive /\ flight' = flight
    BY <1>9 DEF RejectCall, AcceptCall, PollBatch, PollTask, DenyCall, AskUser, StartCall, AtCall,
                Decided, Iterating
  <2>2. state' # "wait_model"
    BY <1>9, <2>1 DEF RejectCall, AcceptCall, PollBatch, PollTask, DenyCall, AskUser, StartCall,
                AppendResult, EndTurn
  <2> QED
    BY <1>b, <1>d, <2>1, <2>2 DEF ModelPending
<1>10. CASE Destroy
  <2>1. ~alive' /\ flight' \subseteq flight
    BY <1>10 DEF Destroy
  <2> QED
    BY <1>a, <2>1 DEF OneRequest, Alone
<1>11. CASE RequestEnds
  <2>1. PICK f \in flight : ModelDone(f) \/ ModelError(f) \/ SummaryEnds(f)
    BY <1>11 DEF RequestEnds
  <2>2. alive /\ flight' = flight \ {f} /\ state' = state
    BY <2>1 DEF ModelDone, ModelError, SummaryEnds, Outside
  <2>3. /\ flight' = {} /\ f.id = requestId
        /\ ~f.summary => compaction = "idle"
    BY <2>2, LastOne
  <2>4. ~ModelPending'
    BY <2>1, <2>3 DEF ModelDone, ModelError, SummaryEnds, ModelPending
  <2> QED
    BY <1>b, <2>3, <2>4
<1> QED
  BY <1>1, <1>2, <1>3, <1>4, <1>5, <1>6, <1>7, <1>8, <1>9, <1>10, <1>11 DEF Next, Pass, User

\* Only a live agent takes a step, and stays alive unless it is destroyed.
LEMMA Destroyed ==
  ASSUME [Next]_vars
  PROVE  UNCHANGED vars \/ Destroy \/ (alive /\ alive' = alive)
<1> USE DEF turnVars
<1>1. CASE Pass
  <2>1. alive
    BY <1>1 DEF Pass, CancelRequest, CancelWaits, CancelRelease, BeginTurn, AwaitModel,
                FinishCompaction, RetryRequest, ScheduleRetry, FailTurn, ContinueAnswer, GiveUp,
                FinalAnswer, CallTools, AwaitUser, RejectCall, AcceptCall, StartBatch, PollBatch,
                PollTask, DenyCall, AskUser, StartCall, ToolsDone, Complete, Failed, Answer,
                AtCall, Decided, Iterating
  <2>2. \A list, c : StartRequest(list, c) => alive' = alive
    BY DEF StartRequest, StartModelRequest, StartCompactionRequest
  <2>3. \A i : AppendResult(i) => alive' = alive
    BY DEF AppendResult, EndTurn
  <2>4. alive' = alive
    BY <1>1, <2>2, <2>3
       DEF Pass, CancelRequest, CancelWaits, CancelRelease, BeginTurn, AwaitModel,
           FinishCompaction, RetryRequest, ScheduleRetry, FailTurn, ContinueAnswer, GiveUp,
           FinalAnswer, CallTools, AwaitUser, RejectCall, AcceptCall, StartBatch, PollBatch,
           PollTask, DenyCall, AskUser, StartCall, ToolsDone, Suspend, EndTurn,
           StartModelRequest
  <2> QED
    BY <2>1, <2>4
<1>2. CASE Resume \/ Start \/ Cancel \/ SetModel \/ SetTrusted \/ Decide \/ ModelDelta \/ RetryTimer
           \/ TaskEnds \/ \E i \in 1 .. MaxCalls : BatchCallEnds(i)
  BY <1>2, Zenon DEF Resume, Start, Cancel, SetModel, SetTrusted, Decide, ModelDelta, RetryTimer,
                     TaskEnds, BatchCallEnds, Outside
<1>3. CASE RequestEnds
  BY <1>3, Zenon DEF RequestEnds, ModelDone, ModelError, SummaryEnds, Outside
<1> QED
  BY <1>1, <1>2, <1>3 DEF Next, User

\* A destroyed agent has told the provider of the one request it waited for,
\* unless a stale request_done hid that it is a summary's.
LEMMA LeftBehindNext ==
  ASSUME IInv, RequestInv, [Next]_vars
  PROVE  LeftBehind'
<1> USE DEF turnVars, hostVars, requestVars
<1>1. CASE Destroy
  <2>1. alive /\ flight' \subseteq flight /\ model' = model
    BY <1>1 DEF Destroy, Outside
  <2>2. SUFFICES ASSUME NEW f \in flight', ~(f.summary /\ requestDone')
                 PROVE  f.model # model
    BY <2>1 DEF LeftBehind
  <2>3. f \in flight
    BY <2>1
  <2>4. f.id = requestId /\ state = "wait_model" /\ ~requestDone
    BY <1>1, <2>1, <2>2, <2>3, LastOne DEF Destroy
  <2> QED
    BY <1>1, <2>2, <2>4 DEF Destroy, Target
<1>2. CASE UNCHANGED vars
  BY <1>2 DEF RequestInv, LeftBehind, vars
<1>3. CASE alive /\ alive' = alive
  BY <1>3 DEF LeftBehind
<1> QED
  BY <1>1, <1>2, <1>3, Destroyed

\* While one model serves the agent, cancelling a request ends it.
LEMMA CancelNext ==
  ASSUME IInv, RequestInv, [Next]_vars
  PROVE  CancelInv'
<1> USE DEF turnVars, hostVars, cursorVars, requestVars, retryVars, compactVars, toolVars,
            approvalVars
<1>1. SUFFICES ASSUME OneModel, cancelRequested', NEW f \in flight'
               PROVE  f.summary
  BY DEF CancelInv
<1>a. CancelInv /\ OneRequest /\ Alone /\ flight \subseteq [id : Nat, model : Models, summary : BOOLEAN]
  BY DEF RequestInv, IInv, TypeOK, RequestTypes
<1>b. ASSUME f \in flight, cancelRequested PROVE f.summary
  BY <1>a, <1>b, <1>1 DEF CancelInv
<1>2. CASE CancelRequest
  BY <1>1, <1>2, <1>a DEF CancelRequest, Target, Alone
<1>3. CASE CancelWaits
  <2>1. f \in flight /\ alive /\ (cancelRequested \/ Target = {})
    BY <1>3 DEF CancelWaits
  <2>2. CASE Target = {}
    <3>1. f.model = model
      BY <1>1, <1>a, <2>1 DEF OneModel, IInv, TypeOK, HostTypes
    <3>2. f.id = requestId
      BY <1>a, <2>1 DEF OneRequest
    <3> QED
      BY <2>1, <2>2, <3>1, <3>2 DEF Target
  <2> QED
    BY <1>b, <2>1, <2>2
<1>4. CASE BeginTurn \/ ContinueAnswer \/ ToolsDone
  BY <1>1, <1>4, Senders, StartAlone
<1>5. CASE RetryRequest
  BY <1>1, <1>5 DEF RetryRequest, StartModelRequest
<1>6. CASE Start \/ Resume \/ Destroy \/ ModelDelta \/ RequestEnds \/ CancelRelease
  BY <1>1, <1>6, <1>b DEF Start, Resume, Destroy, ModelDelta, RequestEnds, ModelDone, ModelError,
                          SummaryEnds, CancelRelease
<1>7. CASE \/ AwaitModel \/ FinishCompaction \/ ScheduleRetry \/ FailTurn \/ GiveUp \/ FinalAnswer
           \/ CallTools \/ AwaitUser \/ RejectCall \/ AcceptCall \/ StartBatch \/ PollBatch
           \/ PollTask \/ DenyCall \/ AskUser \/ StartCall \/ Cancel \/ SetModel \/ SetTrusted
           \/ Decide \/ RetryTimer \/ TaskEnds \/ (\E i \in 1 .. MaxCalls : BatchCallEnds(i))
           \/ UNCHANGED vars
  <2>1. UNCHANGED << flight, cancelRequested >>
    BY <1>7 DEF AwaitModel, FinishCompaction, ScheduleRetry, FailTurn, GiveUp, FinalAnswer,
                CallTools, AwaitUser, RejectCall, AcceptCall, StartBatch, PollBatch, PollTask,
                DenyCall, AskUser, StartCall, Cancel, SetModel, SetTrusted, Decide, RetryTimer,
                TaskEnds, BatchCallEnds, vars
  <2> QED
    BY <1>1, <1>b, <2>1
<1> QED
  BY <1>2, <1>3, <1>4, <1>5, <1>6, <1>7 DEF Next, Pass, User

\* From the failure that is to be sent again to the retry, nothing is in
\* flight: nothing can be shown meanwhile.
LEMMA RetryNext ==
  ASSUME IInv, RequestInv, [Next]_vars
  PROVE  RetryInv'
<1> USE DEF turnVars, hostVars, cursorVars, requestVars, retryVars, compactVars, toolVars,
            approvalVars
<1>a. RetryInv
  BY DEF RequestInv
<1>b. ASSUME UNCHANGED << compaction, requestDone, ctx, state >>, alive' => alive,
             retryPending' # "no" => retryPending # "no"
      PROVE  RetryInv'
  BY <1>a, <1>b DEF RetryInv
<1>1. CASE BeginTurn \/ ContinueAnswer \/ ToolsDone
  <2>1. compaction = "idle" /\ \E list, c : StartRequest(list, c)
    BY <1>1, Senders
  <2>2. retryPending' = "no"
    BY <2>1, StartRequestForms
  <2> QED
    BY <2>2 DEF RetryInv
<1>2. CASE RetryRequest \/ Start
  BY <1>2 DEF RetryRequest, Start, RetryInv
<1>3. CASE ScheduleRetry
  BY <1>3 DEF ScheduleRetry, Failed, Answer, MayRetry, RetryInv
<1>4. CASE CancelRequest
  BY <1>4, <1>a DEF CancelRequest, ModelPending, RetryInv
<1>5. CASE CancelRelease
  BY <1>5, <1>a DEF CancelRelease, EndTurn, RetryInv
<1>6. CASE FinishCompaction \/ FailTurn \/ GiveUp \/ FinalAnswer \/ CallTools
  BY <1>6 DEF FinishCompaction, FailTurn, GiveUp, FinalAnswer, CallTools, EndTurn, RetryInv
<1>7. CASE RejectCall \/ AcceptCall \/ PollBatch \/ PollTask \/ DenyCall \/ AskUser \/ StartCall
  <2>1. state' # "wait_model"
    BY <1>7 DEF RejectCall, AcceptCall, PollBatch, PollTask, DenyCall, AskUser, StartCall,
                AppendResult, EndTurn, AtCall, Decided
  <2> QED
    BY <2>1 DEF RetryInv
<1>8. CASE \/ Resume \/ CancelWaits \/ AwaitModel \/ AwaitUser \/ StartBatch \/ Cancel \/ SetModel
           \/ SetTrusted \/ Decide \/ Destroy \/ RetryTimer \/ TaskEnds
           \/ (\E i \in 1 .. MaxCalls : BatchCallEnds(i)) \/ UNCHANGED vars
  <2>1. UNCHANGED << compaction, requestDone, ctx, state >>
    BY <1>8 DEF Resume, CancelWaits, AwaitModel, AwaitUser, StartBatch, Suspend, Cancel,
                SetModel, SetTrusted, Decide, Destroy, RetryTimer, TaskEnds, BatchCallEnds, vars
  <2>2. alive' => alive
    BY <1>8, Zenon
       DEF Resume, CancelWaits, AwaitModel, AwaitUser, StartBatch, Suspend, Cancel,
           SetModel, SetTrusted, Decide, Destroy, RetryTimer, TaskEnds, BatchCallEnds, vars
  <2>3. retryPending' # "no" => retryPending # "no"
    BY <1>8 DEF Resume, CancelWaits, AwaitModel, AwaitUser, StartBatch, Suspend, Cancel,
                SetModel, SetTrusted, Decide, Destroy, RetryTimer, TaskEnds, BatchCallEnds, vars
  <2> QED
    BY <1>b, <2>1, <2>2, <2>3
<1>9. CASE ModelDelta \/ RequestEnds
  <2>1. PICK f \in flight :
          (ModelDelta /\ ~f.summary) \/ ModelDone(f) \/ ModelError(f) \/ SummaryEnds(f)
    BY <1>9 DEF RequestEnds, ModelDelta
  <2>2. alive /\ UNCHANGED << state, retryPending >>
    BY <2>1 DEF ModelDelta, ModelDone, ModelError, SummaryEnds, Outside
  <2>3. f.summary = (compaction = "running") /\ (~f.summary => ~requestDone)
    BY <2>2, LastOne
  <2>4. state = "wait_model" => retryPending = "no"
    BY <1>a, <2>2, <2>3 DEF RetryInv
  <2> QED
    BY <2>2, <2>4 DEF RetryInv
<1> QED
  BY <1>1, <1>2, <1>3, <1>4, <1>5, <1>6, <1>7, <1>8, <1>9 DEF Next, Pass, User

\* The token a turn is cancelled with is still set when it is over, and then
\* the state says so.
LEMMA TokenNext ==
  ASSUME IInv, RequestInv, [Next]_vars
  PROVE  TokenInv'
<1> USE DEF turnVars, hostVars, cursorVars, requestVars, retryVars, compactVars, toolVars,
            approvalVars
<1>a. TokenInv
  BY DEF RequestInv
<1>1. CASE Iterating /\ cancelled' = cancelled
  BY <1>1 DEF Iterating, TokenInv
<1>2. CASE UNCHANGED << cancelled, inTurn, state >>
  BY <1>2, <1>a DEF TokenInv
<1>3. CASE inTurn'
  BY <1>3 DEF TokenInv
<1>4. CASE CancelRelease
  BY <1>4, <1>2, <1>a DEF CancelRelease, Suspend, EndTurn, TokenInv
<1>5. CASE Pass
  <2>1. CASE CancelRequest \/ CancelWaits
    BY <2>1, <1>2 DEF CancelRequest, CancelWaits, Suspend
  <2>2. ASSUME Pass, ~CancelRequest, ~CancelWaits, ~CancelRelease
        PROVE  Iterating /\ cancelled' = cancelled
    BY <2>2 DEF Pass, BeginTurn, AwaitModel, FinishCompaction, RetryRequest, ScheduleRetry, FailTurn,
                ContinueAnswer, GiveUp, FinalAnswer, CallTools, AwaitUser, RejectCall, AcceptCall,
                StartBatch, PollBatch, PollTask, DenyCall, AskUser, StartCall, ToolsDone,
                Complete, Failed, Answer, AtCall, Decided
  <2> QED
    BY <1>1, <1>4, <1>5, <2>1, <2>2
<1>6. CASE Start \/ Cancel
  <2>1. CASE Start
    BY <2>1 DEF Start, TokenInv
  <2>2. CASE Cancel
    BY <2>2 DEF Cancel, TokenInv
  <2> QED
    BY <1>6, <2>1, <2>2
<1>7. CASE Resume \/ SetModel \/ SetTrusted \/ Decide \/ Destroy \/ ModelDelta \/ RetryTimer
           \/ TaskEnds \/ (\E i \in 1 .. MaxCalls : BatchCallEnds(i)) \/ UNCHANGED vars
  BY <1>7, <1>2 DEF Resume, SetModel, SetTrusted, Decide, Destroy, ModelDelta, RetryTimer, TaskEnds,
                    BatchCallEnds, vars
<1>8. CASE RequestEnds
  BY <1>8, <1>2, Zenon DEF RequestEnds, ModelDone, ModelError, SummaryEnds
<1> QED
  BY <1>5, <1>6, <1>7, <1>8 DEF Next, User

\* What a provider may return is bounded.
LEMMA AnswerLength == \A calls \in Answers : Len(calls) <= MaxCalls
<1> SUFFICES ASSUME NEW calls \in Answers PROVE Len(calls) <= MaxCalls
  OBVIOUS
<1>1. PICK n \in 0 .. MaxCalls : calls \in [1 .. n -> Call]
  BY DEF Answers
<1>2. n \in Nat /\ n <= MaxCalls
  BY LoopAssumption
<1> QED
  BY <1>1, <1>2

\* Only the end of a request brings calls into ctx.
LEMMA CallsNext ==
  ASSUME IInv, RequestInv, [Next]_vars
  PROVE  CallsInv'
<1> USE DEF turnVars, hostVars, cursorVars, requestVars, retryVars, compactVars, toolVars,
            approvalVars
<1>a. CallsInv /\ ctx \in Output /\ MaxCalls \in Nat
  BY LoopAssumption DEF RequestInv, IInv, TypeOK, RequestTypes
<1>b. ASSUME ctx'.calls = ctx.calls \/ ctx'.calls = << >> PROVE CallsInv'
  BY <1>a, <1>b DEF CallsInv
<1>c. /\ Taken.calls = << >> /\ NoOutput.calls = << >>
      /\ \A e : [NoOutput EXCEPT !.error = e].calls = << >>
  BY <1>a DEF Taken, NoOutput, Output
<1>d. ASSUME NEW id, NEW refusal, StartModelRequest(id, refusal) PROVE ctx'.calls = << >>
  <2>1. \E e : ctx' = NoOutput \/ ctx' = [NoOutput EXCEPT !.error = e]
    BY <1>d DEF StartModelRequest
  <2> QED
    BY <1>c, <2>1
<1>1. CASE BeginTurn \/ ContinueAnswer \/ ToolsDone
  <2>1. compaction = "idle" /\ \E list, c : StartRequest(list, c) /\ c \in {ctx, Taken}
    BY <1>1, Senders
  <2>2. \/ ctx' = ctx \/ ctx' = Taken
        \/ StartModelRequest(sequence + 1, "none") \/ StartModelRequest(sequence + 2, "none")
    BY <2>1, StartRequestForms
  <2> QED
    BY <1>b, <1>c, <1>d, <2>2
<1>2. CASE RetryRequest
  BY <1>2, <1>b, <1>d DEF RetryRequest
<1>3. CASE GiveUp \/ FinalAnswer \/ CallTools
  BY <1>3, <1>b, <1>c DEF GiveUp, FinalAnswer, CallTools
<1>4. CASE CancelRequest
  <2>1. ctx' = ctx \/ ctx' = [ctx EXCEPT !.error = "retryable"]
    BY <1>4 DEF CancelRequest
  <2> QED
    BY <1>a, <1>b, <2>1 DEF Output
<1>5. CASE ModelDelta
  BY <1>5, <1>a, <1>b DEF ModelDelta, Output
<1>6. CASE RequestEnds
  <2>1. PICK f \in flight : ModelDone(f) \/ ModelError(f) \/ SummaryEnds(f)
    BY <1>6 DEF RequestEnds
  <2>2. CASE ModelDone(f)
    <3>1. ctx' = ctx \/ \E stop \in {"stop", "limit", "incomplete"}, calls \in Answers : ctx' = [ctx EXCEPT !.stop = stop, !.calls = calls]
      BY <2>2 DEF ModelDone
    <3>2. CASE \E stop \in {"stop", "limit", "incomplete"}, calls \in Answers : ctx' = [ctx EXCEPT !.stop = stop, !.calls = calls]
      <4>1. PICK stop \in {"stop", "limit", "incomplete"}, calls \in Answers : ctx' = [ctx EXCEPT !.stop = stop, !.calls = calls]
        BY <3>2
      <4>2. ctx'.calls = calls
        BY <1>a, <4>1 DEF Output
      <4> QED
        BY <4>2, AnswerLength DEF CallsInv
    <3> QED
      BY <1>b, <3>1, <3>2
  <2>3. CASE ModelError(f)
    <3>1. ctx' = ctx \/ \E e : ctx' = [ctx EXCEPT !.error = e]
      BY <2>3 DEF ModelError
    <3> QED
      BY <1>a, <1>b, <3>1 DEF Output
  <2>4. CASE SummaryEnds(f)
    BY <1>b, <2>4 DEF SummaryEnds
  <2> QED
    BY <2>1, <2>2, <2>3, <2>4
<1>7. CASE \/ CancelWaits \/ CancelRelease \/ AwaitModel \/ FinishCompaction \/ ScheduleRetry
           \/ FailTurn \/ AwaitUser \/ RejectCall \/ AcceptCall \/ StartBatch \/ PollBatch
           \/ PollTask \/ DenyCall \/ AskUser \/ StartCall \/ Resume \/ User \/ RetryTimer
           \/ TaskEnds \/ (\E i \in 1 .. MaxCalls : BatchCallEnds(i)) \/ UNCHANGED vars
  <2>1. ctx' = ctx
    BY <1>7 DEF CancelWaits, CancelRelease, AwaitModel, FinishCompaction, ScheduleRetry, FailTurn,
                AwaitUser, RejectCall, AcceptCall, StartBatch, PollBatch, PollTask, DenyCall,
                AskUser, StartCall, Resume, User, Start, Cancel, SetModel, SetTrusted, Decide,
                Destroy, RetryTimer, TaskEnds, BatchCallEnds, vars
  <2> QED
    BY <1>b, <2>1
<1> QED
  BY <1>1, <1>2, <1>3, <1>4, <1>5, <1>6, <1>7 DEF Next, Pass

-----------------------------------------------------------------------------
(* Calls that have started. *)

\* What is started stays where it is while the cursor and the batch do, and no
\* task is forgotten.
LEMMA StartedFrame ==
  ASSUME StartedInv, started' = started, UNCHANGED << messages, toolMsg, toolIndex >>,
         alive' => alive, state' \in {"wait_tool", "wait_user"} => state \in {"wait_tool", "wait_user"},
         batch' = << >> <=> batch = << >>, Len(batch') = Len(batch),
         task # "none" => task' # "none"
  PROVE  StartedInv'
BY DEF StartedInv, StartedOnce, ToolCalls, Eligible

\* The result of the call at the cursor moves it past all that has started.
LEMMA StartedPast ==
  ASSUME TypeOK, NEW n \in Nat, n > 1, StartedOnce', toolIndex' = n, started' \in Seq(Nat),
         batch' = << >>, \A i \in 1 .. Len(started') : started'[i] < n
  PROVE  StartedInv'
BY DEF StartedInv, StartedOnce

\* Outside the tool states, what has started is only remembered.
LEMMA StartedElsewhere ==
  ASSUME StartedInv, started' = started \/ started' = << >>,
         state' \notin {"wait_tool", "wait_user"}
  PROVE  StartedInv'
<1>1. StartedOnce'
  BY DEF StartedInv, StartedOnce
<1> QED
  BY <1>1 DEF StartedInv

\* append_tool_result with a cursor behind which everything has started, once.
LEMMA StartedResult ==
  ASSUME TypeOK, CursorInv, state \in {"wait_tool", "wait_user"}, AppendResult(toolIndex),
         started' \in Seq(Nat), StartedOnce', batch' = << >>,
         \A i \in 1 .. Len(started') : started'[i] <= toolIndex
  PROVE  StartedInv'
<1>1. toolIndex \in Nat /\ toolIndex >= 1
  BY DEF CursorInv, TypeOK, CursorTypes
<1>2. CASE toolIndex' = toolIndex + 1
  <2>1. toolIndex + 1 \in Nat /\ toolIndex + 1 > 1
    BY <1>1
  <2>2. \A i \in 1 .. Len(started') : started'[i] < toolIndex + 1
    BY <1>1
  <2> QED
    BY <1>2, <2>1, <2>2, StartedPast
<1>3. CASE state' = "error"
  BY <1>3 DEF StartedInv
<1> QED
  BY <1>2, <1>3 DEF AppendResult, EndTurn

\* A call starts at the cursor, behind which all others are, or with its batch,
\* before anything else.
LEMMA StartedNext ==
  ASSUME IInv, RequestInv, [Next]_vars
  PROVE  StartedInv'
<1> USE DEF turnVars, hostVars, cursorVars, requestVars, retryVars, compactVars, toolVars,
            approvalVars
<1>a. /\ StartedInv /\ StartedOnce /\ OwnsInv /\ TypeOK /\ CursorInv /\ TurnInv /\ AskInv
      /\ started \in Seq(Nat) /\ toolIndex \in Nat /\ batch \in Seq(ToolStates)
  BY DEF IInv, LoopInv, RequestInv, StartedInv, TypeOK, ToolTypes, CursorTypes
<1>b. ASSUME alive, state \in {"wait_tool", "wait_user"}, batch = << >>
      PROVE  \A i \in 1 .. Len(started) : started[i] <= toolIndex
                                          /\ (task = "none" => started[i] < toolIndex)
  BY <1>a, <1>b DEF StartedInv
<1>1. CASE \/ Resume \/ CancelRequest \/ CancelWaits \/ AwaitModel \/ ScheduleRetry \/ AwaitUser
           \/ Cancel \/ SetModel \/ SetTrusted \/ Decide \/ ModelDelta \/ RetryTimer
           \/ UNCHANGED vars
  <2>1. UNCHANGED << started, messages, toolMsg, toolIndex, alive, state, batch, task >>
    BY <1>1 DEF Resume, CancelRequest, CancelWaits, AwaitModel, ScheduleRetry, AwaitUser, Cancel,
                SetModel, SetTrusted, Decide, ModelDelta, RetryTimer, Suspend, vars
  <2> QED
    BY <1>a, <2>1, StartedFrame
<1>2. CASE RequestEnds
  <2>1. UNCHANGED << started, messages, toolMsg, toolIndex, alive, state, batch, task >>
    BY <1>2, Zenon DEF RequestEnds, ModelDone, ModelError, SummaryEnds
  <2> QED
    BY <1>a, <2>1, StartedFrame
<1>3. CASE CancelRelease
  <2>1. CASE state' = "cancelled"
    BY <1>3, <1>a, <2>1, StartedElsewhere DEF CancelRelease
  <2>2. CASE /\ state' = state /\ UNCHANGED << started, messages, toolMsg, toolIndex, alive >>
             /\ \/ task \in {"running", "cancelling"} /\ task' = AskToStop(task) /\ batch' = batch
                \/ /\ \E i \in 1 .. Len(batch) : Unfinished(i)
                   /\ batch' = StoppedBatch
    <3>1. Len(batch') = Len(batch) /\ (batch' = << >> <=> batch = << >>)
      BY <1>a, <2>2 DEF StoppedBatch
    <3>2. CASE task \in {"running", "cancelling"} /\ task' = AskToStop(task)
      <4>1. task' # "none"
        BY <3>2 DEF AskToStop
      <4> QED
        BY <1>a, <2>2, <3>1, <4>1, StartedFrame
    <3>3. CASE \E i \in 1 .. Len(batch) : Unfinished(i)
      <4>1. task = "none"
        BY <1>a, <3>3 DEF OwnsInv
      <4> QED
        BY <1>a, <2>2, <3>1, <4>1, StartedFrame
    <3> QED
      BY <2>2, <3>2, <3>3
  <2> QED
    BY <1>3, <2>1, <2>2 DEF CancelRelease, EndTurn, Suspend
<1>4. CASE Start \/ FinishCompaction \/ FailTurn \/ GiveUp \/ FinalAnswer
  <2>1. started' = started /\ state' \notin {"wait_tool", "wait_user"}
    BY <1>4 DEF Start, FinishCompaction, FailTurn, GiveUp, FinalAnswer, EndTurn
  <2> QED
    BY <1>a, <2>1, StartedElsewhere
<1>5. CASE BeginTurn \/ ContinueAnswer \/ ToolsDone \/ RetryRequest
  <2>1. started' = started
    BY <1>5 DEF BeginTurn, ContinueAnswer, ToolsDone, RetryRequest
  <2>2. state' \in {"wait_model", "error"}
    BY <1>5 DEF BeginTurn, ContinueAnswer, ToolsDone, RetryRequest, StartRequest,
                StartModelRequest, StartCompactionRequest
  <2> QED
    BY <1>a, <2>1, <2>2, StartedElsewhere
<1>6. CASE CallTools
  <2>1. started' = << >>
    BY <1>6 DEF CallTools
  <2> QED
    BY <2>1 DEF StartedInv, StartedOnce
<1>7. CASE RejectCall
  <2>1. /\ AppendResult(toolIndex) /\ state = "wait_user" /\ alive /\ UNCHANGED << started, batch >>
    BY <1>7 DEF RejectCall, Decided, Iterating
  <2>2. batch = << >> /\ StartedOnce'
    BY <1>a, <2>1 DEF AskInv, StartedOnce
  <2>3. \A i \in 1 .. Len(started') : started'[i] <= toolIndex
    BY <1>b, <2>1, <2>2
  <2> QED
    BY <1>a, <2>1, <2>2, <2>3, StartedResult
<1>8. CASE AcceptCall \/ AskUser
  <2>1. UNCHANGED << started, messages, toolMsg, toolIndex, alive, batch, task >>
        /\ state \in {"wait_tool", "wait_user"}
    BY <1>8 DEF AcceptCall, AskUser, Decided, AtCall, Suspend
  <2> QED
    BY <1>a, <2>1, StartedFrame
<1>9. CASE StartBatch
  <2>1. /\ started' = [i \in 1 .. Len(ToolCalls) |-> i] /\ state = "wait_tool" /\ Len(ToolCalls) >= 2
        /\ batch' \in [1 .. Len(ToolCalls) -> {"running", "finished"}]
    BY <1>9 DEF StartBatch, Eligible
  <2>2. Len(ToolCalls) \in Nat
    <3>1. messages[toolMsg] \in Message
      BY <1>a, <2>1 DEF CursorInv, TypeOK
    <3> QED
      BY <3>1 DEF ToolCalls, Message
  <2>3. /\ Len(batch') = Len(ToolCalls) /\ batch' # << >>
        /\ Len(started') = Len(ToolCalls)
        /\ \A i \in 1 .. Len(started') : started'[i] = i
    BY <2>1, <2>2
  <2>4. StartedOnce'
    BY <2>3 DEF StartedOnce
  <2>5. \A i \in 1 .. Len(started') : started'[i] <= Len(batch')
    BY <2>2, <2>3
  <2> QED
    BY <2>3, <2>4, <2>5 DEF StartedInv
<1>10. CASE PollBatch
  <2>1. state = "wait_tool" /\ batch # << >> /\ alive /\ started' = started
    BY <1>10 DEF PollBatch, Iterating
  <2>2. CASE Suspend /\ UNCHANGED << state, batch, messages, toolIndex, toolMsg, task >>
    BY <1>a, <2>1, <2>2, StartedFrame DEF Suspend
  <2>3. CASE EndTurn("error")
    BY <1>a, <2>1, <2>3, StartedElsewhere DEF EndTurn
  <2>4. CASE batch' = << >> /\ toolIndex' = Len(batch) + 1
    <3>1. Len(batch) \in Nat /\ Len(batch) > 0
      BY <1>a, <2>1
    <3>2. Len(batch) + 1 \in Nat /\ Len(batch) + 1 > 1
      BY <3>1
    <3>3. \A i \in 1 .. Len(started) : started[i] <= Len(batch) /\ started[i] \in Nat
      BY <1>a, <2>1 DEF StartedInv
    <3>4. \A i \in 1 .. Len(started') : started'[i] < Len(batch) + 1
      BY <2>1, <3>1, <3>3
    <3>5. StartedOnce' /\ started' \in Seq(Nat)
      BY <1>a, <2>1 DEF StartedOnce
    <3> QED
      BY <1>a, <2>4, <3>2, <3>4, <3>5, StartedPast
  <2> QED
    BY <1>10, <2>2, <2>3, <2>4 DEF PollBatch
<1>11. CASE PollTask
  <2>1. state = "wait_tool" /\ alive /\ batch = << >> /\ UNCHANGED << started, batch, toolMsg >>
    BY <1>11 DEF PollTask, AtCall, Iterating
  <2>2. CASE Suspend /\ UNCHANGED << state, task, messages, toolIndex >>
    BY <1>a, <2>1, <2>2, StartedFrame DEF Suspend
  <2>3. CASE AppendResult(toolIndex)
    <3>1. \A i \in 1 .. Len(started') : started'[i] <= toolIndex
      BY <1>b, <2>1
    <3>2. StartedOnce' /\ started' \in Seq(Nat) /\ batch' = << >>
      BY <1>a, <2>1 DEF StartedOnce
    <3> QED
      BY <1>a, <2>1, <2>3, <3>1, <3>2, StartedResult
  <2> QED
    BY <1>11, <2>2, <2>3 DEF PollTask
<1>12. CASE DenyCall
  <2>1. /\ state = "wait_tool" /\ alive /\ batch = << >> /\ UNCHANGED << started, batch >>
        /\ AppendResult(toolIndex)
    BY <1>12 DEF DenyCall, AtCall, Iterating
  <2>2. \A i \in 1 .. Len(started') : started'[i] <= toolIndex
    BY <1>b, <2>1
  <2>3. StartedOnce' /\ started' \in Seq(Nat) /\ batch' = << >>
    BY <1>a, <2>1 DEF StartedOnce
  <2> QED
    BY <1>a, <2>1, <2>2, <2>3, StartedResult
<1>13. CASE StartCall
  <2>1. /\ state = "wait_tool" /\ alive /\ batch = << >> /\ UNCHANGED << batch, toolMsg >>
        /\ task = "none" /\ started' = Append(started, toolIndex)
        /\ ~(toolIndex = 1 /\ Eligible)
    BY <1>13 DEF StartCall, AtCall, Iterating
  <2>2. \A i \in 1 .. Len(started) : started[i] < toolIndex /\ started[i] \in Nat
    BY <1>a, <1>b, <2>1
  <2>3. /\ started' \in Seq(Nat) /\ Len(started') = Len(started) + 1
        /\ \A i \in 1 .. Len(started) : started'[i] = started[i]
        /\ started'[Len(started) + 1] = toolIndex
    BY <1>a, <2>1
  <2>4. \A i \in 1 .. Len(started') :
          (started'[i] < toolIndex /\ i # Len(started')) \/ (started'[i] = toolIndex /\ i = Len(started'))
    <3>1. Len(started) \in Nat
      BY <1>a
    <3>2. TAKE i \in 1 .. Len(started')
    <3>3. CASE i = Len(started) + 1
      BY <2>3, <3>3
    <3>4. CASE i # Len(started) + 1
      <4>1. i \in 1 .. Len(started) /\ i # Len(started')
        BY <2>3, <3>1, <3>4
      <4>2. started'[i] = started[i] /\ started[i] < toolIndex
        BY <2>2, <2>3, <4>1
      <4> QED
        BY <4>1, <4>2
    <3> QED
      BY <3>3, <3>4
  <2>5. StartedOnce'
    <3>1. SUFFICES ASSUME NEW i \in 1 .. Len(started'), NEW j \in 1 .. Len(started'),
                          started'[i] = started'[j]
                   PROVE  i = j
      BY DEF StartedOnce
    <3>2. CASE i # Len(started') /\ j # Len(started')
      <4>1. i \in 1 .. Len(started) /\ j \in 1 .. Len(started)
        BY <1>a, <2>3, <3>2
      <4> QED
        BY <1>a, <2>3, <3>1, <4>1 DEF StartedOnce
    <3> QED
      BY <1>a, <2>4, <3>1, <3>2
  <2>6. CASE task' = "running" /\ Suspend /\ UNCHANGED << state, messages, toolIndex >>
    <3>1. ~(toolIndex' = 1 /\ Eligible')
      BY <2>1, <2>6 DEF Eligible, ToolCalls
    <3> QED
      BY <2>1, <2>4, <2>5, <2>6, <3>1 DEF StartedInv
  <2>7. CASE AppendResult(toolIndex)
    <3>1. \A i \in 1 .. Len(started') : started'[i] <= toolIndex
      BY <1>a, <2>3, <2>4
    <3> QED
      BY <1>a, <2>1, <2>3, <2>5, <2>7, <3>1, StartedResult
  <2> QED
    BY <1>13, <2>6, <2>7 DEF StartCall
<1>14. CASE Destroy
  <2>1. started' = started /\ ~alive'
    BY <1>14 DEF Destroy
  <2> QED
    BY <1>a, <2>1 DEF StartedInv, StartedOnce
<1>15. CASE TaskEnds
  <2>1. UNCHANGED << started, messages, toolMsg, toolIndex, alive, state, batch >> /\ task' # "none"
    BY <1>15 DEF TaskEnds
  <2> QED
    BY <1>a, <2>1, StartedFrame
<1>16. CASE \E i \in 1 .. MaxCalls : BatchCallEnds(i)
  <2>1. /\ UNCHANGED << started, messages, toolMsg, toolIndex, alive, state, task >>
        /\ Len(batch') = Len(batch) /\ (batch' = << >> <=> batch = << >>)
    BY <1>16, <1>a DEF BatchCallEnds
  <2> QED
    BY <1>a, <2>1, StartedFrame
<1> QED
  BY <1>1, <1>2, <1>3, <1>4, <1>5, <1>6, <1>7, <1>8, <1>9, <1>10, <1>11, <1>12, <1>13, <1>14,
     <1>15, <1>16 DEF Next, Pass, User

-----------------------------------------------------------------------------
(* Answers. *)

\* A message answered in a list is answered in a longer one.
LEMMA AnsweredStays ==
  ASSUME NEW list \in Seq(Message), NEW longer \in Seq(Message), Len(longer) >= Len(list),
         \A k \in 1 .. Len(list) : longer[k] = list[k],
         NEW k \in 1 .. Len(list), Answered(list, k)
  PROVE  Answered(longer, k)
<1>1. longer[k] = list[k]
  OBVIOUS
<1>2. SUFFICES ASSUME NEW i \in 1 .. Len(list[k].calls)
               PROVE  k + i <= Len(longer) /\ IsTool(longer, k + i) /\ longer[k + i].answers = i
  BY <1>1 DEF Answered
<1>3. k + i <= Len(list) /\ IsTool(list, k + i) /\ list[k + i].answers = i
  BY <1>2 DEF Answered
<1>4. list[k] \in Message
  OBVIOUS
<1>5. i \in Nat /\ i >= 1
  <2>1. list[k].calls \in Seq(Call)
    BY <1>4 DEF Message
  <2>2. Len(list[k].calls) \in Nat
    BY <2>1
  <2> QED
    BY <2>2
<1>6. k + i \in 1 .. Len(list) /\ k + i <= Len(longer)
  BY <1>3, <1>5
<1>7. longer[k + i] = list[k + i]
  BY <1>6
<1>8. IsTool(longer, k + i)
  BY <1>3, <1>7 DEF IsTool
<1> QED
  BY <1>3, <1>6, <1>7, <1>8

\* Messages after the last one of the user stay so in a shorter tail.
LEMMA RecentPrefix ==
  ASSUME NEW list \in Seq(Message), NEW longer \in Seq(Message), Len(longer) >= Len(list),
         \A k \in 1 .. Len(list) : longer[k] = list[k],
         NEW k \in 1 .. Len(list), Recent(longer, k)
  PROVE  Recent(list, k)
BY DEF Recent

\* A message without calls may be appended to answered ones.
LEMMA AppendAnswered ==
  ASSUME NEW list \in Seq(Message), AnsweredRecently(list), NEW m \in Message,
         m.role = "user" \/ m.calls = << >>
  PROVE  AnsweredRecently(Append(list, m))
<1> DEFINE new == Append(list, m)
<1>1. /\ new \in Seq(Message) /\ Len(new) = Len(list) + 1
      /\ \A k \in 1 .. Len(list) : new[k] = list[k]
      /\ new[Len(list) + 1] = m
  BY AppendType
<1> HIDE DEF new
<1>2. SUFFICES ASSUME NEW k \in 1 .. Len(new), Recent(new, k) PROVE Answered(new, k)
  BY DEF AnsweredRecently, new
<1>3. CASE k \in 1 .. Len(list)
  <2>1. Len(new) >= Len(list)
    BY <1>1
  <2>2. Recent(list, k)
    BY <1>1, <1>2, <1>3, <2>1, RecentPrefix
  <2>3. Answered(list, k)
    BY <1>3, <2>2 DEF AnsweredRecently
  <2> QED
    BY <1>1, <1>3, <2>1, <2>3, AnsweredStays
<1>4. CASE k \notin 1 .. Len(list)
  <2>1. k = Len(list) + 1 /\ k \in k .. Len(new)
    BY <1>1, <1>4
  <2>2. m.calls = << >>
    BY <1>1, <1>2, <2>1 DEF Recent
  <2> QED
    BY <1>1, <2>1, <2>2 DEF Answered
<1> QED
  BY <1>3, <1>4

\* Nothing is owed after a message of the user.
LEMMA UserAnswers ==
  ASSUME NEW list \in Seq(Message), NEW m \in Message, m.role = "user"
  PROVE  AnsweredRecently(Append(list, m))
<1> DEFINE new == Append(list, m)
<1>1. Len(new) = Len(list) + 1 /\ new[Len(list) + 1] = m /\ Len(list) \in Nat
  BY AppendType
<1> HIDE DEF new
<1>2. \A k \in 1 .. Len(new) : Len(list) + 1 \in k .. Len(new)
  BY <1>1
<1> QED
  BY <1>1, <1>2 DEF AnsweredRecently, Recent, new

\* Replacing a range by a message of the user leaves behind it what was there.
LEMMA ReplaceAnswered ==
  ASSUME NEW list \in Seq(Message), NEW start \in Nat, NEW count \in Nat \ {0},
         start + count <= Len(list), NEW summary \in Message, summary.role = "user",
         AnsweredRecently(list)
  PROVE  AnsweredRecently(Replace(list, start, count, summary))
<1> DEFINE new == Replace(list, start, count, summary)
<1>1. /\ new \in Seq(Message)
      /\ Len(new) = Len(list) - count + 1
      /\ new[start + 1] = summary
      /\ \A k \in start + 2 .. Len(new) : new[k] = list[k + count - 1]
  BY ReplaceType
<1> HIDE DEF new
<1>2. SUFFICES ASSUME NEW k \in 1 .. Len(new), Recent(new, k) PROVE Answered(new, k)
  BY DEF AnsweredRecently, new
<1>3. start + 1 <= Len(new) /\ Len(new) \in Nat /\ Len(list) \in Nat
  BY <1>1
<1>4. k \in start + 2 .. Len(new)
  <2>1. ~(start + 1 \in k .. Len(new))
    BY <1>1, <1>2 DEF Recent
  <2> QED
    BY <1>3, <2>1
<1> DEFINE old == k + count - 1
<1>5. old \in 1 .. Len(list) /\ new[k] = list[old] /\ old \in Nat
  BY <1>1, <1>3, <1>4
<1>6. Recent(list, old)
  <2>1. SUFFICES ASSUME NEW j \in old .. Len(list) PROVE list[j].role # "user"
    BY DEF Recent
  <2>2. (j - count) + 1 \in k .. Len(new) /\ (j - count) + 1 \in start + 2 .. Len(new)
        /\ ((j - count) + 1) + count - 1 = j
    BY <1>1, <1>3, <1>4, <1>5, <2>1
  <2>3. new[(j - count) + 1] = list[j]
    BY <1>1, <2>2
  <2> QED
    BY <1>2, <2>2, <2>3 DEF Recent
<1>7. Answered(list, old)
  BY <1>5, <1>6 DEF AnsweredRecently
<1>8. SUFFICES ASSUME NEW i \in 1 .. Len(new[k].calls)
               PROVE  k + i <= Len(new) /\ IsTool(new, k + i) /\ new[k + i].answers = i
  BY DEF Answered
<1>9. old + i <= Len(list) /\ IsTool(list, old + i) /\ list[old + i].answers = i
  BY <1>5, <1>7, <1>8 DEF Answered
<1>10. i \in Nat /\ i >= 1
  <2>1. new[k] \in Message
    BY <1>1
  <2> QED
    BY <2>1 DEF Message
<1>11. k + i \in start + 2 .. Len(new) /\ (k + i) + count - 1 = old + i
  BY <1>1, <1>3, <1>4, <1>9, <1>10
<1>12. new[k + i] = list[old + i]
  BY <1>1, <1>11
<1> QED
  BY <1>9, <1>11, <1>12 DEF IsTool

\* context_compaction_apply leaves no call of the turn unanswered.
THEOREM CompactAnswered ==
  ASSUME NEW list \in Seq(Message), NEW bounds_ \in [start : Nat, count : Nat],
         NEW summary \in Message, summary.role = "user", AnsweredRecently(list)
  PROVE  AnsweredRecently(Compact(list, bounds_, summary))
<1> DEFINE start == bounds_.start
           safe  == ToolSafePrefix(list, start, bounds_.count)
<1>1. CASE \/ bounds_.count = 0 \/ start >= Len(list)
           \/ bounds_.count > Len(list) - start \/ safe = 0
  BY <1>1 DEF Compact
<1>2. CASE ~(\/ bounds_.count = 0 \/ start >= Len(list)
             \/ bounds_.count > Len(list) - start \/ safe = 0)
  <2>1. start \in Nat /\ bounds_.count \in Nat /\ start < Len(list)
    BY <1>2
  <2>2. safe \in Nat \ {0} /\ start + safe <= Len(list)
    BY <1>2, <2>1, ToolSafePrefixBound
  <2>3. Compact(list, bounds_, summary) = Replace(list, start, safe, summary)
    BY <1>2 DEF Compact
  <2> HIDE DEF safe
  <2>4. AnsweredRecently(Replace(list, start, safe, summary))
    BY <2>1, <2>2, ReplaceAnswered
  <2> QED
    BY <2>3, <2>4
<1> QED
  BY <1>1, <1>2

\* While tools run the conversation only grows, and what is before the answer
\* they come from stays answered.
LEMMA AnsweredGrows ==
  ASSUME TypeOK, AnsweredInv, state \in {"wait_tool", "wait_user"}, toolMsg' = toolMsg,
         state' \notin {"ready", "wait_model"}, CursorInv,
         messages' \in Seq(Message), Len(messages') >= Len(messages),
         \A k \in 1 .. Len(messages) : messages'[k] = messages[k]
  PROVE  AnsweredInv'
<1>1. messages \in Seq(Message) /\ toolMsg \in 1 .. Len(messages)
  BY DEF TypeOK, CursorInv
<1>2. ASSUME NEW k \in 1 .. toolMsg - 1, Recent(messages', k) PROVE Answered(messages', k)
  <2>1. k \in 1 .. Len(messages)
    BY <1>1
  <2>2. Recent(messages, k)
    BY <1>1, <1>2, <2>1, RecentPrefix
  <2>3. Answered(messages, k)
    BY <2>2 DEF AnsweredInv
  <2> QED
    BY <1>1, <2>1, <2>3, AnsweredStays
<1> QED
  BY <1>2 DEF AnsweredInv

\* append_tool_result grows it by the result, or leaves it.
LEMMA AnsweredResult ==
  ASSUME TypeOK, AnsweredInv, CursorInv, state \in {"wait_tool", "wait_user"},
         toolMsg' = toolMsg, AppendResult(toolIndex)
  PROVE  AnsweredInv'
<1>1. messages \in Seq(Message) /\ toolIndex \in Nat
  BY DEF TypeOK, CursorTypes
<1>2. CASE messages' = Append(messages, ToolMessage(toolIndex)) /\ state' = "wait_tool"
  <2>1. /\ messages' \in Seq(Message) /\ Len(messages') = Len(messages) + 1
        /\ \A k \in 1 .. Len(messages) : messages'[k] = messages[k]
    BY <1>1, <1>2, AppendType, MessageTypes
  <2>2. Len(messages') >= Len(messages)
    BY <1>1, <2>1
  <2> QED
    BY <1>2, <2>1, <2>2, AnsweredGrows
<1>3. CASE messages' = messages /\ state' = "error"
  BY <1>3 DEF AnsweredInv
<1> QED
  BY <1>2, <1>3 DEF AppendResult, EndTurn

\* A request is sent with the list it is given, compacted or not.
LEMMA AnsweredStart ==
  ASSUME NEW list \in Seq(Message), NEW c, AnsweredRecently(list), StartRequest(list, c)
  PROVE  AnsweredInv'
<1>1. state' \in {"wait_model", "error"}
  BY DEF StartRequest, StartModelRequest, StartCompactionRequest
<1>2. messages' = list \/ messages' = Compact(list, CompactionBounds(list), UserMessage)
  BY DEF StartRequest, StartCompactionRequest
<1>3. UserMessage \in Message /\ UserMessage.role = "user"
  BY MessageTypes DEF UserMessage
<1>4. CompactionBounds(list) \in [start : Nat, count : Nat]
  BY BoundsInside
<1>5. AnsweredRecently(Compact(list, CompactionBounds(list), UserMessage))
  BY <1>3, <1>4, CompactAnswered
<1> QED
  BY <1>1, <1>2, <1>5 DEF AnsweredInv

\* When the cursor is past the last call, every call is answered.
LEMMA AllAnsweredAtEnd ==
  ASSUME TypeOK, CursorInv, AnsweredInv, state = "wait_tool", toolIndex > Len(ToolCalls)
  PROVE  AnsweredRecently(messages)
<1>1. /\ messages \in Seq(Message) /\ toolMsg \in 1 .. Len(messages) /\ toolIndex \in Nat
      /\ toolIndex \in 1 .. Len(ToolCalls) + 1
      /\ Len(messages) = toolMsg + toolIndex - 1
      /\ \A i \in 1 .. toolIndex - 1 : messages[toolMsg + i] = ToolMessage(i)
  BY DEF TypeOK, CursorTypes, CursorInv
<1>2. Len(ToolCalls) \in Nat /\ toolIndex = Len(ToolCalls) + 1
  <2>1. messages[toolMsg] \in Message
    BY <1>1
  <2>2. Len(ToolCalls) \in Nat
    BY <2>1 DEF ToolCalls, Message
  <2> QED
    BY <1>1, <2>2
<1>3. SUFFICES ASSUME NEW k \in 1 .. Len(messages), Recent(messages, k) PROVE Answered(messages, k)
  BY DEF AnsweredRecently
<1>4. CASE k < toolMsg
  <2>1. k \in 1 .. toolMsg - 1
    BY <1>1, <1>4
  <2> QED
    BY <1>3, <2>1 DEF AnsweredInv
<1>5. CASE k = toolMsg
  <2>1. \A i \in 1 .. Len(ToolCalls) :
          k + i <= Len(messages) /\ messages[k + i] = ToolMessage(i)
    BY <1>1, <1>2, <1>5
  <2>2. \A i \in 1 .. Len(ToolCalls) : ToolMessage(i).role = "tool" /\ ToolMessage(i).answers = i
    BY DEF ToolMessage
  <2>3. \A i \in 1 .. Len(ToolCalls) :
          k + i <= Len(messages) /\ messages[k + i].role = "tool" /\ messages[k + i].answers = i
    BY <2>1, <2>2
  <2>4. messages[k].calls = ToolCalls
    BY <1>5 DEF ToolCalls
  <2> QED
    BY <2>3, <2>4 DEF Answered, IsTool
<1>6. CASE k > toolMsg
  <2>1. k - toolMsg \in 1 .. toolIndex - 1 /\ toolMsg + (k - toolMsg) = k
    BY <1>1, <1>6
  <2>2. messages[toolMsg + (k - toolMsg)] = ToolMessage(k - toolMsg)
    BY <1>1, <2>1
  <2>3. messages[k] = ToolMessage(k - toolMsg)
    BY <2>1, <2>2
  <2>4. ToolMessage(k - toolMsg).calls = << >>
    BY DEF ToolMessage
  <2>5. messages[k].calls = << >>
    BY <2>3, <2>4
  <2> QED
    BY <2>5 DEF Answered
<1> QED
  BY <1>1, <1>4, <1>5, <1>6

\* Every path back to the model has the results first.
LEMMA AnsweredNext ==
  ASSUME IInv, RequestInv, [Next]_vars
  PROVE  AnsweredInv'
<1> USE DEF turnVars, hostVars, cursorVars, requestVars, retryVars, compactVars, toolVars,
            approvalVars
<1>a. /\ AnsweredInv /\ TypeOK /\ CursorInv /\ AskInv /\ messages \in Seq(Message)
      /\ toolIndex \in Nat
  BY DEF IInv, LoopInv, RequestInv, TypeOK, CursorTypes
<1>b. ASSUME messages' = messages, toolMsg' = toolMsg, state' = state PROVE AnsweredInv'
  BY <1>a, <1>b DEF AnsweredInv
<1>c. ASSUME state' \in {"done", "error", "cancelled"} PROVE AnsweredInv'
  BY <1>c DEF AnsweredInv
<1>1. CASE Start
  <2>1. state' = "ready" /\ messages' = Append(messages, UserMessage)
    BY <1>1 DEF Start
  <2>2. UserMessage \in Message /\ UserMessage.role = "user"
    BY MessageTypes DEF UserMessage
  <2>3. AnsweredRecently(Append(messages, UserMessage))
    BY <1>a, <2>2, UserAnswers
  <2> QED
    BY <2>1, <2>3 DEF AnsweredInv
<1>2. CASE \/ Resume \/ CancelRequest \/ CancelWaits \/ AwaitModel \/ ScheduleRetry \/ AwaitUser
           \/ StartBatch \/ Cancel \/ SetModel \/ SetTrusted \/ Decide \/ ModelDelta \/ RetryTimer
           \/ Destroy \/ TaskEnds \/ (\E i \in 1 .. MaxCalls : BatchCallEnds(i))
           \/ UNCHANGED vars
  <2>1. UNCHANGED << messages, toolMsg, state >>
    BY <1>2 DEF Resume, CancelRequest, CancelWaits, AwaitModel, ScheduleRetry, AwaitUser, StartBatch,
                Cancel, SetModel, SetTrusted, Decide, ModelDelta, RetryTimer, Destroy, TaskEnds,
                BatchCallEnds, Suspend, vars
  <2> QED
    BY <1>b, <2>1
<1>3. CASE RequestEnds
  <2>1. UNCHANGED << messages, toolMsg, state >>
    BY <1>3, Zenon DEF RequestEnds, ModelDone, ModelError, SummaryEnds
  <2> QED
    BY <1>b, <2>1
<1>4. CASE CancelRelease
  BY <1>4, <1>b, <1>c DEF CancelRelease, EndTurn
<1>5. CASE FailTurn \/ GiveUp \/ FinalAnswer
  BY <1>5, <1>c DEF FailTurn, GiveUp, FinalAnswer, EndTurn
<1>6. CASE BeginTurn
  <2>1. StartRequest(messages, ctx) /\ AnsweredRecently(messages)
    BY <1>6, <1>a DEF BeginTurn, AnsweredInv
  <2> QED
    BY <1>a, <2>1, AnsweredStart
<1>7. CASE ContinueAnswer
  <2>1. StartRequest(Append(messages, Assembled), Taken) /\ state = "wait_model" /\ ctx.stop = "limit"
    BY <1>7 DEF ContinueAnswer, Complete, Answer
  <2>2. Assembled.calls = << >>
    BY <2>1 DEF Assembled, AssistantMessage
  <2>3. AnsweredRecently(messages)
    BY <1>a, <2>1 DEF AnsweredInv
  <2>4. AnsweredRecently(Append(messages, Assembled))
    BY <1>a, <2>2, <2>3, AssembledType, AppendAnswered
  <2> QED
    BY <1>a, <2>1, <2>4, AssembledType, AnsweredStart
<1>8. CASE ToolsDone
  <2>1. StartRequest(messages, ctx) /\ state = "wait_tool" /\ toolIndex > Len(ToolCalls)
    BY <1>8 DEF ToolsDone
  <2> QED
    BY <1>a, <2>1, AllAnsweredAtEnd, AnsweredStart
<1>9. CASE FinishCompaction
  <2>1. state = "wait_model" /\ state' = "ready" /\ messages' = Compact(messages, bounds, UserMessage)
    BY <1>9 DEF FinishCompaction
  <2>2. UserMessage \in Message /\ UserMessage.role = "user" /\ bounds \in [start : Nat, count : Nat]
    BY <1>a, MessageTypes DEF UserMessage, TypeOK, CompactTypes
  <2>3. AnsweredRecently(messages)
    BY <1>a, <2>1 DEF AnsweredInv
  <2>4. AnsweredRecently(Compact(messages, bounds, UserMessage))
    BY <1>a, <2>2, <2>3, CompactAnswered
  <2> QED
    BY <2>1, <2>4 DEF AnsweredInv
<1>10. CASE RetryRequest
  <2>1. state = "wait_model" /\ messages' = messages /\ state' \in {"wait_model", "error"}
    BY <1>10 DEF RetryRequest, Failed, Answer, StartModelRequest
  <2> QED
    BY <1>a, <2>1 DEF AnsweredInv
<1>11. CASE CallTools
  <2>1. /\ state = "wait_model" /\ messages' = Append(messages, Assembled) /\ state' = "wait_tool"
        /\ toolMsg' = Len(messages) + 1
    BY <1>11 DEF CallTools, Complete, Answer
  <2>2. /\ messages' \in Seq(Message) /\ Len(messages') = Len(messages) + 1
        /\ \A k \in 1 .. Len(messages) : messages'[k] = messages[k]
    BY <1>a, <2>1, AssembledType, AppendType
  <2>3. ASSUME NEW k \in 1 .. toolMsg' - 1, Recent(messages', k) PROVE Answered(messages', k)
    <3>1. k \in 1 .. Len(messages) /\ Len(messages') >= Len(messages)
      BY <1>a, <2>1, <2>2
    <3>2. Recent(messages, k)
      BY <1>a, <2>2, <2>3, <3>1, RecentPrefix
    <3>3. Answered(messages, k)
      BY <1>a, <2>1, <3>1, <3>2 DEF AnsweredInv, AnsweredRecently
    <3> QED
      BY <1>a, <2>2, <3>1, <3>3, AnsweredStays
  <2> QED
    BY <2>1, <2>3 DEF AnsweredInv
<1>12. CASE RejectCall \/ DenyCall \/ PollTask \/ StartCall
  <2>1. state \in {"wait_tool", "wait_user"} /\ toolMsg' = toolMsg
    BY <1>12 DEF RejectCall, DenyCall, PollTask, StartCall, Decided, AtCall
  <2>2. AppendResult(toolIndex) \/ UNCHANGED << messages, state >>
    BY <1>12 DEF RejectCall, DenyCall, PollTask, StartCall
  <2> QED
    BY <1>a, <1>b, <2>1, <2>2, AnsweredResult
<1>13. CASE AcceptCall \/ AskUser
  <2>1. /\ state \in {"wait_tool", "wait_user"} /\ state' \in {"wait_tool", "wait_user"}
        /\ UNCHANGED << messages, toolMsg >>
    BY <1>13 DEF AcceptCall, AskUser, Decided, AtCall
  <2> QED
    BY <1>a, <2>1 DEF AnsweredInv
<1>14. CASE PollBatch
  <2>1. state = "wait_tool" /\ toolMsg' = toolMsg
    BY <1>14 DEF PollBatch
  <2>2. CASE UNCHANGED << messages, state >>
    BY <1>b, <2>1, <2>2
  <2>3. ASSUME NEW n \in 0 .. Len(batch), messages' = messages \o [i \in 1 .. n |-> ToolMessage(i)],
               state' \in {state, "error"}
        PROVE  AnsweredInv'
    <3>1. n \in Nat
      BY <1>a DEF TypeOK, ToolTypes
    <3> DEFINE results == [i \in 1 .. n |-> ToolMessage(i)]
    <3>2. results \in Seq(Message) /\ Len(results) = n
      BY <3>1, MessageTypes
    <3>3. messages' = messages \o results
      BY <2>3
    <3> HIDE DEF results
    <3>4. /\ messages' \in Seq(Message) /\ Len(messages') = Len(messages) + n
          /\ \A k \in 1 .. Len(messages) : messages'[k] = messages[k]
      BY <1>a, <3>1, <3>2, <3>3, Concatenated
    <3>5. Len(messages') >= Len(messages)
      BY <1>a, <3>1, <3>4
    <3> QED
      BY <1>a, <2>1, <2>3, <3>4, <3>5, AnsweredGrows
  <2> QED
    BY <1>14, <2>2, <2>3 DEF PollBatch, EndTurn
<1> QED
  BY <1>1, <1>2, <1>3, <1>4, <1>5, <1>6, <1>7, <1>8, <1>9, <1>10, <1>11, <1>12, <1>13, <1>14
     DEF Next, Pass, User

\* The list has a last message of the user, or none.
LEMMA LastUserIs ==
  ASSUME NEW list \in Seq(Message)
  PROVE  /\ LastUser(list) \in 0 .. Len(list)
         /\ \A k \in LastUser(list) + 1 .. Len(list) : list[k].role # "user"
<1> DEFINE Is(u) == /\ u > 0 => list[u].role = "user"
                    /\ \A k \in u + 1 .. Len(list) : list[k].role # "user"
           T == {Len(list) - u : u \in {x \in 1 .. Len(list) : list[x].role = "user"}}
<1>1. Len(list) \in Nat
  OBVIOUS
<1>2. \E u \in 0 .. Len(list) : Is(u)
  <2>1. CASE T = {}
    <3>1. Is(0)
      BY <1>1, <2>1
    <3> QED
      BY <1>1, <3>1
  <2>2. CASE T # {}
    <3>1. T \in SUBSET Nat
      BY <1>1
    <3>2. PICK t \in T : \A y \in T : t <= y
      BY <2>2, <3>1, LeastElement
    <3>3. PICK u \in 1 .. Len(list) : list[u].role = "user" /\ t = Len(list) - u
      BY <3>2
    <3>4. ASSUME NEW k \in u + 1 .. Len(list), list[k].role = "user" PROVE FALSE
      <4>1. Len(list) - k \in T /\ k \in Nat /\ u \in Nat /\ k > u
        BY <1>1, <3>3, <3>4
      <4>2. Len(list) - u <= Len(list) - k
        BY <3>2, <3>3, <4>1
      <4> QED
        BY <1>1, <4>1, <4>2
    <3> QED
      BY <1>1, <3>3, <3>4
  <2> QED
    BY <2>1, <2>2
<1>3. LastUser(list) = CHOOSE u \in 0 .. Len(list) : Is(u)
  BY DEF LastUser
<1> HIDE DEF Is
<1>4. LastUser(list) \in 0 .. Len(list) /\ Is(LastUser(list))
  BY <1>2, <1>3
<1> QED
  BY <1>4 DEF Is

\* What is answered recently is answered since the last message of the user.
LEMMA SinceUser ==
  ASSUME NEW list \in Seq(Message), AnsweredRecently(list)
  PROVE  \A k \in LastUser(list) + 1 .. Len(list) : Answered(list, k)
<1>1. TAKE k \in LastUser(list) + 1 .. Len(list)
<1>2. k \in 1 .. Len(list) /\ \A j \in k .. Len(list) : j \in LastUser(list) + 1 .. Len(list)
  BY LastUserIs
<1>3. Recent(list, k)
  BY <1>2, LastUserIs DEF Recent
<1> QED
  BY <1>2, <1>3 DEF AnsweredRecently

-----------------------------------------------------------------------------
(* The invariant. *)

\* A new agent has nothing out.
LEMMA InitRequest ==
  ASSUME Init
  PROVE  RequestInv
<1>1. OwnsInv /\ RetryInv /\ TokenInv /\ StartedInv
  BY DEF Init, OwnsInv, RetryInv, TokenInv, StartedInv, StartedOnce
<1>2. OneRequest /\ Alone /\ CancelInv /\ LeftBehind
  BY DEF Init, OneRequest, ModelPending, Alone, CancelInv, LeftBehind
<1>3. CallsInv
  BY LoopAssumption DEF Init, NoOutput, CallsInv
<1>4. AnsweredInv
  BY DEF Init, AnsweredInv, AnsweredRecently
<1> QED
  BY <1>1, <1>2, <1>3, <1>4 DEF RequestInv

\* What the loop owns and sends stays sound in every reachable state.
THEOREM RequestInvariance == Spec => [](IInv /\ RequestInv)
<1>1. Init => IInv /\ RequestInv
  BY InitInv, InitRequest
<1>2. IInv /\ RequestInv /\ [Next]_vars => (IInv /\ RequestInv)'
  <2> SUFFICES ASSUME IInv, RequestInv, [Next]_vars PROVE (IInv /\ RequestInv)'
    OBVIOUS
  <2>1. IInv'
    BY TypeNext, InvNext DEF IInv, LoopInv
  <2>2. OwnsInv' /\ OneRequest' /\ Alone' /\ StartedInv' /\ RetryInv'
    BY OwnsNext, OneRequestNext, StartedNext, RetryNext
  <2>3. TokenInv' /\ CallsInv' /\ AnsweredInv' /\ CancelInv' /\ LeftBehind'
    BY TokenNext, CallsNext, AnsweredNext, CancelNext, LeftBehindNext
  <2> QED
    BY <2>1, <2>2, <2>3 DEF RequestInv
<1> QED
  BY <1>1, <1>2, PTL DEF Spec

-----------------------------------------------------------------------------
(* What it owns. *)

\* Serially, in a batch, after an approval or a cancellation: agent_resume
\* starts no call of an answer twice.
THEOREM CallsStartOnce == Spec => []StartedOnce
<1>1. IInv /\ RequestInv => StartedOnce
  BY DEF RequestInv, StartedInv
<1> QED
  BY <1>1, RequestInvariance, PTL

\* The request out is the one whose events on_model_event accepts, and leaves
\* with every call since the last user message answered.
THEOREM RequestsAreSound == Spec => []SoundRequests
<1>1. ASSUME IInv, RequestInv PROVE SoundRequests
  <2>1. messages \in Seq(Message) /\ OneRequest /\ AnsweredInv
    BY <1>1 DEF IInv, TypeOK, RequestInv
  <2>2. AnsweredInTurn
    BY <2>1, SinceUser DEF AnsweredInTurn, RequestSent, AnsweredInv
  <2> QED
    BY <2>1, <2>2 DEF SoundRequests
<1> QED
  BY <1>1, RequestInvariance, PTL

\* A turn that is over has neither a request, a tool, a batch nor a compaction.
LEMMA OverOwns ==
  ASSUME IInv, RequestInv
  PROVE  OverOwnsNothing
<1>1. TurnInv /\ OwnsInv /\ OneRequest
  BY DEF IInv, LoopInv, RequestInv
<1>2. ~inTurn => state \notin {"wait_model", "wait_tool", "wait_user"}
  BY <1>1 DEF TurnInv
<1> QED
  BY <1>1, <1>2 DEF TurnInv, OwnsInv, OneRequest, ModelPending, OverOwnsNothing

\* Whatever models, hosts and compactions there are, a turn that is over owns
\* nothing, and agent_loop_state_cleanup leaves nothing in flight but a summary
\* that a stale request_done hides or a request of a model switched away from.
THEOREM NothingDangles == Spec => []OwnsNothing
<1>1. IInv /\ RequestInv => OwnsNothing
  BY OverOwns DEF RequestInv, OwnsNothing
<1> QED
  BY <1>1, RequestInvariance, PTL

-----------------------------------------------------------------------------
(* What it sends again, and what a cancellation reaches. *)

\* Only a retry sends a request after a failed one, and a retry waits for
\* nothing that was shown, however late its timer fires.
THEOREM NoReplay == Spec => NoReplayAfterOutput
<1> DEFINE Step ==
      state = "wait_model" /\ compaction = "idle" /\ ctx.error # "none" /\ sequence' # sequence
        => ~ctx.partial
<1>1. ASSUME IInv, RequestInv, [Next]_vars PROVE [Step]_vars
  <2> USE DEF requestVars
  <2>1. CASE Pass \/ UNCHANGED vars
    <3>1. CASE BeginTurn \/ ContinueAnswer \/ ToolsDone \/ RetryRequest
      <4>1. alive /\ RetryInv
        BY <1>1, <3>1 DEF RequestInv, BeginTurn, ContinueAnswer, ToolsDone, RetryRequest, Complete,
                          Failed, Answer, Iterating
      <4>2. state = "wait_model" /\ ctx.error # "none" => retryPending # "no"
        BY <3>1 DEF BeginTurn, ContinueAnswer, ToolsDone, RetryRequest, Complete
      <4> QED
        BY <4>1, <4>2 DEF RetryInv
    <3>2. CASE ~(BeginTurn \/ ContinueAnswer \/ ToolsDone \/ RetryRequest)
      <4>1. sequence' = sequence
        BY <2>1, <3>2
           DEF Pass, CancelRequest, CancelWaits, CancelRelease, AwaitModel, FinishCompaction,
               ScheduleRetry, FailTurn, GiveUp, FinalAnswer, CallTools, AwaitUser, RejectCall,
               AcceptCall, StartBatch, PollBatch, PollTask, DenyCall, AskUser, StartCall, vars
      <4> QED
        BY <4>1
    <3> QED
      BY <3>1, <3>2
  <2>2. CASE Resume \/ User \/ ModelDelta \/ RetryTimer \/ TaskEnds
             \/ \E i \in 1 .. MaxCalls : BatchCallEnds(i)
    BY <2>2, Zenon
       DEF Resume, User, Start, Cancel, SetModel, SetTrusted, Decide, Destroy, ModelDelta,
           RetryTimer, TaskEnds, BatchCallEnds
  <2>3. CASE RequestEnds
    BY <2>3, Zenon DEF RequestEnds, ModelDone, ModelError, SummaryEnds
  <2> QED
    BY <1>1, <2>1, <2>2, <2>3 DEF Next
<1>2. IInv /\ RequestInv /\ [Next]_vars => [Step]_vars
  BY <1>1
<1> QED
  BY <1>2, RequestInvariance, PTL DEF Spec, NoReplayAfterOutput

\* A pass that ends a call of agent_resume with the token set has either found
\* nothing in flight, or told the provider already and still waits.
LEMMA CancelReturns ==
  ASSUME IInv, RequestInv, [Next]_vars, OneModel, cancelled, resuming, ~resuming'
  PROVE  \A f \in flight' : f.summary
<1> USE DEF requestVars
<1>1. CancelWaits \/ CancelRelease
  <2>1. CASE Pass
    BY <2>1 DEF Pass, CancelRequest, BeginTurn, AwaitModel, FinishCompaction, RetryRequest,
                ScheduleRetry, FailTurn, ContinueAnswer, GiveUp, FinalAnswer, CallTools, AwaitUser,
                RejectCall, AcceptCall, StartBatch, PollBatch, PollTask, DenyCall, AskUser,
                StartCall, ToolsDone, Complete, Failed, Answer, AtCall, Decided, Iterating,
                turnVars
  <2>2. CASE ~Pass
    <3>1. CASE UNCHANGED vars
      BY <3>1 DEF vars, turnVars
    <3>2. CASE Resume \/ User \/ ModelDelta \/ RetryTimer \/ TaskEnds
               \/ \E i \in 1 .. MaxCalls : BatchCallEnds(i)
      BY <3>2, Zenon
         DEF Resume, User, Start, Cancel, SetModel, SetTrusted, Decide, Destroy, ModelDelta,
             RetryTimer, TaskEnds, BatchCallEnds, Outside
    <3>3. CASE RequestEnds
      BY <3>3, Zenon DEF RequestEnds, ModelDone, ModelError, SummaryEnds, Outside
    <3> QED
      BY <2>2, <3>1, <3>2, <3>3 DEF Next
  <2> QED
    BY <2>1, <2>2
<1>2. alive /\ flight' = flight
  BY <1>1 DEF CancelWaits, CancelRelease
<1>3. OneRequest /\ CancelInv
  BY DEF RequestInv
<1>4. CASE CancelRelease
  BY <1>2, <1>3, <1>4 DEF CancelRelease, OneRequest
<1>5. CASE CancelWaits
  <2>1. flight # {} /\ \A f \in flight : f.id = requestId /\ f.model = model
    BY <1>2, <1>3, <1>5
       DEF CancelWaits, OneRequest, IInv, TypeOK, RequestTypes, HostTypes, OneModel
  <2>2. cancelRequested
    BY <1>5, <2>1 DEF CancelWaits, Target
  <2>3. \A f \in flight : f.summary
    BY <1>3, <2>2 DEF CancelInv
  <2> QED
    BY <1>2, <2>3
<1> QED
  BY <1>1, <1>4, <1>5

\* While one model serves the agent, agent_resume returns a cancelled turn with
\* nothing in flight but a summary: request_cancel_requested is not reset for
\* the request of a compaction, so that one may never hear of it.
THEOREM CancelLeavesSummaries ==
  ASSUME OneModel
  PROVE  Spec => CancelReachesRequest
<1>1. IInv /\ RequestInv /\ [Next]_vars =>
        [alive' /\ cancelled /\ resuming /\ ~resuming' => \A f \in flight' : f.summary]_vars
  BY CancelReturns
<1> QED
  BY <1>1, RequestInvariance, PTL DEF Spec, CancelReachesRequest

-----------------------------------------------------------------------------
(* The contract of AgentTurn. *)

\* What the loop is doing, in the words of the contract.
LEMMA PhaseIs ==
  /\ ~Busy => Phase = "idle"
  /\ Busy /\ state = "wait_tool" => Phase = "acting"
  /\ Busy /\ state = "wait_user" => Phase = "asking"
  /\ Busy /\ state \notin {"wait_tool", "wait_user"} => Phase = "thinking"
  /\ ~Busy' => Phase' = "idle"
  /\ Busy' /\ state' = "wait_tool" => Phase' = "acting"
  /\ Busy' /\ state' = "wait_user" => Phase' = "asking"
  /\ Busy' /\ state' \notin {"wait_tool", "wait_user"} => Phase' = "thinking"
BY DEF Phase

\* What the loop owes, in the words of the contract.
LEMMA OwedIs ==
  /\ ~(Busy /\ state \in {"wait_tool", "wait_user"}) => Owed = 0
  /\ Busy /\ state \in {"wait_tool", "wait_user"} => Owed = Len(ToolCalls) + 1 - toolIndex
  /\ ~(Busy' /\ state' \in {"wait_tool", "wait_user"}) => Owed' = 0
  /\ Busy' /\ state' \in {"wait_tool", "wait_user"} => Owed' = Len(ToolCalls') + 1 - toolIndex'
<1>1. /\ Phase \in {"acting", "asking"} <=> Busy /\ state \in {"wait_tool", "wait_user"}
      /\ Phase' \in {"acting", "asking"} <=> Busy' /\ state' \in {"wait_tool", "wait_user"}
  BY PhaseIs
<1> QED
  BY <1>1 DEF Owed

\* A step that leaves the conversation, the cursor and the state alone, and
\* neither sends nor ends a request, is none of the contract's.
LEMMA Stutters ==
  ASSUME UNCHANGED << state, inTurn, alive, messages, toolMsg, toolIndex, cancelled >>,
         flight' = {} <=> flight = {}
  PROVE  UNCHANGED Turn!vars
<1>1. Busy' = Busy /\ ToolCalls' = ToolCalls
  BY DEF Busy, ToolCalls
<1>2. Phase' = Phase
  BY <1>1 DEF Phase
<1>3. Owed' = Owed
  BY <1>1, <1>2 DEF Owed
<1>4. Waiting' = Waiting
  BY DEF Waiting
<1> QED
  BY <1>2, <1>3, <1>4 DEF Turn!vars

\* A turn that is over with nothing in flight has ended.
LEMMA Ends ==
  ASSUME Busy, ~Busy', ~Waiting', cancelled' = cancelled
  PROVE  Turn!End
<1>1. Phase # "idle" /\ Phase' = "idle" /\ Owed' = 0
  BY PhaseIs, OwedIs
<1>2. Waiting' = FALSE
  BY DEF Waiting
<1> QED
  BY <1>1, <1>2 DEF Turn!End

\* Whoever starts a request owes no result: it is sent, fails before it is
\* out, or ends the turn.
LEMMA Sends ==
  ASSUME Busy, ~cancelled, cancelled' = cancelled, flight = {}, Owed = 0,
         state # "wait_user",
         (Busy' /\ state' = "wait_model") \/ (~Busy' /\ flight' = {})
  PROVE  Turn!Next \/ UNCHANGED Turn!vars
<1>1. Waiting = FALSE /\ cancelled = FALSE
  BY DEF Waiting
<1>2. Phase = "thinking" \/ Phase = "acting"
  BY PhaseIs
<1>3. CASE ~Busy' /\ flight' = {}
  BY <1>3, Ends DEF Waiting, Turn!Next
<1>4. CASE Busy' /\ state' = "wait_model"
  <2>1. Phase' = "thinking" /\ Owed' = 0 /\ Owed' = Owed
    BY <1>4, PhaseIs, OwedIs
  <2>2. CASE flight' # {}
    <3>1. Waiting' = TRUE
      BY <1>4, <2>2 DEF Waiting, Busy
    <3>2. Turn!SendRequest
      BY <1>1, <1>2, <2>1, <3>1 DEF Turn!SendRequest
    <3> QED
      BY <3>2 DEF Turn!Next
  <2>3. CASE flight' = {}
    <3>1. Waiting' = Waiting
      BY <1>1, <2>3 DEF Waiting
    <3>2. CASE Phase = "thinking"
      BY <2>1, <3>1, <3>2 DEF Turn!vars
    <3>3. CASE Phase = "acting"
      <4>1. Turn!Rethink
        BY <1>1, <2>1, <3>1, <3>3 DEF Turn!Rethink
      <4> QED
        BY <4>1 DEF Turn!Next
    <3> QED
      BY <1>2, <3>2, <3>3
  <2> QED
    BY <2>2, <2>3
<1> QED
  BY <1>3, <1>4

\* A pass that records results moves the cursor over them, or ends the turn.
LEMMA Records ==
  ASSUME Busy, ~cancelled, cancelled' = cancelled, UNCHANGED << alive, inTurn, flight, toolMsg >>,
         TypeOK, CursorInv, state \in {"wait_tool", "wait_user"}, state' = "wait_tool",
         toolIndex <= Len(ToolCalls), toolIndex' \in toolIndex + 1 .. Len(ToolCalls) + 1,
         messages'[toolMsg] = messages[toolMsg]
  PROVE  Turn!Results
<1>1. toolIndex \in Nat /\ messages[toolMsg] \in Message
  BY DEF TypeOK, CursorTypes, CursorInv
<1>2. Len(ToolCalls) \in Nat /\ ToolCalls' = ToolCalls
  BY <1>1 DEF ToolCalls, Message
<1>3. Busy'
  BY DEF Busy
<1>4. Phase \in {"acting", "asking"} /\ Phase' = "acting"
  BY <1>3, PhaseIs
<1>5. Owed = Len(ToolCalls) + 1 - toolIndex /\ Owed' = Len(ToolCalls) + 1 - toolIndex'
  BY <1>2, <1>3, OwedIs
<1>6. Owed > 0 /\ Owed' \in 0 .. Owed - 1
  BY <1>1, <1>2, <1>5
<1>7. Waiting' = Waiting
  BY DEF Waiting
<1> QED
  BY <1>4, <1>6, <1>7 DEF Turn!Results

\* append_tool_result records one, or ends the turn.
LEMMA RecordsOne ==
  ASSUME Busy, ~cancelled, cancelled' = cancelled, UNCHANGED << flight, toolMsg >>,
         TypeOK, CursorInv, state \in {"wait_tool", "wait_user"}, toolIndex <= Len(ToolCalls),
         AppendResult(toolIndex), IInv, RequestInv
  PROVE  Turn!Next
<1>1. /\ messages \in Seq(Message) /\ toolMsg \in 1 .. Len(messages) /\ toolIndex \in Nat
      /\ messages[toolMsg] \in Message
  BY DEF TypeOK, CursorTypes, CursorInv
<1>2. Len(ToolCalls) \in Nat
  BY <1>1 DEF ToolCalls, Message
<1>3. CASE /\ messages' = Append(messages, ToolMessage(toolIndex)) /\ toolIndex' = toolIndex + 1
           /\ state' = "wait_tool" /\ UNCHANGED << inTurn, resuming, alive >>
  <2>1. messages'[toolMsg] = messages[toolMsg]
    BY <1>1, <1>3
  <2>2. toolIndex' \in toolIndex + 1 .. Len(ToolCalls) + 1
    BY <1>1, <1>2, <1>3
  <2>3. Turn!Results
    BY <1>3, <2>1, <2>2, Records
  <2> QED
    BY <2>3 DEF Turn!Next
<1>4. CASE EndTurn("error")
  <2>1. ~Busy'
    BY <1>4 DEF EndTurn, Busy
  <2>2. flight' = {}
    BY DEF RequestInv, OneRequest, ModelPending, Busy
  <2> QED
    BY <2>1, <2>2, Ends DEF Waiting, Turn!Next
<1> QED
  BY <1>3, <1>4 DEF AppendResult

\* A new agent is idle.
LEMMA InitTurn ==
  ASSUME Init
  PROVE  Turn!Init
<1>1. ~Busy /\ flight = {} /\ cancelled = FALSE
  BY DEF Init, Busy
<1> QED
  BY <1>1, PhaseIs, OwedIs DEF Turn!Init, Waiting

\* Every step of the loop is one of the contract, or none.
LEMMA TurnStep ==
  ASSUME IInv, RequestInv, [Next]_vars
  PROVE  Turn!Next \/ UNCHANGED Turn!vars
<1> USE DEF turnVars, hostVars, cursorVars, requestVars, retryVars, compactVars, toolVars,
            approvalVars
<1>a. /\ TypeOK /\ CursorInv /\ TurnInv /\ AskInv /\ OwnsInv /\ OneRequest /\ OverOwnsNothing
      /\ messages \in Seq(Message) /\ toolIndex \in Nat
  BY OverOwns DEF IInv, LoopInv, RequestInv, TypeOK, CursorTypes
<1>b. alive /\ ~ModelPending => flight = {}
  BY <1>a DEF OneRequest
<1>c. alive /\ inTurn <=> Busy
  BY DEF Busy
<1>d. ASSUME Busy, EndTurn("error") \/ EndTurn("done") \/ EndTurn("cancelled"), cancelled' = cancelled,
             flight' = {}
      PROVE  Turn!Next
  <2>1. ~Busy' /\ ~Waiting'
    BY <1>d DEF EndTurn, Busy, Waiting
  <2> QED
    BY <1>d, <2>1, Ends DEF Turn!Next
<1>1. CASE Start
  <2>1. /\ alive /\ ~inTurn /\ alive' /\ inTurn' /\ state' = "ready" /\ flight' = flight
        /\ cancelled' = (cancelled /\ state # "cancelled")
    BY <1>1 DEF Start, TokenAtStart
  <2>2. flight = {} /\ cancelled' = FALSE
    BY <1>a, <2>1 DEF OverOwnsNothing, RequestInv, TokenInv
  <2>3. Phase = "idle" /\ Phase' = "thinking" /\ Owed' = Owed
    BY <2>1, PhaseIs, OwedIs DEF Busy
  <2>4. Waiting' = Waiting
    BY <2>1 DEF Waiting
  <2>5. Turn!Begin
    BY <2>2, <2>3, <2>4 DEF Turn!Begin
  <2> QED
    BY <2>5 DEF Turn!Next
<1>2. CASE \/ Resume \/ CancelWaits \/ AwaitModel \/ ScheduleRetry \/ AwaitUser \/ StartBatch
           \/ SetModel \/ SetTrusted \/ Decide \/ ModelDelta \/ RetryTimer \/ TaskEnds
           \/ (\E i \in 1 .. MaxCalls : BatchCallEnds(i)) \/ UNCHANGED vars
  <2>1. UNCHANGED << state, inTurn, alive, messages, toolMsg, toolIndex, cancelled, flight >>
    BY <1>2 DEF Resume, CancelWaits, AwaitModel, ScheduleRetry, AwaitUser, StartBatch, SetModel,
                SetTrusted, Decide, ModelDelta, RetryTimer, TaskEnds, BatchCallEnds, Suspend, vars
  <2> QED
    BY <2>1, Stutters
<1>3. CASE RequestEnds
  <2>1. PICK f \in flight : ModelDone(f) \/ ModelError(f) \/ SummaryEnds(f)
    BY <1>3 DEF RequestEnds
  <2>2. alive /\ flight' = flight \ {f}
    BY <2>1, Zenon DEF ModelDone, ModelError, SummaryEnds, Outside
  <2>3. UNCHANGED << state, inTurn, alive, messages, toolMsg, toolIndex, cancelled >>
    BY <2>1, Zenon DEF ModelDone, ModelError, SummaryEnds
  <2>4. flight' = {}
    BY <2>2, LastOne
  <2>5. Waiting = TRUE /\ Waiting' = FALSE
    BY <2>2, <2>4 DEF Waiting
  <2>6. Phase' = Phase /\ Owed' = Owed
    BY <2>3 DEF Phase, Owed, Busy, ToolCalls
  <2>7. Turn!RequestEnds
    BY <2>3, <2>5, <2>6 DEF Turn!RequestEnds
  <2> QED
    BY <2>7 DEF Turn!Next
<1>4. CASE CancelRequest
  <2>1. alive /\ flight # {} /\ flight' = flight \ Target /\ Target # {} /\ Target \subseteq flight
    BY <1>4 DEF CancelRequest, Target
  <2>2. flight' = {}
    BY <2>1 DEF RequestInv, Alone
  <2>3. UNCHANGED << state, inTurn, alive, messages, toolMsg, toolIndex, cancelled >>
    BY <1>4 DEF CancelRequest
  <2>5. Waiting = TRUE /\ Waiting' = FALSE
    BY <2>1, <2>2 DEF Waiting
  <2>6. Phase' = Phase /\ Owed' = Owed
    BY <2>3 DEF Phase, Owed, Busy, ToolCalls
  <2>7. Turn!RequestEnds
    BY <2>3, <2>5, <2>6 DEF Turn!RequestEnds
  <2> QED
    BY <2>7 DEF Turn!Next
<1>5. CASE CancelRelease
  <2>1. alive /\ inTurn /\ flight = {} /\ flight' = {} /\ cancelled' = cancelled
    BY <1>5, <1>a, <1>b DEF CancelRelease, TurnInv
  <2>2. CASE Suspend /\ UNCHANGED state
    <3>1. UNCHANGED << state, inTurn, alive, messages, toolMsg, toolIndex, cancelled, flight >>
      BY <1>5, <2>2 DEF CancelRelease, Suspend
    <3> QED
      BY <3>1, Stutters
  <2>3. CASE EndTurn("cancelled")
    BY <1>c, <1>d, <2>1, <2>3
  <2> QED
    BY <1>5, <2>2, <2>3 DEF CancelRelease
<1>6. CASE BeginTurn \/ ContinueAnswer \/ ToolsDone
  <2>1. Busy /\ ~cancelled /\ cancelled' = cancelled /\ flight = {} /\ compaction = "idle"
    BY <1>6, <1>c, Senders
  <2>2. PICK list, c : StartRequest(list, c)
    BY <1>6, Senders
  <2>3. state # "wait_user" /\ Owed = 0
    <3>1. CASE ToolsDone
      <4>1. state = "wait_tool" /\ toolIndex > Len(ToolCalls)
        BY <3>1 DEF ToolsDone
      <4>2. messages[toolMsg] \in Message /\ toolIndex \in 1 .. Len(ToolCalls) + 1
        BY <1>a, <4>1 DEF CursorInv
      <4>3. Len(ToolCalls) \in Nat
        BY <4>2 DEF ToolCalls, Message
      <4>4. Owed = Len(ToolCalls) + 1 - toolIndex
        BY <2>1, <4>1, OwedIs
      <4> QED
        BY <1>a, <4>1, <4>2, <4>3, <4>4
    <3>2. CASE BeginTurn \/ ContinueAnswer
      <4>1. state \in {"ready", "wait_model"}
        BY <3>2 DEF BeginTurn, ContinueAnswer, Complete, Answer
      <4> QED
        BY <4>1, OwedIs
    <3> QED
      BY <1>6, <3>1, <3>2
  <2>4. (Busy' /\ state' = "wait_model") \/ (~Busy' /\ flight' = {})
    <3>1. \/ alive' = alive /\ state' = "wait_model" /\ inTurn' = inTurn
          \/ StartModelRequest(sequence + 1, "none") \/ StartModelRequest(sequence + 2, "none")
      BY <2>1, <2>2, StartRequestForms
    <3> QED
      BY <2>1, <3>1 DEF StartModelRequest, Busy
  <2> QED
    BY <2>1, <2>3, <2>4, Sends
<1>7. CASE FinishCompaction
  <2>1. /\ alive /\ state = "wait_model" /\ state' = "ready"
        /\ UNCHANGED << inTurn, alive, flight, cancelled >>
    BY <1>7 DEF FinishCompaction, Iterating
  <2>2. Busy /\ Busy'
    BY <1>a, <2>1 DEF TurnInv, Busy
  <2>3. Phase' = Phase /\ Owed' = Owed
    BY <2>1, <2>2, PhaseIs, OwedIs
  <2>4. Waiting' = Waiting
    BY <2>1 DEF Waiting
  <2> QED
    BY <2>1, <2>3, <2>4 DEF Turn!vars
<1>8. CASE RetryRequest
  <2>1. Busy /\ ~cancelled /\ cancelled' = cancelled /\ state = "wait_model" /\ ~ModelPending
    BY <1>8, <1>a DEF RetryRequest, Failed, Answer, Iterating, ModelPending, TurnInv, Busy
  <2>2. flight = {} /\ Owed = 0
    BY <1>b, <2>1, OwedIs DEF Busy
  <2>3. (Busy' /\ state' = "wait_model") \/ (~Busy' /\ flight' = {})
    BY <1>8, <2>1, <2>2 DEF RetryRequest, StartModelRequest, Busy
  <2> QED
    BY <2>1, <2>2, <2>3, Sends
<1>9. CASE FailTurn \/ GiveUp \/ FinalAnswer
  <2>1. /\ Busy /\ ~ModelPending /\ cancelled' = cancelled /\ flight' = flight
        /\ EndTurn("error") \/ EndTurn("done")
    BY <1>9, <1>a DEF FailTurn, GiveUp, FinalAnswer, Failed, Complete, Answer, Iterating,
                      ModelPending, TurnInv, Busy
  <2>2. flight' = {}
    BY <1>b, <2>1 DEF Busy
  <2> QED
    BY <1>d, <2>1, <2>2
<1>10. CASE CallTools
  <2>1. /\ Busy /\ ~ModelPending /\ ~cancelled /\ UNCHANGED << cancelled, flight, alive, inTurn >>
        /\ state = "wait_model" /\ state' = "wait_tool" /\ ctx.stop = "stop" /\ ctx.calls # << >>
        /\ messages' = Append(messages, Assembled) /\ toolMsg' = Len(messages) + 1 /\ toolIndex' = 1
    BY <1>10, <1>a DEF CallTools, Complete, Answer, Iterating, ModelPending, TurnInv, Busy, Suspend
  <2>2. flight = {}
    BY <1>b, <2>1 DEF Busy
  <2>3. Waiting = FALSE /\ Waiting' = Waiting /\ cancelled = FALSE
    BY <1>a, <2>1, <2>2 DEF Waiting, TypeOK, HostTypes
  <2>4. ToolCalls' = ctx.calls
    <3>1. messages'[toolMsg'] = Assembled
      BY <1>a, <2>1, AssembledType
    <3>2. Assembled.calls = ctx.calls
      BY <2>1 DEF Assembled, AssistantMessage
    <3> QED
      BY <3>1, <3>2 DEF ToolCalls
  <2>5. Len(ctx.calls) \in 1 .. MaxCalls
    <3>1. ctx.calls \in Seq(Call)
      BY <1>a DEF TypeOK, RequestTypes, Output
    <3> QED
      BY <2>1, <3>1, LoopAssumption DEF RequestInv, CallsInv
  <2>6. Busy'
    BY <2>1 DEF Busy
  <2>7. Phase = "thinking" /\ Phase' = "acting"
    BY <2>1, <2>6, PhaseIs
  <2>8. Owed' = Len(ctx.calls) + 1 - 1
    BY <2>1, <2>4, <2>6, OwedIs
  <2>9. Owed' \in 1 .. MaxCalls
    BY <2>5, <2>8, LoopAssumption
  <2>10. Turn!CallTools
    BY <2>1, <2>3, <2>7, <2>9 DEF Turn!CallTools
  <2> QED
    BY <2>10 DEF Turn!Next
<1>11. CASE RejectCall \/ DenyCall \/ PollTask \/ StartCall
  <2>1. /\ alive /\ ~cancelled /\ state \in {"wait_tool", "wait_user"}
        /\ UNCHANGED << cancelled, flight, toolMsg >>
    BY <1>11 DEF RejectCall, DenyCall, PollTask, StartCall, Decided, AtCall, Iterating
  <2>2. Busy
    BY <1>a, <2>1 DEF TurnInv, Busy
  <2>3. toolIndex <= Len(ToolCalls)
    BY <1>11, <1>a DEF RejectCall, DenyCall, PollTask, StartCall, Decided, AtCall, AskInv
  <2>4. CASE AppendResult(toolIndex)
    BY <1>a, <2>1, <2>2, <2>3, <2>4, RecordsOne
  <2>5. CASE Suspend /\ UNCHANGED << state, messages, toolIndex >>
    BY <2>1, <2>5, Stutters DEF Suspend
  <2> QED
    BY <1>11, <2>4, <2>5 DEF RejectCall, DenyCall, PollTask, StartCall
<1>12. CASE AcceptCall \/ AskUser
  <2>1. /\ alive /\ ~cancelled /\ UNCHANGED << cancelled, flight, alive, inTurn, messages, toolMsg, toolIndex >>
        /\ \/ AcceptCall /\ state = "wait_user" /\ state' = "wait_tool"
           \/ AskUser /\ state = "wait_tool" /\ state' = "wait_user" /\ toolIndex <= Len(ToolCalls)
    BY <1>12 DEF AcceptCall, AskUser, Decided, AtCall, Iterating, Suspend
  <2>2. Busy /\ Busy'
    BY <1>a, <2>1 DEF TurnInv, Busy
  <2>3. Owed = Len(ToolCalls) + 1 - toolIndex /\ Owed' = Owed
    <3>1. ToolCalls' = ToolCalls
      BY <2>1 DEF ToolCalls
    <3> QED
      BY <2>1, <2>2, <3>1, OwedIs
  <2>4. Waiting' = Waiting /\ cancelled = FALSE
    BY <1>a, <2>1 DEF Waiting, TypeOK, HostTypes
  <2>5. CASE state = "wait_user" /\ state' = "wait_tool"
    <3>1. Phase = "asking" /\ Phase' = "acting"
      BY <2>2, <2>5, PhaseIs
    <3> QED
      BY <2>1, <2>3, <2>4, <3>1 DEF Turn!UserAgrees, Turn!Next
  <2>6. CASE state = "wait_tool" /\ state' = "wait_user" /\ toolIndex <= Len(ToolCalls)
    <3>1. Phase = "acting" /\ Phase' = "asking"
      BY <2>2, <2>6, PhaseIs
    <3>2. messages[toolMsg] \in Message
      BY <1>a, <2>6 DEF CursorInv
    <3>3. Len(ToolCalls) \in Nat
      BY <3>2 DEF ToolCalls, Message
    <3>4. Owed > 0
      BY <1>a, <2>3, <2>6, <3>3
    <3> QED
      BY <2>1, <2>3, <2>4, <3>1, <3>4 DEF Turn!AskUser, Turn!Next
  <2> QED
    BY <2>1, <2>5, <2>6
<1>13. CASE PollBatch
  <2>1. /\ alive /\ ~cancelled /\ UNCHANGED << cancelled, flight, toolMsg >>
        /\ state = "wait_tool" /\ batch # << >>
    BY <1>13 DEF PollBatch, Iterating
  <2>2. Busy
    BY <1>a, <2>1 DEF TurnInv, Busy
  <2>3. CASE Suspend /\ UNCHANGED << state, messages, toolIndex >>
    BY <2>1, <2>3, Stutters DEF Suspend
  <2>4. CASE EndTurn("error")
    <3>1. flight' = {}
      BY <1>b, <2>1 DEF ModelPending
    <3> QED
      BY <1>d, <2>1, <2>2, <2>4, <3>1
  <2>5. CASE /\ toolIndex' = Len(batch) + 1 /\ UNCHANGED << state, inTurn, resuming, alive >>
             /\ messages' = messages \o [i \in 1 .. Len(batch) |-> ToolMessage(i)]
    <3>1. /\ toolMsg \in 1 .. Len(messages) /\ toolIndex = 1 /\ Len(batch) = Len(ToolCalls)
          /\ messages[toolMsg] \in Message /\ Len(batch) \in Nat /\ Len(batch) >= 1
      BY <1>a, <2>1 DEF CursorInv, TypeOK, ToolTypes
    <3> DEFINE results == [i \in 1 .. Len(batch) |-> ToolMessage(i)]
    <3>2. results \in Seq(Message) /\ Len(results) = Len(batch)
      BY <3>1, MessageTypes
    <3>3. messages' = messages \o results
      BY <2>5
    <3> HIDE DEF results
    <3>4. messages'[toolMsg] = messages[toolMsg]
      BY <1>a, <3>1, <3>2, <3>3, Concatenated
    <3>5. toolIndex <= Len(ToolCalls) /\ toolIndex' \in toolIndex + 1 .. Len(ToolCalls) + 1
      BY <2>5, <3>1
    <3>6. Turn!Results
      BY <1>a, <2>1, <2>2, <2>5, <3>4, <3>5, Records
    <3> QED
      BY <3>6 DEF Turn!Next
  <2> QED
    BY <1>13, <2>3, <2>4, <2>5 DEF PollBatch
<1>14. CASE Cancel
  <2>1. /\ alive /\ inTurn /\ cancelled' = TRUE
        /\ UNCHANGED << state, inTurn, alive, messages, toolMsg, toolIndex, flight >>
    BY <1>14 DEF Cancel, Outside
  <2>2. Phase' = Phase /\ Owed' = Owed /\ Waiting' = Waiting
    BY <2>1 DEF Phase, Owed, Busy, ToolCalls, Waiting
  <2>3. Phase # "idle"
    BY <2>1, PhaseIs DEF Busy
  <2>4. Turn!Stop
    BY <2>1, <2>2, <2>3 DEF Turn!Stop
  <2> QED
    BY <2>4 DEF Turn!Next
<1>15. CASE Destroy
  <2>1. alive /\ ~alive' /\ cancelled' = cancelled
    BY <1>15 DEF Destroy, Outside
  <2>2. ~Busy' /\ Waiting' = FALSE
    BY <2>1 DEF Busy, Waiting
  <2>3. CASE Busy
    BY <2>1, <2>2, <2>3, Ends DEF Turn!Next
  <2>4. CASE ~Busy
    <3>1. Waiting = FALSE
      BY <1>a, <2>1, <2>4 DEF OverOwnsNothing, Busy, Waiting
    <3>2. Phase' = Phase /\ Owed' = Owed
      BY <2>2, <2>4, PhaseIs, OwedIs
    <3> QED
      BY <2>1, <2>2, <3>1, <3>2 DEF Turn!vars
  <2> QED
    BY <2>3, <2>4
<1> QED
  BY <1>1, <1>2, <1>3, <1>4, <1>5, <1>6, <1>7, <1>8, <1>9, <1>10, <1>11, <1>12, <1>13, <1>14, <1>15
     DEF Next, Pass, User

\* What AgentTurn promises a host of agent_start, agent_resume and cancel, the
\* loop keeps for every set of models, hosts, calls and bounds.
THEOREM KeepsContract == Spec => ImplementsTurn
<1>1. Init => Turn!Init
  BY InitTurn
<1>2. IInv /\ RequestInv /\ [Next]_vars => [Turn!Next]_Turn!vars
  BY TurnStep
<1> QED
  BY <1>1, <1>2, RequestInvariance, PTL DEF Spec, ImplementsTurn, Turn!Spec
=============================================================================
