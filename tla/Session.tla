------------------------------ MODULE Session ------------------------------
(***************************************************************************)
(* The session log (session/session.c) beside the conversation it records: *)
(* the lines a turn of the agent appends (agent/loop.c), crashes at any    *)
(* point of it, and `cagent -r', which rebuilds conversation and memory    *)
(* from the file.  The totals of the stats line are left out.              *)
(*                                                                         *)
(* A line is what a load can tell about it: its type and, for the types a  *)
(* load uses, its data.  A line cut short is not one JSON object, and a    *)
(* load skips it; a line appended behind one that lacks its newline becomes*)
(* part of it, and both are skipped.  append_line ignores the result of    *)
(* fwrite and its callers ignore the result of append_line, so the process *)
(* goes on after any of the outcomes of a write.                           *)
(***************************************************************************)
EXTENDS History, FiniteSets, SequencesExt

CONSTANTS
  CallLists,   \* the lists of tool calls the model may ask for
  NoteSizes,   \* the lengths of memory notes
  LabelLen,    \* the length of a note's kind
  MemoryMax,   \* SESSION_MEMORY_MAX
  WriteErrors, \* the ways a write may fail with the process going on
  MaxLines,    \* bound on the lines of the file and on the conversation
  MaxFaults    \* bound on the crashes and failed writes

ASSUME SessionAssumption ==
  /\ CallLists \subseteq Seq(Call)
  /\ NoteSizes \subseteq Nat \ {0}
  /\ {LabelLen, MemoryMax, MaxLines, MaxFaults} \subseteq Nat
  /\ WriteErrors \subseteq {"torn", "unended", "refused"}

VARIABLES
  file,      \* the lines of the session file
  ended,     \* the file ends with a newline
  up,        \* a process has the session open
  turn,      \* where its turn is: "idle", "ready", "model", "tools", "noted"
  due,       \* positions of the tool calls still to answer
  messages,  \* agent->messages
  memory,    \* strlen(session->memory)
  drifted,   \* history: a change of this process did not add its one line
  missed,    \* history: a write to this file failed and its process went on
  faults     \* crashes and failed writes so far

live == << turn, due, messages, memory >>
vars == << file, ended, up, live, drifted, missed, faults >>

-----------------------------------------------------------------------------
(* Lines. *)

Meta == [type |-> "meta"]
Broken == [type |-> "broken"]
MessageLine(m) == [type |-> "message", message |-> m]
CompactionLine(b) == [type |-> "compaction", start |-> b.start, count |-> b.count]
MemoryLine(n) == [type |-> "memory", size |-> n]
Stats == [type |-> "stats"]

\* A line on disk is whole, cut inside its text, complete but for its
\* newline, or was never written (fopen failed).
Whole == "whole"
Cut == {"torn", "unended"}

\* The file after append_line.
Written(line, how) ==
  LET new == IF how = "torn" \/ ~ended THEN Broken ELSE line
      old == IF ended THEN file ELSE Front(file)
  IN IF how = "refused" THEN [file |-> file, ended |-> ended]
     ELSE [file |-> Append(old, new), ended |-> how = Whole]

-----------------------------------------------------------------------------
(* Loading. *)

\* mutation: a recorded range is replayed as it is, inside a tool unit or not
LiteralReplay(view, line) ==
  LET inRange == line.start <= Len(view.list) /\ line.count <= Len(view.list) - line.start
  IN IF ~view.ok THEN view
     ELSE IF line.type = "message" THEN [view EXCEPT !.list = Append(@, line.message)]
     ELSE IF line.type # "compaction" THEN view
     ELSE IF ~inRange THEN [view EXCEPT !.ok = FALSE]
     ELSE [view EXCEPT !.list = Replace(@, line.start, line.count, UserMessage)]

\* One line of session_load_messages.
ReplayLine(view, line) ==
  LET inRange == line.start <= Len(view.list) /\ line.count <= Len(view.list) - line.start
      safe    == ToolSafePrefix(view.list, line.start, line.count)
  IN IF ~view.ok THEN view
     ELSE IF line.type = "message" THEN [view EXCEPT !.list = Append(@, line.message)]
     ELSE IF line.type # "compaction" THEN view
     ELSE IF ~inRange THEN [view EXCEPT !.ok = FALSE]
     ELSE IF safe = 0 THEN view
     ELSE [view EXCEPT !.list = Replace(@, line.start, safe, UserMessage)]

\* session_load_messages: what `cagent -r' starts from, or a refusal.
Load(lines) == FoldLeft(ReplayLine, [ok |-> TRUE, list |-> << >>], lines)

Loaded == Load(file)

\* memory_add: the length of the memory text after a note.
MemoryAdd(used, size) ==
  LET room == MemoryMax - used
      need == LabelLen + size + 6
      kept == IF need <= room THEN size
              ELSE IF room > LabelLen + 6 THEN room - LabelLen - 6 ELSE 0
  IN IF used >= MemoryMax THEN used
     ELSE IF kept = 0 THEN used
     ELSE used + LabelLen + kept + 4

\* session_open: the memory lines in file order.
ReplayNote(used, line) == IF line.type = "memory" THEN MemoryAdd(used, line.size) ELSE used

Notes(lines) == FoldLeft(ReplayNote, 0, lines)

LoadedMemory == Notes(file)

-----------------------------------------------------------------------------
(* One process. *)

Down ==
  /\ up' = FALSE
  /\ turn' = "idle" /\ due' = << >> /\ messages' = << >>
  /\ memory' = 0 /\ drifted' = FALSE

Init ==
  /\ file = << >> /\ ended = TRUE /\ up = FALSE
  /\ turn = "idle" /\ due = << >> /\ messages = << >>
  /\ memory = 0
  /\ drifted = FALSE /\ missed = FALSE /\ faults = 0

\* session_create: a new file with its meta line.
Create ==
  /\ ~up
  /\ file' = << Meta >> /\ ended' = TRUE /\ up' = TRUE /\ missed' = FALSE
  /\ UNCHANGED << live, drifted, faults >>

\* `cagent -r': session_open, then session_load_messages, whose refusal ends
\* the process.
Resume ==
  /\ ~up /\ file # << >> /\ Loaded.ok
  /\ up' = TRUE
  /\ messages' = Loaded.list
  /\ memory' = LoadedMemory
  /\ UNCHANGED << file, ended, turn, due, drifted, missed, faults >>

Fault(how) ==
  /\ how = Whole \/ faults < MaxFaults
  /\ faults' = IF how = Whole THEN faults ELSE faults + 1
  /\ missed' = (missed \/ how # Whole)

\* One call of append_line with the process going on.
Put(line, how) ==
  /\ up /\ Len(file) < MaxLines /\ Len(messages) < MaxLines
  /\ file' = Written(line, how).file
  /\ ended' = Written(line, how).ended
  /\ drifted' = (drifted \/ how # Whole \/ ~ended)
  /\ Fault(how)

Outcomes == {Whole} \cup WriteErrors

Log(line) == \E how \in Outcomes : Put(line, how)

\* agent_start
StartTurn ==
  /\ turn = "idle"
  /\ Log(MessageLine(UserMessage))
  /\ messages' = Append(messages, UserMessage)
  /\ turn' = "ready"
  /\ UNCHANGED << up, due, memory >>

\* start_request without compaction
Request ==
  /\ up /\ turn = "ready"
  /\ turn' = "model"
  /\ UNCHANGED << file, ended, up, due, messages, memory, drifted, missed, faults >>

\* mutation: the range is written after it has been replaced
ReplacedBounds(list) ==
  LET b == CompactionBounds(list)
  IN [b EXCEPT !.count = IF @ = 0 THEN 0 ELSE @ + 1]

\* The range finish_compaction persists.
PersistedBounds(list) == CompactionBounds(list)

\* start_request with a summary request, whose end (a summary or an error)
\* finish_compaction turns into a replaced range and its line.
Compaction ==
  /\ turn = "ready" /\ CompactionBounds(messages).count > 0
  /\ Log(CompactionLine(PersistedBounds(messages)))
  /\ messages' = Compact(messages, CompactionBounds(messages), UserMessage)
  /\ turn' = "model"
  /\ UNCHANGED << up, due, memory >>

\* start_request when the summary request cannot be made: context_compact
\* replaces the range and nothing is written.
Fallback ==
  /\ up /\ turn = "ready" /\ CompactionBounds(messages).count > 0
  /\ messages' = Compact(messages, CompactionBounds(messages), UserMessage)
  /\ turn' = "model" /\ drifted' = TRUE
  /\ UNCHANGED << file, ended, up, due, memory, missed, faults >>

\* The model's answer.  Without tool calls the turn ends, or goes on when the
\* answer hit its output limit.
Answer ==
  /\ turn = "model"
  /\ \E calls \in CallLists :
       /\ Log(MessageLine(AssistantMessage(calls)))
       /\ messages' = Append(messages, AssistantMessage(calls))
       /\ due' = [i \in 1 .. Len(calls) |-> i]
       /\ turn' \in IF calls = << >> THEN {"idle", "ready"} ELSE {"tools"}
  /\ UNCHANGED << up, memory >>

\* session_append_memory: a failed tool, or the memory tool.  memory_add is
\* left out when the file cannot be opened.
Note ==
  /\ turn = "tools"
  /\ \E n \in NoteSizes, how \in Outcomes :
       /\ Put(MemoryLine(n), how)
       /\ memory' = IF how = "refused" THEN memory ELSE MemoryAdd(memory, n)
  /\ turn' = "noted"
  /\ UNCHANGED << up, due, messages >>

\* append_tool_result
Result ==
  /\ turn \in {"tools", "noted"}
  /\ Log(MessageLine(ToolMessage(Head(due))))
  /\ messages' = Append(messages, ToolMessage(Head(due)))
  /\ due' = Tail(due)
  /\ turn' = IF Len(due) = 1 THEN "ready" ELSE "tools"
  /\ UNCHANGED << up, memory >>

DropDue == due' = << >>

\* Cancellation or an error ends the turn and leaves the conversation alone.
EndTurn ==
  /\ up /\ turn \in {"ready", "model", "tools"}
  /\ turn' = "idle" /\ DropDue
  /\ UNCHANGED << file, ended, up, messages, memory, drifted, missed, faults >>

\* The process exits after session_append_stats.
Exit ==
  /\ up /\ turn = "idle" /\ Len(file) < MaxLines
  /\ \E how \in Outcomes :
       /\ file' = Written(Stats, how).file
       /\ ended' = Written(Stats, how).ended
       /\ Fault(how)
  /\ Down

\* What the process may be writing when it dies.
Writing ==
  CASE turn = "idle"  -> {MessageLine(UserMessage), Stats}
    [] turn = "ready" -> IF CompactionBounds(messages).count > 0
                           THEN {CompactionLine(PersistedBounds(messages))} ELSE {}
    [] turn = "model" -> {MessageLine(AssistantMessage(c)) : c \in CallLists}
    [] turn = "tools" -> {MemoryLine(n) : n \in NoteSizes} \cup {MessageLine(ToolMessage(Head(due)))}
    [] turn = "noted" -> {MessageLine(ToolMessage(Head(due)))}

\* The process dies between two writes, or inside one.
Crash ==
  /\ up /\ faults < MaxFaults
  /\ \/ UNCHANGED << file, ended >>
     \/ /\ Len(file) < MaxLines
        /\ \E line \in Writing, how \in Cut :
             file' = Written(line, how).file /\ ended' = FALSE
  /\ Down
  /\ faults' = faults + 1
  /\ UNCHANGED missed

Next ==
  \/ Create \/ Resume \/ StartTurn \/ Request \/ Compaction \/ Fallback
  \/ Answer \/ Note \/ Result \/ EndTurn \/ Exit \/ Crash

Spec == Init /\ [][Next]_vars

-----------------------------------------------------------------------------
(* Properties. *)

\* What a session's conversation holds: the system prompt is not part of it.
Talk == {m \in Message : m.role # "system"}

Lines ==
  {Meta, Broken, Stats} \cup [type : {"memory"}, size : NoteSizes]
    \cup [type : {"message"}, message : Talk]
    \cup [type : {"compaction"}, start : {0}, count : Nat \ {0}]

\* Every line has one of the formats session.h lists, or is broken, and only
\* the last one may lack its newline; what a dead process held is gone.
TypeOK ==
  /\ file \in Seq(Lines) /\ (file = << >> => ended)
  /\ {ended, up, drifted, missed} \subseteq BOOLEAN
  /\ turn \in {"idle", "ready", "model", "tools", "noted"}
  /\ due \in Seq(Nat \ {0}) /\ (due # << >> <=> turn \in {"tools", "noted"})
  /\ messages \in Seq(Talk)
  /\ {memory, faults} \subseteq Nat
  /\ ~up => turn = "idle" /\ messages = << >> /\ memory = 0 /\ ~drifted

\* As long as every change of this process added its one line, a load gives
\* back the conversation the process holds, compactions and tool results
\* included (session.c: "a resumed session feeds back into the model
\* verbatim"), and the memory it holds.
LoadsWhatIsLive ==
  up /\ ~drifted => Loaded = [ok |-> TRUE, list |-> messages] /\ LoadedMemory = memory

\* However often a process died in the middle of a line, and whichever lines
\* were lost behind such a line, session_load_messages never refuses the
\* file: the ranges of its compaction lines fit what is rebuilt before them.
AlwaysLoads == ~missed => Loaded.ok

\* Nor does a load give back a tool result without the assistant message that
\* asked for it, which every provider refuses, although ranges recorded for
\* one conversation are replayed on another.
LoadsInProtocol == ~missed => NoOrphans(Loaded.list)

\* The memory text, sent with every request, never outgrows its limit
\* (SESSION_MEMORY_MAX), live or loaded from more notes than fit.
MemoryBounded == memory <= MemoryMax /\ LoadedMemory <= MemoryMax

\* Any file a crash can leave resumes, in the protocol and within the limits.
\* A file that a failed write of a process that went on left behind (missed)
\* is within the memory limit, and nothing else is claimed of it.
LoadsWell == AlwaysLoads /\ LoadsInProtocol /\ MemoryBounded

\* Not kept (the fallback of start_request appends no record).
\* docs/DESIGN.md:368: LLM summaries and fallbacks are both persisted, and a
\* resume rebuilds the compacted conversation from them.
FallbackIsLogged == up /\ faults = 0 => Loaded.list = messages
=============================================================================
