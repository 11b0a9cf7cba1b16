----------------------------- MODULE AgentLoop -----------------------------
(***************************************************************************)
(* One agent's turn: the suspend/resume state machine of agent/loop.c.     *)
(*                                                                         *)
(* agent_resume runs to completion on the event-loop thread.  `resuming'   *)
(* says it is on the stack: one action is one pass of its for(;;) loop, a  *)
(* `continue' leaves `resuming' TRUE and a `return' clears it.  Everything *)
(* else - provider events, tool progress, the user, timers - happens only  *)
(* between two calls, when `resuming' is FALSE.                            *)
(***************************************************************************)
EXTENDS History

CONSTANTS
  Models,            \* the providers the agent can be switched between
  Hosts,             \* the hosts that may drive the agent
  MaxRetries,        \* config.max_retries
  MaxContinuations,  \* MAX_OUTPUT_LIMIT_CONTINUATIONS
  MayCompact,        \* whether the context window can run short
  MaxRequests,       \* bound: model requests in a behaviour
  MaxCalls           \* bound: tool calls in one answer

\* A call names a tool by the two flags the loop reads, and may lack its id.
\* No tool of tool/ carries both flags.
ASSUME CallAssumption ==
  \A c \in Call : /\ c \in [gated : BOOLEAN, safe : BOOLEAN, id : BOOLEAN]
                  /\ ~(c.gated /\ c.safe)

ASSUME LoopAssumption ==
  /\ Hosts \subseteq {"none", "callback", "tui"}
  /\ MaxRetries \in Nat /\ MaxContinuations \in Nat
  /\ MayCompact \in BOOLEAN
  /\ MaxRequests \in Nat /\ MaxCalls \in Nat

VARIABLES
  state,            \* a->state
  inTurn,           \* st->in_turn
  resuming,         \* agent_resume is on the stack
  alive,            \* FALSE once agent_loop_state_cleanup freed the state
  cancelled,        \* a->cancel.cancelled
  model,            \* a->model
  trusted,          \* the session's trusted mode
  host,             \* who answers approvals: nobody, a callback or the TUI
  messages,         \* a->messages
  toolMsg,          \* st->tool_message_index + 1
  toolIndex,        \* st->tool_index + 1
  sequence,         \* st->request_sequence
  requestId,        \* st->request_id
  requestDone,      \* st->request_done
  cancelRequested,  \* st->request_cancel_requested
  ctx,              \* st->ctx: what the current request produced
  retries,          \* st->request_retries
  retryPending,     \* st->retry_pending, and whether retry_at has passed
  continuations,    \* st->output_limit_continuations
  compaction,       \* st->compaction_active, _done, _error and _text
  bounds,           \* st->compaction.start and .count
  skipCompaction,   \* st->skip_compaction_once
  task,             \* st->tool_task
  batch,            \* st->parallel_tools
  approval,         \* st->approval_*
  flight,           \* requests whose terminal event is still to come
  started,          \* history: calls of the current answer started so far
  grants            \* history: calls of the current answer the user approved

turnVars     == << state, inTurn, resuming, alive >>
hostVars     == << cancelled, model, trusted, host >>
cursorVars   == << toolMsg, toolIndex >>
requestVars  == << sequence, requestId, requestDone, cancelRequested, ctx, flight >>
retryVars    == << retries, retryPending >>
compactVars  == << compaction, bounds, skipCompaction >>
toolVars     == << task, batch, started >>
approvalVars == << approval, grants >>
vars == << turnVars, hostVars, messages, cursorVars, requestVars, retryVars,
           continuations, compactVars, toolVars, approvalVars >>

-----------------------------------------------------------------------------

AgentStates == {"ready", "wait_model", "wait_tool", "wait_user",
                "done", "error", "cancelled"}

NoOutput   == [error |-> "none", partial |-> FALSE, stop |-> "stop", calls |-> << >>]
NoBounds   == [start |-> 0, count |-> 0]
NoApproval == [pending |-> FALSE, decided |-> FALSE, granted |-> FALSE, call |-> 0]

\* The outcomes of a provider's answer: a list of calls up to the bound.
Answers == UNION {[1 .. n -> Call] : n \in 0 .. MaxCalls}

\* Another request, and the two ids it may consume, fits in the bound.  Only
\* the environment's actions are guarded by it.
Room == sequence + 2 <= MaxRequests

Init ==
  /\ state = "ready" /\ inTurn = FALSE /\ resuming = FALSE /\ alive = TRUE
  /\ cancelled = FALSE /\ model \in Models /\ trusted = FALSE /\ host \in Hosts
  /\ messages = << >> /\ toolMsg = 0 /\ toolIndex = 0
  /\ sequence = 0 /\ requestId = 0 /\ requestDone = FALSE
  /\ cancelRequested = FALSE /\ ctx = NoOutput /\ flight = {}
  /\ retries = 0 /\ retryPending = "no" /\ continuations = 0
  /\ compaction = "idle" /\ bounds = NoBounds /\ skipCompaction = FALSE
  /\ task = "none" /\ batch = << >> /\ started = << >>
  /\ approval = NoApproval /\ grants = {}

ToolCalls == messages[toolMsg].calls

\* The turn ends and agent_resume returns.
EndTurn(s) == state' = s /\ inTurn' = FALSE /\ resuming' = FALSE /\ UNCHANGED alive

\* agent_resume returns AGENT_STEP_BUSY.
Suspend == resuming' = FALSE /\ UNCHANGED << inTurn, alive >>

-----------------------------------------------------------------------------
(* Starting a request. *)

Flight(id, summary) == [id |-> id, model |-> model, summary |-> summary]

\* start_model_request: the provider takes the request, reports its failure by
\* an event before returning, or refuses it.  A refusal ends the turn in every
\* caller; the retry path also records it as an error.
StartModelRequest(id, refusal) ==
  /\ sequence' = id /\ requestId' = id /\ cancelRequested' = FALSE
  /\ resuming' = FALSE /\ UNCHANGED alive
  /\ \/ /\ state' = "wait_model" /\ UNCHANGED inTurn
        /\ flight' = flight \cup {Flight(id, FALSE)}
        /\ requestDone' = FALSE /\ ctx' = NoOutput
     \/ /\ state' = "wait_model" /\ UNCHANGED << inTurn, flight >>
        /\ requestDone' = TRUE
        /\ \E e \in {"retryable", "fatal"} :
             /\ e = "retryable" => id + 2 <= MaxRequests
             /\ ctx' = [NoOutput EXCEPT !.error = e]
     \/ /\ state' = "error" /\ inTurn' = FALSE /\ UNCHANGED flight
        /\ requestDone' = FALSE /\ ctx' = [NoOutput EXCEPT !.error = refusal]

\* start_compaction_request: the summary request is in flight, or has failed
\* already.  Neither request_done nor request_cancel_requested is reset.
StartCompactionRequest(list) ==
  /\ sequence' = sequence + 1 /\ requestId' = sequence + 1
  /\ state' = "wait_model" /\ resuming' = FALSE
  /\ messages' = list /\ bounds' = CompactionBounds(list)
  /\ \/ compaction' = "running" /\ flight' = flight \cup {Flight(sequence + 1, TRUE)}
     \/ compaction' = "failed" /\ UNCHANGED flight
  /\ UNCHANGED << inTurn, alive, requestDone, cancelRequested, skipCompaction >>

\* start_request on the list the caller has just extended; c is what is left
\* of ctx when no normal request resets it.
StartRequest(list, c) ==
  /\ retries' = 0 /\ retryPending' = "no"
  /\ \/ /\ MayCompact /\ ~skipCompaction /\ CompactionBounds(list).count > 0
        /\ \/ StartCompactionRequest(list) /\ ctx' = c
           \/ /\ messages' = Compact(list, CompactionBounds(list), UserMessage)
              /\ bounds' = NoBounds /\ compaction' = "idle" /\ skipCompaction' = FALSE
              /\ StartModelRequest(sequence + 2, "none")
     \/ /\ messages' = list /\ skipCompaction' = FALSE
        /\ UNCHANGED << compaction, bounds >>
        /\ StartModelRequest(sequence + 1, "none")

-----------------------------------------------------------------------------
(* agent_start and the entry of agent_resume. *)

\* agent_start clears the token of a turn that was cancelled, and no other.
TokenAtStart == cancelled /\ state # "cancelled"

\* agent_start, up to its call of agent_resume.
Start ==
  /\ alive /\ ~resuming /\ ~inTurn /\ Room
  /\ state \in {"ready", "done", "error", "cancelled"}
  /\ cancelled' = TokenAtStart
  /\ messages' = Append(messages, UserMessage)
  /\ state' = "ready" /\ inTurn' = TRUE /\ resuming' = TRUE
  /\ continuations' = 0 /\ retries' = 0 /\ retryPending' = "no"
  /\ approval' = [approval EXCEPT !.pending = FALSE, !.decided = FALSE, !.granted = FALSE]
  /\ UNCHANGED << alive, model, trusted, host, cursorVars, requestVars, compactVars,
                  toolVars, grants >>

\* The host's loop calls agent_resume on a busy agent.
Resume ==
  /\ alive /\ ~resuming /\ inTurn
  /\ resuming' = TRUE
  /\ UNCHANGED << state, inTurn, alive, hostVars, messages, cursorVars, requestVars,
                  retryVars, continuations, compactVars, toolVars, approvalVars >>

Iterating == alive /\ resuming /\ ~cancelled

-----------------------------------------------------------------------------
(* A pass that finds the cancel token set. *)

\* model_pending
SummaryPending ==                           \* mutation: a finished summary still pends
  state = "wait_model" /\ IF compaction = "idle" THEN ~requestDone ELSE TRUE
ModelPending ==
  /\ state = "wait_model"
  /\ IF compaction = "idle" THEN ~requestDone ELSE compaction = "running"

\* ModelOps.cancel looks the id up among the requests of the model it is given.
OlderTarget == {f \in flight : f.id < requestId /\ f.model = model}   \* mutation
Target == {f \in flight : f.id = requestId /\ f.model = model}

\* The provider aborts the request, whose error event arrives before cancel
\* returns; the pass goes on to release what the turn owns.
CancelRequest ==
  /\ alive /\ resuming /\ cancelled /\ ModelPending
  /\ ~cancelRequested /\ Target # {}
  /\ cancelRequested' = TRUE /\ flight' = flight \ Target
  /\ IF compaction = "running"
       THEN compaction' = "failed" /\ UNCHANGED << requestDone, ctx >>
       ELSE /\ requestDone' = TRUE /\ ctx' = [ctx EXCEPT !.error = "retryable"]
            /\ UNCHANGED compaction
  /\ UNCHANGED << turnVars, hostVars, messages, cursorVars, sequence, requestId,
                  retryVars, continuations, bounds, skipCompaction, toolVars, approvalVars >>

\* Cancellation was asked for before, or the provider does not know the id:
\* the agent stays busy until the request ends by itself.
CancelWaits ==
  /\ alive /\ resuming /\ cancelled /\ ModelPending
  /\ cancelRequested \/ Target = {}
  /\ cancelRequested' = TRUE
  /\ Suspend
  /\ UNCHANGED << state, hostVars, messages, cursorVars, sequence, requestId, requestDone,
                  ctx, flight, retryVars, continuations, compactVars, toolVars, approvalVars >>

Unfinished(i) == batch[i] \in {"running", "cancelling"}
NotAsked(s) == s                            \* mutation: nobody asks the tool
AskToStop(s) == IF s = "running" THEN "cancelling" ELSE s
DroppedBatch == [i \in 1 .. Len(batch) |-> "none"]   \* mutation: tasks dropped while they run
StoppedBatch == [i \in 1 .. Len(batch) |-> AskToStop(batch[i])]

\* No request is pending: drop the compaction, ask the tools to stop, and
\* either wait for them or end the turn.
CancelRelease ==
  /\ alive /\ resuming /\ cancelled /\ ~ModelPending
  /\ compaction' = "idle" /\ bounds' = NoBounds
  /\ \/ /\ task \in {"running", "cancelling"}
        /\ task' = AskToStop(task)
        /\ Suspend /\ UNCHANGED << state, batch >>
     \/ /\ task \in {"none", "finished"} /\ task' = "none"
        /\ \E i \in 1 .. Len(batch) : Unfinished(i)
        /\ batch' = StoppedBatch
        /\ Suspend /\ UNCHANGED state
     \/ /\ task \in {"none", "finished"} /\ task' = "none"
        /\ ~\E i \in 1 .. Len(batch) : Unfinished(i)
        /\ batch' = << >>
        /\ EndTurn("cancelled")
  /\ UNCHANGED << hostVars, messages, cursorVars, requestVars, retryVars, continuations,
                  skipCompaction, started, approvalVars >>

-----------------------------------------------------------------------------
(* AGENT_READY and AGENT_WAIT_MODEL. *)

BeginTurn ==
  /\ Iterating /\ state = "ready"
  /\ StartRequest(messages, ctx)
  /\ UNCHANGED << hostVars, cursorVars, continuations, toolVars, approvalVars >>

\* The request, or the retry delay, has not ended yet.
AwaitModel ==
  /\ Iterating /\ state = "wait_model"
  /\ ModelPending \/ (compaction = "idle" /\ requestDone /\ retryPending = "waiting")
  /\ Suspend
  /\ UNCHANGED << state, hostVars, messages, cursorVars, requestVars, retryVars,
                  continuations, compactVars, toolVars, approvalVars >>

\* finish_compaction: the summary, or the deterministic fallback when there is
\* none, replaces the same range; the next pass starts the normal request.
FinishCompaction ==
  /\ Iterating /\ state = "wait_model" /\ compaction \in {"summary", "failed"}
  /\ messages' = Compact(messages, bounds, UserMessage)
  /\ compaction' = "idle" /\ bounds' = NoBounds /\ skipCompaction' = TRUE
  /\ state' = "ready"
  /\ UNCHANGED << inTurn, resuming, alive, hostVars, cursorVars, requestVars, retryVars,
                  continuations, toolVars, approvalVars >>

EarlyAnswer == Iterating /\ state = "wait_model" /\ compaction = "idle"   \* mutation
Answer == Iterating /\ state = "wait_model" /\ compaction = "idle" /\ requestDone
Failed == Answer /\ ctx.error # "none"

RetryRequest ==
  /\ Failed /\ retryPending = "due"
  /\ retryPending' = "no"
  /\ StartModelRequest(sequence + 1, "fatal")
  /\ UNCHANGED << hostVars, messages, cursorVars, retries, continuations, compactVars,
                  toolVars, approvalVars >>

\* Nothing of the answer has been shown, the error is transient and the budget
\* is not spent.
RetryAnyway == ctx.error = "retryable" /\ retries < MaxRetries   \* mutation
MayRetry == ~ctx.partial /\ ctx.calls = << >> /\ ctx.error = "retryable" /\ retries < MaxRetries

ScheduleRetry ==
  /\ Failed /\ retryPending = "no" /\ MayRetry
  /\ retries' = retries + 1 /\ retryPending' = "waiting"
  /\ Suspend
  /\ UNCHANGED << state, hostVars, messages, cursorVars, requestVars, continuations,
                  compactVars, toolVars, approvalVars >>

FailTurn ==
  /\ Failed /\ retryPending = "no" /\ ~MayRetry
  /\ EndTurn("error")
  /\ UNCHANGED << hostVars, messages, cursorVars, requestVars, retryVars, continuations,
                  compactVars, toolVars, approvalVars >>

Complete == Answer /\ ctx.error = "none"

\* The assistant message.  Calls of an answer that was cut off are dropped.
WholeAnswer == AssistantMessage(ctx.calls)  \* mutation: cut-off calls are kept
Assembled == AssistantMessage(IF ctx.stop = "stop" THEN ctx.calls ELSE << >>)
Taken == [ctx EXCEPT !.partial = FALSE, !.calls = << >>]

\* The answer hit its token limit: ask for more, up to the cap.
ContinueAnswer ==
  /\ Complete /\ ctx.stop = "limit" /\ continuations < MaxContinuations
  /\ continuations' = continuations + 1
  /\ StartRequest(Append(messages, Assembled), Taken)
  /\ UNCHANGED << hostVars, cursorVars, toolVars, approvalVars >>

\* The cap is reached, or the answer was filtered or cut off otherwise.
GiveUp ==
  /\ Complete
  /\ \/ ctx.stop = "limit" /\ continuations >= MaxContinuations /\ UNCHANGED continuations
     \/ ctx.stop = "incomplete" /\ continuations' = 0
  /\ messages' = Append(messages, Assembled) /\ ctx' = Taken
  /\ EndTurn("error")
  /\ UNCHANGED << hostVars, cursorVars, sequence, requestId, requestDone, cancelRequested,
                  flight, retryVars, compactVars, toolVars, approvalVars >>

FinalAnswer ==
  /\ Complete /\ ctx.stop = "stop" /\ ctx.calls = << >>
  /\ continuations' = 0
  /\ messages' = Append(messages, Assembled) /\ ctx' = Taken
  /\ EndTurn("done")
  /\ UNCHANGED << hostVars, cursorVars, sequence, requestId, requestDone, cancelRequested,
                  flight, retryVars, compactVars, toolVars, approvalVars >>

\* The answer asks for tools.  The switch falls through to AGENT_WAIT_USER,
\* where no approval is pending, and returns BUSY.
CallTools ==
  /\ Complete /\ ctx.stop = "stop" /\ ctx.calls # << >>
  /\ continuations' = 0
  /\ messages' = Append(messages, Assembled) /\ ctx' = Taken
  /\ state' = "wait_tool" /\ toolMsg' = Len(messages) + 1 /\ toolIndex' = 1
  /\ started' = << >> /\ grants' = {}
  /\ Suspend
  /\ UNCHANGED << hostVars, sequence, requestId, requestDone, cancelRequested, flight,
                  retryVars, compactVars, task, batch, approval >>

-----------------------------------------------------------------------------
(* AGENT_WAIT_USER and AGENT_WAIT_TOOL. *)

\* mutation: the cursor stays at the call
StuckResult(i) ==
  \/ /\ ToolCalls[i].id /\ messages' = Append(messages, ToolMessage(i))
     /\ state' = "wait_tool" /\ UNCHANGED << toolIndex, inTurn, resuming, alive >>
  \/ ~ToolCalls[i].id /\ EndTurn("error") /\ UNCHANGED << messages, toolIndex >>

\* append_tool_result for call i, the last one recorded so far: a call without
\* an id fails it and the turn.
AppendResult(i) ==
  \/ /\ ToolCalls[i].id
     /\ messages' = Append(messages, ToolMessage(i)) /\ toolIndex' = toolIndex + 1
     /\ state' = "wait_tool" /\ UNCHANGED << inTurn, resuming, alive >>
  \/ /\ ~ToolCalls[i].id
     /\ EndTurn("error") /\ UNCHANGED << messages, toolIndex >>

AwaitUser ==
  /\ Iterating /\ state = "wait_user" /\ ~(approval.pending /\ approval.decided)
  /\ Suspend
  /\ UNCHANGED << state, hostVars, messages, cursorVars, requestVars, retryVars,
                  continuations, compactVars, toolVars, approvalVars >>

Agreed == Iterating /\ state = "wait_user" /\ approval.pending /\ approval.granted   \* mutation
Decided == Iterating /\ state = "wait_user" /\ approval.pending /\ approval.decided
Approved == approval.granted /\ toolIndex = approval.call

\* The user said no, or said yes to another call.
RejectCall ==
  /\ Decided /\ ~Approved
  /\ AppendResult(toolIndex)
  /\ approval' = IF ToolCalls[toolIndex].id
                   THEN [approval EXCEPT !.pending = FALSE, !.decided = FALSE,
                                         !.granted = FALSE]
                   ELSE approval
  /\ UNCHANGED << hostVars, toolMsg, requestVars, retryVars, continuations, compactVars,
                  toolVars, grants >>

\* The grant stays set for the pass that starts the call.
AcceptCall ==
  /\ Decided /\ Approved
  /\ approval' = [approval EXCEPT !.pending = FALSE, !.decided = FALSE]
  /\ state' = "wait_tool"
  /\ UNCHANGED << inTurn, resuming, alive, hostVars, messages, cursorVars, requestVars,
                  retryVars, continuations, compactVars, toolVars, grants >>

\* parallel_batch_eligible
Eligible ==
  /\ Len(ToolCalls) >= 2
  /\ \A i \in 1 .. Len(ToolCalls) : ToolCalls[i].safe

\* start_parallel_tools: a tool without a task is done when it returns.
StartBatch ==
  /\ Iterating /\ state = "wait_tool"
  /\ batch = << >> /\ toolIndex = 1 /\ Eligible
  /\ batch' \in [1 .. Len(ToolCalls) -> {"running", "finished"}]
  /\ started' = [i \in 1 .. Len(ToolCalls) |-> i]
  /\ UNCHANGED << turnVars, hostVars, messages, cursorVars, requestVars, retryVars,
                  continuations, compactVars, task, approvalVars >>

\* poll_parallel_tools: no result is recorded before the last call is done,
\* then all are, in call order, up to one that has no id.
PollBatch ==
  /\ Iterating /\ state = "wait_tool" /\ batch # << >>
  /\ \/ /\ \E i \in 1 .. Len(batch) : Unfinished(i)
        /\ Suspend /\ UNCHANGED << state, batch, messages, toolIndex >>
     \/ /\ \A i \in 1 .. Len(batch) : ~Unfinished(i)
        /\ batch' = << >>
        /\ \E n \in 0 .. Len(batch) :
             /\ \A i \in 1 .. n : ToolCalls[i].id
             /\ messages' = messages \o [i \in 1 .. n |-> ToolMessage(i)]
             /\ \/ /\ n = Len(batch) /\ toolIndex' = n + 1
                   /\ UNCHANGED << state, inTurn, resuming, alive >>
                \/ /\ n < Len(batch) /\ ~ToolCalls[n + 1].id
                   /\ EndTurn("error") /\ UNCHANGED toolIndex
  /\ UNCHANGED << hostVars, toolMsg, requestVars, retryVars, continuations, compactVars,
                  task, started, approvalVars >>

\* The serial path is at a call.
AtCall ==
  /\ Iterating /\ state = "wait_tool"
  /\ batch = << >> /\ ~(toolIndex = 1 /\ Eligible)
  /\ toolIndex <= Len(ToolCalls)

\* poll_tool_call
PollTask ==
  /\ AtCall /\ task # "none"
  /\ \/ /\ task \in {"running", "cancelling"}
        /\ Suspend /\ UNCHANGED << state, task, messages, toolIndex >>
     \/ /\ task = "finished" /\ task' = "none"
        /\ AppendResult(toolIndex)
  /\ UNCHANGED << hostVars, toolMsg, requestVars, retryVars, continuations, compactVars,
                  batch, started, approvalVars >>

NextCall == ToolCalls[toolIndex]

\* A side-effecting tool and nobody to ask: denied, trusted or not.
DenyCall ==
  /\ AtCall /\ task = "none" /\ NextCall.gated /\ host = "none"
  /\ AppendResult(toolIndex)
  /\ UNCHANGED << hostVars, toolMsg, requestVars, retryVars, continuations, compactVars,
                  toolVars, approvalVars >>

\* A terminal answers inside the approval callback, and may switch trusted
\* mode on; the TUI answers later through agent_set_approval_result.
AskUser ==
  /\ AtCall /\ task = "none" /\ NextCall.gated /\ host # "none"
  /\ ~trusted /\ ~approval.granted
  /\ state' = "wait_user"
  /\ \/ /\ host = "callback"
        /\ \E yes, always \in BOOLEAN :
             /\ always => yes
             /\ approval' = [pending |-> TRUE, decided |-> TRUE, granted |-> yes,
                             call |-> toolIndex]
             /\ grants' = IF yes THEN grants \cup {toolIndex} ELSE grants
             /\ trusted' = always
        /\ UNCHANGED << inTurn, resuming, alive >>
     \/ /\ host = "tui"
        /\ approval' = [approval EXCEPT !.pending = TRUE, !.decided = FALSE,
                                        !.call = toolIndex]
        /\ Suspend /\ UNCHANGED << trusted, grants >>
  /\ UNCHANGED << cancelled, model, host, messages, cursorVars, requestVars, retryVars,
                  continuations, compactVars, toolVars >>

\* A gated call needs a host, and trusted mode or a grant.
MayStartAlone == NextCall.gated => trusted \/ approval.granted \/ host = "none"   \* mutation
MayStart == NextCall.gated => host # "none" /\ (trusted \/ approval.granted)

\* Starting a gated call uses its grant up.
KeepGrant == UNCHANGED approval             \* mutation: the grant stays
SpendGrant == approval' = IF NextCall.gated THEN [approval EXCEPT !.granted = FALSE]
                                            ELSE approval

\* start_tool_call: a pending task, or a result at once.
StartCall ==
  /\ AtCall /\ task = "none"
  /\ MayStart
  /\ SpendGrant
  /\ started' = Append(started, toolIndex)
  /\ \/ task' = "running" /\ Suspend /\ UNCHANGED << state, messages, toolIndex >>
     \/ UNCHANGED task /\ AppendResult(toolIndex)
  /\ UNCHANGED << hostVars, toolMsg, requestVars, retryVars, continuations, compactVars,
                  batch, grants >>

\* Every call has its result: the next request carries them.
ToolsDone ==
  /\ Iterating /\ state = "wait_tool"
  /\ batch = << >> /\ ~(toolIndex = 1 /\ Eligible)
  /\ toolIndex > Len(ToolCalls)
  /\ StartRequest(messages, ctx)
  /\ UNCHANGED << hostVars, cursorVars, continuations, toolVars, approvalVars >>

-----------------------------------------------------------------------------
(* Everything that happens between two calls of agent_resume. *)

Outside == alive /\ ~resuming

\* The user cancels: only a running turn can be.
Cancel ==
  /\ Outside /\ inTurn /\ ~cancelled
  /\ cancelled' = TRUE
  /\ UNCHANGED << turnVars, model, trusted, host, messages, cursorVars, requestVars, retryVars,
                  continuations, compactVars, toolVars, approvalVars >>

AwaitsDecision == state = "wait_user" /\ approval.pending /\ ~approval.decided

\* A line the user types is a command: in the TUI unless an approval is
\* waiting for it, at a plain terminal only between two turns.
AtPrompt ==
  \/ host = "tui" /\ ~(inTurn /\ AwaitsDecision)
  \/ host = "callback" /\ ~inTurn

\* /model, and between two turns the rebinding by discovery_apply
SetModel ==
  /\ Outside /\ AtPrompt
  /\ model' \in Models \ {model}
  /\ UNCHANGED << turnVars, cancelled, trusted, host, messages, cursorVars, requestVars, retryVars,
                  continuations, compactVars, toolVars, approvalVars >>

\* /trust; the TUI takes "/trust off" at an approval too.
SetTrusted ==
  /\ Outside /\ (AtPrompt \/ (host = "tui" /\ trusted))
  /\ trusted' = ~trusted
  /\ UNCHANGED << turnVars, cancelled, model, host, messages, cursorVars, requestVars, retryVars,
                  continuations, compactVars, toolVars, approvalVars >>

\* agent_set_approval_result, from the TUI's prompt; "always" also trusts.
Decide ==
  /\ Outside /\ host = "tui" /\ inTurn /\ AwaitsDecision
  /\ \E yes, always \in BOOLEAN :
       /\ always => yes
       /\ approval' = [approval EXCEPT !.decided = TRUE, !.granted = yes]
       /\ grants' = IF yes THEN grants \cup {approval.call} ELSE grants
       /\ trusted' = (trusted \/ always)
  /\ UNCHANGED << turnVars, cancelled, model, host, messages, cursorVars, requestVars, retryVars,
                  continuations, compactVars, toolVars >>

\* Text, reasoning or a tool-call delta of the current request.
ModelDelta ==
  /\ Outside /\ ~ctx.partial
  /\ \E f \in flight : ~f.summary /\ f.id = requestId
  /\ ctx' = [ctx EXCEPT !.partial = TRUE]
  /\ UNCHANGED << turnVars, hostVars, messages, cursorVars, sequence, requestId, requestDone,
                  cancelRequested, flight, retryVars, continuations, compactVars, toolVars,
                  approvalVars >>

\* MODEL_EVENT_DONE of a normal request; on_model_event ignores another id.
ModelDone(f) ==
  /\ Outside /\ ~f.summary
  /\ flight' = flight \ {f}
  /\ \/ /\ f.id = requestId /\ requestDone' = TRUE
        /\ \E stop \in {"stop", "limit", "incomplete"}, calls \in Answers :
             /\ stop = "limit" \/ (stop = "stop" /\ calls # << >>) => Room
             /\ ctx' = [ctx EXCEPT !.stop = stop, !.calls = calls]
     \/ f.id # requestId /\ UNCHANGED << requestDone, ctx >>
  /\ UNCHANGED << turnVars, hostVars, messages, cursorVars, sequence, requestId,
                  cancelRequested, retryVars, continuations, compactVars, toolVars,
                  approvalVars >>

\* MODEL_EVENT_ERROR of a normal request.
ModelError(f) ==
  /\ Outside /\ ~f.summary
  /\ flight' = flight \ {f}
  /\ \/ /\ f.id = requestId /\ requestDone' = TRUE
        /\ \E e \in {"retryable", "fatal"} :
             /\ e = "retryable" => Room
             /\ ctx' = [ctx EXCEPT !.error = e]
     \/ f.id # requestId /\ UNCHANGED << requestDone, ctx >>
  /\ UNCHANGED << turnVars, hostVars, messages, cursorVars, sequence, requestId,
                  cancelRequested, retryVars, continuations, compactVars, toolVars,
                  approvalVars >>

\* on_compaction_event: the summary, or an error or an empty one.
SummaryEnds(f) ==
  /\ Outside /\ f.summary
  /\ flight' = flight \ {f}
  /\ IF f.id = requestId THEN compaction' \in {"summary", "failed"}
                         ELSE UNCHANGED compaction
  /\ UNCHANGED << turnVars, hostVars, messages, cursorVars, sequence, requestId, requestDone,
                  cancelRequested, ctx, retryVars, continuations, bounds, skipCompaction,
                  toolVars, approvalVars >>

\* retry_delay_elapsed
RetryTimer ==
  /\ Outside /\ retryPending = "waiting"
  /\ retryPending' = "due"
  /\ UNCHANGED << turnVars, hostVars, messages, cursorVars, requestVars, retries,
                  continuations, compactVars, toolVars, approvalVars >>

TaskEnds ==
  /\ Outside /\ task \in {"running", "cancelling"}
  /\ task' = "finished"
  /\ UNCHANGED << turnVars, hostVars, messages, cursorVars, requestVars, retryVars,
                  continuations, compactVars, batch, started, approvalVars >>

BatchCallEnds(i) ==
  /\ Outside /\ i \in 1 .. Len(batch) /\ Unfinished(i)
  /\ batch' = [batch EXCEPT ![i] = "finished"]
  /\ UNCHANGED << turnVars, hostVars, messages, cursorVars, requestVars, retryVars,
                  continuations, compactVars, task, started, approvalVars >>

\* agent_loop_state_cleanup
Destroy ==
  /\ Outside
  /\ flight' = IF state = "wait_model" /\ ~requestDone THEN flight \ Target ELSE flight
  /\ alive' = FALSE /\ task' = "none" /\ batch' = << >>
  /\ UNCHANGED << state, inTurn, resuming, hostVars, messages, cursorVars, sequence, requestId,
                  requestDone, cancelRequested, ctx, retryVars, continuations, compactVars,
                  started, approvalVars >>

-----------------------------------------------------------------------------

\* One pass of agent_resume.
Pass ==
  \/ CancelRequest \/ CancelWaits \/ CancelRelease
  \/ BeginTurn \/ AwaitModel \/ FinishCompaction
  \/ RetryRequest \/ ScheduleRetry \/ FailTurn
  \/ ContinueAnswer \/ GiveUp \/ FinalAnswer \/ CallTools
  \/ AwaitUser \/ RejectCall \/ AcceptCall
  \/ StartBatch \/ PollBatch \/ PollTask \/ DenyCall \/ AskUser \/ StartCall \/ ToolsDone

RequestEnds == \E f \in flight : ModelDone(f) \/ ModelError(f) \/ SummaryEnds(f)

User == Start \/ Cancel \/ SetModel \/ SetTrusted \/ Decide \/ Destroy

Next ==
  \/ Resume \/ Pass \/ User
  \/ ModelDelta \/ RequestEnds \/ RetryTimer
  \/ TaskEnds \/ \E i \in 1 .. MaxCalls : BatchCallEnds(i)

Spec == Init /\ [][Next]_vars

\* The host keeps calling agent_resume while the agent is busy, and the event
\* loop runs between two calls: requests time out (600 s, 120 s of silence),
\* timers fire, and a tool told to stop stops (SIGTERM, then SIGKILL).  A tool
\* that nobody stops may run for ever, and the user owes nothing.
StopsTask == task = "cancelling" /\ TaskEnds
StopsCall(i) == i \in 1 .. Len(batch) /\ batch[i] = "cancelling" /\ BatchCallEnds(i)

Fairness ==
  /\ WF_vars(Resume \/ Pass)
  /\ SF_vars(RequestEnds) /\ SF_vars(RetryTimer) /\ SF_vars(StopsTask)
  /\ \A i \in 1 .. MaxCalls : SF_vars(StopsCall(i))

FairSpec == Spec /\ Fairness

-----------------------------------------------------------------------------
(* Types. *)

Output == [error : {"none", "retryable", "fatal"}, partial : BOOLEAN,
           stop : {"stop", "limit", "incomplete"}, calls : Seq(Call)]
ToolStates == {"running", "cancelling", "finished"}

TurnTypes ==
  state \in AgentStates /\ inTurn \in BOOLEAN /\ resuming \in BOOLEAN /\ alive \in BOOLEAN
HostTypes == cancelled \in BOOLEAN /\ model \in Models /\ trusted \in BOOLEAN /\ host \in Hosts
CursorTypes == toolMsg \in Nat /\ toolIndex \in Nat
RequestTypes ==
  /\ sequence \in Nat /\ requestId \in Nat
  /\ requestDone \in BOOLEAN /\ cancelRequested \in BOOLEAN /\ ctx \in Output
  /\ flight \subseteq [id : Nat, model : Models, summary : BOOLEAN]
RetryTypes == retries \in Nat /\ retryPending \in {"no", "waiting", "due"}
CompactTypes ==
  /\ compaction \in {"idle", "running", "summary", "failed"}
  /\ bounds \in [start : Nat, count : Nat] /\ skipCompaction \in BOOLEAN
ToolTypes ==
  /\ task \in {"none"} \cup ToolStates /\ batch \in Seq(ToolStates)
  /\ started \in Seq(Nat)
ApprovalTypes ==
  /\ approval \in [pending : BOOLEAN, decided : BOOLEAN, granted : BOOLEAN, call : Nat]
  /\ grants \subseteq Nat

\* The values of every variable of the loop state.
TypeOK ==
  /\ TurnTypes /\ HostTypes /\ messages \in Seq(Message) /\ CursorTypes
  /\ RequestTypes /\ RetryTypes /\ continuations \in Nat /\ CompactTypes
  /\ ToolTypes /\ ApprovalTypes

-----------------------------------------------------------------------------
(* Safety. *)

\* The agent waits for a request exactly when one is in flight, and it is the
\* one whose events on_model_event accepts: no answer is awaited that has
\* already come, and none arrives that nobody awaits.
OneRequest ==
  alive => /\ \A f \in flight : f.id = requestId /\ f.summary = (compaction = "running")
           /\ flight # {} <=> ModelPending

\* A turn that is over owns no request, tool, batch or compaction
\* (loop.c:931-934, the no-zombie, no-dangling-callback contract).
OverOwnsNothing ==
  alive /\ ~inTurn =>
    flight = {} /\ task = "none" /\ batch = << >> /\ compaction = "idle"

\* agent_loop_state_cleanup cancels the request the agent waits for
\* (loop.c:1338-1341).  It leaves in flight only a summary request, when the
\* request_done of an earlier request hides it, and a request of a model the
\* agent was switched from.
LeftBehind == ~alive => \A f \in flight : (f.summary /\ requestDone) \/ f.model # model

\* Nothing else that is over can be called back.
OwnsNothing == OverOwnsNothing /\ LeftBehind

\* While tools run, the conversation ends with the answer that asked for them
\* and the results of the calls before the cursor, one each, in call order.
ResultsInOrder ==
  inTurn /\ state \in {"wait_tool", "wait_user"} =>
    /\ toolMsg \in 1 .. Len(messages)
    /\ Len(messages) = toolMsg + toolIndex - 1
    /\ \A i \in 1 .. toolIndex - 1 : messages[toolMsg + i] = ToolMessage(i)

\* No call is started twice, whatever the interleaving of progress, approvals
\* and cancellation.
StartedOnce == \A i, j \in 1 .. Len(started) : started[i] = started[j] => i = j

\* The conversation never holds a tool result cut off from the answer that
\* asked for it: compaction keeps units whole (message.c:190-193).
Unorphaned == NoOrphans(messages)

\* Within a turn, a request leaves with every call since the last user message
\* answered, each before anything else.
LastUser(list) ==
  CHOOSE u \in 0 .. Len(list) :
    /\ u > 0 => list[u].role = "user"
    /\ \A k \in u + 1 .. Len(list) : list[k].role # "user"
RequestSent == inTurn /\ state = "wait_model" /\ compaction = "idle" /\ ~requestDone
AnsweredInTurn ==
  RequestSent => \A k \in LastUser(messages) + 1 .. Len(messages) : Answered(messages, k)

\* Every request out is the one the agent waits for, and one a provider takes.
SoundRequests == OneRequest /\ AnsweredInTurn

\* Not kept after a turn that was cancelled while tools ran.  The same of the
\* whole conversation: an assistant message with tool calls and
\* the responses that follow it are one atomic unit (message.c:190-193).
AnsweredAlways == RequestSent => AllAnswered(messages)

\* A grant outlives the user's decision only inside the agent_resume that acts
\* on it, or in a turn that is being cancelled.
GrantIsSpent ==
  approval.granted /\ ~resuming => state \in {"wait_user", "cancelled"}

\* A side-effecting call starts only in trusted mode or after the user granted
\* that very call.
Authorised(i) == ToolCalls[i].gated => host # "none" /\ (trusted \/ i \in grants)
ExecutionAuthorised ==
  [][\A k \in Len(started) + 1 .. Len(started') : Authorised(started'[k])]_vars

\* A failed request is sent again only if nothing of its answer was shown,
\* however late the retry comes.
NoReplayAfterOutput ==
  [][state = "wait_model" /\ compaction = "idle" /\ ctx.error # "none" /\ sequence' # sequence
       => ~ctx.partial]_vars

\* A call of agent_resume that finds the token set has told the provider when
\* it returns: it leaves nothing in flight (loop.c:909-918), but for a summary.
CancelReachesRequest ==
  [][alive' /\ cancelled /\ resuming /\ ~resuming' => \A f \in flight' : f.summary]_vars

\* Not kept: the same of the summary of a compaction, which is cancelled by its
\* request id (PROGRESS.md:25).  start_compaction_request does not reset
\* request_cancel_requested.
CancelReachesProvider ==
  [][alive' /\ cancelled /\ resuming /\ ~resuming' => flight' = {}]_vars

-----------------------------------------------------------------------------
(* Liveness. *)

\* A cancelled turn ends, however many requests and tools it has running.
CancelEndsTurn == cancelled /\ inTurn ~> ~inTurn \/ ~alive

\* The user's decision is acted on, unless the turn is cancelled first.
DecisionActedOn == approval.decided /\ inTurn ~> ~approval.decided \/ cancelled \/ ~alive

\* A wait for the model ends: retries, continuations and compactions cannot
\* keep a turn in it for ever.
ModelWaitEnds == state = "wait_model" /\ inTurn ~> state # "wait_model" \/ ~alive
=============================================================================
