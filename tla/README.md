# A verification project for cagent

cagent is a coding agent for the terminal, written in C: a conversation with a
language model that may call tools (read, edit, bash, git, sub-agents ...), a
TUI and a plain REPL to drive it, and an event loop underneath.  This directory
holds TLA+ modules translated from its source, TLC configurations that check
them on small instances, and TLAPS proofs of what matters most for every value
of the constants.  Source paths below are relative to the repository's `src/`.

## 1. The system

Everything but the model discovery runs on one thread.  A host loop
(`main.c`, `runtime_pump`) waits for file descriptors and timers, lets libcurl
and child processes make progress, and calls `agent_resume`, which returns as
soon as the agent has to wait.  Concurrency is therefore the interleaving of
callbacks and calls of `agent_resume`, and the hard bugs are stale state between
two calls, events that arrive late or out of order, and cancellation that finds
any combination of requests, tools, timers and approvals in progress.  Two
places have more than one actor: the discovery thread shares memory with the
TUI, and several processes share `auth.json`.

| component | source | state | operations | hard behaviour | what makes it correct |
|---|---|---|---|---|---|
| Agent loop | `agent/loop.c`, `agent/agent.c` | agent state, request id and accumulation, tool cursor, serial task, parallel batch, approval, retry and compaction state | `agent_start`, `agent_resume`, `agent_set_approval_result`, model events, cleanup | interleaving of provider events, tool progress, approvals, cancel, destroy; retries; continuations | one request at a time and its own events only; a turn over owns nothing; calls answered once, in order; no side effect without authority; every cancel ends the turn |
| History | `agent/message.c`, `agent/context.c` | the message list | append, insert, remove range, tool-safe prefix, compaction | boundaries of a range; ranges computed before an await and used after it | an assistant message with tool calls and its results stay together |
| Scheduler | `runtime/scheduler.c` | list of agents, running counter | add, pump | slots freed in the middle of a scan; failed starts | the limit; list order; no starvation |
| Session log | `session/session.c` | a JSONL file, bounded memory text, totals | create, append message / compaction / memory / stats, open, load | a crash between or inside two writes; compaction replay | the reloaded conversation is the live one |
| Processes | `runtime/process.c` | pid, pipes, timer, termination flags, captured output | start, poll, cancel, free, pipe and timer callbacks | exit, output, timeout and cancel in any order; grace before SIGKILL; descendants | reaped; all output read; a stopped command ends and leaves nobody behind |
| Event loop | `runtime/event_loop.c` | epoll set, wake eventfd, one static wake watcher | add, modify, remove, wait, wakeup | callbacks that remove watchers; several loops | no callback of a removed watcher; a wakeup is consumed |
| HTTP client | `runtime/http.c` | curl multi, list of requests, socket watchers, its timer | start, pump, abort, socket and timer callbacks, free | abort between an end and its message; sockets freed in a batch | each transfer is finished once and unlisted; each ends |
| Providers | `model/{openai,anthropic,responses,provider,stream}.c` | pending transfers, SSE parser, tool-call assembly | request, cancel, destroy, stream callbacks, request bodies | deltas split anywhere; cancel during a callback; connections that end early | exactly one terminal event per request; calls assembled as sent; a body says what the conversation says |
| OAuth | `auth/oauth.c`, `model/provider.c` | `auth.json`, the login in progress | login (browser, device), refresh, store a key, sign out | refresh and save by two processes; a crash between refresh and rename; a late redirect | no login lost; no half document; a code goes with its own verifier |
| Runtime and catalog | `runtime/runtime.c` | providers, models, configuration | load, discover, apply | discovery thread against the main thread | selected models stay valid |
| Hosts | `main.c` | input, approval prompt, SIGINT flag, pickers, discovery | submit, cancel, escape, slash commands, REPL | signals and keys at any point of a turn | an answer goes to the call it was asked for; a question stays answerable; whoever quits gets out |
| TUI | `tui/*.c` | rows, cursor, popups, layout | render, key handling, formatting | scrolling, wrapping, wide characters | layout functions of their input |
| Tools | `tool/*.c` | path policy, plan file, sub-agents, child processes | start, poll, cancel, destroy per tool | a file changed between preview and execution; partial results | edits apply once and completely; sub-agents are polled to an end and destroyed |
| Utilities | `util/*.c` | containers | hashmap, vector, arena, buffer, string, JSON, diff, log | tombstones, growth | each is its abstract data type |
| Reports, project context | `report/report.c`, `util/project_context.c` | none | text assembly | - | - |

Calls go down (hosts -> agent loop -> providers -> HTTP -> event loop; agent
loop -> tools -> processes or child agents; agent loop -> session log), events
come back up as callbacks.  Shared state is the `Agent` structure (written by the
loop, the host's commands and the callbacks), the model and provider objects
shared by all agents, the discovery's configuration, the session file and
`auth.json`.

## 2. Modules

| module | models | kind |
|---|---|---|
| `History` | the message list, tool-safe prefixes, compaction (`message.c`, `context.c`) | operators |
| `AgentLoop` | `agent/loop.c`: one action per branch of `agent_resume`, per callback and per call of the host | state machine |
| `AgentTurn` | the contract of a turn as its host sees it | abstract specification |
| `AgentLoopTurn` | the refinement mapping from `AgentLoop` to `AgentTurn` | refinement |
| `Scheduler` | `runtime/scheduler.c` | state machine |
| `Session` | `session/session.c` and the calls of it in `loop.c` and `main.c`; extends `History` | state machine |
| `Process` | `runtime/process.c` on `runtime/event_loop.c`, with the kernel's processes, pipes and timer | state machine |
| `Sse` | the line parser of `model/stream.c` | operators |
| `Accum` | the accumulators of the three providers (`Accum` of `openai.c`, `anthropic.c` and `responses.c`): the tool call slots and the events handed on | operators |
| `Openai`, `Anthropic`, `Responses` | what the three providers make of one event, and how their streams end | operators |
| `Wire` | the three request bodies as lists of blocks | operators |
| `Stream` | one request from its body to its last event; composes the six above with a server of each protocol and a connection | state machine |
| `Transfers` | `runtime/http.c`, the models' transfer tables, what an agent does to its request | state machine |
| `AuthFile` | how `auth.json` is read and rebuilt (`oauth.c`, `provider.c`) | operators |
| `Auth` | the processes that share it: refresh, sign-in, keys, sign-out, crashes | state machine |
| `App` | the TUI application of `main.c` with the discovery thread of `runtime.c` | state machine |
| `MCAgentLoop`, `MCSession`, `MCStream`, `MCAuth`, `MCApp` | the small sets of values | TLC instances |
| `AgentLoopProofs` | what compaction does to any conversation (lemmas on `History`); the inductive invariant of `AgentLoop`: types, tool protocol, authority; a second one over it: requests, tasks, retries, cancellation; the refinement of `AgentTurn` | proofs |
| `SchedulerProofs` | the scheduler's invariants | proofs |
| `SessionProofs` | a load as a fold, one step for each line; the file and the conversation agree; any file a crash leaves resumes | proofs |
| `StreamProofs` | the folds of the parser and of the accumulators, step by step; when an accumulator is over; the bytes of each event and who may be blamed for them; the calls and results in a request body | proofs |
| `TransfersProofs` | the transfer tables, ids, and who owes an agent its terminal event | proofs |
| `ProcessProofs` | the callbacks of a batch, the end of a pipe, the count of what was read | proofs |
| `AppProofs` | the hand-over of discovery memory, models that stay alive, open questions, what a discovery collects | proofs |
| `AuthProofs` | what each process has read and drafted fits the file, whoever renamed over it | proofs |

### How the modules correspond to the code

`AgentLoop`.  `agent_resume` runs to completion on the loop's thread, but it is
a `for (;;)` over branches, so one action is one pass of that loop: `resuming`
is TRUE while the call is on the stack, a `continue` leaves it, a `return`
clears it.  Provider events, timers, tool progress and the host's calls happen
only while it is FALSE, which is what the single thread guarantees.  The
variables are the fields of `struct AgentLoopState` and `Agent` with their
names; `flight` is the provider's list of requests whose terminal event is
still to come, `started` and `grants` are history.  A tool is the two flags the
loop reads (approval needed, parallel safe) and whether its call has an id; an
answer is its stop reason, whether any of it was shown, and its calls.  The
host is one of three: none (headless runs and sub-agents), one that answers in
the approval callback (the plain REPL), and the TUI, which answers later.

`AgentTurn` has four variables and says what a host relies on, without request
ids, retries, compaction or batches: a turn alternates between model and tools,
goes back to the model only when no call lacks its result, has at most one
request out and is over only when that one is; a turn that is being stopped
starts nothing.  `AgentLoopTurn` maps the loop's state to it.

`History` is shared by the loop and the session log: `compaction_bounds`,
`message_list_tool_safe_prefix` and the replacement of a range are operators on
sequences of messages, so that the proofs and both state machines use one
definition.

`Session` has the file as a sequence of lines (a line may be broken by a crash
or joined with the next), and beside it the live conversation that the lines
are about.  `Resume` is `session_open` and `session_load_messages`; loading is a
fold over the lines, as in the code.

`Scheduler` makes one scan of `scheduler_pump` into steps, one per list entry.
`scheduler_add` is called by the tests only (`test_scheduler.c`,
`test_subagent.c`): the program pumps an empty scheduler, and `tool/subagent.c`
polls its children itself.

`Process` separates what the kernel does (write, fork, exit, let a timer expire)
from what the host does.  The host takes turns, as `runtime_pump` and
`agent_resume` do: `Wait` is `epoll_wait` with its batch of ready watchers,
each callback of the batch is an action, and poll, cancel and free happen
between batches only (cancelling a turn in a callback only sets a token; the
tool is told by the next `agent_resume`).

`Stream`.  Bytes are a few symbols: a line end, a carriage return, the mark of a
data line, `[DONE]`, the two halves of each event's payload.  `sse_parser_feed` is a
fold over them (`FeedByte`) that keeps the pending line, the data of the event and
its flags, so that a read may end
anywhere, an event may have its terminator split or a CRLF, and a line may grow
past its limit.  An event's JSON is a record (kind, index, call, a piece of the
arguments, a stop reason), and the three handlers are operators from such a
record and an accumulator to an accumulator.  A server is a grammar of what each
API says; it is external, and so are broken connections and statuses.
`acc.out` is everything the agent's callback was given, which is what the
properties speak of.  The bodies are built by `Wire` as blocks in order; ids and
text are numbers and flags.

`Transfers` has the phases of the main loop: the batch of `epoll_wait`, the
calls of curl made by its callbacks, `http_pump`'s drain of finished messages,
and the agents' turn.  A call of curl is a phase of its own, in which any
running transfer may end, give its terminal event, or open and close a socket.
The agents cancel in their own turn, between two rounds.  The lists `h->requests` and
`priv->transfers` are sequences with the code's removal (the last entry moves to
the gap).

`Auth`.  A process is where it stands in one of the operations, with what it has
read: between its read and its rename others may run, since nobody locks.
`AuthFile` keeps the four forms a document may have and the three kinds of
entry.  The server, which rotates refresh tokens or does not, and the browser
are external; a crash clears a process and what it held in memory.

`App`.  The main loop is a cycle of phases (`pump`, `resume`, `signal`), the
keys of one read of the terminal are handled one after another before anything
else, and each callback of the TUI is an action.  The agent is the part of
`AgentLoop` that the host can see: idle, waiting for the model, for a tool, for
a decision.  A model object is the generation of its catalog and its name; one
of a generation that was replaced is freed memory.  `disc` is `AppDiscovery`
with the worker's position, its flags, and who owns the configuration it reads.

## 3. What is checked

| run | module | bounds | what it shows |
|---|---|---|---|
| `agent_tools` | `MCAgentLoop` | TUI host; gated and parallel-safe calls, up to 2 in an answer; compaction; 4 requests; 1 retry, 1 continuation | results, grants and tokens stay paired over several turns with serial calls, batches, retries, continuations, compactions, cancels and destruction anywhere; the loop implements `AgentTurn` |
| `agent_live` | `MCAgentLoop` | the same with 3 requests | a cancelled turn ends, a decision is acted on, no wait for the model lasts for ever |
| `agent_hosts` | `MCAgentLoop` | no host or a callback; gated, serial and id-less calls; compaction; 2 models; 4 requests | requests and waits are paired, side effects need a host and its grant, and no summary or fallback cuts a tool unit |
| `scheduler` | `Scheduler` | 4 agents, 2 slots, failing starts | the counter, the order of slots, no starvation |
| `session` | `MCSession` | 7 lines, 2 crashes or failed writes (refused, torn, without newline), units with 1 or 2 calls | a load rebuilds the live conversation until a line is missed, and a well-formed one after crashes |
| `process` | `Process` | 2 streams, 1 chunk each, a cap of 1, one descendant, other loops at any time | output, grace period, survivors, ends |
| `stream` | `MCStream` | 3 protocols, CRLF and split terminators, lines of 6 symbols, 2 calls, 5 to 9 events, 1 line of noise; conversations of 3 units | one end per request, calls assembled as sent, "malformed" said only of malformed or broken-off streams, faithful bodies |
| `transfers` | `Transfers` | 2 agents on 1 model, 2 transfers, 1 socket | one end per transfer, no dangling entry or callback, a cancel hits its own, every transfer ends |
| `auth` | `MCAuth` | 2 processes, 2 browser sign-ins, 2 grants, 3 tokens; a file of named entries or a single key | no login is lost without a reason, the file is never torn, codes match verifiers |
| `app` | `MCApp` | 2 providers (one with bare entries), a listed name, an empty or a new list as answer, reads of up to 2 keys | no use after free of models and discovery memory, questions stay answerable, quitting ends, a catalog arrives |

Two runs refute what the repository says of itself; each is a finding:

| run | refuted | where |
|---|---|---|
| `agent_unanswered` | an answer and its results are one unit: a turn cancelled while tools run leaves calls without results in the history, and the next turn sends it | `loop.c:975` |
| `auth_in_place` | rotated tokens are refreshed in place: under the alias `chatgpt` the new token goes to a new entry and the spent one stays under `openai-codex` | `oauth.c:996` |

### Properties

Agent loop: `SoundRequests` pairs the wait with the request in flight
(`OneRequest`) and says that a request is sent when the calls of this turn have
their results (`AnsweredInTurn`; `AnsweredAlways`, which fails, says it of the
session); `OwnsNothing` is that nothing outlives a turn, and what alone outlives an
agent: a summary hidden by a stale `request_done`, or a request of a model
switched away from (`LeftBehind`);
`ResultsInOrder`, `StartedOnce`, `Unorphaned` are the tool protocol;
`GrantIsSpent`, `ExecutionAuthorised` the authority of side effects;
`CancelReachesRequest` (a cancelled request is told, summaries
apart; `CancelReachesProvider`, which fails, makes no exception) and
`NoReplayAfterOutput` the hazards of cancel and retry;
`CancelEndsTurn`, `DecisionActedOn`, `ModelWaitEnds` the liveness.

Session: `LoadsWhatIsLive` (no fault: a load rebuilds the live conversation and
memory) and `LoadsWell` (crashes at any byte of a line: the session can be resumed,
without orphaned results; its memory limit holds after a failed write too).  A
file to which a write failed while the process went on (`missed`) is outside the
first two parts of `LoadsWell`; see the divergences.  Scheduler: `CountsBusy`,
`OverrunBounded` (one agent too many for each failed start), `Fifo`,
`EveryAgentEnds`.  Process: `OutputComplete`, `GraceGiven`, `NothingLeft`, `CommandEnds`.

Stream: `EndsOnce` (one DONE or ERROR and nothing after it), `Assembled` (what
the server said of a call is in its slot, however it was cut or repeated),
`HonestError` (malformed JSON is only reported of malformed streams and of
transfers that failed; that a broken-off answer is an error is not claimed, see
`NoCutCall` below),
`BodyFaithful` (the traffic of the conversation in order; for anthropic
alternating roles with results first).  Transfers: `FinishedOnce`, `NoDangling`
(both lists hold the running transfers, each callback a living agent that waits
for it), `CancelsOwn`, `EveryTransferEnds`.  Auth: `LoginsKept`, `CodeMatches`.
App: `NoStalePointer` (models of the agent and its request, discovery memory and
its ownership), `Answerable`, `CacheKept` (a provider that was asked in vain
keeps its list in `models.json`), `Quits`, `CatalogArrives`.

### Divergences the models show without a run of their own

Each follows from the code as modelled; the property named, put into the
configuration named, shows the counterexample.

- `loop.c:915`: `request_cancel_requested` is reset by a normal request only
  (`loop.c:760`), while `PROGRESS.md:25` says that a summary request is cancelled
  by its id.  After a turn whose request was cancelled, cancelling a turn that
  waits for a summary does not reach the provider, and the turn stays busy until
  the summary ends by itself.  `CancelReachesProvider` in `AgentLoopTools.cfg`
  shows it with the third request.
- `loop.c:1338`: destruction does not cancel a summary request when
  `request_done` is left over from an earlier request; its callback keeps pointing
  into the freed loop state.  `LeftBehind` without its first disjunct, in
  `AgentLoopTools.cfg`.  The program destroys agents between turns, but for
  the exit with a turn running described below (`main.c:1302`).  `CallbackAlive` of `Transfers` makes the same
  exception.
- `loop.c:918`: `/model` works in the middle of a turn in the TUI; a cancel then
  goes to the new model, which does not know the request, and the turn waits for
  the request to end by itself.  `CancelReachesRequest` in `AgentLoopTools.cfg`
  with `Models = {m1, m2}`; `Quits` of `App` holds because the request does end.
- `session.c:285`: `append_line` does not look at what `fwrite` and `fclose`
  return and its callers drop its own result, so that on a full disk the session
  goes on and its file misses lines.  A compaction range recorded later may not
  fit what is left, and then `session_load_messages` refuses the file:
  `AlwaysLoads` without `~missed` in `Session.cfg`.
- `scheduler.c:91`: a start that fails lowers a counter it never raised;
  `AtMostLimit` in `Scheduler.cfg`.
- `loop.c:796`: the fallback compaction before a request changes the
  conversation and is not logged; `FallbackIsLogged` in `Session.cfg`.
- `event_loop.c:47`: one static wake watcher serves all loops and holds the
  descriptor of the last one; `WakeIsDrained` in `Process.cfg`.
- `http.c:207`: `socket_cb` frees a watcher while later events of the same batch
  may point to it; `WatcherAlive` in `Transfers.cfg` with `Sockets = {"s1", "s2"}`.
- `openai.c:606`: a stream that is closed after half of a call ends in DONE;
  `NoCutCall` in `Stream.cfg`.  `loop.c:200` fills gaps in the indices with slots
  that have no id; `SlotsHaveIds` in `Stream.cfg`.
- A connection that stalls to its end in the middle of a data line is reported
  as malformed JSON, which is not retried (`HonestError` allows it: `rc = "fail"`).
  A clean close in the middle of a line is reported in the same way; the model's
  server closes cleanly between two events only, so `HonestError` does not speak
  of it.
- `stream.h:7`: several `data:` lines of one event are said to be joined with a
  newline; `stream.c:99` joins them without one, as `test_sse.c` expects, and so
  does `Sse`.
- `runtime.c:2023`: one kept entry without `base_url` makes
  `runtime_apply_catalog` fail, the catalogs of all providers are thrown away and
  the TUI says that the catalog was updated; `CatalogTaken` in `App.cfg`.
- `runtime.c:1700`: leaving during discovery saves a `models.json` without the
  providers not asked yet.  `CacheKept` excludes a discovery that was cut short.
- `main.c:1302`, `main.c:1348`: with `exit` and a prompt in one read, the loop
  is left with a turn running, and `discovery_finish` may free the model of its
  request before the agent is destroyed.  `ModelsAlive` speaks of the main loop.
- `main.c:1321`: SIGINT cancels a turn at a question and leaves
  `approval_pending` set; the next line is taken for the answer.  `Answerable` is the
  other direction.
- `main.c:525`: a login that ends while the model picker is open leaves
  `model_picker` set with no choice on the screen.

### Bounds

- `MaxRequests` bounds the behaviours of `AgentLoop`, not single turns: only the
  environment's actions are guarded by it, so the loop itself never stops half
  way.  Four requests are two turns with a retry or a continuation each, or one
  turn with tools and another after it, which is what stale flags need.
- Two calls in an answer are the least with a first and a last one, a batch and
  a mixed answer.  Two positions of a result are enough for a cut inside a unit.
- `MinKeep` and `KeepRecent` stand for 4 and 10 messages.  They are 1 in
  `AgentLoop`, the most hostile value for the cut.  In `Session` they are 2:
  `LoadsWell` needs a kept tail of two messages, since a crash that loses only
  a newline makes the next append lose two messages, and a range recorded later
  must still fit in what is left.  The code's values are far above that.
- Seven lines hold a unit of two results, a compaction and a turn after it; two
  faults are one on each side of a resume.
- One chunk in each stream with a cap of one is output below, at and above the
  cap, crossed by either stream.
- `Stream`: the longest line that is served is as long as `MaxLine`, so that an
  endless one is one symbol over.  Two calls interleave, and `MaxEvents` is
  enough for both with their starts, two pieces of arguments of one of them and
  an end (anthropic needs nine events for that).  One conversation of three units
  has every pair of neighbours.
- `Transfers`: two transfers are a summary and a request of one agent, or one of
  each; sockets open and close any number of times, and none of the properties
  speaks of a particular one.
- `Auth`: two sign-ins are an earlier redirect and a later verifier; two grants a
  login and its replacement; three tokens one grant rotated twice.
- `App`: with two providers one fails after the other has answered, and the
  thread has a position between them; two keys in a read are a command and what
  was typed after it.
- `CHECK_DEADLOCK FALSE`: a destroyed agent, a scheduler whose agents have ended, a
  freed task, an exited process, a closed request and a program that has ended may
  stop, and the bounds stop the rest.

### Fairness

- `AgentLoop`: weak fairness of `Resume \/ Pass` (every host calls `agent_resume`
  until it is not busy); strong fairness of the end of a request (curl times out
  after 600 s, or 120 s of silence), of the retry timer, and of tools that were
  told to stop (next item).  Each is strong because the event may be disabled and
  enabled again while the host polls.  Nothing is assumed of a tool nobody stops,
  nor of the user.
- `Process`: the host waits, runs the callbacks and polls after every batch,
  timers expire, and whoever got SIGKILL dies.  `CommandEnds` is what the agent loop
  assumes of its tools, with the two exceptions it names: a process that left
  the group and keeps a pipe open, and an expiry taken by the stale wake watcher.
- `Scheduler`: the host pumps for ever, a scan goes on, and an agent that is
  advanced again and again ends (`CancelEndsTurn`, `ModelWaitEnds`).
- `Transfers`: the main loop goes round, and the time limit of a running transfer
  passes (strong: its action is enabled in one phase of the loop only).  Nothing
  is assumed of servers, sockets or agents.
- `App`: both threads run on, and what one read of the terminal holds is handled
  to its end (weak); a request ends (`EveryTransferEnds`) and a readable pipe is
  reported again and again (strong: the pump reports it in one phase, and a read
  of the terminal may come first).  Nothing is assumed of the user, who
  may leave a question open for ever, nor of the OAuth server.

### What `Quits` and `ModelWaitEnds` rest on

The liveness properties form a chain: `EveryTransferEnds` (HTTP) is what
`AgentLoop` assumes of a request, `CommandEnds` (processes) what it assumes of a
tool that was told to stop, and `CancelEndsTurn` what `App` and `Scheduler`
assume of an agent.

## 4. What is proved

TLAPS checks, for all values of the constants that satisfy the named assumptions:

| module | theorem | says |
|---|---|---|
| `AgentLoopProofs` | `CompactType`, `CompactKeepsUnits` | a compaction at the range `compaction_bounds` yields turns a conversation into one, and orphans no result |
| | `Invariance` | `Spec => []IInv` |
| | `TypeCorrect` | `[]TypeOK` |
| | `NeverOrphaned` | `[]Unorphaned` |
| | `InOrder` | `[]ResultsInOrder` |
| | `GrantsAreSpent` | `[]GrantIsSpent` |
| | `OnlyAuthorised` | `ExecutionAuthorised`, an action property |
| | `RequestInvariance` | `Spec => [](IInv /\ RequestInv)` |
| | `CallsStartOnce` | `[]StartedOnce` |
| | `RequestsAreSound` | `[]SoundRequests` |
| | `CompactAnswered` | a compaction leaves every call since the last user message answered |
| | `NothingDangles` | `[]OwnsNothing`: a turn that is over owns nothing, and what a destroyed agent can leave in flight |
| | `NoReplay` | `NoReplayAfterOutput`, an action property |
| | `CancelLeavesSummaries` | `CancelReachesRequest`, given `OneModel`: a cancelled `agent_resume` returns with nothing but a summary in flight |
| | `KeepsContract` | `ImplementsTurn`: the loop implements `AgentTurn` |
| `SchedulerProofs` | `InListOrder`, `CounterTracks`, `WithinLimit` | `[]Fifo`, `[]CountsBusy`, `[]OverrunBounded` |
| `SessionProofs` | `Inductive`, `TypeCorrect` | `[]SInv`, `[]TypeOK` |
| | `ReloadsTheConversation` | `[]LoadsWhatIsLive` |
| | `CrashesResume` | `[]LoadsWell`, given `MinKeep >= 2` |
| `StreamProofs` | `Inductive` | `Spec => []StreamInv` |
| | `OneEnd` | `[]EndsOnce` |
| | `BlamesOnlyGarbled` | `[]HonestError` |
| | `SaysTheConversation` | `[]BodyFaithful` |
| `TransfersProofs` | `OneEnd`, `NothingDangles` | `[]FinishedOnce`, `[]NoDangling` |
| | `CancelIsOwn` | `CancelsOwn`, an action property |
| `ProcessProofs` | `Inductive`, `TypeCorrect` | `[]ProcInv`, `[]TypeOK` |
| | `OutputIsComplete`, `GraceIsGiven`, `NobodyIsLeft` | `[]OutputComplete`, `[]GraceGiven`, `[]NothingLeft` |
| `AppProofs` | `NothingStale`, `QuestionOpen` | `[]NoStalePointer`, `[]Answerable` |
| | `NoProviderDropped` | `[]CacheKept`, given `Listed # {}` |
| `AuthProofs` | `Kept`, `OwnCode` | `[]LoginsKept`, `[]CodeMatches` |

Assumptions on the constants: `CallAssumption` (no tool is both gated and
parallel safe, as in `tool/`), `LoopAssumption` and `KeepAssumption` (bounds are
naturals, at least one message is kept), `SessionAssumption` (what the model may
ask for are lists of calls, a note has a positive length, bounds are naturals, a
write fails in one of the three ways), `SchedulerAssumption`,
`ModelsAssumption` (an agent is made with a model), `FilesAssumption` (`auth.json`
is at first a document, whose logins have their first refresh token),
`ProcessAssumption` (a cap and a pipe hold something), `ProvidersAssumption`
(the providers are a list) and `StreamAssumption` (the three protocols and the three
layouts of an event that are modelled; in the conversations of `Histories` only the
assistant calls, as `message.h:48` says).  The number of calls, models, requests, retries,
messages, lines of a session file, crashes, failed writes, agents, transfers,
sockets, providers, processes, grants, tokens, keys,
events of a stream, bytes of a read and chunks of output is arbitrary.

Three theorems have a hypothesis besides, because the code needs it:

- `OneModel` (`CancelLeavesSummaries`): after `/model` in the middle of a turn a
  cancel goes to the model that does not have the request (`loop.c:918`).
  Summaries need no hypothesis, they are an exception in the formula
  (`loop.c:915`).
- `Listed # {}`: a custom provider may have no model configured, and a discovery
  that cannot reach it then has nothing to keep for it.
- `MinKeep >= 2` (`COMPACT_MIN_KEEP` is 4).  With a kept tail of one message TLC finds
  a file with a lost line whose compaction range no longer fits what is rebuilt before
  it, which `session_load_messages` refuses: a crash costs two messages at most, and
  the kept tail has to cover them.

Agent loop.  The safety properties are not inductive: `Unorphaned` depends on
where the cursor is when results are appended, `ExecutionAuthorised` on which
call a grant is for.  `IInv` adds to the types: what state a turn may be in and
when a batch exists (`TurnInv`), that the conversation ends with the answer that
called and the results before the cursor (`CursorInv`), that whoever waits for
the user waits for the call at the cursor (`AskInv`), that a grant is for the
call at the cursor and acted on by the same `agent_resume` (`GrantInv`), and
that the pending compaction range still fits the conversation (`BoundsFit`):
nothing is appended between `start_request` and `finish_compaction`, which is
what makes the range computed before the wait safe to use after it.  The proof
takes the actions of `Next` one by one; `Frame` carries the types of variables a
step leaves alone, and `CompactKeepsUnits` is used where a compaction ends.

Requests of the agent loop.  `RequestInv` goes on from `IInv`.  A tool at work
belongs to the call at the cursor and a compaction to the wait for a model
(`OwnsInv`), so that leaving these states accounts for both.  There is one request
in flight at most (`Alone`): only a loop at rest sends (`Senders`).  What has
started is behind the cursor, at it with a task, or in the batch (`StartedInv`);
`StartedOnce` alone does not say why the next call to start is a new one.
A retry that waits shows nothing and has nothing in flight (`RetryInv`), which
must hold until its timer fires, however late.  A cancellation token that
outlives its turn is a cancelled turn's (`TokenInv`), `cancel_requested` with one
model means that the request is gone or is a summary (`CancelInv`), and an
answer has no more calls than a provider returns (`CallsInv`).  Most of the work is in
`AnsweredInv`: all calls since the last message of the user are answered while
the loop waits for a model or is ready, and those before the cursor's message
while tools run.  It survives a compaction (`CompactAnswered`), since a summary is
a message of the user, behind which the tail that is kept was answered already.

The refinement.  `AgentTurn` has no history in its variables, so each step of the
loop is shown to be one of its steps or to leave its variables alone, from
`IInv /\ RequestInv` in the state before: those that send (`Sends`), those that append results (`Records`), those that
end the turn (`Ends`) and those that touch none of its variables (`Stutters`).
`SendRequest` of `AgentTurn` demands that nothing is out and no call lacks its
result; that is where `Alone`, `OwnsInv` and the cursor are needed.  `waiting` is a live
agent with something in flight: a destroyed one waits for nothing, whatever
`LeftBehind` lets it leave.

Scheduler.  `Order` adds to `Fifo` that an agent is listed once and that
an entry this scan has passed over was passed over for want of a slot that has
not come free since (`Passed`), and `Slots` counts the agents in a turn by
cardinality lemmas.

Transfers.  `Inv` says that both tables hold the running transfers once each
(`Lists`; `SwapRemoveOnce` and `AppendOnce` are the lemmas about the lists), that
an id names one transfer and its agent (`Identified`), and that whoever waits is
owed a terminal event by a transfer in the table of its model (`Owed`).  The last
two are what makes a cancel find its transfer and no other; `Owed` also says that
with `request_done` set only a summary can be owed, which confines the exception
of `loop.c:1338`.

Session.  A load is a fold over the lines, and the theorems are about what happens to
it when a line is appended.  `FoldTableExists` unfolds such a fold for any step
function (see Streams); `LoadAppend` and `NotesAppend` follow: one more line is one more
step.  `SInv` takes types, memory limit and `LoadsWhatIsLive` together.  Its step for
a compaction rests on `SafePrefix`: the range that was cut back to whole tool units
before it was written is not changed when the load cuts it back again, so that the
replay replaces what the live process did.  `LoadsWell` holds of files that no longer
agree with anything: a line may be lost with the broken one before it, and a process
may then go on.  It is not inductive, and `FileInv` says what else is needed.  A file
without its last newline loads with its last line and without it, since the next
append takes that line along.  The conversation of a process is longer than what a
load gives by two messages at most, so that the ranges it records, which leave a tail of
`MinKeep`, fit.  And while tools run the load ends inside an open unit (`LastOpen`), so
that the next result is not orphaned by what was lost.  `WritingFits` is the same fact
for the line a process is writing when it dies.  The lemmas on compaction repeat those of
`AgentLoopProofs` for ranges that start at 0, since the two modules cannot extend one
another.

Streams.  `OneEnd` is about a parser and an accumulator that are folds, over the bytes
of a read and over the events these make.  The library's induction theorems cannot be
used here, but one fold at a time can be unfolded: the function on sets of positions
behind `FoldLeft` exists, since there is no least length without one
(`ParserTableExists`, `AccumTableExists`), so a fold passes through a value for each
position, each made from the one before by one step (`ParserRuns`, `AccumRuns`); what
the first one has and every step keeps, the last one has.  The steps are the handlers of the three
providers; each keeps `AccumInv`: an accumulator is over exactly when a terminal event
has gone out, and that is the last one.  `OpenaiClosedEnds` and its like say that a
clean end of the connection always leaves it over, and `EmitError` does for the
others; this is what the agent, which waits without a timeout of its own, relies on.

Blame.  `HonestError` is about bytes that are still on the wire: `write_cb` may
cut an event anywhere, so nothing about the parser between two reads says that
its next event will be a good one.  `BlameInv` therefore speaks of what the
parser will make of all the bytes not yet read (`CleanOf`): unless something
garbled or endless was said, it ends between two events and emits only events
that were said.  The server keeps it by adding the bytes of one event, which
give that event and leave the parser between two again (`BytesFed`, over the
three layouts `LineFed`, `ReturnFed` and `SplitFed`); a read keeps it since two
reads are one (`FeedConcat`) and the parser's future does not depend on what it
has emitted (`FeedBehind`).  So what a handler is given is an event of the
server, and the handlers blame none of those (`OpenaiHonest`, `AnthropicHonest`,
`ResponsesHonest`), except `responses.c` a call past the limit.  For that case
`Numbered` says that a call keeps its index.  At a clean end nothing is left over
for `sse_parser_finish` (`FinishClean`).

Request bodies.  `BodyFaithful` needs nothing of the state before: every body is built by
one step, so `SaysTheConversation` is about what the three serializers make of any
list of messages of any length, whether or not its calls have been answered.
`FlattenSeq` is a recursive function over positions and is unfolded like the
folds above (`FlatTableExists`, `FlatRuns`); concatenation and the choice of
calls and results go through it (`FlatConcat`, `BlocksFacts`, `TrafficFacts`), so that
for `openai` and `responses` it is enough to look at one message
(`PiecesTraffic`).  The messages of `anthropic` are merged, and their proof goes
along the conversation (`AnthropicRuns`).  `InTurn`, that roles alternate, is needed
to know that the first result after calls starts a message and a second one does not.
`CallsFollowed` says of each message with calls where the conversation has them,
that it is the last one until the first result comes, and that from then on the
next message holds the results given so far and nothing else until all have been.
Its steps are one lemma for each role (`SystemFollows` to `ToolFollows`); all but the
last rest on `NothingOwed`: in a conversation whose calls are answered, no other
message comes while a result is missing.

Processes.  `GraceGiven` depends on which `timerfd` expiry a `timer_cb` in the
batch answers: a cancel may re-arm the timer while an expiry is unread.  `Timed` says
that a watcher is in a batch once, and that when the termination has begun an
expiry that waits, in the descriptor or in the batch, is the grace period's, since
re-arming takes an older one back and poll and cancel happen between batches.
`Closed` says that a pipe the task has closed is empty and has no holder left,
for good, since only the shell starts another process; `NothingLeft` at the
end follows from it.  `Counted` says what the result has at every moment in terms of what was
written, what is in the pipes and what `on_wake` took; with empty pipes that is
`OutputComplete`.

App.  `~busy` is the right guard for replacing the catalog because no request is
out when the application is idle; that is `Paired`, without which
`ModelsAlive` is not inductive.  `Owned` follows the configuration of the
discovery from the main thread to the worker and back through `done` and the
byte in the pipe, and says who may free it.  `Collected` says that at each
position of the discovery thread every provider before it has its list in what
will be saved, so that `CacheKept` holds of the file when the thread is through.

Authentication.  `NotMislaid` is not inductive: what a rename drops was decided
when the file was read.  `Inv` says of every process between its read and its
rename that the entry it will save and the draft it will install agree with the
file on each token the server honours, unless somebody moved that grant since
(`Entered`, `Drafted`).  The steps go in four groups: those that leave file and
grants alone (`GoKeeps`), those in which the server issues a token, whose number
is above every other, so that agreement on the tokens it honours survives
(`IssueKeeps`), the unlinking of a file without names, and the rename, after which
the others know which grants it moved (`OthersAfterInstall`) and no token it
dropped was one it had to keep (`InstallHolds`).

Only model-checked: `Assembled` of `Stream`, and every liveness property.
`Assembled` compares what the agent's list of calls becomes, a fold over the output
of the accumulator, with the arguments of each call in all the server has said: its
invariant has to follow the grammar of each protocol through the parser, the
accumulator and the agent at once.
Fairness and ENABLED are beyond the proof system.

## 5. Not modelled

- Message texts, tool arguments and output, JSON, prompts, and everything that
  is drawn.  The tokens of a conversation are a nondeterministic "window runs
  short".
- Out of memory.  Failures of system calls are modelled where the code goes on
  after them (session writes, refused requests, failed starts, a full disk under
  `auth.json`).
- Authentication: the fallback file `oauth.json`, the legacy document that is one
  untyped login as a save finds it, `auth: chatgpt`, entries that only name an
  environment variable (a save of any other entry drops them), and signing
  out of other providers (`--logout` names openai-codex only).
- HTTP: `event_loop_add` failing in `socket_cb` (`http.c:231`), and a model
  switched while its request is out, which `AgentLoop` and `App` have.
- Session: the totals of a stats line, and two processes that draw the same id
  within a second (`session.c:79`, `rand()` is never seeded).
- Processes: the failures of `process_start`, and a background process that
  redirected its output and survives SIGTERM (`process.c:387`).
- Hosts: the option parser, `-p`, the REPL's loop (its way to answer is the host
  `"callback"` of `AgentLoop`), the descriptors of the discovery pipe being
  reused, and what the pickers show when an entry is skipped.
- Sub-agents (`tool/subagent.c`): a child is a tool task of any length for its
  parent; the deadline of a group and the merging of answers are left out.
- The other tools: what they do to files is one system call and formatting, but for
  edit, the plan file and the path policy.
- The TUI's editing, wrapping, scrolling and drawing; containers, JSON and logging,
  which unit tests reach; reports and project context, which are text.

## 6. What could come next

1. `Subagents`: children over `AgentTurn`, deadline, cancel, destroy.
2. `Tools`: preview and edit with a file that changes between them; the path policy
   with symbolic links; the plan file.
3. The hash map with tombstones and the diff, against a reference over bounded
   inputs.
4. Theorems: `Assembled` of one protocol; the types of `Scheduler`, `Stream` and `App`.
