------------------------------ MODULE Process ------------------------------
(***************************************************************************)
(* A child process under the event loop: runtime/process.c on top of       *)
(* runtime/event_loop.c, from process_start to process_task_free.          *)
(*                                                                         *)
(* The kernel's side is modelled from what the code relies on: the command *)
(* (a shell) and one process it may start in the background, inside or     *)
(* outside the process group, with or without the pipes, die of SIGKILL and*)
(* may ignore SIGTERM; a pipe ends when nobody holds its write end any     *)
(* more.  The host's side takes turns: epoll_wait returns a batch of ready *)
(* watchers, their callbacks run one by one, and only then does the agent  *)
(* poll, cancel or destroy the task.                                       *)
(*                                                                         *)
(* Every event_loop_new points the one static wake watcher at its own      *)
(* eventfd.  process_run and the discovery thread make and free such loops,*)
(* after which the wake event of the main loop calls on_wake on a number   *)
(* that is closed, or by then belongs to another descriptor: with nothing  *)
(* else opened in between, the next process_start gets it for its timer.   *)
(***************************************************************************)
EXTENDS Integers, Sequences, FiniteSets

CONSTANTS
  OtherLoops,  \* whether other event loops are made
  OutputCap,   \* output_cap, in chunks of output
  PipeSize,    \* chunks a pipe holds
  MaxWritten   \* bound on the chunks written to a stream

ASSUME ProcessAssumption ==
  /\ OtherLoops \in BOOLEAN
  /\ {OutputCap, PipeSize} \subseteq Nat \ {0} /\ MaxWritten \in Nat

Streams == {"out", "err"}   \* the pipes of its stdout and its stderr
Total(chunks) == chunks["out"] + chunks["err"]

VARIABLES
  shell,        \* the command: "none", "running", "zombie", "reaped"
  child,        \* a process it started: "none", "running", "gone"
  outside,      \* that process left the process group
  holds,        \* that process kept the pipes as its stdout and stderr
  sig,          \* the strongest signal the group got: "none", "term", "kill"
  written,      \* chunks written to each stream so far
  buffer,       \* chunks in each pipe
  task,         \* "none", "running", "done" (result taken), "freed"
  open,         \* task->out_open, task->err_open
  got,          \* task->result.out.len
  capped,       \* task->result.output_capped
  terminating,  \* task->terminating
  timedOut,     \* task->result.timed_out
  killSent,     \* task->kill_sent
  timer,        \* task->timer_fd: "off", "set", "due" (readable), "lost"
  grace,        \* history: the grace period: "none", "running", "over"
  wake,         \* the counter of the main loop's eventfd is not zero
  wakeFd,       \* what the static wake watcher's number stands for
  batch,        \* ready watchers whose callbacks have not run yet
  stolen        \* history: chunks read by on_wake

kernelVars == << shell, child, outside, holds, sig, written, buffer >>
taskVars   == << task, open, got, capped, terminating, timedOut, killSent >>
timerVars  == << timer, grace >>
loopVars   == << wake, wakeFd, batch, stolen >>
vars == << kernelVars, taskVars, timerVars, loopVars >>

Init ==
  /\ shell = "none" /\ child = "none" /\ outside = FALSE /\ holds = FALSE
  /\ sig = "none"
  /\ written = [s \in Streams |-> 0] /\ buffer = [s \in Streams |-> 0]
  /\ task = "none" /\ open = [s \in Streams |-> FALSE]
  /\ got = 0 /\ capped = FALSE
  /\ terminating = FALSE /\ timedOut = FALSE /\ killSent = FALSE
  /\ timer = "off" /\ grace = "none"
  /\ wake = FALSE /\ wakeFd = "main" /\ batch = << >> /\ stolen = 0

-----------------------------------------------------------------------------
(* The processes. *)

InGroup == shell = "running" \/ (child = "running" /\ ~outside)
Holders == shell = "running" \/ (child = "running" /\ holds)

\* A process that got SIGKILL runs no further.
ShellLives == shell = "running" /\ sig # "kill"
ChildLives == child = "running" /\ (sig # "kill" \/ outside)

Write(s) ==
  /\ ShellLives \/ (ChildLives /\ holds)
  /\ buffer[s] < PipeSize /\ written[s] < MaxWritten /\ open[s]
  /\ written' = [written EXCEPT ![s] = @ + 1]
  /\ buffer' = [buffer EXCEPT ![s] = @ + 1]
  /\ UNCHANGED << shell, child, outside, holds, sig, taskVars, timerVars, loopVars >>

\* A background process, with the pipes it inherits or its output redirected,
\* in the shell's process group or in one of its own.
Background ==
  /\ ShellLives /\ child = "none"
  /\ child' = "running" /\ outside' \in BOOLEAN /\ holds' \in BOOLEAN
  /\ UNCHANGED << shell, sig, written, buffer, taskVars, timerVars, loopVars >>

ShellExits ==
  /\ shell = "running"
  /\ shell' = "zombie"
  /\ UNCHANGED << child, outside, holds, sig, written, buffer, taskVars, timerVars, loopVars >>

ChildExits ==
  /\ child = "running"
  /\ child' = "gone"
  /\ UNCHANGED << shell, outside, holds, sig, written, buffer, taskVars, timerVars, loopVars >>

\* signal_process_group: who is in the group when it is sent, and nobody else.
Signal(s) == sig' = IF InGroup /\ sig # "kill" THEN s ELSE sig

-----------------------------------------------------------------------------
(* The task. *)

\* mutation: descendants do not count when the shell has been reaped
ShellOnly == task = "running" /\ shell # "reaped"

\* process_group_may_be_alive
MayBeAlive == task = "running" /\ (shell # "reaped" \/ \E s \in Streams : open[s])

\* mutation: the expiry that has not been read yet stays readable
Rewind == timer' = IF timer = "due" THEN "due" ELSE "set"

\* mutation: the grace period is not timed
NotArmed == timer' = "off"

\* timerfd_settime: a new time, and no expiry to read.
Rearm == timer' = "set"

\* begin_termination, when it does something.
BeginTermination(late) ==
  /\ terminating' = TRUE
  /\ timedOut' = (timedOut \/ late)
  /\ Signal("term")
  /\ Rearm /\ grace' = "running"

\* What drain_stream reads from some pipes, and which of them end.
Ended(ss) == {s \in ss : open[s] /\ ~Holders}
Drained(ss) == Total([s \in Streams |-> IF s \in ss /\ open[s] THEN buffer[s] ELSE 0])

\* append_capped
AppendCapped(n) ==
  /\ got' = IF got + n > OutputCap THEN OutputCap ELSE got + n
  /\ capped' = (capped \/ got + n > OutputCap)

Drain(ss) ==
  /\ AppendCapped(Drained(ss))
  /\ buffer' = [s \in Streams |-> IF s \in ss /\ open[s] THEN 0 ELSE buffer[s]]
  /\ open' = [s \in Streams |-> open[s] /\ s \notin Ended(ss)]

\* process_start.  The number of a freed loop's eventfd may be taken by any of
\* the descriptors it opens.
Start ==
  /\ task = "none" /\ batch = << >>
  /\ shell' = "running"
  /\ task' = "running" /\ open' = [s \in Streams |-> TRUE]
  /\ timer' \in {"off", "set"}
  /\ wake' = TRUE
  /\ wakeFd' \in IF wakeFd = "main" THEN {"main"} ELSE Streams \cup {"timer", "nothing"}
  /\ UNCHANGED << child, outside, holds, sig, written, buffer, got, capped, terminating, timedOut,
                  killSent, grace, batch, stolen >>

\* mutation: the result is given out as soon as the shell has exited
ShellDone(reaped, left) == reaped

\* process_poll is done when the shell is reaped and both pipes have ended.
Finished(reaped, left) == reaped /\ left = {}

Poll ==
  /\ task = "running" /\ batch = << >>
  /\ LET reaped == shell \in {"zombie", "reaped"}
         left   == {s \in Streams : open[s]} \ Ended(Streams)
     IN /\ reaped /\ shell' = "reaped"
        /\ Drain(Streams)
        /\ IF Finished(reaped, left)
             THEN task' = "done" /\ timer' = "off"
             ELSE UNCHANGED << task, timer >>
  /\ UNCHANGED << child, outside, holds, sig, written, terminating, timedOut, killSent, grace,
                  loopVars >>

\* process_cancel
Cancel ==
  /\ task = "running" /\ batch = << >>
  /\ IF MayBeAlive /\ ~terminating
       THEN BeginTermination(FALSE)
       ELSE UNCHANGED << terminating, timedOut, sig, timer, grace >>
  /\ wake' = TRUE
  /\ UNCHANGED << shell, child, outside, holds, written, buffer, task, open, got, capped, killSent,
                  wakeFd, batch, stolen >>

\* process_task_free: kill what may be left, then close, then wait for the
\* shell, which SIGKILL ends.
Free ==
  /\ task \in {"running", "done"} /\ batch = << >>
  /\ IF MayBeAlive THEN Signal("kill") ELSE UNCHANGED sig
  /\ shell' = "reaped"
  /\ task' = "freed" /\ open' = [s \in Streams |-> FALSE] /\ timer' = "off"
  /\ UNCHANGED << child, outside, holds, written, buffer, got, capped, terminating, timedOut, killSent,
                  grace, loopVars >>

-----------------------------------------------------------------------------
(* The event loop. *)

TimerExpires ==
  /\ timer = "set"
  /\ timer' = "due"
  /\ grace' = IF terminating THEN "over" ELSE grace
  /\ UNCHANGED << kernelVars, taskVars, loopVars >>

Ready ==
  (IF wake THEN {"wake"} ELSE {})
    \cup {s \in Streams : open[s] /\ (buffer[s] > 0 \/ ~Holders)}
    \cup (IF timer = "due" THEN {"timer"} ELSE {})

\* epoll_wait: every ready watcher once, in any order.
Wait ==
  /\ batch = << >> /\ Ready # {}
  /\ batch' \in {q \in [1 .. Cardinality(Ready) -> Ready] :
                   \A i, j \in DOMAIN q : q[i] = q[j] => i = j}
  /\ UNCHANGED << kernelVars, taskVars, timerVars, wake, wakeFd, stolen >>

Callback(watcher) == batch # << >> /\ Head(batch) = watcher /\ batch' = Tail(batch)

\* on_wake: reads whatever the static watcher's number stands for.
OnWake ==
  /\ Callback("wake")
  /\ wake' = (wakeFd # "main")
  /\ timer' = IF wakeFd = "timer" /\ timer = "due" THEN "lost" ELSE timer
  /\ LET taken == {s \in Streams : s = wakeFd /\ open[s]}
     IN /\ buffer' = [s \in Streams |-> IF s \in taken THEN 0 ELSE buffer[s]]
        /\ stolen' = stolen + Drained(taken)
  /\ UNCHANGED << shell, child, outside, holds, sig, written, taskVars, grace, wakeFd >>

\* pipe_cb
OnPipe(s) ==
  /\ Callback(s)
  /\ IF open[s] THEN Drain({s}) ELSE UNCHANGED << got, capped, buffer, open >>
  /\ UNCHANGED << shell, child, outside, holds, sig, written, task, terminating, timedOut, killSent,
                  timerVars, wake, wakeFd, stolen >>

\* timer_cb: the timeout begins the termination, the grace period's end kills.
OnTimer ==
  /\ Callback("timer")
  /\ \/ /\ ~terminating /\ MayBeAlive
        /\ BeginTermination(TRUE)
        /\ UNCHANGED killSent
     \/ /\ terminating /\ MayBeAlive /\ ~killSent
        /\ Signal("kill") /\ killSent' = TRUE /\ timer' = "off"
        /\ UNCHANGED << terminating, timedOut, grace >>
     \/ /\ ~MayBeAlive \/ (terminating /\ killSent)
        /\ timer' = IF timer = "due" THEN "off" ELSE timer
        /\ UNCHANGED << terminating, timedOut, killSent, sig, grace >>
  /\ UNCHANGED << shell, child, outside, holds, written, buffer, task, open, got, capped, wake, wakeFd,
                  stolen >>

\* Another event loop is made and freed again.
OtherLoop ==
  /\ OtherLoops /\ batch = << >>
  /\ wakeFd' = "nothing"
  /\ UNCHANGED << kernelVars, taskVars, timerVars, wake, batch, stolen >>

Kernel ==
  \/ \E s \in Streams : Write(s)
  \/ Background \/ ShellExits \/ ChildExits \/ TimerExpires

Host ==
  \/ Start \/ Poll \/ Cancel \/ Free \/ OtherLoop
  \/ Wait \/ OnWake \/ OnTimer \/ \E s \in Streams : OnPipe(s)

Next == Kernel \/ Host

Spec == Init /\ [][Next]_vars

\* The host pumps the loop and polls the task after every batch of callbacks,
\* timers expire, and what got SIGKILL dies.
Fairness ==
  /\ WF_vars(Wait) /\ WF_vars(OnWake) /\ WF_vars(OnTimer)
  /\ \A s \in Streams : WF_vars(OnPipe(s))
  /\ SF_vars(Poll) /\ WF_vars(TimerExpires)
  /\ WF_vars(ShellExits /\ sig = "kill")
  /\ WF_vars(ChildExits /\ sig = "kill" /\ ~outside)

FairSpec == Spec /\ Fairness

-----------------------------------------------------------------------------
(* Properties. *)

Chunks == 0 .. 2 * MaxWritten

\* Every variable has its type (struct ProcessTask, EventLoop).
TypeOK ==
  /\ shell \in {"none", "running", "zombie", "reaped"}
  /\ child \in {"none", "running", "gone"} /\ {outside, holds} \subseteq BOOLEAN
  /\ sig \in {"none", "term", "kill"}
  /\ written \in [Streams -> 0 .. MaxWritten] /\ buffer \in [Streams -> 0 .. PipeSize]
  /\ task \in {"none", "running", "done", "freed"} /\ open \in [Streams -> BOOLEAN]
  /\ got \in 0 .. OutputCap /\ {capped, terminating, timedOut, killSent} \subseteq BOOLEAN
  /\ timer \in {"off", "set", "due", "lost"} /\ grace \in {"none", "running", "over"}
  /\ wake \in BOOLEAN /\ wakeFd \in {"main", "nothing", "timer"} \cup Streams
  /\ batch \in Seq({"wake", "timer"} \cup Streams) /\ stolen \in Chunks

\* A result holds everything the command wrote before its pipes ended, up to
\* the cap, and says when it does not: neither the unread rest at the shell's
\* exit (process_poll) nor a background process's output is dropped.
OutputComplete ==
  task = "done" =>
    LET read == Total(written) - stolen
    IN /\ got = IF read > OutputCap THEN OutputCap ELSE read
       /\ capped = (read > OutputCap)

\* The group gets SIGKILL from timer_cb only when the whole grace period has
\* passed since SIGTERM, also when the cancel came after the timeout had
\* expired and before its expiry was read (begin_termination, timer_cb).
GraceGiven == killSent => grace = "over"

\* Whoever still holds the pipes in the group has got SIGKILL when the task is
\* gone, even if the shell was reaped long before, and the shell is always
\* reaped (process_poll, process_task_free).
NothingLeft ==
  task \in {"done", "freed"} =>
    /\ shell = "reaped"
    /\ (child = "running" /\ holds /\ ~outside) => sig = "kill"

\* Some process that keeps a pipe open is out of the signals' reach.
Escaped == child = "running" /\ holds /\ outside

\* A command that is told to stop (process_cancel, its timeout) comes to an
\* end even if it ignores SIGTERM, unless a process that escaped keeps a pipe
\* open or the stale wake watcher has read the timer.
StopEnds == terminating ~> (task # "running" \/ Escaped \/ timer = "lost")

\* So does one whose timeout runs (process_start, timer_cb).
TimeoutEnds == timer = "set" ~> (task # "running" \/ Escaped \/ timer = "lost")

\* Whatever was to end a command ends it.
CommandEnds == StopEnds /\ TimeoutEnds

\* Not kept once a second event loop has been made, which redirects the one
\* wake descriptor: a wakeup is consumed, on_wake drains the counter (event_loop.c:23).
WakeIsDrained == wake ~> ~wake
=============================================================================
