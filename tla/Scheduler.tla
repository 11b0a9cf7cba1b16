----------------------------- MODULE Scheduler -----------------------------
(***************************************************************************)
(* runtime/scheduler.c: agents queued with an input, started up to a       *)
(* limit and advanced one step each per pump.                              *)
(*                                                                         *)
(* A pump is one scan of the list; `at' is the entry it is at and 0        *)
(* outside a pump.  Of an agent only what the scheduler looks at is kept:  *)
(* whether it is ready, in a turn, or over.                                *)
(***************************************************************************)
EXTENDS Naturals, Sequences, FiniteSets

CONSTANTS
  Agent,
  MaxConcurrent     \* the argument of scheduler_new

ASSUME SchedulerAssumption == MaxConcurrent \in Nat

VARIABLES
  list,         \* s->agents
  running,      \* s->running
  phase,        \* each agent's state: "ready", "busy" (in a turn) or "ended"
  at,           \* the entry the pump is at, 0 when none is running
  failed        \* history: how many agents failed to start

vars == << list, running, phase, at, failed >>

\* scheduler_new: at least one agent may run.
Limit == IF MaxConcurrent > 0 THEN MaxConcurrent ELSE 1

Listed == {list[i] : i \in 1 .. Len(list)}

Init ==
  /\ list = << >> /\ running = 0 /\ at = 0 /\ failed = 0
  /\ phase = [a \in Agent |-> "ready"]

-----------------------------------------------------------------------------

\* scheduler_add, of an agent that has not run.
Add(a) ==
  /\ at = 0 /\ a \notin Listed /\ phase[a] = "ready"
  /\ list' = Append(list, a)
  /\ UNCHANGED << running, phase, at, failed >>

\* scheduler_pump begins its scan, and returns at its end.
Pump ==
  /\ at = 0 /\ at' = 1
  /\ UNCHANGED << list, running, phase, failed >>
Return ==
  /\ at > Len(list) /\ at' = 0
  /\ UNCHANGED << list, running, phase, failed >>

Visit(p) == at \in 1 .. Len(list) /\ phase[list[at]] = p /\ at' = at + 1

\* A terminal result of agent_resume gives a slot back.
KeepSlot(n) == n                            \* mutation: it does not
GiveBack(n) == IF n > 0 THEN n - 1 ELSE n

\* agent_resume, for an agent in a turn: it stays busy or the turn is over.
Resumed(n) ==
  \/ /\ phase' = [phase EXCEPT ![list[at]] = "busy"] /\ running' = n
  \/ /\ phase' = [phase EXCEPT ![list[at]] = "ended"] /\ running' = GiveBack(n)

Skip ==
  /\ at' = at + 1 /\ at \in 1 .. Len(list)
  /\ UNCHANGED << list, running, phase, failed >>

\* A terminal agent, or a ready one that has to wait for a slot.
SkipEnded == Visit("ended") /\ Skip
SkipQueued == Visit("ready") /\ running >= Limit /\ Skip

FreeSlot == running < Limit
SlotOrLast == running < Limit \/ at = Len(list)   \* mutation: the last entry jumps the limit
HasSlot == FreeSlot

\* agent_start succeeds, and the agent is resumed in the same visit.
StartAgent ==
  /\ Visit("ready") /\ HasSlot
  /\ Resumed(running + 1)
  /\ UNCHANGED << list, failed >>

\* agent_start fails, its first request refused or the agent cancelled while
\* it was queued: the agent is terminal without having taken a slot, and
\* resuming it gives one back.
StartFails ==
  /\ Visit("ready") /\ HasSlot
  /\ phase' = [phase EXCEPT ![list[at]] = "ended"]
  /\ running' = GiveBack(running) /\ failed' = failed + 1
  /\ UNCHANGED list

\* An agent in a turn advances one step.
Advance ==
  /\ Visit("busy") /\ Resumed(running)
  /\ UNCHANGED << list, failed >>

Next ==
  \/ \E a \in Agent : Add(a)
  \/ Pump \/ Return
  \/ SkipEnded \/ SkipQueued \/ StartAgent \/ StartFails \/ Advance

Spec == Init /\ [][Next]_vars

\* runtime_pump calls the scheduler for ever, and the turn of an agent that is
\* resumed again and again ends.
Ends(a) == Advance /\ list[at] = a /\ phase'[a] = "ended"
Fairness ==
  /\ WF_vars(Pump) /\ WF_vars(Return)
  /\ WF_vars(SkipEnded \/ SkipQueued \/ StartAgent \/ StartFails \/ Advance)
  /\ \A a \in Agent : SF_vars(Ends(a))
FairSpec == Spec /\ Fairness

-----------------------------------------------------------------------------

TypeOK ==
  /\ list \in Seq(Agent) /\ running \in Nat /\ at \in Nat /\ failed \in Nat
  /\ phase \in [Agent -> {"ready", "busy", "ended"}]

Busy == {a \in Agent : phase[a] = "busy"}

\* Not kept once a start has failed: "Runs at most max_concurrent agents at
\* once" (scheduler.h:4).
AtMostLimit == Cardinality(Busy) <= Limit

\* What the code does keep: each failed start lets at most one agent too many
\* run, so the limit holds exactly until the first of them.
OverrunBounded == Cardinality(Busy) <= Limit + failed

\* The counter that admission tests is the number of agents in a turn, short
\* of it by one at most for each failed start.
CountsBusy == running <= Cardinality(Busy) /\ Cardinality(Busy) <= running + failed

\* Slots are given in the order of the list: no agent is started, or gives up,
\* while one listed before it still waits, although slots come free in the
\* middle of a scan.
Fifo ==
  \A i, j \in 1 .. Len(list) : i < j /\ phase[list[j]] # "ready" => phase[list[i]] # "ready"

\* No queued agent starves: each gets a slot and ends.
EveryAgentEnds == \A a \in Agent : a \in Listed ~> phase[a] = "ended"
=============================================================================
