--------------------------- MODULE AgentLoopTurn ---------------------------
(* The loop of agent/loop.c implements the contract of AgentTurn. *)
EXTENDS AgentLoop

Busy  == alive /\ inTurn
Phase == CASE ~Busy -> "idle"
           [] Busy /\ state = "wait_tool" -> "acting"
           [] Busy /\ state = "wait_user" -> "asking"
           [] OTHER -> "thinking"
Owed  == IF Phase \in {"acting", "asking"} THEN Len(ToolCalls) + 1 - toolIndex ELSE 0

\* A destroyed agent waits for nothing, whatever it leaves in flight.
Waiting == alive /\ flight # {}

Turn == INSTANCE AgentTurn
          WITH phase <- Phase, waiting <- Waiting, owed <- Owed, stopping <- cancelled

\* Every step of the loop is a step of the contract: a turn has one request
\* out at most, sends none while a call lacks its result, starts nothing once
\* it is asked to stop, and is over only when it waits for nothing.
ImplementsTurn == Turn!Spec
=============================================================================
