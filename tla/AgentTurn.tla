----------------------------- MODULE AgentTurn -----------------------------
(***************************************************************************)
(* What a host may rely on while it drives one agent: the contract of      *)
(* agent_start, agent_resume and cancel, without requests ids, retries,    *)
(* compaction or batches.                                                  *)
(*                                                                         *)
(* A turn alternates between the model and the tools.  It goes back to the *)
(* model only when no call of the last answer lacks its result, has at     *)
(* most one request out, and is over only when that request is.  A turn    *)
(* that is being stopped starts nothing: it can lose its request and end.  *)
(***************************************************************************)
EXTENDS Naturals

CONSTANT MaxCalls   \* bound: calls in one answer

VARIABLES
  phase,      \* what the turn is doing
  waiting,    \* a model request is out
  owed,       \* calls of the last answer that have no result yet
  stopping    \* the turn has been asked to stop

vars == << phase, waiting, owed, stopping >>

Phases == {"idle", "thinking", "acting", "asking"}

TypeOK ==
  /\ phase \in Phases /\ waiting \in BOOLEAN
  /\ owed \in 0 .. MaxCalls /\ stopping \in BOOLEAN

Init == phase = "idle" /\ waiting = FALSE /\ owed = 0 /\ stopping = FALSE

Begin ==
  /\ phase = "idle"
  /\ phase' = "thinking" /\ stopping' = FALSE
  /\ UNCHANGED << waiting, owed >>

SendRequest ==
  /\ ~stopping /\ ~waiting
  /\ phase = "thinking" \/ (phase = "acting" /\ owed = 0)
  /\ phase' = "thinking" /\ waiting' = TRUE
  /\ UNCHANGED << owed, stopping >>

\* The request failed before it was out, or is about to be sent again.
Rethink ==
  /\ ~stopping /\ ~waiting /\ phase = "acting" /\ owed = 0
  /\ phase' = "thinking" /\ UNCHANGED << waiting, owed, stopping >>

RequestEnds ==
  /\ waiting /\ waiting' = FALSE
  /\ UNCHANGED << phase, owed, stopping >>

CallTools ==
  /\ ~stopping /\ ~waiting /\ phase = "thinking"
  /\ phase' = "acting" /\ owed' \in 1 .. MaxCalls
  /\ UNCHANGED << waiting, stopping >>

\* Results of one call, or of a whole batch.
Results ==
  /\ ~stopping /\ phase \in {"acting", "asking"} /\ owed > 0
  /\ phase' = "acting" /\ owed' \in 0 .. owed - 1
  /\ UNCHANGED << waiting, stopping >>

AskUser ==
  /\ ~stopping /\ phase = "acting" /\ owed > 0
  /\ phase' = "asking" /\ UNCHANGED << waiting, owed, stopping >>

UserAgrees ==
  /\ ~stopping /\ phase = "asking"
  /\ phase' = "acting" /\ UNCHANGED << waiting, owed, stopping >>

Stop ==
  /\ phase # "idle" /\ stopping' = TRUE
  /\ UNCHANGED << phase, waiting, owed >>

\* Done, failed, stopped or destroyed.
End ==
  /\ phase # "idle"
  /\ phase' = "idle" /\ waiting' = FALSE /\ owed' = 0
  /\ UNCHANGED stopping

Next ==
  \/ Begin \/ SendRequest \/ Rethink \/ RequestEnds \/ CallTools \/ Results
  \/ AskUser \/ UserAgrees \/ Stop \/ End

Spec == Init /\ [][Next]_vars
=============================================================================
