---------------------------- MODULE MCAgentLoop ----------------------------
(* Small instances of AgentLoop. *)
EXTENDS AgentLoopTurn

Gated == [gated |-> TRUE, safe |-> FALSE, id |-> TRUE]
Safe  == [gated |-> FALSE, safe |-> TRUE, id |-> TRUE]
Plain == [gated |-> FALSE, safe |-> FALSE, id |-> TRUE]
NoId  == [gated |-> FALSE, safe |-> TRUE, id |-> FALSE]

SafeOnly    == {Safe}
GatedSafe   == {Gated, Safe}
GatedPlainNoId == {Gated, Plain, NoId}
=============================================================================
