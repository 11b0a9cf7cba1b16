----------------------------- MODULE MCSession -----------------------------
(* Small instances of Session. *)
EXTENDS Session

\* No call, or one of the positions a result can have in a unit.
SomeCalls == {<< >>} \cup {[i \in 1 .. n |-> c] : n \in 1 .. 2, c \in Call}
=============================================================================
