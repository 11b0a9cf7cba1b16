------------------------------ MODULE MCAuth ------------------------------
(* Instances of Auth: what the two files hold at first. *)
EXTENDS Auth, TLC

Symmetry == Permutations(Procs)

Named(codex, other) == Doc("named", [Blank EXCEPT ![CODEX] = codex, ![KEYED] = other])

\* a login beside a key, or one key that names no provider
Files == {Named(Login(FirstLogin), Key), Whole("single", Key)}

SignedIn == {Named(Login(FirstLogin), NoEntry)}
=============================================================================
