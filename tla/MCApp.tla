------------------------------- MODULE MCApp -------------------------------
(* Instances of App: the selected provider and one that is named by a      *)
(* configured entry; an answer is empty, or replaces the configured name.  *)
EXTENDS App
CONSTANTS p, q, a, b
TwoProviders == << p, q >>
OneAnswer == {{}, {b}}
=============================================================================
