----------------------------- MODULE MCStream -----------------------------
(* Small instances of Stream: every conversation of up to three of the     *)
(* units the agent loop appends, the last of them possibly left unanswered *)
(* or with a call that got no id.                                          *)
EXTENDS Stream

Unit(k) ==
  LET user == Say("user", TRUE, << >>, 0) tool(i) == Say("tool", TRUE, << >>, i)
  IN { << user >>,
       << user, user >>,
       << Say("system", TRUE, << >>, 0), user >>,
       << Say("assistant", TRUE, << >>, 0) >>,
       << Say("assistant", FALSE, << >>, 0), user >>,
       << Say("assistant", FALSE, << k >>, 0), tool(k) >>,
       << Say("assistant", TRUE, << k, k + 1 >>, 0), tool(k), tool(k + 1) >> }

Broken == { << Say("assistant", FALSE, << 7 >>, 0) >>, << Say("assistant", FALSE, << 0, 7 >>, 0) >> }

SmallHistories ==
  {u \o v \o w : u \in Unit(1), v \in Unit(3), w \in Unit(5) \cup {<< >>} \cup Broken}

EventBound == [openai |-> 5, anthropic |-> 9, responses |-> 5]
===========================================================================
