----------------------------- MODULE AppProofs -----------------------------
(***************************************************************************)
(* What holds of the TUI application for any providers, any answers and    *)
(* any number of keys in a read: nothing that was freed is used, and an    *)
(* agent that waits for a decision can be given one.                       *)
(***************************************************************************)
EXTENDS App, TLAPS

(* The records keep their fields, the request is one or none. *)
Shaped ==
  /\ DOMAIN agent = {"turn", "cancel", "told", "trusted", "model"}
  /\ DOMAIN app = {"busy", "pending", "step", "picker", "offers", "quitting", "quit"}
  /\ request = << >> \/ \E r : request = << r >> /\ DOMAIN r = {"model", "done"}
  /\ mode \in {"prompt", "choice", "report"}

(* The application is busy for as long as the agent is in a turn, and only *)
(* a turn has a request: this is what makes ~busy the right guard of the   *)
(* catalog's replacement.                                                  *)
Paired ==
  /\ app.busy \in BOOLEAN
  /\ app.busy <=> agent.turn # "off"
  /\ request # << >> => agent.turn = "model"

TurnInv ==
  /\ Shaped /\ Paired /\ Answerable /\ ModelsAlive
  /\ phase = "resume" => app.busy

(* What a callback keeps that runs while the loop is in its pump. *)
Kept ==
  /\ Shaped' /\ Paired' /\ Answerable' /\ Live(agent'.model)
  /\ UNCHANGED << request, gen, catalog, disc >>

\* runtime_model_by_name returns an object that has not been destroyed.
LEMMA NamedIsAlive ==
  ASSUME NEW sel, NEW m \in ByName(sel, gen, catalog)
  PROVE  Live(m)
BY DEF ByName, Live, Default

\* A decision ends the wait and nothing else about the agent.
LEMMA DecideKeeps ==
  ASSUME NEW a, DOMAIN a = {"turn", "cancel", "told", "trusted", "model"}
  PROVE  /\ DOMAIN Decide(a) = DOMAIN a
         /\ Decide(a).turn = IF a.turn = "asking" THEN "decided" ELSE a.turn
         /\ Decide(a).model = a.model
BY DEF Decide

\* Every callback of the terminal keeps the pairing of application, turn and
\* request (main.c: app_submit, app_cancel, app_escape, app_choice_cancel).
LEMMA KeyKeeps ==
  ASSUME TurnInv, phase = "pump", NEW key \in Keys, Key(key)
  PROVE  Kept
<1> USE DEF Kept, Shaped, Paired, Answerable
<1> Live(agent.model)
  BY DEF TurnInv, ModelsAlive, InLoop
<1> TurnInv /\ Shaped /\ Paired /\ Answerable
  BY DEF TurnInv
<1>1. ASSUME UNCHANGED << app, agent, request, gen, catalog, disc >>,
             mode' \in {"prompt", "choice", "report"}
      PROVE  Kept
  BY <1>1
<1>2. ASSUME NEW line, Answer(line), app.pending PROVE Kept
  <2> DEFINE heard == [agent EXCEPT !.trusted = @ \/ line = "trust on"]
  <2>1. /\ DOMAIN heard = DOMAIN agent /\ heard.turn = agent.turn /\ heard.model = agent.model
    OBVIOUS
  <2>2. CASE line = "trust off"
    BY <1>2, <2>2 DEF Answer, Undecided, host
  <2>3. CASE line \notin {"approve", "reject", "trust on", "trust off"}
    BY <1>2, <2>3 DEF Answer, Undecided, host
  <2>4. CASE line \in {"approve", "reject", "trust on"}
    <3>1. /\ app' = [app EXCEPT !.pending = FALSE] /\ agent' = Decide(heard)
          /\ UNCHANGED << mode, request, host >>
      BY <1>2, <2>4 DEF Answer
    <3>2. /\ DOMAIN agent' = DOMAIN agent /\ agent'.model = agent.model
          /\ agent'.turn = IF agent.turn = "asking" THEN "decided" ELSE agent.turn
      BY <2>1, <3>1, DecideKeeps
    <3> QED BY <3>1, <3>2 DEF host
  <2> QED BY <2>2, <2>3, <2>4
<1>3. ASSUME NEW sels, Switch(sels), UNCHANGED << request, gen, catalog, disc >>,
             mode' \in {"prompt", "choice", "report"},
             DOMAIN app' = DOMAIN app, app'.busy = app.busy, app'.pending = app.pending
      PROVE  Kept
  <2>1. PICK m : agent' = [agent EXCEPT !.model = m] /\ Live(m)
    BY <1>3, NamedIsAlive DEF Switch
  <2> QED BY <1>3, <2>1
<1>4. ASSUME Pick PROVE Kept
  <2>1. /\ mode' = "prompt" /\ UNCHANGED << request, gen, catalog, disc >>
        /\ DOMAIN app' = DOMAIN app /\ app'.busy = app.busy /\ app'.pending = app.pending
    BY <1>4 DEF Pick, host
  <2>2. CASE UNCHANGED agent
    BY <2>1, <2>2
  <2>3. CASE Switch(app.offers)
    BY <1>3, <2>1, <2>3
  <2> QED BY <1>4, <2>2, <2>3 DEF Pick
<1>5. ASSUME Leave PROVE Kept
  BY <1>5 DEF Leave, InTurn, CancelTurn, host
<1>6. ASSUME LoginInput PROVE Kept
  BY <1>6 DEF LoginInput, LoginReset, Unchosen
<1>7. ASSUME NEW line, Command(line) PROVE Kept
  <2>1. UNCHANGED << request, gen, catalog, disc >>
    BY <1>7 DEF Command, host
  <2>2. CASE line = "model x"
    <3>1. CASE Switch(Offers) /\ UNCHANGED << app, mode >>
      BY <1>3, <2>1, <3>1
    <3> QED BY <1>7, <2>2, <3>1 DEF Command
  <2>3. CASE line # "model x"
    BY <1>7, <2>1, <2>3 DEF Command
  <2> QED BY <2>2, <2>3
<1>8. ASSUME StartTurn PROVE Kept
  BY <1>8 DEF StartTurn, InTurn, host
<1>9. ASSUME NEW line, Submit(line) PROVE Kept
  BY <1>2, <1>4, <1>5, <1>6, <1>7, <1>8, <1>9 DEF Submit
<1>10. ASSUME Cancel PROVE Kept
  <2>1. CASE oauth # "none" \/ app.step # "none"
    BY <1>10, <2>1 DEF Cancel, LoginReset, Unchosen
  <2>2. CASE ~(oauth # "none" \/ app.step # "none")
    <3> DEFINE told == IF app.pending THEN Decide(agent) ELSE agent
    <3>1. /\ app' = [app EXCEPT !.pending = FALSE, !.quit = @ \/ ~InTurn]
          /\ agent' = [told EXCEPT !.cancel = @ \/ InTurn]
          /\ UNCHANGED << mode, request, host >>
      BY <1>10, <2>2 DEF Cancel
    <3>2. /\ DOMAIN told = DOMAIN agent /\ told.model = agent.model
          /\ told.turn = IF agent.turn = "asking" THEN "decided" ELSE agent.turn
      BY DecideKeeps
    <3> HIDE DEF told
    <3> QED BY <3>1, <3>2 DEF host
  <2> QED BY <2>1, <2>2
<1>11. ASSUME Escape PROVE Kept
  <2>1. CASE oauth # "none" \/ app.step # "none"
    BY <1>10, <1>11, <2>1 DEF Escape
  <2>2. CASE ~(oauth # "none" \/ app.step # "none")
    <3>1. /\ app' = [app EXCEPT !.pending = FALSE]
          /\ agent' = IF app.pending THEN Decide(agent)
                      ELSE [agent EXCEPT !.cancel = @ \/ InTurn]
          /\ UNCHANGED << mode, request, host >>
      BY <1>11, <2>2 DEF Escape
    <3>2. /\ DOMAIN agent' = DOMAIN agent /\ agent'.model = agent.model
          /\ agent'.turn = IF agent.turn = "asking" THEN "decided" ELSE agent.turn
      BY <3>1, DecideKeeps
    <3> QED BY <3>1, <3>2 DEF host
  <2> QED BY <2>1, <2>2
<1>12. ASSUME NEW line, Enter(line) PROVE Kept
  BY <1>1, <1>9, <1>12 DEF Enter, host
<1>13. CASE mode = "report"
  BY <1>1, <1>13 DEF Key, ReportCancel, host
<1>14. CASE mode = "choice" /\ key \notin Lines
  BY <1>14 DEF Key, ChoiceCancel, LoginReset, host
<1>15. CASE mode # "report" /\ key \in Lines
  BY <1>12, <1>15 DEF Key, Lines
<1>16. CASE mode = "prompt" /\ key \notin Lines
  BY <1>9, <1>10, <1>11, <1>16 DEF Key, Keys, Lines
<1> QED BY <1>13, <1>14, <1>15, <1>16

\* The turn and its request go together from the start.
LEMMA TurnInit == Init => TurnInv
BY DEF Init, TurnInv, Shaped, Paired, Answerable, ModelsAlive, Live, Default, InLoop

\* Every action keeps turn, question, request and the models they refer to.
\* The catalog is replaced only while no turn runs, so no request is out, and
\* the agent is bound to the new objects in the same step (main.c:415-430).
LEMMA TurnStep == TurnInv /\ [Next]_vars => TurnInv'
<1> SUFFICES ASSUME TurnInv, [Next]_vars PROVE TurnInv'
  OBVIOUS
<1> USE DEF TurnInv
<1>1. ASSUME Kept, phase = "pump", UNCHANGED phase PROVE TurnInv'
  <2>1. (\A k \in DOMAIN request : Live(request[k].model))'
    BY <1>1 DEF Kept, ModelsAlive, InLoop, Live
  <2>2. Live(agent.model)'
    BY <1>1 DEF Kept, Live
  <2> QED BY <1>1, <2>1, <2>2 DEF Kept, ModelsAlive
<1>2. ASSUME Typed \/ TypedOn PROVE TurnInv'
  BY <1>1, <1>2, KeyKeeps DEF Typed, TypedOn
<1>3. ASSUME Closed PROVE TurnInv'
  BY <1>3 DEF Closed, Leave, InTurn, CancelTurn, host, Shaped, Paired, Answerable,
              ModelsAlive, Live, InLoop
<1>4. ASSUME OauthEnds \/ OauthDone \/ EndPump PROVE TurnInv'
  BY <1>4 DEF OauthEnds, OauthDone, EndPump, LoginReset, Unchosen, Quiet, host, Shaped, Paired,
              Answerable, ModelsAlive, Live, InLoop
<1>5. ASSUME Worker PROVE TurnInv'
  BY <1>5 DEF Worker, Shaped, Paired, Answerable, ModelsAlive, Live, InLoop
<1>6. ASSUME Apply, UNCHANGED << mode, request, app >> PROVE
        /\ DOMAIN agent' = DOMAIN agent /\ agent'.turn = agent.turn
        /\ Live(agent.model) => Live(agent.model)'
  <2>1. CASE disc.bare
    BY <1>6, <2>1 DEF Apply, Live
  <2>2. CASE ~disc.bare
    <3>1. /\ gen' = gen + 1 /\ catalog' = Selectors(disc.found)
          /\ agent' = [agent EXCEPT !.model = Rebound]
      BY <1>6, <2>2 DEF Apply
    <3>2. Rebound.gen = 0 \/ (Rebound.gen = gen' /\ Rebound.sel \in catalog')
      <4> DEFINE named == ByName(agent.model.sel, gen + 1, Selectors(disc.found))
      <4>1. \A m \in named : m.gen = 0 \/ (m.gen = gen + 1 /\ m.sel \in Selectors(disc.found))
        BY DEF ByName, Default
      <4>2. Rebound \in named \cup {Default}
        BY DEF Rebound
      <4>3. Default.gen = 0
        BY DEF Default
      <4> HIDE DEF named
      <4> QED BY <3>1, <4>1, <4>2, <4>3
    <3>3. agent'.model = Rebound /\ DOMAIN agent' = DOMAIN agent /\ agent'.turn = agent.turn
      BY <3>1 DEF Shaped
    <3> QED BY <3>2, <3>3 DEF Live
  <2> QED BY <2>1, <2>2
<1>7. ASSUME Discovered PROVE TurnInv'
  <2>1. /\ ~(phase = "resume") /\ UNCHANGED << phase, mode, request, app >>
    BY <1>7 DEF Discovered, Quiet
  <2>2. CASE ~app.busy
    <3>1. Apply
      BY <1>7, <2>2 DEF Discovered, TurnOver
    <3>2. request = << >>
      BY <2>2 DEF Paired
    <3> QED BY <1>6, <2>1, <3>1, <3>2 DEF Shaped, Paired, Answerable, ModelsAlive, InLoop
  <2>3. CASE app.busy
    BY <1>7, <2>1, <2>3 DEF Discovered, TurnOver, PutOff, Shaped, Paired, Answerable, ModelsAlive,
                            Live, InLoop
  <2> QED BY <2>2, <2>3
<1>8. ASSUME ModelDone PROVE TurnInv'
  BY <1>8 DEF ModelDone, host, Shaped, Paired, Answerable, ModelsAlive, Live, InLoop
<1>9. ASSUME Resume PROVE TurnInv'
  <2> USE DEF Shaped, Paired, Answerable
  <2>1. /\ phase = "resume" /\ phase' = "signal" /\ app.busy /\ Live(agent.model)
        /\ UNCHANGED << mode, gen, catalog >>
    BY <1>9 DEF Resume, host, ModelsAlive, InLoop
  <2>2. CASE /\ agent' \in {agent, [agent EXCEPT !.told = TRUE]}
             /\ UNCHANGED << app, request >>
    BY <2>1, <2>2 DEF ModelsAlive, Live, InLoop
  <2>3. CASE Over
    BY <2>1, <2>3 DEF Over, QuitNow, ModelsAlive, Live, InLoop
  <2>4. CASE Ask
    <3>1. /\ DOMAIN agent' = DOMAIN agent /\ agent'.turn = "asking" /\ agent'.model = agent.model
          /\ DOMAIN app' = DOMAIN app /\ app'.busy = app.busy /\ app'.pending = TRUE
          /\ request' = << >>
      BY <2>4 DEF Ask
    <3> QED BY <2>1, <3>1 DEF ModelsAlive, Live, InLoop
  <2>5. CASE Send
    <3> DEFINE sent == [model |-> agent.model, done |-> FALSE]
    <3>1. /\ DOMAIN agent' = DOMAIN agent /\ agent'.turn = "model" /\ agent'.model = agent.model
          /\ UNCHANGED app /\ request' = << sent >>
      BY <2>5 DEF Send
    <3>2. DOMAIN sent = {"model", "done"} /\ sent.model = agent.model
      OBVIOUS
    <3> HIDE DEF sent
    <3>3. \A k \in DOMAIN request' : request'[k] = sent
      BY <3>1
    <3>4. Live(agent.model)' /\ (\A k \in DOMAIN request : Live(request[k].model))'
      BY <2>1, <3>1, <3>2, <3>3 DEF Live
    <3> QED BY <2>1, <3>1, <3>2, <3>4 DEF ModelsAlive
  <2> QED BY <1>9, <2>2, <2>3, <2>4, <2>5 DEF Resume, Waits
<1>10. ASSUME Signal PROVE TurnInv'
  BY <1>10 DEF Signal, EndRound, InTurn, CancelTurn, host, Shaped, Paired, Answerable,
               ModelsAlive, Live, InLoop
<1>11. ASSUME LeaveTui \/ Finish \/ Close \/ FreeDisc PROVE TurnInv'
  BY <1>11 DEF LeaveTui, Finish, Close, FreeDisc, host, Shaped, Paired, Answerable,
               ModelsAlive, InLoop
<1>12. ASSUME FinishApply PROVE TurnInv'
  BY <1>6, <1>12 DEF FinishApply, Shaped, Paired, Answerable, ModelsAlive, InLoop
<1>13. CASE UNCHANGED vars
  BY <1>13 DEF vars, Shaped, Paired, Answerable, ModelsAlive, Live, InLoop
<1> QED BY <1>2, <1>3, <1>4, <1>5, <1>7, <1>8, <1>9, <1>10, <1>11, <1>12, <1>13 DEF Next, MainLoop

(* Who owns the memory of the discovery: the worker until its byte, the    *)
(* main thread from the byte on.                                           *)
Owned ==
  /\ disc.pc # "ended" => disc.held /\ disc.cfg = "held" /\ ~disc.byte /\ ~disc.reported
  /\ disc.byte => disc.cfg = "held"
  /\ disc.cfg \in {"held", "freed"}
  /\ DOMAIN disc = {"pc", "next", "found", "bare", "cancel", "done", "reported",
                    "byte", "open", "cfg", "held"}

\* At first the worker owns it.
LEMMA OwnedInit == Init => Owned
BY DEF Init, Owned

\* The hand-over of memory between the two threads is kept by every action.
LEMMA OwnedStep == TurnInv /\ Owned /\ [Next]_vars => Owned'
<1> SUFFICES ASSUME TurnInv, Owned, [Next]_vars PROVE Owned'
  OBVIOUS
<1> USE DEF Owned
<1>1. ASSUME UNCHANGED disc PROVE Owned'
  BY <1>1
<1>2. ASSUME Typed \/ TypedOn PROVE Owned'
  BY <1>1, <1>2, KeyKeeps DEF Typed, TypedOn, Kept
<1>3. ASSUME Closed \/ OauthEnds \/ OauthDone \/ ModelDone \/ EndPump \/ Resume \/ Signal \/ Finish
      PROVE  Owned'
  BY <1>1, <1>3 DEF Closed, Leave, OauthEnds, OauthDone, ModelDone, EndPump, Resume, Signal,
                    Finish, host
<1>4. ASSUME Worker PROVE Owned'
  <2>1. CASE Answered
    BY <2>1 DEF Answered, Probe
  <2>2. CASE Failed \/ Save \/ SetDone
    BY <2>2 DEF Failed, Save, SetDone
  <2>3. CASE Write
    BY <2>3 DEF Write, Free
  <2> QED BY <1>4, <2>1, <2>2, <2>3 DEF Worker
<1>5. ASSUME Apply PROVE Owned'
  BY <1>5 DEF Apply, ByteThere, Free
<1>6. ASSUME Discovered \/ FinishApply PROVE Owned'
  BY <1>1, <1>5, <1>6 DEF Discovered, PutOff, FinishApply
<1>7. ASSUME LeaveTui \/ Close \/ FreeDisc PROVE Owned'
  BY <1>7 DEF LeaveTui, Close, FreeDisc
<1>8. CASE UNCHANGED vars
  BY <1>1, <1>8 DEF vars
<1> QED BY <1>2, <1>3, <1>4, <1>6, <1>7, <1>8 DEF Next, MainLoop

\* The two invariants together, of every behaviour of the application.
THEOREM Inductive == Spec => [](TurnInv /\ Owned)
<1>1. Init => TurnInv /\ Owned
  BY TurnInit, OwnedInit
<1>2. TurnInv /\ Owned /\ [Next]_vars => (TurnInv /\ Owned)'
  BY TurnStep, OwnedStep
<1> QED BY <1>1, <1>2, PTL DEF Spec

\* No model object of an old catalog is used while the main loop runs, and the
\* discovery thread never touches what the main thread has freed, nor is its
\* configuration freed twice (main.c:364-478, runtime.c:1996).
THEOREM NothingStale == Spec => []NoStalePointer
<1>1. TurnInv /\ Owned => NoStalePointer
  BY DEF TurnInv, Owned, NoStalePointer, DiscoverySafe
<1> QED BY <1>1, Inductive, PTL

\* An agent that waits for the user is one whose question is still open.
THEOREM QuestionOpen == Spec => []Answerable
<1>1. TurnInv => Answerable
  BY DEF TurnInv
<1> QED BY <1>1, Inductive, PTL
-----------------------------------------------------------------------------
(* What is saved.  Before it saves, the worker has a list for every        *)
(* provider it has come past, asked or kept; it stops early only when the  *)
(* main thread is leaving.                                                 *)
Collected ==
  /\ disc.next \in Nat \ {0} /\ DOMAIN disc.found = Sources
  /\ disc.pc = "probe" =>
       \A k \in 1 .. Len(Providers) : k < disc.next => disc.found[Providers[k]] # {}
  /\ disc.cancel \in BOOLEAN
  /\ CacheKept

\* At first nobody has been asked, and the cache lists what is configured.
LEMMA CollectedInit ==
  ASSUME Listed # {}, Init
  PROVE  Collected
<1>1. \A p \in Sources : cache[p] # {}
  BY DEF Init, Static
<1> QED
  BY <1>1 DEF Init, Collected, CacheKept

\* A provider that is passed has a list.
LEMMA Passed ==
  ASSUME Owned, Collected, NEW list, list # {},
         disc.pc = "probe", disc.next <= Len(Providers), cache' = cache,
         NEW bare,
         disc' = [disc EXCEPT !.next = @ + 1, !.found[Providers[disc.next]] = list, !.bare = bare]
  PROVE  Collected'
<1> DEFINE p == Providers[disc.next]
<1>1. /\ disc'.next = disc.next + 1 /\ disc'.pc = disc.pc /\ disc'.cancel = disc.cancel
      /\ disc'.found = [disc.found EXCEPT ![p] = list]
  BY DEF Owned
<1>2. p \in Sources
  BY ProvidersAssumption DEF Collected
<1>3. /\ DOMAIN disc'.found = Sources /\ disc'.found[p] = list
      /\ \A q \in Sources : q # p => disc'.found[q] = disc.found[q]
  BY <1>1, <1>2 DEF Collected
<1>4. ASSUME NEW k \in 1 .. Len(Providers), k < disc'.next PROVE disc'.found[Providers[k]] # {}
  <2>1. k < disc.next \/ k = disc.next
    BY <1>1, <1>4, ProvidersAssumption DEF Collected
  <2>2. Providers[k] \in Sources
    BY ProvidersAssumption
  <2>3. CASE Providers[k] = p
    BY <1>3, <2>3
  <2>4. CASE Providers[k] # p
    <3>1. disc.found[Providers[k]] # {}
      BY <2>1, <2>4 DEF Collected
    <3> QED
      BY <1>3, <2>2, <2>4, <3>1
  <2> QED
    BY <2>3, <2>4
<1>5. disc'.next \in Nat \ {0}
  BY <1>1 DEF Collected
<1>6. CacheKept'
  BY <1>1 DEF Collected, CacheKept
<1> QED
  BY <1>1, <1>3, <1>4, <1>5, <1>6 DEF Collected

\* Every action of the two threads keeps it.
LEMMA CollectedStep ==
  ASSUME Listed # {}, TurnInv, Owned, Collected, [Next]_vars
  PROVE  Collected'
<1>1. ASSUME UNCHANGED << disc, cache >> PROVE Collected'
  BY <1>1 DEF Collected, CacheKept
<1>2. ASSUME cache' = cache, disc'.next = disc.next, disc'.found = disc.found,
             disc'.pc = disc.pc \/ disc'.pc # "probe",
             disc'.cancel \in BOOLEAN, disc.cancel => disc'.cancel
      PROVE  Collected'
  BY <1>2 DEF Collected, CacheKept
<1>3. ASSUME Typed \/ TypedOn PROVE Collected'
  <2>1. UNCHANGED disc
    BY <1>3, KeyKeeps DEF Typed, TypedOn, Kept
  <2>2. UNCHANGED cache
    BY <1>3
       DEF Typed, TypedOn, Key, ReportCancel, Enter, Submit, Answer, Undecided, Pick, Leave,
           LoginInput, Command, StartTurn, Cancel, Escape, ChoiceCancel, host
  <2> QED
    BY <1>1, <2>1, <2>2
<1>4. ASSUME Closed \/ OauthEnds \/ OauthDone \/ ModelDone \/ EndPump \/ Resume \/ Signal \/ Finish
      PROVE  Collected'
  BY <1>1, <1>4 DEF Closed, Leave, OauthEnds, OauthDone, ModelDone, EndPump, Resume, Signal,
                    Finish, host
<1>5. ASSUME Worker PROVE Collected'
  <2>1. CASE Answered /\ UNCHANGED cache
    <3>1. PICK list \in Answers : Usable(list) /\ Probe(list)
      BY <2>1 DEF Answered
    <3>2. disc' = [disc EXCEPT !.next = @ + 1, !.found[Providers[disc.next]] = list,
                               !.bare = disc.bare]
      BY <3>1 DEF Probe, Owned
    <3> QED
      BY <2>1, <3>1, <3>2, Passed DEF Usable, Probe
  <2>2. CASE Failed /\ UNCHANGED cache
    <3>1. disc' = [disc EXCEPT !.next = @ + 1, !.found[Providers[disc.next]] = Listed,
                               !.bare = disc.bare \/ Providers[disc.next] \in Bare]
      BY <2>2 DEF Failed, KeptList
    <3> QED
      BY <2>2, <3>1, Passed DEF Failed
  <2>3. CASE (SetDone \/ Write) /\ UNCHANGED cache
    <3>1. /\ disc'.next = disc.next /\ disc'.found = disc.found /\ disc'.pc # "probe"
          /\ disc'.cancel = disc.cancel
      BY <2>3 DEF SetDone, Write, Owned
    <3> QED
      BY <1>2, <2>3, <3>1 DEF Collected
  <2>4. CASE Save
    <3>1. /\ disc'.next = disc.next /\ disc'.found = disc.found /\ disc'.pc = "flag"
          /\ disc'.cancel = disc.cancel /\ cache' \in {disc.found, cache}
      BY <2>4 DEF Save, Owned
    <3>2. ASSUME ~disc.cancel, NEW p \in Sources PROVE cache'[p] # {}
      <4>1. PICK k \in 1 .. Len(Providers) : p = Providers[k]
        BY ProvidersAssumption DEF Sources
      <4>2. disc.pc = "probe" /\ k < disc.next
        BY <2>4, <3>2, ProvidersAssumption DEF Save, Collected
      <4>3. disc.found[p] # {}
        BY <4>1, <4>2 DEF Collected
      <4> QED
        BY <3>1, <3>2, <4>3 DEF Collected, CacheKept
    <3> QED
      BY <3>1, <3>2 DEF Collected, CacheKept
  <2> QED
    BY <1>5, <2>1, <2>2, <2>3, <2>4 DEF Worker
<1>6. ASSUME Discovered \/ FinishApply PROVE Collected'
  <2>1. cache' = cache /\ (UNCHANGED disc \/ Apply)
    BY <1>6 DEF Discovered, PutOff, FinishApply
  <2>2. CASE Apply
    <3>1. /\ disc'.next = disc.next /\ disc'.found = disc.found /\ disc'.pc = disc.pc
          /\ disc'.cancel = disc.cancel
      BY <2>2 DEF Apply, Owned
    <3> QED
      BY <1>2, <2>1, <3>1 DEF Collected
  <2> QED
    BY <1>1, <2>1, <2>2
<1>7. ASSUME LeaveTui \/ Close \/ FreeDisc PROVE Collected'
  <2>1. /\ disc'.next = disc.next /\ disc'.found = disc.found /\ disc'.pc = disc.pc
        /\ disc'.cancel \in {TRUE, disc.cancel} /\ cache' = cache
    BY <1>7 DEF LeaveTui, Close, FreeDisc, Owned
  <2> QED
    BY <1>2, <2>1 DEF Collected
<1>8. CASE UNCHANGED vars
  BY <1>1, <1>8 DEF vars
<1> QED BY <1>3, <1>4, <1>5, <1>6, <1>7, <1>8 DEF Next, MainLoop

\* Where every provider has a model configured, a discovery that is not cut
\* short leaves none without a list in models.json, whoever could be reached
\* (runtime.c:1698-1756).
THEOREM NoProviderDropped ==
  ASSUME Listed # {}
  PROVE  Spec => []CacheKept
<1>1. Init => Collected
  BY CollectedInit
<1>2. TurnInv /\ Owned /\ Collected /\ [Next]_vars => Collected'
  BY CollectedStep
<1>3. Collected => CacheKept
  BY DEF Collected
<1> QED BY <1>1, <1>2, <1>3, Inductive, PTL DEF Spec
=============================================================================
