-------------------------------- MODULE App --------------------------------
(***************************************************************************)
(* The TUI application (main.c: tui_run and its callbacks) with the model  *)
(* discovery of the start-up (discovery_*; runtime.c:                      *)
(* runtime_discover_all_models, runtime_apply_catalog).                    *)
(*                                                                         *)
(* One thread runs the main loop: a pump that hands over what is ready (a  *)
(* read of the terminal, the end of an OAuth child, the byte discovery     *)
(* leaves in its pipe, an answer of the model), one agent_resume, the      *)
(* pending SIGINT.  A second thread asks each provider for its catalog.    *)
(* The agent is as much of AgentLoop as its host can see; the request it   *)
(* has in flight belongs to a model object, and replacing the catalog      *)
(* destroys the objects of the old one.                                    *)
(***************************************************************************)
EXTENDS Naturals, Sequences, FiniteSets

CONSTANTS Providers,  \* the providers to ask, in order; the first is the selected one
          Listed,     \* the model names every provider has in the configuration
          Answers,    \* the lists of usable models a provider may answer with
          Bare,       \* providers whose configured entries name no base_url or protocol
          MaxKeys     \* what one read of the terminal holds, in keys

VARIABLES phase,    \* where the main thread is
          input,    \* [typed, more]: the terminal was read this round; keys left of that read
          app,      \* App: busy, pending, step, picker, offers, quitting, quit
          mode,     \* what the TUI shows: "prompt", "choice" or "report"
          oauth,    \* the OAuth child: "none", "running" or "answered"
          agent,    \* [turn, cancel, told, trusted, model]
          request,  \* the model request in flight: << >> or <<[model, done]>>
          gen, catalog,  \* the runtime's named models: generation and selectors
          disc,     \* AppDiscovery and its worker
          cache     \* models.json: the names listed for every provider
vars == << phase, input, app, mode, oauth, agent, request, gen, catalog, disc, cache >>
host == << oauth, gen, catalog, disc, cache >>

Sources == { Providers[k] : k \in DOMAIN Providers }
ASSUME ProvidersAssumption == Providers \in Seq(Sources)
Selectors(list) == { s \in Sources \X UNION (Answers \cup {Listed}) : s[2] \in list[s[1]] }
Static == [p \in Sources |-> Listed]

(* Model objects.  The default one (rt->model, generation 0) is never      *)
(* destroyed; a named one dies with its catalog.                           *)
DefaultName == << Providers[1], CHOOSE n \in Listed : TRUE >>
Default == [gen |-> 0, sel |-> DefaultName]
Live(m) == m.gen = 0 \/ (m.gen = gen /\ m.sel \in catalog)
(* runtime_model_by_name: the default model first, then the table. *)
ByName(sel, g, table) ==
  IF sel = DefaultName THEN {Default} ELSE { [gen |-> g, sel |-> s] : s \in table \cap {sel} }

Init ==
  /\ phase = "pump" /\ input = [typed |-> FALSE, more |-> 0]
  /\ app = [busy |-> FALSE, pending |-> FALSE, step |-> "none", picker |-> FALSE,
            offers |-> {}, quitting |-> FALSE, quit |-> FALSE]
  /\ mode = "prompt" /\ oauth = "none"
  /\ agent = [turn |-> "off", cancel |-> FALSE, told |-> FALSE, trusted |-> FALSE,
              model |-> Default]
  /\ request = << >>
  /\ gen = 1 /\ catalog = Selectors(Static)
  /\ disc = [pc |-> "probe", next |-> 1, found |-> [p \in Sources |-> {}], bare |-> FALSE,
             cancel |-> FALSE, done |-> FALSE, reported |-> FALSE,
             byte |-> FALSE, open |-> TRUE, cfg |-> "held", held |-> TRUE]
  /\ cache = Static

-----------------------------------------------------------------------------
(* The worker.  It stops before a probe once it is asked to; what it has   *)
(* by then is saved all the same.                                          *)
Probe(list) ==
  /\ disc.pc = "probe" /\ disc.next <= Len(Providers) /\ ~disc.cancel
  /\ disc' = [disc EXCEPT !.next = @ + 1, !.found[Providers[disc.next]] = list]
(* An answer in which no model is left, hidden ones out, is a failure. *)
Usable(list) == list # {}
Answered == \E list \in Answers : Usable(list) /\ Probe(list)
(* A provider that fails keeps its configured entries, with or without the *)
(* address and the protocol they name.                                     *)
NoList == {}             \* mutation: what is configured is dropped
KeptList == Listed
Failed ==
  /\ disc.pc = "probe" /\ disc.next <= Len(Providers) /\ ~disc.cancel
  /\ disc' = [disc EXCEPT !.next = @ + 1, !.found[Providers[disc.next]] = KeptList,
                          !.bare = @ \/ Providers[disc.next] \in Bare]
Save ==
  /\ disc.pc = "probe" /\ (disc.next > Len(Providers) \/ disc.cancel)
  /\ cache' \in {disc.found, cache}
  /\ disc' = [disc EXCEPT !.pc = "flag"]
SetDone == disc.pc = "flag" /\ disc' = [disc EXCEPT !.pc = "write", !.done = TRUE]
(* The completion byte; a pipe the main thread has closed gives the        *)
(* configuration back to the worker to free.                               *)
Free(cfg) == IF cfg = "held" THEN "freed" ELSE "twice"
Write ==
  /\ disc.pc = "write"
  /\ disc' = IF disc.open THEN [disc EXCEPT !.pc = "ended", !.byte = TRUE]
             ELSE [disc EXCEPT !.pc = "ended", !.cfg = Free(@)]
Worker ==
  /\ \/ (Answered \/ Failed \/ SetDone \/ Write) /\ UNCHANGED cache
     \/ Save
  /\ UNCHANGED << phase, input, app, mode, oauth, agent, request, gen, catalog >>

(* discovery_apply: the completion byte is waited for and read.  An entry  *)
(* without base_url or protocol makes runtime_apply_catalog fail; else the *)
(* new table replaces the old one and the agent is bound again by name.    *)
ByteThere == disc.byte
Rebound == LET m == ByName(agent.model.sel, gen + 1, Selectors(disc.found))
           IN IF m = {} THEN Default ELSE CHOOSE x \in m : TRUE
Apply ==
  /\ ByteThere
  /\ disc' = [disc EXCEPT !.byte = FALSE, !.cfg = Free(@), !.reported = TRUE]
  /\ IF disc.bare THEN UNCHANGED << gen, catalog, agent >>
     ELSE /\ gen' = gen + 1 /\ catalog' = Selectors(disc.found)
          /\ agent' = [agent EXCEPT !.model = Rebound]

-----------------------------------------------------------------------------
(* What a key does.  Every definition below is one callback or a branch of *)
(* one; host variables it does not name stay as they are.                  *)
InTurn == app.busy
CancelTurn == agent' = [agent EXCEPT !.cancel = TRUE]
(* agent_set_approval_result: heard only while the agent waits undecided. *)
Decide(a) == IF a.turn = "asking" THEN [a EXCEPT !.turn = "decided"] ELSE a

(* app_submit with approval_pending: /trust off and lines that decide      *)
(* nothing leave the question open.                                        *)
Forgets(line) ==         \* mutation: any line closes the question
  app' = [app EXCEPT !.pending = FALSE] /\ UNCHANGED << mode, agent, request, host >>
Undecided(line) == UNCHANGED << app, mode, agent, request, host >>
Answer(line) ==
  \/ line = "trust off" /\ agent' = [agent EXCEPT !.trusted = FALSE]
     /\ UNCHANGED << app, mode, request, host >>
  \/ line \notin {"approve", "reject", "trust on", "trust off"} /\ Undecided(line)
  \/ /\ line \in {"approve", "reject", "trust on"}
     /\ app' = [app EXCEPT !.pending = FALSE]
     /\ agent' = Decide([agent EXCEPT !.trusted = @ \/ line = "trust on"])
     /\ UNCHANGED << mode, request, host >>

(* app_apply_model: what a name stands for now becomes the agent's model,  *)
(* also in the middle of a turn.                                           *)
Switch(sels) == \E sel \in sels : \E m \in ByName(sel, gen, catalog) :
                  agent' = [agent EXCEPT !.model = m]
Offers == catalog \cup {DefaultName}

(* app_model_picker_submit: the picker closes, then the name is looked up  *)
(* in the catalog of now.  Without a choice on screen nothing is selected. *)
Pick ==
  /\ app' = [app EXCEPT !.picker = FALSE, !.offers = {}] /\ mode' = "prompt"
  /\ \/ UNCHANGED agent
     \/ mode = "choice" /\ Switch(app.offers)
  /\ UNCHANGED << request, host >>

(* /exit, Ctrl+D and the end of stdin: a running turn is cancelled first. *)
Leave ==
  /\ IF InTurn THEN app' = [app EXCEPT !.quitting = TRUE] /\ CancelTurn
     ELSE app' = [app EXCEPT !.quit = TRUE] /\ UNCHANGED agent
  /\ UNCHANGED << mode, request, host >>

(* app_login_reset: a choice on screen is stopped, whoever opened it. *)
LoginReset(a) == [a EXCEPT !.step = "none"]
Unchosen == IF mode = "choice" THEN "prompt" ELSE mode

(* app_login_input and app_start_oauth, which may fail to start its child. *)
LoginInput ==
  /\ \/ app.step = "menu" /\ mode = "choice" /\ app' = LoginReset(app)
        /\ mode' = "prompt" /\ oauth' \in {"running", "none"}
     \/ app.step = "menu" /\ mode = "choice" /\ app' = [app EXCEPT !.step = "provider"]
        /\ UNCHANGED << mode, oauth >>
     \/ app.step = "provider" /\ mode = "choice" /\ app' = [app EXCEPT !.step = "key"]
        /\ mode' = "prompt" /\ UNCHANGED oauth
     \/ app.step \in {"menu", "provider"} /\ UNCHANGED << app, mode, oauth >>
     \/ app.step = "key" /\ app' = LoginReset(app) /\ mode' = Unchosen /\ UNCHANGED oauth
  /\ UNCHANGED << agent, request, gen, catalog, disc, cache >>

(* app_command; a command that only prints does what "approve" does here. *)
Command(line) ==
  /\ \/ /\ line = "login"
        /\ IF oauth # "none" THEN UNCHANGED << app, mode >>
           ELSE app' = [app EXCEPT !.step = "menu"] /\ mode' = "choice"
        /\ UNCHANGED agent
     \/ /\ line = "model"
        /\ app' = [app EXCEPT !.picker = TRUE, !.offers = Offers]
        /\ mode' = "choice" /\ UNCHANGED agent
     \/ line = "model x" /\ Switch(Offers) /\ UNCHANGED << app, mode >>
     \/ line = "report" /\ mode' = "report" /\ UNCHANGED << app, agent >>
     \/ line = "trust on" /\ agent' = [agent EXCEPT !.trusted = TRUE] /\ UNCHANGED << app, mode >>
     \/ line = "trust off" /\ agent' = [agent EXCEPT !.trusted = FALSE]
        /\ UNCHANGED << app, mode >>
     \/ line \in {"approve", "reject"} /\ UNCHANGED << app, mode, agent >>
  /\ UNCHANGED << request, host >>

(* agent_start clears the cancellation; the request follows in the resume. *)
StartTurn ==
  /\ IF InTurn THEN UNCHANGED << app, agent >>
     ELSE /\ app' = [app EXCEPT !.busy = TRUE]
          /\ agent' = [agent EXCEPT !.turn = "ready", !.cancel = FALSE]
  /\ UNCHANGED << mode, request, host >>

Submit(line) ==
  IF app.pending THEN Answer(line)
  ELSE IF app.picker THEN Pick
  ELSE IF line = "exit" THEN Leave
  ELSE IF app.step # "none" THEN LoginInput
  ELSE IF line \notin {"text", ""} THEN Command(line)
  ELSE StartTurn

(* app_cancel: an OAuth child, a login, a question, a turn, the program. *)
Cancel ==
  IF oauth # "none" \/ app.step # "none"
  THEN /\ app' = LoginReset(app) /\ mode' = Unchosen
       /\ oauth' = "none"
       /\ UNCHANGED << agent, request, gen, catalog, disc, cache >>
  ELSE /\ app' = [app EXCEPT !.pending = FALSE, !.quit = @ \/ ~InTurn]
       /\ agent' = [(IF app.pending THEN Decide(agent) ELSE agent) EXCEPT !.cancel = @ \/ InTurn]
       /\ UNCHANGED << mode, request, host >>

(* app_escape *)
Escape ==
  IF oauth # "none" \/ app.step # "none" THEN Cancel
  ELSE /\ app' = [app EXCEPT !.pending = FALSE]
       /\ agent' = IF app.pending THEN Decide(agent)
                   ELSE [agent EXCEPT !.cancel = @ \/ InTurn]
       /\ UNCHANGED << mode, request, host >>

(* app_choice_cancel *)
ChoiceCancel ==
  /\ app' = IF app.step # "none" THEN LoginReset(app)
            ELSE [app EXCEPT !.picker = FALSE, !.offers = {}]
  /\ mode' = IF app.step # "none" \/ app.picker THEN "prompt" ELSE mode
  /\ UNCHANGED << agent, request, host >>
ReportCancel == mode' = "prompt" /\ UNCHANGED << app, agent, request, host >>

(* tui_submit_line: an empty line counts only where there is a choice. *)
Enter(line) == IF line = "" /\ mode # "choice" THEN UNCHANGED << app, mode, agent, request, host >>
               ELSE Submit(line)

Lines == {"", "text", "approve", "reject", "trust on", "trust off", "exit",
          "login", "model", "model x", "report"}
Keys == Lines \cup {"ctrl c", "ctrl d", "escape"}
(* tui_feed_bytes *)
Key(key) ==
  \/ mode = "report" /\ ReportCancel
  \/ mode = "choice" /\ key \notin Lines /\ ChoiceCancel
  \/ mode # "report" /\ key \in Lines /\ Enter(key)
  \/ mode = "prompt" /\ key = "ctrl c" /\ Cancel
  \/ mode = "prompt" /\ key = "ctrl d" /\ Submit("exit")
  \/ mode = "prompt" /\ key = "escape" /\ Escape

-----------------------------------------------------------------------------
(* The main loop. *)
Typed ==
  /\ phase = "pump" /\ ~input.typed
  /\ \E n \in 0..MaxKeys - 1 : input' = [typed |-> TRUE, more |-> n]
  /\ \E key \in Keys : Key(key)
  /\ UNCHANGED phase
Closed ==
  /\ phase = "pump" /\ ~input.typed
  /\ input' = [typed |-> TRUE, more |-> 0] /\ Leave
  /\ UNCHANGED phase
TypedOn ==
  /\ phase = "pump" /\ input.more > 0
  /\ input' = [input EXCEPT !.more = @ - 1]
  /\ \E key \in Keys : Key(key)
  /\ UNCHANGED phase

Quiet == phase = "pump" /\ input.more = 0
(* The child ends: what it answered is read and the child is reaped. *)
OauthEnds ==
  /\ phase # "gone" /\ oauth = "running" /\ oauth' = "answered"
  /\ UNCHANGED << phase, input, app, mode, agent, request, gen, catalog, disc, cache >>
OauthDone ==
  /\ Quiet /\ oauth = "answered" /\ oauth' = "none"
  /\ app' = LoginReset(app) /\ mode' = Unchosen
  /\ UNCHANGED << phase, input, agent, request, gen, catalog, disc, cache >>
(* app_discovery_cb puts the catalog off while a turn runs: the pipe stays *)
(* readable and every round calls it again.                                *)
AnyTime == TRUE          \* mutation: in the middle of a turn
TurnOver == ~app.busy
\* mutation: the byte is read and the catalog forgotten
Consumes == disc' = [disc EXCEPT !.byte = FALSE] /\ UNCHANGED << agent, gen, catalog >>
PutOff == UNCHANGED << agent, gen, catalog, disc >>
Discovered ==
  /\ Quiet /\ disc.byte /\ ~disc.reported
  /\ IF TurnOver THEN Apply ELSE PutOff
  /\ UNCHANGED << phase, input, app, mode, oauth, request, cache >>
ModelDone ==
  /\ Quiet /\ request # << >> /\ ~request[1].done
  /\ request' = << [request[1] EXCEPT !.done = TRUE] >>
  /\ UNCHANGED << phase, input, app, mode, agent, host >>
EndPump ==
  /\ Quiet /\ phase' = IF app.busy THEN "resume" ELSE "signal"
  /\ UNCHANGED << input, app, mode, agent, request, host >>

(* agent_resume, as its host sees it.  A cancelled request is asked for    *)
(* once, through the model the agent has now; of another model's request   *)
(* its provider knows nothing, and the turn waits for it to end by itself. *)
StaysOn(a) == [a EXCEPT !.busy = FALSE]  \* mutation: quitting is forgotten
QuitNow(a) == [a EXCEPT !.busy = FALSE, !.quit = @ \/ a.quitting]
InFlight == agent.turn = "model" /\ ~request[1].done
Over == /\ agent' = [agent EXCEPT !.turn = "off", !.told = FALSE] /\ request' = << >>
        /\ app' = QuitNow(app)
Ask == /\ ~agent.trusted /\ agent' = [agent EXCEPT !.turn = "asking"] /\ request' = << >>
       /\ app' = [app EXCEPT !.pending = TRUE]
Send == /\ agent' = [agent EXCEPT !.turn = "model", !.told = FALSE]
        /\ request' = << [model |-> agent.model, done |-> FALSE] >> /\ UNCHANGED app
Waits == UNCHANGED << app, agent, request >>
Resume ==
  /\ phase = "resume" /\ phase' = "signal"
  /\ IF agent.cancel
     THEN IF InFlight /\ (agent.told \/ request[1].model # agent.model)
          THEN agent' = [agent EXCEPT !.told = TRUE] /\ UNCHANGED << app, request >>
          ELSE Over
     ELSE \/ (InFlight \/ agent.turn = "asking") /\ Waits
          \/ agent.turn = "ready" /\ Send
          \/ agent.turn = "decided" /\ (Send \/ Ask)
          \/ agent.turn = "model" /\ ~InFlight /\ (Over \/ Ask \/ Send)
  /\ UNCHANGED << input, mode, host >>

(* A SIGINT that arrived in the round; approval_pending stays as it is. *)
EndRound(a) ==
  /\ phase' = IF a.quit THEN "left" ELSE "pump"
  /\ input' = [typed |-> FALSE, more |-> 0]
Signal ==
  /\ phase = "signal"
  /\ \/ UNCHANGED << app, agent >>
     \/ IF InTurn THEN CancelTurn /\ UNCHANGED app
        ELSE app' = [app EXCEPT !.quit = TRUE] /\ UNCHANGED agent
  /\ EndRound(app')
  /\ UNCHANGED << mode, request, host >>

(* The end of tui_run, then discovery_finish: the worker is asked to stop, *)
(* a result nobody has seen is applied, the pipe is closed and what the    *)
(* worker can no longer touch is freed.                                    *)
LeaveTui ==
  /\ phase = "left" /\ phase' = "finish"
  /\ oauth' = "none" /\ mode' = "prompt" /\ app' = [app EXCEPT !.picker = FALSE, !.offers = {}]
  /\ disc' = [disc EXCEPT !.cancel = TRUE]
  /\ UNCHANGED << input, agent, request, gen, catalog, cache >>
Finish ==
  /\ phase = "finish"
  /\ phase' = IF disc.done /\ ~disc.reported THEN "apply" ELSE "close"
  /\ UNCHANGED << input, app, mode, agent, request, host >>
FinishApply ==
  /\ phase = "apply" /\ phase' = "close" /\ Apply
  /\ UNCHANGED << input, app, mode, oauth, request, cache >>
Close ==
  /\ phase = "close" /\ phase' = "free" /\ disc' = [disc EXCEPT !.open = FALSE]
  /\ UNCHANGED << input, app, mode, oauth, agent, request, gen, catalog, cache >>
FreeDisc ==
  /\ phase = "free" /\ phase' = "gone" /\ disc' = [disc EXCEPT !.held = ~disc.reported]
  /\ UNCHANGED << input, app, mode, oauth, agent, request, gen, catalog, cache >>

MainLoop == EndPump \/ Resume \/ Signal \/ LeaveTui \/ Finish \/ FinishApply \/ Close \/ FreeDisc
Next == Typed \/ Closed \/ TypedOn \/ OauthEnds \/ OauthDone \/ Discovered \/ ModelDone \/ MainLoop \/ Worker
Spec == Init /\ [][Next]_vars

(* The two threads run on, a request ends (http.c bounds it), a read is    *)
(* handled to its end, and epoll, which reports a readable pipe in every   *)
(* round, lets a ready callback starve behind no other one.  The user and  *)
(* the OAuth server are owed nothing.                                      *)
Fairness == /\ WF_vars(MainLoop) /\ WF_vars(Worker) /\ WF_vars(TypedOn)
            /\ SF_vars(ModelDone) /\ SF_vars(Discovered)
FairSpec == Spec /\ Fairness

-----------------------------------------------------------------------------
InLoop == phase \in {"pump", "resume", "signal"}

\* A model object the agent or its request refers to has not been destroyed
\* with an old catalog, for as long as the main loop runs (main.c:1221).
ModelsAlive ==
  InLoop => Live(agent.model) /\ \A k \in DOMAIN request : Live(request[k].model)

\* AppDiscovery and its configuration are shared without a lock: the worker
\* never runs on memory the main thread has freed, and what has two owners one
\* after the other is freed once (main.c:450-456).
DiscoverySafe ==
  /\ disc.pc # "ended" => disc.held /\ disc.cfg = "held"
  /\ disc.cfg # "twice"

\* Nothing that was freed is used.
NoStalePointer == ModelsAlive /\ DiscoverySafe

\* An agent that waits for a decision can be given it: the application still
\* takes the next line for the answer.
Answerable == agent.turn = "asking" => app.pending

\* README.md:48: a provider that cannot be reached keeps its list in
\* models.json.  A discovery that is not cut short leaves no provider without.
CacheKept == ~disc.cancel => \A p \in Sources : cache[p] # {}

\* Whoever asks to leave gets out, whatever the turn, the question on screen
\* and the discovery are doing.
Quits == (app.quitting \/ app.quit) ~> phase = "gone"

\* A finished discovery reaches the catalog, unless turns never end or the
\* program does.
CatalogArrives == []<>~app.busy => (disc.done ~> disc.reported \/ ~InLoop)

\* Not kept when a provider fails whose entries are bare (runtime.c:2023).
\* runtime.h:28: a NULL base_url stands for "provider default endpoint", and failed
\* providers retain their static entries.  So once a discovery is reported, what
\* the providers answered is what the runtime lists.
CatalogTaken == disc.reported /\ InLoop => catalog = Selectors(disc.found)
=============================================================================
