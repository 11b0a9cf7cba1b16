---------------------------- MODULE Transfers ----------------------------
(***************************************************************************)
(* The transfers of all agents over one HttpRuntime: runtime/http.c, the   *)
(* transfer tables of the models (model/openai.c; the other two providers  *)
(* keep theirs alike) and what an agent does to its own request.           *)
(*                                                                         *)
(* libcurl's multi is external: in a call of it, any running transfer may  *)
(* end (its message is queued), any terminal event may reach the agent and *)
(* any socket may come or go.                                              *)
(***************************************************************************)
EXTENDS Naturals, Sequences, FiniteSets, SequencesExt

CONSTANTS
  Agents,       \* the numbers of the agents, from 1: agent.c:38
  Models,       \* the models they share
  Sockets,      \* the sockets curl may open
  MaxTransfers  \* bound: transfers of a run

\* An agent is made with a model (agent.c:38).
ASSUME ModelsAssumption == Models # {}

VARIABLES
  phase,    \* where the main loop is: "wait", "batch", "drain", "agents",
            \* or in curl: "socket", "timed", "kick"; "models" in runtime_free, "off"
  xfer,     \* every transfer started so far, by number
  table,    \* priv->transfers of each model
  requests, \* h->requests
  messages, \* the finished transfers curl has still to tell of
  watchers, \* h->watchers, by their sockets
  batch,    \* events epoll_wait returned and event_loop_wait has yet to dispatch,
            \* by the socket of their watcher, "freed" when its memory is
  agent,    \* of each agent: alive, sequence, model, awaits, done (request_done)
  expired   \* transfers whose time is over

vars == << phase, xfer, table, requests, messages, watchers, batch, agent, expired >>

Nothing == [agent |-> 0, sequence |-> 0]

Transfers == DOMAIN xfer
Running   == {t \in Transfers : xfer[t].state = "running"}

\* mutation: the sequence number alone, without the agent's
BareId(a, sequence) == [agent |-> 1, sequence |-> sequence]

\* next_request_id: unique among all agents of the process
NextId(a, sequence) == [agent |-> a, sequence |-> sequence]

Init ==
  /\ phase = "wait" /\ xfer = << >> /\ requests = << >> /\ messages = {}
  /\ table = [m \in Models |-> << >>]
  /\ watchers = << >> /\ batch = << >> /\ expired = {}
  /\ agent = [a \in Agents |-> [alive |-> TRUE, sequence |-> 0, model |-> CHOOSE m \in Models : TRUE,
                                awaits |-> Nothing, done |-> FALSE]]

\* mutation: the last entry goes, whichever was meant
PopLast(list, x) == Front(list)

\* The swap-remove of both tables: the last entry takes the place of x.
SwapRemove(list, x) ==
  LET at == {k \in DOMAIN list : list[k] = x}
  IN IF at = {} THEN list
     ELSE Front([list EXCEPT ![CHOOSE k \in at : TRUE] = Last(list)])

-----------------------------------------------------------------------------
(* The end of a transfer. *)

\* on_model_event, on_compaction_event: a terminal event for the request the
\* agent awaits; a summary leaves request_done as it is.
Hears(t) ==
  LET a == xfer[t].agent
  IN IF agent[a].alive /\ agent[a].awaits = xfer[t].id
       THEN [agent EXCEPT ![a].awaits = Nothing, ![a].done = @ \/ ~xfer[t].summary]
       ELSE agent

\* done_cb of the provider: the terminal event, if none was emitted
Told(t) == IF xfer[t].told THEN agent ELSE Hears(t)

\* Its callback has been called and the request is freed.
Ended(x) == [x EXCEPT !.state = "gone", !.told = TRUE, !.ends = @ + 1]

\* Both lists let go of the transfer; `queue' is what curl still has to tell of.
Release(t, queue) ==
  /\ table' = [table EXCEPT ![xfer[t].model] = SwapRemove(@, t)]
  /\ requests' = SwapRemove(requests, t)
  /\ messages' = queue
  /\ xfer' = [xfer EXCEPT ![t] = Ended(xfer[t])]
  /\ expired' = expired \ {t}

FinishRequest(t, queue) == Release(t, queue) /\ agent' = Told(t)

\* mutation: the handle stays in the multi
KeepHandle(t) == FinishRequest(t, messages)

Without(t) == messages \ {t}

\* http_request_abort: removing the handle takes its message too
Abort(t) == FinishRequest(t, Without(t))

-----------------------------------------------------------------------------
(* What curl does while it is called, any number of times. *)

\* A transfer ends, well or badly.
Completes ==
  \E t \in Running \ messages :
    /\ messages' = messages \cup {t}
    /\ UNCHANGED << xfer, agent, watchers, batch >>

\* write_cb brings the terminal event; the transfer goes on.
Tells ==
  \E t \in Running \ messages :
    /\ ~xfer[t].told
    /\ agent' = Hears(t)
    /\ xfer' = [xfer EXCEPT ![t].told = TRUE]
    /\ UNCHANGED << messages, watchers, batch >>

\* socket_cb, IN or OUT: a watcher of its own for a new socket
SocketAdded ==
  \E s \in Sockets \ ToSet(watchers) :
    /\ watchers' = Append(watchers, s)
    /\ UNCHANGED << xfer, messages, agent, batch >>

\* socket_cb, REMOVE: the watcher is freed, also when events of this batch
\* still point to it.
SocketRemoved ==
  \E s \in ToSet(watchers) :
    /\ watchers' = SwapRemove(watchers, s)
    /\ batch' = [k \in DOMAIN batch |-> IF batch[k] = s THEN "freed" ELSE batch[k]]
    /\ UNCHANGED << xfer, messages, agent >>

InCurl == phase \in {"socket", "timed", "kick"}
CurlDoes ==
  /\ InCurl
  /\ Completes \/ Tells \/ SocketAdded \/ SocketRemoved
  /\ UNCHANGED << phase, table, requests, expired >>

\* curl returns to event_loop_wait, http_pump or the agent
CurlReturns ==
  /\ InCurl
  /\ phase' = [socket |-> "batch", timed |-> "drain", kick |-> "agents"][phase]
  /\ UNCHANGED << xfer, table, requests, messages, watchers, batch, agent, expired >>

-----------------------------------------------------------------------------
(* One turn of the main loop: runtime_pump. *)

\* epoll_wait: sockets with events, in any order
EpollWait ==
  /\ phase = "wait" /\ phase' = "batch"
  /\ \E ready \in SUBSET ToSet(watchers) : batch' \in SetToSeqs(ready)
  /\ UNCHANGED << xfer, table, requests, messages, watchers, agent, expired >>

\* socket_watcher_cb.  What a freed watcher holds is undefined: it may still
\* be the socket's, and curl is called, or the event is lost.
Dispatch ==
  /\ phase = "batch" /\ batch # << >>
  /\ batch' = Tail(batch)
  /\ phase' \in IF Head(batch) = "freed" THEN {"socket", "batch"} ELSE {"socket"}
  /\ UNCHANGED << xfer, table, requests, messages, watchers, agent, expired >>

\* The time limits of start_method: connecting, stalled, and the whole.
Expire(t) ==
  /\ t \in Running \ expired /\ phase = "wait"
  /\ expired' = expired \cup {t}
  /\ UNCHANGED << phase, xfer, table, requests, messages, watchers, batch, agent >>

\* mutation: http_pump drains without serving the timers
NoTimers ==
  /\ phase = "batch" /\ batch = << >> /\ phase' = "timed" /\ UNCHANGED messages
  /\ UNCHANGED << xfer, table, requests, watchers, batch, agent, expired >>

\* http_pump: curl's timers
Timers ==
  /\ phase = "batch" /\ batch = << >> /\ phase' = "timed"
  /\ messages' = messages \cup expired
  /\ UNCHANGED << xfer, table, requests, watchers, batch, agent, expired >>

\* process_multi_info, one message
Drain ==
  /\ phase = "drain"
  /\ \E t \in messages : FinishRequest(t, messages \ {t})
  /\ UNCHANGED << phase, watchers, batch >>

Drained ==
  /\ phase = "drain" /\ messages = {} /\ phase' = "agents"
  /\ UNCHANGED << xfer, table, requests, messages, watchers, batch, agent, expired >>

AgentsDone ==
  /\ phase = "agents" /\ phase' = "wait"
  /\ UNCHANGED << xfer, table, requests, messages, watchers, batch, agent, expired >>

-----------------------------------------------------------------------------
(* What agents do in their turn. *)

\* start_model_request or start_compaction_request with openai_request: the
\* transfer enters both lists, or the start fails and the agent is told so.
Request(a, m, summary) ==
  LET id == NextId(a, agent[a].sequence + 1)
      t  == Len(xfer) + 1
      Asker(awaited, done) == [alive |-> TRUE, sequence |-> id.sequence, model |-> m,
                              awaits |-> awaited, done |-> done]
  IN /\ phase = "agents" /\ agent[a].alive /\ agent[a].awaits = Nothing
     /\ t <= MaxTransfers /\ agent[a].sequence < MaxTransfers
     /\ \/ /\ xfer' = Append(xfer, [agent |-> a, id |-> id, model |-> m, summary |-> summary,
                                   state |-> "running", told |-> FALSE, ends |-> 0])
           /\ table' = [table EXCEPT ![m] = Append(@, t)]
           /\ requests' = Append(requests, t)
           /\ agent' = [agent EXCEPT ![a] = Asker(id, agent[a].done /\ summary)]
           /\ phase' = "kick"
        \/ /\ agent' = [agent EXCEPT ![a] = Asker(Nothing, agent[a].done \/ ~summary)]
           /\ UNCHANGED << phase, xfer, table, requests >>
  /\ UNCHANGED << messages, watchers, batch, expired >>

\* openai_cancel: the first transfer of the model with that id, if any
Named(a) ==
  LET list == table[agent[a].model]
      Hit(k) == xfer[list[k]].id = agent[a].awaits
  IN {list[k] : k \in {i \in DOMAIN list : Hit(i) /\ \A j \in 1 .. i - 1 : ~Hit(j)}}

\* The cancel of agent_resume.  The sockets it closes go with the next call
\* of curl.
Cancel(a) ==
  /\ phase = "agents" /\ agent[a].alive /\ agent[a].awaits # Nothing
  /\ \E t \in Named(a) : Abort(t)
  /\ UNCHANGED << phase, watchers, batch >>

\* agent_loop_state_cleanup: the request is cancelled unless request_done
\* says that it is over.
ToCancel(a) == IF agent[a].awaits # Nothing /\ ~agent[a].done THEN Named(a) ELSE {}

\* agent_destroy
Destroy(a) ==
  /\ phase = "agents" /\ agent[a].alive
  /\ \/ \E t \in ToCancel(a) :
          Release(t, Without(t)) /\ agent' = [Told(t) EXCEPT ![a].alive = FALSE]
     \/ /\ ToCancel(a) = {}
        /\ agent' = [agent EXCEPT ![a].alive = FALSE]
        /\ UNCHANGED << xfer, table, requests, messages, expired >>
  /\ UNCHANGED << phase, watchers, batch >>

-----------------------------------------------------------------------------
(* runtime_free, once every agent is gone. *)

Exit ==
  /\ phase = "agents" /\ \A a \in Agents : ~agent[a].alive
  /\ phase' = "models"
  /\ UNCHANGED << xfer, table, requests, messages, watchers, batch, agent, expired >>

\* openai_destroy: from the back of the table
FreeModel ==
  /\ phase = "models"
  /\ \E m \in Models : table[m] # << >> /\ Abort(Last(table[m]))
  /\ UNCHANGED << phase, watchers, batch >>

\* http_free: by now its list of requests is empty
HttpFree ==
  /\ phase = "models" /\ \A m \in Models : table[m] = << >>
  /\ phase' = "off" /\ watchers' = << >>
  /\ UNCHANGED << xfer, table, requests, messages, batch, agent, expired >>

MainLoop ==
  \/ EpollWait \/ Dispatch \/ Timers \/ CurlReturns \/ Drain \/ Drained
  \/ AgentsDone \/ FreeModel \/ HttpFree

Next ==
  \/ MainLoop \/ CurlDoes \/ Exit
  \/ \E t \in Running : Expire(t)
  \/ \E a \in Agents : \/ \E m \in Models, summary \in BOOLEAN : Request(a, m, summary)
                       \/ Cancel(a) \/ Destroy(a)

Spec == Init /\ [][Next]_vars

\* The main loop pumps for ever, and time passes while it waits.
FairSpec ==
  /\ Spec /\ WF_vars(MainLoop)
  /\ \A t \in 1 .. MaxTransfers : SF_vars(t \in Running /\ Expire(t))

-----------------------------------------------------------------------------
(* Properties. *)

\* A transfer is finished once, and its callback has then given the agent a
\* terminal event: an abort between the end of a transfer and the pump that
\* drains its message must not finish it again (its memory is gone).
FinishedOnce ==
  /\ \A t \in Transfers : /\ xfer[t].ends = IF xfer[t].state = "gone" THEN 1 ELSE 0
                          /\ xfer[t].state = "gone" => xfer[t].told
  /\ messages \subseteq Running

\* Both lists hold the running transfers and nothing else, whichever end in
\* whatever order: an entry left behind is a dangling pointer for the next
\* cancel and for http_free, a lost one a transfer nobody can abort.
Tracked ==
  /\ ToSet(requests) = Running /\ Len(requests) = Cardinality(Running)
  /\ \A m \in Models :
       LET mine == {t \in Running : xfer[t].model = m}
       IN ToSet(table[m]) = mine /\ Len(table[m]) = Cardinality(mine)

\* The callback of a transfer that still has its terminal event to give points
\* into the loop state of a living agent, which waits for just that.  The
\* exception is a summary whose agent was destroyed (loop.c:1338).
CallbackAlive ==
  \A t \in Running : ~xfer[t].told =>
    LET a == agent[xfer[t].agent]
    IN IF a.alive THEN a.awaits = xfer[t].id ELSE xfer[t].summary

\* No list and no callback refers to what is gone.
NoDangling == Tracked /\ CallbackAlive

\* PROGRESS.md:117: cancelling does not hit other agents that share the
\* model, and neither an older transfer of the same agent.
CancelsOwn ==
  [][\A a \in Agents : Cancel(a) =>
       /\ agent'[a].awaits = Nothing
       /\ \A b \in Agents \ {a} : agent'[b] = agent[b]]_vars

\* Every transfer ends, whatever the server does, in time bounded by curl.
EveryTransferEnds ==
  \A t \in 1 .. MaxTransfers :
    t \in Transfers ~> t \in Transfers /\ xfer[t].state = "gone"

\* Not kept by socket_cb (http.c:207).
\* PROGRESS.md:120: no watcher is freed in a callback of the event loop.
\* What event_loop_wait is about to dispatch is then still allocated.
WatcherAlive == phase = "batch" /\ batch # << >> => Head(batch) # "freed"
==========================================================================
