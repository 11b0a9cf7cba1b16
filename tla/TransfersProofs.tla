-------------------------- MODULE TransfersProofs --------------------------
(***************************************************************************)
(* What holds of any number of agents, models, sockets and transfers: a    *)
(* transfer is finished once, no list and no callback refers to what is    *)
(* gone, and a cancel ends the request of the canceller and no other.      *)
(***************************************************************************)
EXTENDS Transfers, FiniteSetTheorems, TLAPS

Ids    == [agent : Agents \cup {0}, sequence : Nat]
Record == [agent : Agents, id : Ids, model : Models, summary : BOOLEAN,
           state : {"running", "gone"}, told : BOOLEAN, ends : Nat]
Entry  == [alive : BOOLEAN, sequence : Nat, model : Models, awaits : Ids, done : BOOLEAN]

Types ==
  /\ xfer \in Seq(Record) /\ agent \in [Agents -> Entry]
  /\ table \in [Models -> Seq(Nat)] /\ requests \in Seq(Nat)

(* The list holds each element of S once and nothing else. *)
Once(list, S) ==
  /\ ToSet(list) = S
  /\ \A i, j \in DOMAIN list : list[i] = list[j] => i = j

Mine(m) == {t \in Running : xfer[t].model = m}

Lists ==
  /\ Once(requests, Running)
  /\ \A m \in Models : Once(table[m], Mine(m))
  /\ messages \subseteq Running /\ expired \subseteq Running

(* What FinishedOnce says of the transfers. *)
Counted ==
  \A t \in Transfers : /\ xfer[t].ends = IF xfer[t].state = "gone" THEN 1 ELSE 0
                       /\ xfer[t].state = "gone" => xfer[t].told

(* next_request_id: an id names one transfer and its agent. *)
Identified ==
  /\ \A t \in Transfers : /\ xfer[t].id.agent = xfer[t].agent
                          /\ xfer[t].id.sequence \in 1 .. agent[xfer[t].agent].sequence
  /\ \A t, u \in Transfers : xfer[t].id = xfer[u].id => t = u

(* Whoever waits is owed a terminal event by a transfer in the table of its *)
(* model; if request_done is set, that is a summary.  This is what makes a  *)
(* cancel find what it is for, and the exception of CallbackAlive the only  *)
(* one.                                                                     *)
Owes(t, a) ==
  /\ ~xfer[t].told /\ xfer[t].agent = a /\ xfer[t].id = agent[a].awaits
  /\ xfer[t].model = agent[a].model
  /\ agent[a].done => xfer[t].summary

Owed == \A a \in Agents : agent[a].alive /\ agent[a].awaits # Nothing =>
                            \E t \in Running : Owes(t, a)

Inv == Types /\ Lists /\ Counted /\ Identified /\ CallbackAlive /\ Owed

-----------------------------------------------------------------------------
(* Sequences. *)

\* SwapRemove takes its element out of a list that holds it once.
LEMMA SwapRemoveOnce ==
  ASSUME NEW S, NEW list \in Seq(Nat), Once(list, S), NEW x
  PROVE  SwapRemove(list, x) \in Seq(Nat) /\ Once(SwapRemove(list, x), S \ {x})
<1> DEFINE at == {k \in DOMAIN list : list[k] = x}
<1>1. CASE at = {}
  BY <1>1 DEF SwapRemove, Once, ToSet
<1>2. CASE at # {}
  <2> DEFINE k == CHOOSE i \in at : TRUE
             swapped == [list EXCEPT ![k] = Last(list)]
             rest == Front(swapped)
             n == Len(list)
  <2>1. k \in 1 .. n /\ list[k] = x /\ n \in Nat /\ n > 0
    BY <1>2
  <2>2. \A i \in 1 .. n : list[i] = x <=> i = k
    BY <2>1 DEF Once
  <2>3. Last(list) = list[n]
    BY DEF Last
  <2>4. swapped \in Seq(Nat) /\ Len(swapped) = n
        /\ \A i \in 1 .. n : swapped[i] = IF i = k THEN list[n] ELSE list[i]
    BY <2>1, <2>3
  <2> HIDE DEF swapped, k
  <2>5. rest \in Seq(Nat) /\ Len(rest) = n - 1 /\ DOMAIN rest = 1 .. n - 1
        /\ \A i \in 1 .. n - 1 : rest[i] = IF i = k THEN list[n] ELSE list[i]
    BY <2>1, <2>4 DEF Front
  <2>6. SwapRemove(list, x) = rest
    BY <1>2 DEF SwapRemove, swapped, k
  <2> HIDE DEF rest, n, at
  <2>9. \A i, j \in 1 .. n : list[i] = list[j] => i = j
    BY DEF Once, n
  <2>7. \A i, j \in DOMAIN rest : rest[i] = rest[j] => i = j
    <3>1. SUFFICES ASSUME NEW i \in 1 .. n - 1, NEW j \in 1 .. n - 1, rest[i] = rest[j]
                   PROVE  i = j
      BY <2>5
    <3>2. i \in 1 .. n /\ j \in 1 .. n /\ n \in 1 .. n /\ i # n /\ j # n
      BY <2>1
    <3>3. CASE i = k \/ j = k
      BY <3>1, <3>2, <3>3, <2>5, <2>9
    <3>4. CASE i # k /\ j # k
      BY <3>1, <3>2, <3>4, <2>5, <2>9
    <3> QED BY <3>3, <3>4
  <2>8. ToSet(rest) = S \ {x}
    <3>1. S = {list[i] : i \in 1 .. n}
      BY DEF Once, ToSet, n
    <3>2. ToSet(rest) = {rest[i] : i \in 1 .. n - 1}
      BY <2>1, <2>5 DEF ToSet
    <3>3. \A y \in S \ {x} : \E i \in 1 .. n - 1 : rest[i] = y
      <4>1. SUFFICES ASSUME NEW i \in 1 .. n, list[i] # x
                     PROVE  \E j \in 1 .. n - 1 : rest[j] = list[i]
        BY <3>1
      <4>2. i # k
        BY <4>1, <2>2
      <4>3. CASE i = n
        <5>1. k \in 1 .. n - 1 /\ rest[k] = list[i]
          BY <4>2, <4>3, <2>1, <2>5
        <5> QED BY <5>1
      <4>4. CASE i # n
        <5>1. i \in 1 .. n - 1 /\ rest[i] = list[i]
          BY <4>2, <4>4, <2>1, <2>5
        <5> QED BY <5>1
      <4> QED BY <4>3, <4>4
    <3>4. \A i \in 1 .. n - 1 : rest[i] \in S /\ rest[i] # x
      BY <2>1, <2>2, <2>5, <3>1
    <3> QED BY <3>2, <3>3, <3>4
  <2> QED BY <2>5, <2>6, <2>7, <2>8 DEF Once
<1> QED BY <1>1, <1>2

-----------------------------------------------------------------------------
(* The end of a transfer. *)

\* What finish_request does to the two tables and to the transfer itself.
LEMMA ReleaseKeeps ==
  ASSUME Types, Lists, Counted,
         NEW t \in Running, NEW queue \in SUBSET (messages \ {t}), Release(t, queue)
  PROVE  /\ xfer' \in Seq(Record) /\ Transfers' = Transfers /\ Running' = Running \ {t}
         /\ table' \in [Models -> Seq(Nat)] /\ requests' \in Seq(Nat)
         /\ \A u \in Transfers \ {t} : xfer'[u] = xfer[u]
         /\ xfer'[t].id = xfer[t].id /\ xfer'[t].agent = xfer[t].agent
         /\ Lists' /\ Counted'
<1>1. t \in Transfers /\ xfer[t] \in Record /\ xfer[t].state = "running" /\ xfer[t].ends = 0
  BY DEF Running, Transfers, Types, Counted
<1>2. /\ xfer' \in Seq(Record) /\ Transfers' = Transfers
      /\ \A u \in Transfers \ {t} : xfer'[u] = xfer[u]
      /\ xfer'[t] = [xfer[t] EXCEPT !.state = "gone", !.told = TRUE, !.ends = 1]
  <2> DEFINE r == Ended(xfer[t])
  <2>2. xfer' = [xfer EXCEPT ![t] = r]
    BY DEF Release
  <2>5. r = [xfer[t] EXCEPT !.state = "gone", !.told = TRUE, !.ends = 1]
    BY <1>1 DEF Record, Ended
  <2>1. r \in Record
    <3>1. [xfer[t] EXCEPT !.state = "gone", !.told = TRUE, !.ends = 1] \in Record
      BY <1>1 DEF Record
    <3> QED BY <2>5, <3>1
  <2> HIDE DEF r
  <2>3. xfer \in Seq(Record) /\ t \in DOMAIN xfer
    BY <1>1 DEF Types, Transfers
  <2>4. xfer' \in Seq(Record) /\ DOMAIN xfer' = DOMAIN xfer /\ xfer'[t] = r
        /\ \A u \in DOMAIN xfer \ {t} : xfer'[u] = xfer[u]
    BY <2>1, <2>2, <2>3
  <2> QED BY <2>4, <2>5 DEF Transfers
<1>3. Running' = Running \ {t}
  BY <1>1, <1>2 DEF Running, Record
<1>4. Counted'
  <2>1. xfer'[t].state = "gone" /\ xfer'[t].told /\ xfer'[t].ends = 1
    BY <1>1, <1>2 DEF Record
  <2>2. SUFFICES ASSUME NEW u \in Transfers
                 PROVE  /\ xfer'[u].ends = IF xfer'[u].state = "gone" THEN 1 ELSE 0
                        /\ xfer'[u].state = "gone" => xfer'[u].told
    BY <1>2 DEF Counted
  <2>3. CASE u = t
    BY <2>1, <2>3
  <2>4. CASE u # t
    BY <1>2, <2>4 DEF Counted
  <2> QED BY <2>3, <2>4
<1>5. requests' \in Seq(Nat) /\ Once(requests', Running')
  BY <1>3, SwapRemoveOnce DEF Release, Types, Lists
<1>6. ASSUME NEW m \in Models
      PROVE  table'[m] \in Seq(Nat) /\ Once(table'[m], Mine(m)')
  <2>1. Mine(m)' = Mine(m) \ {t}
    BY <1>1, <1>2, <1>3 DEF Mine, Running
  <2>2. CASE m = xfer[t].model
    <3>1. table'[m] = SwapRemove(table[m], t)
      BY <2>2 DEF Release, Types
    <3> QED BY <2>1, <3>1, SwapRemoveOnce DEF Types, Lists
  <2>3. CASE m # xfer[t].model
    <3>1. table'[m] = table[m] /\ Mine(m)' = Mine(m)
      BY <2>1, <2>3 DEF Release, Types, Mine
    <3> QED BY <3>1 DEF Types, Lists
  <2> QED BY <2>2, <2>3
<1>7. table' \in [Models -> Seq(Nat)]
  <2>1. table' = [m \in Models |-> table'[m]]
    BY DEF Release, Types
  <2> QED BY <1>6, <2>1
<1>8. messages' \subseteq Running' /\ expired' \subseteq Running'
  BY <1>3 DEF Release, Lists
<1>9. Lists'
  BY <1>5, <1>6, <1>8 DEF Lists
<1> QED BY <1>1, <1>2, <1>3, <1>4, <1>5, <1>7, <1>9 DEF Record

\* on_model_event (Hears) and done_cb (Told) change one agent, and only if it
\* waits for this very request.
LEMMA HearsIs ==
  ASSUME Types, NEW t \in Running
  PROVE  LET a == xfer[t].agent IN
         /\ Hears(t) \in [Agents -> Entry] /\ a \in Agents
         /\ \A b \in Agents \ {a} : Hears(t)[b] = agent[b]
         /\ Hears(t)[a].alive = agent[a].alive
         /\ Hears(t)[a].sequence = agent[a].sequence
         /\ IF agent[a].alive /\ agent[a].awaits = xfer[t].id
              THEN Hears(t)[a].awaits = Nothing
              ELSE Hears(t)[a] = agent[a]
<1>1. xfer[t] \in Record
  BY DEF Running, Transfers, Types
<1>2. Nothing \in Ids
  BY DEF Nothing, Ids
<1> QED BY <1>1, <1>2 DEF Hears, Types, Record, Entry

\* A transfer ends, by itself, by a cancel, or with the agent that waits for it.
LEMMA EndKeeps ==
  ASSUME Inv, NEW t \in Running, NEW queue \in SUBSET (messages \ {t}), Release(t, queue),
         \/ agent' = Told(t)
         \/ /\ agent[xfer[t].agent].awaits = xfer[t].id
            /\ agent' = [Told(t) EXCEPT ![xfer[t].agent].alive = FALSE]
  PROVE  Inv'
<1> DEFINE a == xfer[t].agent
<1>1. Types /\ Lists /\ Counted /\ Identified /\ CallbackAlive /\ Owed
  BY DEF Inv
<1>2. /\ xfer' \in Seq(Record) /\ Transfers' = Transfers /\ Running' = Running \ {t}
      /\ table' \in [Models -> Seq(Nat)] /\ requests' \in Seq(Nat)
      /\ \A u \in Transfers \ {t} : xfer'[u] = xfer[u]
      /\ xfer'[t].id = xfer[t].id /\ xfer'[t].agent = xfer[t].agent
      /\ Lists' /\ Counted'
  BY <1>1, ReleaseKeeps
<1>3. \A u \in Transfers : xfer[u] \in Record
  BY <1>1 DEF Types, Transfers
<1>4. /\ Told(t) \in [Agents -> Entry] /\ a \in Agents
      /\ \A b \in Agents \ {a} : Told(t)[b] = agent[b]
      /\ Told(t)[a].alive = agent[a].alive /\ Told(t)[a].sequence = agent[a].sequence
      /\ IF ~xfer[t].told /\ agent[a].alive /\ agent[a].awaits = xfer[t].id
           THEN Told(t)[a].awaits = Nothing ELSE Told(t)[a] = agent[a]
  <2>1. agent \in [Agents -> Entry] /\ t \in Transfers
    BY <1>1 DEF Types, Running
  <2>2. a \in Agents
    BY <1>3, <2>1 DEF Record
  <2>3. CASE xfer[t].told
    BY <2>1, <2>2, <2>3 DEF Told
  <2>4. CASE ~xfer[t].told
    BY <1>1, <2>4, HearsIs DEF Told
  <2> QED BY <2>3, <2>4
<1>5. /\ agent' \in [Agents -> Entry]
      /\ \A b \in Agents \ {a} : agent'[b] = agent[b]
      /\ agent'[a].sequence = agent[a].sequence
      /\ agent'[a].alive => /\ agent[a].alive
                           /\ \/ agent'[a] = agent[a]
                              \/ agent'[a].awaits = Nothing
      /\ agent'[a].awaits = agent[a].awaits \/ agent[a].awaits = xfer[t].id
      /\ ~agent'[a].alive => ~agent[a].alive \/ agent[a].awaits = xfer[t].id
      /\ agent'[a].alive /\ ~xfer[t].told /\ agent[a].awaits = xfer[t].id => agent'[a].awaits = Nothing
  <2>1. CASE agent' = Told(t)
    BY <1>4, <2>1
  <2>2. CASE /\ agent[a].awaits = xfer[t].id
             /\ agent' = [Told(t) EXCEPT ![a].alive = FALSE]
    <3>1. /\ agent' \in [Agents -> Entry]
          /\ \A b \in Agents \ {a} : agent'[b] = Told(t)[b]
          /\ agent'[a] = [Told(t)[a] EXCEPT !.alive = FALSE]
      <4> DEFINE g == Told(t)
                 r == [g[a] EXCEPT !.alive = FALSE]
      <4>1. r \in Entry
        BY <1>4 DEF Entry
      <4>2. agent' = [g EXCEPT ![a] = r]
        BY <1>4, <2>2
      <4>3. g \in [Agents -> Entry] /\ a \in Agents
        BY <1>4
      <4> HIDE DEF g, r, a
      <4>4. agent' \in [Agents -> Entry] /\ agent'[a] = r /\ \A b \in Agents \ {a} : agent'[b] = g[b]
        BY <4>1, <4>2, <4>3
      <4> QED BY <4>4 DEF g, r
    <3>2. agent'[a].alive = FALSE /\ agent'[a].sequence = Told(t)[a].sequence
      BY <1>4, <3>1 DEF Entry
    <3> QED BY <1>4, <2>2, <3>1, <3>2
  <2> QED BY <2>1, <2>2
<1>6. \A u \in Transfers : u # t => xfer[u].id # xfer[t].id
  BY <1>1 DEF Identified, Running
<1>7. Types'
  BY <1>2, <1>5 DEF Types
<1>8. Identified'
  <2>1. \A u \in Transfers : xfer'[u].id = xfer[u].id /\ xfer'[u].agent = xfer[u].agent
    BY <1>2
  <2>2. \A b \in Agents : agent'[b].sequence = agent[b].sequence
    BY <1>5
  <2>3. \A u \in Transfers : xfer[u].agent \in Agents
    BY <1>3 DEF Record
  <2>4. \A u \in Transfers : /\ xfer'[u].id.agent = xfer'[u].agent
                             /\ xfer'[u].id.sequence \in 1 .. agent'[xfer'[u].agent].sequence
    BY <1>1, <2>1, <2>2, <2>3 DEF Identified
  <2>5. \A u, v \in Transfers : xfer'[u].id = xfer'[v].id => u = v
    BY <1>1, <2>1 DEF Identified
  <2> QED BY <1>2, <2>4, <2>5 DEF Identified
<1>9. CallbackAlive'
  <2>1. SUFFICES ASSUME NEW u \in Running', ~xfer'[u].told
                 PROVE  IF agent'[xfer'[u].agent].alive
                          THEN agent'[xfer'[u].agent].awaits = xfer'[u].id ELSE xfer'[u].summary
    BY DEF CallbackAlive
  <2>2. u \in Running /\ u # t /\ u \in Transfers
    BY <1>2 DEF Running
  <2>3. xfer'[u] = xfer[u] /\ xfer[u].agent \in Agents
    BY <1>2, <1>3, <2>2 DEF Record
  <2>4. IF agent[xfer[u].agent].alive
          THEN agent[xfer[u].agent].awaits = xfer[u].id ELSE xfer[u].summary
    BY <1>1, <2>1, <2>2, <2>3 DEF CallbackAlive
  <2>5. CASE xfer[u].agent = a
    <3>1. agent[a].alive => agent[a].awaits # xfer[t].id
      BY <1>6, <2>2, <2>4, <2>5
    <3> QED BY <1>5, <2>3, <2>4, <2>5, <3>1
  <2>6. CASE xfer[u].agent # a
    BY <1>5, <2>3, <2>4, <2>6
  <2> QED BY <2>5, <2>6
<1>10. Owed'
  <2>1. SUFFICES ASSUME NEW b \in Agents, agent'[b].alive, agent'[b].awaits # Nothing
                 PROVE  \E u \in Running' : Owes(u, b)'
    BY DEF Owed
  <2>2. agent'[b] = agent[b]
    BY <1>5, <2>1
  <2>3. PICK u \in Running : Owes(u, b)
    BY <1>1, <2>1, <2>2 DEF Owed
  <2>4. u # t
    BY <1>5, <2>1, <2>2, <2>3 DEF Owes
  <2>5. u \in Running' /\ xfer'[u] = xfer[u]
    BY <1>2, <2>3, <2>4 DEF Running
  <2> QED BY <2>2, <2>3, <2>5 DEF Owes
<1> QED BY <1>2, <1>7, <1>8, <1>9, <1>10 DEF Inv

\* The terminal event comes while the transfer goes on (write_cb).
LEMMA TellsKeeps ==
  ASSUME Inv, Tells, UNCHANGED << table, requests, expired >>
  PROVE  Inv'
<1>1. Types /\ Lists /\ Counted /\ Identified /\ CallbackAlive /\ Owed
  BY DEF Inv
<1>2. PICK t \in Running : /\ ~xfer[t].told /\ agent' = Hears(t)
                           /\ xfer' = [xfer EXCEPT ![t].told = TRUE] /\ messages' = messages
  BY DEF Tells
<1> DEFINE a == xfer[t].agent
<1>3. /\ t \in Transfers /\ \A u \in Transfers : xfer[u] \in Record
      /\ xfer[t].state = "running"
  BY <1>1 DEF Types, Running, Transfers
<1>4. /\ xfer' \in Seq(Record) /\ Transfers' = Transfers
      /\ \A u \in Transfers \ {t} : xfer'[u] = xfer[u]
      /\ xfer'[t] = [xfer[t] EXCEPT !.told = TRUE]
  <2> DEFINE r == [xfer[t] EXCEPT !.told = TRUE]
  <2>1. r \in Record
    BY <1>3 DEF Record
  <2>2. xfer' = [xfer EXCEPT ![t] = r]
    BY <1>2
  <2> HIDE DEF r
  <2>3. xfer \in Seq(Record) /\ t \in DOMAIN xfer
    BY <1>1, <1>3 DEF Types, Transfers
  <2>4. xfer' \in Seq(Record) /\ DOMAIN xfer' = DOMAIN xfer /\ xfer'[t] = r
        /\ \A u \in DOMAIN xfer \ {t} : xfer'[u] = xfer[u]
    BY <2>1, <2>2, <2>3
  <2> QED BY <2>4 DEF Transfers, r
<1>5. \A u \in Transfers : /\ xfer'[u].id = xfer[u].id /\ xfer'[u].agent = xfer[u].agent
                           /\ xfer'[u].model = xfer[u].model /\ xfer'[u].state = xfer[u].state
                           /\ xfer'[u].ends = xfer[u].ends /\ xfer'[u].summary = xfer[u].summary
  BY <1>3, <1>4 DEF Record
<1>6. Running' = Running
  BY <1>4, <1>5 DEF Running
<1>7. /\ agent' \in [Agents -> Entry] /\ a \in Agents
      /\ \A b \in Agents \ {a} : agent'[b] = agent[b]
      /\ agent'[a].alive = agent[a].alive /\ agent'[a].sequence = agent[a].sequence
      /\ IF agent[a].alive /\ agent[a].awaits = xfer[t].id
           THEN agent'[a].awaits = Nothing ELSE agent'[a] = agent[a]
  BY <1>1, <1>2, HearsIs
<1>8. Types'
  BY <1>1, <1>4, <1>7 DEF Types
<1>9. Lists'
  <2>1. \A m \in Models : Mine(m)' = Mine(m)
    BY <1>5, <1>6 DEF Mine, Running
  <2> QED BY <1>1, <1>2, <1>6, <2>1 DEF Lists, Once
<1>10. Counted'
  <2>1. SUFFICES ASSUME NEW u \in Transfers
                 PROVE  /\ xfer'[u].ends = IF xfer'[u].state = "gone" THEN 1 ELSE 0
                        /\ xfer'[u].state = "gone" => xfer'[u].told
    BY <1>4 DEF Counted
  <2>2. CASE u = t
    BY <1>1, <1>3, <1>5, <2>2 DEF Counted
  <2>3. CASE u # t
    BY <1>1, <1>4, <2>3 DEF Counted
  <2> QED BY <2>2, <2>3
<1>11. Identified'
  <2>1. \A b \in Agents : agent'[b].sequence = agent[b].sequence
    BY <1>7
  <2> QED BY <1>1, <1>3, <1>4, <1>5, <2>1 DEF Identified, Record
<1>12. CallbackAlive'
  <2>1. SUFFICES ASSUME NEW u \in Running, ~xfer'[u].told
                 PROVE  IF agent'[xfer'[u].agent].alive
                          THEN agent'[xfer'[u].agent].awaits = xfer'[u].id ELSE xfer'[u].summary
    BY <1>6 DEF CallbackAlive
  <2>2. u # t /\ u \in Transfers
    BY <1>3, <1>4, <2>1 DEF Running, Record
  <2>3. xfer'[u] = xfer[u] /\ xfer[u].agent \in Agents /\ xfer[u].id # xfer[t].id
    BY <1>1, <1>3, <1>4, <2>2 DEF Record, Identified
  <2>4. IF agent[xfer[u].agent].alive
          THEN agent[xfer[u].agent].awaits = xfer[u].id ELSE xfer[u].summary
    BY <1>1, <2>1, <2>3 DEF CallbackAlive
  <2> QED BY <1>7, <2>3, <2>4
<1>13. Owed'
  <2>1. SUFFICES ASSUME NEW b \in Agents, agent'[b].alive, agent'[b].awaits # Nothing
                 PROVE  \E u \in Running : Owes(u, b)'
    BY <1>6 DEF Owed
  <2>2. agent'[b] = agent[b]
    BY <1>7, <2>1
  <2>3. PICK u \in Running : Owes(u, b)
    BY <1>1, <2>1, <2>2 DEF Owed
  <2>4. u # t /\ u \in Transfers
    BY <1>7, <2>1, <2>2, <2>3 DEF Owes, Running
  <2>5. xfer'[u] = xfer[u]
    BY <1>4, <2>4
  <2> QED BY <2>2, <2>3, <2>5 DEF Owes
<1> QED BY <1>8, <1>9, <1>10, <1>11, <1>12, <1>13 DEF Inv

-----------------------------------------------------------------------------
(* The start of a transfer. *)

LEMMA AppendOnce ==
  ASSUME NEW S, NEW list \in Seq(Nat), Once(list, S), NEW x \in Nat, x \notin S
  PROVE  Append(list, x) \in Seq(Nat) /\ Once(Append(list, x), S \cup {x})
<1> DEFINE n == Len(list)
           longer == Append(list, x)
<1>1. /\ longer \in Seq(Nat) /\ n \in Nat /\ DOMAIN longer = 1 .. n + 1 /\ DOMAIN list = 1 .. n
      /\ longer[n + 1] = x /\ \A i \in 1 .. n : longer[i] = list[i]
  OBVIOUS
<1>2. S = {list[i] : i \in 1 .. n} /\ \A i, j \in 1 .. n : list[i] = list[j] => i = j
  BY <1>1 DEF Once, ToSet
<1> HIDE DEF longer, n
<1>3. ToSet(longer) = S \cup {x}
  <2>1. ToSet(longer) = {longer[i] : i \in 1 .. n + 1}
    BY <1>1 DEF ToSet
  <2>2. \A i \in 1 .. n + 1 : longer[i] \in S \cup {x}
    <3>1. \A i \in 1 .. n + 1 : i = n + 1 \/ i \in 1 .. n
      BY <1>1
    <3> QED BY <1>1, <1>2, <3>1
  <2>3. \A i \in 1 .. n : i \in 1 .. n + 1 /\ n + 1 \in 1 .. n + 1
    BY <1>1
  <2>4. n + 1 \in 1 .. n + 1
    BY <1>1
  <2> QED BY <1>1, <1>2, <2>1, <2>2, <2>3, <2>4
<1>4. \A i, j \in 1 .. n + 1 : longer[i] = longer[j] => i = j
  <2>1. SUFFICES ASSUME NEW i \in 1 .. n + 1, NEW j \in 1 .. n + 1, longer[i] = longer[j]
                 PROVE  i = j
    OBVIOUS
  <2>2. (i = n + 1 \/ i \in 1 .. n) /\ (j = n + 1 \/ j \in 1 .. n)
    BY <1>1
  <2>3. \A k \in 1 .. n : longer[k] # x
    BY <1>1, <1>2
  <2> QED BY <1>1, <1>2, <2>1, <2>2, <2>3
<1> QED BY <1>1, <1>3, <1>4 DEF Once, longer

\* No id of a transfer is the one of an agent that waits for nothing.
LEMMA IdsAreSomething ==
  ASSUME Types, Identified
  PROVE  \A u \in Transfers : xfer[u] \in Record /\ xfer[u].agent \in Agents /\ xfer[u].id # Nothing
<1>1. \A u \in Transfers : xfer[u] \in Record
  BY DEF Types, Transfers
<1>2. \A u \in Transfers : xfer[u].id.sequence # 0
  <2>1. SUFFICES ASSUME NEW u \in Transfers PROVE xfer[u].id.sequence # 0
    OBVIOUS
  <2>2. agent[xfer[u].agent].sequence \in Nat
    BY <1>1 DEF Types, Entry, Record
  <2> QED BY <2>2 DEF Identified
<1> QED BY <1>1, <1>2 DEF Record, Nothing

\* start_model_request and start_compaction_request, started or refused.
LEMMA RequestKeeps ==
  ASSUME Inv, NEW a \in Agents, NEW m \in Models, NEW summary \in BOOLEAN, Request(a, m, summary)
  PROVE  Inv'
<1> DEFINE id == NextId(a, agent[a].sequence + 1)
           t  == Len(xfer) + 1
           Asker(awaited, done) == [alive |-> TRUE, sequence |-> id.sequence, model |-> m,
                                   awaits |-> awaited, done |-> done]
           r  == [agent |-> a, id |-> id, model |-> m, summary |-> summary,
                  state |-> "running", told |-> FALSE, ends |-> 0]
<1>1. Types /\ Lists /\ Counted /\ Identified /\ CallbackAlive /\ Owed
  BY DEF Inv
<1>2. agent[a] \in Entry /\ agent[a].alive /\ agent[a].awaits = Nothing /\ id \in Ids
  BY <1>1 DEF Types, Request, NextId, Ids, Entry
<1>3. \A u \in Transfers : xfer[u] \in Record /\ xfer[u].agent \in Agents /\ xfer[u].id # Nothing
  BY <1>1, IdsAreSomething
<1>4. UNCHANGED << messages, expired >>
  BY DEF Request
<1>5. CASE /\ UNCHANGED << xfer, table, requests >>
           /\ agent' = [agent EXCEPT ![a] = Asker(Nothing, agent[a].done \/ ~summary)]
  <2>1. /\ agent' \in [Agents -> Entry] /\ agent'[a].alive /\ agent'[a].awaits = Nothing
        /\ agent'[a].sequence = agent[a].sequence + 1
        /\ \A b \in Agents \ {a} : agent'[b] = agent[b]
    <3> DEFINE e == Asker(Nothing, agent[a].done \/ ~summary)
    <3>1. e \in Entry /\ e.alive /\ e.awaits = Nothing /\ e.sequence = agent[a].sequence + 1
      BY <1>2 DEF Entry, NextId, Ids, Nothing
    <3> HIDE DEF e
    <3>2. agent \in [Agents -> Entry]
      BY <1>1 DEF Types
    <3>3. agent' = [agent EXCEPT ![a] = e]
      BY <1>5 DEF e
    <3> QED BY <3>1, <3>2, <3>3
  <2>2. Types' /\ Lists' /\ Counted'
    BY <1>1, <1>4, <1>5, <2>1 DEF Types, Lists, Counted, Once, Mine, Running, Transfers
  <2>3. Identified'
    <3>1. \A b \in Agents : /\ agent[b].sequence \in Nat /\ agent'[b].sequence \in Nat
                            /\ agent[b].sequence <= agent'[b].sequence
      <4>1. agent[a].sequence \in Nat
        BY <1>2 DEF Entry
      <4>2. \A b \in Agents : agent[b].sequence \in Nat
        BY <1>1 DEF Types, Entry
      <4> QED BY <2>1, <4>1, <4>2
    <3>2. SUFFICES ASSUME NEW u \in Transfers
                   PROVE  xfer[u].id.sequence \in 1 .. agent'[xfer[u].agent].sequence
      BY <1>1, <1>5 DEF Identified, Transfers
    <3> QED BY <1>1, <1>3, <3>1 DEF Identified
  <2>4. CallbackAlive'
    <3>1. \A b \in Agents : agent'[b].alive = agent[b].alive /\ agent'[b].awaits = agent[b].awaits
      <4>1. SUFFICES ASSUME NEW b \in Agents
                     PROVE  agent'[b].alive = agent[b].alive /\ agent'[b].awaits = agent[b].awaits
        OBVIOUS
      <4>2. CASE b = a
        <5>1. agent[a].alive = TRUE /\ agent'[a].alive = TRUE
          BY <1>2, <2>1 DEF Entry
        <5> QED BY <1>2, <2>1, <4>2, <5>1
      <4>3. CASE b # a
        BY <2>1, <4>3
      <4> QED BY <4>2, <4>3
    <3> QED BY <1>1, <1>3, <1>5, <3>1 DEF CallbackAlive, Running, Transfers
  <2>5. Owed'
    BY <1>1, <1>5, <2>1 DEF Owed, Owes, Running, Transfers
  <2> QED BY <2>2, <2>3, <2>4, <2>5 DEF Inv
<1>6. CASE /\ xfer' = Append(xfer, r)
           /\ table' = [table EXCEPT ![m] = Append(@, t)]
           /\ requests' = Append(requests, t)
           /\ agent' = [agent EXCEPT ![a] = Asker(id, agent[a].done /\ summary)]
  <2>1. /\ agent' \in [Agents -> Entry] /\ agent'[a].alive /\ agent'[a].awaits = id
        /\ agent'[a].sequence = agent[a].sequence + 1 /\ agent'[a].model = m
        /\ agent'[a].done => summary
        /\ \A b \in Agents \ {a} : agent'[b] = agent[b]
    <3> DEFINE e == Asker(id, agent[a].done /\ summary)
    <3>1. /\ e \in Entry /\ e.alive /\ e.awaits = id /\ e.sequence = agent[a].sequence + 1
          /\ e.model = m /\ (e.done => summary)
      BY <1>2 DEF Entry, NextId
    <3> HIDE DEF e, id
    <3>2. agent \in [Agents -> Entry]
      BY <1>1 DEF Types
    <3>3. agent' = [agent EXCEPT ![a] = e]
      BY <1>6 DEF e
    <3> QED BY <3>1, <3>2, <3>3
  <2>2. r \in Record
    BY <1>2 DEF Record
  <2>3. r.agent = a /\ r.id = id /\ r.model = m /\ r.summary = summary /\ r.state = "running"
        /\ ~r.told /\ r.ends = 0
    OBVIOUS
  <2> HIDE DEF r
  <2>4. /\ xfer' \in Seq(Record) /\ t \in Nat /\ t \notin Transfers
        /\ Transfers' = Transfers \cup {t} /\ xfer'[t] = r
        /\ \A u \in Transfers : xfer'[u] = xfer[u]
    BY <1>1, <1>6, <2>2 DEF Types, Transfers
  <2> HIDE DEF t
  <2>5. Running' = Running \cup {t} /\ t \notin Running
    BY <2>3, <2>4 DEF Running
  <2>6. Lists'
    <3>1. Once(requests', Running')
      BY <1>1, <1>6, <2>4, <2>5, AppendOnce DEF Types, Lists
    <3>2. ASSUME NEW n \in Models PROVE Once(table'[n], Mine(n)')
      <4>1. CASE n = m
        <5>1. Mine(n)' = Mine(n) \cup {t} /\ t \notin Mine(n)
          BY <2>3, <2>4, <2>5, <4>1 DEF Mine, Running
        <5>2. table'[n] = Append(table[n], t)
          BY <1>1, <1>6, <4>1 DEF Types
        <5> QED BY <1>1, <2>4, <5>1, <5>2, AppendOnce DEF Types, Lists
      <4>2. CASE n # m
        <5>1. Mine(n)' = Mine(n)
          BY <2>3, <2>4, <2>5, <4>2 DEF Mine, Running
        <5>2. table'[n] = table[n]
          BY <1>1, <1>6, <4>2 DEF Types
        <5> QED BY <1>1, <5>1, <5>2 DEF Lists
      <4> QED BY <4>1, <4>2
    <3> QED BY <1>1, <1>4, <2>5, <3>1, <3>2 DEF Lists
  <2>7. Types'
    <3>1. table[m] \in Seq(Nat) /\ Append(table[m], t) \in Seq(Nat)
      BY <1>1, <2>4 DEF Types
    <3> QED BY <1>1, <1>6, <2>1, <2>4, <3>1 DEF Types
  <2>8. Counted'
    BY <1>1, <2>3, <2>4 DEF Counted
  <2>9. Identified'
    <3>1. \A b \in Agents : /\ agent[b].sequence \in Nat /\ agent'[b].sequence \in Nat
                            /\ agent[b].sequence <= agent'[b].sequence
      <4>1. agent[a].sequence \in Nat
        BY <1>2 DEF Entry
      <4>2. \A b \in Agents : agent[b].sequence \in Nat
        BY <1>1 DEF Types, Entry
      <4> QED BY <2>1, <4>1, <4>2
    <3>2. id.agent = a /\ id.sequence = agent[a].sequence + 1
      BY DEF NextId
    <3>3. \A u \in Transfers : /\ xfer[u].id.agent = xfer[u].agent
                               /\ xfer[u].id.sequence \in 1 .. agent'[xfer[u].agent].sequence
                               /\ xfer[u].id # id
      BY <1>1, <1>3, <3>1, <3>2 DEF Identified
    <3>4. id.sequence \in 1 .. agent'[a].sequence
      BY <2>1, <3>1, <3>2
    <3> HIDE DEF id
    <3>5. \A u \in Transfers' : /\ xfer'[u].id.agent = xfer'[u].agent
                                /\ xfer'[u].id.sequence \in 1 .. agent'[xfer'[u].agent].sequence
      BY <2>3, <2>4, <3>2, <3>3, <3>4
    <3>6. \A u, v \in Transfers' : xfer'[u].id = xfer'[v].id => u = v
      BY <1>1, <2>3, <2>4, <3>3 DEF Identified
    <3> QED BY <3>5, <3>6 DEF Identified
  <2>10. CallbackAlive'
    <3>1. SUFFICES ASSUME NEW u \in Running', ~xfer'[u].told
                   PROVE  IF agent'[xfer'[u].agent].alive
                            THEN agent'[xfer'[u].agent].awaits = xfer'[u].id ELSE xfer'[u].summary
      BY DEF CallbackAlive
    <3>2. CASE u = t
      BY <2>1, <2>3, <2>4, <3>2
    <3>3. CASE u # t
      <4>1. u \in Running /\ u \in Transfers /\ xfer'[u] = xfer[u]
        BY <2>4, <2>5, <3>3 DEF Running
      <4>2. IF agent[xfer[u].agent].alive
              THEN agent[xfer[u].agent].awaits = xfer[u].id ELSE xfer[u].summary
        BY <1>1, <3>1, <4>1 DEF CallbackAlive
      <4>3. xfer[u].agent # a
        BY <1>2, <1>3, <4>1, <4>2
      <4> QED BY <1>3, <2>1, <4>1, <4>2, <4>3
    <3> QED BY <3>2, <3>3
  <2>11. Owed'
    <3>1. SUFFICES ASSUME NEW b \in Agents, agent'[b].alive, agent'[b].awaits # Nothing
                   PROVE  \E u \in Running' : Owes(u, b)'
      BY DEF Owed
    <3>2. CASE b = a
      BY <2>1, <2>3, <2>4, <2>5, <3>2 DEF Owes
    <3>3. CASE b # a
      <4>1. agent'[b] = agent[b]
        BY <2>1, <3>3
      <4>2. PICK u \in Running : Owes(u, b)
        BY <1>1, <3>1, <4>1 DEF Owed
      <4>3. u \in Running' /\ xfer'[u] = xfer[u]
        BY <2>4, <2>5, <4>2 DEF Running
      <4> QED BY <4>1, <4>2, <4>3 DEF Owes
    <3> QED BY <3>2, <3>3
  <2> QED BY <2>6, <2>7, <2>8, <2>9, <2>10, <2>11 DEF Inv
<1> QED BY <1>5, <1>6 DEF Request

-----------------------------------------------------------------------------
(* The whole. *)

LEMMA InitInv == Init => Inv
<1> SUFFICES ASSUME Init PROVE Inv
  OBVIOUS
<1>1. Transfers = {} /\ Running = {}
  BY DEF Init, Transfers, Running
<1>2. \A m \in Models : Mine(m) = {} /\ table[m] = << >>
  BY <1>1 DEF Init, Mine
<1>3. Once(<< >>, {})
  BY DEF Once, ToSet
<1>4. Lists
  BY <1>1, <1>2, <1>3 DEF Lists, Init
<1>5. agent \in [Agents -> Entry] /\ \A a \in Agents : agent[a].awaits = Nothing
  <2>1. (CHOOSE m \in Models : TRUE) \in Models
    BY ModelsAssumption
  <2> QED BY <2>1 DEF Init, Entry, Nothing, Ids
<1>6. Types
  BY <1>5 DEF Types, Init
<1> QED BY <1>1, <1>4, <1>5, <1>6 DEF Inv, Counted, Identified, CallbackAlive, Owed

\* What a cancel takes is a running transfer with the id the agent awaits.
LEMMA NamedIs ==
  ASSUME Inv, NEW a \in Agents, NEW t \in Named(a)
  PROVE  t \in Running /\ xfer[t].id = agent[a].awaits
<1>1. agent[a].model \in Models
  BY DEF Inv, Types, Entry
<1>2. t \in ToSet(table[agent[a].model]) /\ xfer[t].id = agent[a].awaits
  BY DEF Named, ToSet
<1> QED BY <1>1, <1>2 DEF Inv, Lists, Once, Mine

\* A cancel finds its transfer, the first of those with that id.
LEMMA NamedIsThere ==
  ASSUME Inv, NEW a \in Agents, NEW t \in ToSet(table[agent[a].model]),
         xfer[t].id = agent[a].awaits
  PROVE  Named(a) # {}
<1> DEFINE list == table[agent[a].model]
<1>1. list \in Seq(Nat) /\ agent[a].model \in Models
  BY DEF Inv, Types, Entry
<1>2. PICK k \in DOMAIN list : list[k] = t
  BY DEF ToSet
<1>3. \A j \in DOMAIN list : xfer[list[j]].id = agent[a].awaits => j = k
  <2>1. SUFFICES ASSUME NEW j \in DOMAIN list, xfer[list[j]].id = agent[a].awaits PROVE j = k
    OBVIOUS
  <2>2. list[j] \in Transfers /\ list[k] \in Transfers
    BY <1>1, <1>2 DEF Inv, Lists, Once, ToSet, Mine, Running
  <2>3. list[j] = list[k]
    BY <1>2, <2>1, <2>2 DEF Inv, Identified
  <2> QED BY <1>1, <2>3 DEF Inv, Lists, Once
<1>4. \A j \in 1 .. k - 1 : j \in DOMAIN list /\ j # k
  BY <1>1
<1> QED BY <1>2, <1>3, <1>4 DEF Named

\* If the agent does wait, that transfer is its own and has yet to tell it.
LEMMA NamedIsOwn ==
  ASSUME Inv, NEW a \in Agents, NEW t \in Named(a), agent[a].alive, agent[a].awaits # Nothing
  PROVE  xfer[t].agent = a /\ ~xfer[t].told
<1>1. PICK u \in Running : Owes(u, a)
  BY DEF Inv, Owed
<1>2. u = t
  BY <1>1, NamedIs DEF Inv, Identified, Owes, Running
<1> QED BY <1>1, <1>2 DEF Owes

\* Nothing else changes when the main loop moves on.
LEMMA FrameKeeps ==
  ASSUME Inv, UNCHANGED << xfer, table, requests, messages, agent, expired >>
  PROVE  Inv'
BY DEF Inv, Types, Lists, Once, Mine, Counted, Identified, CallbackAlive, Owed, Owes, Running,
       Transfers

\* More messages or more times that are over, of running transfers.
LEMMA QueueKeeps ==
  ASSUME Inv, UNCHANGED << xfer, table, requests, agent >>,
         messages' \subseteq Running, expired' \subseteq Running
  PROVE  Inv'
BY DEF Inv, Types, Lists, Once, Mine, Counted, Identified, CallbackAlive, Owed, Owes, Running,
       Transfers

\* FinishRequest of a running transfer, from Drain, Cancel and FreeModel.
LEMMA FinishKeeps ==
  ASSUME Inv, NEW t \in Running, NEW queue \in SUBSET (messages \ {t}), FinishRequest(t, queue)
  PROVE  Inv'
BY EndKeeps DEF FinishRequest

LEMMA AbortKeeps ==
  ASSUME Inv, NEW t \in Running, Abort(t)
  PROVE  Inv'
BY FinishKeeps DEF Abort, Without

LEMMA DestroyKeeps ==
  ASSUME Inv, NEW a \in Agents, Destroy(a)
  PROVE  Inv'
<1>1. ASSUME NEW t \in ToCancel(a), Release(t, Without(t)),
             agent' = [Told(t) EXCEPT ![a].alive = FALSE]
      PROVE  Inv'
  <2>1. t \in Named(a) /\ agent[a].awaits # Nothing /\ agent[a].alive
    BY <1>1 DEF ToCancel, Destroy
  <2>2. t \in Running /\ xfer[t].id = agent[a].awaits /\ xfer[t].agent = a
    BY <2>1, NamedIs, NamedIsOwn
  <2> QED BY <1>1, <2>2, EndKeeps DEF Without
<1>2. ASSUME ToCancel(a) = {}, agent' = [agent EXCEPT ![a].alive = FALSE],
             UNCHANGED << xfer, table, requests, messages, expired >>
      PROVE  Inv'
  <2>1. /\ agent' \in [Agents -> Entry] /\ ~agent'[a].alive
        /\ agent'[a].sequence = agent[a].sequence
        /\ \A b \in Agents \ {a} : agent'[b] = agent[b]
    <3>1. agent \in [Agents -> Entry]
      BY DEF Inv, Types
    <3>2. [agent[a] EXCEPT !.alive = FALSE] \in Entry
      BY <3>1 DEF Entry
    <3>3. agent'[a] = [agent[a] EXCEPT !.alive = FALSE]
      BY <1>2, <3>1
    <3> QED BY <1>2, <3>1, <3>2, <3>3 DEF Entry
  <2>2. Types' /\ Lists' /\ Counted'
    BY <1>2, <2>1 DEF Inv, Types, Lists, Once, Mine, Counted, Running, Transfers
  <2>3. Identified'
    <3>1. \A b \in Agents : agent'[b].sequence = agent[b].sequence
      BY <2>1
    <3>2. \A u \in Transfers : xfer[u].agent \in Agents
      BY IdsAreSomething DEF Inv
    <3> QED BY <1>2, <3>1, <3>2 DEF Inv, Identified, Transfers
  <2>4. CallbackAlive'
    <3>1. SUFFICES ASSUME NEW u \in Running, ~xfer[u].told
                   PROVE  IF agent'[xfer[u].agent].alive
                            THEN agent'[xfer[u].agent].awaits = xfer[u].id ELSE xfer[u].summary
      BY <1>2 DEF CallbackAlive, Running, Transfers
    <3>2. IF agent[xfer[u].agent].alive
            THEN agent[xfer[u].agent].awaits = xfer[u].id ELSE xfer[u].summary
      BY <3>1 DEF Inv, CallbackAlive
    <3>3. u \in Transfers /\ xfer[u].agent \in Agents /\ xfer[u].id # Nothing
      BY IdsAreSomething DEF Inv, Running
    <3>4. CASE xfer[u].agent = a
      <4>1. agent[a].alive /\ agent[a].awaits = xfer[u].id /\ agent[a].awaits # Nothing
        BY <3>2, <3>3, <3>4 DEF Destroy
      <4>2. PICK v \in Running : Owes(v, a)
        BY <4>1 DEF Inv, Owed
      <4>3. v = u
        BY <3>3, <4>1, <4>2 DEF Inv, Identified, Owes, Running
      <4>4. CASE agent[a].done
        BY <2>1, <3>4, <4>2, <4>3, <4>4 DEF Owes
      <4>5. CASE ~agent[a].done
        <5>1. Named(a) = {}
          BY <1>2, <4>1, <4>5 DEF ToCancel
        <5>2. agent[a].model \in Models /\ u \in ToSet(table[agent[a].model])
          BY <4>2, <4>3 DEF Inv, Types, Entry, Lists, Once, Mine, Owes
        <5> QED BY <4>1, <5>1, <5>2, NamedIsThere
      <4> QED BY <4>4, <4>5
    <3>5. CASE xfer[u].agent # a
      BY <2>1, <3>2, <3>3, <3>5
    <3> QED BY <3>4, <3>5
  <2>5. Owed'
    <3>1. \A b \in Agents : agent'[b].alive => agent'[b] = agent[b]
      BY <2>1
    <3> QED BY <1>2, <3>1 DEF Inv, Owed, Owes, Running, Transfers
  <2> QED BY <2>2, <2>3, <2>4, <2>5 DEF Inv
<1> QED BY <1>1, <1>2 DEF Destroy

LEMMA NextKeeps ==
  ASSUME Inv, [Next]_vars
  PROVE  Inv'
<1>1. CASE EpollWait
  BY <1>1, FrameKeeps DEF EpollWait
<1>2. CASE Dispatch
  BY <1>2, FrameKeeps DEF Dispatch
<1>3. CASE Timers
  <2>1. messages' \subseteq Running /\ expired' \subseteq Running
    BY <1>3 DEF Timers, Inv, Lists
  <2> QED BY <1>3, <2>1, QueueKeeps DEF Timers
<1>4. CASE CurlReturns
  BY <1>4, FrameKeeps DEF CurlReturns
<1>5. CASE Drain
  <2>1. PICK t \in messages : FinishRequest(t, messages \ {t})
    BY <1>5 DEF Drain
  <2>2. t \in Running
    BY DEF Inv, Lists
  <2> QED BY <2>1, <2>2, FinishKeeps
<1>6. CASE Drained \/ AgentsDone \/ HttpFree \/ Exit
  BY <1>6, FrameKeeps DEF Drained, AgentsDone, HttpFree, Exit
<1>7. CASE FreeModel
  <2>1. PICK m \in Models : table[m] # << >> /\ Abort(Last(table[m]))
    BY <1>7 DEF FreeModel
  <2>2. Last(table[m]) \in Running
    <3>1. table[m] \in Seq(Nat) /\ Len(table[m]) \in DOMAIN table[m]
      BY <2>1 DEF Inv, Types
    <3>2. Last(table[m]) \in ToSet(table[m])
      BY <3>1 DEF Last, ToSet
    <3> QED BY <3>2 DEF Inv, Lists, Once, Mine
  <2> QED BY <2>1, <2>2, AbortKeeps
<1>8. CASE CurlDoes
  <2>1. CASE Completes
    <3>1. messages' \subseteq Running /\ expired' \subseteq Running
      BY <1>8, <2>1 DEF CurlDoes, Completes, Inv, Lists
    <3> QED BY <1>8, <2>1, <3>1, QueueKeeps DEF CurlDoes, Completes
  <2>2. CASE Tells
    BY <1>8, <2>2, TellsKeeps DEF CurlDoes
  <2>3. CASE SocketAdded \/ SocketRemoved
    BY <1>8, <2>3, FrameKeeps DEF CurlDoes, SocketAdded, SocketRemoved
  <2> QED BY <1>8, <2>1, <2>2, <2>3 DEF CurlDoes
<1>9. ASSUME NEW t \in Running, Expire(t) PROVE Inv'
  <2>1. messages' \subseteq Running /\ expired' \subseteq Running
    BY <1>9 DEF Expire, Inv, Lists
  <2> QED BY <1>9, <2>1, QueueKeeps DEF Expire
<1>10. ASSUME NEW a \in Agents, NEW m \in Models, NEW summary \in BOOLEAN, Request(a, m, summary)
       PROVE  Inv'
  BY <1>10, RequestKeeps
<1>11. ASSUME NEW a \in Agents, Cancel(a) PROVE Inv'
  BY <1>11, NamedIs, AbortKeeps DEF Cancel
<1>12. ASSUME NEW a \in Agents, Destroy(a) PROVE Inv'
  BY <1>12, DestroyKeeps
<1>13. CASE UNCHANGED vars
  BY <1>13, FrameKeeps DEF vars
<1> QED
  BY <1>1, <1>2, <1>3, <1>4, <1>5, <1>6, <1>7, <1>8, <1>9, <1>10, <1>11, <1>12, <1>13
  DEF Next, MainLoop

\* The inductive invariant: types, both lists, counters, ids, and who owes
\* whom a terminal event (http.c, openai.c, loop.c:615).
THEOREM Invariance == Spec => []Inv
  BY InitInv, NextKeeps, PTL DEF Spec

\* A transfer is finished once and not before its agent was told, for any
\* number of transfers (finish_request).
THEOREM OneEnd == Spec => []FinishedOnce
<1>1. Inv => FinishedOnce
  BY DEF Inv, Counted, Lists, FinishedOnce
<1> QED BY <1>1, Invariance, PTL

\* A list that holds the elements of S once has as many entries.
LEMMA OnceCounts ==
  ASSUME NEW S, NEW list \in Seq(Nat), Once(list, S)
  PROVE  Len(list) = Cardinality(S)
<1> DEFINE n == Len(list)
<1>1. n \in Nat /\ DOMAIN list = 1 .. n /\ S = {list[i] : i \in 1 .. n}
  BY DEF Once, ToSet
<1>2. list \in Bijection(1 .. n, S)
  BY <1>1 DEF Once, Bijection, Injection, Surjection, IsInjective
<1>3. IsFiniteSet(1 .. n) /\ Cardinality(1 .. n) = n
  <2>1. 1 \in Int /\ n \in Int /\ (IF 1 > n THEN 0 ELSE n - 1 + 1) = n
    BY <1>1
  <2> HIDE DEF n
  <2>2. IsFiniteSet(1 .. n) /\ Cardinality(1 .. n) = IF 1 > n THEN 0 ELSE n - 1 + 1
    BY <2>1, FS_Interval
  <2> QED BY <2>1, <2>2
<1> QED BY <1>2, <1>3, FS_Bijection DEF ExistsBijection

\* No entry of a table and no callback refers to what is gone: both tables
\* hold the running transfers once each, and each transfer that has yet to
\* tell its agent finds it alive and waiting.
THEOREM NothingDangles == Spec => []NoDangling
<1>1. ASSUME Inv PROVE NoDangling
  <2>1. ToSet(requests) = Running /\ Len(requests) = Cardinality(Running)
    BY <1>1, OnceCounts DEF Inv, Types, Lists, Once
  <2>2. ASSUME NEW m \in Models
        PROVE  ToSet(table[m]) = Mine(m) /\ Len(table[m]) = Cardinality(Mine(m))
    BY <1>1, OnceCounts DEF Inv, Types, Lists, Once
  <2> QED BY <1>1, <2>1, <2>2 DEF NoDangling, Tracked, Mine, Inv
<1> QED BY <1>1, Invariance, PTL

\* A cancel ends the wait of the agent that asked for it and leaves every
\* other agent as it was, whoever shares the model (PROGRESS.md:117).
THEOREM CancelIsOwn == Spec => CancelsOwn
<1>1. ASSUME Inv, [Next]_vars
      PROVE  [\A a \in Agents : Cancel(a) =>
                /\ agent'[a].awaits = Nothing
                /\ \A b \in Agents \ {a} : agent'[b] = agent[b]]_vars
  <2>1. SUFFICES ASSUME NEW a \in Agents, Cancel(a)
                 PROVE  /\ agent'[a].awaits = Nothing
                        /\ \A b \in Agents \ {a} : agent'[b] = agent[b]
    OBVIOUS
  <2>2. PICK t \in Named(a) : Abort(t)
    BY <2>1 DEF Cancel
  <2>3. /\ t \in Running /\ xfer[t].id = agent[a].awaits
        /\ xfer[t].agent = a /\ ~xfer[t].told /\ agent[a].alive
    BY <1>1, <2>1, NamedIs, NamedIsOwn DEF Cancel
  <2>4. agent' = Hears(t)
    BY <2>2, <2>3 DEF Abort, FinishRequest, Told
  <2> QED BY <1>1, <2>3, <2>4, HearsIs DEF Inv
<1> QED BY <1>1, Invariance, PTL DEF Spec, CancelsOwn
============================================================================
