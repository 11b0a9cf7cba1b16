-------------------------- MODULE SchedulerProofs --------------------------
(***************************************************************************)
(* What holds of the scheduler for any agents and any limit: slots are     *)
(* given in the order of the list, and each failed start lets at most one  *)
(* agent more than the limit run.                                          *)
(***************************************************************************)
EXTENDS Scheduler, FiniteSetTheorems, TLAPS

\* An agent is listed once.
Distinct == \A i, j \in 1 .. Len(list) : list[i] = list[j] => i = j

\* An entry this scan has passed over was passed over for want of a slot, and
\* none has come free since: what follows it in the list has not started.
Passed ==
  \A i \in 1 .. Len(list) : i < at /\ phase[list[i]] = "ready" => running >= Limit

Order == TypeOK /\ Distinct /\ Fifo /\ Passed

LEMMA LimitIsNat == Limit \in Nat /\ Limit > 0
  BY SchedulerAssumption DEF Limit

\* A visit changes nothing about an agent but that it left "ready".
LEMMA VisitType ==
  ASSUME TypeOK, at \in 1 .. Len(list), NEW p \in {"busy", "ended"},
         phase' = [phase EXCEPT ![list[at]] = p],
         at' = at + 1, UNCHANGED list, running' \in Nat, failed' \in Nat
  PROVE  TypeOK'
BY DEF TypeOK

\* The counter stays a number whichever way a turn's step ends.
LEMMA ResumedType ==
  ASSUME NEW n \in Nat, Resumed(n)
  PROVE  /\ running' \in Nat
         /\ \E p \in {"busy", "ended"} : phase' = [phase EXCEPT ![list[at]] = p]
BY DEF Resumed, GiveBack

\* A start or a step of the entry the scan is at keeps the order, once a free
\* slot shows that no earlier entry waits.
LEMMA VisitOrder ==
  ASSUME Order, at \in 1 .. Len(list), NEW p \in {"busy", "ended"},
         phase' = [phase EXCEPT ![list[at]] = p],
         at' = at + 1, UNCHANGED list, running' \in Nat, failed' \in Nat,
         \A i \in 1 .. at - 1 : phase[list[i]] # "ready"
  PROVE  Order'
<1>1. TypeOK'
  BY VisitType DEF Order
<1>2. Distinct'
  BY DEF Order, Distinct
<1>3. \A i \in 1 .. Len(list) : list[i] \in Agent
  BY DEF Order, TypeOK
<1>4. \A i \in 1 .. Len(list) : phase'[list[i]] = IF i = at THEN p ELSE phase[list[i]]
  BY <1>3 DEF Order, TypeOK, Distinct
<1>5. at \in Nat /\ Len(list) \in Nat
  BY DEF Order, TypeOK
<1>6. Fifo'
  <2> SUFFICES ASSUME NEW i \in 1 .. Len(list), NEW j \in 1 .. Len(list), i < j,
                      phase'[list[j]] # "ready"
               PROVE  phase'[list[i]] # "ready"
    BY DEF Fifo
  <2>1. CASE i = at
    BY <2>1, <1>4
  <2>2. CASE i < at
    BY <2>2, <1>4, <1>5
  <2>3. CASE i > at
    BY <2>3, <1>4, <1>5 DEF Order, Fifo
  <2> QED BY <2>1, <2>2, <2>3, <1>5
<1>7. Passed'
  BY <1>4, <1>5 DEF Passed
<1> QED BY <1>1, <1>2, <1>6, <1>7 DEF Order

\* An entry that is not ready has none waiting before it.
LEMMA NoneWaitsBefore ==
  ASSUME Order, at \in 1 .. Len(list), phase[list[at]] # "ready" \/ running < Limit
  PROVE  \A i \in 1 .. at - 1 : phase[list[i]] # "ready"
BY LimitIsNat DEF Order, TypeOK, Fifo, Passed

LEMMA OrderInit == Init => Order
BY DEF Init, Order, TypeOK, Distinct, Fifo, Passed

LEMMA OrderNext == Order /\ [Next]_vars => Order'
<1> SUFFICES ASSUME Order, [Next]_vars PROVE Order'
  OBVIOUS
<1> USE DEF Visit
<1>1. ASSUME NEW a \in Agent, Add(a) PROVE Order'
  <2>1. TypeOK'
    BY <1>1 DEF Add, Order, TypeOK
  <2>2. /\ Len(list') = Len(list) + 1 /\ Len(list) \in Nat
        /\ list'[Len(list) + 1] = a
        /\ \A i \in 1 .. Len(list) : list'[i] = list[i]
    BY <1>1 DEF Add, Order, TypeOK
  <2>3. \A i \in 1 .. Len(list) : list[i] # a
    BY <1>1 DEF Add, Listed
  <2>4. Distinct'
    BY <2>2, <2>3 DEF Order, Distinct
  <2>5. Fifo'
    BY <1>1, <2>2 DEF Add, Order, Fifo
  <2>6. Passed'
    BY <1>1, <2>2 DEF Add, Order, Passed
  <2> QED BY <2>1, <2>4, <2>5, <2>6 DEF Order
<1>2. CASE Pump
  BY <1>2 DEF Pump, Order, TypeOK, Distinct, Fifo, Passed
<1>3. CASE Return
  BY <1>3 DEF Return, Order, TypeOK, Distinct, Fifo, Passed
<1>4. CASE SkipEnded
  BY <1>4 DEF SkipEnded, Skip, Order, TypeOK, Distinct, Fifo, Passed
<1>5. CASE SkipQueued
  BY <1>5, LimitIsNat DEF SkipQueued, Skip, Order, TypeOK, Distinct, Fifo, Passed
<1>6. CASE StartAgent
  <2>1. running + 1 \in Nat /\ failed' \in Nat
    BY <1>6 DEF StartAgent, Order, TypeOK
  <2>2. \A i \in 1 .. at - 1 : phase[list[i]] # "ready"
    BY <1>6, NoneWaitsBefore DEF StartAgent, HasSlot, FreeSlot
  <2>3. Resumed(running + 1) /\ at' = at + 1 /\ at \in 1 .. Len(list) /\ UNCHANGED list
    BY <1>6 DEF StartAgent
  <2> QED BY <2>1, <2>2, <2>3, ResumedType, VisitOrder
<1>7. CASE StartFails
  <2>1. running' \in Nat /\ failed' \in Nat
    BY <1>7 DEF StartFails, GiveBack, Order, TypeOK
  <2>2. \A i \in 1 .. at - 1 : phase[list[i]] # "ready"
    BY <1>7, NoneWaitsBefore DEF StartFails, HasSlot, FreeSlot
  <2> QED BY <1>7, <2>1, <2>2, VisitOrder DEF StartFails
<1>8. CASE Advance
  <2>1. running \in Nat /\ failed' \in Nat
    BY <1>8 DEF Advance, Order, TypeOK
  <2>2. \A i \in 1 .. at - 1 : phase[list[i]] # "ready"
    BY <1>8, NoneWaitsBefore DEF Advance
  <2>3. Resumed(running) /\ at' = at + 1 /\ at \in 1 .. Len(list) /\ UNCHANGED list
    BY <1>8 DEF Advance
  <2> QED BY <2>1, <2>2, <2>3, ResumedType, VisitOrder
<1>9. CASE UNCHANGED vars
  BY <1>9 DEF vars, Order, TypeOK, Distinct, Fifo, Passed
<1> QED
  BY <1>1, <1>2, <1>3, <1>4, <1>5, <1>6, <1>7, <1>8, <1>9 DEF Next

\* Slots are given in the order of the list, whatever starts fail
\* (scheduler_pump).
THEOREM InListOrder == Spec => []Fifo
<1>1. Order => Fifo
  BY DEF Order
<1> QED BY OrderInit, OrderNext, <1>1, PTL DEF Spec

-----------------------------------------------------------------------------

\* The agents in a turn are listed, so there are finitely many; the counter is
\* short of their number by no more than the starts that failed.
Counted == CountsBusy /\ running <= Limit /\ Busy \subseteq Listed
Slots == Order /\ Counted

\* A list has finitely many entries.
LEMMA ListedFinite ==
  ASSUME TypeOK
  PROVE  IsFiniteSet(Listed)
<1>1. Len(list) \in Nat
  BY DEF TypeOK
<1>2. IsFiniteSet(1 .. Len(list))
  BY <1>1, FS_Interval
<1>3. [i \in 1 .. Len(list) |-> list[i]] \in Surjection(1 .. Len(list), Listed)
  BY DEF Surjection, Listed
<1> QED BY <1>2, <1>3, FS_Surjection

\* The number of agents in a turn is a natural number, above 0 when one is.
LEMMA BusyNumber ==
  ASSUME Slots
  PROVE  /\ IsFiniteSet(Busy) /\ Cardinality(Busy) \in Nat
         /\ \A a \in Agent : phase[a] = "busy" => Cardinality(Busy) > 0
<1>1. IsFiniteSet(Busy)
  BY ListedFinite, FS_Subset DEF Slots, Counted, Order
<1>2. Cardinality(Busy) \in Nat
  BY <1>1, FS_CardinalityType
<1>3. ASSUME NEW a \in Agent, phase[a] = "busy" PROVE Cardinality(Busy) > 0
  BY <1>1, <1>2, <1>3, FS_EmptySet DEF Busy
<1> QED BY <1>1, <1>2, <1>3

\* The set of busy agents gains or loses at most the one the scan is at.
LEMMA BusyChange ==
  ASSUME Slots, at \in 1 .. Len(list), NEW p \in {"busy", "ended"},
         phase' = [phase EXCEPT ![list[at]] = p], UNCHANGED list
  PROVE  /\ Busy' \subseteq Listed'
         /\ phase[list[at]] # "busy" =>
              Cardinality(Busy') = IF p = "busy" THEN Cardinality(Busy) + 1
                                                ELSE Cardinality(Busy)
         /\ phase[list[at]] = "busy" =>
              Cardinality(Busy') = IF p = "busy" THEN Cardinality(Busy)
                                                ELSE Cardinality(Busy) - 1
<1>1. list[at] \in Agent /\ list[at] \in Listed
  BY DEF Slots, Counted, Order, TypeOK, Listed
<1>2. Busy' = IF p = "busy" THEN Busy \cup {list[at]} ELSE Busy \ {list[at]}
  BY <1>1 DEF Busy, Slots, Counted, Order, TypeOK
<1>3. list[at] \in Busy <=> phase[list[at]] = "busy"
  BY <1>1 DEF Busy
<1>4. /\ Cardinality(Busy \cup {list[at]}) =
           IF list[at] \in Busy THEN Cardinality(Busy) ELSE Cardinality(Busy) + 1
      /\ Cardinality(Busy \ {list[at]}) =
           IF list[at] \in Busy THEN Cardinality(Busy) - 1 ELSE Cardinality(Busy)
  BY BusyNumber, FS_AddElement, FS_RemoveElement
<1>5. Busy' \subseteq Listed'
  BY <1>1, <1>2 DEF Slots, Counted, Listed
<1> QED BY <1>2, <1>3, <1>4, <1>5

LEMMA SlotsInit ==
  ASSUME Init
  PROVE  Slots
<1>1. Order
  BY OrderInit
<1>2. Busy = {} /\ running = 0 /\ failed = 0
  BY DEF Init, Busy
<1> QED BY <1>1, <1>2, FS_EmptySet, LimitIsNat DEF Slots, Counted, CountsBusy

LEMMA SlotsNext ==
  ASSUME Slots, [Next]_vars
  PROVE  Slots'
<1>1. Order'
  BY OrderNext DEF Slots, Counted
<1>2. SUFFICES Counted'
  BY <1>1 DEF Slots, Counted
<1>3. /\ running \in Nat /\ failed \in Nat /\ Limit \in Nat /\ Limit' = Limit
      /\ Cardinality(Busy) \in Nat
      /\ CountsBusy /\ running <= Limit
  BY LimitIsNat, BusyNumber DEF Slots, Counted, Order, TypeOK, Limit
<1>4. \A i \in 1 .. Len(list) : list[i] \in Agent
  BY DEF Slots, Counted, Order, TypeOK
<1> USE DEF Visit
<1>5. ASSUME UNCHANGED << running, phase, failed >>, Listed \subseteq Listed'
      PROVE  Counted'
  BY <1>5 DEF Counted, Slots, CountsBusy, Busy, Limit
<1>6. ASSUME NEW a \in Agent, Add(a)
      PROVE  Counted'
  <2>1. Listed \subseteq Listed'
    BY <1>6 DEF Add, Listed, Slots, Counted, Order, TypeOK
  <2> QED BY <1>5, <1>6, <2>1 DEF Add
<1>7. CASE Pump \/ Return \/ SkipEnded \/ SkipQueued \/ UNCHANGED vars
  BY <1>5, <1>7 DEF Pump, Return, SkipEnded, SkipQueued, Skip, vars, Listed
<1>8. CASE StartAgent
  <2>1. CASE phase' = [phase EXCEPT ![list[at]] = "busy"] /\ running' = running + 1
    BY <1>3, <1>8, <2>1, BusyChange DEF StartAgent, HasSlot, FreeSlot, Counted, CountsBusy
  <2>2. CASE phase' = [phase EXCEPT ![list[at]] = "ended"] /\ running' = GiveBack(running + 1)
    BY <1>3, <1>8, <2>2, BusyChange DEF StartAgent, GiveBack, Counted, CountsBusy
  <2> QED BY <1>8, <2>1, <2>2 DEF StartAgent, Resumed
<1>9. CASE StartFails
  BY <1>3, <1>9, BusyChange DEF StartFails, GiveBack, Counted, CountsBusy
<1>10. CASE Advance
  <2>1. CASE phase' = [phase EXCEPT ![list[at]] = "busy"] /\ running' = running
    BY <1>3, <1>10, <2>1, BusyChange DEF Advance, Counted, CountsBusy
  <2>2. CASE phase' = [phase EXCEPT ![list[at]] = "ended"] /\ running' = GiveBack(running)
    <3>1. Cardinality(Busy) > 0
      BY <1>4, <1>10, BusyNumber DEF Advance
    <3> QED BY <1>3, <1>10, <2>2, <3>1, BusyChange DEF Advance, GiveBack, Counted, CountsBusy
  <2> QED BY <1>10, <2>1, <2>2 DEF Advance, Resumed
<1> QED BY <1>6, <1>7, <1>8, <1>9, <1>10 DEF Next

LEMMA SlotsAlways == Spec => []Slots
<1>1. Init => Slots
  BY SlotsInit
<1>2. Slots /\ [Next]_vars => Slots'
  BY SlotsNext
<1> QED BY <1>1, <1>2, PTL DEF Spec

\* The counter that admission tests (scheduler_pump's running) is never above
\* the number of agents in a turn, and below it by one at most for each start
\* that failed: while none has, it is exact.
THEOREM CounterTracks == Spec => []CountsBusy
<1>1. Slots => CountsBusy
  BY DEF Slots, Counted
<1> QED BY SlotsAlways, <1>1, PTL

\* While no start has failed, scheduler.h's "at most max_concurrent agents at
\* once" is kept; each failed start costs at most one.
THEOREM WithinLimit == Spec => []OverrunBounded
<1>1. Slots => OverrunBounded
  <2> SUFFICES ASSUME Slots PROVE OverrunBounded
    OBVIOUS
  <2> QED BY BusyNumber, LimitIsNat DEF Slots, Counted, Order, TypeOK, CountsBusy, OverrunBounded
<1> QED BY SlotsAlways, <1>1, PTL
=============================================================================
