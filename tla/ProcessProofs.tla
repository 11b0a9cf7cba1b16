--------------------------- MODULE ProcessProofs ---------------------------
(***************************************************************************)
(* What holds of a child process for any cap, any pipe, any amount of      *)
(* output and any order of callbacks: its result is complete, it has its   *)
(* grace period, and nobody of its group is left with its pipes.           *)
(***************************************************************************)
EXTENDS Process, FiniteSetTheorems, TLAPS

Watchers == {"wake", "timer"} \cup Streams

(* A watcher is in a batch once.  Where the termination has begun, an      *)
(* expiry that waits to be read, in the descriptor or in the batch, is the *)
(* grace period's: re-arming the timer takes an older one back, and        *)
(* timer_cb runs once in a batch.                                          *)
Timed ==
  /\ \A i, j \in 1 .. Len(batch) : batch[i] = batch[j] => i = j
  /\ terminating /\ timer = "due" => grace = "over"
  /\ \A i \in 1 .. Len(batch) : terminating /\ batch[i] = "timer" => grace = "over"
  /\ killSent => terminating /\ grace = "over"

(* A pipe has ended only when nobody holds it any more, which stays so:    *)
(* only the shell starts another process.                                  *)
Closed ==
  /\ task = "none" => shell = "none" /\ child = "none"
  /\ task = "running" => \A s \in Streams : ~open[s] => ~Holders
  /\ task = "done" => ~Holders
  /\ task \in {"running", "done"} => \A s \in Streams : ~open[s] => buffer[s] = 0
  /\ task = "done" => \A s \in Streams : ~open[s]
  /\ NothingLeft

(* What has been read and not been stolen is in the result, up to the cap. *)
Read == Total(written) - Total(buffer) - stolen
Counted ==
  /\ Read \in Nat
  /\ got = IF Read > OutputCap THEN OutputCap ELSE Read
  /\ capped = (Read > OutputCap)

ProcInv == TypeOK /\ Timed /\ Closed /\ Counted

-----------------------------------------------------------------------------
(* Operators. *)

\* epoll_wait fills its array with finitely many of them.
LEMMA ReadyFinite == Ready \subseteq Watchers /\ Cardinality(Ready) \in Nat
<1>1. Ready \subseteq Watchers
  BY DEF Ready, Watchers
<1>2. IsFiniteSet(Watchers)
  <2>1. Watchers = {"wake"} \cup ({"timer"} \cup ({"out"} \cup {"err"}))
    BY DEF Watchers, Streams
  <2>2. /\ IsFiniteSet({"wake"}) /\ IsFiniteSet({"timer"})
        /\ IsFiniteSet({"out"}) /\ IsFiniteSet({"err"})
    BY FS_Singleton
  <2> QED
    BY <2>1, <2>2, FS_Union
<1> QED
  BY <1>1, <1>2, FS_Subset, FS_CardinalityType

\* The rest of a batch is in it, one place further on.
LEMMA TailOf ==
  ASSUME NEW S, NEW q \in Seq(S), q # << >>
  PROVE  /\ Tail(q) \in Seq(S) /\ Len(Tail(q)) = Len(q) - 1 /\ Head(q) = q[1]
         /\ Len(q) \in Nat \ {0}
         /\ \A i \in 1 .. Len(Tail(q)) : i + 1 \in 1 .. Len(q) /\ Tail(q)[i] = q[i + 1]
OBVIOUS

\* drain_stream and append_capped move what is in the pipes to the result, and
\* mark as ended the pipes that nobody holds.
LEMMA DrainReads ==
  ASSUME TypeOK, NEW ss \in SUBSET Streams, Drain(ss)
  PROVE  /\ buffer' \in [Streams -> 0 .. PipeSize] /\ open' \in [Streams -> BOOLEAN]
         /\ got' \in 0 .. OutputCap /\ capped' \in BOOLEAN
         /\ \A s \in Streams : s \in ss => ~open'[s] \/ (open[s] /\ Holders)
         /\ \A s \in Streams : buffer'[s] = IF s \in ss /\ open[s] THEN 0 ELSE buffer[s]
         /\ \A s \in Streams : open'[s] => open[s]
         /\ \A s \in Streams : open[s] /\ ~open'[s] => s \in ss /\ ~Holders
         /\ Drained(ss) \in Nat /\ Total(buffer) = Total(buffer') + Drained(ss)
<1>1. /\ buffer \in [Streams -> 0 .. PipeSize] /\ open \in [Streams -> BOOLEAN]
      /\ got \in 0 .. OutputCap /\ capped \in BOOLEAN
      /\ OutputCap \in Nat /\ PipeSize \in Nat
  BY ProcessAssumption DEF TypeOK
<1>2. buffer' = [s \in Streams |-> IF s \in ss /\ open[s] THEN 0 ELSE buffer[s]]
  BY DEF Drain
<1>3. open' = [s \in Streams |-> open[s] /\ s \notin Ended(ss)]
  BY DEF Drain
<1>4. /\ \A s \in Streams : s \in ss => ~open'[s] \/ (open[s] /\ Holders)
      /\ \A s \in Streams : open'[s] => open[s]
      /\ \A s \in Streams : open[s] /\ ~open'[s] => s \in ss /\ ~Holders
      /\ open' \in [Streams -> BOOLEAN]
  BY <1>1, <1>3 DEF Ended
<1>5. buffer' \in [Streams -> 0 .. PipeSize]
  BY <1>1, <1>2
<1>6. \A s \in Streams : buffer'[s] = IF s \in ss /\ open[s] THEN 0 ELSE buffer[s]
  BY <1>2
<1> DEFINE taken == [s \in Streams |-> IF s \in ss /\ open[s] THEN buffer[s] ELSE 0]
<1>7. \A s \in Streams : taken[s] \in Nat /\ buffer[s] = buffer'[s] + taken[s] /\ buffer'[s] \in Nat
  BY <1>1, <1>6
<1>8. Drained(ss) = taken["out"] + taken["err"]
  BY DEF Drained, Total
<1> HIDE DEF taken
<1>9. Drained(ss) \in Nat /\ Total(buffer) = Total(buffer') + Drained(ss)
  BY <1>7, <1>8 DEF Total, Streams
<1>10. got' \in 0 .. OutputCap /\ capped' \in BOOLEAN
  BY <1>1, <1>9 DEF Drain, AppendCapped
<1> QED
  BY <1>4, <1>5, <1>6, <1>9, <1>10

\* It stays counted.
LEMMA DrainCounts ==
  ASSUME TypeOK, Counted, NEW ss \in SUBSET Streams, Drain(ss), UNCHANGED << written, stolen >>
  PROVE  Counted'
<1>1. /\ Drained(ss) \in Nat /\ Total(buffer) = Total(buffer') + Drained(ss)
      /\ \A s \in Streams : buffer'[s] \in Nat /\ buffer[s] \in Nat /\ written[s] \in Nat
      /\ stolen \in Nat /\ OutputCap \in Nat
  <2>1. Drained(ss) \in Nat /\ Total(buffer) = Total(buffer') + Drained(ss)
        /\ buffer' \in [Streams -> 0 .. PipeSize]
    BY DrainReads
  <2>2. /\ buffer \in [Streams -> 0 .. PipeSize] /\ written \in [Streams -> 0 .. MaxWritten]
        /\ stolen \in 0 .. 2 * MaxWritten /\ OutputCap \in Nat /\ PipeSize \in Nat /\ MaxWritten \in Nat
    BY ProcessAssumption DEF TypeOK, Chunks
  <2>3. \A s \in Streams : buffer'[s] \in Nat /\ buffer[s] \in Nat /\ written[s] \in Nat
    BY <2>1, <2>2
  <2> QED
    BY <2>1, <2>2, <2>3
<1>2. Total(buffer) \in Nat /\ Total(buffer') \in Nat /\ Total(written) \in Nat
  BY <1>1 DEF Total, Streams
<1>3. Read' = Total(written) - Total(buffer') - stolen
  BY DEF Read, Total
<1>4. Read' = Read + Drained(ss)
  BY <1>1, <1>2, <1>3 DEF Read
<1>5. /\ got' = IF got + Drained(ss) > OutputCap THEN OutputCap ELSE got + Drained(ss)
      /\ capped' = (capped \/ got + Drained(ss) > OutputCap)
  BY DEF Drain, AppendCapped
<1>6. CASE Read > OutputCap
  <2>1. got = OutputCap /\ capped = TRUE /\ Read \in Nat
    BY <1>6 DEF Counted
  <2>2. Read' \in Nat /\ Read' > OutputCap
    BY <1>1, <1>4, <1>6, <2>1
  <2>3. got' = OutputCap
    <3>1. got + Drained(ss) > OutputCap \/ got + Drained(ss) = OutputCap
      BY <1>1, <2>1
    <3> QED
      BY <1>5, <3>1
  <2>4. capped' = TRUE
    BY <1>5, <2>1
  <2>5. (Read' > OutputCap) = TRUE
    BY <2>2
  <2> QED
    BY <2>2, <2>3, <2>4, <2>5 DEF Counted
<1>7. CASE ~(Read > OutputCap)
  <2>1. got = Read /\ capped = FALSE /\ Read \in Nat
    <3>1. (Read > OutputCap) = FALSE
      BY <1>7
    <3> QED
      BY <1>7, <3>1 DEF Counted
  <2>2. Read' \in Nat /\ got + Drained(ss) = Read'
    BY <1>1, <1>4, <2>1
  <2>3. got' = (IF Read' > OutputCap THEN OutputCap ELSE Read') /\ capped' = (Read' > OutputCap)
    BY <1>5, <2>1, <2>2
  <2> QED
    BY <2>2, <2>3 DEF Counted
<1> QED
  BY <1>6, <1>7

-----------------------------------------------------------------------------
(* Types. *)

\* Before process_start everything is empty.
LEMMA TypeInit ==
  ASSUME Init
  PROVE  TypeOK
<1>1. {OutputCap, PipeSize} \subseteq Nat \ {0} /\ MaxWritten \in Nat
  BY ProcessAssumption
<1>2. 0 \in 0 .. MaxWritten /\ 0 \in 0 .. PipeSize /\ 0 \in 0 .. OutputCap /\ 0 \in Chunks
  BY <1>1 DEF Chunks
<1>3. written \in [Streams -> 0 .. MaxWritten] /\ buffer \in [Streams -> 0 .. PipeSize]
  BY <1>2 DEF Init
<1>4. open \in [Streams -> BOOLEAN] /\ batch \in Seq({"wake", "timer"} \cup Streams)
  BY DEF Init
<1> QED
  BY <1>2, <1>3, <1>4 DEF Init, TypeOK

\* A batch is a sequence of watchers, and stays one as its callbacks run.
LEMMA BatchType ==
  ASSUME TypeOK, [Next]_vars
  PROVE  batch' \in Seq(Watchers)
<1> USE DEF kernelVars, taskVars, timerVars, loopVars
<1>1. batch \in Seq(Watchers)
  BY DEF TypeOK, Watchers
<1>2. ASSUME NEW w, Callback(w) PROVE batch' \in Seq(Watchers)
  BY <1>1, <1>2, TailOf DEF Callback
<1>3. CASE Wait
  <2>1. PICK q \in [1 .. Cardinality(Ready) -> Ready] : batch' = q
    BY <1>3 DEF Wait
  <2>2. q \in [1 .. Cardinality(Ready) -> Watchers]
    BY <2>1, ReadyFinite
  <2> QED
    BY <2>1, <2>2, ReadyFinite
<1>4. CASE UNCHANGED batch
  BY <1>1, <1>4
<1>5. OnWake \/ OnTimer \/ (\E s \in Streams : OnPipe(s)) \/ Wait \/ UNCHANGED batch
  <2>1. CASE Kernel \/ UNCHANGED vars
    BY <2>1 DEF Kernel, Write, Background, ShellExits, ChildExits, TimerExpires, vars
  <2>2. CASE Start \/ Poll \/ Cancel \/ Free \/ OtherLoop
    BY <2>2 DEF Start, Poll, Cancel, Free, OtherLoop
  <2> QED
    BY <2>1, <2>2 DEF Next, Host
<1> QED
  BY <1>2, <1>3, <1>4, <1>5 DEF OnWake, OnTimer, OnPipe

\* The values of the kernel's variables and of the task's.
LEMMA TypeNext ==
  ASSUME TypeOK, Counted, Counted', [Next]_vars
  PROVE  TypeOK'
<1> USE DEF kernelVars, taskVars, timerVars, loopVars
<1>1. batch' \in Seq({"wake", "timer"} \cup Streams)
  BY BatchType DEF Watchers
<1>2. /\ written' \in [Streams -> 0 .. MaxWritten] /\ buffer' \in [Streams -> 0 .. PipeSize]
      /\ open' \in [Streams -> BOOLEAN] /\ got' \in 0 .. OutputCap /\ capped' \in BOOLEAN
  <2> USE DEF TypeOK
  <2>1. CASE \E s \in Streams : Write(s)
    <3>1. PICK s \in Streams : Write(s)
      BY <2>1
    <3>2. /\ written' = [written EXCEPT ![s] = written[s] + 1]
          /\ buffer' = [buffer EXCEPT ![s] = buffer[s] + 1]
          /\ buffer[s] < PipeSize /\ written[s] < MaxWritten
          /\ UNCHANGED << open, got, capped >>
      BY <3>1 DEF Write
    <3>3. buffer[s] + 1 \in 0 .. PipeSize /\ written[s] + 1 \in 0 .. MaxWritten
      BY <3>2, ProcessAssumption
    <3> QED
      BY <3>2, <3>3
  <2>2. CASE Poll
    BY <2>2, DrainReads DEF Poll
  <2>3. CASE \E s \in Streams : OnPipe(s)
    <3>1. PICK s \in Streams : OnPipe(s)
      BY <2>3
    <3>2. CASE Drain({s})
      BY <3>1, <3>2, DrainReads DEF OnPipe
    <3>3. CASE UNCHANGED << got, capped, buffer, open >>
      BY <3>1, <3>3 DEF OnPipe
    <3> QED
      BY <3>1, <3>2, <3>3 DEF OnPipe
  <2>4. CASE OnWake
    <3>1. UNCHANGED << written, open, got, capped >>
      BY <2>4 DEF OnWake
    <3>2. buffer' \in [Streams -> 0 .. PipeSize]
      BY <2>4, ProcessAssumption DEF OnWake
    <3> QED
      BY <3>1, <3>2
  <2>5. CASE Start \/ Free
    BY <2>5 DEF Start, Free
  <2>6. CASE \/ Background \/ ShellExits \/ ChildExits \/ TimerExpires \/ Cancel \/ OtherLoop
             \/ Wait \/ OnTimer \/ UNCHANGED vars
    BY <2>6 DEF Background, ShellExits, ChildExits, TimerExpires, Cancel, OtherLoop, Wait, OnTimer,
                vars
  <2> QED
    BY <2>1, <2>2, <2>3, <2>4, <2>5, <2>6 DEF Next, Kernel, Host
<1>3. stolen' \in Chunks
  <2>1. /\ \A s \in Streams : written'[s] \in 0 .. MaxWritten /\ buffer'[s] \in Nat
        /\ Read' \in Nat /\ MaxWritten \in Nat
    BY <1>2, ProcessAssumption DEF Counted
  <2>2. Total(written') \in 0 .. 2 * MaxWritten /\ Total(buffer') \in Nat
    BY <2>1 DEF Total, Streams
  <2>3. Read' = Total(written') - Total(buffer') - stolen'
    BY DEF Read, Total
  <2>4. stolen' \in Nat
    <3>1. stolen \in Nat
      BY DEF TypeOK, Chunks
    <3>2. CASE OnWake
      <4>1. PICK ss : ss \subseteq Streams /\ stolen' = stolen + Drained(ss)
        BY <3>2 DEF OnWake
      <4>2. Drained(ss) = (IF "out" \in ss /\ open["out"] THEN buffer["out"] ELSE 0)
                          + (IF "err" \in ss /\ open["err"] THEN buffer["err"] ELSE 0)
        BY DEF Drained, Total, Streams
      <4>3. buffer["out"] \in Nat /\ buffer["err"] \in Nat
        BY ProcessAssumption DEF TypeOK, Streams
      <4> QED
        BY <3>1, <4>1, <4>2, <4>3
    <3>3. CASE UNCHANGED stolen
      BY <3>1, <3>3
    <3>4. OnWake \/ UNCHANGED stolen
      BY DEF Next, Kernel, Host, Write, Background, ShellExits, ChildExits, TimerExpires, Start, Poll,
             Cancel, Free, OtherLoop, Wait, OnTimer, OnPipe, vars
    <3> QED
      BY <3>2, <3>3, <3>4
  <2> QED
    BY <2>1, <2>2, <2>3, <2>4 DEF Chunks
<1>4. /\ shell' \in {"none", "running", "zombie", "reaped"}
      /\ child' \in {"none", "running", "gone"} /\ {outside', holds'} \subseteq BOOLEAN
      /\ sig' \in {"none", "term", "kill"}
  <2> USE DEF TypeOK
  <2>1. CASE Kernel \/ UNCHANGED vars
    BY <2>1 DEF Kernel, Write, Background, ShellExits, ChildExits, TimerExpires, vars
  <2>2. CASE Start \/ Poll \/ Cancel \/ Free \/ OtherLoop
    BY <2>2 DEF Start, Poll, Cancel, Free, OtherLoop, BeginTermination, Signal
  <2>3. CASE Wait \/ OnWake \/ OnTimer \/ (\E s \in Streams : OnPipe(s))
    BY <2>3 DEF Wait, OnWake, OnTimer, OnPipe, BeginTermination, Signal
  <2> QED
    BY <2>1, <2>2, <2>3 DEF Next, Host
<1>5. /\ task' \in {"none", "running", "done", "freed"}
      /\ {terminating', timedOut', killSent'} \subseteq BOOLEAN
      /\ timer' \in {"off", "set", "due", "lost"} /\ grace' \in {"none", "running", "over"}
  <2> USE DEF TypeOK
  <2>1. CASE Kernel \/ UNCHANGED vars
    BY <2>1 DEF Kernel, Write, Background, ShellExits, ChildExits, TimerExpires, vars
  <2>2. CASE Start \/ Poll \/ Cancel \/ Free \/ OtherLoop
    BY <2>2 DEF Start, Poll, Cancel, Free, OtherLoop, BeginTermination, Rearm
  <2>3. CASE Wait \/ OnWake \/ OnTimer \/ (\E s \in Streams : OnPipe(s))
    BY <2>3 DEF Wait, OnWake, OnTimer, OnPipe, BeginTermination, Rearm
  <2> QED
    BY <2>1, <2>2, <2>3 DEF Next, Host
<1>6. wake' \in BOOLEAN /\ wakeFd' \in {"main", "nothing", "timer"} \cup Streams
  <2> USE DEF TypeOK
  <2>1. CASE Kernel \/ UNCHANGED vars
    BY <2>1 DEF Kernel, Write, Background, ShellExits, ChildExits, TimerExpires, vars
  <2>2. CASE Start \/ Poll \/ Cancel \/ Free \/ OtherLoop
    BY <2>2 DEF Start, Poll, Cancel, Free, OtherLoop
  <2>3. CASE Wait \/ OnWake \/ OnTimer \/ (\E s \in Streams : OnPipe(s))
    BY <2>3 DEF Wait, OnWake, OnTimer, OnPipe
  <2> QED
    BY <2>1, <2>2, <2>3 DEF Next, Host
<1> QED
  BY <1>1, <1>2, <1>3, <1>4, <1>5, <1>6 DEF TypeOK

-----------------------------------------------------------------------------
(* The steps. *)

\* Only a pipe's reader, on_wake and the command itself move chunks.
LEMMA CountedNext ==
  ASSUME TypeOK, Counted, [Next]_vars
  PROVE  Counted'
<1> USE DEF kernelVars, taskVars, timerVars, loopVars
<1>a. ASSUME UNCHANGED << written, buffer, stolen, got, capped >> PROVE Counted'
  BY <1>a DEF Counted, Read, Total
<1>1. CASE \E s \in Streams : Write(s)
  <2>1. PICK s \in Streams : Write(s)
    BY <1>1
  <2>2. /\ written' = [written EXCEPT ![s] = written[s] + 1]
        /\ buffer' = [buffer EXCEPT ![s] = buffer[s] + 1]
        /\ UNCHANGED << stolen, got, capped >>
    BY <2>1 DEF Write
  <2>3. \A r \in Streams : /\ written[r] \in Nat /\ buffer[r] \in Nat
                           /\ written'[r] = IF r = s THEN written[r] + 1 ELSE written[r]
                           /\ buffer'[r] = IF r = s THEN buffer[r] + 1 ELSE buffer[r]
    BY <2>2, ProcessAssumption DEF TypeOK
  <2>4. stolen \in Nat
    BY DEF TypeOK, Chunks
  <2>5. Read' = Total(written') - Total(buffer') - stolen
    BY <2>2 DEF Read, Total
  <2>6. Total(written') - Total(buffer') = Total(written) - Total(buffer)
    BY <2>3 DEF Total, Streams
  <2>7. Total(written) - Total(buffer) \in Int
    BY <2>3 DEF Total, Streams
  <2>8. Read' = Read
    BY <2>4, <2>5, <2>6, <2>7 DEF Read
  <2> QED
    BY <2>2, <2>8 DEF Counted
<1>2. CASE Poll
  BY <1>2, DrainCounts DEF Poll
<1>3. CASE \E s \in Streams : OnPipe(s)
  <2>1. PICK s \in Streams : OnPipe(s)
    BY <1>3
  <2>2. UNCHANGED << written, stolen >>
    BY <2>1 DEF OnPipe
  <2>3. CASE Drain({s})
    BY <2>2, <2>3, DrainCounts
  <2>4. CASE UNCHANGED << got, capped, buffer, open >>
    BY <1>a, <2>2, <2>4
  <2> QED
    BY <2>1, <2>3, <2>4 DEF OnPipe
<1>4. CASE OnWake
  <2>1. PICK ss : /\ ss = {s \in Streams : s = wakeFd /\ open[s]}
                  /\ buffer' = [s \in Streams |-> IF s \in ss THEN 0 ELSE buffer[s]]
                  /\ stolen' = stolen + Drained(ss)
    BY <1>4 DEF OnWake
  <2>2. UNCHANGED << written, got, capped >>
    BY <1>4 DEF OnWake
  <2>3. Drained(ss) = (IF "out" \in ss THEN buffer["out"] ELSE 0)
                      + (IF "err" \in ss THEN buffer["err"] ELSE 0)
    <3>1. \A s \in ss : open[s]
      BY <2>1
    <3> QED
      BY <3>1 DEF Drained, Total, Streams
  <2>4. \A s \in Streams : written[s] \in Nat /\ buffer[s] \in Nat
    BY ProcessAssumption DEF TypeOK
  <2>5. \A s \in Streams : buffer'[s] = IF s \in ss THEN 0 ELSE buffer[s]
    BY <2>1
  <2>6. stolen \in Nat
    BY DEF TypeOK, Chunks
  <2>7. Total(buffer') + Drained(ss) = Total(buffer) /\ Drained(ss) \in Nat
        /\ Total(buffer) \in Nat /\ Total(buffer') \in Nat /\ Total(written) \in Nat
    BY <2>3, <2>4, <2>5 DEF Total, Streams
  <2>8. Read' = Total(written) - Total(buffer') - (stolen + Drained(ss))
    BY <2>1, <2>2 DEF Read, Total
  <2>9. Read' = Read
    BY <2>6, <2>7, <2>8 DEF Read
  <2> QED
    BY <2>2, <2>9 DEF Counted
<1>5. CASE \/ Background \/ ShellExits \/ ChildExits \/ TimerExpires \/ Start \/ Cancel \/ Free
           \/ OtherLoop \/ Wait \/ OnTimer \/ UNCHANGED vars
  BY <1>a, <1>5 DEF Background, ShellExits, ChildExits, TimerExpires, Start, Cancel, Free, OtherLoop,
                    Wait, OnTimer, vars
<1> QED
  BY <1>1, <1>2, <1>3, <1>4, <1>5 DEF Next, Kernel, Host

\* A step outside the batch and the timer keeps what they wait for.
LEMMA TimedFrame ==
  ASSUME Timed, batch' = batch, terminating' = terminating, killSent' = killSent,
         timer' = timer \/ timer' # "due", grace' = grace \/ grace' = "over"
  PROVE  Timed'
BY DEF Timed

\* So does a callback that leaves them alone.
LEMMA TimedTail ==
  ASSUME TypeOK, Timed, batch # << >>, batch' = Tail(batch), UNCHANGED << terminating, grace, killSent >>,
         timer' = timer \/ timer' # "due"
  PROVE  Timed'
<1>1. /\ Len(batch) \in Nat \ {0} /\ Len(batch') = Len(batch) - 1
      /\ \A i \in 1 .. Len(batch') : i + 1 \in 1 .. Len(batch) /\ batch'[i] = batch[i + 1]
  BY TailOf DEF TypeOK
<1>2. ASSUME NEW i \in 1 .. Len(batch'), NEW j \in 1 .. Len(batch'), batch'[i] = batch'[j]
      PROVE  i = j
  <2>1. i + 1 = j + 1
    BY <1>1, <1>2 DEF Timed
  <2> QED
    BY <2>1
<1>3. ASSUME NEW i \in 1 .. Len(batch'), terminating, batch'[i] = "timer" PROVE grace = "over"
  BY <1>1, <1>3 DEF Timed
<1> QED
  BY <1>2, <1>3 DEF Timed

\* Nothing but its own expiry ends a grace period that begins.
LEMMA TimedNext ==
  ASSUME TypeOK, Timed, [Next]_vars
  PROVE  Timed'
<1> USE DEF kernelVars, taskVars, timerVars, loopVars
<1>1. CASE \/ (\E s \in Streams : Write(s)) \/ Background \/ ShellExits \/ ChildExits
           \/ Poll \/ Free \/ OtherLoop \/ UNCHANGED vars
  BY <1>1, TimedFrame DEF Write, Background, ShellExits, ChildExits, Poll, Free, OtherLoop, vars
<1>2. CASE TimerExpires
  BY <1>2 DEF TimerExpires, Timed
<1>3. CASE Start
  BY <1>3, TimedFrame DEF Start
<1>4. CASE Cancel
  <2>1. CASE UNCHANGED << terminating, timer, grace >>
    BY <1>4, <2>1, TimedFrame DEF Cancel
  <2>2. CASE ~terminating /\ BeginTermination(FALSE)
    <3>1. batch = << >> /\ batch' = batch /\ killSent' = killSent
      BY <1>4 DEF Cancel
    <3>2. timer' = "set" /\ ~killSent
      BY <2>2 DEF BeginTermination, Rearm, Timed
    <3> QED
      BY <3>1, <3>2 DEF Timed
  <2> QED
    BY <1>4, <2>1, <2>2 DEF Cancel
<1>5. CASE Wait
  <2>1. PICK q \in [1 .. Cardinality(Ready) -> Ready] :
               batch' = q /\ \A i, j \in DOMAIN q : q[i] = q[j] => i = j
    BY <1>5 DEF Wait
  <2>2. /\ Cardinality(Ready) \in Nat
        /\ UNCHANGED << terminating, timer, grace, killSent >>
    BY <1>5, ReadyFinite DEF Wait
  <2>3. Len(batch') = Cardinality(Ready) /\ DOMAIN q = 1 .. Cardinality(Ready)
    BY <2>1, <2>2
  <2>4. \A i \in 1 .. Len(batch') : batch'[i] \in Ready
    BY <2>1, <2>3
  <2>5. "timer" \in Ready => timer = "due"
    BY DEF Ready, Streams
  <2>6. \A i \in 1 .. Len(batch') : terminating /\ batch'[i] = "timer" => grace = "over"
    BY <2>4, <2>5 DEF Timed
  <2>7. \A i, j \in 1 .. Len(batch') : batch'[i] = batch'[j] => i = j
    BY <2>1, <2>3
  <2> QED
    BY <2>2, <2>6, <2>7 DEF Timed
<1>6. CASE OnWake
  <2>1. /\ batch # << >> /\ batch' = Tail(batch) /\ UNCHANGED << terminating, grace, killSent >>
        /\ timer' = timer \/ timer' # "due"
    BY <1>6 DEF OnWake, Callback
  <2> QED
    BY <2>1, TimedTail
<1>7. CASE \E s \in Streams : OnPipe(s)
  <2>1. /\ batch # << >> /\ batch' = Tail(batch) /\ UNCHANGED << terminating, grace, killSent, timer >>
    BY <1>7 DEF OnPipe, Callback
  <2> QED
    BY <2>1, TimedTail
<1>8. CASE OnTimer
  <2>1. batch # << >> /\ batch' = Tail(batch) /\ batch \in Seq({"wake", "timer"} \cup Streams)
        /\ Head(batch) = "timer"
    BY <1>8 DEF OnTimer, Callback, TypeOK
  <2>2. /\ Len(batch) \in Nat \ {0} /\ Len(batch') = Len(batch) - 1 /\ batch[1] = "timer"
        /\ \A i \in 1 .. Len(batch') : i + 1 \in 1 .. Len(batch) /\ batch'[i] = batch[i + 1]
    BY <2>1, TailOf
  <2>3. CASE ~terminating /\ BeginTermination(TRUE) /\ UNCHANGED killSent
    <3>1. timer' = "set" /\ ~killSent'
      BY <2>3 DEF BeginTermination, Rearm, Timed
    <3>2. \A i \in 1 .. Len(batch') : batch'[i] # "timer"
      <4>1. TAKE i \in 1 .. Len(batch')
      <4>2. i + 1 # 1 /\ 1 \in 1 .. Len(batch) /\ i + 1 \in 1 .. Len(batch)
        BY <2>2
      <4>3. batch[i + 1] # batch[1]
        BY <4>2 DEF Timed
      <4> QED
        BY <2>2, <4>3
    <3>3. \A i, j \in 1 .. Len(batch') : batch'[i] = batch'[j] => i = j
      <4>1. TAKE i, j \in 1 .. Len(batch')
      <4>2. batch[i + 1] = batch[j + 1] => i + 1 = j + 1
        BY <2>2 DEF Timed
      <4> QED
        BY <2>2, <4>2
    <3> QED
      BY <3>1, <3>2, <3>3 DEF Timed
  <2>4. CASE terminating /\ killSent' = TRUE /\ timer' = "off" /\ UNCHANGED << terminating, grace >>
    <3>1. grace = "over"
      BY <2>2, <2>4 DEF Timed
    <3>2. \A i, j \in 1 .. Len(batch') : batch'[i] = batch'[j] => i = j
      <4>1. TAKE i, j \in 1 .. Len(batch')
      <4>2. batch[i + 1] = batch[j + 1] => i + 1 = j + 1
        BY <2>2 DEF Timed
      <4> QED
        BY <2>2, <4>2
    <3> QED
      BY <2>4, <3>1, <3>2 DEF Timed
  <2>5. CASE UNCHANGED << terminating, killSent, grace >> /\ (timer' = timer \/ timer' # "due")
    BY <2>1, <2>5, TimedTail
  <2> QED
    BY <1>8, <2>3, <2>4, <2>5 DEF OnTimer
<1> QED
  BY <1>1, <1>2, <1>3, <1>4, <1>5, <1>6, <1>7, <1>8 DEF Next, Kernel, Host

\* Once nobody holds the pipes of a task, nobody will: only the shell could
\* hand them on.
LEMMA NobodyAgain ==
  ASSUME ~Holders, task # "none", [Next]_vars
  PROVE  ~Holders'
<1> USE DEF kernelVars, taskVars, timerVars, loopVars, Holders
<1>1. CASE Kernel \/ UNCHANGED vars
  BY <1>1 DEF Kernel, Write, Background, ShellLives, ShellExits, ChildExits, TimerExpires, vars
<1>2. CASE Start \/ Poll \/ Cancel \/ Free \/ OtherLoop
  BY <1>2 DEF Start, Poll, Cancel, Free, OtherLoop
<1>3. CASE Wait \/ OnWake \/ OnTimer \/ (\E s \in Streams : OnPipe(s))
  BY <1>3 DEF Wait, OnWake, OnTimer, OnPipe
<1> QED
  BY <1>1, <1>2, <1>3 DEF Next, Host

\* A step that leaves the task and its pipes' ends alone.
LEMMA ClosedFrame ==
  ASSUME TypeOK, Closed, [Next]_vars, UNCHANGED << task, open, sig >>,
         shell' = shell \/ (shell = "running" /\ shell' = "zombie"),
         child' = child \/ shell = "running" \/ child' = "gone",
         child' = "running" /\ child = "running" => UNCHANGED << holds, outside >>,
         task = "none" => UNCHANGED << shell, child >>,
         \A s \in Streams : ~open[s] => buffer'[s] = buffer[s] \/ buffer'[s] = 0
  PROVE  Closed'
<1>1. task # "none" /\ ~Holders => ~Holders'
  BY NobodyAgain
<1>2. task \in {"done", "freed"} => shell' = "reaped" /\ (child' = child \/ child' = "gone")
  BY DEF Closed, NothingLeft
<1>3. NothingLeft'
  BY <1>2 DEF Closed, NothingLeft
<1>4. task' \in {"running", "done"} => \A s \in Streams : ~open'[s] => buffer'[s] = 0
  BY DEF Closed
<1> QED
  BY <1>1, <1>3, <1>4 DEF Closed

\* A pipe is closed when it has ended, or with the task.
LEMMA ClosedNext ==
  ASSUME TypeOK, Closed, [Next]_vars
  PROVE  Closed'
<1> USE DEF kernelVars, taskVars, timerVars, loopVars
<1>a. task # "none" /\ ~Holders => ~Holders'
  BY NobodyAgain
<1>1. CASE \E s \in Streams : Write(s)
  <2>1. PICK s \in Streams : Write(s)
    BY <1>1
  <2>2. /\ buffer' = [buffer EXCEPT ![s] = buffer[s] + 1] /\ open[s]
        /\ UNCHANGED << task, open, sig, shell, child, holds, outside >>
    BY <2>1 DEF Write
  <2>3. \A r \in Streams : ~open[r] => buffer'[r] = buffer[r]
    BY <2>2 DEF TypeOK
  <2> QED
    BY <2>2, <2>3, ClosedFrame
<1>2. CASE Background \/ ShellExits \/ ChildExits \/ TimerExpires \/ OtherLoop \/ Wait \/ UNCHANGED vars
  <2>1. /\ UNCHANGED << task, open, sig, buffer >>
        /\ shell' = shell \/ (shell = "running" /\ shell' = "zombie")
        /\ child' = child \/ shell = "running" \/ child' = "gone"
        /\ child' = "running" /\ child = "running" => UNCHANGED << holds, outside >>
    BY <1>2 DEF Background, ShellLives, ShellExits, ChildExits, TimerExpires, OtherLoop, Wait, vars
  <2>2. task = "none" => UNCHANGED << shell, child >>
    BY <1>2 DEF Closed, Background, ShellLives, ShellExits, ChildExits, TimerExpires, OtherLoop, Wait,
                vars
  <2> QED
    BY <2>1, <2>2, ClosedFrame
<1>3. CASE OnWake
  <2>1. UNCHANGED << task, open, sig, shell, child, holds, outside >>
    BY <1>3 DEF OnWake
  <2>2. \A s \in Streams : buffer'[s] = buffer[s] \/ buffer'[s] = 0
    BY <1>3 DEF OnWake
  <2> QED
    BY <2>1, <2>2, ClosedFrame
<1>4. CASE Start
  <2>1. /\ task' = "running" /\ \A s \in Streams : open'[s]
    BY <1>4 DEF Start
  <2> QED
    BY <2>1 DEF Closed, NothingLeft
<1>5. CASE \E s \in Streams : OnPipe(s)
  <2>1. PICK s \in Streams : OnPipe(s)
    BY <1>5
  <2>2. UNCHANGED << task, sig, shell, child, holds, outside >>
    BY <2>1 DEF OnPipe
  <2>3. CASE UNCHANGED << got, capped, buffer, open >>
    BY <2>2, <2>3, ClosedFrame
  <2>4. CASE open[s] /\ Drain({s})
    <3>1. /\ \A r \in Streams : buffer'[r] = IF r \in {s} /\ open[r] THEN 0 ELSE buffer[r]
          /\ \A r \in Streams : open'[r] => open[r]
          /\ \A r \in Streams : open[r] /\ ~open'[r] => r \in {s} /\ ~Holders
      BY <2>4, DrainReads
    <3>2. task # "done"
      BY <2>4 DEF Closed
    <3>3. task' = "running" => \A r \in Streams : ~open'[r] => ~Holders'
      BY <1>a, <2>2, <3>1 DEF Closed
    <3>4. task' \in {"running", "done"} => \A r \in Streams : ~open'[r] => buffer'[r] = 0
      BY <2>2, <3>1 DEF Closed
    <3>5. NothingLeft'
      BY <2>2 DEF Closed, NothingLeft
    <3> QED
      BY <2>2, <3>2, <3>3, <3>4, <3>5 DEF Closed
  <2> QED
    BY <2>1, <2>3, <2>4 DEF OnPipe
<1>6. CASE Poll
  <2>1. /\ task = "running" /\ shell \in {"zombie", "reaped"} /\ shell' = "reaped" /\ Drain(Streams)
        /\ UNCHANGED << child, outside, holds, sig >>
    BY <1>6 DEF Poll
  <2>2. \/ task' = "done" /\ {s \in Streams : open[s]} \ Ended(Streams) = {}
        \/ task' = "running"
    BY <1>6 DEF Poll, Finished
  <2>3. /\ \A s \in Streams : buffer'[s] = IF s \in Streams /\ open[s] THEN 0 ELSE buffer[s]
        /\ \A s \in Streams : open'[s] => open[s]
        /\ \A s \in Streams : open[s] /\ ~open'[s] => s \in Streams /\ ~Holders
        /\ \A s \in Streams : ~open'[s] \/ (open[s] /\ Holders)
    BY <2>1, DrainReads
  <2>4. ~Holders => ~Holders'
    BY <1>a, <2>1
  <2>5. \A s \in Streams : ~open'[s] => ~Holders'
    BY <2>1, <2>3, <2>4 DEF Closed
  <2>6. \A s \in Streams : ~open'[s] => buffer'[s] = 0
    BY <2>1, <2>3 DEF Closed
  <2>7. task' = "done" => \A s \in Streams : ~open'[s]
    <3>1. CASE task' = "done"
      <4>1. \A s \in Streams : open[s] => ~Holders
        BY <2>2, <3>1 DEF Ended
      <4> QED
        BY <2>3, <4>1
    <3> QED
      BY <3>1
  <2>8. task' = "done" => ~Holders'
    <3>1. "out" \in Streams
      BY DEF Streams
    <3> QED
      BY <2>5, <2>7, <3>1
  <2>9. NothingLeft'
    BY <2>1, <2>2, <2>8 DEF NothingLeft, Holders
  <2> QED
    BY <2>2, <2>5, <2>6, <2>7, <2>8, <2>9 DEF Closed
<1>7. CASE Cancel
  <2>1. /\ task = "running" /\ UNCHANGED << task, open, buffer, shell, child, holds, outside >>
    BY <1>7 DEF Cancel
  <2>2. NothingLeft'
    BY <2>1 DEF NothingLeft
  <2> QED
    BY <1>a, <2>1, <2>2 DEF Closed
<1>8. CASE Free
  <2>1. /\ task \in {"running", "done"} /\ task' = "freed" /\ shell' = "reaped"
        /\ UNCHANGED << child, holds, outside >>
        /\ IF MayBeAlive THEN Signal("kill") ELSE UNCHANGED sig
    BY <1>8 DEF Free
  <2>2. ASSUME child = "running", holds, ~outside PROVE sig' = "kill"
    <3>1. Holders /\ InGroup
      BY <2>2 DEF Holders, InGroup
    <3>2. task = "running" /\ \A s \in Streams : open[s]
      BY <2>1, <3>1 DEF Closed
    <3>3. MayBeAlive
      BY <3>2 DEF MayBeAlive, Streams
    <3> QED
      BY <2>1, <3>1, <3>3 DEF Signal
  <2>3. NothingLeft'
    BY <2>1, <2>2 DEF NothingLeft
  <2> QED
    BY <2>1, <2>3 DEF Closed
<1>9. CASE OnTimer
  <2>1. UNCHANGED << task, open, buffer, shell, child, holds, outside >>
    BY <1>9 DEF OnTimer
  <2>2. sig' = sig \/ task = "running"
    BY <1>9 DEF OnTimer, MayBeAlive
  <2>3. NothingLeft'
    BY <2>1, <2>2 DEF Closed, NothingLeft
  <2> QED
    BY <1>a, <2>1, <2>3 DEF Closed
<1> QED
  BY <1>1, <1>2, <1>3, <1>4, <1>5, <1>6, <1>7, <1>8, <1>9 DEF Next, Kernel, Host

-----------------------------------------------------------------------------
(* The theorems. *)

\* The invariant, whatever the process, the callbacks and the host do.
THEOREM Inductive == Spec => []ProcInv
<1>1. Init => ProcInv
  <2> SUFFICES ASSUME Init PROVE ProcInv
    OBVIOUS
  <2>1. TypeOK
    BY TypeInit
  <2>2. Timed
    BY DEF Init, Timed
  <2>3. Closed
    BY DEF Init, Closed, NothingLeft
  <2>4. Counted
    <3>1. Read = 0 /\ got = 0 /\ capped = FALSE
      BY DEF Init, Read, Total, Streams
    <3>2. (0 > OutputCap) = FALSE
      BY ProcessAssumption
    <3> QED
      BY <3>1, <3>2 DEF Counted
  <2> QED
    BY <2>1, <2>2, <2>3, <2>4 DEF ProcInv
<1>2. ProcInv /\ [Next]_vars => ProcInv'
  <2> SUFFICES ASSUME ProcInv, [Next]_vars PROVE ProcInv'
    OBVIOUS
  <2>1. Counted'
    BY CountedNext DEF ProcInv
  <2> QED
    BY <2>1, TypeNext, TimedNext, ClosedNext DEF ProcInv
<1> QED
  BY <1>1, <1>2, PTL DEF Spec

\* Every variable of the task, the loop and the processes has its type.
THEOREM TypeCorrect == Spec => []TypeOK
<1>1. ProcInv => TypeOK
  BY DEF ProcInv
<1> QED
  BY <1>1, Inductive, PTL

\* However a cancel, an expiry that was not read yet and the callbacks of a
\* batch follow each other, timer_cb sends SIGKILL only after the whole grace
\* period.
THEOREM GraceIsGiven == Spec => []GraceGiven
<1>1. ProcInv => GraceGiven
  BY DEF ProcInv, Timed, GraceGiven
<1> QED
  BY <1>1, Inductive, PTL

\* process_poll and process_task_free leave nobody of the group with the pipes
\* that did not get SIGKILL, and no shell unreaped.
THEOREM NobodyIsLeft == Spec => []NothingLeft
<1>1. ProcInv => NothingLeft
  BY DEF ProcInv, Closed
<1> QED
  BY <1>1, Inductive, PTL

\* A result that process_poll gives out has every chunk that was written, but
\* for what on_wake read and what is over the cap, and says so.
THEOREM OutputIsComplete == Spec => []OutputComplete
<1>1. ASSUME ProcInv PROVE OutputComplete
  <2>1. SUFFICES ASSUME task = "done"
                 PROVE  LET read == Total(written) - stolen
                        IN /\ got = IF read > OutputCap THEN OutputCap ELSE read
                           /\ capped = (read > OutputCap)
    BY DEF OutputComplete
  <2>2. Total(buffer) = 0
    BY <1>1, <2>1 DEF ProcInv, Closed, Total, Streams
  <2>3. \A s \in Streams : written[s] \in Nat
    BY <1>1, ProcessAssumption DEF ProcInv, TypeOK
  <2>4. Total(written) \in Nat /\ stolen \in Nat
    BY <1>1, <2>3 DEF ProcInv, TypeOK, Chunks, Total, Streams
  <2>5. Read = Total(written) - stolen
    BY <2>2, <2>4 DEF Read
  <2> QED
    BY <1>1, <2>5 DEF ProcInv, Counted
<1> QED
  BY <1>1, Inductive, PTL
=============================================================================
