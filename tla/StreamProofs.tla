---------------------------- MODULE StreamProofs ----------------------------
(***************************************************************************)
(* A streamed request ends exactly once for its agent, whatever the server *)
(* says, however the bytes are cut and however the connection ends; a      *)
(* stream is only called malformed when it was; and the body of a request  *)
(* says what the conversation says.                                        *)
(*                                                                         *)
(* The parser and the accumulators are folds over bytes and events.  A     *)
(* fold passes through a value for each position (ParserRuns, AccumRuns);  *)
(* what holds of the first one and is kept from each to the next holds of  *)
(* the last one, since there would be a first position without it.         *)
(* What the parser will make of the bytes on the wire (CleanOf) does not   *)
(* change when they are read in parts (FeedConcat, FeedBehind), and grows  *)
(* by one event with the bytes of one (BytesFed).                          *)
(*                                                                         *)
(* A body is put together from lists of messages, those from lists of      *)
(* blocks.  FlattenSeq runs through a value for each list (FlatRuns), so   *)
(* that calls and results can be followed piece by piece (TrafficFacts,    *)
(* BlocksFacts); the messages of anthropic grow with each message of the   *)
(* conversation (AnthropicRuns), and each message with calls is followed   *)
(* by the results given so far (CallsFollowed).                            *)
(***************************************************************************)
EXTENDS Stream, FiniteSetTheorems, WellFoundedInduction, SequenceTheorems, TLAPS

(* A finite sequence of anything. *)
Elements(s) == {s[i] : i \in DOMAIN s}
IsList(s) == s \in Seq(Elements(s))

(* What every accumulator keeps: a terminal event is the last one, and one *)
(* was emitted exactly when an error or done is set.                       *)
AccumFields == {"out", "error", "done", "usage", "reason", "calls", "inTool", "counter"}
AccumInv(a) ==
  /\ DOMAIN a = AccumFields
  /\ IsList(a.out) /\ IsList(a.calls)
  /\ \A k \in 1 .. Len(a.out) : IsTerminal(a.out[k]) => k = Len(a.out)
  /\ Over(a) <=> \E k \in 1 .. Len(a.out) : IsTerminal(a.out[k])

(* What the parser keeps: what it emits is a list. *)
ParserInv(p) ==
  /\ DOMAIN p = {"pending", "data", "have", "done", "emitted"}
  /\ IsList(p.emitted)

StreamInv ==
  /\ AccumInv(acc) /\ ParserInv(parser) /\ IsList(wire)
  /\ protocol \in Protocols /\ form \in Forms
  /\ phase = "closed" => Over(acc)

-----------------------------------------------------------------------------
(* Lists and numbers. *)

\* A nonempty set of natural numbers has a least element.
LEMMA LeastElement ==
  ASSUME NEW T \in SUBSET Nat, T # {}
  PROVE  \E x \in T : \A y \in T : x <= y
<1>1. PICK x \in T : \A y \in T : ~(<<y, x>> \in OpToRel(<, Nat))
  BY NatLessThanWellFounded, WFMin
<1>2. \A y \in T : ~(y < x)
  BY <1>1 DEF OpToRel
<1>3. T \subseteq Nat
  OBVIOUS
<1>4. ASSUME NEW y \in T PROVE x <= y
  <2>1. x \in Nat /\ y \in Nat
    BY <1>3
  <2>2. ~(y < x)
    BY <1>2
  <2> QED
    BY <2>1, <2>2
<1> QED
  BY <1>4

\* Max of the community modules is one.
LEMMA Greatest ==
  ASSUME NEW n \in Nat, NEW S \in SUBSET (1 .. n), S # {}
  PROVE  Max(S) \in S /\ \A y \in S : Max(S) >= y
<1> DEFINE T == {n - x : x \in S}
<1>1. T \in SUBSET Nat /\ T # {}
  <2>1. \A x \in S : x \in 1 .. n
    OBVIOUS
  <2>2. \A x \in S : n - x \in Nat
    BY <2>1
  <2> QED
    BY <2>2
<1>2. PICK d \in T : \A y \in T : d <= y
  BY <1>1, LeastElement
<1>3. PICK m \in S : d = n - m
  BY <1>2
<1>4. ASSUME NEW y \in S PROVE m >= y
  <2>1. d <= n - y
    BY <1>2
  <2> QED
    BY <1>3, <2>1
<1> HIDE DEF T
<1>5. \E x \in S : \A y \in S : x >= y
  BY <1>4
<1> QED
  BY <1>5 DEF Max

\* The first n elements: the last of them and those before it.
LEMMA UpTo ==
  ASSUME NEW N \in Nat, NEW k \in 1 .. N
  PROVE  /\ 1 .. k \in SUBSET (1 .. N) /\ 1 .. k # {} /\ k \in 0 .. N /\ k - 1 \in 0 .. N
         /\ Max(1 .. k) = k /\ (1 .. k) \ {k} = 1 .. k - 1
<1>1. k \in Nat /\ k \in 0 .. N /\ k - 1 \in 0 .. N /\ k \in 1 .. k /\ k <= N
  OBVIOUS
<1>2. \A x \in 1 .. k : x \in 1 .. N
  BY <1>1
<1>3. 1 .. k \in SUBSET (1 .. k) /\ 1 .. k # {}
  BY <1>1
<1>4. Max(1 .. k) \in 1 .. k /\ Max(1 .. k) >= k
  BY <1>1, <1>3, Greatest
<1>5. Max(1 .. k) = k
  BY <1>1, <1>4
<1>6. (1 .. k) \ {k} = 1 .. k - 1
  BY <1>1
<1> QED
  BY <1>1, <1>2, <1>3, <1>5, <1>6

\* A set of the first n numbers is one of the first n - 1, with n or without.
LEMMA Shorter ==
  ASSUME NEW n \in Nat \ {0}, NEW s \in SUBSET (1 .. n), s # {}
  PROVE  /\ {} \in SUBSET (1 .. n - 1)
         /\ n \in s => Max(s) = n /\ s \ {n} \in SUBSET (1 .. n - 1)
         /\ n \notin s => s \in SUBSET (1 .. n - 1) /\ s \ {Max(s)} \in SUBSET (1 .. n - 1)
<1>1. \A x \in 1 .. n : x # n => x \in 1 .. n - 1
  OBVIOUS
<1>2. Max(s) \in s /\ (\A y \in s : Max(s) >= y) /\ Max(s) \in 1 .. n
  BY Greatest
<1>3. n \in s => Max(s) = n
  BY <1>2
<1> QED
  BY <1>1, <1>3

\* A sequence of anything is a list.
LEMMA SeqIsList ==
  ASSUME NEW S, NEW s \in Seq(S)
  PROVE  IsList(s)
BY DEF IsList, Elements

\* Append makes a list of a list.
LEMMA AppendList ==
  ASSUME NEW s, IsList(s), NEW e
  PROVE  /\ IsList(Append(s, e)) /\ Len(s) \in Nat /\ Len(Append(s, e)) = Len(s) + 1
         /\ DOMAIN s = 1 .. Len(s)
         /\ \A i \in 1 .. Len(s) : Append(s, e)[i] = s[i]
         /\ Append(s, e)[Len(s) + 1] = e
<1> DEFINE S == Elements(s) \cup {e}
<1>1. s \in Seq(Elements(s))
  BY DEF IsList
<1>2. s \in Seq(S)
  BY <1>1
<1> HIDE DEF S
<1>3. e \in S
  BY DEF S
<1>4. Append(s, e) \in Seq(S)
  BY <1>2, <1>3
<1>5. IsList(Append(s, e))
  BY <1>4, SeqIsList
<1> QED
  BY <1>2, <1>3, <1>4, <1>5

\* And so does concatenation.
LEMMA ConcatList ==
  ASSUME NEW s, IsList(s), NEW t, IsList(t)
  PROVE  /\ IsList(s \o t) /\ Len(s) \in Nat /\ Len(t) \in Nat /\ Len(s \o t) = Len(s) + Len(t)
         /\ \A i \in 1 .. Len(s) : (s \o t)[i] = s[i]
         /\ \A i \in 1 .. Len(t) : (s \o t)[Len(s) + i] = t[i]
<1> DEFINE S == Elements(s) \cup Elements(t)
<1>1. s \in Seq(Elements(s)) /\ t \in Seq(Elements(t))
  BY DEF IsList
<1>2. s \in Seq(S) /\ t \in Seq(S)
  BY <1>1
<1> HIDE DEF S
<1>3. s \o t \in Seq(S)
  BY <1>2
<1>4. IsList(s \o t)
  BY <1>3, SeqIsList
<1> QED
  BY <1>2, <1>3, <1>4

-----------------------------------------------------------------------------
(* The two folds. *)

\* What FoldLeft(FeedByte, ...) computes, for every set of positions.
ParserTable(f, base, q, n) ==
  f = [s \in SUBSET (1 .. n) |-> IF s = {} THEN base ELSE FeedByte(f[s \ {Max(s)}], q[Max(s)])]

\* The parser has a value for each of them.
LEMMA ParserTableExists ==
  ASSUME NEW base, NEW q, NEW N \in Nat
  PROVE  \E f : ParserTable(f, base, q, N)
<1> USE DEF ParserTable
<1> DEFINE T == {n \in Nat : ~ \E f : ParserTable(f, base, q, n)}
<1>1. SUFFICES ASSUME T # {} PROVE FALSE
  OBVIOUS
<1>2. PICK n \in T : \A m \in T : n <= m
  BY <1>1, LeastElement
<1>3. CASE n = 0
  <2> DEFINE g == [s \in SUBSET (1 .. 0) |-> base]
  <2>1. \A s \in SUBSET (1 .. 0) : s = {}
    OBVIOUS
  <2>2. ParserTable(g, base, q, 0)
    BY <2>1
  <2> QED
    BY <1>2, <1>3, <2>2
<1>4. CASE n # 0
  <2>1. n \in Nat \ {0} /\ n - 1 \in Nat /\ n - 1 \notin T
    <3>1. n \in Nat
      OBVIOUS
    <3>2. n - 1 \in Nat /\ ~(n <= n - 1)
      BY <3>1, <1>4
    <3> HIDE DEF T
    <3> QED
      BY <3>1, <3>2, <1>2, <1>4
  <2>2. PICK f : ParserTable(f, base, q, n - 1)
    BY <2>1
  <2> DEFINE Val(s) == IF s = {} THEN base ELSE
                       IF n \in s THEN FeedByte(f[s \ {n}], q[n]) ELSE f[s]
             g == [s \in SUBSET (1 .. n) |-> Val(s)]
  <2>3. ASSUME NEW s \in SUBSET (1 .. n), s # {}
        PROVE  g[s] = FeedByte(g[s \ {Max(s)}], q[Max(s)])
    <3>1. CASE n \in s
      <4>1. Max(s) = n /\ s \ {n} \in SUBSET (1 .. n) /\ s \ {n} \in SUBSET (1 .. n - 1)
        BY <2>1, <2>3, <3>1, Shorter
      <4>2. g[s] = FeedByte(f[s \ {n}], q[n])
        BY <2>3, <3>1
      <4>3. g[s \ {n}] = IF s \ {n} = {} THEN base ELSE f[s \ {n}]
        BY <4>1
      <4>4. f[s \ {n}] = IF s \ {n} = {} THEN base ELSE f[s \ {n}]
        BY <2>2, <4>1
      <4> QED
        BY <4>1, <4>2, <4>3, <4>4
    <3>2. CASE n \notin s
      <4> DEFINE m == Max(s)
      <4>1. s \in SUBSET (1 .. n - 1) /\ s \ {m} \in SUBSET (1 .. n) /\ n \notin s \ {m}
            /\ s \ {m} \in SUBSET (1 .. n - 1)
        BY <2>1, <2>3, <3>2, Shorter
      <4>2. g[s] = f[s]
        BY <2>3, <3>2
      <4>3. f[s] = FeedByte(f[s \ {m}], q[m])
        BY <2>2, <2>3, <4>1
      <4>4. g[s \ {m}] = IF s \ {m} = {} THEN base ELSE f[s \ {m}]
        BY <4>1
      <4>5. f[s \ {m}] = IF s \ {m} = {} THEN base ELSE f[s \ {m}]
        BY <2>2, <4>1
      <4> QED
        BY <4>2, <4>3, <4>4, <4>5
    <3> QED
      BY <3>1, <3>2
  <2>4. ParserTable(g, base, q, n)
    <3>1. g[{}] = base
      OBVIOUS
    <3> HIDE DEF Val
    <3>2. g = [s \in SUBSET (1 .. n) |-> g[s]]
      OBVIOUS
    <3>3. \A s \in SUBSET (1 .. n) :
            g[s] = IF s = {} THEN base ELSE FeedByte(g[s \ {Max(s)}], q[Max(s)])
      BY <2>3, <3>1
    <3> HIDE DEF g
    <3> QED
      BY <3>2, <3>3
  <2> HIDE DEF g
  <2> QED
    BY <1>2, <2>4
<1> QED
  BY <1>3, <1>4

\* sse_parser_feed takes the bytes of a read one after the other.
LEMMA ParserRuns ==
  ASSUME NEW base, NEW q, IsList(q)
  PROVE  \E f : /\ f[0] = base /\ Feed(base, q) = f[Len(q)]
                /\ \A k \in 1 .. Len(q) : f[k] = FeedByte(f[k - 1], q[k])
<1> DEFINE N == Len(q)
<1>0. N \in Nat /\ DOMAIN q = 1 .. N
  BY AppendList
<1> HIDE DEF N
<1> DEFINE iter[s \in SUBSET (1 .. N)] ==
             IF s = {} THEN base ELSE FeedByte(iter[s \ {Max(s)}], q[Max(s)])
<1>1. Feed(base, q) = iter[1 .. N]
  BY <1>0 DEF Feed, FoldLeft, MapThenFoldSet
<1>2. iter = CHOOSE f : ParserTable(f, base, q, N)
  BY DEF ParserTable
<1> HIDE DEF iter
<1>3. ParserTable(iter, base, q, N)
  BY ParserTableExists, <1>0, <1>2, Zenon
<1> DEFINE f == [k \in 0 .. N |-> iter[1 .. k]]
<1>4. f[0] = base
  <2>1. 1 .. 0 = {} /\ 0 \in 0 .. N
    BY <1>0
  <2> QED
    BY <1>0, <1>3, <2>1 DEF ParserTable
<1>5. ASSUME NEW k \in 1 .. N PROVE f[k] = FeedByte(f[k - 1], q[k])
  <2>1. /\ 1 .. k \in SUBSET (1 .. N) /\ 1 .. k # {} /\ k \in 0 .. N /\ k - 1 \in 0 .. N
        /\ Max(1 .. k) = k /\ (1 .. k) \ {k} = 1 .. k - 1
    BY <1>0, UpTo
  <2>2. iter[1 .. k] = FeedByte(iter[1 .. k - 1], q[k])
    BY <1>3, <2>1 DEF ParserTable
  <2> QED
    BY <2>1, <2>2
<1>6. f[N] = iter[1 .. N]
  BY <1>0
<1> HIDE DEF f
<1> QED
  BY <1>1, <1>4, <1>5, <1>6 DEF N

\* What FoldLeft(OnSse, ...) computes, for every set of positions.
AccumTable(f, base, q, n) ==
  f = [s \in SUBSET (1 .. n) |-> IF s = {} THEN base ELSE OnSse(f[s \ {Max(s)}], q[Max(s)])]

\* The accumulator has a value for each of them.
LEMMA AccumTableExists ==
  ASSUME NEW base, NEW q, NEW N \in Nat
  PROVE  \E f : AccumTable(f, base, q, N)
<1> USE DEF AccumTable
<1> DEFINE T == {n \in Nat : ~ \E f : AccumTable(f, base, q, n)}
<1>1. SUFFICES ASSUME T # {} PROVE FALSE
  OBVIOUS
<1>2. PICK n \in T : \A m \in T : n <= m
  BY <1>1, LeastElement
<1>3. CASE n = 0
  <2> DEFINE g == [s \in SUBSET (1 .. 0) |-> base]
  <2>1. \A s \in SUBSET (1 .. 0) : s = {}
    OBVIOUS
  <2>2. AccumTable(g, base, q, 0)
    BY <2>1
  <2> QED
    BY <1>2, <1>3, <2>2
<1>4. CASE n # 0
  <2>1. n \in Nat \ {0} /\ n - 1 \in Nat /\ n - 1 \notin T
    <3>1. n \in Nat
      OBVIOUS
    <3>2. n - 1 \in Nat /\ ~(n <= n - 1)
      BY <3>1, <1>4
    <3> HIDE DEF T
    <3> QED
      BY <3>1, <3>2, <1>2, <1>4
  <2>2. PICK f : AccumTable(f, base, q, n - 1)
    BY <2>1
  <2> DEFINE Val(s) == IF s = {} THEN base ELSE
                       IF n \in s THEN OnSse(f[s \ {n}], q[n]) ELSE f[s]
             g == [s \in SUBSET (1 .. n) |-> Val(s)]
  <2>3. ASSUME NEW s \in SUBSET (1 .. n), s # {}
        PROVE  g[s] = OnSse(g[s \ {Max(s)}], q[Max(s)])
    <3>1. CASE n \in s
      <4>1. Max(s) = n /\ s \ {n} \in SUBSET (1 .. n) /\ s \ {n} \in SUBSET (1 .. n - 1)
        BY <2>1, <2>3, <3>1, Shorter
      <4>2. g[s] = OnSse(f[s \ {n}], q[n])
        BY <2>3, <3>1
      <4>3. g[s \ {n}] = IF s \ {n} = {} THEN base ELSE f[s \ {n}]
        BY <4>1
      <4>4. f[s \ {n}] = IF s \ {n} = {} THEN base ELSE f[s \ {n}]
        BY <2>2, <4>1
      <4> QED
        BY <4>1, <4>2, <4>3, <4>4
    <3>2. CASE n \notin s
      <4> DEFINE m == Max(s)
      <4>1. s \in SUBSET (1 .. n - 1) /\ s \ {m} \in SUBSET (1 .. n) /\ n \notin s \ {m}
            /\ s \ {m} \in SUBSET (1 .. n - 1)
        BY <2>1, <2>3, <3>2, Shorter
      <4>2. g[s] = f[s]
        BY <2>3, <3>2
      <4>3. f[s] = OnSse(f[s \ {m}], q[m])
        BY <2>2, <2>3, <4>1
      <4>4. g[s \ {m}] = IF s \ {m} = {} THEN base ELSE f[s \ {m}]
        BY <4>1
      <4>5. f[s \ {m}] = IF s \ {m} = {} THEN base ELSE f[s \ {m}]
        BY <2>2, <4>1
      <4> QED
        BY <4>2, <4>3, <4>4, <4>5
    <3> QED
      BY <3>1, <3>2
  <2>4. AccumTable(g, base, q, n)
    <3>1. g[{}] = base
      OBVIOUS
    <3> HIDE DEF Val
    <3>2. g = [s \in SUBSET (1 .. n) |-> g[s]]
      OBVIOUS
    <3>3. \A s \in SUBSET (1 .. n) :
            g[s] = IF s = {} THEN base ELSE OnSse(g[s \ {Max(s)}], q[Max(s)])
      BY <2>3, <3>1
    <3> HIDE DEF g
    <3> QED
      BY <3>2, <3>3
  <2> HIDE DEF g
  <2> QED
    BY <1>2, <2>4
<1> QED
  BY <1>3, <1>4

\* sse_cb takes what the parser emits one after the other.
LEMMA AccumRuns ==
  ASSUME NEW p, NEW N \in Nat, DOMAIN p.emitted = 1 .. N
  PROVE  \E f : /\ f[0] = acc /\ Accumulated(p) = f[N]
                /\ \A k \in 1 .. N : f[k] = OnSse(f[k - 1], p.emitted[k])
<1> DEFINE base == acc
           q == p.emitted
<1> DEFINE iter[s \in SUBSET (1 .. N)] ==
             IF s = {} THEN base ELSE OnSse(iter[s \ {Max(s)}], q[Max(s)])
<1>1. Accumulated(p) = iter[1 .. N]
  BY DEF Accumulated, FoldLeft, MapThenFoldSet
<1>2. iter = CHOOSE f : AccumTable(f, base, q, N)
  BY DEF AccumTable
<1> HIDE DEF iter
<1>3. AccumTable(iter, base, q, N)
  BY AccumTableExists, <1>2, Zenon
<1> DEFINE f == [k \in 0 .. N |-> iter[1 .. k]]
<1>4. f[0] = base
  <2>1. 1 .. 0 = {} /\ 0 \in 0 .. N
    OBVIOUS
  <2> QED
    BY <1>3, <2>1 DEF AccumTable
<1>5. ASSUME NEW k \in 1 .. N PROVE f[k] = OnSse(f[k - 1], q[k])
  <2>1. /\ 1 .. k \in SUBSET (1 .. N) /\ 1 .. k # {} /\ k \in 0 .. N /\ k - 1 \in 0 .. N
        /\ Max(1 .. k) = k /\ (1 .. k) \ {k} = 1 .. k - 1
    BY UpTo
  <2>2. iter[1 .. k] = OnSse(iter[1 .. k - 1], q[k])
    BY <1>3, <2>1 DEF AccumTable
  <2> QED
    BY <2>1, <2>2
<1>6. f[N] = iter[1 .. N]
  OBVIOUS
<1> HIDE DEF f
<1> QED
  BY <1>1, <1>4, <1>5, <1>6

-----------------------------------------------------------------------------
(* The accumulators. *)

\* What sets other fields leaves the invariant alone.
LEMMA AccumSame ==
  ASSUME NEW a, AccumInv(a), NEW b, DOMAIN b = AccumFields,
         b.out = a.out, b.error = a.error, b.done = a.done, IsList(b.calls)
  PROVE  AccumInv(b)
BY DEF AccumInv, Over

\* The same for each field by itself.
LEMMA AccumSets ==
  ASSUME NEW a, AccumInv(a), NEW v
  PROVE  /\ AccumInv([a EXCEPT !.usage = v]) /\ AccumInv([a EXCEPT !.reason = v])
         /\ AccumInv([a EXCEPT !.inTool = v]) /\ AccumInv([a EXCEPT !.counter = v])
<1> USE DEF AccumFields
<1>1. DOMAIN a = AccumFields /\ IsList(a.calls)
  BY DEF AccumInv
<1>2. AccumInv([a EXCEPT !.usage = v])
  BY <1>1, AccumSame
<1>3. AccumInv([a EXCEPT !.reason = v])
  BY <1>1, AccumSame
<1>4. AccumInv([a EXCEPT !.inTool = v])
  BY <1>1, AccumSame
<1>5. AccumInv([a EXCEPT !.counter = v])
  BY <1>1, AccumSame
<1> QED
  BY <1>2, <1>3, <1>4, <1>5

\* The calls, another list of them.
LEMMA AccumCalls ==
  ASSUME NEW a, AccumInv(a), NEW v, IsList(v)
  PROVE  AccumInv([a EXCEPT !.calls = v])
<1> DEFINE b == [a EXCEPT !.calls = v]
<1>1. /\ DOMAIN b = AccumFields /\ b.out = a.out /\ b.error = a.error /\ b.done = a.done
      /\ b.calls = v
  BY DEF AccumInv, AccumFields
<1> HIDE DEF b
<1>2. AccumInv(b)
  BY <1>1, AccumSame
<1> QED
  BY <1>2 DEF b

\* emit of what is not terminal.
LEMMA EmitKeeps ==
  ASSUME NEW a, AccumInv(a), NEW e, ~IsTerminal(e)
  PROVE  AccumInv(Emit(a, e)) /\ Over(Emit(a, e)) = Over(a) /\ Emit(a, e).calls = a.calls
<1>1. CASE Over(a)
  BY <1>1 DEF Emit
<1>2. CASE ~Over(a)
  <2> DEFINE b == [a EXCEPT !.out = Append(a.out, e)]
  <2>1. Emit(a, e) = b
    BY <1>2 DEF Emit
  <2>2. /\ DOMAIN b = AccumFields /\ b.out = Append(a.out, e) /\ b.calls = a.calls
        /\ b.error = a.error /\ b.done = a.done
    BY DEF AccumInv, AccumFields
  <2> HIDE DEF b
  <2>3. IsList(a.out) /\ IsList(a.calls)
    BY DEF AccumInv
  <2>4. /\ IsList(b.out) /\ Len(a.out) \in Nat /\ Len(b.out) = Len(a.out) + 1
        /\ \A i \in 1 .. Len(a.out) : b.out[i] = a.out[i]
        /\ b.out[Len(a.out) + 1] = e
    BY <2>2, <2>3, AppendList
  <2>5. \A k \in 1 .. Len(a.out) : ~IsTerminal(a.out[k])
    BY <1>2 DEF AccumInv
  <2>6. \A k \in 1 .. Len(b.out) : ~IsTerminal(b.out[k])
    <3> SUFFICES ASSUME NEW k \in 1 .. Len(b.out) PROVE ~IsTerminal(b.out[k])
      OBVIOUS
    <3>1. k \in 1 .. Len(a.out) \/ k = Len(a.out) + 1
      BY <2>4
    <3> QED
      BY <2>4, <2>5, <3>1
  <2>7. Over(b) = Over(a)
    BY <2>2 DEF Over
  <2> QED
    BY <1>2, <2>1, <2>2, <2>3, <2>4, <2>6, <2>7 DEF AccumInv
<1> QED
  BY <1>1, <1>2

\* A terminal event is the last one.
LEMMA LastEvent ==
  ASSUME NEW a, AccumInv(a), ~Over(a), NEW e, IsTerminal(e), NEW b, DOMAIN b = AccumFields,
         b.out = Append(a.out, e), b.calls = a.calls, Over(b)
  PROVE  AccumInv(b)
<1>1. IsList(a.out) /\ IsList(a.calls)
  BY DEF AccumInv
<1>2. /\ IsList(b.out) /\ Len(a.out) \in Nat /\ Len(b.out) = Len(a.out) + 1
      /\ \A i \in 1 .. Len(a.out) : b.out[i] = a.out[i]
      /\ b.out[Len(a.out) + 1] = e
  BY <1>1, AppendList
<1>3. \A k \in 1 .. Len(a.out) : ~IsTerminal(a.out[k])
  BY DEF AccumInv
<1>4. ASSUME NEW k \in 1 .. Len(b.out), IsTerminal(b.out[k]) PROVE k = Len(b.out)
  <2>1. k \in 1 .. Len(a.out) \/ k = Len(a.out) + 1
    BY <1>2
  <2> QED
    BY <1>2, <1>3, <1>4, <2>1
<1>5. Len(b.out) \in 1 .. Len(b.out) /\ IsTerminal(b.out[Len(b.out)])
  BY <1>2
<1> QED
  BY <1>1, <1>2, <1>4, <1>5 DEF AccumInv

\* The type of an event says whether it is terminal.
LEMMA EventTypes ==
  ASSUME NEW type, NEW index, NEW id, NEW args, NEW reason
  PROVE  IsTerminal(ModelEvent(type, index, id, args, reason)) = (type \in {"done", "error"})
BY DEF IsTerminal, ModelEvent

\* Only DONE and ERROR are.
LEMMA Terminals ==
  ASSUME NEW index, NEW id, NEW args, NEW reason
  PROVE  /\ ~IsTerminal(TextDelta) /\ ~IsTerminal(UsageEvent) /\ ~IsTerminal(ToolStart(index, id))
         /\ ~IsTerminal(ToolDelta(index, args)) /\ ~IsTerminal(ToolEnd(index))
         /\ IsTerminal(Done(reason)) /\ IsTerminal(Error(reason))
<1>1. /\ "text" \notin {"done", "error"} /\ "usage" \notin {"done", "error"}
      /\ "start" \notin {"done", "error"} /\ "delta" \notin {"done", "error"}
      /\ "end" \notin {"done", "error"}
      /\ "done" \in {"done", "error"} /\ "error" \in {"done", "error"}
  OBVIOUS
<1>2. ~IsTerminal(TextDelta)
  BY <1>1, EventTypes, Zenon DEF TextDelta
<1>3. ~IsTerminal(UsageEvent)
  BY <1>1, EventTypes, Zenon DEF UsageEvent
<1>4. ~IsTerminal(ToolStart(index, id))
  BY <1>1, EventTypes, Zenon DEF ToolStart
<1>5. ~IsTerminal(ToolDelta(index, args))
  BY <1>1, EventTypes, Zenon DEF ToolDelta
<1>6. ~IsTerminal(ToolEnd(index))
  BY <1>1, EventTypes, Zenon DEF ToolEnd
<1>7. IsTerminal(Done(reason))
  BY <1>1, EventTypes, Zenon DEF Done
<1>8. IsTerminal(Error(reason))
  BY <1>1, EventTypes, Zenon DEF Error
<1> QED
  BY <1>2, <1>3, <1>4, <1>5, <1>6, <1>7, <1>8

\* emit_error ends the stream, if it was not over.
LEMMA ErrorEnds ==
  ASSUME NEW a, AccumInv(a), NEW code
  PROVE  AccumInv(EmitError(a, code)) /\ Over(EmitError(a, code))
<1>1. CASE Over(a)
  BY <1>1 DEF EmitError
<1>2. CASE ~Over(a)
  <2> DEFINE b == [[a EXCEPT !.out = Append(a.out, Error(code))] EXCEPT !.error = TRUE]
  <2>1. EmitError(a, code) = b
    BY <1>2 DEF EmitError, Emit
  <2>2. DOMAIN b = AccumFields /\ b.out = Append(a.out, Error(code)) /\ b.calls = a.calls /\ b.error = TRUE
    BY DEF AccumInv, AccumFields
  <2> HIDE DEF b
  <2>3. Over(b)
    BY <2>2 DEF Over
  <2> QED
    BY <1>2, <2>1, <2>2, <2>3, Terminals, LastEvent
<1> QED
  BY <1>1, <1>2

\* And so does emit_done.
LEMMA DoneEnds ==
  ASSUME NEW a, AccumInv(a)
  PROVE  AccumInv(EmitDone(a)) /\ Over(EmitDone(a))
<1>1. CASE Over(a)
  BY <1>1 DEF EmitDone
<1>2. CASE ~Over(a)
  <2> DEFINE b == [[a EXCEPT !.out = Append(a.out, Done(a.reason))] EXCEPT !.done = TRUE]
  <2>1. EmitDone(a) = b
    BY <1>2 DEF EmitDone, Emit
  <2>2. DOMAIN b = AccumFields /\ b.out = Append(a.out, Done(a.reason)) /\ b.calls = a.calls /\ b.done = TRUE
    BY DEF AccumInv, AccumFields
  <2> HIDE DEF b
  <2>3. Over(b)
    BY <2>2 DEF Over
  <2> QED
    BY <1>2, <2>1, <2>2, <2>3, Terminals, LastEvent
<1> QED
  BY <1>1, <1>2

\* emit_usage.
LEMMA UsageKeeps ==
  ASSUME NEW a, AccumInv(a)
  PROVE  AccumInv(EmitUsage(a))
<1>1. AccumInv(Emit(a, UsageEvent))
  BY EmitKeeps, Terminals
<1> QED
  BY <1>1, AccumSets DEF EmitUsage

\* accum_ensure_call and what changes a call's state keep the list of them one.
LEMMA CallsKeep ==
  ASSUME NEW a, AccumInv(a), NEW index, NEW c
  PROVE  AccumInv(EnsureCall(a, index)) /\ AccumInv(SetCall(a, index, c))
<1>1. IsList(a.calls)
  BY DEF AccumInv
<1>2. AccumInv(EnsureCall(a, index))
  <2>1. PICK s : s = [index |-> index, started |-> FALSE, id |-> 0, pending |-> << >>, sent |-> 0]
    OBVIOUS
  <2>2. IsList(Append(a.calls, s))
    BY <1>1, AppendList
  <2>3. AccumInv([a EXCEPT !.calls = Append(a.calls, s)])
    BY <2>2, AccumCalls, Zenon
  <2>4. EnsureCall(a, index) = a \/ EnsureCall(a, index) = [a EXCEPT !.calls = Append(a.calls, s)]
    BY <2>1, Zenon DEF EnsureCall
  <2> QED
    BY <2>3, <2>4
<1>3. AccumInv(SetCall(a, index, c))
  <2> DEFINE v == [k \in DOMAIN a.calls |-> IF a.calls[k].index = index THEN c ELSE a.calls[k]]
  <2>1. DOMAIN a.calls = 1 .. Len(a.calls) /\ Len(a.calls) \in Nat
    BY <1>1, AppendList
  <2>2. \A k \in 1 .. Len(a.calls) : v[k] \in Elements(a.calls) \cup {c}
    BY <2>1 DEF Elements
  <2>3. v \in Seq(Elements(a.calls) \cup {c})
    <3>1. v = [k \in 1 .. Len(a.calls) |-> v[k]]
      BY <2>1
    <3> DEFINE n == Len(a.calls)
               S == Elements(a.calls) \cup {c}
    <3>2. n \in Nat /\ v = [k \in 1 .. n |-> v[k]] /\ \A k \in 1 .. n : v[k] \in S
      BY <2>1, <2>2, <3>1
    <3> HIDE DEF v, n, S
    <3>3. v \in [1 .. n -> S]
      BY <3>2
    <3>4. v \in Seq(S)
      BY <3>2, <3>3
    <3> QED
      BY <3>4 DEF S
  <2> HIDE DEF v
  <2>4. IsList(v)
    BY <2>3, SeqIsList
  <2>5. AccumInv([a EXCEPT !.calls = v])
    BY <2>4, AccumCalls, Zenon
  <2>6. SetCall(a, index, c) = [a EXCEPT !.calls = v]
    BY Zenon DEF SetCall, v
  <2> QED
    BY <2>5, <2>6, Zenon
<1> QED
  BY <1>2, <1>3

\* The END of every call.
LEMMA EndsKeep ==
  ASSUME NEW a, AccumInv(a)
  PROVE  AccumInv(EndCalls(a)) /\ Over(EndCalls(a)) = Over(a)
<1>1. CASE Over(a)
  BY <1>1 DEF EndCalls
<1>2. CASE ~Over(a)
  <2> DEFINE t == [k \in DOMAIN a.calls |-> ToolEnd(a.calls[k].index)]
             b == [a EXCEPT !.out = a.out \o t]
  <2>1. EndCalls(a) = b
    BY <1>2 DEF EndCalls
  <2>2. /\ DOMAIN b = AccumFields /\ b.out = a.out \o t /\ b.calls = a.calls
        /\ b.error = a.error /\ b.done = a.done
    BY DEF AccumInv, AccumFields
  <2>3. IsList(a.out) /\ IsList(a.calls)
    BY DEF AccumInv
  <2>4. DOMAIN a.calls = 1 .. Len(a.calls) /\ Len(a.calls) \in Nat
    BY <2>3, AppendList
  <2>5. \A k \in 1 .. Len(a.calls) : ~IsTerminal(t[k])
    BY <2>4, Terminals
  <2>6. t \in Seq({t[k] : k \in 1 .. Len(a.calls)}) /\ Len(t) = Len(a.calls)
    BY <2>4
  <2> HIDE DEF t, b
  <2>7. IsList(t)
    BY <2>6, SeqIsList
  <2>8. /\ IsList(b.out) /\ Len(a.out) \in Nat /\ Len(t) \in Nat /\ Len(b.out) = Len(a.out) + Len(t)
        /\ \A i \in 1 .. Len(a.out) : b.out[i] = a.out[i]
        /\ \A i \in 1 .. Len(t) : b.out[Len(a.out) + i] = t[i]
    <3> DEFINE o == a.out
    <3>1. IsList(o)
      BY <2>3
    <3> HIDE DEF o
    <3>2. /\ IsList(o \o t) /\ Len(o) \in Nat /\ Len(t) \in Nat /\ Len(o \o t) = Len(o) + Len(t)
          /\ \A i \in 1 .. Len(o) : (o \o t)[i] = o[i]
          /\ \A i \in 1 .. Len(t) : (o \o t)[Len(o) + i] = t[i]
      BY <2>7, <3>1, ConcatList
    <3>3. b.out = o \o t
      BY <2>2 DEF o
    <3>4. /\ IsList(b.out) /\ Len(o) \in Nat /\ Len(t) \in Nat /\ Len(b.out) = Len(o) + Len(t)
          /\ \A i \in 1 .. Len(o) : b.out[i] = o[i]
          /\ \A i \in 1 .. Len(t) : b.out[Len(o) + i] = t[i]
      BY <3>2, <3>3
    <3> QED
      BY <3>4 DEF o
  <2>9. \A k \in 1 .. Len(a.out) : ~IsTerminal(a.out[k])
    BY <1>2 DEF AccumInv
  <2>10. ASSUME NEW k \in 1 .. Len(b.out) PROVE ~IsTerminal(b.out[k])
    <3>1. CASE k \in 1 .. Len(a.out)
      BY <2>8, <2>9, <3>1
    <3>2. CASE k \notin 1 .. Len(a.out)
      <4>1. k - Len(a.out) \in 1 .. Len(t) /\ k = Len(a.out) + (k - Len(a.out))
        BY <2>8, <3>2
      <4> QED
        BY <2>5, <2>6, <2>8, <4>1
    <3> QED
      BY <3>1, <3>2
  <2>11. Over(b) = Over(a)
    BY <2>2 DEF Over
  <2> QED
    BY <1>2, <2>1, <2>2, <2>3, <2>8, <2>10, <2>11 DEF AccumInv
<1> QED
  BY <1>1, <1>2

\* emit, for each event that is not the last.
LEMMA EmitsKeep ==
  ASSUME NEW a, AccumInv(a), NEW index, NEW v
  PROVE  /\ AccumInv(Emit(a, TextDelta)) /\ AccumInv(Emit(a, ToolStart(index, v)))
         /\ AccumInv(Emit(a, ToolDelta(index, v))) /\ AccumInv(Emit(a, ToolEnd(index)))
<1>1. /\ ~IsTerminal(TextDelta) /\ ~IsTerminal(ToolStart(index, v))
      /\ ~IsTerminal(ToolDelta(index, v)) /\ ~IsTerminal(ToolEnd(index))
  BY Terminals
<1> QED
  BY <1>1, EmitKeeps

-----------------------------------------------------------------------------
(* The handlers of the three providers. *)

\* A fragment of an openai call.
LEMMA FragmentKeeps ==
  ASSUME NEW a, AccumInv(a), NEW e
  PROVE  AccumInv(Fragment(a, e))
<1> DEFINE b == EnsureCall(a, e.index)
           c == CallState(b, e.index)
           d == [c EXCEPT !.started = TRUE]
           started == SetCall(Emit(b, ToolStart(e.index, e.id)), e.index, d)
           s == IF c.started THEN b ELSE started
<1>1. AccumInv(b)
  BY CallsKeep
<1> HIDE DEF b, c, d
<1>2. AccumInv(Emit(b, ToolStart(e.index, e.id)))
  BY <1>1, EmitsKeep
<1>3. AccumInv(s)
  BY <1>1, <1>2, CallsKeep
<1> HIDE DEF s
<1>4. AccumInv(Emit(s, ToolDelta(e.index, e.args)))
  BY <1>3, EmitsKeep
<1>5. Fragment(a, e) \in {a, s, Emit(s, ToolDelta(e.index, e.args))}
  BY Zenon DEF Fragment, s, b, c, d
<1> QED
  BY <1>3, <1>4, <1>5

\* handle_chunk of openai.c.
LEMMA OpenaiChunkKeeps ==
  ASSUME NEW a, AccumInv(a), NEW e
  PROVE  AccumInv(OpenaiChunk(a, e))
<1> DEFINE counted == IF e.usage THEN EmitUsage(a) ELSE a
           r == FinishReason(e.reason)
           ended == IF e.reason = "" THEN counted ELSE [counted EXCEPT !.reason = r]
<1>1. AccumInv(counted)
  BY UsageKeeps
<1> HIDE DEF counted, r
<1>2. AccumInv([counted EXCEPT !.reason = r])
  BY <1>1, AccumSets
<1>3. AccumInv(ended)
  BY <1>1, <1>2, Zenon
<1> HIDE DEF ended
<1>4. AccumInv(EmitError(a, "json"))
  BY ErrorEnds
<1>5. AccumInv(Emit(ended, TextDelta))
  BY <1>3, EmitsKeep
<1>6. AccumInv(Fragment(ended, e))
  BY <1>3, FragmentKeeps
<1>7. \/ OpenaiChunk(a, e) = EmitError(a, "json") \/ OpenaiChunk(a, e) = Emit(ended, TextDelta)
      \/ OpenaiChunk(a, e) = Fragment(ended, e) \/ OpenaiChunk(a, e) = ended
  BY Zenon DEF OpenaiChunk, ended, counted, r
<1> QED
  BY <1>3, <1>4, <1>5, <1>6, <1>7, Zenon

\* [DONE] ends an openai stream.
LEMMA OpenaiDoneEnds ==
  ASSUME NEW a, AccumInv(a)
  PROVE  AccumInv(OpenaiDone(a)) /\ Over(OpenaiDone(a))
<1>1. AccumInv(EndCalls(a))
  BY EndsKeep
<1> QED
  BY <1>1, DoneEnds DEF OpenaiDone

\* A clean end of the transfer ends it too.
LEMMA OpenaiClosedEnds ==
  ASSUME NEW a, AccumInv(a)
  PROVE  AccumInv(OpenaiClosed(a)) /\ Over(OpenaiClosed(a))
BY OpenaiDoneEnds, ErrorEnds DEF OpenaiClosed

\* The end of a content block.
LEMMA EndBlockKeeps ==
  ASSUME NEW a, AccumInv(a)
  PROVE  AccumInv(EndBlock(a))
<1>1. AccumInv(Emit(a, ToolEnd(CurrentTool(a))))
  BY EmitsKeep
<1>2. AccumInv([Emit(a, ToolEnd(CurrentTool(a))) EXCEPT !.inTool = FALSE])
  BY <1>1, AccumSets
<1> QED
  BY <1>2 DEF EndBlock

\* message_stop ends an anthropic stream.
LEMMA MessageStopEnds ==
  ASSUME NEW a, AccumInv(a)
  PROVE  AccumInv(MessageStop(a)) /\ Over(MessageStop(a))
<1>1. AccumInv(EmitUsage(a))
  BY UsageKeeps
<1> QED
  BY <1>1, DoneEnds DEF MessageStop

\* [DONE] ends it as well.
LEMMA AnthropicDoneEnds ==
  ASSUME NEW a, AccumInv(a)
  PROVE  AccumInv(AnthropicDone(a)) /\ Over(AnthropicDone(a))
<1>1. AccumInv(EndBlock(a))
  BY EndBlockKeeps
<1> QED
  BY <1>1, MessageStopEnds DEF AnthropicDone

\* And a clean end of the transfer.
LEMMA AnthropicClosedEnds ==
  ASSUME NEW a, AccumInv(a)
  PROVE  AccumInv(AnthropicClosed(a)) /\ Over(AnthropicClosed(a))
BY AnthropicDoneEnds, ErrorEnds DEF AnthropicClosed

\* The start of a content block.
LEMMA BlockStartKeeps ==
  ASSUME NEW a, AccumInv(a), NEW e
  PROVE  AccumInv(BlockStart(a, e))
<1> DEFINE b == EnsureCall(a, a.counter)
           s == Emit(b, ToolStart(a.counter, e.id))
           t == [s EXCEPT !.inTool = TRUE]
<1>1. AccumInv(b)
  BY CallsKeep
<1> HIDE DEF b
<1>2. AccumInv(s)
  BY <1>1, EmitsKeep
<1> HIDE DEF s
<1>3. AccumInv(t)
  BY <1>2, AccumSets
<1>4. AccumInv([t EXCEPT !.counter = s.counter + 1])
  <2> HIDE DEF t
  <2> QED
    BY <1>3, AccumSets
<1>5. [s EXCEPT !.inTool = TRUE, !.counter = @ + 1] = [t EXCEPT !.counter = s.counter + 1]
  OBVIOUS
<1>6. AccumInv([a EXCEPT !.inTool = FALSE])
  BY AccumSets
<1>7. \/ BlockStart(a, e) = [a EXCEPT !.inTool = FALSE]
      \/ BlockStart(a, e) = [s EXCEPT !.inTool = TRUE, !.counter = @ + 1]
  BY Zenon DEF BlockStart, s, b
<1> QED
  BY <1>4, <1>5, <1>6, <1>7, Zenon

\* handle_event of anthropic.c.
LEMMA AnthropicEventKeeps ==
  ASSUME NEW a, AccumInv(a), NEW e
  PROVE  AccumInv(AnthropicEvent(a, e))
<1>1. AccumInv(EmitError(a, "json")) /\ AccumInv(EmitError(a, "model"))
  BY ErrorEnds
<1>2. AccumInv([a EXCEPT !.usage = TRUE])
  BY AccumSets
<1>3. AccumInv(BlockStart(a, e))
  BY BlockStartKeeps
<1>4. AccumInv(Emit(a, TextDelta)) /\ AccumInv(Emit(a, ToolDelta(CurrentTool(a), e.args)))
  BY EmitsKeep
<1>5. AccumInv(BlockDelta(a, e))
  BY <1>4 DEF BlockDelta
<1>6. AccumInv(EndBlock(a)) /\ AccumInv(MessageStop(a))
  BY EndBlockKeeps, MessageStopEnds
<1> DEFINE r == StopReason(e.reason)
           ended == IF e.reason = "" THEN a ELSE [a EXCEPT !.reason = r]
<1> HIDE DEF r
<1>7. AccumInv([a EXCEPT !.reason = r])
  BY AccumSets
<1>8. AccumInv(ended)
  BY <1>7, Zenon
<1> HIDE DEF ended
<1>9. \/ AnthropicEvent(a, e) = EmitError(a, "json") \/ AnthropicEvent(a, e) = EmitError(a, "model")
      \/ AnthropicEvent(a, e) = [a EXCEPT !.usage = TRUE]
      \/ AnthropicEvent(a, e) = BlockStart(a, e) \/ AnthropicEvent(a, e) = Emit(a, TextDelta)
      \/ AnthropicEvent(a, e) = BlockDelta(a, e) \/ AnthropicEvent(a, e) = EndBlock(a)
      \/ AnthropicEvent(a, e) = ended \/ AnthropicEvent(a, e) = MessageStop(a)
      \/ AnthropicEvent(a, e) = a
  BY Zenon DEF AnthropicEvent, ended, r
<1> QED
  BY <1>1, <1>2, <1>3, <1>4, <1>5, <1>6, <1>8, <1>9, Zenon

\* The counts of a Responses stream.
LEMMA ResponsesUsageKeeps ==
  ASSUME NEW a, AccumInv(a), NEW e
  PROVE  AccumInv(ResponsesUsage(a, e))
BY UsageKeeps DEF ResponsesUsage

\* emit_call_start_if_needed.
LEMMA CallStartKeeps ==
  ASSUME NEW a, AccumInv(a), NEW index
  PROVE  AccumInv(CallStart(a, index))
<1> DEFINE c == CallState(a, index)
           s == Emit(a, ToolStart(index, c.id))
           d == IF c.pending = << >> THEN s ELSE Emit(s, ToolDelta(index, c.pending))
           n == [c EXCEPT !.started = TRUE, !.pending = << >>, !.sent = @ + Len(c.pending)]
<1> HIDE DEF c, n
<1>1. AccumInv(s)
  BY EmitsKeep
<1> HIDE DEF s
<1>2. AccumInv(d)
  BY <1>1, EmitsKeep
<1> HIDE DEF d
<1>3. AccumInv(SetCall(d, index, n))
  BY <1>2, CallsKeep
<1>4. CallStart(a, index) = a \/ CallStart(a, index) = SetCall(d, index, n)
  BY Zenon DEF CallStart, d, s, c, n
<1> QED
  BY <1>3, <1>4

\* Complete arguments.
LEMMA FullArgsKeeps ==
  ASSUME NEW a, AccumInv(a), NEW index, NEW args
  PROVE  AccumInv(FullArgs(a, index, args))
<1> DEFINE c == CallState(a, index)
           n == [c EXCEPT !.sent = Len(args)]
           m == [c EXCEPT !.pending = args]
<1> HIDE DEF c, n, m
<1>1. AccumInv(Emit(a, ToolDelta(index, args)))
  BY EmitsKeep
<1>2. AccumInv(SetCall(Emit(a, ToolDelta(index, args)), index, n)) /\ AccumInv(SetCall(a, index, m))
  BY <1>1, CallsKeep
<1>3. \/ FullArgs(a, index, args) = a
      \/ FullArgs(a, index, args) = SetCall(Emit(a, ToolDelta(index, args)), index, n)
      \/ FullArgs(a, index, args) = SetCall(a, index, m)
  BY Zenon DEF FullArgs, c, n, m
<1> QED
  BY <1>2, <1>3

\* An output item.
LEMMA OutputItemKeeps ==
  ASSUME NEW a, AccumInv(a), NEW e
  PROVE  AccumInv(OutputItem(a, e))
<1> DEFINE known == SetCall(a, e.index, WithId(CallState(a, e.index), e.id))
<1>1. AccumInv(known)
  BY CallsKeep
<1> HIDE DEF known
<1>2. AccumInv(CallStart(FullArgs(known, e.index, e.args), e.index))
  BY <1>1, FullArgsKeeps, CallStartKeeps
<1> QED
  BY <1>2 DEF OutputItem, known

\* A fragment of the arguments.
LEMMA ArgsDeltaKeeps ==
  ASSUME NEW a, AccumInv(a), NEW e
  PROVE  AccumInv(ArgsDelta(a, e))
<1> DEFINE c == CallState(a, e.index)
           n == [c EXCEPT !.sent = @ + Len(e.args)]
           m == [c EXCEPT !.pending = @ \o e.args]
           s == Emit(a, ToolDelta(e.index, e.args))
<1> HIDE DEF c, n, m
<1>1. AccumInv(s)
  BY EmitsKeep
<1> HIDE DEF s
<1>2. AccumInv(SetCall(s, e.index, n)) /\ AccumInv(SetCall(a, e.index, m))
  BY <1>1, CallsKeep
<1>3. ArgsDelta(a, e) = SetCall(s, e.index, n) \/ ArgsDelta(a, e) = SetCall(a, e.index, m)
  BY Zenon DEF ArgsDelta, c, n, m, s
<1> QED
  BY <1>2, <1>3

\* And all of them.
LEMMA ArgsDoneKeeps ==
  ASSUME NEW a, AccumInv(a), NEW e
  PROVE  AccumInv(ArgsDone(a, e))
<1>1. AccumInv(FullArgs(a, e.index, e.args))
  BY FullArgsKeeps
<1>2. AccumInv(CallStart(FullArgs(a, e.index, e.args), e.index))
  BY <1>1, CallStartKeeps
<1> QED
  BY <1>2, FullArgsKeeps DEF ArgsDone

\* finish_stream ends a Responses stream.
LEMMA FinishStreamEnds ==
  ASSUME NEW a, AccumInv(a), NEW reason
  PROVE  AccumInv(FinishStream(a, reason)) /\ Over(FinishStream(a, reason))
<1> DEFINE r == IF reason = "complete" /\ a.calls # << >> THEN "tool_calls" ELSE reason
           b == [EndCalls(a) EXCEPT !.reason = r]
<1> HIDE DEF r
<1>1. AccumInv(EndCalls(a))
  BY EndsKeep
<1>2. AccumInv(b)
  BY <1>1, AccumSets
<1> HIDE DEF b
<1>3. AccumInv(EmitDone(b)) /\ Over(EmitDone(b))
  BY <1>2, DoneEnds
<1>4. AccumInv(EmitError(a, "model")) /\ Over(EmitError(a, "model"))
  BY ErrorEnds
<1>5. \/ FinishStream(a, reason) = a /\ Over(a)
      \/ FinishStream(a, reason) = EmitError(a, "model") \/ FinishStream(a, reason) = EmitDone(b)
  BY Zenon DEF FinishStream, b, r
<1> QED
  BY <1>3, <1>4, <1>5, Zenon

\* handle_event of responses.c.
LEMMA ResponsesEventKeeps ==
  ASSUME NEW a, AccumInv(a), NEW e
  PROVE  AccumInv(ResponsesEvent(a, e))
<1> DEFINE b == EnsureCall(a, e.index)
           u == ResponsesUsage(a, e)
           r == IncompleteReason(e.reason)
<1>1. AccumInv(b)
  BY CallsKeep
<1>2. AccumInv(u)
  BY ResponsesUsageKeeps
<1> HIDE DEF b, u, r
<1>3. AccumInv(OutputItem(b, e)) /\ AccumInv(ArgsDelta(b, e)) /\ AccumInv(ArgsDone(b, e))
  BY <1>1, OutputItemKeeps, ArgsDeltaKeeps, ArgsDoneKeeps
<1>4. AccumInv(EmitError(a, "json")) /\ AccumInv(EmitError(a, "model"))
  BY ErrorEnds
<1>5. AccumInv(Emit(a, TextDelta))
  BY EmitsKeep
<1>6. AccumInv(FinishStream(u, "complete")) /\ AccumInv(FinishStream(u, r))
  BY <1>2, FinishStreamEnds
<1>7. \/ ResponsesEvent(a, e) = EmitError(a, "json") \/ ResponsesEvent(a, e) = EmitError(a, "model")
      \/ ResponsesEvent(a, e) = Emit(a, TextDelta) \/ ResponsesEvent(a, e) = OutputItem(b, e)
      \/ ResponsesEvent(a, e) = ArgsDelta(b, e) \/ ResponsesEvent(a, e) = ArgsDone(b, e)
      \/ ResponsesEvent(a, e) = u \/ ResponsesEvent(a, e) = FinishStream(u, "complete")
      \/ ResponsesEvent(a, e) = FinishStream(u, r) \/ ResponsesEvent(a, e) = a
  BY Zenon DEF ResponsesEvent, b, u, r
<1> QED
  BY <1>2, <1>3, <1>4, <1>5, <1>6, <1>7, Zenon

\* A clean end of the transfer.
LEMMA ResponsesClosedEnds ==
  ASSUME NEW a, AccumInv(a)
  PROVE  AccumInv(ResponsesClosed(a)) /\ Over(ResponsesClosed(a))
BY FinishStreamEnds, ErrorEnds DEF ResponsesClosed, ResponsesDone

\* sse_cb of each provider.
LEMMA OnSseKeeps ==
  ASSUME NEW a, AccumInv(a), NEW ev, protocol \in {"openai", "anthropic", "responses"}
  PROVE  AccumInv(OnSse(a, ev))
<1> DEFINE e == Parsed(ev.data)
<1> HIDE DEF e
<1>1. AccumInv(OpenaiDone(a)) /\ AccumInv(OpenaiChunk(a, e))
  BY OpenaiDoneEnds, OpenaiChunkKeeps
<1>2. AccumInv(AnthropicDone(a)) /\ AccumInv(AnthropicEvent(a, e))
  BY AnthropicDoneEnds, AnthropicEventKeeps
<1>3. AccumInv(ResponsesDone(a)) /\ AccumInv(ResponsesEvent(a, e))
  BY FinishStreamEnds, ResponsesEventKeeps DEF ResponsesDone
<1>4. \/ OnSse(a, ev) = OpenaiDone(a) \/ OnSse(a, ev) = OpenaiChunk(a, e)
      \/ OnSse(a, ev) = AnthropicDone(a) \/ OnSse(a, ev) = AnthropicEvent(a, e)
      \/ OnSse(a, ev) = ResponsesDone(a) \/ OnSse(a, ev) = ResponsesEvent(a, e)
  <2>1. CASE protocol = "openai"
    BY <2>1 DEF OnSse, e
  <2>2. CASE protocol = "anthropic"
    BY <2>2 DEF OnSse, e
  <2>3. CASE protocol = "responses"
    BY <2>3 DEF OnSse, e
  <2> QED
    BY <2>1, <2>2, <2>3
<1> QED
  BY <1>1, <1>2, <1>3, <1>4, Zenon

\* And so do all the events of a read.
LEMMA AccumulatedKeeps ==
  ASSUME AccumInv(acc), protocol \in {"openai", "anthropic", "responses"},
         NEW p, ParserInv(p)
  PROVE  AccumInv(Accumulated(p))
<1> DEFINE N == Len(p.emitted)
<1>1. N \in Nat /\ DOMAIN p.emitted = 1 .. N
  BY AppendList DEF ParserInv
<1> HIDE DEF N
<1>2. PICK f : /\ f[0] = acc /\ Accumulated(p) = f[N]
               /\ \A k \in 1 .. N : f[k] = OnSse(f[k - 1], p.emitted[k])
  BY <1>1, AccumRuns
<1> DEFINE T == {k \in 0 .. N : ~AccumInv(f[k])}
<1>3. ASSUME T # {} PROVE FALSE
  <2>1. T \in SUBSET Nat
    BY <1>1
  <2>2. PICK k \in T : \A j \in T : k <= j
    BY <1>3, <2>1, LeastElement
  <2>3. k # 0
    BY <1>2, <2>2
  <2>4. k \in 1 .. N /\ k - 1 \in 0 .. N /\ ~(k <= k - 1)
    BY <1>1, <2>2, <2>3
  <2>5. AccumInv(f[k - 1])
    BY <2>2, <2>4
  <2>6. AccumInv(f[k])
    BY <1>2, <2>4, <2>5, OnSseKeeps
  <2> QED
    BY <2>2, <2>6
<1>4. AccumInv(f[N])
  BY <1>1, <1>3
<1> QED
  BY <1>2, <1>4

-----------------------------------------------------------------------------
(* The parser. *)

\* sse_flush_event.
LEMMA FlushKeeps ==
  ASSUME NEW p, ParserInv(p)
  PROVE  ParserInv(FlushEvent(p))
<1>1. CASE p.have
  <2> DEFINE r == Append(p.emitted, Payload(p.data))
             b == [p EXCEPT !.emitted = r, !.data = << >>, !.have = FALSE]
  <2>1. IsList(r)
    BY AppendList DEF ParserInv
  <2>2. FlushEvent(p) = b
    BY <1>1 DEF FlushEvent
  <2> HIDE DEF r
  <2>3. DOMAIN b = {"pending", "data", "have", "done", "emitted"} /\ b.emitted = r
    BY DEF ParserInv
  <2> QED
    BY <2>1, <2>2, <2>3 DEF ParserInv
<1>2. CASE ~p.have
  BY <1>2 DEF FlushEvent
<1> QED
  BY <1>1, <1>2

\* sse_process_line.
LEMMA LineKeeps ==
  ASSUME NEW p, ParserInv(p), NEW raw
  PROVE  ParserInv(ProcessLine(p, raw))
<1> DEFINE line == StripReturn(raw)
           r == Append(p.emitted, StreamDone)
           b == [p EXCEPT !.done = TRUE, !.emitted = r]
           d == p.data \o Tail(line)
           c == [p EXCEPT !.data = d, !.have = TRUE]
<1> HIDE DEF line, d
<1>1. IsList(r)
  BY AppendList DEF ParserInv
<1> HIDE DEF r
<1>2. DOMAIN b = {"pending", "data", "have", "done", "emitted"} /\ b.emitted = r
  BY DEF ParserInv
<1>3. DOMAIN c = {"pending", "data", "have", "done", "emitted"} /\ c.emitted = p.emitted
  BY DEF ParserInv
<1>4. ParserInv(b) /\ ParserInv(c)
  BY <1>1, <1>2, <1>3 DEF ParserInv
<1>5. \/ ProcessLine(p, raw) = FlushEvent(p) \/ ProcessLine(p, raw) = p
      \/ ProcessLine(p, raw) = b \/ ProcessLine(p, raw) = c
  BY Zenon DEF ProcessLine, line, r, d
<1> HIDE DEF b, c
<1> QED
  BY <1>4, <1>5, FlushKeeps

\* What sets other fields leaves the invariant alone.
LEMMA ParserSets ==
  ASSUME NEW p, ParserInv(p), NEW v
  PROVE  /\ ParserInv([p EXCEPT !.pending = v]) /\ ParserInv([p EXCEPT !.done = v])
         /\ ParserInv([p EXCEPT !.emitted = << >>])
<1>1. ParserInv([p EXCEPT !.pending = v]) /\ ParserInv([p EXCEPT !.done = v])
  BY DEF ParserInv
<1>2. IsList(<< >>)
  <2>1. << >> \in Seq(Elements(<< >>))
    OBVIOUS
  <2> QED
    BY <2>1 DEF IsList
<1>3. ParserInv([p EXCEPT !.emitted = << >>])
  BY <1>2 DEF ParserInv
<1> QED
  BY <1>1, <1>3

\* One byte of sse_parser_feed.
LEMMA ByteKeeps ==
  ASSUME NEW p, ParserInv(p), NEW byte
  PROVE  ParserInv(FeedByte(p, byte))
<1> DEFINE l == ProcessLine(p, p.pending)
           v == Append(p.pending, byte)
<1>1. ParserInv(l)
  BY LineKeeps
<1> HIDE DEF l, v
<1>2. ParserInv([l EXCEPT !.pending = << >>]) /\ ParserInv([p EXCEPT !.pending = v])
  BY <1>1, ParserSets
<1>3. \/ FeedByte(p, byte) = p \/ FeedByte(p, byte) = [l EXCEPT !.pending = << >>]
      \/ FeedByte(p, byte) = [p EXCEPT !.pending = v]
  BY Zenon DEF FeedByte, l, v
<1> QED
  BY <1>2, <1>3

\* And all the bytes of a read.
LEMMA FeedKeeps ==
  ASSUME NEW p, ParserInv(p), NEW q, IsList(q)
  PROVE  ParserInv(Feed(p, q))
<1> DEFINE N == Len(q)
<1>0. N \in Nat
  BY AppendList
<1>1. PICK f : /\ f[0] = p /\ Feed(p, q) = f[N]
               /\ \A k \in 1 .. N : f[k] = FeedByte(f[k - 1], q[k])
  BY ParserRuns
<1> HIDE DEF N
<1> DEFINE T == {k \in 0 .. N : ~ParserInv(f[k])}
<1>2. ASSUME T # {} PROVE FALSE
  <2>1. T \in SUBSET Nat
    BY <1>0
  <2>2. PICK k \in T : \A j \in T : k <= j
    BY <1>2, <2>1, LeastElement
  <2>3. k # 0
    BY <1>1, <2>2
  <2>4. k \in 1 .. N /\ k - 1 \in 0 .. N /\ ~(k <= k - 1)
    BY <1>0, <2>2, <2>3
  <2>5. ParserInv(f[k - 1])
    BY <2>2, <2>4
  <2>6. ParserInv(f[k])
    BY <1>1, <2>4, <2>5, ByteKeeps
  <2> QED
    BY <2>2, <2>6
<1>3. ParserInv(f[N])
  BY <1>0, <1>2
<1> QED
  BY <1>1, <1>3

\* sse_parser_finish.
LEMMA FinishKeeps ==
  ASSUME NEW p, ParserInv(p)
  PROVE  ParserInv(Finish(p))
<1> DEFINE last == IF p.pending = << >> THEN p ELSE ProcessLine(p, p.pending)
           b == [FlushEvent(last) EXCEPT !.pending = << >>]
           c == [b EXCEPT !.done = TRUE]
<1>1. ParserInv(last)
  BY LineKeeps
<1> HIDE DEF last
<1>2. ParserInv(FlushEvent(last))
  BY <1>1, FlushKeeps
<1>3. ParserInv(b)
  BY <1>2, ParserSets
<1>4. ParserInv(c)
  <2> HIDE DEF b
  <2> QED
    BY <1>3, ParserSets
<1>5. [FlushEvent(last) EXCEPT !.pending = << >>, !.done = TRUE] = c
  OBVIOUS
<1> HIDE DEF b, c
<1>6. Finish(p) = p \/ Finish(p) = [FlushEvent(last) EXCEPT !.pending = << >>, !.done = TRUE]
  BY Zenon DEF Finish, last
<1> QED
  BY <1>4, <1>5, <1>6, Zenon

-----------------------------------------------------------------------------
(* The request. *)

\* The bytes of an event are a list.
LEMMA BytesAreList ==
  ASSUME form \in Forms, NEW e, NEW k
  PROVE  IsList(Bytes(e, k))
<1> DEFINE l == Left(k)
           r == Right(k)
           Piecewise == {Comment, LineEnd, DataMark, DoneMark, Return, l, r}
           long == [n \in 1 .. MaxLine |-> l]
           S == Seq(Piecewise)
<1>1. /\ Comment \in Piecewise /\ LineEnd \in Piecewise /\ DataMark \in Piecewise
      /\ DoneMark \in Piecewise /\ Return \in Piecewise /\ l \in Piecewise /\ r \in Piecewise
  OBVIOUS
<1> HIDE DEF l, r, Piecewise
<1>2. << Comment, LineEnd, LineEnd >> \in S /\ << DataMark, DoneMark, LineEnd, LineEnd >> \in S
  BY <1>1
<1>3. << DataMark >> \o long \o << LineEnd, LineEnd >> \in S
  <2>1. long \in S
    BY <1>1, StreamAssumption
  <2>2. << DataMark >> \in S /\ << LineEnd, LineEnd >> \in S
    BY <1>1
  <2> HIDE DEF long
  <2>3. << DataMark >> \o long \in S
    BY <2>1, <2>2
  <2> QED
    BY <2>2, <2>3
<1>4. /\ << DataMark >> \in S /\ << l, r >> \in S /\ << LineEnd, LineEnd >> \in S
      /\ << Return, LineEnd, Return, LineEnd >> \in S
      /\ << DataMark, l, LineEnd, DataMark, r, LineEnd, LineEnd >> \in S
  BY <1>1
<1>5. << DataMark >> \o << l, r >> \in S
  BY <1>4
<1>6. /\ << DataMark >> \o << l, r >> \o << LineEnd, LineEnd >> \in S
      /\ << DataMark >> \o << l, r >> \o << Return, LineEnd, Return, LineEnd >> \in S
  BY <1>4, <1>5
<1>7. form \in {"lf", "crlf", "split"}
  BY StreamAssumption
<1>8. Bytes(e, k) \in
        {<< Comment, LineEnd, LineEnd >>, << DataMark, DoneMark, LineEnd, LineEnd >>,
         << DataMark >> \o long \o << LineEnd, LineEnd >>,
         << DataMark >> \o << l, r >> \o << LineEnd, LineEnd >>,
         << DataMark >> \o << l, r >> \o << Return, LineEnd, Return, LineEnd >>,
         << DataMark, l, LineEnd, DataMark, r, LineEnd, LineEnd >>}
  BY <1>7, Zenon DEF Bytes, Payload2, l, r
<1> HIDE DEF long
<1>9. Bytes(e, k) \in S
  BY <1>2, <1>3, <1>4, <1>6, <1>8
<1> QED
  BY <1>9, SeqIsList

\* A prefix and the rest of the bytes are lists.
LEMMA CutList ==
  ASSUME NEW s, IsList(s), NEW n \in 1 .. Len(s)
  PROVE  IsList(SubSeq(s, 1, n)) /\ IsList(SubSeq(s, n + 1, Len(s)))
<1>1. s \in Seq(Elements(s)) /\ Len(s) \in Nat /\ \A i \in 1 .. Len(s) : s[i] \in Elements(s)
  BY AppendList DEF IsList, Elements
<1>2. SubSeq(s, 1, n) \in Seq(Elements(s)) /\ SubSeq(s, n + 1, Len(s)) \in Seq(Elements(s))
  BY <1>1
<1> QED
  BY <1>2, SeqIsList

\* A new accumulator has said nothing and is not over.
LEMMA InitInv == Init => StreamInv
<1> SUFFICES ASSUME Init PROVE StreamInv
  OBVIOUS
<1>1. IsList(<< >>)
  <2>1. << >> \in Seq(Elements(<< >>))
    OBVIOUS
  <2> QED
    BY <2>1 DEF IsList
<1>2. AccumInv(NewAccum)
  <2>1. /\ DOMAIN NewAccum = AccumFields /\ NewAccum.out = << >> /\ NewAccum.calls = << >>
        /\ NewAccum.error = FALSE /\ NewAccum.done = FALSE
    BY DEF NewAccum, AccumFields
  <2>2. Len(<< >>) = 0 /\ 1 .. 0 = {}
    OBVIOUS
  <2> QED
    BY <1>1, <2>1, <2>2 DEF AccumInv, Over
<1>3. ParserInv(NewParser)
  BY <1>1 DEF ParserInv, NewParser
<1> QED
  BY <1>1, <1>2, <1>3 DEF Init, StreamInv

\* A request that cannot be built, or is.
LEMMA RequestKeeps ==
  ASSUME StreamInv,
         \/ acc' = EmitError(acc, "401") /\ phase' = "closed"
         \/ acc' = EmitError(acc, "model") /\ phase' = "closed"
         \/ acc' = acc /\ phase' = "built",
         UNCHANGED << protocol, form, wire, parser >>
  PROVE  StreamInv'
<1>1. /\ AccumInv(EmitError(acc, "401")) /\ Over(EmitError(acc, "401"))
      /\ AccumInv(EmitError(acc, "model")) /\ Over(EmitError(acc, "model"))
  BY ErrorEnds DEF StreamInv
<1>2. AccumInv(acc)' /\ (phase' = "closed" => Over(acc)')
  <2>1. AccumInv(acc') /\ (phase' = "closed" => Over(acc'))
    BY <1>1 DEF StreamInv
  <2> QED
    BY <2>1 DEF AccumInv, Over
<1>3. ParserInv(parser)' /\ IsList(wire)'
  BY DEF StreamInv, ParserInv, IsList, Elements
<1> QED
  BY <1>2, <1>3 DEF StreamInv

\* What a clean end without a terminal event becomes ends the stream.
LEMMA DoneCbKeeps ==
  ASSUME StreamInv,
         NEW how \in {"ok", "fail"}, NEW ended,
         AccumInv(ended), how = "ok" /\ status = 200 => Over(ended),
         acc' = IF how # "ok" THEN EmitError(ended, "http")
                ELSE IF status # 200 THEN EmitError(ended, "status")
                ELSE ended,
         parser' = [Finish(parser) EXCEPT !.emitted = << >>],
         wire' = << >>, UNCHANGED << protocol, form >>
  PROVE  StreamInv'
<1>1. /\ AccumInv(EmitError(ended, "http")) /\ Over(EmitError(ended, "http"))
      /\ AccumInv(EmitError(ended, "status")) /\ Over(EmitError(ended, "status"))
  BY ErrorEnds
<1>2. AccumInv(acc') /\ Over(acc')
  BY <1>1
<1>3. ParserInv(parser')
  BY FinishKeeps, ParserSets DEF StreamInv
<1>4. IsList(wire')
  <2>1. << >> \in Seq(Elements(<< >>))
    OBVIOUS
  <2> QED
    BY <2>1 DEF IsList
<1> QED
  BY <1>2, <1>3, <1>4 DEF StreamInv

\* Every step keeps the invariant.
LEMMA StepKeeps == StreamInv /\ [Next]_vars => StreamInv'
<1> SUFFICES ASSUME StreamInv, [Next]_vars PROVE StreamInv'
  OBVIOUS
<1>1. /\ AccumInv(acc) /\ ParserInv(parser) /\ IsList(wire)
      /\ protocol \in {"openai", "anthropic", "responses"} /\ form \in Forms
  BY StreamAssumption DEF StreamInv
<1>2. CASE OpenaiRequest
  BY <1>2, RequestKeeps, Zenon DEF OpenaiRequest, Request
<1>3. CASE AnthropicRequest
  BY <1>3, RequestKeeps, Zenon DEF AnthropicRequest, Request
<1>4. CASE ResponsesRequest
  BY <1>4, RequestKeeps, Zenon DEF ResponsesRequest, Request
<1>5. CASE Begin
  <2>1. AccumInv(EmitError(acc, "http")) /\ Over(EmitError(acc, "http"))
    BY <1>1, ErrorEnds
  <2>2. AccumInv(acc') /\ (phase' = "closed" => Over(acc'))
    BY <1>1, <1>5, <2>1 DEF Begin
  <2> QED
    BY <1>1, <1>5, <2>2 DEF Begin, StreamInv
<1>6. CASE ServerSays
  <2>1. PICK e : wire' = wire \o Bytes(e, Len(said) + 1)
    BY <1>6 DEF ServerSays
  <2>2. IsList(Bytes(e, Len(said) + 1))
    BY <1>1, BytesAreList
  <2>3. IsList(wire')
    BY <1>1, <2>1, <2>2, ConcatList
  <2>4. UNCHANGED << protocol, form, phase, parser, acc >>
    BY <1>6 DEF ServerSays
  <2> QED
    BY <1>1, <2>3, <2>4 DEF StreamInv
<1>7. CASE Read
  <2>1. PICK n \in 1 .. Len(wire) :
          LET fed == Feed(parser, SubSeq(wire, 1, n))
          IN /\ wire' = SubSeq(wire, n + 1, Len(wire))
             /\ acc' = Accumulated(fed)
             /\ parser' = [fed EXCEPT !.emitted = << >>]
             /\ phase' = IF TooLong(fed) THEN "refused" ELSE "open"
    BY <1>7, Zenon DEF Read
  <2> DEFINE fed == Feed(parser, SubSeq(wire, 1, n))
  <2>2. IsList(SubSeq(wire, 1, n)) /\ IsList(wire')
    BY <1>1, <2>1, CutList
  <2>3. ParserInv(fed)
    BY <1>1, <2>2, FeedKeeps
  <2>4. phase' # "closed" /\ acc' = Accumulated(fed) /\ parser' = [fed EXCEPT !.emitted = << >>]
    BY <2>1
  <2>5. UNCHANGED << protocol, form >>
    BY <1>7 DEF Read
  <2> HIDE DEF fed
  <2>6. AccumInv(acc') /\ ParserInv(parser')
    BY <1>1, <2>3, <2>4, AccumulatedKeeps, ParserSets
  <2> QED
    BY <1>1, <2>2, <2>4, <2>5, <2>6 DEF StreamInv
<1> DEFINE last == Finish(parser)
           heard == Accumulated(last)
<1>8. AccumInv(heard)
  BY <1>1, FinishKeeps, AccumulatedKeeps
<1>9. CASE OpenaiEnds
  <2>1. PICK how \in {"ok", "fail"} :
          LET ended == IF how = "ok" /\ status = 200 /\ ~Over(heard) THEN OpenaiClosed(heard) ELSE heard
          IN /\ acc' = IF how # "ok" THEN EmitError(ended, "http")
                       ELSE IF status # 200 THEN EmitError(ended, "status")
                       ELSE ended
             /\ parser' = [last EXCEPT !.emitted = << >>]
    BY <1>9, Zenon DEF OpenaiEnds, DoneCb
  <2>2. wire' = << >> /\ UNCHANGED << protocol, form >>
    BY <1>9, Zenon DEF OpenaiEnds, DoneCb
  <2> DEFINE ended == IF how = "ok" /\ status = 200 /\ ~Over(heard) THEN OpenaiClosed(heard) ELSE heard
  <2>3. AccumInv(OpenaiClosed(heard)) /\ Over(OpenaiClosed(heard))
    BY <1>8, OpenaiClosedEnds
  <2> HIDE DEF heard
  <2>4. AccumInv(ended) /\ (how = "ok" /\ status = 200 => Over(ended))
    BY <1>8, <2>3, Zenon
  <2> HIDE DEF ended
  <2>5. /\ acc' = IF how # "ok" THEN EmitError(ended, "http")
                  ELSE IF status # 200 THEN EmitError(ended, "status")
                  ELSE ended
        /\ parser' = [last EXCEPT !.emitted = << >>]
    BY <2>1, Zenon DEF ended
  <2> QED
    BY <2>2, <2>4, <2>5, DoneCbKeeps
<1>10. CASE AnthropicEnds
  <2>1. PICK how \in {"ok", "fail"} :
          LET ended == IF how = "ok" /\ status = 200 /\ ~Over(heard) THEN AnthropicClosed(heard) ELSE heard
          IN /\ acc' = IF how # "ok" THEN EmitError(ended, "http")
                       ELSE IF status # 200 THEN EmitError(ended, "status")
                       ELSE ended
             /\ parser' = [last EXCEPT !.emitted = << >>]
    BY <1>10, Zenon DEF AnthropicEnds, DoneCb
  <2>2. wire' = << >> /\ UNCHANGED << protocol, form >>
    BY <1>10, Zenon DEF AnthropicEnds, DoneCb
  <2> DEFINE ended == IF how = "ok" /\ status = 200 /\ ~Over(heard) THEN AnthropicClosed(heard) ELSE heard
  <2>3. AccumInv(AnthropicClosed(heard)) /\ Over(AnthropicClosed(heard))
    BY <1>8, AnthropicClosedEnds
  <2> HIDE DEF heard
  <2>4. AccumInv(ended) /\ (how = "ok" /\ status = 200 => Over(ended))
    BY <1>8, <2>3, Zenon
  <2> HIDE DEF ended
  <2>5. /\ acc' = IF how # "ok" THEN EmitError(ended, "http")
                  ELSE IF status # 200 THEN EmitError(ended, "status")
                  ELSE ended
        /\ parser' = [last EXCEPT !.emitted = << >>]
    BY <2>1, Zenon DEF ended
  <2> QED
    BY <2>2, <2>4, <2>5, DoneCbKeeps
<1>11. CASE ResponsesEnds
  <2>1. PICK how \in {"ok", "fail"} :
          LET ended == IF how = "ok" /\ status = 200 /\ ~Over(heard) THEN ResponsesClosed(heard) ELSE heard
          IN /\ acc' = IF how # "ok" THEN EmitError(ended, "http")
                       ELSE IF status # 200 THEN EmitError(ended, "status")
                       ELSE ended
             /\ parser' = [last EXCEPT !.emitted = << >>]
    BY <1>11, Zenon DEF ResponsesEnds, DoneCb
  <2>2. wire' = << >> /\ UNCHANGED << protocol, form >>
    BY <1>11, Zenon DEF ResponsesEnds, DoneCb
  <2> DEFINE ended == IF how = "ok" /\ status = 200 /\ ~Over(heard) THEN ResponsesClosed(heard) ELSE heard
  <2>3. AccumInv(ResponsesClosed(heard)) /\ Over(ResponsesClosed(heard))
    BY <1>8, ResponsesClosedEnds
  <2> HIDE DEF heard
  <2>4. AccumInv(ended) /\ (how = "ok" /\ status = 200 => Over(ended))
    BY <1>8, <2>3, Zenon
  <2> HIDE DEF ended
  <2>5. /\ acc' = IF how # "ok" THEN EmitError(ended, "http")
                  ELSE IF status # 200 THEN EmitError(ended, "status")
                  ELSE ended
        /\ parser' = [last EXCEPT !.emitted = << >>]
    BY <2>1, Zenon DEF ended
  <2> QED
    BY <2>2, <2>4, <2>5, DoneCbKeeps
<1>12. CASE UNCHANGED vars
  BY <1>1, <1>12 DEF StreamInv, vars
<1> QED
  BY <1>2, <1>3, <1>4, <1>5, <1>6, <1>7, <1>9, <1>10, <1>11, <1>12, Zenon DEF Next

\* What holds at 0 and at each number after one it holds at holds everywhere.
LEMMA CountUp ==
  ASSUME NEW G, 0 \in G, NEW n \in Nat, \A k \in 1 .. n : k - 1 \in G => k \in G
  PROVE  \A k \in 0 .. n : k \in G
<1> DEFINE T == {k \in 0 .. n : k \notin G}
<1>1. SUFFICES ASSUME T # {} PROVE FALSE
  OBVIOUS
<1>2. T \in SUBSET Nat
  OBVIOUS
<1>3. PICK k \in T : \A y \in T : k <= y
  BY <1>1, <1>2, LeastElement
<1>4. k \in 0 .. n /\ k \notin G /\ k # 0
  BY <1>3
<1>5. k \in 1 .. n /\ k - 1 \in 0 .. n /\ ~(k <= k - 1)
  BY <1>4
<1>6. k - 1 \notin T
  BY <1>3, <1>5
<1> QED
  BY <1>4, <1>5, <1>6

-----------------------------------------------------------------------------
(* Lists of lists: FlattenSeq is a recursive function over positions. *)

FlatTable(f, ss, n) == f = [i \in 1 .. n |-> IF i = 1 THEN ss[i] ELSE f[i - 1] \o ss[i]]

\* It has a value for each of them.
LEMMA FlatTableExists ==
  ASSUME NEW ss, NEW N \in Nat \ {0}
  PROVE  \E f : FlatTable(f, ss, N)
<1> DEFINE Has(n) == \E f : FlatTable(f, ss, n + 1)
           G == {n \in 0 .. N - 1 : Has(n)}
<1>1. 0 \in G
  <2>1. FlatTable([i \in 1 .. 1 |-> ss[i]], ss, 1)
    BY DEF FlatTable
  <2>2. 0 + 1 = 1 /\ 0 \in 0 .. N - 1
    OBVIOUS
  <2> QED
    BY <2>1, <2>2, Zenon
<1>2. ASSUME NEW n \in 1 .. N - 1, n - 1 \in G PROVE n \in G
  <2>1. PICK f : FlatTable(f, ss, n)
    BY <1>2
  <2> DEFINE g == [i \in 1 .. n + 1 |-> IF i <= n THEN f[i] ELSE f[n] \o ss[n + 1]]
  <2>2. n \in Nat \ {0} /\ n \in 0 .. N - 1
    OBVIOUS
  <2>3. \A i \in 1 .. n : f[i] = IF i = 1 THEN ss[i] ELSE f[i - 1] \o ss[i]
    BY <2>1, <2>2 DEF FlatTable
  <2>4. \A i \in 1 .. n + 1 : g[i] = IF i = 1 THEN ss[i] ELSE g[i - 1] \o ss[i]
    BY <2>2, <2>3
  <2>5. g = [i \in 1 .. n + 1 |-> g[i]]
    OBVIOUS
  <2> HIDE DEF g
  <2>6. FlatTable(g, ss, n + 1)
    BY <2>4, <2>5 DEF FlatTable
  <2> QED
    BY <2>2, <2>6
<1> HIDE DEF G
<1>3. \A n \in 0 .. N - 1 : n \in G
  BY <1>1, <1>2, CountUp
<1>4. N - 1 \in G
  BY <1>3
<1> QED
  BY <1>4 DEF G

\* FlattenSeq takes its lists one after the other.
LEMMA FlatRuns ==
  ASSUME NEW S, NEW ss \in Seq(Seq(S))
  PROVE  \E g : /\ g[0] = << >> /\ FlattenSeq(ss) = g[Len(ss)]
                /\ \A k \in 0 .. Len(ss) : g[k] \in Seq(S)
                /\ \A k \in 1 .. Len(ss) : g[k] = g[k - 1] \o ss[k]
<1> DEFINE n == Len(ss)
<1>1. n \in Nat /\ \A k \in 1 .. n : ss[k] \in Seq(S)
  OBVIOUS
<1>2. CASE n = 0
  <2>1. ss = << >>
    BY <1>2
  <2>2. FlattenSeq(ss) = << >>
    BY <2>1 DEF FlattenSeq
  <2> DEFINE g == [k \in {0} |-> << >>]
  <2>3. g[0] = << >> /\ g[0] \in Seq(S)
    OBVIOUS
  <2> HIDE DEF g
  <2>4. 0 .. n = {0} /\ 1 .. n = {}
    BY <1>2
  <2> QED
    BY <1>2, <2>2, <2>3, <2>4
<1>3. CASE n # 0
  <2> DEFINE flatten[i \in 1 .. Len(ss)] == IF i = 1 THEN ss[i] ELSE flatten[i - 1] \o ss[i]
  <2>1. FlattenSeq(ss) = flatten[n]
    BY <1>3 DEF FlattenSeq
  <2>2. flatten = CHOOSE f : FlatTable(f, ss, n)
    BY DEF FlatTable
  <2> HIDE DEF flatten, n
  <2>3. FlatTable(flatten, ss, n)
    BY <1>1, <1>3, <2>2, FlatTableExists, Zenon
  <2> DEFINE g == [k \in 0 .. n |-> IF k = 0 THEN << >> ELSE flatten[k]]
  <2>4. \A k \in 1 .. n : flatten[k] = IF k = 1 THEN ss[k] ELSE flatten[k - 1] \o ss[k]
    BY <2>3 DEF FlatTable
  <2>5. g[0] = << >> /\ g[n] = flatten[n]
    BY <1>1, <1>3
  <2>6. ASSUME NEW k \in 1 .. n PROVE g[k] = g[k - 1] \o ss[k]
    <3>1. CASE k = 1
      <4>1. 1 \in 1 .. n /\ 1 \in 0 .. n /\ n \in Nat
        BY <1>1, <1>3, <3>1 DEF n
      <4>2. g[1] = ss[1] /\ g[0] = << >> /\ ss[1] \in Seq(S)
        BY <1>1, <2>4, <4>1
      <4> HIDE DEF g
      <4>3. << >> \o ss[1] = ss[1]
        BY <4>2, ConcatEmptySeq
      <4>4. g[1] = g[0] \o ss[1]
        BY <4>2, <4>3
      <4>5. k = 1 /\ k - 1 = 0
        BY <3>1
      <4> QED
        BY <4>4, <4>5
    <3>2. CASE k # 1
      <4>1. g[k] = flatten[k] /\ g[k - 1] = flatten[k - 1]
        BY <1>1, <3>2
      <4> HIDE DEF g
      <4> QED
        BY <2>4, <3>2, <4>1
    <3> QED
      BY <3>1, <3>2
  <2> HIDE DEF g
  <2> DEFINE G == {k \in 0 .. n : g[k] \in Seq(S)}
  <2>7. << >> \in Seq(S) /\ 0 \in 0 .. n /\ n \in Nat
    BY <1>1 DEF n
  <2>8. 0 \in G
    BY <2>5, <2>7
  <2>9. ASSUME NEW k \in 1 .. n, k - 1 \in G PROVE k \in G
    <3>1. g[k - 1] \in Seq(S) /\ k \in 0 .. n
      BY <2>9, <2>7
    <3>2. g[k] = g[k - 1] \o ss[k] /\ ss[k] \in Seq(S)
      BY <1>1, <2>6
    <3>3. g[k] \in Seq(S)
      BY <3>1, <3>2
    <3> QED
      BY <3>1, <3>3
  <2> HIDE DEF G
  <2>10. \A k \in 0 .. n : k \in G
    BY <2>7, <2>8, <2>9, CountUp
  <2>11. \A k \in 0 .. n : g[k] \in Seq(S)
    BY <2>10 DEF G
  <2> QED
    BY <2>1, <2>5, <2>6, <2>11 DEF n
<1> QED
  BY <1>2, <1>3

\* It makes a list, of what the lists hold.
LEMMA FlatType ==
  ASSUME NEW S, NEW ss \in Seq(Seq(S))
  PROVE  FlattenSeq(ss) \in Seq(S)
<1>1. PICK g : /\ FlattenSeq(ss) = g[Len(ss)]
               /\ \A k \in 0 .. Len(ss) : g[k] \in Seq(S)
  BY FlatRuns
<1>2. Len(ss) \in 0 .. Len(ss)
  OBVIOUS
<1> QED
  BY <1>1, <1>2

\* One list more is appended.
LEMMA FlatAppend ==
  ASSUME NEW S, NEW ss \in Seq(Seq(S)), NEW t \in Seq(S)
  PROVE  FlattenSeq(Append(ss, t)) = FlattenSeq(ss) \o t
<1> DEFINE n == Len(ss)
           tt == Append(ss, t)
<1>1. n \in Nat /\ tt \in Seq(Seq(S)) /\ Len(tt) = n + 1 /\ tt[n + 1] = t
      /\ \A k \in 1 .. n : tt[k] = ss[k]
  OBVIOUS
<1>2. PICK f : /\ f[0] = << >> /\ FlattenSeq(ss) = f[n]
               /\ \A k \in 1 .. n : f[k] = f[k - 1] \o ss[k]
  BY FlatRuns
<1> HIDE DEF tt
<1>3. tt \in Seq(Seq(S))
  BY <1>1
<1>4. \E g : /\ g[0] = << >> /\ FlattenSeq(tt) = g[Len(tt)]
             /\ \A k \in 0 .. Len(tt) : g[k] \in Seq(S)
             /\ \A k \in 1 .. Len(tt) : g[k] = g[k - 1] \o tt[k]
  BY <1>3, FlatRuns, Zenon
<1>5. PICK g : /\ g[0] = << >> /\ FlattenSeq(tt) = g[Len(tt)]
               /\ \A k \in 1 .. Len(tt) : g[k] = g[k - 1] \o tt[k]
  BY <1>4, Zenon
<1> HIDE DEF n
<1>6. \A k \in 1 .. n : g[k] = g[k - 1] \o ss[k]
  <2> TAKE k \in 1 .. n
  <2>1. k \in 1 .. Len(tt) /\ tt[k] = ss[k]
    BY <1>1
  <2> QED
    BY <1>5, <2>1
<1> DEFINE G == {k \in 0 .. n : f[k] = g[k]}
<1>7. 0 \in G /\ n \in Nat
  BY <1>1, <1>2, <1>5
<1>8. ASSUME NEW k \in 1 .. n, k - 1 \in G PROVE k \in G
  <2>1. f[k] = f[k - 1] \o ss[k] /\ g[k] = g[k - 1] \o ss[k]
    BY <1>2, <1>6 DEF n
  <2>2. f[k - 1] = g[k - 1] /\ k \in 0 .. n
    BY <1>7, <1>8
  <2> QED
    BY <2>1, <2>2
<1> HIDE DEF G
<1>9. \A k \in 0 .. n : k \in G
  BY <1>7, <1>8, CountUp
<1>10. f[n] = g[n]
  <2>1. n \in G
    BY <1>7, <1>9
  <2> QED
    BY <2>1 DEF G
<1>11. n + 1 \in 1 .. Len(tt) /\ (n + 1) - 1 = n
  BY <1>1
<1>12. g[n + 1] = g[n] \o t
  BY <1>1, <1>5, <1>11
<1> QED
  BY <1>1, <1>2, <1>5, <1>10, <1>12 DEF tt

\* No list, no element.
LEMMA FlatEmpty == FlattenSeq(<< >>) = << >>
BY DEF FlattenSeq

\* One list.
LEMMA FlatOne ==
  ASSUME NEW S, NEW t \in Seq(S)
  PROVE  FlattenSeq(<< t >>) = t
<1>1. << t >> = Append(<< >>, t) /\ << >> \in Seq(Seq(S))
  OBVIOUS
<1>2. FlattenSeq(Append(<< >>, t)) = FlattenSeq(<< >>) \o t
  BY <1>1, FlatAppend
<1>3. << >> \o t = t
  BY ConcatEmptySeq
<1> QED
  BY <1>1, <1>2, <1>3, FlatEmpty

\* The first k elements are the first k - 1 and one more.
LEMMA PrefixStep ==
  ASSUME NEW S, NEW q \in Seq(S), NEW k \in 1 .. Len(q)
  PROVE  /\ SubSeq(q, 1, k) = Append(SubSeq(q, 1, k - 1), q[k])
         /\ SubSeq(q, 1, k - 1) \in Seq(S) /\ q[k] \in S
OBVIOUS

\* What is appended to the second of two lists is appended to both.
LEMMA ConcatAppend ==
  ASSUME NEW S, NEW s \in Seq(S), NEW t \in Seq(S), NEW e \in S, NEW u, u = Append(t, e)
  PROVE  s \o u = Append(s \o t, e) /\ s \o t \in Seq(S)
OBVIOUS

\* The order of two concatenations does not matter.
LEMMA Associative ==
  ASSUME NEW S, NEW a \in Seq(S), NEW b \in Seq(S), NEW c \in Seq(S),
         NEW d, d = a \o b, NEW e, e = b \o c
  PROVE  d \o c = a \o e
OBVIOUS

\* Two lists of lists, one after the other.
LEMMA FlatConcat ==
  ASSUME NEW S, NEW ss \in Seq(Seq(S)), NEW tt \in Seq(Seq(S))
  PROVE  FlattenSeq(ss \o tt) = FlattenSeq(ss) \o FlattenSeq(tt)
<1> DEFINE n == Len(tt)
           p(k) == SubSeq(tt, 1, k)
           G == {k \in 0 .. n : FlattenSeq(ss \o p(k)) = FlattenSeq(ss) \o FlattenSeq(p(k))}
<1>1. n \in Nat /\ p(n) = tt
  OBVIOUS
<1>2. 0 \in G
  <2>1. p(0) = << >> /\ ss \o << >> = ss
    BY ConcatEmptySeq
  <2>2. FlattenSeq(ss) \in Seq(S) /\ FlattenSeq(p(0)) = << >>
    BY <2>1, FlatType, FlatEmpty
  <2>3. FlattenSeq(ss) \o << >> = FlattenSeq(ss)
    BY <2>2, ConcatEmptySeq
  <2>4. FlattenSeq(ss \o p(0)) = FlattenSeq(ss) \o FlattenSeq(p(0))
    BY <2>1, <2>2, <2>3
  <2> HIDE DEF p
  <2> QED
    BY <1>1, <2>4
<1>3. ASSUME NEW k \in 1 .. n, k - 1 \in G PROVE k \in G
  <2>1. /\ tt[k] \in Seq(S) /\ p(k - 1) \in Seq(Seq(S)) /\ k \in 0 .. n
        /\ p(k) = Append(p(k - 1), tt[k])
    BY PrefixStep
  <2>2. FlattenSeq(ss \o p(k - 1)) = FlattenSeq(ss) \o FlattenSeq(p(k - 1))
    BY <1>3
  <2> HIDE DEF p
  <2>3. ss \o p(k) = Append(ss \o p(k - 1), tt[k]) /\ ss \o p(k - 1) \in Seq(Seq(S))
    <3> DEFINE T == Seq(S)
    <3>1. /\ ss \in Seq(T) /\ p(k - 1) \in Seq(T) /\ tt[k] \in T
          /\ p(k) = Append(p(k - 1), tt[k])
      BY <2>1
    <3> HIDE DEF T
    <3>2. ss \o p(k) = Append(ss \o p(k - 1), tt[k]) /\ ss \o p(k - 1) \in Seq(T)
      BY <3>1, ConcatAppend
    <3> QED
      BY <3>2 DEF T
  <2>4. FlattenSeq(ss \o p(k)) = FlattenSeq(ss \o p(k - 1)) \o tt[k]
    BY <2>1, <2>3, FlatAppend
  <2>5. FlattenSeq(p(k)) = FlattenSeq(p(k - 1)) \o tt[k]
    BY <2>1, FlatAppend
  <2>6. FlattenSeq(ss) \in Seq(S) /\ FlattenSeq(p(k - 1)) \in Seq(S) /\ tt[k] \in Seq(S)
    BY <2>1, FlatType
  <2>7. FlattenSeq(ss \o p(k - 1)) \o tt[k] = FlattenSeq(ss) \o FlattenSeq(p(k))
    <3> DEFINE a == FlattenSeq(ss)
               b == FlattenSeq(p(k - 1))
               c == tt[k]
               d == FlattenSeq(ss \o p(k - 1))
               e == FlattenSeq(p(k))
    <3>1. a \in Seq(S) /\ b \in Seq(S) /\ c \in Seq(S) /\ d = a \o b /\ e = b \o c
      BY <2>2, <2>5, <2>6
    <3> HIDE DEF a, b, c, d, e
    <3>2. d \o c = a \o e
      BY <3>1, Associative, SMTT(60)
    <3> QED
      BY <3>2 DEF a, c, d, e
  <2> QED
    BY <2>1, <2>4, <2>7
<1> HIDE DEF G
<1>4. \A k \in 0 .. n : k \in G
  BY <1>1, <1>2, <1>3, CountUp
<1>5. n \in G
  BY <1>1, <1>4
<1> QED
  BY <1>1, <1>5 DEF G

-----------------------------------------------------------------------------
(* Blocks and messages of a request body. *)

Block == [block : {"text", "call", "result"}, id : Nat]
WireMessage == [role : {"system", "user", "assistant", "tool"}, blocks : Seq(Block)]

\* The blocks there are.
LEMMA BlockFacts ==
  /\ Text \in Block /\ Text.block = "text"
  /\ \A i \in Nat : /\ Use(i) \in Block /\ Use(i).block # "text"
                    /\ Result(i) \in Block /\ Result(i).block # "text"
BY DEF Block, Text, Use, Result

\* Lists of one element each, one after the other.
LEMMA FlatSingles ==
  ASSUME NEW S, NEW s \in Seq(S)
  PROVE  FlattenSeq([k \in DOMAIN s |-> << s[k] >>]) = s
<1> DEFINE n == Len(s)
           ss == [k \in DOMAIN s |-> << s[k] >>]
           G == {k \in 0 .. n : FlattenSeq(SubSeq(ss, 1, k)) = SubSeq(s, 1, k)}
<1>1. /\ n \in Nat /\ DOMAIN s = 1 .. n /\ ss \in Seq(Seq(S)) /\ Len(ss) = n
      /\ \A k \in 1 .. n : ss[k] = << s[k] >> /\ s[k] \in S
  <2>1. DOMAIN s = 1 .. n /\ n \in Nat /\ \A k \in 1 .. n : s[k] \in S
    OBVIOUS
  <2>2. \A k \in 1 .. n : << s[k] >> \in Seq(S)
    BY <2>1
  <2>3. ss = [k \in 1 .. n |-> << s[k] >>]
    BY <2>1
  <2> HIDE DEF n
  <2>4. ss \in Seq(Seq(S)) /\ Len(ss) = n
    BY <2>1, <2>2, <2>3
  <2> QED
    BY <2>1, <2>3, <2>4
<1> HIDE DEF ss
<1>2. 0 \in G
  <2>1. SubSeq(ss, 1, 0) = << >> /\ SubSeq(s, 1, 0) = << >> /\ 0 \in 0 .. n
    BY <1>1
  <2> QED
    BY <2>1, FlatEmpty
<1>3. ASSUME NEW k \in 1 .. n, k - 1 \in G PROVE k \in G
  <2> DEFINE T == Seq(S)
  <2>1. k \in 1 .. Len(ss) /\ ss \in Seq(T) /\ ss[k] = << s[k] >> /\ k \in 0 .. n
    BY <1>1
  <2> HIDE DEF T
  <2>2. SubSeq(ss, 1, k) = Append(SubSeq(ss, 1, k - 1), ss[k]) /\ SubSeq(ss, 1, k - 1) \in Seq(T)
        /\ ss[k] \in T
    BY <2>1, PrefixStep
  <2>3. FlattenSeq(SubSeq(ss, 1, k)) = FlattenSeq(SubSeq(ss, 1, k - 1)) \o ss[k]
    BY <2>2, FlatAppend DEF T
  <2>4. FlattenSeq(SubSeq(ss, 1, k - 1)) = SubSeq(s, 1, k - 1)
    BY <1>3
  <2>5. SubSeq(s, 1, k) = SubSeq(s, 1, k - 1) \o << s[k] >>
    BY <1>1
  <2> QED
    BY <2>1, <2>3, <2>4, <2>5
<1> HIDE DEF G
<1>4. \A k \in 0 .. n : k \in G
  BY <1>1, <1>2, <1>3, CountUp
<1>5. n \in G
  BY <1>1, <1>4
<1>6. SubSeq(s, 1, n) = s /\ SubSeq(ss, 1, n) = ss
  BY <1>1
<1> QED
  BY <1>5, <1>6 DEF G, ss

\* A list that is two lists, one after the other.
LEMMA ConcatOf ==
  ASSUME NEW B, NEW x \in Seq(B), NEW y \in Seq(B), NEW z \in Seq(B), Len(z) = Len(x) + Len(y),
         \A k \in 1 .. Len(x) : z[k] = x[k], \A k \in 1 .. Len(y) : z[Len(x) + k] = y[k]
  PROVE  z = x \o y
OBVIOUS

\* What is kept of one block.
Kept(b) == IF b.block = "text" THEN << >> ELSE << b >>

\* The lists Traffic puts together.
LEMMA KeptType ==
  ASSUME NEW s \in Seq(Block)
  PROVE  /\ [k \in DOMAIN s |-> Kept(s[k])] \in Seq(Seq(Block))
         /\ Traffic(s) = FlattenSeq([k \in DOMAIN s |-> Kept(s[k])])
<1>1. \A k \in DOMAIN s : Kept(s[k]) \in Seq(Block)
  BY DEF Kept
<1>2. DOMAIN s = 1 .. Len(s) /\ Len(s) \in Nat
  OBVIOUS
<1>3. Traffic(s) = FlattenSeq([k \in DOMAIN s |-> Kept(s[k])])
  BY DEF Traffic, Kept
<1> QED
  BY <1>1, <1>2, <1>3

\* The calls and results of blocks are blocks; of two lists they come one
\* after the other; text is none of them and the rest is.
LEMMA TrafficFacts ==
  /\ Traffic(<< >>) = << >>
  /\ \A s \in Seq(Block) : Traffic(s) \in Seq(Block)
  /\ \A s, t \in Seq(Block) : Traffic(s \o t) = Traffic(s) \o Traffic(t)
  /\ Traffic(<< Text >>) = << >>
  /\ \A s \in Seq(Block) : (\A k \in DOMAIN s : s[k].block # "text") => Traffic(s) = s
<1> DEFINE K(s) == [k \in DOMAIN s |-> Kept(s[k])]
<1>1. Traffic(<< >>) = << >>
  <2>1. K(<< >>) = << >> /\ << >> \in Seq(Block)
    OBVIOUS
  <2> QED
    BY <2>1, KeptType, FlatEmpty
<1>2. ASSUME NEW s \in Seq(Block) PROVE Traffic(s) \in Seq(Block)
  BY KeptType, FlatType
<1>3. ASSUME NEW s \in Seq(Block), NEW t \in Seq(Block)
      PROVE  Traffic(s \o t) = Traffic(s) \o Traffic(t)
  <2> DEFINE L == Seq(Block)
             u == s \o t
             x == K(s)
             y == K(t)
             z == K(u)
  <2>1. /\ u \in Seq(Block) /\ Len(s) \in Nat /\ Len(t) \in Nat
        /\ DOMAIN s = 1 .. Len(s) /\ DOMAIN t = 1 .. Len(t) /\ DOMAIN u = 1 .. Len(s) + Len(t)
        /\ \A k \in 1 .. Len(s) : u[k] = s[k]
        /\ \A k \in 1 .. Len(t) : u[Len(s) + k] = t[k]
    OBVIOUS
  <2> HIDE DEF u
  <2>2. /\ x \in Seq(L) /\ y \in Seq(L) /\ z \in Seq(L)
        /\ Traffic(s) = FlattenSeq(x) /\ Traffic(t) = FlattenSeq(y) /\ Traffic(u) = FlattenSeq(z)
    BY <2>1, KeptType
  <2>3. /\ \A k \in 1 .. Len(s) : x[k] = Kept(s[k]) /\ k \in 1 .. Len(s) + Len(t)
        /\ \A k \in 1 .. Len(t) : y[k] = Kept(t[k]) /\ Len(s) + k \in 1 .. Len(s) + Len(t)
        /\ \A k \in 1 .. Len(s) + Len(t) : z[k] = Kept(u[k])
        /\ DOMAIN x = 1 .. Len(s) /\ DOMAIN y = 1 .. Len(t) /\ DOMAIN z = 1 .. Len(s) + Len(t)
    BY <2>1
  <2> HIDE DEF x, y, z, K, L
  <2>4. Len(x) = Len(s) /\ Len(y) = Len(t) /\ Len(z) = Len(s) + Len(t)
    BY <2>1, <2>2, <2>3
  <2>5. /\ \A k \in 1 .. Len(x) : z[k] = x[k]
        /\ \A k \in 1 .. Len(y) : z[Len(x) + k] = y[k]
    BY <2>1, <2>3, <2>4
  <2>6. z = x \o y
    <3>1. x \in Seq(L) /\ y \in Seq(L) /\ z \in Seq(L) /\ Len(z) = Len(x) + Len(y)
      BY <2>2, <2>4
    <3> QED
      BY <2>5, <3>1, ConcatOf
  <2>7. FlattenSeq(x \o y) = FlattenSeq(x) \o FlattenSeq(y)
    BY <2>2, FlatConcat DEF L
  <2> QED
    BY <2>2, <2>6, <2>7 DEF u
<1>4. Traffic(<< Text >>) = << >>
  <2>1. << Text >> \in Seq(Block) /\ K(<< Text >>) = << << >> >>
    BY BlockFacts DEF Kept
  <2>2. Traffic(<< Text >>) = FlattenSeq(<< << >> >>)
    BY <2>1, KeptType
  <2>3. << >> \in Seq(Block)
    OBVIOUS
  <2> QED
    BY <2>2, <2>3, FlatOne
<1>5. ASSUME NEW s \in Seq(Block), \A k \in DOMAIN s : s[k].block # "text"
      PROVE  Traffic(s) = s
  <2>1. K(s) = [k \in DOMAIN s |-> << s[k] >>]
    BY <1>5 DEF Kept
  <2> QED
    BY <2>1, KeptType, FlatSingles
<1> QED
  BY <1>1, <1>2, <1>3, <1>4, <1>5

\* The blocks of a body, in order.
LEMMA BlocksFacts ==
  /\ Blocks(<< >>) = << >>
  /\ \A b \in Seq(WireMessage) : Blocks(b) \in Seq(Block)
  /\ \A b \in Seq(WireMessage), c \in Seq(WireMessage) : Blocks(b \o c) = Blocks(b) \o Blocks(c)
  /\ \A m \in WireMessage : Blocks(<< m >>) = m.blocks
<1> DEFINE K(b) == [k \in DOMAIN b |-> b[k].blocks]
<1>1. ASSUME NEW b \in Seq(WireMessage)
      PROVE  K(b) \in Seq(Seq(Block)) /\ Len(K(b)) = Len(b) /\ Blocks(b) = FlattenSeq(K(b))
  <2>1. \A k \in DOMAIN b : b[k] \in WireMessage
    OBVIOUS
  <2>2. \A k \in DOMAIN b : b[k].blocks \in Seq(Block)
    BY <2>1 DEF WireMessage
  <2>3. DOMAIN b = 1 .. Len(b) /\ Len(b) \in Nat
    OBVIOUS
  <2> QED
    BY <2>2, <2>3 DEF Blocks
<1>2. Blocks(<< >>) = << >>
  <2>1. K(<< >>) = << >> /\ << >> \in Seq(WireMessage)
    OBVIOUS
  <2> QED
    BY <2>1, <1>1, FlatEmpty
<1>3. ASSUME NEW b \in Seq(WireMessage) PROVE Blocks(b) \in Seq(Block)
  BY <1>1, FlatType
<1>4. ASSUME NEW b \in Seq(WireMessage), NEW c \in Seq(WireMessage)
      PROVE  Blocks(b \o c) = Blocks(b) \o Blocks(c)
  <2> DEFINE L == Seq(Block)
             u == b \o c
             x == K(b)
             y == K(c)
             z == K(u)
  <2>1. /\ u \in Seq(WireMessage) /\ Len(b) \in Nat /\ Len(c) \in Nat
        /\ DOMAIN b = 1 .. Len(b) /\ DOMAIN c = 1 .. Len(c) /\ DOMAIN u = 1 .. Len(b) + Len(c)
        /\ \A k \in 1 .. Len(b) : u[k] = b[k]
        /\ \A k \in 1 .. Len(c) : u[Len(b) + k] = c[k]
    OBVIOUS
  <2> HIDE DEF u
  <2>2. /\ x \in Seq(L) /\ y \in Seq(L) /\ z \in Seq(L)
        /\ Blocks(b) = FlattenSeq(x) /\ Blocks(c) = FlattenSeq(y) /\ Blocks(u) = FlattenSeq(z)
    BY <2>1, <1>1
  <2>3. /\ \A k \in 1 .. Len(b) : x[k] = b[k].blocks /\ k \in 1 .. Len(b) + Len(c)
        /\ \A k \in 1 .. Len(c) : y[k] = c[k].blocks /\ Len(b) + k \in 1 .. Len(b) + Len(c)
        /\ \A k \in 1 .. Len(b) + Len(c) : z[k] = u[k].blocks
        /\ DOMAIN x = 1 .. Len(b) /\ DOMAIN y = 1 .. Len(c) /\ DOMAIN z = 1 .. Len(b) + Len(c)
    BY <2>1
  <2> HIDE DEF x, y, z, K, L
  <2>4. Len(x) = Len(b) /\ Len(y) = Len(c) /\ Len(z) = Len(b) + Len(c)
    BY <2>1, <2>2, <2>3
  <2>5. /\ \A k \in 1 .. Len(x) : z[k] = x[k]
        /\ \A k \in 1 .. Len(y) : z[Len(x) + k] = y[k]
    BY <2>1, <2>3, <2>4
  <2>6. z = x \o y
    <3>1. x \in Seq(L) /\ y \in Seq(L) /\ z \in Seq(L) /\ Len(z) = Len(x) + Len(y)
      BY <2>2, <2>4
    <3> QED
      BY <2>5, <3>1, ConcatOf
  <2>7. FlattenSeq(x \o y) = FlattenSeq(x) \o FlattenSeq(y)
    BY <2>2, FlatConcat DEF L
  <2> QED
    BY <2>2, <2>6, <2>7 DEF u
<1>5. ASSUME NEW m \in WireMessage PROVE Blocks(<< m >>) = m.blocks
  <2>1. << m >> \in Seq(WireMessage) /\ K(<< m >>) = << m.blocks >> /\ m.blocks \in Seq(Block)
    BY DEF WireMessage
  <2> HIDE DEF K
  <2> QED
    BY <2>1, <1>1, FlatOne
<1> QED
  BY <1>2, <1>3, <1>4, <1>5

\* What a message calls or answers, as blocks.
LEMMA SpeechFacts ==
  ASSUME NEW m \in Speech
  PROVE  /\ m.role \in {"system", "user", "assistant", "tool"} /\ m.calls \in Seq(Nat) /\ m.id \in Nat
         /\ m.role # "assistant" => m.calls = << >>
         /\ Uses(m.calls) \in Seq(Block) /\ Traffic(Uses(m.calls)) = Uses(m.calls)
         /\ m.calls = << >> => Uses(m.calls) = << >>
         /\ Traffic(<< Result(m.id) >>) = << Result(m.id) >>
         /\ << Result(m.id) >> \in Seq(Block) /\ << Text >> \in Seq(Block)
         /\ Spoken(m) \in Seq(Block) /\ Traffic(Spoken(m)) = << >>
         /\ MessageTraffic(m) \in Seq(Block)
<1>1. /\ m.role \in {"system", "user", "assistant", "tool"} /\ m.calls \in Seq(Nat) /\ m.id \in Nat
      /\ m.role # "assistant" => m.calls = << >>
  BY DEF Speech
<1>2. /\ DOMAIN m.calls = 1 .. Len(m.calls) /\ Len(m.calls) \in Nat
      /\ \A k \in DOMAIN m.calls : m.calls[k] \in Nat
  BY <1>1
<1>3. Uses(m.calls) \in Seq(Block) /\ DOMAIN Uses(m.calls) = DOMAIN m.calls
      /\ \A k \in DOMAIN Uses(m.calls) : Uses(m.calls)[k].block # "text"
  BY <1>2, BlockFacts DEF Uses
<1>4. Traffic(Uses(m.calls)) = Uses(m.calls)
  BY <1>3, TrafficFacts
<1>5. m.calls = << >> => Uses(m.calls) = << >>
  BY DEF Uses
<1>6. << Result(m.id) >> \in Seq(Block) /\ << Text >> \in Seq(Block)
  BY <1>1, BlockFacts
<1>7. Traffic(<< Result(m.id) >>) = << Result(m.id) >>
  <2>1. \A k \in DOMAIN << Result(m.id) >> : << Result(m.id) >>[k].block # "text"
    BY <1>1, BlockFacts
  <2> QED
    BY <1>6, <2>1, TrafficFacts
<1>8. Spoken(m) \in Seq(Block) /\ Traffic(Spoken(m)) = << >>
  BY <1>6, TrafficFacts DEF Spoken
<1> QED
  BY <1>1, <1>3, <1>4, <1>5, <1>6, <1>7, <1>8 DEF MessageTraffic

\* The blocks of an assistant message.
LEMMA AssistantBlocks ==
  ASSUME NEW m \in Speech
  PROVE  /\ Spoken(m) \o Uses(m.calls) \in Seq(Block)
         /\ Traffic(Spoken(m) \o Uses(m.calls)) = Uses(m.calls)
<1>1. /\ Uses(m.calls) \in Seq(Block) /\ Traffic(Uses(m.calls)) = Uses(m.calls)
      /\ Spoken(m) \in Seq(Block) /\ Traffic(Spoken(m)) = << >>
  BY SpeechFacts
<1>2. Traffic(Spoken(m) \o Uses(m.calls)) = Traffic(Spoken(m)) \o Traffic(Uses(m.calls))
  BY <1>1, TrafficFacts
<1>3. << >> \o Uses(m.calls) = Uses(m.calls)
  BY <1>1, ConcatEmptySeq
<1> QED
  BY <1>1, <1>2, <1>3

\* A body put together from the pieces each message becomes.
LEMMA PiecesTraffic ==
  ASSUME NEW list \in Seq(Speech), NEW P \in Seq(Seq(WireMessage)), Len(P) = Len(list),
         \A k \in 1 .. Len(list) : Traffic(Blocks(P[k])) = MessageTraffic(list[k])
  PROVE  FlattenSeq(P) \in Seq(WireMessage) /\ Traffic(Blocks(FlattenSeq(P))) = ToolTraffic(list)
<1> DEFINE n == Len(list)
           Q == [k \in DOMAIN list |-> MessageTraffic(list[k])]
<1>1. /\ n \in Nat /\ Len(P) = n /\ DOMAIN list = 1 .. n
      /\ \A k \in 1 .. n : P[k] \in Seq(WireMessage) /\ list[k] \in Speech
  OBVIOUS
<1>2. Q \in Seq(Seq(Block)) /\ Len(Q) = n /\ \A k \in 1 .. n : Q[k] = MessageTraffic(list[k])
  <2>1. \A k \in 1 .. n : MessageTraffic(list[k]) \in Seq(Block)
    BY <1>1, SpeechFacts
  <2>2. Q = [k \in 1 .. n |-> MessageTraffic(list[k])]
    BY <1>1
  <2> QED
    BY <1>1, <2>1, <2>2
<1>3. ToolTraffic(list) = FlattenSeq(Q)
  BY DEF ToolTraffic
<1> HIDE DEF Q
<1>4. PICK g : /\ g[0] = << >> /\ FlattenSeq(P) = g[Len(P)]
               /\ \A k \in 0 .. Len(P) : g[k] \in Seq(WireMessage)
               /\ \A k \in 1 .. Len(P) : g[k] = g[k - 1] \o P[k]
  BY FlatRuns
<1>5. PICK h : /\ h[0] = << >> /\ FlattenSeq(Q) = h[Len(Q)]
               /\ \A k \in 0 .. Len(Q) : h[k] \in Seq(Block)
               /\ \A k \in 1 .. Len(Q) : h[k] = h[k - 1] \o Q[k]
  BY <1>2, FlatRuns
<1> HIDE DEF n
<1> DEFINE G == {k \in 0 .. n : Traffic(Blocks(g[k])) = h[k]}
<1>6. 0 \in G
  BY <1>1, <1>4, <1>5, BlocksFacts, TrafficFacts
<1>7. ASSUME NEW k \in 1 .. n, k - 1 \in G PROVE k \in G
  <2>1. k \in 0 .. n /\ k - 1 \in 0 .. n /\ Traffic(Blocks(g[k - 1])) = h[k - 1]
    BY <1>1, <1>7
  <2>2. g[k] = g[k - 1] \o P[k] /\ h[k] = h[k - 1] \o Q[k] /\ g[k - 1] \in Seq(WireMessage)
        /\ P[k] \in Seq(WireMessage)
    BY <1>1, <1>2, <1>4, <1>5, <2>1
  <2>3. Blocks(g[k]) = Blocks(g[k - 1]) \o Blocks(P[k])
        /\ Blocks(g[k - 1]) \in Seq(Block) /\ Blocks(P[k]) \in Seq(Block)
    BY <2>2, BlocksFacts
  <2>4. Traffic(Blocks(g[k])) = Traffic(Blocks(g[k - 1])) \o Traffic(Blocks(P[k]))
    BY <2>3, TrafficFacts
  <2>5. Traffic(Blocks(P[k])) = Q[k]
    BY <1>2 DEF n
  <2> QED
    BY <2>1, <2>2, <2>4, <2>5
<1> HIDE DEF G
<1>8. \A k \in 0 .. n : k \in G
  BY <1>1, <1>6, <1>7, CountUp
<1>9. n \in G
  BY <1>1, <1>8
<1> QED
  BY <1>1, <1>2, <1>3, <1>4, <1>5, <1>9 DEF G

\* The text for the system carries neither call nor result.
LEMMA HeadTraffic ==
  ASSUME NEW head \in {<< >>, << SystemText >>}, NEW b \in Seq(WireMessage)
  PROVE  /\ head \in Seq(WireMessage) /\ head \o b \in Seq(WireMessage)
         /\ Traffic(Blocks(head \o b)) = Traffic(Blocks(b))
<1>1. SystemText \in WireMessage /\ SystemText.blocks = << Text >>
  BY BlockFacts DEF SystemText, WireMessage
<1>2. head \in Seq(WireMessage) /\ head \o b \in Seq(WireMessage)
  <2>1. << SystemText >> \in Seq(WireMessage) /\ << >> \in Seq(WireMessage)
    BY <1>1
  <2>2. head \in Seq(WireMessage)
    BY <2>1
  <2> HIDE DEF SystemText
  <2> QED
    BY <2>2
<1>3. Blocks(head) \in Seq(Block) /\ Traffic(Blocks(head)) = << >>
  BY <1>1, <1>2, BlocksFacts, TrafficFacts
<1>4. Blocks(b) \in Seq(Block) /\ Blocks(head \o b) = Blocks(head) \o Blocks(b)
  BY <1>2, BlocksFacts
<1>5. Traffic(Blocks(head \o b)) = Traffic(Blocks(head)) \o Traffic(Blocks(b))
  BY <1>3, <1>4, TrafficFacts
<1>6. Traffic(Blocks(b)) \in Seq(Block)
  BY <1>4, TrafficFacts
<1>7. << >> \o Traffic(Blocks(b)) = Traffic(Blocks(b))
  BY <1>6, ConcatEmptySeq
<1> QED
  BY <1>2, <1>3, <1>5, <1>7

\* The chat-completions body.
LEMMA OpenaiFaithful ==
  ASSUME NEW list \in Seq(Speech), NEW prompt \in BOOLEAN
  PROVE  Traffic(Blocks(OpenaiBody(list, prompt))) = ToolTraffic(list)
<1> DEFINE piece(m) == IF prompt /\ m.role = "system" THEN << >> ELSE << OpenaiMessage(m) >>
           P == [k \in DOMAIN list |-> piece(list[k])]
<1>1. ASSUME NEW m \in Speech
      PROVE  piece(m) \in Seq(WireMessage) /\ Traffic(Blocks(piece(m))) = MessageTraffic(m)
  <2>1. CASE m.role = "system" /\ prompt
    <3>1. piece(m) = << >> /\ << >> \in Seq(WireMessage) /\ m.role # "tool" /\ m.role # "assistant"
      BY <2>1
    <3>2. Uses(m.calls) = << >>
      BY <3>1, SpeechFacts
    <3>3. MessageTraffic(m) = << >>
      BY <3>1, <3>2 DEF MessageTraffic
    <3> QED
      BY <3>1, <3>3, BlocksFacts, TrafficFacts
  <2>2. CASE m.role = "tool"
    <3>1. OpenaiMessage(m) \in WireMessage /\ OpenaiMessage(m).blocks = << Result(m.id) >>
      BY <2>2, SpeechFacts DEF OpenaiMessage, WireMessage
    <3>2. piece(m) = << OpenaiMessage(m) >>
      BY <2>2
    <3> QED
      BY <2>2, <3>1, <3>2, SpeechFacts, BlocksFacts DEF MessageTraffic
  <2>3. CASE m.role # "tool" /\ ~(m.role = "system" /\ prompt)
    <3>1. /\ << Text >> \in Seq(Block) /\ Uses(m.calls) \in Seq(Block)
          /\ Traffic(Uses(m.calls)) = Uses(m.calls) /\ Traffic(<< Text >>) = << >>
          /\ m.role \in {"system", "user", "assistant", "tool"}
      BY SpeechFacts, TrafficFacts
    <3>2. OpenaiMessage(m).blocks = << Text >> \o Uses(m.calls) /\ OpenaiMessage(m).role = m.role
          /\ OpenaiMessage(m) = [role |-> m.role, blocks |-> << Text >> \o Uses(m.calls)]
      BY <2>3 DEF OpenaiMessage
    <3>3. << Text >> \o Uses(m.calls) \in Seq(Block)
      BY <3>1
    <3>4. OpenaiMessage(m) \in WireMessage
      BY <3>1, <3>2, <3>3 DEF WireMessage
    <3>5. piece(m) = << OpenaiMessage(m) >>
      BY <2>3
    <3>6. Traffic(<< Text >> \o Uses(m.calls)) = Traffic(<< Text >>) \o Traffic(Uses(m.calls))
      BY <3>1, TrafficFacts
    <3>7. << >> \o Uses(m.calls) = Uses(m.calls)
      BY <3>1, ConcatEmptySeq
    <3>8. Traffic(Blocks(piece(m))) = Traffic(<< Text >> \o Uses(m.calls))
      BY <3>2, <3>4, <3>5, BlocksFacts
    <3>9. m.role # "tool" /\ MessageTraffic(m) = Uses(m.calls)
      BY <2>3 DEF MessageTraffic
    <3>10. piece(m) \in Seq(WireMessage)
      BY <3>4, <3>5
    <3> HIDE DEF piece
    <3> QED
      BY <3>1, <3>6, <3>7, <3>8, <3>9, <3>10
  <2> QED
    BY <2>1, <2>2, <2>3
<1> HIDE DEF piece
<1>2. P \in Seq(Seq(WireMessage)) /\ Len(P) = Len(list)
      /\ \A k \in 1 .. Len(list) : Traffic(Blocks(P[k])) = MessageTraffic(list[k])
  <2>1. DOMAIN list = 1 .. Len(list) /\ Len(list) \in Nat /\ \A k \in 1 .. Len(list) : list[k] \in Speech
    OBVIOUS
  <2>2. P = [k \in 1 .. Len(list) |-> piece(list[k])]
    BY <2>1
  <2>3. \A k \in 1 .. Len(list) : piece(list[k]) \in Seq(WireMessage)
                                  /\ Traffic(Blocks(piece(list[k]))) = MessageTraffic(list[k])
    BY <1>1, <2>1
  <2> HIDE DEF P
  <2> QED
    BY <2>1, <2>2, <2>3
<1>3. OpenaiMessages(list, prompt) = FlattenSeq(P)
  BY DEF OpenaiMessages, piece
<1> HIDE DEF P
<1>4. FlattenSeq(P) \in Seq(WireMessage) /\ Traffic(Blocks(FlattenSeq(P))) = ToolTraffic(list)
  BY <1>2, PiecesTraffic
<1> DEFINE head == IF prompt THEN << SystemText >> ELSE << >>
<1>5. head \in {<< >>, << SystemText >>} /\ OpenaiBody(list, prompt) = head \o FlattenSeq(P)
  BY <1>3 DEF OpenaiBody
<1> HIDE DEF head
<1> QED
  BY <1>4, <1>5, HeadTraffic

\* A list of items of one block each says just these blocks.
LEMMA ItemsFacts ==
  ASSUME NEW s \in Seq(Block)
  PROVE  /\ [k \in DOMAIN s |-> Item("assistant", s[k])] \in Seq(WireMessage)
         /\ Blocks([k \in DOMAIN s |-> Item("assistant", s[k])]) = s
<1> DEFINE T == [k \in DOMAIN s |-> Item("assistant", s[k])]
<1>1. DOMAIN s = 1 .. Len(s) /\ Len(s) \in Nat /\ \A k \in DOMAIN s : s[k] \in Block
  OBVIOUS
<1>2. \A k \in DOMAIN s : Item("assistant", s[k]) \in WireMessage
  <2>1. \A k \in DOMAIN s : << s[k] >> \in Seq(Block)
    BY <1>1
  <2> QED
    BY <2>1 DEF Item, WireMessage
<1>3. T \in Seq(WireMessage)
  BY <1>1, <1>2
<1>4. [k \in DOMAIN T |-> T[k].blocks] = [k \in DOMAIN s |-> << s[k] >>]
  BY DEF Item
<1>5. Blocks(T) = FlattenSeq([k \in DOMAIN s |-> << s[k] >>])
  BY <1>4 DEF Blocks
<1> QED
  BY <1>3, <1>5, FlatSingles

\* One item.
LEMMA ItemFacts ==
  ASSUME NEW r \in {"user", "tool"}, NEW b \in Block
  PROVE  << Item(r, b) >> \in Seq(WireMessage) /\ Blocks(<< Item(r, b) >>) = << b >>
<1>1. << b >> \in Seq(Block)
  OBVIOUS
<1>2. Item(r, b) \in WireMessage /\ Item(r, b).blocks = << b >>
  BY <1>1 DEF Item, WireMessage
<1> QED
  BY <1>2, BlocksFacts

\* The responses body, when it is not refused.
LEMMA ResponsesFaithful ==
  ASSUME NEW list \in Seq(Speech), NEW prompt \in BOOLEAN,
         ResponsesBody(list, prompt) # Refused
  PROVE  Traffic(Blocks(ResponsesBody(list, prompt))) = ToolTraffic(list)
<1> DEFINE P == [k \in DOMAIN list |-> ResponsesItems(list[k])]
<1>1. ASSUME NEW m \in Speech
      PROVE  ResponsesItems(m) \in Seq(WireMessage)
             /\ Traffic(Blocks(ResponsesItems(m))) = MessageTraffic(m)
  <2>1. CASE m.role = "system"
    <3>1. ResponsesItems(m) = << >> /\ << >> \in Seq(WireMessage)
          /\ m.role # "tool" /\ m.role # "assistant"
      BY <2>1 DEF ResponsesItems
    <3>2. Uses(m.calls) = << >>
      BY <3>1, SpeechFacts
    <3>3. MessageTraffic(m) = << >>
      BY <3>1, <3>2 DEF MessageTraffic
    <3> QED
      BY <3>1, <3>3, BlocksFacts, TrafficFacts
  <2>2. CASE m.role = "user"
    <3>1. ResponsesItems(m) = << Item("user", Text) >> /\ m.role # "tool" /\ m.role # "assistant"
      BY <2>2 DEF ResponsesItems
    <3>2. MessageTraffic(m) = << >>
      BY <3>1, SpeechFacts DEF MessageTraffic
    <3>3. << Item("user", Text) >> \in Seq(WireMessage) /\ Blocks(<< Item("user", Text) >>) = << Text >>
      BY BlockFacts, ItemFacts
    <3> QED
      BY <3>1, <3>2, <3>3, TrafficFacts
  <2>3. CASE m.role = "tool"
    <3>1. ResponsesItems(m) = << Item("tool", Result(m.id)) >> /\ MessageTraffic(m) = << Result(m.id) >>
      BY <2>3 DEF ResponsesItems, MessageTraffic
    <3>2. Result(m.id) \in Block
      BY SpeechFacts, BlockFacts
    <3>3. << Item("tool", Result(m.id)) >> \in Seq(WireMessage)
          /\ Blocks(<< Item("tool", Result(m.id)) >>) = << Result(m.id) >>
      BY <3>2, ItemFacts
    <3> QED
      BY <3>1, <3>3, SpeechFacts
  <2>4. CASE m.role = "assistant"
    <3> DEFINE s == Spoken(m) \o Uses(m.calls)
    <3>1. ResponsesItems(m) = [k \in DOMAIN s |-> Item("assistant", s[k])]
          /\ MessageTraffic(m) = Uses(m.calls)
      BY <2>4 DEF ResponsesItems, MessageTraffic
    <3>2. s \in Seq(Block) /\ Traffic(s) = Uses(m.calls)
      BY AssistantBlocks
    <3> HIDE DEF s
    <3> QED
      BY <3>1, <3>2, ItemsFacts
  <2> QED
    BY <2>1, <2>2, <2>3, <2>4, SpeechFacts
<1>2. P \in Seq(Seq(WireMessage)) /\ Len(P) = Len(list)
      /\ \A k \in 1 .. Len(list) : Traffic(Blocks(P[k])) = MessageTraffic(list[k])
  <2>1. DOMAIN list = 1 .. Len(list) /\ Len(list) \in Nat /\ \A k \in 1 .. Len(list) : list[k] \in Speech
    OBVIOUS
  <2>2. P = [k \in 1 .. Len(list) |-> ResponsesItems(list[k])]
    BY <2>1
  <2>3. \A k \in 1 .. Len(list) : ResponsesItems(list[k]) \in Seq(WireMessage)
                              /\ Traffic(Blocks(ResponsesItems(list[k]))) = MessageTraffic(list[k])
    BY <1>1, <2>1
  <2> HIDE DEF P
  <2> QED
    BY <2>1, <2>2, <2>3
<1>3. PICK head \in {<< >>, << SystemText >>} :
        ResponsesBody(list, prompt) = head \o FlattenSeq(P)
  BY DEF ResponsesBody
<1> HIDE DEF P
<1>4. FlattenSeq(P) \in Seq(WireMessage) /\ Traffic(Blocks(FlattenSeq(P))) = ToolTraffic(list)
  BY <1>2, PiecesTraffic
<1> QED
  BY <1>3, <1>4, HeadTraffic

\* The messages after each message of the conversation.
AfterTable(f, list, n) ==
  f = [k \in 0 .. n |-> IF k = 0 THEN << >> ELSE AnthropicMessage(f[k - 1], list[k])]

\* AnthropicMessages is a recursive function over positions; it has a value
\* for each of them.
LEMMA AfterExists ==
  ASSUME NEW list, NEW N \in Nat
  PROVE  \E f : AfterTable(f, list, N)
<1> DEFINE Has(n) == \E f : AfterTable(f, list, n)
           G == {n \in 0 .. N : Has(n)}
<1>1. 0 \in G
  <2>1. AfterTable([k \in 0 .. 0 |-> << >>], list, 0)
    BY DEF AfterTable
  <2> QED
    BY <2>1
<1>2. ASSUME NEW n \in 1 .. N, n - 1 \in G PROVE n \in G
  <2>1. PICK f : AfterTable(f, list, n - 1)
    BY <1>2
  <2> DEFINE g == [k \in 0 .. n |-> IF k <= n - 1 THEN f[k] ELSE AnthropicMessage(f[n - 1], list[n])]
  <2>2. n \in Nat \ {0} /\ n \in 0 .. N
    OBVIOUS
  <2>3. \A k \in 0 .. n - 1 : f[k] = IF k = 0 THEN << >> ELSE AnthropicMessage(f[k - 1], list[k])
    BY <2>1, <2>2 DEF AfterTable
  <2>4. \A k \in 0 .. n : g[k] = IF k = 0 THEN << >> ELSE AnthropicMessage(g[k - 1], list[k])
    BY <2>2, <2>3
  <2>5. g = [k \in 0 .. n |-> g[k]]
    OBVIOUS
  <2> HIDE DEF g
  <2>6. AfterTable(g, list, n)
    BY <2>4, <2>5 DEF AfterTable
  <2> QED
    BY <2>2, <2>6
<1> HIDE DEF G
<1>3. \A n \in 0 .. N : n \in G
  BY <1>1, <1>2, CountUp
<1>4. N \in G
  BY <1>3
<1> QED
  BY <1>4 DEF G

\* The messages grow with each message of the conversation.
LEMMA AnthropicRuns ==
  ASSUME NEW list \in Seq(Speech)
  PROVE  \E f : /\ f[0] = << >> /\ AnthropicMessages(list) = f[Len(list)]
                /\ \A k \in 1 .. Len(list) : f[k] = AnthropicMessage(f[k - 1], list[k])
<1> DEFINE n == Len(list)
           f == CHOOSE h : AfterTable(h, list, n)
<1>1. n \in Nat
  OBVIOUS
<1>2. AfterTable(f, list, n)
  BY <1>1, AfterExists
<1>3. AnthropicMessages(list) = f[n]
  BY DEF AnthropicMessages, AfterTable
<1> HIDE DEF f, n
<1>4. \A k \in 0 .. n : f[k] = IF k = 0 THEN << >> ELSE AnthropicMessage(f[k - 1], list[k])
  BY <1>1, <1>2 DEF AfterTable
<1>5. f[0] = << >> /\ \A k \in 1 .. n : f[k] = AnthropicMessage(f[k - 1], list[k])
  BY <1>1, <1>4
<1> QED
  BY <1>3, <1>5 DEF n

\* One more element.
LEMMA AppendFacts ==
  ASSUME NEW S, NEW s \in Seq(S), NEW e \in S, NEW t, t = Append(s, e)
  PROVE  /\ t \in Seq(S) /\ Len(t) = Len(s) + 1 /\ t[Len(s) + 1] = e
         /\ \A i \in 1 .. Len(s) : t[i] = s[i]
OBVIOUS

LEMMA AppendConcat ==
  ASSUME NEW S, NEW s \in Seq(S), NEW e \in S, NEW t, t = Append(s, e)
  PROVE  t = s \o << e >> /\ << e >> \in Seq(S)
OBVIOUS

\* A list and its last element.
LEMMA LastFacts ==
  ASSUME NEW S, NEW s \in Seq(S), s # << >>
  PROVE  /\ Len(s) \in Nat \ {0} /\ s[Len(s)] \in S /\ SubSeq(s, 1, Len(s) - 1) \in Seq(S)
         /\ Len(SubSeq(s, 1, Len(s) - 1)) = Len(s) - 1
         /\ s = SubSeq(s, 1, Len(s) - 1) \o << s[Len(s)] >> /\ << s[Len(s)] >> \in Seq(S)
         /\ \A i \in 1 .. Len(s) - 1 : SubSeq(s, 1, Len(s) - 1)[i] = s[i]
OBVIOUS

\* The last message has grown; a message has been added.
Merged(ms, role, bs, new) ==
  /\ Len(ms) > 0 /\ ms[Len(ms)].role = role /\ Len(new) = Len(ms)
  /\ \A i \in 1 .. Len(ms) : i # Len(ms) => new[i] = ms[i]
  /\ new[Len(ms)] = [role |-> role, blocks |-> ms[Len(ms)].blocks \o bs]
Started(ms, role, bs, new) ==
  /\ Len(ms) > 0 => ms[Len(ms)].role # role
  /\ Len(new) = Len(ms) + 1
  /\ \A i \in 1 .. Len(ms) : new[i] = ms[i]
  /\ new[Len(ms) + 1] = [role |-> role, blocks |-> bs]

\* What AddBlocks does: the last message grows, or one more follows.
LEMMA AddFacts ==
  ASSUME NEW ms \in Seq(WireMessage), NEW role \in {"user", "assistant"}, NEW bs \in Seq(Block),
         NEW new, new = AddBlocks(ms, role, bs)
  PROVE  /\ new \in Seq(WireMessage) /\ Blocks(new) = Blocks(ms) \o bs
         /\ Merged(ms, role, bs, new) \/ Started(ms, role, bs, new)
<1> DEFINE W == WireMessage
           one == [role |-> role, blocks |-> bs]
<1>1. one \in W /\ one.blocks = bs /\ Blocks(<< one >>) = bs
  <2>1. one \in WireMessage /\ one.blocks = bs
    BY DEF WireMessage
  <2> QED
    BY <2>1, BlocksFacts
<1>2. CASE ~(ms # << >> /\ Last(ms).role = role)
  <2>1. new = Append(ms, one)
    BY <1>2 DEF AddBlocks
  <2> HIDE DEF one, W
  <2>2. new \in Seq(W) /\ Len(new) = Len(ms) + 1 /\ new = ms \o << one >> /\ << one >> \in Seq(W)
        /\ (\A i \in 1 .. Len(ms) : new[i] = ms[i]) /\ new[Len(ms) + 1] = one
    <3>1. new \in Seq(W) /\ Len(new) = Len(ms) + 1 /\ new[Len(ms) + 1] = one
          /\ \A i \in 1 .. Len(ms) : new[i] = ms[i]
      BY <1>1, <2>1, AppendFacts DEF W
    <3>2. new = ms \o << one >> /\ << one >> \in Seq(W)
      BY <1>1, <2>1, AppendConcat DEF W
    <3> QED
      BY <3>1, <3>2
  <2>3. Len(ms) > 0 => ms[Len(ms)].role # role
    BY <1>2 DEF Last
  <2>4. Blocks(new) = Blocks(ms) \o bs
    BY <1>1, <2>2, BlocksFacts DEF W
  <2>5. Started(ms, role, bs, new)
    BY <2>2, <2>3 DEF one, Started
  <2> QED
    BY <2>2, <2>4, <2>5 DEF W
<1>3. CASE ms # << >> /\ Last(ms).role = role
  <2> DEFINE n == Len(ms)
             last == ms[n]
             front == SubSeq(ms, 1, n - 1)
             grown == [role |-> role, blocks |-> last.blocks \o bs]
  <2>1. /\ n \in Nat \ {0} /\ last \in W /\ front \in Seq(W) /\ Len(front) = n - 1
        /\ ms = front \o << last >> /\ << last >> \in Seq(W)
        /\ \A i \in 1 .. n - 1 : front[i] = ms[i]
    BY <1>3, LastFacts
  <2>2. new = Append(front, grown) /\ last.role = role
    BY <1>3 DEF AddBlocks, Front, Last
  <2>3. last.blocks \in Seq(Block)
    BY <2>1 DEF WireMessage
  <2>4. last.blocks \o bs \in Seq(Block)
    BY <2>3
  <2>5. grown \in W /\ grown.blocks = last.blocks \o bs
    BY <2>4 DEF WireMessage
  <2> HIDE DEF grown, front, last, W, n
  <2>6. /\ new \in Seq(W) /\ Len(new) = (n - 1) + 1 /\ new = front \o << grown >>
         /\ << grown >> \in Seq(W)
         /\ (\A i \in 1 .. n - 1 : new[i] = front[i]) /\ new[(n - 1) + 1] = grown
    <3>1. new \in Seq(W) /\ Len(new) = Len(front) + 1 /\ new[Len(front) + 1] = grown
          /\ \A i \in 1 .. Len(front) : new[i] = front[i]
      <4>1. front \in Seq(W) /\ grown \in W /\ new = Append(front, grown)
        BY <2>1, <2>2, <2>5, Zenon
      <4> QED
        BY <4>1, AppendFacts
    <3>2. new = front \o << grown >> /\ << grown >> \in Seq(W)
      BY <2>1, <2>2, <2>5, AppendConcat
    <3>3. Len(front) = n - 1
      BY <2>1
    <3> QED
      BY <3>1, <3>2, <3>3
  <2>7. /\ Len(new) = n /\ new[n] = grown
    BY <2>1, <2>6
  <2>8. /\ Blocks(new) = Blocks(front) \o (last.blocks \o bs)
        /\ Blocks(ms) = Blocks(front) \o last.blocks
        /\ Blocks(front) \in Seq(Block)
    <3>1. Blocks(<< grown >>) = last.blocks \o bs /\ Blocks(<< last >>) = last.blocks
          /\ Blocks(front) \in Seq(Block)
      BY <2>1, <2>5, BlocksFacts DEF W
    <3>2. Blocks(front \o << grown >>) = Blocks(front) \o Blocks(<< grown >>)
      BY <2>1, <2>6, BlocksFacts DEF W
    <3>3. Blocks(front \o << last >>) = Blocks(front) \o Blocks(<< last >>)
      BY <2>1, BlocksFacts DEF W
    <3>4. new = front \o << grown >> /\ ms = front \o << last >>
      BY <2>1, <2>6, Zenon
    <3> QED
      BY <3>1, <3>2, <3>3, <3>4
  <2>9. Blocks(new) = Blocks(ms) \o bs
    <3> DEFINE x == Blocks(front)
               y == last.blocks
               d == Blocks(ms)
               e == y \o bs
    <3>1. /\ x \in Seq(Block) /\ y \in Seq(Block) /\ d = x \o y /\ e = y \o bs
          /\ Blocks(new) = x \o e
      BY <2>3, <2>8
    <3> HIDE DEF x, y, d, e
    <3>2. d \o bs = x \o e
      BY <3>1, Associative
    <3> QED
      BY <3>1, <3>2 DEF d
  <2>10. \A i \in 1 .. n : i # n => new[i] = ms[i]
    <3> SUFFICES ASSUME NEW i \in 1 .. n, i # n PROVE new[i] = ms[i]
      OBVIOUS
    <3>1. i \in 1 .. n - 1
      BY <2>1
    <3> QED
      BY <2>1, <2>6, <3>1
  <2>11. ms[n].role = role /\ new[n] = [role |-> role, blocks |-> ms[n].blocks \o bs]
    BY <2>2, <2>7 DEF grown, last
  <2>12. /\ n > 0 /\ ms[n].role = role /\ Len(new) = n
         /\ \A i \in 1 .. n : i # n => new[i] = ms[i]
         /\ new[n] = [role |-> role, blocks |-> ms[n].blocks \o bs]
    <3>1. n > 0
      BY <2>1
    <3> QED
      BY <2>7, <2>10, <2>11, <3>1, Zenon
  <2>13. new \in Seq(WireMessage)
    BY <2>6 DEF W
  <2>14. Merged(ms, role, bs, new)
    BY <2>12 DEF n, Merged
  <2> QED
    BY <2>9, <2>13, <2>14
<1> QED
  BY <1>2, <1>3

\* The messages have only grown, the last at most.
Longer(ms, new) ==
  /\ Len(ms) <= Len(new)
  /\ \A i \in 1 .. Len(ms) : i # Len(ms) => new[i] = ms[i]
  /\ \A i \in 1 .. Len(ms) :
       /\ new[i].role = ms[i].role /\ Len(ms[i].blocks) <= Len(new[i].blocks)
       /\ \A j \in 1 .. Len(ms[i].blocks) : new[i].blocks[j] = ms[i].blocks[j]

\* The roles are those of the two sides, in turn.
InTurn(ms) ==
  \A i \in 1 .. Len(ms) : /\ ms[i].role \in {"user", "assistant"}
                          /\ i > 1 => ms[i].role # ms[i - 1].role

\* What the messages are when bs has just been added to ms.
Added(ms, role, bs, new) ==
  /\ new \in Seq(WireMessage) /\ Longer(ms, new) /\ InTurn(new)
  /\ Len(new) > 0 /\ new[Len(new)].role = role
  /\ Len(new) \in {Len(ms), Len(ms) + 1}
  /\ Merged(ms, role, bs, new) \/ Started(ms, role, bs, new)

\* What AddBlocks keeps.
LEMMA AddKeeps ==
  ASSUME NEW ms \in Seq(WireMessage), NEW role \in {"user", "assistant"}, NEW bs \in Seq(Block),
         NEW new, new = AddBlocks(ms, role, bs), InTurn(ms)
  PROVE  Added(ms, role, bs, new)
<1> SUFFICES /\ new \in Seq(WireMessage) /\ Longer(ms, new) /\ InTurn(new)
             /\ Len(new) > 0 /\ new[Len(new)].role = role
             /\ Len(new) \in {Len(ms), Len(ms) + 1}
             /\ Merged(ms, role, bs, new) \/ Started(ms, role, bs, new)
  BY DEF Added
<1>1. /\ Len(ms) \in Nat /\ \A i \in 1 .. Len(ms) : ms[i] \in WireMessage
  OBVIOUS
<1>2. \A i \in 1 .. Len(ms) : ms[i].blocks \in Seq(Block)
  BY <1>1 DEF WireMessage
<1>3. new \in Seq(WireMessage)
  BY AddFacts
<1>4. CASE Merged(ms, role, bs, new)
  <2> DEFINE n == Len(ms)
             was == ms[n].blocks
             now == was \o bs
  <2>1. n \in Nat /\ n \in 1 .. n /\ was \in Seq(Block)
    BY <1>1, <1>2, <1>4 DEF Merged
  <2>2. Len(was) <= Len(now) /\ \A j \in 1 .. Len(was) : now[j] = was[j]
    BY <2>1
  <2>3. new[n].role = ms[n].role /\ new[n].blocks = now
    BY <1>4 DEF Merged
  <2>4. Longer(ms, new)
    <3>1. \A i \in 1 .. n : /\ new[i].role = ms[i].role /\ Len(ms[i].blocks) <= Len(new[i].blocks)
                            /\ \A j \in 1 .. Len(ms[i].blocks) : new[i].blocks[j] = ms[i].blocks[j]
      <4> SUFFICES ASSUME NEW i \in 1 .. n
                   PROVE  /\ new[i].role = ms[i].role /\ Len(ms[i].blocks) <= Len(new[i].blocks)
                          /\ \A j \in 1 .. Len(ms[i].blocks) : new[i].blocks[j] = ms[i].blocks[j]
        OBVIOUS
      <4>1. CASE i = n
        BY <2>2, <2>3, <4>1
      <4>2. CASE i # n
        <5>1. new[i] = ms[i] /\ Len(ms[i].blocks) \in Nat
          BY <1>2, <1>4, <4>2 DEF Merged
        <5> QED
          BY <5>1
      <4> QED
        BY <4>1, <4>2
    <3> QED
      BY <1>4, <2>1, <3>1 DEF Longer, Merged
  <2>5. InTurn(new)
    BY <1>4, <2>1, <2>4, SMTT(60) DEF InTurn, Longer, Merged
  <2> QED
    BY <1>3, <1>4, <2>4, <2>5 DEF Merged
<1>5. CASE Started(ms, role, bs, new)
  <2>1. Longer(ms, new)
    <3>1. \A i \in 1 .. Len(ms) : new[i] = ms[i] /\ Len(ms[i].blocks) \in Nat
      BY <1>2, <1>5 DEF Started
    <3> QED
      BY <1>1, <1>5, <3>1 DEF Longer, Started
  <2>2. InTurn(new)
    <3> SUFFICES ASSUME NEW i \in 1 .. Len(ms) + 1
                 PROVE  new[i].role \in {"user", "assistant"} /\ (i > 1 => new[i].role # new[i - 1].role)
      BY <1>5 DEF InTurn, Started
    <3>1. CASE i = Len(ms) + 1
      <4>1. new[i].role = role
        BY <1>5, <3>1 DEF Started
      <4>2. i > 1 => new[i - 1] = ms[Len(ms)] /\ Len(ms) > 0
        BY <1>1, <1>5, <3>1 DEF Started
      <4> QED
        BY <1>5, <4>1, <4>2 DEF Started
    <3>2. CASE i # Len(ms) + 1
      <4>1. i \in 1 .. Len(ms) /\ new[i] = ms[i] /\ (i > 1 => new[i - 1] = ms[i - 1])
        BY <1>1, <1>5, <3>2 DEF Started
      <4> QED
        BY <4>1 DEF InTurn
    <3> QED
      BY <3>1, <3>2
  <2>3. Len(new) > 0 /\ new[Len(new)].role = role
    BY <1>1, <1>5 DEF Started
  <2> QED
    BY <1>3, <1>5, <2>1, <2>2, <2>3 DEF Started
<1> QED
  BY <1>4, <1>5, AddFacts

-----------------------------------------------------------------------------
(* The results follow the calls. *)

\* The messages built from the first k of list: message i has the calls of
\* list[p], and the results said since are the first blocks of the next.
Followed(ms, list, k, i, p) ==
  /\ p \in 1 .. k /\ Len(list[p].calls) > 0 /\ CallsIn(ms[i]) = Uses(list[p].calls)
  /\ k = p => i = Len(ms)
  /\ k > p => i < Len(ms)
  /\ k > p /\ k <= p + Len(list[p].calls) => i + 1 = Len(ms) /\ Len(ms[i + 1].blocks) = k - p
  /\ \A j \in 1 .. Len(list[p].calls) :
       j <= k - p => j <= Len(ms[i + 1].blocks) /\ ms[i + 1].blocks[j] = Result(list[p].calls[j])

CallsFollowed(ms, list, k) ==
  \A i \in 1 .. Len(ms) : CallsIn(ms[i]) # << >> => \E p \in 1 .. k : Followed(ms, list, k, i, p)

\* While calls are unanswered, the next message answers one.
LEMMA MustAnswer ==
  ASSUME NEW list \in Seq(Speech), EachAnswered(list), NEW k \in 1 .. Len(list), NEW p \in 1 .. k - 1,
         k - 1 < p + Len(list[p].calls)
  PROVE  /\ list[k].role = "tool" /\ k - p \in 1 .. Len(list[p].calls)
         /\ list[k].id = list[p].calls[k - p]
<1>1. p \in DOMAIN list /\ list[p] \in Speech /\ p \in Nat /\ k \in Nat
  OBVIOUS
<1>2. list[p].calls \in Seq(Nat)
  BY <1>1 DEF Speech
<1>3. k - p \in 1 .. Len(list[p].calls) /\ k - p \in DOMAIN list[p].calls /\ p + (k - p) = k
  BY <1>1, <1>2
<1> QED
  BY <1>1, <1>3 DEF EachAnswered

\* What has been answered stays answered.
LEMMA StaysFollowed ==
  ASSUME NEW ms \in Seq(WireMessage), NEW new \in Seq(WireMessage), Longer(ms, new),
         NEW list \in Seq(Speech), NEW k \in 1 .. Len(list), NEW p \in 1 .. k - 1,
         NEW i \in 1 .. Len(ms), Followed(ms, list, k - 1, i, p), k - 1 >= p + Len(list[p].calls)
  PROVE  Followed(new, list, k, i, p)
<1>1. /\ p \in DOMAIN list /\ list[p] \in Speech /\ p \in Nat /\ k \in Nat
      /\ Len(ms) \in Nat /\ Len(new) \in Nat
  OBVIOUS
<1>2. list[p].calls \in Seq(Nat) /\ Len(list[p].calls) \in Nat
  BY <1>1 DEF Speech
<1>3. i < Len(ms) /\ i # Len(ms) /\ i + 1 \in 1 .. Len(ms) /\ Len(list[p].calls) > 0
  BY <1>1, <1>2, SMTT(60) DEF Followed
<1>4. new[i] = ms[i] /\ i < Len(new)
  BY <1>1, <1>3 DEF Longer
<1>5. ms[i + 1].blocks \in Seq(Block) /\ new[i + 1].blocks \in Seq(Block)
  <2>1. ms[i + 1] \in WireMessage /\ new[i + 1] \in WireMessage
    BY <1>1, <1>3 DEF Longer
  <2> QED
    BY <2>1 DEF WireMessage
<1>6. ASSUME NEW j \in 1 .. Len(list[p].calls)
      PROVE  j <= Len(new[i + 1].blocks) /\ new[i + 1].blocks[j] = Result(list[p].calls[j])
  <2>1. j <= k - 1 - p
    BY <1>1, <1>2
  <2>2. j <= Len(ms[i + 1].blocks) /\ ms[i + 1].blocks[j] = Result(list[p].calls[j])
    BY <2>1 DEF Followed
  <2>3. j \in 1 .. Len(ms[i + 1].blocks) /\ Len(ms[i + 1].blocks) <= Len(new[i + 1].blocks)
    BY <1>2, <1>3, <1>5, <2>2 DEF Longer
  <2>4. new[i + 1].blocks[j] = ms[i + 1].blocks[j]
    BY <1>3, <2>3 DEF Longer
  <2>5. j \in Nat /\ Len(ms[i + 1].blocks) \in Nat /\ Len(new[i + 1].blocks) \in Nat
    BY <1>5, SMTT(60)
  <2>6. j <= Len(new[i + 1].blocks)
    <3> DEFINE x == Len(ms[i + 1].blocks)
               y == Len(new[i + 1].blocks)
    <3>1. j <= x /\ x <= y /\ j \in Nat /\ x \in Nat /\ y \in Nat
      BY <2>2, <2>3, <2>5, Zenon
    <3> HIDE DEF x, y
    <3>2. j <= y
      BY <3>1
    <3> QED
      BY <3>2 DEF y
  <2> QED
    BY <2>2, <2>4, <2>6, Zenon
<1>7. p \in 1 .. k /\ k # p /\ ~(k <= p + Len(list[p].calls))
  BY <1>1, <1>2
<1>8. CallsIn(new[i]) = Uses(list[p].calls)
  BY <1>4 DEF Followed
<1> QED
  BY <1>3, <1>4, <1>6, <1>7, <1>8 DEF Followed

\* One more message, for the three roles that add blocks: the results that
\* had to follow have, and what is added is no result.
LEMMA NothingOwed ==
  ASSUME NEW ms \in Seq(WireMessage), NEW new \in Seq(WireMessage), Longer(ms, new),
         NEW list \in Seq(Speech), EachAnswered(list), NEW k \in 1 .. Len(list),
         list[k].role # "tool",
         NEW i \in 1 .. Len(ms), NEW p \in 1 .. k - 1, Followed(ms, list, k - 1, i, p)
  PROVE  i < Len(ms) /\ Followed(new, list, k, i, p)
<1>1. /\ p \in DOMAIN list /\ list[p] \in Speech /\ p \in Nat /\ k \in Nat
  OBVIOUS
<1>2. list[p].calls \in Seq(Nat) /\ Len(list[p].calls) \in Nat
  BY <1>1 DEF Speech
<1>3. ~(k - 1 < p + Len(list[p].calls))
  BY MustAnswer
<1>4. k - 1 >= p + Len(list[p].calls)
  BY <1>1, <1>2, <1>3
<1>5. Followed(new, list, k, i, p)
  BY <1>4, StaysFollowed
<1>6. k - 1 > p
  BY <1>1, <1>2, <1>4 DEF Followed
<1> QED
  BY <1>5, <1>6 DEF Followed

\* A system message adds nothing.
LEMMA SystemFollows ==
  ASSUME NEW ms \in Seq(WireMessage), NEW list \in Seq(Speech), EachAnswered(list),
         NEW k \in 1 .. Len(list), list[k].role = "system", CallsFollowed(ms, list, k - 1)
  PROVE  CallsFollowed(ms, list, k)
<1> SUFFICES ASSUME NEW i \in 1 .. Len(ms), CallsIn(ms[i]) # << >>
             PROVE  \E p \in 1 .. k : Followed(ms, list, k, i, p)
  BY DEF CallsFollowed
<1>1. PICK p \in 1 .. k - 1 : Followed(ms, list, k - 1, i, p)
  BY DEF CallsFollowed
<1>2. Longer(ms, ms)
  <2>1. \A n \in 1 .. Len(ms) : ms[n] \in WireMessage
    OBVIOUS
  <2>2. \A n \in 1 .. Len(ms) : Len(ms[n].blocks) \in Nat
    BY <2>1 DEF WireMessage
  <2> QED
    BY <2>2 DEF Longer
<1>3. Followed(ms, list, k, i, p) /\ p \in 1 .. k
  BY <1>1, <1>2, NothingOwed
<1> QED
  BY <1>3

\* A user message.
LEMMA UserFollows ==
  ASSUME NEW ms \in Seq(WireMessage), NEW list \in Seq(Speech), EachAnswered(list), InTurn(ms),
         NEW k \in 1 .. Len(list), list[k].role = "user", CallsFollowed(ms, list, k - 1),
         NEW new, new = AddBlocks(ms, "user", << Text >>)
  PROVE  CallsFollowed(new, list, k)
<1>1. << Text >> \in Seq(Block)
  BY BlockFacts
<1> DEFINE bs == << Text >>
<1>2. bs \in Seq(Block) /\ new = AddBlocks(ms, "user", bs) /\ "user" \in {"user", "assistant"}
  BY <1>1
<1> HIDE DEF bs
<1>3. /\ new \in Seq(WireMessage) /\ Longer(ms, new) /\ Len(new) > 0 /\ new[Len(new)].role = "user"
      /\ Len(new) \in {Len(ms), Len(ms) + 1}
      /\ Merged(ms, "user", bs, new) \/ Started(ms, "user", bs, new)
  <2>1. Added(ms, "user", bs, new)
    BY <1>2, AddKeeps, Zenon
  <2> QED
    BY <2>1, Zenon DEF Added
<1>4. /\ new \in Seq(WireMessage) /\ Longer(ms, new) /\ Len(new) > 0 /\ new[Len(new)].role = "user"
      /\ Len(new) \in {Len(ms), Len(ms) + 1} /\ Len(ms) \in Nat
  BY <1>3
<1> SUFFICES ASSUME NEW i \in 1 .. Len(new), CallsIn(new[i]) # << >>
             PROVE  \E p \in 1 .. k : Followed(new, list, k, i, p)
  BY DEF CallsFollowed
<1>5. i # Len(new)
  BY <1>4 DEF CallsIn
<1>6. i \in 1 .. Len(ms)
  BY <1>4, <1>5
<1>7. CASE i = Len(ms)
  <2>1. new[i].role = ms[i].role
    BY <1>4, <1>6 DEF Longer
  <2>2. Len(new) = Len(ms) + 1
    BY <1>4, <1>5, <1>7
  <2>3. new[i] = ms[i]
    BY <1>3, <1>4, <1>6, <1>7, <2>2 DEF Merged, Started
  <2>4. PICK p \in 1 .. k - 1 : Followed(ms, list, k - 1, i, p)
    BY <1>6, <2>3 DEF CallsFollowed
  <2>5. Followed(new, list, k, i, p) /\ p \in 1 .. k
    BY <1>4, <1>6, <2>4, NothingOwed
  <2> QED
    BY <2>5
<1>8. CASE i # Len(ms)
  <2>1. new[i] = ms[i]
    BY <1>4, <1>6, <1>8 DEF Longer
  <2>2. PICK p \in 1 .. k - 1 : Followed(ms, list, k - 1, i, p)
    BY <1>6, <2>1 DEF CallsFollowed
  <2>3. Followed(new, list, k, i, p) /\ p \in 1 .. k
    BY <1>4, <1>6, <2>2, NothingOwed
  <2> QED
    BY <2>3
<1> QED
  BY <1>7, <1>8

\* An assistant message: its calls are the last message's, and nothing
\* before them in that message is a call.
LEMMA AssistantFollows ==
  ASSUME NEW ms \in Seq(WireMessage), NEW list \in Seq(Speech), EachAnswered(list), InTurn(ms),
         NEW k \in 1 .. Len(list), list[k].role = "assistant", CallsFollowed(ms, list, k - 1),
         NEW bs \in Seq(Block), Traffic(bs) = Uses(list[k].calls),
         NEW new, new = AddBlocks(ms, "assistant", bs)
  PROVE  CallsFollowed(new, list, k)
<1>1. "assistant" \in {"user", "assistant"}
  OBVIOUS
<1>2. /\ new \in Seq(WireMessage) /\ Longer(ms, new) /\ Len(new) > 0
      /\ new[Len(new)].role = "assistant" /\ Len(new) \in {Len(ms), Len(ms) + 1}
      /\ Merged(ms, "assistant", bs, new) \/ Started(ms, "assistant", bs, new)
  <2>1. Added(ms, "assistant", bs, new)
    BY <1>1, AddKeeps, Zenon
  <2> QED
    BY <2>1, Zenon DEF Added
<1>3. Len(ms) \in Nat /\ Len(new) \in Nat
  BY <1>2
<1>4. list[k] \in Speech /\ list[k].role # "tool" /\ k \in Nat /\ k \in 1 .. k
  OBVIOUS
<1>5. list[k].calls \in Seq(Nat) /\ Uses(list[k].calls) \in Seq(Block)
  BY <1>4, SpeechFacts
<1> SUFFICES ASSUME NEW i \in 1 .. Len(new), CallsIn(new[i]) # << >>
             PROVE  \E p \in 1 .. k : Followed(new, list, k, i, p)
  BY DEF CallsFollowed
<1>6. ASSUME NEW n \in 1 .. Len(ms), new[n] = ms[n], CallsIn(new[n]) # << >>
      PROVE  \E p \in 1 .. k : Followed(new, list, k, n, p)
  <2>1. PICK p \in 1 .. k - 1 : Followed(ms, list, k - 1, n, p)
    BY <1>6 DEF CallsFollowed
  <2>2. Followed(new, list, k, n, p) /\ p \in 1 .. k
    BY <1>2, <1>3, <1>4, <2>1, NothingOwed
  <2> QED
    BY <2>2
<1>7. CASE i # Len(new)
  <2>1. i \in 1 .. Len(ms)
    BY <1>2, <1>3, <1>7
  <2>2. new[i] = ms[i]
    BY <1>2, <1>3, <1>7, <2>1 DEF Merged, Started
  <2> QED
    BY <1>6, <2>1, <2>2
<1>8. CASE i = Len(new)
  <2>1. CallsIn(new[i]) = Traffic(bs)
    <3>1. CASE Started(ms, "assistant", bs, new)
      <4>1. new[i] = [role |-> "assistant", blocks |-> bs]
        BY <1>8, <3>1 DEF Started
      <4> QED
        BY <4>1 DEF CallsIn
    <3>2. CASE Merged(ms, "assistant", bs, new)
      <4> DEFINE n == Len(ms)
                 was == ms[n].blocks
      <4>1. n \in 1 .. n /\ i = n /\ ms[n].role = "assistant" /\ ms[n] \in WireMessage
            /\ new[i] = [role |-> "assistant", blocks |-> was \o bs]
        BY <1>2, <1>3, <1>8, <3>2 DEF Merged
      <4>2. was \in Seq(Block)
        BY <4>1 DEF WireMessage
      <4>3. CallsIn(ms[n]) = << >>
        <5>1. SUFFICES ASSUME CallsIn(ms[n]) # << >> PROVE FALSE
          OBVIOUS
        <5>2. PICK p \in 1 .. k - 1 : Followed(ms, list, k - 1, n, p)
          BY <4>1, <5>1 DEF CallsFollowed
        <5>3. n < Len(ms)
          BY <1>2, <1>3, <1>4, <4>1, <5>2, NothingOwed
        <5> QED
          BY <1>2, <1>3, <5>3
      <4>4. Traffic(was) = << >>
        BY <4>1, <4>3 DEF CallsIn
      <4>5. Traffic(was \o bs) = Traffic(was) \o Traffic(bs)
        BY <4>2, TrafficFacts
      <4>6. << >> \o Traffic(bs) = Traffic(bs)
        BY <1>5, ConcatEmptySeq
      <4>7. CallsIn(new[i]) = Traffic(was \o bs)
        <5>1. new[i].role = "assistant" /\ new[i].blocks = was \o bs
          BY <4>1
        <5> QED
          BY <5>1 DEF CallsIn
      <4> QED
        BY <4>4, <4>5, <4>6, <4>7
    <3> QED
      BY <1>2, <3>1, <3>2
  <2>2. Len(list[k].calls) > 0
    <3>1. list[k].calls # << >>
      BY <1>4, <2>1, SpeechFacts
    <3> QED
      BY <1>5, <3>1
  <2>3. \A j \in 1 .. Len(list[k].calls) : ~(j <= k - k)
    BY <1>4
  <2>4. ~(k > k) /\ i = Len(new)
    BY <1>4, <1>8
  <2>5. CallsIn(new[i]) = Uses(list[k].calls)
    BY <2>1
  <2>6. Followed(new, list, k, i, k)
    BY <1>4, <2>2, <2>3, <2>4, <2>5 DEF Followed
  <2> QED
    BY <1>4, <2>6
<1> QED
  BY <1>7, <1>8

\* A list and one element.
LEMMA OneMore ==
  ASSUME NEW S, NEW s \in Seq(S), NEW e \in S
  PROVE  /\ Len(s \o << e >>) = Len(s) + 1 /\ (s \o << e >>)[Len(s) + 1] = e
         /\ \A j \in 1 .. Len(s) : (s \o << e >>)[j] = s[j]
OBVIOUS

\* A tool message: it answers the oldest unanswered call, right behind the
\* results before it.
LEMMA ToolFollows ==
  ASSUME NEW ms \in Seq(WireMessage), NEW list \in Seq(Speech), EachAnswered(list), InTurn(ms),
         NEW k \in 1 .. Len(list), list[k].role = "tool", CallsFollowed(ms, list, k - 1),
         NEW new, new = AddBlocks(ms, "user", << Result(list[k].id) >>)
  PROVE  CallsFollowed(new, list, k)
<1> DEFINE r == Result(list[k].id)
           bs == << r >>
<1>1. list[k] \in Speech /\ k \in Nat /\ k \in 1 .. k
  OBVIOUS
<1>2. bs = << r >> /\ r \in Block
  <2>1. list[k].id \in Nat
    BY <1>1, SpeechFacts
  <2> QED
    BY <2>1, BlockFacts
<1>3. bs \in Seq(Block) /\ Len(bs) = 1 /\ bs[1] = r
  BY <1>2
<1>4. new = AddBlocks(ms, "user", bs) /\ "user" \in {"user", "assistant"}
  OBVIOUS
<1> HIDE DEF bs, r
<1>5. /\ new \in Seq(WireMessage) /\ Longer(ms, new) /\ Len(new) > 0 /\ new[Len(new)].role = "user"
      /\ Len(new) \in {Len(ms), Len(ms) + 1}
      /\ Merged(ms, "user", bs, new) \/ Started(ms, "user", bs, new)
  <2>1. Added(ms, "user", bs, new)
    BY <1>3, <1>4, AddKeeps, Zenon
  <2> QED
    BY <2>1, Zenon DEF Added
<1>6. Len(ms) \in Nat /\ Len(new) \in Nat
  BY <1>5
<1> SUFFICES ASSUME NEW i \in 1 .. Len(new), CallsIn(new[i]) # << >>
             PROVE  \E p \in 1 .. k : Followed(new, list, k, i, p)
  BY DEF CallsFollowed
<1>7. i # Len(new)
  BY <1>5 DEF CallsIn
<1>8. i \in 1 .. Len(ms) /\ i \in Nat
  BY <1>5, <1>6, <1>7
<1>9. new[i] = ms[i]
  BY <1>5, <1>6, <1>7, <1>8 DEF Merged, Started
<1>10. PICK p \in 1 .. k - 1 : Followed(ms, list, k - 1, i, p)
  BY <1>8, <1>9 DEF CallsFollowed
<1> DEFINE calls == list[p].calls
<1>11. /\ p \in 1 .. Len(list) /\ p \in Nat /\ list[p] \in Speech /\ p \in 1 .. k /\ k # p
  OBVIOUS
<1>12. calls \in Seq(Nat) /\ Len(calls) \in Nat
  BY <1>11 DEF Speech
<1>13. CASE k - 1 >= p + Len(calls)
  <2>1. Followed(new, list, k, i, p)
    BY <1>5, <1>8, <1>10, <1>13, StaysFollowed
  <2> QED
    BY <1>11, <2>1
<1>14. CASE k - 1 < p + Len(calls)
  <2>1. k - p \in 1 .. Len(calls) /\ r = Result(calls[k - p])
    BY <1>14, MustAnswer DEF r
  <2>2. /\ Len(calls) > 0 /\ CallsIn(new[i]) = Uses(calls)
    BY <1>9, <1>10 DEF Followed
  <2>3. /\ i + 1 = Len(new) /\ i < Len(new) /\ Len(new[i + 1].blocks) = k - p
        /\ \A j \in 1 .. Len(calls) :
             j <= k - p => j <= Len(new[i + 1].blocks) /\ new[i + 1].blocks[j] = Result(calls[j])
    <3>1. CASE k - 1 = p
      <4>1. i = Len(ms)
        BY <1>10, <3>1 DEF Followed
      <4>2. Len(new) = Len(ms) + 1
        BY <1>5, <1>7, <4>1
      <4>3. Started(ms, "user", bs, new)
        BY <1>5, <1>6, <4>2 DEF Merged
      <4>4. new[i + 1].blocks = bs /\ i + 1 = Len(new)
        BY <4>1, <4>2, <4>3 DEF Started
      <4>5. k - p = 1 /\ \A j \in 1 .. Len(calls) : j <= k - p => j = 1
        BY <1>11, <1>12, <1>1, <3>1
      <4>6. \A j \in 1 .. Len(calls) :
             j <= k - p => j <= Len(new[i + 1].blocks) /\ new[i + 1].blocks[j] = Result(calls[j])
        <5> SUFFICES ASSUME NEW j \in 1 .. Len(calls), j <= k - p
                     PROVE  j <= Len(new[i + 1].blocks) /\ new[i + 1].blocks[j] = Result(calls[j])
          OBVIOUS
        <5>1. j = 1 /\ k - p = 1
          BY <4>5
        <5>2. r = Result(calls[1])
          BY <2>1, <5>1
        <5> QED
          BY <1>3, <4>4, <5>1, <5>2
      <4>7. Len(new[i + 1].blocks) = k - p
        BY <1>3, <4>4, <4>5
      <4>8. i < Len(new)
        BY <1>6, <1>8, <4>4
      <4> QED
        BY <4>4, <4>6, <4>7, <4>8
    <3>2. CASE k - 1 > p
      <4>1. i < Len(ms) /\ i + 1 = Len(ms) /\ Len(ms[i + 1].blocks) = k - 1 - p
        <5>1. k - 1 <= p + Len(calls)
          BY <1>11, <1>12, <1>14, <1>1
        <5> HIDE DEF calls
        <5> QED
          BY <1>10, <3>2, <5>1 DEF Followed, calls
      <4>2. ms[Len(ms)].role = "user"
        <5>1. CallsIn(ms[i]) # << >>
          BY <1>9
        <5>2. ms[i].role = "assistant"
          BY <5>1 DEF CallsIn
        <5>3. i + 1 \in 1 .. Len(ms) /\ i + 1 > 1 /\ i + 1 - 1 = i
          BY <1>6, <1>8, <4>1
        <5>4. ms[i + 1].role # ms[i].role /\ ms[i + 1].role \in {"user", "assistant"}
          BY <5>3 DEF InTurn
        <5> QED
          BY <4>1, <5>2, <5>4
      <4>3. Merged(ms, "user", bs, new)
        BY <1>5, <1>6, <1>8, <4>1, <4>2 DEF Started
      <4> DEFINE was == ms[i + 1].blocks
      <4>4. Len(new) = Len(ms) /\ new[i + 1].blocks = was \o bs
        <5>1. Len(new) = Len(ms) /\ new[Len(ms)].blocks = ms[Len(ms)].blocks \o bs
          <6>1. Len(new) = Len(ms)
                /\ new[Len(ms)] = [role |-> "user", blocks |-> ms[Len(ms)].blocks \o bs]
            BY <4>3, Zenon DEF Merged
          <6> QED
            BY <6>1, SMTT(60)
        <5>2. i + 1 = Len(ms)
          BY <4>1
        <5> QED
          BY <5>1, <5>2
      <4>5. was \in Seq(Block) /\ Len(was) = k - 1 - p
        <5>1. i + 1 \in 1 .. Len(ms)
          BY <1>6, <1>8, <4>1
        <5>2. ms[i + 1] \in WireMessage
          BY <5>1
        <5> QED
          BY <4>1, <5>2 DEF WireMessage
      <4> HIDE DEF was
      <4>6. /\ Len(was \o bs) = k - p /\ (was \o bs)[k - p] = r
            /\ \A j \in 1 .. k - 1 - p : (was \o bs)[j] = was[j]
        <5>1. /\ Len(was \o bs) = Len(was) + 1 /\ (was \o bs)[Len(was) + 1] = r
              /\ \A j \in 1 .. Len(was) : (was \o bs)[j] = was[j]
          <6>1. /\ Len(was \o << r >>) = Len(was) + 1 /\ (was \o << r >>)[Len(was) + 1] = r
                /\ \A j \in 1 .. Len(was) : (was \o << r >>)[j] = was[j]
            BY <1>2, <4>5, OneMore
          <6> QED
            BY <1>2, <6>1
        <5>2. Len(was) + 1 = k - p
          BY <1>1, <1>11, <4>5
        <5> QED
          BY <4>5, <5>1, <5>2
      <4>7. \A j \in 1 .. Len(calls) :
             j <= k - p => j <= Len(new[i + 1].blocks) /\ new[i + 1].blocks[j] = Result(calls[j])
        <5> SUFFICES ASSUME NEW j \in 1 .. Len(calls), j <= k - p
                     PROVE  j <= Len(new[i + 1].blocks) /\ new[i + 1].blocks[j] = Result(calls[j])
          OBVIOUS
        <5>1. CASE j = k - p
          BY <2>1, <4>4, <4>6, <5>1
        <5>2. CASE j # k - p
          <6>1. j \in 1 .. k - 1 - p /\ j <= k - 1 - p
            BY <1>11, <1>12, <1>1, <5>2
          <6>2. was[j] = Result(calls[j])
            BY <1>10, <6>1 DEF Followed, was
          <6> QED
            BY <4>4, <4>6, <6>1, <6>2
        <5> QED
          BY <5>1, <5>2
      <4>8. i + 1 = Len(new) /\ i < Len(new)
        BY <1>8, <4>1, <4>4
      <4> QED
        BY <4>4, <4>6, <4>7, <4>8
    <3>3. k - 1 = p \/ k - 1 > p
      BY <1>11, <1>1
    <3> QED
      BY <3>1, <3>2, <3>3, Zenon
  <2> HIDE DEF calls
  <2>4. Followed(new, list, k, i, p)
    BY <1>11, <2>2, <2>3 DEF Followed, calls
  <2> QED
    BY <1>11, <2>4
<1>15. k - 1 >= p + Len(calls) \/ k - 1 < p + Len(calls)
  BY <1>11, <1>12, <1>1
<1> QED
  BY <1>13, <1>14, <1>15, Zenon

\* The blocks a message becomes.
LEMMA AnthropicAdds ==
  ASSUME NEW ms, NEW m \in Speech, m.role # "system"
  PROVE  \E role \in {"user", "assistant"}, bs \in Seq(Block) :
           /\ AnthropicMessage(ms, m) = AddBlocks(ms, role, bs)
           /\ Traffic(bs) = MessageTraffic(m)
           /\ m.role = "user" => role = "user" /\ bs = << Text >>
           /\ m.role = "tool" => role = "user" /\ bs = << Result(m.id) >>
           /\ m.role = "assistant" => role = "assistant"
<1>1. CASE m.role = "user"
  <2> DEFINE bs == << Text >>
  <2>1. AnthropicMessage(ms, m) = AddBlocks(ms, "user", bs) /\ MessageTraffic(m) = Uses(m.calls)
    BY <1>1 DEF AnthropicMessage, MessageTraffic
  <2>2. bs \in Seq(Block) /\ Traffic(bs) = << >> /\ Uses(m.calls) = << >>
    BY <1>1, SpeechFacts, TrafficFacts
  <2>3. bs = << Text >> /\ "user" \in {"user", "assistant"} /\ m.role # "tool" /\ m.role # "assistant"
    BY <1>1
  <2> HIDE DEF bs
  <2> QED
    BY <2>1, <2>2, <2>3
<1>2. CASE m.role = "tool"
  <2> DEFINE bs == << Result(m.id) >>
  <2>1. AnthropicMessage(ms, m) = AddBlocks(ms, "user", bs) /\ MessageTraffic(m) = bs
    BY <1>2 DEF AnthropicMessage, MessageTraffic
  <2>2. bs \in Seq(Block) /\ Traffic(bs) = bs
    BY SpeechFacts
  <2>3. bs = << Result(m.id) >> /\ "user" \in {"user", "assistant"} /\ m.role # "user" /\ m.role # "assistant"
    BY <1>2
  <2> HIDE DEF bs
  <2> QED
    BY <2>1, <2>2, <2>3
<1>3. CASE m.role = "assistant"
  <2> DEFINE bs == Spoken(m) \o Uses(m.calls)
  <2>1. AnthropicMessage(ms, m) = AddBlocks(ms, "assistant", bs) /\ MessageTraffic(m) = Uses(m.calls)
    BY <1>3 DEF AnthropicMessage, MessageTraffic
  <2>2. bs \in Seq(Block) /\ Traffic(bs) = Uses(m.calls)
    BY AssistantBlocks
  <2>3. "assistant" \in {"user", "assistant"} /\ m.role # "user" /\ m.role # "tool"
    BY <1>3
  <2> HIDE DEF bs
  <2> QED
    BY <2>1, <2>2, <2>3
<1> QED
  BY <1>1, <1>2, <1>3, SpeechFacts

\* One message of the conversation.
LEMMA AnthropicStep ==
  ASSUME NEW ms \in Seq(WireMessage), InTurn(ms), NEW list \in Seq(Speech),
         NEW k \in 1 .. Len(list), NEW new, new = AnthropicMessage(ms, list[k])
  PROVE  /\ new \in Seq(WireMessage) /\ InTurn(new)
         /\ Traffic(Blocks(new)) = Traffic(Blocks(ms)) \o MessageTraffic(list[k])
         /\ EachAnswered(list) /\ CallsFollowed(ms, list, k - 1) => CallsFollowed(new, list, k)
<1> DEFINE m == list[k]
<1>1. m \in Speech
  OBVIOUS
<1>2. CASE m.role = "system"
  <2>1. new = ms /\ MessageTraffic(m) = Uses(m.calls)
    BY <1>2 DEF AnthropicMessage, MessageTraffic
  <2>2. MessageTraffic(m) = << >>
    BY <1>1, <1>2, <2>1, SpeechFacts
  <2>3. Traffic(Blocks(ms)) \in Seq(Block)
    BY BlocksFacts, TrafficFacts
  <2>4. Traffic(Blocks(ms)) \o << >> = Traffic(Blocks(ms))
    BY <2>3, ConcatEmptySeq
  <2>5. EachAnswered(list) /\ CallsFollowed(ms, list, k - 1) => CallsFollowed(ms, list, k)
    BY <1>2, SystemFollows
  <2> QED
    BY <2>1, <2>2, <2>4, <2>5
<1>3. CASE m.role # "system"
  <2>1. PICK role \in {"user", "assistant"}, bs \in Seq(Block) :
           /\ AnthropicMessage(ms, m) = AddBlocks(ms, role, bs)
           /\ Traffic(bs) = MessageTraffic(m)
           /\ m.role = "user" => role = "user" /\ bs = << Text >>
           /\ m.role = "tool" => role = "user" /\ bs = << Result(m.id) >>
           /\ m.role = "assistant" => role = "assistant"
    BY <1>1, <1>3, AnthropicAdds
  <2>2. new = AddBlocks(ms, role, bs)
    BY <2>1
  <2>3. new \in Seq(WireMessage) /\ InTurn(new)
    <3>1. Added(ms, role, bs, new)
      BY <2>1, <2>2, AddKeeps, Zenon
    <3> QED
      BY <3>1, Zenon DEF Added
  <2>4. Traffic(Blocks(new)) = Traffic(Blocks(ms)) \o MessageTraffic(m)
    <3>1. Blocks(new) = Blocks(ms) \o bs
      BY <2>2, AddFacts
    <3>2. Blocks(ms) \in Seq(Block)
      BY BlocksFacts
    <3>3. Traffic(Blocks(ms) \o bs) = Traffic(Blocks(ms)) \o Traffic(bs)
      BY <3>2, TrafficFacts
    <3> QED
      BY <2>1, <3>1, <3>3
  <2>5. ASSUME EachAnswered(list), CallsFollowed(ms, list, k - 1) PROVE CallsFollowed(new, list, k)
    <3>1. CASE m.role = "user"
      <4>1. new = AddBlocks(ms, "user", << Text >>)
        BY <2>1, <2>2, <3>1
      <4> QED
        BY <2>5, <3>1, <4>1, UserFollows, Zenon
    <3>2. CASE m.role = "tool"
      <4>1. new = AddBlocks(ms, "user", << Result(m.id) >>)
        BY <2>1, <2>2, <3>2
      <4> QED
        BY <2>5, <3>2, <4>1, ToolFollows, Zenon
    <3>3. CASE m.role = "assistant"
      <4>1. new = AddBlocks(ms, "assistant", bs) /\ Traffic(bs) = Uses(m.calls)
        BY <2>1, <2>2, <3>3 DEF MessageTraffic
      <4> QED
        BY <2>5, <3>3, <4>1, AssistantFollows, Zenon
    <3> QED
      BY <1>1, <1>3, <3>1, <3>2, <3>3, SpeechFacts
  <2> QED
    BY <2>3, <2>4, <2>5
<1> QED
  BY <1>2, <1>3

\* All of them.
LEMMA AnthropicWhole ==
  ASSUME NEW list \in Seq(Speech), NEW ms, ms = AnthropicMessages(list)
  PROVE  /\ ms \in Seq(WireMessage) /\ InTurn(ms)
         /\ Traffic(Blocks(ms)) = ToolTraffic(list)
         /\ EachAnswered(list) => CallsFollowed(ms, list, Len(list))
<1> DEFINE n == Len(list)
           Q == [k \in DOMAIN list |-> MessageTraffic(list[k])]
<1>1. n \in Nat /\ DOMAIN list = 1 .. n /\ \A k \in 1 .. n : list[k] \in Speech
  OBVIOUS
<1>2. Q \in Seq(Seq(Block)) /\ Len(Q) = n /\ \A k \in 1 .. n : Q[k] = MessageTraffic(list[k])
  <2>1. \A k \in 1 .. n : MessageTraffic(list[k]) \in Seq(Block)
    BY <1>1, SpeechFacts
  <2>2. Q = [k \in 1 .. n |-> MessageTraffic(list[k])]
    BY <1>1
  <2> QED
    BY <1>1, <2>1, <2>2
<1>3. ToolTraffic(list) = FlattenSeq(Q)
  BY DEF ToolTraffic
<1> HIDE DEF Q
<1>4. PICK h : /\ h[0] = << >> /\ FlattenSeq(Q) = h[Len(Q)]
               /\ \A k \in 0 .. Len(Q) : h[k] \in Seq(Block)
               /\ \A k \in 1 .. Len(Q) : h[k] = h[k - 1] \o Q[k]
  BY <1>2, FlatRuns
<1>5. PICK f : /\ f[0] = << >> /\ AnthropicMessages(list) = f[Len(list)]
               /\ \A k \in 1 .. Len(list) : f[k] = AnthropicMessage(f[k - 1], list[k])
  BY AnthropicRuns
<1> DEFINE Good(k) == /\ f[k] \in Seq(WireMessage) /\ InTurn(f[k]) /\ Traffic(Blocks(f[k])) = h[k]
                      /\ EachAnswered(list) => CallsFollowed(f[k], list, k)
           G == {k \in 0 .. n : Good(k)}
<1>6. 0 \in G
  <2>1. << >> \in Seq(WireMessage) /\ Len(<< >>) = 0 /\ 0 \in 0 .. n
    BY <1>1
  <2>2. InTurn(<< >>) /\ CallsFollowed(<< >>, list, 0)
    BY <2>1 DEF InTurn, CallsFollowed
  <2>3. Traffic(Blocks(<< >>)) = << >>
    BY BlocksFacts, TrafficFacts
  <2> QED
    BY <1>4, <1>5, <2>1, <2>2, <2>3
<1>7. ASSUME NEW k \in 1 .. n, k - 1 \in G PROVE k \in G
  <2>1. k \in 0 .. n /\ Good(k - 1)
    BY <1>1, <1>7
  <2>2. f[k] = AnthropicMessage(f[k - 1], list[k]) /\ h[k] = h[k - 1] \o MessageTraffic(list[k])
    BY <1>2, <1>4, <1>5
  <2>3. /\ f[k] \in Seq(WireMessage) /\ InTurn(f[k])
        /\ Traffic(Blocks(f[k])) = Traffic(Blocks(f[k - 1])) \o MessageTraffic(list[k])
        /\ EachAnswered(list) /\ CallsFollowed(f[k - 1], list, k - 1) => CallsFollowed(f[k], list, k)
    BY <2>1, <2>2, AnthropicStep
  <2>4. Good(k)
    BY <2>1, <2>2, <2>3
  <2> QED
    BY <2>1, <2>4
<1> HIDE DEF G
<1>8. \A k \in 0 .. n : k \in G
  BY <1>1, <1>6, <1>7, CountUp
<1>9. Good(n)
  BY <1>1, <1>8 DEF G
<1>10. h[n] = ToolTraffic(list) /\ f[n] = ms
  BY <1>2, <1>3, <1>4, <1>5
<1> HIDE DEF n
<1> QED
  BY <1>9, <1>10 DEF n

\* The text for the system, in front of the messages, moves them by one place.
LEMMA HeadOrdered ==
  ASSUME NEW list \in Seq(Speech), NEW ms \in Seq(WireMessage), InTurn(ms),
         EachAnswered(list) => CallsFollowed(ms, list, Len(list)),
         NEW head \in {<< >>, << SystemText >>}
  PROVE  Ordered(head \o ms, list)
<1> DEFINE d == Len(head)
           b == head \o ms
<1>1. d \in {0, 1} /\ (d = 1 => head[1].role = "system") /\ Len(ms) \in Nat
  BY DEF SystemText
<1>2. /\ b \in Seq(WireMessage) /\ DOMAIN b = 1 .. d + Len(ms) /\ Len(b) = d + Len(ms)
      /\ d = 1 => b[1] = head[1]
      /\ \A i \in 1 .. Len(ms) : b[d + i] = ms[i]
  <2>1. head \in Seq(WireMessage)
    BY HeadTraffic
  <2>2. head[1] = head[1] /\ Len(head) \in Nat
    BY <1>1
  <2> QED
    BY <1>1, <2>1, <2>2
<1> HIDE DEF b, d
<1> SUFFICES ASSUME NEW k \in 1 .. d + Len(ms)
             PROVE  /\ k > 1 => b[k].role # b[k - 1].role
                    /\ EachAnswered(list) /\ CallsIn(b[k]) # << >> =>
                         /\ k < Len(b)
                         /\ \A j \in DOMAIN CallsIn(b[k]) :
                              /\ j \in DOMAIN b[k + 1].blocks
                              /\ b[k + 1].blocks[j] = Result(CallsIn(b[k])[j].id)
  BY <1>2 DEF Ordered, b
<1>3. CASE d = 1 /\ k = 1
  <2>1. b[k].role = "system"
    BY <1>1, <1>2, <1>3
  <2>2. CallsIn(b[k]) = << >> /\ ~(k > 1)
    BY <1>3, <2>1 DEF CallsIn
  <2> QED
    BY <2>2
<1>4. CASE ~(d = 1 /\ k = 1)
  <2> DEFINE i == k - d
  <2>1. i \in 1 .. Len(ms) /\ k = d + i /\ d \in Nat
    BY <1>1, <1>4
  <2>2. b[k] = ms[i] /\ ms[i].role \in {"user", "assistant"}
    BY <1>2, <2>1 DEF InTurn
  <2>3. k > 1 => b[k].role # b[k - 1].role
    <3>1. CASE i = 1
      <4>1. k > 1 => b[k - 1].role = "system"
        BY <1>1, <1>2, <2>1, <3>1
      <4> QED
        BY <2>2, <4>1
    <3>2. CASE i # 1
      <4>1. i - 1 \in 1 .. Len(ms) /\ i > 1 /\ k - 1 = d + (i - 1)
        BY <1>1, <2>1, <3>2
      <4>2. b[k - 1] = ms[i - 1]
        BY <1>2, <4>1
      <4> QED
        BY <2>1, <2>2, <4>1, <4>2 DEF InTurn
    <3> QED
      BY <3>1, <3>2
  <2>4. ASSUME EachAnswered(list), CallsIn(b[k]) # << >>
        PROVE  /\ k < Len(b)
               /\ \A j \in DOMAIN CallsIn(b[k]) :
                    /\ j \in DOMAIN b[k + 1].blocks
                    /\ b[k + 1].blocks[j] = Result(CallsIn(b[k])[j].id)
    <3> DEFINE N == Len(list)
    <3>1. PICK p \in 1 .. N : Followed(ms, list, N, i, p)
      BY <2>1, <2>2, <2>4 DEF CallsFollowed
    <3> DEFINE calls == list[p].calls
    <3>2. list[p] \in Speech /\ p \in DOMAIN list /\ p \in Nat /\ N \in Nat
      OBVIOUS
    <3>3. calls \in Seq(Nat) /\ Len(calls) \in Nat /\ DOMAIN calls = 1 .. Len(calls)
      BY <3>2 DEF Speech
    <3>4. Len(calls) > 0 /\ CallsIn(b[k]) = Uses(calls)
      BY <2>2, <3>1 DEF Followed
    <3>5. p + Len(calls) <= N
      BY <2>4, <3>2, <3>3, <3>4 DEF EachAnswered
    <3>6. N > p /\ \A j \in 1 .. Len(calls) : j <= N - p
      BY <3>2, <3>3, <3>4, <3>5
    <3>7. i < Len(ms)
      BY <3>1, <3>6 DEF Followed
    <3>8. i + 1 \in 1 .. Len(ms) /\ k + 1 = d + (i + 1) /\ k < Len(b)
      BY <1>1, <1>2, <2>1, <3>7
    <3>9. b[k + 1] = ms[i + 1] /\ ms[i + 1] \in WireMessage
      <4>1. b[k + 1] = ms[i + 1]
        BY <1>2, <3>8
      <4> QED
        BY <3>8, <4>1
    <3>10. ms[i + 1].blocks \in Seq(Block)
      BY <3>9 DEF WireMessage
    <3>11. ASSUME NEW j \in DOMAIN CallsIn(b[k])
           PROVE  /\ j \in DOMAIN b[k + 1].blocks
                  /\ b[k + 1].blocks[j] = Result(CallsIn(b[k])[j].id)
      <4>1. j \in 1 .. Len(calls) /\ CallsIn(b[k])[j].id = calls[j]
        BY <3>3, <3>4 DEF Uses, Use
      <4>2. j <= Len(ms[i + 1].blocks) /\ ms[i + 1].blocks[j] = Result(calls[j])
        BY <3>1, <3>6, <4>1 DEF Followed
      <4>3. j \in DOMAIN ms[i + 1].blocks
        BY <3>3, <3>10, <4>1, <4>2
      <4> QED
        BY <3>9, <4>1, <4>2, <4>3
    <3> QED
      BY <3>8, <3>11
  <2> QED
    BY <2>3, <2>4
<1> QED
  BY <1>3, <1>4

\* The anthropic body.
LEMMA AnthropicFaithful ==
  ASSUME NEW list \in Seq(Speech), NEW prompt \in BOOLEAN
  PROVE  /\ Traffic(Blocks(AnthropicBody(list, prompt))) = ToolTraffic(list)
         /\ Ordered(AnthropicBody(list, prompt), list)
<1> DEFINE ms == AnthropicMessages(list)
<1>1. /\ ms \in Seq(WireMessage) /\ InTurn(ms) /\ Traffic(Blocks(ms)) = ToolTraffic(list)
      /\ EachAnswered(list) => CallsFollowed(ms, list, Len(list))
  BY AnthropicWhole
<1>2. PICK head \in {<< >>, << SystemText >>} : AnthropicBody(list, prompt) = head \o ms
  BY DEF AnthropicBody
<1> HIDE DEF ms
<1>3. Ordered(head \o ms, list)
  BY <1>1, HeadOrdered
<1>4. Traffic(Blocks(head \o ms)) = ToolTraffic(list)
  BY <1>1, HeadTraffic
<1> QED
  BY <1>2, <1>3, <1>4

-----------------------------------------------------------------------------
(* Who blames the stream: the accumulators. *)

(* An accumulator blames the stream ("json" of emit_error).  What is quiet *)
(* emits no error; what is honest does not start to blame the stream.      *)
Json(a) == a.error /\ Last(a.out).reason = "json"
Quiet(a, b) == b.error => a.error /\ b.out = a.out
Honest(a, b) == Json(b) => Json(a)

\* What is quiet is honest, and both carry over from step to step.
LEMMA QuietHonest ==
  ASSUME NEW a, NEW b, NEW c
  PROVE  /\ Quiet(a, a) /\ (Quiet(a, b) => Honest(a, b))
         /\ (Quiet(a, b) /\ Quiet(b, c) => Quiet(a, c))
         /\ (Honest(a, b) /\ Honest(b, c) => Honest(a, c))
BY DEF Quiet, Honest, Json

\* What sets other fields is quiet.
LEMMA QuietSets ==
  ASSUME NEW a, AccumInv(a), NEW v, NEW w
  PROVE  /\ Quiet(a, [a EXCEPT !.usage = v]) /\ Quiet(a, [a EXCEPT !.reason = v])
         /\ Quiet(a, [a EXCEPT !.inTool = v]) /\ Quiet(a, [a EXCEPT !.counter = v])
         /\ Quiet(a, [a EXCEPT !.calls = v])
BY DEF AccumInv, AccumFields, Quiet

\* emit is.
LEMMA QuietEmit ==
  ASSUME NEW a, AccumInv(a), NEW e
  PROVE  Quiet(a, Emit(a, e))
BY DEF AccumInv, AccumFields, Quiet, Emit, Over

\* emit_error with another code does not blame the stream.
LEMMA HonestOther ==
  ASSUME NEW a, AccumInv(a), NEW code, code # "json"
  PROVE  Honest(a, EmitError(a, code))
<1>1. CASE Over(a)
  BY <1>1 DEF EmitError, Honest
<1>2. CASE ~Over(a)
  <2> DEFINE o == Append(a.out, Error(code))
             b == [[a EXCEPT !.out = o] EXCEPT !.error = TRUE]
  <2>1. EmitError(a, code) = b
    BY <1>2 DEF EmitError, Emit
  <2>2. b.out = o
    BY DEF AccumInv, AccumFields
  <2>3. Last(o) = Error(code)
    <3>1. IsList(a.out)
      BY DEF AccumInv
    <3> QED
      BY <3>1, AppendList DEF Last
  <2>4. Error(code).reason = code
    BY DEF Error, ModelEvent
  <2> HIDE DEF b, o
  <2> QED
    BY <2>1, <2>2, <2>3, <2>4 DEF Honest, Json
<1> QED
  BY <1>1, <1>2

\* And so are emit_done, emit_usage and the end of the open calls.
LEMMA QuietDone ==
  ASSUME NEW a, AccumInv(a)
  PROVE  Quiet(a, EmitDone(a)) /\ Quiet(a, EmitUsage(a)) /\ Quiet(a, EndCalls(a))
<1>1. Quiet(a, EmitDone(a))
  BY DEF AccumInv, AccumFields, Quiet, Emit, Over, EmitDone
<1>2. Quiet(a, EmitUsage(a))
  <2>1. AccumInv(Emit(a, UsageEvent))
    BY EmitKeeps, Terminals
  <2>2. Quiet(a, Emit(a, UsageEvent))
    BY QuietEmit
  <2>3. Quiet(Emit(a, UsageEvent), EmitUsage(a))
    BY <2>1, QuietSets DEF EmitUsage
  <2> QED
    BY <2>2, <2>3, QuietHonest
<1>3. Quiet(a, EndCalls(a))
  <2> DEFINE t == [k \in DOMAIN a.calls |-> ToolEnd(a.calls[k].index)]
  <2>1. EndCalls(a) = a \/ (~Over(a) /\ EndCalls(a) = [a EXCEPT !.out = a.out \o t])
    BY DEF EndCalls
  <2> HIDE DEF t
  <2> QED
    BY <2>1 DEF AccumInv, AccumFields, Quiet, Over
<1> QED
  BY <1>1, <1>2, <1>3

\* And what makes or changes the state of a call.
LEMMA QuietCalls ==
  ASSUME NEW a, AccumInv(a), NEW index, NEW c
  PROVE  Quiet(a, EnsureCall(a, index)) /\ Quiet(a, SetCall(a, index, c))
<1>1. Quiet(a, EnsureCall(a, index))
  <2>1. PICK s : s = [index |-> index, started |-> FALSE, id |-> 0, pending |-> << >>, sent |-> 0]
    OBVIOUS
  <2>2. EnsureCall(a, index) = a \/ EnsureCall(a, index) = [a EXCEPT !.calls = Append(a.calls, s)]
    BY <2>1, Zenon DEF EnsureCall
  <2>3. Quiet(a, a) /\ Quiet(a, [a EXCEPT !.calls = Append(a.calls, s)])
    BY QuietSets, QuietHonest, Zenon
  <2> QED
    BY <2>2, <2>3, Zenon
<1>2. Quiet(a, SetCall(a, index, c))
  BY DEF AccumInv, AccumFields, Quiet, SetCall
<1> QED
  BY <1>1, <1>2

\* accum_ensure_call makes the state below the limit.
LEMMA CallEnsured ==
  ASSUME NEW a, AccumInv(a), NEW index, ~(index >= MaxToolCalls)
  PROVE  HasCall(EnsureCall(a, index), index)
<1>1. CASE HasCall(a, index)
  BY <1>1 DEF EnsureCall
<1>2. CASE ~HasCall(a, index)
  <2> DEFINE s == [index |-> index, started |-> FALSE, id |-> 0, pending |-> << >>, sent |-> 0]
             v == Append(a.calls, s)
             b == [a EXCEPT !.calls = v]
  <2>1. EnsureCall(a, index) = b
    BY <1>2 DEF EnsureCall
  <2>2. s.index = index
    OBVIOUS
  <2> HIDE DEF s
  <2>3. IsList(a.calls)
    BY DEF AccumInv
  <2>4. DOMAIN v = 1 .. Len(a.calls) + 1 /\ Len(a.calls) \in Nat /\ v[Len(a.calls) + 1] = s
    BY <2>3, AppendList
  <2>5. b.calls = v
    BY DEF AccumInv, AccumFields
  <2> HIDE DEF b, v
  <2>6. Len(a.calls) + 1 \in Position(b, index)
    BY <2>2, <2>4, <2>5 DEF Position
  <2> QED
    BY <2>1, <2>6 DEF HasCall
<1> QED
  BY <1>1, <1>2

\* A piece of a call, of openai.c.
LEMMA QuietFragment ==
  ASSUME NEW a, AccumInv(a), NEW e
  PROVE  Quiet(a, Fragment(a, e))
<1> DEFINE b == EnsureCall(a, e.index)
           c == CallState(b, e.index)
           d == [c EXCEPT !.started = TRUE]
           m == Emit(b, ToolStart(e.index, e.id))
           t == SetCall(m, e.index, d)
           s == IF c.started THEN b ELSE t
<1>1. AccumInv(b) /\ Quiet(a, b)
  BY CallsKeep, QuietCalls
<1> HIDE DEF b, c, d
<1>2. AccumInv(m) /\ Quiet(b, m)
  BY <1>1, EmitsKeep, QuietEmit
<1> HIDE DEF m
<1>3. AccumInv(t) /\ Quiet(m, t)
  BY <1>2, CallsKeep, QuietCalls
<1> HIDE DEF t
<1>4. AccumInv(s) /\ Quiet(a, s)
  BY <1>1, <1>2, <1>3, QuietHonest, Zenon
<1> HIDE DEF s
<1>5. Quiet(a, Emit(s, ToolDelta(e.index, e.args)))
  BY <1>4, QuietEmit, QuietHonest, Zenon
<1>6. Fragment(a, e) \in {a, s, Emit(s, ToolDelta(e.index, e.args))}
  BY Zenon DEF Fragment, s, b, c, d, m, t
<1>7. Quiet(a, a)
  BY QuietHonest
<1> QED
  BY <1>4, <1>5, <1>6, <1>7

\* handle_chunk of openai.c blames only what is malformed.
LEMMA OpenaiHonest ==
  ASSUME NEW a, AccumInv(a), NEW e, e.kind # "malformed"
  PROVE  Honest(a, OpenaiChunk(a, e)) /\ Honest(a, OpenaiDone(a))
<1> DEFINE counted == IF e.usage THEN EmitUsage(a) ELSE a
           r == FinishReason(e.reason)
           ended == IF e.reason = "" THEN counted ELSE [counted EXCEPT !.reason = r]
<1>1. AccumInv(counted) /\ Quiet(a, counted)
  BY UsageKeeps, QuietDone, QuietHonest
<1> HIDE DEF counted, r
<1>2. AccumInv([counted EXCEPT !.reason = r]) /\ Quiet(counted, [counted EXCEPT !.reason = r])
  BY <1>1, AccumSets, QuietSets
<1>3. AccumInv(ended) /\ Quiet(a, ended)
  BY <1>1, <1>2, QuietHonest, Zenon
<1> HIDE DEF ended
<1>4. Quiet(ended, Emit(ended, TextDelta)) /\ Quiet(ended, Fragment(ended, e))
  BY <1>3, QuietEmit, QuietFragment
<1>5. \/ OpenaiChunk(a, e) = Emit(ended, TextDelta)
      \/ OpenaiChunk(a, e) = Fragment(ended, e) \/ OpenaiChunk(a, e) = ended
  BY Zenon DEF OpenaiChunk, ended, counted, r
<1>6. Quiet(a, OpenaiChunk(a, e))
  <2>1. Quiet(a, Emit(ended, TextDelta)) /\ Quiet(a, Fragment(ended, e))
    BY <1>3, <1>4, QuietHonest, Zenon
  <2> QED
    BY <1>3, <1>5, <2>1, Zenon
<1>7. AccumInv(EndCalls(a)) /\ Quiet(a, EndCalls(a))
  BY EndsKeep, QuietDone
<1>8. Quiet(EndCalls(a), OpenaiDone(a))
  BY <1>7, QuietDone DEF OpenaiDone
<1> QED
  BY <1>6, <1>7, <1>8, QuietHonest, Zenon

\* The end of a content block, and of a message.
LEMMA QuietStop ==
  ASSUME NEW a, AccumInv(a)
  PROVE  Quiet(a, EndBlock(a)) /\ Quiet(a, MessageStop(a)) /\ Quiet(a, AnthropicDone(a))
<1>1. ASSUME NEW b, AccumInv(b) PROVE Quiet(b, EndBlock(b))
  <2> DEFINE m == Emit(b, ToolEnd(CurrentTool(b)))
  <2>1. AccumInv(m) /\ Quiet(b, m)
    BY <1>1, EmitsKeep, QuietEmit
  <2>2. EndBlock(b) = b \/ EndBlock(b) = [m EXCEPT !.inTool = FALSE]
    BY DEF EndBlock
  <2> HIDE DEF m
  <2>3. Quiet(m, [m EXCEPT !.inTool = FALSE])
    BY <2>1, QuietSets
  <2>4. Quiet(b, [m EXCEPT !.inTool = FALSE]) /\ Quiet(b, b)
    BY <2>1, <2>3, QuietHonest, Zenon
  <2> QED
    BY <2>2, <2>4, Zenon
<1>2. ASSUME NEW b, AccumInv(b) PROVE Quiet(b, MessageStop(b))
  <2>1. AccumInv(EmitUsage(b)) /\ Quiet(b, EmitUsage(b))
    BY <1>2, UsageKeeps, QuietDone
  <2>2. Quiet(EmitUsage(b), MessageStop(b))
    BY <2>1, QuietDone DEF MessageStop
  <2> QED
    BY <2>1, <2>2, QuietHonest, Zenon
<1>3. AccumInv(EndBlock(a))
  BY EndBlockKeeps
<1>4. Quiet(EndBlock(a), AnthropicDone(a))
  BY <1>2, <1>3 DEF AnthropicDone
<1> QED
  BY <1>1, <1>2, <1>4, QuietHonest, Zenon

\* handle_event of anthropic.c.
LEMMA AnthropicHonest ==
  ASSUME NEW a, AccumInv(a), NEW e, e.kind # "malformed"
  PROVE  Honest(a, AnthropicEvent(a, e)) /\ Honest(a, AnthropicDone(a))
<1>1. Honest(a, EmitError(a, "model"))
  BY HonestOther
<1>2. Quiet(a, [a EXCEPT !.usage = TRUE])
  BY QuietSets
<1>3. Quiet(a, BlockStart(a, e))
  <2> DEFINE b == EnsureCall(a, a.counter)
             s == Emit(b, ToolStart(a.counter, e.id))
             t == [s EXCEPT !.inTool = TRUE]
  <2>1. AccumInv(b) /\ Quiet(a, b)
    BY CallsKeep, QuietCalls
  <2> HIDE DEF b
  <2>2. AccumInv(s) /\ Quiet(b, s)
    BY <2>1, EmitsKeep, QuietEmit
  <2> HIDE DEF s
  <2>3. AccumInv(t) /\ Quiet(s, t)
    BY <2>2, AccumSets, QuietSets
  <2>4. Quiet(t, [t EXCEPT !.counter = s.counter + 1])
    <3> HIDE DEF t
    <3> QED
      BY <2>3, QuietSets
  <2>5. [s EXCEPT !.inTool = TRUE, !.counter = @ + 1] = [t EXCEPT !.counter = s.counter + 1]
    OBVIOUS
  <2>6. Quiet(a, [a EXCEPT !.inTool = FALSE])
    BY QuietSets
  <2>7. \/ BlockStart(a, e) = [a EXCEPT !.inTool = FALSE]
        \/ BlockStart(a, e) = [s EXCEPT !.inTool = TRUE, !.counter = @ + 1]
    BY Zenon DEF BlockStart, s, b
  <2>8. Quiet(a, [t EXCEPT !.counter = s.counter + 1])
    <3> HIDE DEF t
    <3> QED
      BY <2>1, <2>2, <2>3, <2>4, QuietHonest, Zenon
  <2> HIDE DEF t
  <2> QED
    BY <2>5, <2>6, <2>7, <2>8, Zenon
<1>4. Quiet(a, Emit(a, TextDelta)) /\ Quiet(a, Emit(a, ToolDelta(CurrentTool(a), e.args)))
  BY QuietEmit
<1>5. Quiet(a, BlockDelta(a, e)) /\ Quiet(a, a)
  BY <1>4, QuietHonest DEF BlockDelta
<1>6. Quiet(a, EndBlock(a)) /\ Quiet(a, MessageStop(a)) /\ Quiet(a, AnthropicDone(a))
  BY QuietStop
<1> DEFINE r == StopReason(e.reason)
<1> HIDE DEF r
<1>7. Quiet(a, [a EXCEPT !.reason = r])
  BY QuietSets
<1>8. \/ AnthropicEvent(a, e) = EmitError(a, "model")
      \/ AnthropicEvent(a, e) = [a EXCEPT !.usage = TRUE]
      \/ AnthropicEvent(a, e) = BlockStart(a, e) \/ AnthropicEvent(a, e) = Emit(a, TextDelta)
      \/ AnthropicEvent(a, e) = BlockDelta(a, e) \/ AnthropicEvent(a, e) = EndBlock(a)
      \/ AnthropicEvent(a, e) = [a EXCEPT !.reason = r] \/ AnthropicEvent(a, e) = MessageStop(a)
      \/ AnthropicEvent(a, e) = a
  BY Zenon DEF AnthropicEvent, r
<1>9. Honest(a, AnthropicEvent(a, e)) \/ Quiet(a, AnthropicEvent(a, e))
  BY <1>1, <1>2, <1>3, <1>4, <1>5, <1>6, <1>7, <1>8, Zenon
<1> QED
  BY <1>6, <1>9, QuietHonest, Zenon

\* Calls of a Responses stream: started, filled at once or piece by piece.
LEMMA QuietStart ==
  ASSUME NEW a, AccumInv(a), NEW index
  PROVE  Quiet(a, CallStart(a, index))
<1> DEFINE c == CallState(a, index)
           s == Emit(a, ToolStart(index, c.id))
           d == IF c.pending = << >> THEN s ELSE Emit(s, ToolDelta(index, c.pending))
           n == [c EXCEPT !.started = TRUE, !.pending = << >>, !.sent = @ + Len(c.pending)]
<1> HIDE DEF c, n
<1>1. AccumInv(s) /\ Quiet(a, s)
  BY EmitsKeep, QuietEmit
<1> HIDE DEF s
<1>2. AccumInv(Emit(s, ToolDelta(index, c.pending))) /\ Quiet(s, Emit(s, ToolDelta(index, c.pending)))
  BY <1>1, EmitsKeep, QuietEmit
<1>3. AccumInv(d) /\ Quiet(a, d)
  BY <1>1, <1>2, QuietHonest, Zenon
<1> HIDE DEF d
<1>4. Quiet(d, SetCall(d, index, n))
  BY <1>3, QuietCalls
<1>5. CallStart(a, index) = a \/ CallStart(a, index) = SetCall(d, index, n)
  BY Zenon DEF CallStart, d, s, c, n
<1>6. Quiet(a, SetCall(d, index, n)) /\ Quiet(a, a)
  BY <1>3, <1>4, QuietHonest, Zenon
<1> QED
  BY <1>5, <1>6, Zenon

\* The whole arguments of a call.
LEMMA QuietFull ==
  ASSUME NEW a, AccumInv(a), NEW index, NEW args
  PROVE  Quiet(a, FullArgs(a, index, args))
<1> DEFINE c == CallState(a, index)
           n == [c EXCEPT !.sent = Len(args)]
           k == [c EXCEPT !.pending = args]
           m == Emit(a, ToolDelta(index, args))
<1> HIDE DEF c, n, k
<1>1. AccumInv(m) /\ Quiet(a, m)
  BY EmitsKeep, QuietEmit
<1> HIDE DEF m
<1>2. Quiet(m, SetCall(m, index, n)) /\ Quiet(a, SetCall(a, index, k))
  BY <1>1, QuietCalls
<1>3. \/ FullArgs(a, index, args) = a \/ FullArgs(a, index, args) = SetCall(m, index, n)
      \/ FullArgs(a, index, args) = SetCall(a, index, k)
  BY Zenon DEF FullArgs, c, n, m, k
<1>4. Quiet(a, SetCall(m, index, n)) /\ Quiet(a, a)
  BY <1>1, <1>2, QuietHonest, Zenon
<1> QED
  BY <1>2, <1>3, <1>4, Zenon

\* handle_output_item and the two events of arguments.
LEMMA QuietItem ==
  ASSUME NEW a, AccumInv(a), NEW e
  PROVE  Quiet(a, OutputItem(a, e)) /\ Quiet(a, ArgsDelta(a, e)) /\ Quiet(a, ArgsDone(a, e))
<1>1. Quiet(a, OutputItem(a, e))
  <2> DEFINE known == SetCall(a, e.index, WithId(CallState(a, e.index), e.id))
             full == FullArgs(known, e.index, e.args)
  <2>1. AccumInv(known) /\ Quiet(a, known)
    BY CallsKeep, QuietCalls
  <2> HIDE DEF known
  <2>2. AccumInv(full) /\ Quiet(known, full)
    BY <2>1, FullArgsKeeps, QuietFull
  <2> HIDE DEF full
  <2>3. Quiet(full, CallStart(full, e.index))
    BY <2>2, QuietStart
  <2>4. OutputItem(a, e) = CallStart(full, e.index)
    BY Zenon DEF OutputItem, full, known
  <2> QED
    BY <2>1, <2>2, <2>3, <2>4, QuietHonest, Zenon
<1>2. Quiet(a, ArgsDelta(a, e))
  <2> DEFINE c == CallState(a, e.index)
             n == [c EXCEPT !.sent = @ + Len(e.args)]
             k == [c EXCEPT !.pending = @ \o e.args]
             m == Emit(a, ToolDelta(e.index, e.args))
  <2> HIDE DEF c, n, k
  <2>1. AccumInv(m) /\ Quiet(a, m)
    BY EmitsKeep, QuietEmit
  <2> HIDE DEF m
  <2>2. Quiet(m, SetCall(m, e.index, n)) /\ Quiet(a, SetCall(a, e.index, k))
    BY <2>1, QuietCalls
  <2>3. ArgsDelta(a, e) = SetCall(m, e.index, n) \/ ArgsDelta(a, e) = SetCall(a, e.index, k)
    BY Zenon DEF ArgsDelta, c, n, m, k
  <2>4. Quiet(a, SetCall(m, e.index, n))
    BY <2>1, <2>2, QuietHonest, Zenon
  <2> QED
    BY <2>2, <2>3, <2>4, Zenon
<1>3. Quiet(a, ArgsDone(a, e))
  <2> DEFINE f == FullArgs(a, e.index, e.args)
             s == CallStart(f, e.index)
  <2>1. AccumInv(f) /\ Quiet(a, f)
    BY FullArgsKeeps, QuietFull
  <2> HIDE DEF f
  <2>2. AccumInv(s) /\ Quiet(f, s)
    BY <2>1, CallStartKeeps, QuietStart
  <2> HIDE DEF s
  <2>3. Quiet(s, FullArgs(s, e.index, e.args))
    BY <2>2, QuietFull
  <2>4. ArgsDone(a, e) = FullArgs(s, e.index, e.args)
    BY Zenon DEF ArgsDone, s, f
  <2> QED
    BY <2>1, <2>2, <2>3, <2>4, QuietHonest, Zenon
<1> QED
  BY <1>1, <1>2, <1>3

\* finish_stream.
LEMMA FinishHonest ==
  ASSUME NEW a, AccumInv(a), NEW reason
  PROVE  Honest(a, FinishStream(a, reason))
<1> DEFINE r == IF reason = "complete" /\ a.calls # << >> THEN "tool_calls" ELSE reason
           b == [EndCalls(a) EXCEPT !.reason = r]
<1> HIDE DEF r
<1>1. AccumInv(EndCalls(a)) /\ Quiet(a, EndCalls(a))
  BY EndsKeep, QuietDone
<1>2. AccumInv(b) /\ Quiet(EndCalls(a), b)
  BY <1>1, AccumSets, QuietSets
<1> HIDE DEF b
<1>3. Quiet(b, EmitDone(b))
  BY <1>2, QuietDone
<1>4. Honest(a, EmitError(a, "model"))
  BY HonestOther
<1>5. \/ FinishStream(a, reason) = a
      \/ FinishStream(a, reason) = EmitError(a, "model") \/ FinishStream(a, reason) = EmitDone(b)
  BY Zenon DEF FinishStream, b, r
<1>6. Honest(a, EmitDone(b)) /\ Honest(a, a)
  BY <1>1, <1>2, <1>3, QuietHonest, Zenon
<1> QED
  BY <1>4, <1>5, <1>6, Zenon

\* handle_event of responses.c, except of a call past the limit.
LEMMA ResponsesHonest ==
  ASSUME NEW a, AccumInv(a), NEW e, e.kind # "malformed",
         e.kind \in {"item", "args_delta", "args_done"} => ~(e.index >= MaxToolCalls)
  PROVE  Honest(a, ResponsesEvent(a, e)) /\ Honest(a, ResponsesDone(a))
<1> DEFINE b == EnsureCall(a, e.index)
           u == ResponsesUsage(a, e)
           r == IncompleteReason(e.reason)
<1>1. AccumInv(b) /\ Quiet(a, b)
  BY CallsKeep, QuietCalls
<1>2. AccumInv(u) /\ Quiet(a, u)
  <2>1. Quiet(a, EmitUsage(a)) /\ Quiet(a, a)
    BY QuietDone, QuietHonest
  <2> QED
    BY <2>1, ResponsesUsageKeeps DEF ResponsesUsage
<1>3. ~(e.index >= MaxToolCalls) => HasCall(b, e.index)
  BY CallEnsured
<1>4. Honest(a, EmitError(a, "model")) /\ Quiet(a, Emit(a, TextDelta)) /\ Quiet(a, a)
  BY HonestOther, QuietEmit, QuietHonest
<1>5. \/ ResponsesEvent(a, e) = EmitError(a, "model")
      \/ ResponsesEvent(a, e) = Emit(a, TextDelta) \/ ResponsesEvent(a, e) = OutputItem(b, e)
      \/ ResponsesEvent(a, e) = ArgsDelta(b, e) \/ ResponsesEvent(a, e) = ArgsDone(b, e)
      \/ ResponsesEvent(a, e) = u \/ ResponsesEvent(a, e) = FinishStream(u, "complete")
      \/ ResponsesEvent(a, e) = FinishStream(u, r) \/ ResponsesEvent(a, e) = a
  <2> HIDE DEF u, r
  <2>1. CASE e.kind \in {"item", "args_delta", "args_done"}
    <3>1. HasCall(b, e.index)
      BY <1>3, <2>1
    <3> QED
      BY <2>1, <3>1, Zenon DEF ResponsesEvent, b
  <2>2. CASE e.kind \notin {"item", "args_delta", "args_done"}
    BY <2>2, Zenon DEF ResponsesEvent, u, r
  <2> QED
    BY <2>1, <2>2
<1> HIDE DEF b, u, r
<1>6. /\ Quiet(b, OutputItem(b, e)) /\ Quiet(b, ArgsDelta(b, e)) /\ Quiet(b, ArgsDone(b, e))
  BY <1>1, QuietItem
<1>7. Honest(u, FinishStream(u, "complete")) /\ Honest(u, FinishStream(u, r))
  BY <1>2, FinishHonest
<1>8. /\ Honest(a, OutputItem(b, e)) /\ Honest(a, ArgsDelta(b, e)) /\ Honest(a, ArgsDone(b, e))
      /\ Honest(a, FinishStream(u, "complete")) /\ Honest(a, FinishStream(u, r))
      /\ Honest(a, u) /\ Honest(a, a) /\ Honest(a, Emit(a, TextDelta))
  BY <1>1, <1>2, <1>4, <1>6, <1>7, QuietHonest, Zenon
<1>9. Honest(a, ResponsesDone(a))
  BY FinishHonest DEF ResponsesDone
<1> QED
  BY <1>4, <1>5, <1>8, <1>9, Zenon

\* A clean end of the transfer blames the transfer.
LEMMA ClosedHonest ==
  ASSUME NEW a, AccumInv(a)
  PROVE  Honest(a, OpenaiClosed(a)) /\ Honest(a, AnthropicClosed(a)) /\ Honest(a, ResponsesClosed(a))
<1>1. Honest(a, EmitError(a, "http"))
  BY HonestOther
<1>2. Honest(a, OpenaiDone(a))
  <2>1. Texts.kind # "malformed"
    BY DEF Texts, Say0
  <2> QED
    BY <2>1, OpenaiHonest
<1>3. Honest(a, AnthropicDone(a))
  BY QuietStop, QuietHonest, Zenon
<1>4. Honest(a, ResponsesDone(a))
  BY FinishHonest DEF ResponsesDone
<1> QED
  BY <1>1, <1>2, <1>3, <1>4 DEF OpenaiClosed, AnthropicClosed, ResponsesClosed

-----------------------------------------------------------------------------
(* Reads put together. *)

\* sse_parser_feed of two reads is that of both at once.
LEMMA FeedConcat ==
  ASSUME NEW p, NEW s, IsList(s), NEW t, IsList(t)
  PROVE  Feed(p, s \o t) = Feed(Feed(p, s), t)
<1> DEFINE w == s \o t
           n == Len(s)
           m == Len(t)
           mid == Feed(p, s)
<1>1. /\ IsList(w) /\ n \in Nat /\ m \in Nat /\ Len(w) = n + m
      /\ \A i \in 1 .. n : w[i] = s[i]
      /\ \A i \in 1 .. m : w[n + i] = t[i]
  BY ConcatList
<1> HIDE DEF w, mid
<1>2. PICK f : /\ f[0] = p /\ Feed(p, w) = f[Len(w)]
               /\ \A k \in 1 .. Len(w) : f[k] = FeedByte(f[k - 1], w[k])
  BY <1>1, ParserRuns
<1>3. PICK g : /\ g[0] = p /\ mid = g[n]
               /\ \A k \in 1 .. n : g[k] = FeedByte(g[k - 1], s[k])
  BY ParserRuns DEF mid
<1>4. PICK h : /\ h[0] = mid /\ Feed(mid, t) = h[m]
               /\ \A k \in 1 .. m : h[k] = FeedByte(h[k - 1], t[k])
  BY ParserRuns
<1> HIDE DEF n, m
<1> DEFINE G == {k \in 0 .. n : f[k] = g[k]}
<1>5. 0 \in G /\ \A k \in 1 .. n : k - 1 \in G => k \in G
  <2>1. 0 \in G
    BY <1>1, <1>2, <1>3
  <2>2. ASSUME NEW k \in 1 .. n, k - 1 \in G PROVE k \in G
    <3>1. k \in 1 .. Len(w) /\ w[k] = s[k] /\ k \in 0 .. n
      BY <1>1
    <3>2. f[k] = FeedByte(f[k - 1], w[k]) /\ g[k] = FeedByte(g[k - 1], s[k]) /\ f[k - 1] = g[k - 1]
      BY <1>2, <1>3, <2>2, <3>1
    <3> QED
      BY <3>1, <3>2
  <2> QED
    BY <2>1, <2>2
<1>6. n \in G
  <2> HIDE DEF G
  <2>1. \A k \in 0 .. n : k \in G
    BY <1>1, <1>5, CountUp
  <2> QED
    BY <1>1, <2>1
<1> DEFINE H == {k \in 0 .. m : f[n + k] = h[k]}
<1>7. 0 \in H /\ \A k \in 1 .. m : k - 1 \in H => k \in H
  <2>1. 0 \in H
    BY <1>1, <1>3, <1>4, <1>6
  <2>2. ASSUME NEW k \in 1 .. m, k - 1 \in H PROVE k \in H
    <3>1. n + k \in 1 .. Len(w) /\ w[n + k] = t[k] /\ k \in 0 .. m /\ (n + k) - 1 = n + (k - 1)
      BY <1>1
    <3>2. /\ f[n + k] = FeedByte(f[(n + k) - 1], w[n + k])
          /\ h[k] = FeedByte(h[k - 1], t[k]) /\ f[n + (k - 1)] = h[k - 1]
      BY <1>2, <1>4, <2>2, <3>1
    <3> QED
      BY <3>1, <3>2
  <2> QED
    BY <2>1, <2>2
<1>8. m \in H
  <2> HIDE DEF H
  <2>1. \A k \in 0 .. m : k \in H
    BY <1>1, <1>7, CountUp
  <2> QED
    BY <1>1, <2>1
<1>9. Feed(p, w) = Feed(mid, t)
  BY <1>1, <1>2, <1>4, <1>8
<1> QED
  BY <1>9 DEF w, mid

\* A read of nothing.
LEMMA FeedNothing ==
  ASSUME NEW p
  PROVE  Feed(p, << >>) = p
<1>1. IsList(<< >>) /\ Len(<< >>) = 0
  <2>1. << >> \in Seq(Elements(<< >>))
    OBVIOUS
  <2> QED
    BY <2>1 DEF IsList
<1> QED
  BY <1>1, ParserRuns

(* What the parser has emitted grows, and nothing else depends on it: two *)
(* parsers that differ by what was emitted before differ by it afterwards. *)
ParserFields == {"pending", "data", "have", "done", "emitted"}
Behind(p, q, X) ==
  /\ DOMAIN p = ParserFields /\ DOMAIN q = ParserFields
  /\ p.pending = q.pending /\ p.data = q.data /\ p.have = q.have /\ p.done = q.done
  /\ IsList(p.emitted) /\ IsList(q.emitted)
  /\ Elements(q.emitted) = Elements(p.emitted) \cup X

\* What a list with one more element holds.
LEMMA ElementsAppend ==
  ASSUME NEW s, IsList(s), NEW e
  PROVE  Elements(Append(s, e)) = Elements(s) \cup {e} /\ IsList(Append(s, e))
<1> DEFINE t == Append(s, e)
<1>1. /\ IsList(t) /\ Len(s) \in Nat /\ Len(t) = Len(s) + 1
      /\ DOMAIN s = 1 .. Len(s) /\ DOMAIN t = 1 .. Len(t)
      /\ \A i \in 1 .. Len(s) : t[i] = s[i]
      /\ t[Len(s) + 1] = e
  BY AppendList
<1> HIDE DEF t
<1>2. Elements(t) = Elements(s) \cup {e}
  BY <1>1 DEF Elements
<1> QED
  BY <1>1, <1>2 DEF t

\* sse_flush_event keeps the difference.
LEMMA FlushBehind ==
  ASSUME NEW p, NEW q, NEW X, Behind(p, q, X)
  PROVE  Behind(FlushEvent(p), FlushEvent(q), X)
<1>1. CASE p.have
  <2> DEFINE v == Payload(p.data)
             s == Append(p.emitted, v)
             t == Append(q.emitted, v)
  <2>1. /\ Elements(s) = Elements(p.emitted) \cup {v} /\ IsList(s)
        /\ Elements(t) = Elements(q.emitted) \cup {v} /\ IsList(t)
    BY ElementsAppend DEF Behind
  <2>2. /\ FlushEvent(p) = [p EXCEPT !.emitted = s, !.data = << >>, !.have = FALSE]
        /\ FlushEvent(q) = [q EXCEPT !.emitted = t, !.data = << >>, !.have = FALSE]
    BY <1>1 DEF FlushEvent, Behind
  <2> HIDE DEF v, s, t
  <2> QED
    BY <2>1, <2>2 DEF Behind, ParserFields
<1>2. CASE ~p.have
  BY <1>2 DEF FlushEvent, Behind
<1> QED
  BY <1>1, <1>2

\* And so does a byte of sse_parser_feed.
LEMMA ByteBehind ==
  ASSUME NEW p, NEW q, NEW X, Behind(p, q, X), NEW byte
  PROVE  Behind(FeedByte(p, byte), FeedByte(q, byte), X)
<1>1. p.pending = q.pending /\ p.data = q.data /\ p.have = q.have /\ p.done = q.done
  BY DEF Behind
<1>2. CASE p.done
  BY <1>1, <1>2 DEF FeedByte
<1>3. CASE ~p.done /\ byte # LineEnd
  <2> DEFINE v == Append(p.pending, byte)
  <2>1. FeedByte(p, byte) = [p EXCEPT !.pending = v] /\ FeedByte(q, byte) = [q EXCEPT !.pending = v]
    BY <1>1, <1>3 DEF FeedByte
  <2> HIDE DEF v
  <2> QED
    BY <2>1 DEF Behind, ParserFields
<1>4. CASE ~p.done /\ byte = LineEnd
  <2> DEFINE raw == p.pending
             line == StripReturn(raw)
             P == ProcessLine(p, raw)
             Q == ProcessLine(q, raw)
  <2>1. Behind(P, Q, X)
    <3> HIDE DEF raw, line
    <3>1. CASE line = << >>
      <4>1. P = FlushEvent(p) /\ Q = FlushEvent(q)
        BY <3>1 DEF ProcessLine, line
      <4> QED
        BY <4>1, FlushBehind
    <3>2. CASE line # << >> /\ Head(line) # DataMark
      <4>1. P = p /\ Q = q
        BY <3>2 DEF ProcessLine, line
      <4> QED
        BY <4>1
    <3>3. CASE line # << >> /\ Head(line) = DataMark /\ (~p.have /\ Tail(line) = << DoneMark >>)
      <4> DEFINE s == Append(p.emitted, StreamDone)
                 t == Append(q.emitted, StreamDone)
      <4>1. P = [p EXCEPT !.done = TRUE, !.emitted = s] /\ Q = [q EXCEPT !.done = TRUE, !.emitted = t]
        BY <1>1, <3>3 DEF ProcessLine, line
      <4>2. /\ Elements(s) = Elements(p.emitted) \cup {StreamDone} /\ IsList(s)
            /\ Elements(t) = Elements(q.emitted) \cup {StreamDone} /\ IsList(t)
        BY ElementsAppend DEF Behind
      <4> HIDE DEF s, t, P, Q
      <4> QED
        BY <4>1, <4>2 DEF Behind, ParserFields
    <3>4. CASE line # << >> /\ Head(line) = DataMark /\ ~(~p.have /\ Tail(line) = << DoneMark >>)
      <4> DEFINE d == p.data \o Tail(line)
      <4>1. P = [p EXCEPT !.data = d, !.have = TRUE] /\ Q = [q EXCEPT !.data = d, !.have = TRUE]
        BY <1>1, <3>4 DEF ProcessLine, line
      <4> HIDE DEF d, P, Q
      <4> QED
        BY <4>1 DEF Behind, ParserFields
    <3> QED
      BY <3>1, <3>2, <3>3, <3>4
  <2>2. FeedByte(p, byte) = [P EXCEPT !.pending = << >>] /\ FeedByte(q, byte) = [Q EXCEPT !.pending = << >>]
    BY <1>1, <1>4 DEF FeedByte
  <2> HIDE DEF P, Q
  <2> QED
    BY <2>1, <2>2 DEF Behind, ParserFields
<1> QED
  BY <1>2, <1>3, <1>4

\* And a whole read.
LEMMA FeedBehind ==
  ASSUME NEW p, NEW q, NEW X, Behind(p, q, X), NEW s, IsList(s)
  PROVE  Behind(Feed(p, s), Feed(q, s), X)
<1> DEFINE n == Len(s)
<1>1. n \in Nat
  BY AppendList
<1>2. PICK f : /\ f[0] = p /\ Feed(p, s) = f[n]
               /\ \A k \in 1 .. n : f[k] = FeedByte(f[k - 1], s[k])
  BY ParserRuns
<1>3. PICK g : /\ g[0] = q /\ Feed(q, s) = g[n]
               /\ \A k \in 1 .. n : g[k] = FeedByte(g[k - 1], s[k])
  BY ParserRuns
<1> HIDE DEF n
<1> DEFINE G == {k \in 0 .. n : Behind(f[k], g[k], X)}
<1>4. 0 \in G /\ \A k \in 1 .. n : k - 1 \in G => k \in G
  <2>1. 0 \in G
    BY <1>1, <1>2, <1>3
  <2>2. ASSUME NEW k \in 1 .. n, k - 1 \in G PROVE k \in G
    <3>1. f[k] = FeedByte(f[k - 1], s[k]) /\ g[k] = FeedByte(g[k - 1], s[k]) /\ Behind(f[k - 1], g[k - 1], X)
      BY <1>2, <1>3, <2>2
    <3>2. Behind(f[k], g[k], X)
      BY <3>1, ByteBehind
    <3> QED
      BY <1>1, <3>2
  <2> QED
    BY <2>1, <2>2
<1>5. n \in G
  <2> HIDE DEF G
  <2>1. \A k \in 0 .. n : k \in G
    BY <1>1, <1>4, CountUp
  <2> QED
    BY <1>1, <2>1
<1> QED
  BY <1>2, <1>3, <1>5

-----------------------------------------------------------------------------
(* The bytes of an event. *)

\* The pieces of a stream are told apart.
LEMMA PieceFacts ==
  ASSUME NEW k
  PROVE  /\ Left(k) # LineEnd /\ Right(k) # LineEnd /\ DataMark # LineEnd /\ DoneMark # LineEnd
         /\ Return # LineEnd /\ Comment # LineEnd /\ Comment # DataMark /\ Comment # Return
         /\ Left(k) # Return /\ Right(k) # Return /\ DoneMark # Return /\ DataMark # Return
         /\ DoneMark # Left(k) /\ DoneMark # Right(k)
BY DEF Left, Right, LineEnd, DataMark, DoneMark, Return, Comment, Piece

\* sse_process_line drops a carriage return at the end of a line.
LEMMA StripFacts ==
  ASSUME NEW a, NEW b, NEW c, b # Return, c # Return
  PROVE  /\ StripReturn(<< >>) = << >> /\ StripReturn(<< Return >>) = << >>
         /\ StripReturn(<< b >>) = << b >>
         /\ StripReturn(<< a, b >>) = << a, b >>
         /\ StripReturn(<< a, b, c >>) = << a, b, c >>
         /\ StripReturn(<< a, b, c, Return >>) = << a, b, c >>
<1>1. StripReturn(<< >>) = << >>
  BY DEF StripReturn
<1>2. StripReturn(<< Return >>) = << >>
  <2>1. << Return >> # << >> /\ Last(<< Return >>) = Return
    BY DEF Last
  <2>2. Front(<< Return >>) = << >>
    BY DEF Front
  <2> QED
    BY <2>1, <2>2 DEF StripReturn
<1>3. StripReturn(<< b >>) = << b >>
  BY DEF StripReturn, Last
<1>4. StripReturn(<< a, b >>) = << a, b >>
  BY DEF StripReturn, Last
<1>5. StripReturn(<< a, b, c >>) = << a, b, c >>
  BY DEF StripReturn, Last
<1>6. StripReturn(<< a, b, c, Return >>) = << a, b, c >>
  <2> DEFINE s == << a, b, c, Return >>
  <2>1. s # << >> /\ Last(s) = Return
    BY DEF Last
  <2>2. Front(s) = << a, b, c >>
    <3> DEFINE t == << a, b, c >>
               S == {a, b, c, Return}
    <3>1. Front(s) = SubSeq(s, 1, 3) /\ s \in Seq(S) /\ Len(s) = 4
      BY DEF Front
    <3>2. t \in Seq(S) /\ Len(t) = 3 /\ \A i \in 1 .. 3 : t[i] = s[i]
      OBVIOUS
    <3> HIDE DEF s, t, S
    <3>3. SubSeq(s, 1, 3) \in Seq(S) /\ Len(SubSeq(s, 1, 3)) = 3
          /\ \A i \in 1 .. 3 : SubSeq(s, 1, 3)[i] = s[i]
      BY <3>1
    <3>4. SubSeq(s, 1, 3) = t
      BY <3>2, <3>3, SeqEqual
    <3> QED
      BY <3>1, <3>4 DEF t
  <2> QED
    BY <2>1, <2>2 DEF StripReturn
<1> QED
  BY <1>1, <1>2, <1>3, <1>4, <1>5, <1>6

\* Of an empty line nothing is left, with or without a carriage return.
LEMMA StripEmpty == StripReturn(<< >>) = << >> /\ StripReturn(<< Return >>) = << >>
BY PieceFacts, StripFacts

\* What a parser looks like in the middle of a stream.
Looks(p, pending, data, have, emitted) ==
  /\ DOMAIN p = ParserFields /\ ~p.done /\ p.pending = pending /\ p.data = data
  /\ p.have <=> have
  /\ p.emitted = emitted

\* A byte that ends no line is kept in the pending one.
LEMMA LooksByte ==
  ASSUME NEW p, NEW pe, NEW d, NEW h, NEW em, Looks(p, pe, d, h, em), NEW byte, byte # LineEnd
  PROVE  Looks(FeedByte(p, byte), Append(pe, byte), d, h, em)
<1> DEFINE v == Append(p.pending, byte)
<1>1. FeedByte(p, byte) = [p EXCEPT !.pending = v]
  BY DEF FeedByte, Looks
<1>2. v = Append(pe, byte)
  BY DEF Looks
<1> HIDE DEF v
<1> QED
  BY <1>1, <1>2 DEF Looks, ParserFields

\* A line that is complete: a comment, nothing, data or the mark of the end.
AfterLine(r, line, d, h, em) ==
  /\ line = << >> /\ ~h => Looks(r, << >>, d, h, em)
  /\ line = << >> /\ h => Looks(r, << >>, << >>, FALSE, Append(em, Payload(d)))
  /\ line # << >> /\ Head(line) # DataMark => Looks(r, << >>, d, h, em)
  /\ line # << >> /\ Head(line) = DataMark /\ Tail(line) # << DoneMark >> =>
       Looks(r, << >>, d \o Tail(line), TRUE, em)
  /\ line # << >> /\ Head(line) = DataMark /\ Tail(line) = << DoneMark >> /\ ~h =>
       r.done /\ r.emitted = Append(em, StreamDone)

\* A line end hands the pending line to sse_process_line.
LEMMA LooksLine ==
  ASSUME NEW p, NEW pe, NEW d, NEW h \in BOOLEAN, NEW em, Looks(p, pe, d, h, em),
         NEW line, line = StripReturn(pe), NEW r, r = FeedByte(p, LineEnd)
  PROVE  AfterLine(r, line, d, h, em)
<1> DEFINE l == ProcessLine(p, pe)
<1>1. r = [l EXCEPT !.pending = << >>]
  BY DEF FeedByte, Looks
<1>2. line = << >> => l = FlushEvent(p)
  BY DEF ProcessLine
<1>3. line # << >> /\ Head(line) # DataMark => l = p
  BY DEF ProcessLine
<1> DEFINE x == d \o Tail(line)
           t == Append(em, StreamDone)
           v == Append(em, Payload(d))
<1>4. line # << >> /\ Head(line) = DataMark /\ Tail(line) # << DoneMark >> =>
        l = [p EXCEPT !.data = x, !.have = TRUE]
  BY DEF ProcessLine, Looks
<1>5. line # << >> /\ Head(line) = DataMark /\ Tail(line) = << DoneMark >> /\ ~h =>
        l = [p EXCEPT !.done = TRUE, !.emitted = t]
  BY DEF ProcessLine, Looks
<1>6. IF h THEN FlushEvent(p) = [p EXCEPT !.emitted = v, !.data = << >>, !.have = FALSE]
           ELSE FlushEvent(p) = p
  BY DEF FlushEvent, Looks
<1> HIDE DEF l, x, t, v
<1>7. line = << >> /\ ~h => Looks(r, << >>, d, h, em)
  BY <1>1, <1>2, <1>6 DEF Looks, ParserFields
<1>8. line = << >> /\ h => Looks(r, << >>, << >>, FALSE, v)
  BY <1>1, <1>2, <1>6 DEF Looks, ParserFields
<1>9. line # << >> /\ Head(line) # DataMark => Looks(r, << >>, d, h, em)
  BY <1>1, <1>3 DEF Looks, ParserFields
<1>10. line # << >> /\ Head(line) = DataMark /\ Tail(line) # << DoneMark >> =>
         Looks(r, << >>, x, TRUE, em)
  BY <1>1, <1>4 DEF Looks, ParserFields
<1>11. line # << >> /\ Head(line) = DataMark /\ Tail(line) = << DoneMark >> /\ ~h =>
         r.done /\ r.emitted = t
  BY <1>1, <1>5 DEF Looks, ParserFields
<1> QED
  BY <1>7, <1>8, <1>9, <1>10, <1>11 DEF x, t, v, AfterLine

\* What follows [DONE] is discarded.
LEMMA FeedDone ==
  ASSUME NEW p, p.done, NEW s, IsList(s)
  PROVE  Feed(p, s) = p
<1> DEFINE n == Len(s)
<1>1. n \in Nat
  BY AppendList
<1>2. PICK f : /\ f[0] = p /\ Feed(p, s) = f[n]
               /\ \A k \in 1 .. n : f[k] = FeedByte(f[k - 1], s[k])
  BY ParserRuns
<1> HIDE DEF n
<1> DEFINE G == {k \in 0 .. n : f[k] = p}
<1>3. 0 \in G /\ \A k \in 1 .. n : k - 1 \in G => k \in G
  <2>1. \A x : FeedByte(p, x) = p
    BY DEF FeedByte
  <2>2. 0 \in G
    BY <1>1, <1>2
  <2>3. ASSUME NEW k \in 1 .. n, k - 1 \in G PROVE k \in G
    BY <1>1, <1>2, <2>1, <2>3
  <2> QED
    BY <2>2, <2>3
<1>4. n \in G
  <2> HIDE DEF G
  <2>1. \A k \in 0 .. n : k \in G
    BY <1>1, <1>3, CountUp
  <2> QED
    BY <1>1, <2>1
<1> QED
  BY <1>2, <1>4

\* Tuples are lists.
LEMMA TupleLists ==
  ASSUME NEW x1, NEW x2, NEW x3, NEW x4, NEW x5, NEW x6, NEW x7
  PROVE  /\ IsList(<< x1 >>) /\ IsList(<< x1, x2 >>) /\ IsList(<< x1, x2, x3 >>)
         /\ IsList(<< x1, x2, x3, x4 >>) /\ IsList(<< x1, x2, x3, x4, x5 >>)
         /\ IsList(<< x1, x2, x3, x4, x5, x6, x7 >>)
<1> DEFINE S == {x1, x2, x3, x4, x5, x6, x7}
<1>1. /\ x1 \in S /\ x2 \in S /\ x3 \in S /\ x4 \in S /\ x5 \in S /\ x6 \in S /\ x7 \in S
  OBVIOUS
<1> HIDE DEF S
<1>2. /\ << x1 >> \in Seq(S) /\ << x1, x2 >> \in Seq(S) /\ << x1, x2, x3 >> \in Seq(S)
      /\ << x1, x2, x3, x4 >> \in Seq(S) /\ << x1, x2, x3, x4, x5 >> \in Seq(S)
      /\ << x1, x2, x3, x4, x5, x6, x7 >> \in Seq(S)
  BY <1>1
<1> QED
  BY <1>2, SeqIsList

\* A sequence is known by its elements: one more element,
LEMMA AppendIs ==
  ASSUME NEW S, NEW s \in Seq(S), NEW e \in S, NEW t \in Seq(S), Len(t) = Len(s) + 1,
         t[Len(s) + 1] = e, \A i \in 1 .. Len(s) : t[i] = s[i]
  PROVE  Append(s, e) = t
<1>1. /\ Append(s, e) \in Seq(S) /\ Len(Append(s, e)) = Len(t)
      /\ \A i \in 1 .. Len(t) : Append(s, e)[i] = t[i]
  OBVIOUS
<1> QED
  BY <1>1, SeqEqual

\* a tuple with one more component,
LEMMA TupleAppend ==
  ASSUME NEW a, NEW b, NEW c
  PROVE  /\ Append(<< >>, a) = << a >> /\ Append(<< a >>, b) = << a, b >>
         /\ Append(<< a, b >>, c) = << a, b, c >>
<1> DEFINE S == {a, b, c}
<1>0. a \in S /\ b \in S /\ c \in S
  OBVIOUS
<1> HIDE DEF S
<1>1. Append(<< >>, a) = << a >>
  OBVIOUS
<1>2. Append(<< a >>, b) = << a, b >>
  <2> DEFINE s == << a >>
             t == << a, b >>
  <2>1. s \in Seq(S) /\ Len(s) = 1 /\ t \in Seq(S) /\ Len(t) = 2 /\ t[2] = b
        /\ \A i \in 1 .. 1 : t[i] = s[i]
    BY <1>0
  <2> HIDE DEF s, t
  <2>2. /\ s \in Seq(S) /\ t \in Seq(S) /\ Len(t) = Len(s) + 1 /\ t[Len(s) + 1] = b
        /\ \A i \in 1 .. Len(s) : t[i] = s[i]
    BY <2>1
  <2>3. Append(s, b) = t
    BY <1>0, <2>2, AppendIs, Zenon
  <2> QED
    BY <2>3 DEF s, t
<1>3. Append(<< a, b >>, c) = << a, b, c >>
  <2> DEFINE s == << a, b >>
             t == << a, b, c >>
  <2>1. s \in Seq(S) /\ Len(s) = 2 /\ t \in Seq(S) /\ Len(t) = 3 /\ t[3] = c
        /\ \A i \in 1 .. 2 : t[i] = s[i]
    BY <1>0
  <2> HIDE DEF s, t
  <2>2. /\ s \in Seq(S) /\ t \in Seq(S) /\ Len(t) = Len(s) + 1 /\ t[Len(s) + 1] = c
        /\ \A i \in 1 .. Len(s) : t[i] = s[i]
    BY <2>1
  <2>3. Append(s, c) = t
    BY <1>0, <2>2, AppendIs, Zenon
  <2> QED
    BY <2>3 DEF s, t
<1> QED
  BY <1>1, <1>2, <1>3

\* a fourth component,
LEMMA AppendFourth ==
  ASSUME NEW a, NEW b, NEW c, NEW d
  PROVE  Append(<< a, b, c >>, d) = << a, b, c, d >>
<1> DEFINE S == {a, b, c, d}
<1>0. a \in S /\ b \in S /\ c \in S /\ d \in S
  OBVIOUS
<1> HIDE DEF S
<1>1. Append(<< a, b, c >>, d) = << a, b, c, d >>
  <2> DEFINE s == << a, b, c >>
             t == << a, b, c, d >>
  <2>1. s \in Seq(S) /\ Len(s) = 3 /\ t \in Seq(S) /\ Len(t) = 4 /\ t[4] = d
        /\ \A i \in 1 .. 3 : t[i] = s[i]
    BY <1>0
  <2> HIDE DEF s, t
  <2>2. /\ s \in Seq(S) /\ t \in Seq(S) /\ Len(t) = Len(s) + 1 /\ t[Len(s) + 1] = d
        /\ \A i \in 1 .. Len(s) : t[i] = s[i]
    BY <2>1
  <2>3. Append(s, d) = t
    BY <1>0, <2>2, AppendIs, Zenon
  <2> QED
    BY <2>3 DEF s, t
<1> QED
  BY <1>1

\* and two sequences put together.
LEMMA ConcatIs ==
  ASSUME NEW S, NEW s \in Seq(S), NEW t \in Seq(S), NEW u \in Seq(S), Len(u) = Len(s) + Len(t),
         \A i \in 1 .. Len(s) : u[i] = s[i], \A i \in 1 .. Len(t) : u[Len(s) + i] = t[i]
  PROVE  s \o t = u
<1> DEFINE c == s \o t
<1>1. c \in Seq(S) /\ Len(c) = Len(u)
  OBVIOUS
<1>2. ASSUME NEW i \in 1 .. Len(c) PROVE c[i] = u[i]
  <2>1. CASE i <= Len(s)
    BY <2>1
  <2>2. CASE ~(i <= Len(s))
    <3>1. i - Len(s) \in 1 .. Len(t) /\ i = Len(s) + (i - Len(s))
      BY <2>2
    <3>2. c[i] = t[i - Len(s)]
      BY <2>2, <3>1
    <3> QED
      BY <3>1, <3>2
  <2> QED
    BY <2>1, <2>2
<1> HIDE DEF c
<1>3. c = u
  BY <1>1, <1>2, SeqEqual
<1> QED
  BY <1>3 DEF c

\* And one that was cut after n.
LEMMA CutJoined ==
  ASSUME NEW S, NEW w \in Seq(S), NEW a \in Seq(S), NEW b \in Seq(S), NEW n \in 1 .. Len(w),
         Len(a) = n, Len(b) = Len(w) - n,
         \A i \in 1 .. n : a[i] = w[i], \A i \in 1 .. Len(w) - n : b[i] = w[n + i]
  PROVE  a \o b = w
<1>1. Len(w) \in Nat /\ n \in Nat
  OBVIOUS
<1>2. Len(w) = Len(a) + Len(b)
  BY <1>1
<1>3. \A i \in 1 .. Len(a) : w[i] = a[i]
  OBVIOUS
<1>4. \A i \in 1 .. Len(b) : w[Len(a) + i] = b[i]
  OBVIOUS
<1> QED
  BY <1>2, <1>3, <1>4, ConcatIs

\* The bytes of an event put together.
LEMMA TwoHalves ==
  ASSUME NEW b, NEW c
  PROVE  << b >> \o << c >> = << b, c >>
<1> DEFINE S == {b, c}
<1>0. b \in S /\ c \in S
  OBVIOUS
<1> HIDE DEF S
<1>1. << b >> \o << c >> = << b, c >>
  <2> DEFINE s == << b >>
             t == << c >>
             u == << b, c >>
  <2>1. /\ s \in Seq(S) /\ t \in Seq(S) /\ u \in Seq(S)
        /\ Len(s) = 1 /\ Len(t) = 1 /\ Len(u) = 2
    BY <1>0
  <2>2. (\A i \in 1 .. 1 : u[i] = s[i]) /\ (\A i \in 1 .. 1 : u[1 + i] = t[i])
    OBVIOUS
  <2> HIDE DEF s, t, u
  <2>3. /\ Len(u) = Len(s) + Len(t)
        /\ (\A i \in 1 .. Len(s) : u[i] = s[i]) /\ (\A i \in 1 .. Len(t) : u[Len(s) + i] = t[i])
    BY <2>1, <2>2
  <2>4. s \o t = u
    BY <2>1, <2>3, ConcatIs
  <2> QED
    BY <2>4 DEF s, t, u
<1> QED
  BY <1>1

\* A line of both halves that ends with line feeds,
LEMMA LineTuple ==
  ASSUME NEW a, NEW b, NEW c, NEW d
  PROVE  << a >> \o << b, c >> \o << d, d >> = << a, b, c, d, d >>
<1> DEFINE S == {a, b, c, d}
<1>0. a \in S /\ b \in S /\ c \in S /\ d \in S
  OBVIOUS
<1> HIDE DEF S
<1>1. << a >> \o << b, c >> = << a, b, c >>
  <2> DEFINE s == << a >>
             t == << b, c >>
             u == << a, b, c >>
  <2>1. /\ s \in Seq(S) /\ t \in Seq(S) /\ u \in Seq(S)
        /\ Len(s) = 1 /\ Len(t) = 2 /\ Len(u) = 3
    BY <1>0
  <2>2. (\A i \in 1 .. 1 : u[i] = s[i]) /\ (\A i \in 1 .. 2 : u[1 + i] = t[i])
    OBVIOUS
  <2> HIDE DEF s, t, u
  <2>3. /\ Len(u) = Len(s) + Len(t)
        /\ (\A i \in 1 .. Len(s) : u[i] = s[i]) /\ (\A i \in 1 .. Len(t) : u[Len(s) + i] = t[i])
    BY <2>1, <2>2
  <2>4. s \o t = u
    BY <2>1, <2>3, ConcatIs
  <2> QED
    BY <2>4 DEF s, t, u
<1>2. << a, b, c >> \o << d, d >> = << a, b, c, d, d >>
  <2> DEFINE s == << a, b, c >>
             t == << d, d >>
             u == << a, b, c, d, d >>
  <2>1. /\ s \in Seq(S) /\ t \in Seq(S) /\ u \in Seq(S)
        /\ Len(s) = 3 /\ Len(t) = 2 /\ Len(u) = 5
    BY <1>0
  <2>2. (\A i \in 1 .. 3 : u[i] = s[i]) /\ (\A i \in 1 .. 2 : u[3 + i] = t[i])
    OBVIOUS
  <2> HIDE DEF s, t, u
  <2>3. /\ Len(u) = Len(s) + Len(t)
        /\ (\A i \in 1 .. Len(s) : u[i] = s[i]) /\ (\A i \in 1 .. Len(t) : u[Len(s) + i] = t[i])
    BY <2>1, <2>2
  <2>4. s \o t = u
    BY <2>1, <2>3, ConcatIs
  <2> QED
    BY <2>4 DEF s, t, u
<1> QED
  BY <1>1, <1>2

\* and one that ends with carriage returns too.
LEMMA ReturnTuple ==
  ASSUME NEW a, NEW b, NEW c, NEW d, NEW e
  PROVE  << a >> \o << b, c >> \o << e, d, e, d >> = << a, b, c, e, d, e, d >>
<1> DEFINE S == {a, b, c, d, e}
<1>0. a \in S /\ b \in S /\ c \in S /\ d \in S /\ e \in S
  OBVIOUS
<1> HIDE DEF S
<1>1. << a >> \o << b, c >> = << a, b, c >>
  <2> DEFINE s == << a >>
             t == << b, c >>
             u == << a, b, c >>
  <2>1. /\ s \in Seq(S) /\ t \in Seq(S) /\ u \in Seq(S)
        /\ Len(s) = 1 /\ Len(t) = 2 /\ Len(u) = 3
    BY <1>0
  <2>2. (\A i \in 1 .. 1 : u[i] = s[i]) /\ (\A i \in 1 .. 2 : u[1 + i] = t[i])
    OBVIOUS
  <2> HIDE DEF s, t, u
  <2>3. /\ Len(u) = Len(s) + Len(t)
        /\ (\A i \in 1 .. Len(s) : u[i] = s[i]) /\ (\A i \in 1 .. Len(t) : u[Len(s) + i] = t[i])
    BY <2>1, <2>2
  <2>4. s \o t = u
    BY <2>1, <2>3, ConcatIs
  <2> QED
    BY <2>4 DEF s, t, u
<1>2. << a, b, c >> \o << e, d, e, d >> = << a, b, c, e, d, e, d >>
  <2> DEFINE s == << a, b, c >>
             t == << e, d, e, d >>
             u == << a, b, c, e, d, e, d >>
  <2>1. /\ s \in Seq(S) /\ t \in Seq(S) /\ u \in Seq(S)
        /\ Len(s) = 3 /\ Len(t) = 4 /\ Len(u) = 7
    BY <1>0
  <2>2. (\A i \in 1 .. 3 : u[i] = s[i]) /\ (\A i \in 1 .. 4 : u[3 + i] = t[i])
    OBVIOUS
  <2> HIDE DEF s, t, u
  <2>3. /\ Len(u) = Len(s) + Len(t)
        /\ (\A i \in 1 .. Len(s) : u[i] = s[i]) /\ (\A i \in 1 .. Len(t) : u[Len(s) + i] = t[i])
    BY <2>1, <2>2
  <2>4. s \o t = u
    BY <2>1, <2>3, ConcatIs
  <2> QED
    BY <2>4 DEF s, t, u
<1> QED
  BY <1>1, <1>2

\* The parser after each byte.
Steps(f, p, s) ==
  /\ f[0] = p /\ Feed(p, s) = f[Len(s)]
  /\ \A k \in 1 .. Len(s) : f[k] = FeedByte(f[k - 1], s[k])

\* There is one for each byte of a read.
LEMMA FeedSteps ==
  ASSUME NEW p, NEW s, IsList(s)
  PROVE  \E f : Steps(f, p, s)
BY ParserRuns DEF Steps

\* The parser is between two events, or past the end.
Settled(q) == q.done \/ (q.pending = << >> /\ q.data = << >> /\ ~q.have)

\* The bytes of a comment leave it as it is.
LEMMA CommentFed ==
  ASSUME NEW q, NEW em, Looks(q, << >>, << >>, FALSE, em)
  PROVE  Looks(Feed(q, << Comment, LineEnd, LineEnd >>), << >>, << >>, FALSE, em)
<1> DEFINE s == << Comment, LineEnd, LineEnd >>
<1>1. IsList(s) /\ Len(s) = 3 /\ s[1] = Comment /\ s[2] = LineEnd /\ s[3] = LineEnd
  BY TupleLists
<1> HIDE DEF s
<1>2. PICK f : /\ f[0] = q /\ Feed(q, s) = f[3]
               /\ \A k \in 1 .. 3 : f[k] = FeedByte(f[k - 1], s[k])
  BY <1>1, ParserRuns
<1>3. f[1] = FeedByte(q, Comment) /\ f[2] = FeedByte(f[1], LineEnd) /\ f[3] = FeedByte(f[2], LineEnd)
  BY <1>1, <1>2
<1>4. Looks(f[1], << Comment >>, << >>, FALSE, em)
  <2>1. Append(<< >>, Comment) = << Comment >>
    OBVIOUS
  <2> QED
    BY <1>3, <2>1, PieceFacts, LooksByte
<1>5. Looks(f[2], << >>, << >>, FALSE, em)
  <2>1. << Comment >> = StripReturn(<< Comment >>)
    BY PieceFacts, StripFacts
  <2>2. << Comment >> # << >> /\ Head(<< Comment >>) # DataMark
    BY PieceFacts
  <2>3. AfterLine(f[2], << Comment >>, << >>, FALSE, em)
    BY <1>3, <1>4, <2>1, LooksLine
  <2> QED
    BY <2>2, <2>3, Zenon DEF AfterLine
<1>6. Looks(f[3], << >>, << >>, FALSE, em)
  <2>1. AfterLine(f[3], << >>, << >>, FALSE, em)
    BY <1>3, <1>5, LooksLine, StripEmpty
  <2> QED
    BY <2>1, Zenon DEF AfterLine
<1> QED
  BY <1>2, <1>6 DEF s

\* The [DONE] mark ends it.
LEMMA MarkFed ==
  ASSUME NEW q, NEW em, Looks(q, << >>, << >>, FALSE, em),
         NEW r, r = Feed(q, << DataMark, DoneMark, LineEnd, LineEnd >>)
  PROVE  r.done /\ r.emitted = Append(em, StreamDone)
<1> DEFINE s == << DataMark, DoneMark, LineEnd, LineEnd >>
<1>0. IsList(s)
  BY TupleLists, Zenon
<1>1. Len(s) = 4 /\ s[1] = DataMark /\ s[2] = DoneMark /\ s[3] = LineEnd /\ s[4] = LineEnd
  OBVIOUS
<1>2. r = Feed(q, s)
  OBVIOUS
<1> HIDE DEF s
<1>2a. PICK f : Steps(f, q, s)
  BY <1>0, FeedSteps, Zenon
<1>3. /\ f[0] = q /\ Feed(q, s) = f[4] /\ \A j \in 1 .. 4 : f[j] = FeedByte(f[j - 1], s[j])
  BY <1>1, <1>2a DEF Steps
<1>4. /\ f[1] = FeedByte(q, DataMark) /\ f[2] = FeedByte(f[1], DoneMark)
      /\ f[3] = FeedByte(f[2], LineEnd) /\ f[4] = FeedByte(f[3], LineEnd)
  BY <1>1, <1>3
<1> DEFINE line == << DataMark, DoneMark >>
<1>5. Looks(f[2], line, << >>, FALSE, em)
  <2>1. Append(<< >>, DataMark) = << DataMark >> /\ Append(<< DataMark >>, DoneMark) = line
    BY TupleAppend, Zenon
  <2>2. Looks(f[1], << DataMark >>, << >>, FALSE, em)
    BY <1>4, <2>1, PieceFacts, LooksByte
  <2> HIDE DEF line
  <2> QED
    BY <1>4, <2>1, <2>2, PieceFacts, LooksByte
<1>6. line = StripReturn(line)
  BY PieceFacts, StripFacts
<1>7. line # << >> /\ Head(line) = DataMark /\ Tail(line) = << DoneMark >>
  OBVIOUS
<1> HIDE DEF line
<1>8. AfterLine(f[3], line, << >>, FALSE, em)
  BY <1>4, <1>5, <1>6, LooksLine
<1>9. f[3].done /\ f[3].emitted = Append(em, StreamDone)
  BY <1>7, <1>8, Zenon DEF AfterLine
<1>10. f[4] = f[3]
  BY <1>4, <1>9 DEF FeedByte
<1> QED
  BY <1>2, <1>3, <1>9, <1>10

\* A line of data adds its payload, an empty one gives the event.
LEMMA DataLine ==
  ASSUME NEW p, NEW pe, NEW d, NEW h \in BOOLEAN, NEW em, Looks(p, pe, d, h, em),
         NEW x, StripReturn(pe) = << DataMark >> \o x, x \in Seq({Left(k) : k \in Nat} \cup {Right(k) : k \in Nat}), x # << >>,
         NEW r, r = FeedByte(p, LineEnd)
  PROVE  Looks(r, << >>, d \o x, TRUE, em)
<1> DEFINE S == {Left(k) : k \in Nat} \cup {Right(k) : k \in Nat}
           line == << DataMark >> \o x
<1>1. DoneMark \notin S
  BY PieceFacts
<1> HIDE DEF S
<1>2. x \in Seq(S)
  BY DEF S
<1>3. line # << >> /\ Head(line) = DataMark /\ Tail(line) = x
  BY <1>2
<1>4. x # << DoneMark >>
  <2>1. x = << DoneMark >> => DoneMark \in S
    BY <1>2
  <2> QED
    BY <1>1, <2>1
<1> HIDE DEF line
<1>5. AfterLine(r, line, d, h, em)
  BY LooksLine DEF line
<1> QED
  BY <1>3, <1>4, <1>5, Zenon DEF AfterLine

\* An empty line, with a carriage return or without.
LEMMA EmptyLine ==
  ASSUME NEW p, NEW pe \in {<< >>, << Return >>}, NEW d, NEW em, NEW r, r = FeedByte(p, LineEnd)
  PROVE  /\ Looks(p, pe, d, TRUE, em) => Looks(r, << >>, << >>, FALSE, Append(em, Payload(d)))
         /\ Looks(p, pe, d, FALSE, em) => Looks(r, << >>, d, FALSE, em)
<1>1. << >> = StripReturn(pe)
  BY StripEmpty
<1>2. Looks(p, pe, d, TRUE, em) => AfterLine(r, << >>, d, TRUE, em)
  BY <1>1, LooksLine
<1>3. Looks(p, pe, d, FALSE, em) => AfterLine(r, << >>, d, FALSE, em)
  BY <1>1, LooksLine
<1> QED
  BY <1>2, <1>3, Zenon DEF AfterLine

\* The halves of a payload are pieces.
LEMMA HalvesFacts ==
  ASSUME NEW k \in Nat
  PROVE  LET S == {Left(j) : j \in Nat} \cup {Right(j) : j \in Nat}
         IN /\ << Left(k) >> \in Seq(S) /\ << Right(k) >> \in Seq(S) /\ << Left(k), Right(k) >> \in Seq(S)
<1> DEFINE S == {Left(j) : j \in Nat} \cup {Right(j) : j \in Nat}
<1>1. Left(k) \in S /\ Right(k) \in S
  OBVIOUS
<1> HIDE DEF S
<1>2. << Left(k) >> \in Seq(S) /\ << Right(k) >> \in Seq(S) /\ << Left(k), Right(k) >> \in Seq(S)
  BY <1>1
<1> QED
  BY <1>2 DEF S

\* An event on one line.
LEMMA LineFed ==
  ASSUME NEW q, NEW em, Looks(q, << >>, << >>, FALSE, em), NEW k \in Nat
  PROVE  Looks(Feed(q, << DataMark, Left(k), Right(k), LineEnd, LineEnd >>), << >>, << >>, FALSE,
               Append(em, Payload(Payload2(k))))
<1> DEFINE s == << DataMark, Left(k), Right(k), LineEnd, LineEnd >>
<1>0. IsList(s)
  BY TupleLists, Zenon
<1>1. /\ Len(s) = 5 /\ s[1] = DataMark /\ s[2] = Left(k) /\ s[3] = Right(k)
      /\ s[4] = LineEnd /\ s[5] = LineEnd
  OBVIOUS
<1> HIDE DEF s
<1>2. PICK f : Steps(f, q, s)
  BY <1>0, FeedSteps, Zenon
<1>3. /\ f[0] = q /\ Feed(q, s) = f[5] /\ \A j \in 1 .. 5 : f[j] = FeedByte(f[j - 1], s[j])
  BY <1>1, <1>2 DEF Steps
<1>4. /\ f[1] = FeedByte(q, DataMark) /\ f[2] = FeedByte(f[1], Left(k))
      /\ f[3] = FeedByte(f[2], Right(k))
      /\ f[4] = FeedByte(f[3], LineEnd) /\ f[5] = FeedByte(f[4], LineEnd)
  BY <1>1, <1>3
<1> DEFINE line == << DataMark, Left(k), Right(k) >>
<1>5. Looks(f[3], line, << >>, FALSE, em)
  <2>1. /\ Append(<< >>, DataMark) = << DataMark >>
        /\ Append(<< DataMark >>, Left(k)) = << DataMark, Left(k) >>
        /\ Append(<< DataMark, Left(k) >>, Right(k)) = line
    BY TupleAppend, Zenon
  <2> HIDE DEF line
  <2>2. Looks(f[1], << DataMark >>, << >>, FALSE, em)
    BY <1>4, <2>1, PieceFacts, LooksByte
  <2>3. Looks(f[2], << DataMark, Left(k) >>, << >>, FALSE, em)
    BY <1>4, <2>1, <2>2, PieceFacts, LooksByte
  <2> QED
    BY <1>4, <2>1, <2>3, PieceFacts, LooksByte
<1> DEFINE x == << Left(k), Right(k) >>
<1>6. StripReturn(line) = << DataMark >> \o x /\ x # << >> /\ << >> \o x = x
  <2>1. StripReturn(line) = line
    BY PieceFacts, StripFacts, Zenon
  <2>2. line = << DataMark >> \o x /\ x # << >> /\ << >> \o x = x
    OBVIOUS
  <2> QED
    BY <2>1, <2>2
<1>7. Looks(f[4], << >>, x, TRUE, em)
  <2> HIDE DEF line, x
  <2>1. x \in Seq({Left(j) : j \in Nat} \cup {Right(j) : j \in Nat})
    BY HalvesFacts DEF x
  <2>2. Looks(f[4], << >>, << >> \o x, TRUE, em)
    BY <1>4, <1>5, <1>6, <2>1, DataLine
  <2> QED
    BY <1>6, <2>2
<1> HIDE DEF x
<1>8. Looks(f[5], << >>, << >>, FALSE, Append(em, Payload(x)))
  BY <1>4, <1>7, EmptyLine
<1> QED
  BY <1>3, <1>8 DEF s, x, Payload2

\* An event whose lines end with a carriage return.
LEMMA ReturnFed ==
  ASSUME NEW q, NEW em, Looks(q, << >>, << >>, FALSE, em), NEW k \in Nat
  PROVE  Looks(Feed(q, << DataMark, Left(k), Right(k), Return, LineEnd, Return, LineEnd >>),
               << >>, << >>, FALSE, Append(em, Payload(Payload2(k))))
<1> DEFINE s == << DataMark, Left(k), Right(k), Return, LineEnd, Return, LineEnd >>
<1>0. IsList(s)
  BY TupleLists, Zenon
<1>1. /\ Len(s) = 7 /\ s[1] = DataMark /\ s[2] = Left(k) /\ s[3] = Right(k) /\ s[4] = Return
      /\ s[5] = LineEnd /\ s[6] = Return /\ s[7] = LineEnd
  OBVIOUS
<1> HIDE DEF s
<1>2. PICK f : Steps(f, q, s)
  BY <1>0, FeedSteps, Zenon
<1>3. /\ f[0] = q /\ Feed(q, s) = f[7] /\ \A j \in 1 .. 7 : f[j] = FeedByte(f[j - 1], s[j])
  BY <1>1, <1>2 DEF Steps
<1>4. /\ f[1] = FeedByte(q, DataMark) /\ f[2] = FeedByte(f[1], Left(k))
      /\ f[3] = FeedByte(f[2], Right(k)) /\ f[4] = FeedByte(f[3], Return)
      /\ f[5] = FeedByte(f[4], LineEnd) /\ f[6] = FeedByte(f[5], Return)
      /\ f[7] = FeedByte(f[6], LineEnd)
  BY <1>1, <1>3
<1> DEFINE line == << DataMark, Left(k), Right(k), Return >>
           x == << Left(k), Right(k) >>
<1>5. Looks(f[4], line, << >>, FALSE, em)
  <2>1. /\ Append(<< >>, DataMark) = << DataMark >>
        /\ Append(<< DataMark >>, Left(k)) = << DataMark, Left(k) >>
        /\ Append(<< DataMark, Left(k) >>, Right(k)) = << DataMark, Left(k), Right(k) >>
        /\ Append(<< DataMark, Left(k), Right(k) >>, Return) = line
    <3>1. Append(<< >>, DataMark) = << DataMark >>
      BY TupleAppend, Zenon
    <3>2. Append(<< DataMark >>, Left(k)) = << DataMark, Left(k) >>
      BY TupleAppend, Zenon
    <3>3. Append(<< DataMark, Left(k) >>, Right(k)) = << DataMark, Left(k), Right(k) >>
      BY TupleAppend, Zenon
    <3>4. Append(<< DataMark, Left(k), Right(k) >>, Return) = << DataMark, Left(k), Right(k), Return >>
      BY AppendFourth
    <3> QED
      BY <3>1, <3>2, <3>3, <3>4
  <2> HIDE DEF line
  <2>2. Looks(f[1], << DataMark >>, << >>, FALSE, em)
    BY <1>4, <2>1, PieceFacts, LooksByte
  <2>3. Looks(f[2], << DataMark, Left(k) >>, << >>, FALSE, em)
    BY <1>4, <2>1, <2>2, PieceFacts, LooksByte
  <2>4. Looks(f[3], << DataMark, Left(k), Right(k) >>, << >>, FALSE, em)
    BY <1>4, <2>1, <2>3, PieceFacts, LooksByte
  <2> QED
    BY <1>4, <2>1, <2>4, PieceFacts, LooksByte
<1>6. StripReturn(line) = << DataMark >> \o x /\ x # << >> /\ << >> \o x = x
  <2>1. StripReturn(line) = << DataMark, Left(k), Right(k) >>
    BY PieceFacts, StripFacts, Zenon
  <2>2. << DataMark, Left(k), Right(k) >> = << DataMark >> \o x /\ x # << >> /\ << >> \o x = x
    OBVIOUS
  <2> QED
    BY <2>1, <2>2
<1>7. Looks(f[5], << >>, x, TRUE, em)
  <2> HIDE DEF line, x
  <2>1. x \in Seq({Left(j) : j \in Nat} \cup {Right(j) : j \in Nat})
    BY HalvesFacts DEF x
  <2>2. Looks(f[5], << >>, << >> \o x, TRUE, em)
    BY <1>4, <1>5, <1>6, <2>1, DataLine
  <2> QED
    BY <1>6, <2>2
<1> HIDE DEF x, line
<1>8. Looks(f[6], << Return >>, x, TRUE, em)
  <2>1. Append(<< >>, Return) = << Return >>
    BY TupleAppend, Zenon
  <2> QED
    BY <1>4, <1>7, <2>1, PieceFacts, LooksByte
<1>9. Looks(f[7], << >>, << >>, FALSE, Append(em, Payload(x)))
  BY <1>4, <1>8, EmptyLine
<1> QED
  BY <1>3, <1>9 DEF s, x, Payload2

\* An event on two lines of data.
LEMMA SplitFed ==
  ASSUME NEW q, NEW em, Looks(q, << >>, << >>, FALSE, em), NEW k \in Nat
  PROVE  Looks(Feed(q, << DataMark, Left(k), LineEnd, DataMark, Right(k), LineEnd, LineEnd >>),
               << >>, << >>, FALSE, Append(em, Payload(Payload2(k))))
<1> DEFINE s == << DataMark, Left(k), LineEnd, DataMark, Right(k), LineEnd, LineEnd >>
<1>0. IsList(s)
  BY TupleLists, Zenon
<1>1. /\ Len(s) = 7 /\ s[1] = DataMark /\ s[2] = Left(k) /\ s[3] = LineEnd /\ s[4] = DataMark
      /\ s[5] = Right(k) /\ s[6] = LineEnd /\ s[7] = LineEnd
  OBVIOUS
<1> HIDE DEF s
<1>2. PICK f : Steps(f, q, s)
  BY <1>0, FeedSteps, Zenon
<1>3. /\ f[0] = q /\ Feed(q, s) = f[7] /\ \A j \in 1 .. 7 : f[j] = FeedByte(f[j - 1], s[j])
  BY <1>1, <1>2 DEF Steps
<1>4. /\ f[1] = FeedByte(q, DataMark) /\ f[2] = FeedByte(f[1], Left(k))
      /\ f[3] = FeedByte(f[2], LineEnd) /\ f[4] = FeedByte(f[3], DataMark)
      /\ f[5] = FeedByte(f[4], Right(k)) /\ f[6] = FeedByte(f[5], LineEnd)
      /\ f[7] = FeedByte(f[6], LineEnd)
  BY <1>1, <1>3
<1> DEFINE l == << Left(k) >>
           r == << Right(k) >>
<1>5. /\ Append(<< >>, DataMark) = << DataMark >>
      /\ Append(<< DataMark >>, Left(k)) = << DataMark, Left(k) >>
      /\ Append(<< DataMark >>, Right(k)) = << DataMark, Right(k) >>
  BY TupleAppend, Zenon
<1>6. /\ StripReturn(<< DataMark, Left(k) >>) = << DataMark >> \o l
      /\ StripReturn(<< DataMark, Right(k) >>) = << DataMark >> \o r
  <2>1. /\ StripReturn(<< DataMark, Left(k) >>) = << DataMark, Left(k) >>
        /\ StripReturn(<< DataMark, Right(k) >>) = << DataMark, Right(k) >>
    BY PieceFacts, StripFacts, Zenon
  <2>2. << DataMark, Left(k) >> = << DataMark >> \o l /\ << DataMark, Right(k) >> = << DataMark >> \o r
    OBVIOUS
  <2> QED
    BY <2>1, <2>2
<1>7. /\ l \in Seq({Left(j) : j \in Nat} \cup {Right(j) : j \in Nat}) /\ l # << >>
      /\ r \in Seq({Left(j) : j \in Nat} \cup {Right(j) : j \in Nat}) /\ r # << >>
  BY HalvesFacts
<1>8. << >> \o l = l /\ l \o r = Payload2(k)
  <2>1. << >> \o l = l
    OBVIOUS
  <2>2. l \o r = Payload2(k)
    BY TwoHalves DEF Payload2
  <2> QED
    BY <2>1, <2>2
<1> HIDE DEF l, r
<1>9. Looks(f[2], << DataMark, Left(k) >>, << >>, FALSE, em)
  <2>1. Looks(f[1], << DataMark >>, << >>, FALSE, em)
    BY <1>4, <1>5, PieceFacts, LooksByte
  <2> QED
    BY <1>4, <1>5, <2>1, PieceFacts, LooksByte
<1>10. Looks(f[3], << >>, l, TRUE, em)
  <2>1. Looks(f[3], << >>, << >> \o l, TRUE, em)
    BY <1>4, <1>6, <1>7, <1>9, DataLine
  <2> QED
    BY <1>8, <2>1
<1>11. Looks(f[5], << DataMark, Right(k) >>, l, TRUE, em)
  <2>1. Looks(f[4], << DataMark >>, l, TRUE, em)
    BY <1>4, <1>5, <1>10, PieceFacts, LooksByte
  <2> QED
    BY <1>4, <1>5, <2>1, PieceFacts, LooksByte
<1>12. Looks(f[6], << >>, Payload2(k), TRUE, em)
  <2>1. Looks(f[6], << >>, l \o r, TRUE, em)
    BY <1>4, <1>6, <1>7, <1>11, DataLine
  <2> QED
    BY <1>8, <2>1
<1>13. Looks(f[7], << >>, << >>, FALSE, Append(em, Payload(Payload2(k))))
  BY <1>4, <1>12, EmptyLine
<1> QED
  BY <1>3, <1>13 DEF s

\* The bytes of an event that is not endless give that event and leave the
\* parser between two.
LEMMA BytesFed ==
  ASSUME form \in Forms, NEW q, ParserInv(q), Settled(q), NEW e, e.kind # "long", NEW k \in Nat,
         NEW r, r = Feed(q, Bytes(e, k))
  PROVE  /\ Settled(r)
         /\ Elements(r.emitted) \subseteq Elements(q.emitted) \cup {StreamDone, Payload(Payload2(k))}
<1>1. IsList(Bytes(e, k))
  BY BytesAreList
<1>2. CASE q.done
  <2>1. r = q
    BY <1>1, <1>2, FeedDone
  <2> QED
    BY <2>1
<1>3. CASE ~q.done
  <2> DEFINE em == q.emitted
  <2>1. Looks(q, << >>, << >>, FALSE, em) /\ IsList(em)
    BY <1>3 DEF Looks, Settled, ParserInv, ParserFields
  <2> HIDE DEF em
  <2>2. /\ Elements(Append(em, StreamDone)) = Elements(em) \cup {StreamDone}
        /\ Elements(Append(em, Payload(Payload2(k)))) = Elements(em) \cup {Payload(Payload2(k))}
    BY <2>1, ElementsAppend
  <2>3. ASSUME Looks(r, << >>, << >>, FALSE, em) \/ Looks(r, << >>, << >>, FALSE, Append(em, Payload(Payload2(k))))
        PROVE  /\ Settled(r)
               /\ Elements(r.emitted) \subseteq Elements(em) \cup {StreamDone, Payload(Payload2(k))}
    BY <2>2, <2>3 DEF Looks, Settled
  <2>4. CASE e.kind = "comment"
    <3>1. Bytes(e, k) = << Comment, LineEnd, LineEnd >>
      BY <2>4 DEF Bytes
    <3> QED
      BY <2>1, <2>3, <3>1, CommentFed DEF em
  <2>5. CASE e.kind = "[DONE]"
    <3>1. Bytes(e, k) = << DataMark, DoneMark, LineEnd, LineEnd >>
      BY <2>5 DEF Bytes
    <3>2. r.done /\ r.emitted = Append(em, StreamDone)
      BY <2>1, <3>1, MarkFed
    <3> QED
      BY <2>2, <3>2 DEF Settled, em
  <2>6. CASE e.kind \notin {"comment", "[DONE]"}
    <3>1. form \in {"lf", "crlf", "split"}
      BY StreamAssumption
    <3>2. CASE form = "lf"
      <4>1. Bytes(e, k) = << DataMark >> \o Payload2(k) \o << LineEnd, LineEnd >>
        BY <2>6, <3>2 DEF Bytes
      <4>2. << DataMark >> \o << Left(k), Right(k) >> \o << LineEnd, LineEnd >> =
              << DataMark, Left(k), Right(k), LineEnd, LineEnd >>
        BY LineTuple
      <4>3. Bytes(e, k) = << DataMark, Left(k), Right(k), LineEnd, LineEnd >>
        BY <4>1, <4>2, Zenon DEF Payload2
      <4> QED
        BY <2>1, <2>3, <4>3, LineFed DEF em
    <3>3. CASE form = "crlf"
      <4>1. Bytes(e, k) = << DataMark >> \o Payload2(k) \o << Return, LineEnd, Return, LineEnd >>
        BY <2>6, <3>3 DEF Bytes
      <4>2. << DataMark >> \o << Left(k), Right(k) >> \o << Return, LineEnd, Return, LineEnd >> =
              << DataMark, Left(k), Right(k), Return, LineEnd, Return, LineEnd >>
        BY ReturnTuple
      <4>3. Bytes(e, k) = << DataMark, Left(k), Right(k), Return, LineEnd, Return, LineEnd >>
        BY <4>1, <4>2, Zenon DEF Payload2
      <4> QED
        BY <2>1, <2>3, <4>3, ReturnFed DEF em
    <3>4. CASE form = "split"
      <4>1. Bytes(e, k) = << DataMark, Left(k), LineEnd, DataMark, Right(k), LineEnd, LineEnd >>
        BY <2>6, <3>4 DEF Bytes
      <4> QED
        BY <2>1, <2>3, <4>1, SplitFed DEF em
    <3> QED
      BY <3>1, <3>2, <3>3, <3>4
  <2> QED
    BY <2>4, <2>5, <2>6
<1> QED
  BY <1>2, <1>3

-----------------------------------------------------------------------------
(* What was said, and what is blamed for it. *)

\* Events that were said, by a list of n of them.
WasSaid(ev, n) == ev = StreamDone \/ \E k \in 1 .. n : ev = Payload(Payload2(k))

\* What parser p makes of the bytes w, which n events gave, is those events.
CleanOf(p, w, n) ==
  /\ Settled(Feed(p, w))
  /\ \A ev \in Elements(Feed(p, w).emitted) : WasSaid(ev, n)

CallKinds == {"item", "args_delta", "args_done"}
GarbledIn(list) == \E k \in 1 .. Len(list) : list[k].kind \in {"malformed", "long"}
PastLimitIn(list) ==
  \E k \in 1 .. Len(list) : list[k].kind \in CallKinds /\ list[k].index >= MaxToolCalls

\* The calls of a Responses stream are numbered from 1 and keep their index.
Numbered(list) ==
  /\ \A k \in 1 .. Len(list) : list[k].kind \in CallKinds => list[k].call # 0
  /\ \A j \in 1 .. Len(list), k \in 1 .. Len(list) :
       list[j].call = list[k].call /\ list[j].call # 0 => list[j].index = list[k].index
  /\ \E n \in Nat : {list[k].call : k \in 1 .. Len(list)} \ {0} = 1 .. n

BlameInv ==
  /\ IsList(said)
  /\ phase # "closed" => rc = "none"
  /\ phase # "closed" /\ ~GarbledIn(said) => CleanOf(parser, wire, Len(said))
  /\ Json(acc) => GarbledIn(said) \/ (protocol = "responses" /\ PastLimitIn(said)) \/ rc = "fail"
  /\ protocol = "responses" => Numbered(said)

\* The event a payload stands for is one the server said.
LEMMA ParsedSaid ==
  ASSUME IsList(said), ~GarbledIn(said), NEW ev, NEW k \in 1 .. Len(said), ev = Payload(Payload2(k))
  PROVE  /\ ~ev.done
         /\ \E j \in 1 .. Len(said) : Parsed(ev.data) = said[j] /\ said[j].kind # "malformed"
<1>1. DOMAIN said = 1 .. Len(said)
  BY AppendList
<1>2. ev.done = FALSE /\ ev.data = Payload2(k)
  BY DEF Payload
<1> DEFINE j == CHOOSE j \in DOMAIN said : ev.data = Payload2(j)
<1>3. j \in DOMAIN said
  BY <1>1, <1>2
<1>4. Parsed(ev.data) = said[j]
  BY <1>1, <1>2 DEF Parsed
<1>5. said[j].kind # "malformed"
  BY <1>1, <1>3 DEF GarbledIn
<1> QED
  BY <1>1, <1>2, <1>3, <1>4, <1>5

\* An event that was said is not blamed by sse_cb.
LEMMA OnSseHonest ==
  ASSUME IsList(said), ~GarbledIn(said), protocol = "responses" => ~PastLimitIn(said),
         protocol \in {"openai", "anthropic", "responses"},
         NEW ev, WasSaid(ev, Len(said)), NEW a, AccumInv(a)
  PROVE  Honest(a, OnSse(a, ev))
<1>1. CASE ev = StreamDone
  <2>1. ev.done
    BY <1>1 DEF StreamDone
  <2>2. Honest(a, OpenaiDone(a))
    <3>1. Texts.kind # "malformed"
      BY DEF Texts, Say0
    <3> QED
      BY <3>1, OpenaiHonest
  <2>3. Honest(a, AnthropicDone(a))
    BY QuietStop, QuietHonest, Zenon
  <2>4. Honest(a, ResponsesDone(a))
    BY FinishHonest DEF ResponsesDone
  <2> QED
    BY <2>1, <2>2, <2>3, <2>4 DEF OnSse
<1>2. CASE \E k \in 1 .. Len(said) : ev = Payload(Payload2(k))
  <2>1. PICK k \in 1 .. Len(said) : ev = Payload(Payload2(k))
    BY <1>2
  <2>2. ~ev.done /\ \E j \in 1 .. Len(said) : Parsed(ev.data) = said[j] /\ said[j].kind # "malformed"
    BY <2>1, ParsedSaid
  <2>3. PICK j \in 1 .. Len(said) : Parsed(ev.data) = said[j] /\ said[j].kind # "malformed"
    BY <2>2
  <2> DEFINE e == said[j]
  <2>4. e.kind # "malformed"
    BY <2>3
  <2>5. protocol = "responses" => (e.kind \in {"item", "args_delta", "args_done"} => ~(e.index >= MaxToolCalls))
    BY DEF PastLimitIn, CallKinds
  <2>6. \/ protocol = "openai" /\ OnSse(a, ev) = OpenaiChunk(a, e)
        \/ protocol = "anthropic" /\ OnSse(a, ev) = AnthropicEvent(a, e)
        \/ protocol = "responses" /\ OnSse(a, ev) = ResponsesEvent(a, e)
    BY <2>2, <2>3 DEF OnSse
  <2> HIDE DEF e
  <2>7. Honest(a, OpenaiChunk(a, e)) /\ Honest(a, AnthropicEvent(a, e))
    BY <2>4, OpenaiHonest, AnthropicHonest
  <2>8. protocol = "responses" => Honest(a, ResponsesEvent(a, e))
    BY <2>4, <2>5, ResponsesHonest
  <2> QED
    BY <2>6, <2>7, <2>8
<1> QED
  BY <1>1, <1>2 DEF WasSaid

\* Nor are the events of a read.
LEMMA AccumulatedHonest ==
  ASSUME IsList(said), ~GarbledIn(said), protocol = "responses" => ~PastLimitIn(said),
         protocol \in {"openai", "anthropic", "responses"}, AccumInv(acc),
         NEW p, ParserInv(p), \A ev \in Elements(p.emitted) : WasSaid(ev, Len(said))
  PROVE  Honest(acc, Accumulated(p))
<1> DEFINE N == Len(p.emitted)
<1>1. N \in Nat /\ DOMAIN p.emitted = 1 .. N
  BY AppendList DEF ParserInv
<1> HIDE DEF N
<1>2. PICK f : /\ f[0] = acc /\ Accumulated(p) = f[N]
               /\ \A k \in 1 .. N : f[k] = OnSse(f[k - 1], p.emitted[k])
  BY <1>1, AccumRuns
<1> DEFINE G == {k \in 0 .. N : AccumInv(f[k]) /\ Honest(acc, f[k])}
<1>3. 0 \in G
  BY <1>1, <1>2, QuietHonest
<1>4. ASSUME NEW k \in 1 .. N, k - 1 \in G PROVE k \in G
  <2>1. AccumInv(f[k - 1]) /\ Honest(acc, f[k - 1]) /\ f[k] = OnSse(f[k - 1], p.emitted[k])
    BY <1>2, <1>4
  <2>2. WasSaid(p.emitted[k], Len(said))
    BY <1>1 DEF Elements
  <2>3. AccumInv(f[k]) /\ Honest(f[k - 1], f[k])
    BY <2>1, <2>2, OnSseHonest, OnSseKeeps
  <2>4. Honest(acc, f[k])
    BY <2>1, <2>3, QuietHonest, Zenon
  <2> QED
    BY <1>1, <2>3, <2>4
<1>5. N \in G
  <2> HIDE DEF G
  <2>1. \A k \in 0 .. N : k \in G
    BY <1>1, <1>3, <1>4, CountUp
  <2> QED
    BY <1>1, <2>1
<1> QED
  BY <1>2, <1>5

\* An event of a server is about no call, a call that it speaks of for the
\* first time, or one it spoke of at the same index.
OfCalls(e) ==
  \/ e.call = 0 /\ e.kind \notin CallKinds
  \/ e.call = Fresh
  \/ e.call \in CallsSaid /\ (e.call # Fresh => e.index = CallIndex(e.call))

\* An item is about its call, at the index of the call.
LEMMA ItemSaidFacts ==
  \A c : /\ ItemSaid(c).call = c /\ (c # Fresh => ItemSaid(c).index = CallIndex(c))
        /\ DOMAIN ItemSaid(c) = {"kind", "index", "call", "id", "args", "reason", "usage"}
BY DEF ItemSaid, Say0

\* A Responses server says such events.
LEMMA ResponsesOf ==
  ASSUME NEW e \in ResponsesSays
  PROVE  OfCalls(e)
<1>1. NewCall \subseteq {Fresh} /\ Going \subseteq CallsSaid /\ Filling \subseteq CallsSaid
  BY DEF NewCall, Going, Filling
<1>2. ASSUME NEW c \in CallsSaid, e.call = ItemSaid(c).call, e.index = ItemSaid(c).index PROVE OfCalls(e)
  BY <1>2, ItemSaidFacts DEF OfCalls
<1>3. CASE e \in Announces
  <2>1. PICK c \in NewCall : \E i \in {0, c} : e = [ItemSaid(c) EXCEPT !.id = i]
    BY <1>3, Zenon DEF Announces
  <2>2. e.call = c
    BY <2>1, ItemSaidFacts
  <2> QED
    BY <1>1, <2>2 DEF OfCalls
<1>4. CASE e \in Fills
  <2>1. PICK c \in Filling : e = [ItemSaid(c) EXCEPT !.kind = "args_delta", !.args = Fragment1]
    BY <1>4, Zenon DEF Fills
  <2>2. e.call = ItemSaid(c).call /\ e.index = ItemSaid(c).index
    BY <2>1, ItemSaidFacts
  <2> QED
    BY <1>1, <1>2, <2>2
<1>5. CASE e \in Repeats
  <2>1. PICK c \in Filling : e = [ItemSaid(c) EXCEPT !.kind = "args_done", !.args = Whole(c)]
    BY <1>5, Zenon DEF Repeats
  <2>2. e.call = ItemSaid(c).call /\ e.index = ItemSaid(c).index
    BY <2>1, ItemSaidFacts
  <2> QED
    BY <1>1, <1>2, <2>2
<1>6. CASE e \in Completes
  <2>1. PICK c \in Going : \E i \in {0, c} : e = [ItemSaid(c) EXCEPT !.id = i, !.args = Whole(c)]
    BY <1>6, Zenon DEF Completes
  <2>2. e.call = ItemSaid(c).call /\ e.index = ItemSaid(c).index
    BY <2>1, ItemSaidFacts
  <2> QED
    BY <1>1, <1>2, <2>2
<1>7. CASE e \in Noise \cup Ends \cup {[Say0 EXCEPT !.kind = "usage", !.usage = TRUE], Texts}
  <2>1. e.call = 0 /\ e.kind \notin CallKinds
    BY <1>7 DEF Noise, Malformed, LongLine, Comments, Ends, Texts, Mark, Say0, CallKinds
  <2> QED
    BY <2>1 DEF OfCalls
<1> QED
  BY <1>3, <1>4, <1>5, <1>6, <1>7 DEF ResponsesSays

\* And so is what a server says after garbled bytes.
LEMMA SaysOf ==
  ASSUME protocol = "responses", NEW e \in Says
  PROVE  OfCalls(e)
<1>1. CASE Saying({"malformed", "long"}) # {}
  <2>1. e \in {Texts, Mark}
    BY <1>1 DEF Says
  <2> QED
    BY <2>1 DEF OfCalls, Texts, Mark, Say0, CallKinds
<1>2. CASE Saying({"malformed", "long"}) = {}
  <2>1. e \in ResponsesSays
    BY <1>2 DEF Says
  <2> QED
    BY <2>1, ResponsesOf
<1> QED
  BY <1>1, <1>2

\* The calls stay numbered.
LEMMA StaysNumbered ==
  ASSUME IsList(said), Numbered(said), NEW e, OfCalls(e)
  PROVE  Numbered(Append(said, e))
<1> DEFINE list == Append(said, e)
           m == Len(said)
<1>1. /\ m \in Nat /\ Len(list) = m + 1 /\ DOMAIN said = 1 .. m
      /\ \A i \in 1 .. m : list[i] = said[i]
      /\ list[m + 1] = e
  BY AppendList
<1>2. PICK n \in Nat : CallsSaid = 1 .. n
  BY <1>1 DEF Numbered, CallsSaid
<1>3. Fresh = n + 1
  <2>1. Cardinality(1 .. n) = n
    BY FS_Interval
  <2> QED
    BY <1>2, <2>1 DEF Fresh
<1> HIDE DEF list
<1>4. \A k \in 1 .. m : said[k].call = 0 \/ said[k].call \in 1 .. n
  BY <1>1, <1>2 DEF CallsSaid
<1>5. e.call \in 0 .. n + 1 /\ (e.kind \in CallKinds => e.call # 0)
  BY <1>2, <1>3 DEF OfCalls
<1>6. \A k \in 1 .. Len(list) : list[k].kind \in CallKinds => list[k].call # 0
  <2> TAKE k \in 1 .. Len(list)
  <2>1. CASE k = m + 1
    BY <1>1, <1>5, <2>1
  <2>2. CASE k # m + 1
    <3>1. k \in 1 .. m
      BY <1>1, <2>2
    <3> QED
      BY <1>1, <3>1 DEF Numbered
  <2> QED
    BY <2>1, <2>2
<1>7. \A k \in 1 .. m : said[k].call = e.call /\ e.call # 0 => said[k].index = e.index
  <2> SUFFICES ASSUME NEW k \in 1 .. m, said[k].call = e.call, e.call # 0
               PROVE  said[k].index = e.index
    OBVIOUS
  <2>1. e.call \in CallsSaid /\ e.call # Fresh
    BY <1>2, <1>3, <1>4
  <2>2. e.index = CallIndex(e.call)
    BY <1>2, <2>1 DEF OfCalls
  <2> DEFINE j == CHOOSE j \in DOMAIN said : said[j].call = e.call
  <2>3. j \in 1 .. m /\ said[j].call = e.call
    BY <1>1
  <2>4. CallIndex(e.call) = said[j].index
    BY DEF CallIndex
  <2> HIDE DEF j
  <2> QED
    BY <2>2, <2>3, <2>4 DEF Numbered
<1>8. \A j \in 1 .. Len(list), k \in 1 .. Len(list) :
        list[j].call = list[k].call /\ list[j].call # 0 => list[j].index = list[k].index
  <2> SUFFICES ASSUME NEW j \in 1 .. Len(list), NEW k \in 1 .. Len(list),
                      list[j].call = list[k].call, list[j].call # 0
               PROVE  list[j].index = list[k].index
    OBVIOUS
  <2>1. (j \in 1 .. m \/ j = m + 1) /\ (k \in 1 .. m \/ k = m + 1)
    BY <1>1
  <2>2. CASE j \in 1 .. m /\ k \in 1 .. m
    BY <1>1, <2>2 DEF Numbered
  <2>3. CASE j = m + 1 /\ k \in 1 .. m
    BY <1>1, <1>7, <2>3
  <2>4. CASE j \in 1 .. m /\ k = m + 1
    BY <1>1, <1>7, <2>4
  <2> QED
    BY <2>1, <2>2, <2>3, <2>4
<1>9. \E x \in Nat : {list[k].call : k \in 1 .. Len(list)} \ {0} = 1 .. x
  <2>1. {list[k].call : k \in 1 .. Len(list)} = {said[k].call : k \in 1 .. m} \cup {e.call}
    BY <1>1
  <2>2. {said[k].call : k \in 1 .. m} \ {0} = 1 .. n
    BY <1>1, <1>2 DEF CallsSaid
  <2>3. CASE e.call = n + 1
    <3>1. {list[k].call : k \in 1 .. Len(list)} \ {0} = 1 .. n + 1
      <4> DEFINE A == {said[k].call : k \in 1 .. m}
      <4>1. A \ {0} = 1 .. n /\ {list[k].call : k \in 1 .. Len(list)} = A \cup {n + 1}
        BY <2>1, <2>2, <2>3
      <4> HIDE DEF A
      <4>2. (A \cup {n + 1}) \ {0} = (A \ {0}) \cup {n + 1} /\ (1 .. n) \cup {n + 1} = 1 .. n + 1
        OBVIOUS
      <4> QED
        BY <4>1, <4>2
    <3> QED
      BY <3>1
  <2>4. CASE e.call # n + 1
    <3>1. {list[k].call : k \in 1 .. Len(list)} \ {0} = 1 .. n
      BY <1>5, <2>1, <2>2, <2>4
    <3> QED
      BY <3>1
  <2> QED
    BY <2>3, <2>4
<1> QED
  BY <1>6, <1>8, <1>9 DEF Numbered, list

\* Nothing has been said and read.
LEMMA InitBlame == Init => BlameInv
<1> SUFFICES ASSUME Init PROVE BlameInv
  OBVIOUS
<1>1. IsList(<< >>) /\ Len(<< >>) = 0 /\ 1 .. 0 = {} /\ Elements(<< >>) = {}
  <2>1. << >> \in Seq(Elements(<< >>))
    OBVIOUS
  <2> QED
    BY <2>1 DEF IsList, Elements
<1>2. Feed(parser, wire) = NewParser
  BY FeedNothing DEF Init
<1>3. CleanOf(parser, wire, Len(said))
  BY <1>1, <1>2 DEF CleanOf, Settled, NewParser
<1>4. ~Json(acc)
  BY DEF Init, NewAccum, Json
<1>5. Numbered(said)
  <2>1. {said[k].call : k \in 1 .. Len(said)} \ {0} = 1 .. 0
    BY <1>1 DEF Init
  <2> QED
    BY <1>1, <2>1 DEF Init, Numbered
<1> QED
  BY <1>1, <1>3, <1>4, <1>5 DEF Init, BlameInv

\* The transfer has not ended and no event arrives: an honest step keeps it.
LEMMA HonestKeeps ==
  ASSUME BlameInv, UNCHANGED << protocol, said, rc >>,
         Honest(acc, acc') \/ GarbledIn(said) \/ (protocol = "responses" /\ PastLimitIn(said)) \/ rc = "fail",
         phase' # "closed" => phase # "closed",
         phase' # "closed" /\ ~GarbledIn(said) => CleanOf(parser', wire', Len(said))
  PROVE  BlameInv'
<1>1. IsList(said) /\ (protocol = "responses" => Numbered(said))
  BY DEF BlameInv
<1>2. IsList(said)' /\ (protocol = "responses" => Numbered(said))'
  BY <1>1
<1>3. (phase # "closed" => rc = "none")'
  BY DEF BlameInv
<1>4. (phase # "closed" /\ ~GarbledIn(said) => CleanOf(parser, wire, Len(said)))'
  BY Zenon
<1>5. (Json(acc) => GarbledIn(said) \/ (protocol = "responses" /\ PastLimitIn(said)) \/ rc = "fail")'
  <2>1. Json(acc') => GarbledIn(said) \/ (protocol = "responses" /\ PastLimitIn(said)) \/ rc = "fail"
    BY Zenon DEF BlameInv, Honest
  <2> QED
    BY <2>1, Zenon
<1> QED
  BY <1>2, <1>3, <1>4, <1>5, Zenon DEF BlameInv

\* A request that is refused, cannot be sent or is sent.
LEMMA RequestBlame ==
  ASSUME StreamInv, BlameInv,
         \/ acc' = acc
         \/ \E code \in {"401", "model", "http"} : acc' = EmitError(acc, code),
         phase # "closed", UNCHANGED << protocol, said, rc, parser, wire >>
  PROVE  BlameInv'
<1>1. AccumInv(acc)
  BY DEF StreamInv
<1>2. Honest(acc, acc')
  <2>1. CASE acc' = acc
    BY <2>1, QuietHonest
  <2>2. CASE \E code \in {"401", "model", "http"} : acc' = EmitError(acc, code)
    BY <1>1, <2>2, HonestOther
  <2> QED
    BY <2>1, <2>2
<1>3. phase' # "closed" /\ ~GarbledIn(said) => CleanOf(parser', wire', Len(said))
  BY DEF BlameInv
<1> QED
  BY <1>2, <1>3, HonestKeeps

\* The bytes of one more event.
LEMMA CleanSaid ==
  ASSUME form \in Forms, ParserInv(parser), IsList(wire), NEW n \in Nat, CleanOf(parser, wire, n),
         NEW e, e.kind # "long"
  PROVE  CleanOf(parser, wire \o Bytes(e, n + 1), n + 1)
<1> DEFINE b == Bytes(e, n + 1)
           q == Feed(parser, wire)
           r == Feed(q, b)
<1>1. ParserInv(q) /\ IsList(b) /\ Settled(q) /\ n + 1 \in Nat
  BY FeedKeeps, BytesAreList DEF CleanOf
<1>2. Feed(parser, wire \o b) = r
  BY <1>1, FeedConcat
<1>3. Settled(r) /\ Elements(r.emitted) \subseteq Elements(q.emitted) \cup {StreamDone, Payload(Payload2(n + 1))}
  BY <1>1, BytesFed
<1>4. \A ev \in Elements(q.emitted) : WasSaid(ev, n)
  BY DEF CleanOf
<1> HIDE DEF q, r, b
<1>5. n + 1 \in 1 .. n + 1 /\ \A k \in 1 .. n : k \in 1 .. n + 1
  OBVIOUS
<1>6. ASSUME NEW ev \in Elements(r.emitted) PROVE WasSaid(ev, n + 1)
  <2>1. WasSaid(ev, n) \/ ev = StreamDone \/ ev = Payload(Payload2(n + 1))
    BY <1>3, <1>4
  <2> QED
    BY <1>5, <2>1 DEF WasSaid
<1>7. Settled(Feed(parser, wire \o b)) /\ \A ev \in Elements(Feed(parser, wire \o b).emitted) : WasSaid(ev, n + 1)
  BY <1>2, <1>3, <1>6
<1> QED
  BY <1>7 DEF CleanOf, b

\* What was garbled or past the limit stays so.
LEMMA MoreSaid ==
  ASSUME NEW s, IsList(s), NEW e
  PROVE  /\ IsList(Append(s, e)) /\ Len(s) \in Nat /\ Len(Append(s, e)) = Len(s) + 1
         /\ GarbledIn(s) => GarbledIn(Append(s, e))
         /\ PastLimitIn(s) => PastLimitIn(Append(s, e))
         /\ e.kind \in {"malformed", "long"} => GarbledIn(Append(s, e))
<1> DEFINE t == Append(s, e)
<1>1. /\ IsList(t) /\ Len(s) \in Nat /\ Len(t) = Len(s) + 1
      /\ \A i \in 1 .. Len(s) : t[i] = s[i]
      /\ t[Len(s) + 1] = e
  BY AppendList
<1> HIDE DEF t
<1>2. (\A i \in 1 .. Len(s) : i \in 1 .. Len(t)) /\ Len(t) \in 1 .. Len(t)
  BY <1>1
<1>3. /\ GarbledIn(s) => GarbledIn(t)
      /\ PastLimitIn(s) => PastLimitIn(t)
      /\ e.kind \in {"malformed", "long"} => GarbledIn(t)
  BY <1>1, <1>2 DEF GarbledIn, PastLimitIn
<1> QED
  BY <1>1, <1>3 DEF t

\* An event of the server keeps the invariant.
LEMMA SaysBlame ==
  ASSUME StreamInv, BlameInv, ServerSays
  PROVE  BlameInv'
<1>1. PICK e \in Says : said' = Append(said, e) /\ wire' = wire \o Bytes(e, Len(said) + 1)
  BY Zenon DEF ServerSays
<1>2. phase = "open" /\ UNCHANGED << protocol, form, phase, parser, acc, rc >>
  BY Zenon DEF ServerSays
<1>3. /\ AccumInv(acc) /\ ParserInv(parser) /\ IsList(wire) /\ form \in Forms /\ IsList(said)
  BY DEF StreamInv, BlameInv
<1>4. /\ IsList(said') /\ Len(said) \in Nat /\ Len(said') = Len(said) + 1
      /\ GarbledIn(said) => GarbledIn(said')
      /\ PastLimitIn(said) => PastLimitIn(said')
      /\ e.kind \in {"malformed", "long"} => GarbledIn(said')
  BY <1>1, <1>3, MoreSaid
<1>5. ~GarbledIn(said') => CleanOf(parser', wire', Len(said'))
  <2> SUFFICES ASSUME ~GarbledIn(said') PROVE CleanOf(parser', wire', Len(said'))
    OBVIOUS
  <2>1. CleanOf(parser, wire, Len(said)) /\ e.kind # "long"
    BY <1>2, <1>4 DEF BlameInv
  <2>2. CleanOf(parser, wire \o Bytes(e, Len(said) + 1), Len(said) + 1)
    BY <1>3, <1>4, <2>1, CleanSaid
  <2> QED
    BY <1>1, <1>2, <1>4, <2>2
<1>6. protocol = "responses" => Numbered(said')
  <2> SUFFICES ASSUME protocol = "responses" PROVE Numbered(said')
    OBVIOUS
  <2>1. OfCalls(e) /\ Numbered(said)
    BY SaysOf DEF BlameInv
  <2> QED
    BY <1>1, <1>3, <2>1, StaysNumbered
<1>7. Json(acc') => GarbledIn(said') \/ (protocol = "responses" /\ PastLimitIn(said')) \/ rc = "fail"
  BY <1>2, <1>4, Zenon DEF BlameInv
<1>8. phase # "closed" => rc = "none"
  BY DEF BlameInv
<1> QED
  BY <1>2, <1>4, <1>5, <1>6, <1>7, <1>8 DEF BlameInv

\* A read in the middle of the bytes and the read of the rest make of them
\* what one read of all would.
LEMMA CleanRead ==
  ASSUME ParserInv(parser), IsList(wire), NEW n \in 1 .. Len(wire), NEW m, CleanOf(parser, wire, m),
         NEW fed, fed = Feed(parser, SubSeq(wire, 1, n)),
         NEW rest, rest = SubSeq(wire, n + 1, Len(wire))
  PROVE  /\ CleanOf([fed EXCEPT !.emitted = << >>], rest, m)
         /\ ParserInv(fed) /\ \A ev \in Elements(fed.emitted) : WasSaid(ev, m)
<1> DEFINE first == SubSeq(wire, 1, n)
<1>1. IsList(first) /\ IsList(rest)
  BY CutList
<1>2. first \o rest = wire
  <2> DEFINE S == Elements(wire)
  <2>1. wire \in Seq(S) /\ Len(wire) \in Nat
    BY AppendList DEF IsList
  <2> HIDE DEF S
  <2>2. /\ first \in Seq(S) /\ rest \in Seq(S)
        /\ Len(first) = n /\ Len(rest) = Len(wire) - n
        /\ \A i \in 1 .. n : first[i] = wire[i]
        /\ \A i \in 1 .. Len(wire) - n : rest[i] = wire[n + i]
    <3>1. \A i \in 1 .. Len(wire) : wire[i] \in S
      BY <2>1
    <3> QED
      BY <2>1, <3>1
  <2> HIDE DEF first
  <2> QED
    BY <2>1, <2>2, CutJoined
<1>3. Feed(parser, wire) = Feed(fed, rest)
  <2>1. Feed(parser, first \o rest) = Feed(Feed(parser, first), rest)
    BY <1>1, FeedConcat
  <2> QED
    BY <1>2, <2>1
<1>4. ParserInv(fed)
  BY <1>1, FeedKeeps
<1> DEFINE X == Elements(fed.emitted)
           p == [fed EXCEPT !.emitted = << >>]
<1>5. Behind(p, fed, X)
  <2>1. IsList(<< >>) /\ Elements(<< >>) = {}
    <3>1. << >> \in Seq(Elements(<< >>))
      OBVIOUS
    <3> QED
      BY <3>1 DEF IsList, Elements
  <2>2. DOMAIN fed = ParserFields
    BY <1>4 DEF ParserInv, ParserFields
  <2>3. /\ DOMAIN p = ParserFields /\ p.pending = fed.pending /\ p.data = fed.data
        /\ p.have = fed.have /\ p.done = fed.done /\ p.emitted = << >>
    BY <2>2 DEF ParserFields
  <2> HIDE DEF p, X
  <2>4. Elements(p.emitted) = {} /\ IsList(p.emitted)
    BY <2>1, <2>3
  <2>5. IsList(fed.emitted) /\ X = Elements(fed.emitted)
    BY <1>4 DEF ParserInv, X
  <2> QED
    BY <2>2, <2>3, <2>4, <2>5 DEF Behind
<1> HIDE DEF p, X
<1>6. Behind(Feed(p, rest), Feed(fed, rest), X)
  BY <1>1, <1>5, FeedBehind
<1> DEFINE a == Feed(p, rest)
           b == Feed(fed, rest)
<1>7. Settled(b) /\ \A ev \in Elements(b.emitted) : WasSaid(ev, m)
  BY <1>3 DEF CleanOf
<1> HIDE DEF a, b
<1>8. /\ a.pending = b.pending /\ a.data = b.data /\ a.have = b.have /\ a.done = b.done
      /\ Elements(b.emitted) = Elements(a.emitted) \cup X
  BY <1>6 DEF Behind, a, b
<1>9. Settled(a) /\ (\A ev \in Elements(a.emitted) : WasSaid(ev, m)) /\ \A ev \in X : WasSaid(ev, m)
  BY <1>7, <1>8 DEF Settled
<1>10. CleanOf(p, rest, m)
  BY <1>9 DEF CleanOf, a
<1> QED
  BY <1>4, <1>9, <1>10 DEF p, X

\* write_cb keeps it.
LEMMA ReadBlame ==
  ASSUME StreamInv, BlameInv, Read
  PROVE  BlameInv'
<1>1. PICK n \in 1 .. Len(wire) :
        LET fed == Feed(parser, SubSeq(wire, 1, n))
        IN /\ wire' = SubSeq(wire, n + 1, Len(wire))
           /\ acc' = Accumulated(fed)
           /\ parser' = [fed EXCEPT !.emitted = << >>]
           /\ phase' = IF TooLong(fed) THEN "refused" ELSE "open"
  BY Zenon DEF Read
<1> DEFINE fed == Feed(parser, SubSeq(wire, 1, n))
<1>2. phase = "open" /\ UNCHANGED << protocol, said, rc >>
  BY Zenon DEF Read
<1>3. /\ AccumInv(acc) /\ ParserInv(parser) /\ IsList(wire) /\ IsList(said)
      /\ protocol \in {"openai", "anthropic", "responses"}
  BY StreamAssumption DEF StreamInv, BlameInv
<1>4. /\ wire' = SubSeq(wire, n + 1, Len(wire))
      /\ acc' = Accumulated(fed)
      /\ parser' = [fed EXCEPT !.emitted = << >>]
      /\ phase' # "closed"
  BY <1>1, Zenon
<1>5. GarbledIn(said) \/ CleanOf(parser, wire, Len(said))
  BY <1>2 DEF BlameInv
<1>6. GarbledIn(said) \/ /\ CleanOf(parser', wire', Len(said)) /\ ParserInv(fed)
                         /\ \A ev \in Elements(fed.emitted) : WasSaid(ev, Len(said))
  BY <1>3, <1>4, <1>5, CleanRead
<1> HIDE DEF fed
<1>7. \/ Honest(acc, acc') \/ GarbledIn(said) \/ (protocol = "responses" /\ PastLimitIn(said))
  <2> SUFFICES ASSUME ~GarbledIn(said), protocol = "responses" => ~PastLimitIn(said)
               PROVE  Honest(acc, acc')
    BY Zenon
  <2>1. Honest(acc, Accumulated(fed))
    BY <1>3, <1>6, AccumulatedHonest
  <2> QED
    BY <1>4, <2>1
<1>8. phase' # "closed" /\ ~GarbledIn(said) => CleanOf(parser', wire', Len(said))
  BY <1>6
<1> QED
  BY <1>2, <1>7, <1>8, HonestKeeps

\* The end of a transfer that closed cleanly after all was read adds no event.
LEMMA FinishClean ==
  ASSUME ParserInv(parser), NEW m, CleanOf(parser, << >>, m), NEW last, last = Finish(parser)
  PROVE  last.emitted = parser.emitted /\ \A ev \in Elements(last.emitted) : WasSaid(ev, m)
<1>1. Settled(parser) /\ \A ev \in Elements(parser.emitted) : WasSaid(ev, m)
  BY FeedNothing DEF CleanOf
<1>2. last.emitted = parser.emitted
  <2>1. CASE parser.done
    BY <2>1 DEF Finish
  <2>2. CASE ~parser.done
    <3>1. parser.pending = << >> /\ ~parser.have
      BY <1>1, <2>2 DEF Settled
    <3>2. FlushEvent(parser) = parser
      BY <3>1 DEF FlushEvent
    <3>3. last = [parser EXCEPT !.pending = << >>, !.done = TRUE]
      BY <2>2, <3>1, <3>2 DEF Finish
    <3> QED
      BY <3>3 DEF ParserInv
  <2> QED
    BY <2>1, <2>2
<1> QED
  BY <1>1, <1>2

\* The end of a transfer, of any provider.
LEMMA DoneBlame ==
  ASSUME StreamInv, BlameInv, NEW how \in {"ok", "fail"}, NEW ended, NEW heard,
         heard = Accumulated(Finish(parser)),
         ended = heard \/ (AccumInv(ended) /\ Honest(heard, ended)),
         how = "ok" => phase = "open" /\ wire = << >>,
         acc' = IF how # "ok" THEN EmitError(ended, "http")
                ELSE IF status # 200 THEN EmitError(ended, "status")
                ELSE ended,
         phase' = "closed", rc' = how, UNCHANGED << protocol, said >>
  PROVE  BlameInv'
<1>1. /\ AccumInv(acc) /\ ParserInv(parser) /\ IsList(said)
      /\ protocol \in {"openai", "anthropic", "responses"}
  BY StreamAssumption DEF StreamInv, BlameInv
<1>2. IsList(said)' /\ (protocol = "responses" => Numbered(said))'
  BY DEF BlameInv
<1>3. CASE how = "fail"
  BY <1>2, <1>3 DEF BlameInv
<1>4. CASE how = "ok"
  <2>1. ParserInv(Finish(parser)) /\ AccumInv(heard)
    BY <1>1, FinishKeeps, AccumulatedKeeps
  <2>2. GarbledIn(said) \/ \A ev \in Elements(Finish(parser).emitted) : WasSaid(ev, Len(said))
    BY <1>1, <1>4, FinishClean DEF BlameInv
  <2>3. \/ Honest(acc, heard) \/ GarbledIn(said) \/ (protocol = "responses" /\ PastLimitIn(said))
    BY <1>1, <2>1, <2>2, AccumulatedHonest
  <2>4. AccumInv(ended) /\ Honest(heard, ended)
    BY <2>1, QuietHonest
  <2>5. Honest(ended, acc')
    BY <1>4, <2>4, HonestOther, QuietHonest
  <2>6. \/ Honest(acc, acc') \/ GarbledIn(said) \/ (protocol = "responses" /\ PastLimitIn(said))
    BY <2>3, <2>4, <2>5, QuietHonest, Zenon
  <2>7. rc = "none"
    BY <1>4 DEF BlameInv
  <2>8. Json(acc') => GarbledIn(said) \/ (protocol = "responses" /\ PastLimitIn(said))
    BY <2>6, <2>7, Zenon DEF BlameInv, Honest
  <2> QED
    BY <1>2, <2>8 DEF BlameInv
<1> QED
  BY <1>3, <1>4

\* Every step does.
LEMMA StepBlame == StreamInv /\ BlameInv /\ [Next]_vars => BlameInv'
<1> SUFFICES ASSUME StreamInv, BlameInv, [Next]_vars PROVE BlameInv'
  OBVIOUS
<1>1. CASE OpenaiRequest \/ AnthropicRequest \/ ResponsesRequest
  <2>1. /\ acc' = acc \/ acc' = EmitError(acc, "401") \/ acc' = EmitError(acc, "model")
        /\ phase = "idle" /\ UNCHANGED << protocol, said, rc, parser, wire >>
    BY <1>1, Zenon DEF OpenaiRequest, AnthropicRequest, ResponsesRequest, Request
  <2>2. phase # "closed" /\ (acc' = acc \/ \E code \in {"401", "model", "http"} : acc' = EmitError(acc, code))
    BY <2>1
  <2> QED
    BY <2>1, <2>2, RequestBlame
<1>2. CASE Begin
  <2>1. /\ acc' = acc \/ acc' = EmitError(acc, "http")
        /\ phase = "built" /\ UNCHANGED << protocol, said, rc, parser, wire >>
    BY <1>2, Zenon DEF Begin
  <2>2. phase # "closed" /\ (acc' = acc \/ \E code \in {"401", "model", "http"} : acc' = EmitError(acc, code))
    BY <2>1
  <2> QED
    BY <2>1, <2>2, RequestBlame
<1> DEFINE heard == Accumulated(Finish(parser))
<1>3. AccumInv(heard)
  <2>1. AccumInv(acc) /\ ParserInv(parser) /\ protocol \in {"openai", "anthropic", "responses"}
    BY StreamAssumption DEF StreamInv
  <2> QED
    BY <2>1, FinishKeeps, AccumulatedKeeps
<1>4. /\ AccumInv(OpenaiClosed(heard)) /\ AccumInv(AnthropicClosed(heard)) /\ AccumInv(ResponsesClosed(heard))
      /\ Honest(heard, OpenaiClosed(heard)) /\ Honest(heard, AnthropicClosed(heard))
      /\ Honest(heard, ResponsesClosed(heard))
  BY <1>3, ClosedHonest, OpenaiClosedEnds, AnthropicClosedEnds, ResponsesClosedEnds
<1>5. CASE OpenaiEnds
  <2>1. PICK how \in {"ok", "fail"} :
          LET ended == IF how = "ok" /\ status = 200 /\ ~Over(heard) THEN OpenaiClosed(heard) ELSE heard
          IN /\ how = "ok" => phase = "open" /\ wire = << >>
             /\ acc' = IF how # "ok" THEN EmitError(ended, "http")
                       ELSE IF status # 200 THEN EmitError(ended, "status")
                       ELSE ended
             /\ rc' = how
    BY <1>5, Zenon DEF OpenaiEnds, DoneCb
  <2>2. phase' = "closed" /\ UNCHANGED << protocol, said >>
    BY <1>5, Zenon DEF OpenaiEnds, DoneCb
  <2> DEFINE ended == IF how = "ok" /\ status = 200 /\ ~Over(heard) THEN OpenaiClosed(heard) ELSE heard
  <2>3. ended = heard \/ ended = OpenaiClosed(heard)
    OBVIOUS
  <2> HIDE DEF ended, heard
  <2>4. ended = heard \/ (AccumInv(ended) /\ Honest(heard, ended))
    BY <1>4, <2>3
  <2>5. acc' = IF how # "ok" THEN EmitError(ended, "http")
               ELSE IF status # 200 THEN EmitError(ended, "status")
               ELSE ended
    BY <2>1, Zenon DEF ended
  <2>6. (how = "ok" => phase = "open" /\ wire = << >>) /\ rc' = how
    BY <2>1, Zenon
  <2>7. heard = Accumulated(Finish(parser))
    BY DEF heard
  <2> QED
    BY <2>2, <2>4, <2>5, <2>6, <2>7, DoneBlame
<1>6. CASE AnthropicEnds
  <2>1. PICK how \in {"ok", "fail"} :
          LET ended == IF how = "ok" /\ status = 200 /\ ~Over(heard) THEN AnthropicClosed(heard) ELSE heard
          IN /\ how = "ok" => phase = "open" /\ wire = << >>
             /\ acc' = IF how # "ok" THEN EmitError(ended, "http")
                       ELSE IF status # 200 THEN EmitError(ended, "status")
                       ELSE ended
             /\ rc' = how
    BY <1>6, Zenon DEF AnthropicEnds, DoneCb
  <2>2. phase' = "closed" /\ UNCHANGED << protocol, said >>
    BY <1>6, Zenon DEF AnthropicEnds, DoneCb
  <2> DEFINE ended == IF how = "ok" /\ status = 200 /\ ~Over(heard) THEN AnthropicClosed(heard) ELSE heard
  <2>3. ended = heard \/ ended = AnthropicClosed(heard)
    OBVIOUS
  <2> HIDE DEF ended, heard
  <2>4. ended = heard \/ (AccumInv(ended) /\ Honest(heard, ended))
    BY <1>4, <2>3
  <2>5. acc' = IF how # "ok" THEN EmitError(ended, "http")
               ELSE IF status # 200 THEN EmitError(ended, "status")
               ELSE ended
    BY <2>1, Zenon DEF ended
  <2>6. (how = "ok" => phase = "open" /\ wire = << >>) /\ rc' = how
    BY <2>1, Zenon
  <2>7. heard = Accumulated(Finish(parser))
    BY DEF heard
  <2> QED
    BY <2>2, <2>4, <2>5, <2>6, <2>7, DoneBlame
<1>7. CASE ResponsesEnds
  <2>1. PICK how \in {"ok", "fail"} :
          LET ended == IF how = "ok" /\ status = 200 /\ ~Over(heard) THEN ResponsesClosed(heard) ELSE heard
          IN /\ how = "ok" => phase = "open" /\ wire = << >>
             /\ acc' = IF how # "ok" THEN EmitError(ended, "http")
                       ELSE IF status # 200 THEN EmitError(ended, "status")
                       ELSE ended
             /\ rc' = how
    BY <1>7, Zenon DEF ResponsesEnds, DoneCb
  <2>2. phase' = "closed" /\ UNCHANGED << protocol, said >>
    BY <1>7, Zenon DEF ResponsesEnds, DoneCb
  <2> DEFINE ended == IF how = "ok" /\ status = 200 /\ ~Over(heard) THEN ResponsesClosed(heard) ELSE heard
  <2>3. ended = heard \/ ended = ResponsesClosed(heard)
    OBVIOUS
  <2> HIDE DEF ended, heard
  <2>4. ended = heard \/ (AccumInv(ended) /\ Honest(heard, ended))
    BY <1>4, <2>3
  <2>5. acc' = IF how # "ok" THEN EmitError(ended, "http")
               ELSE IF status # 200 THEN EmitError(ended, "status")
               ELSE ended
    BY <2>1, Zenon DEF ended
  <2>6. (how = "ok" => phase = "open" /\ wire = << >>) /\ rc' = how
    BY <2>1, Zenon
  <2>7. heard = Accumulated(Finish(parser))
    BY DEF heard
  <2> QED
    BY <2>2, <2>4, <2>5, <2>6, <2>7, DoneBlame
<1>8. CASE ServerSays
  BY <1>8, SaysBlame
<1>9. CASE Read
  BY <1>9, ReadBlame
<1>10. CASE UNCHANGED vars
  BY <1>10, Zenon DEF vars, BlameInv, Numbered, GarbledIn, PastLimitIn, CleanOf, WasSaid
<1> QED
  BY <1>1, <1>2, <1>5, <1>6, <1>7, <1>8, <1>9, <1>10, Zenon DEF Next

\* A stream blamed as malformed has an event that was garbled or too long, a
\* call past the limit of accum_ensure_call, or a transfer that was cut.
LEMMA BlameEnough ==
  ASSUME BlameInv
  PROVE  HonestError
<1>1. DOMAIN said = 1 .. Len(said)
  BY AppendList DEF BlameInv
<1>2. GarbledIn(said) => Saying({"malformed", "long"}) # {}
  BY <1>1 DEF GarbledIn, Saying
<1>3. ASSUME protocol = "responses", PastLimitIn(said)
      PROVE  \E c \in CallsSaid : CallIndex(c) >= MaxToolCalls
  <2>1. PICK k \in 1 .. Len(said) : said[k].kind \in CallKinds /\ said[k].index >= MaxToolCalls
    BY <1>3, Zenon DEF PastLimitIn
  <2>2. said[k].call # 0
    BY <1>3, <2>1 DEF BlameInv, Numbered
  <2> DEFINE c == said[k].call
             j == CHOOSE j \in DOMAIN said : said[j].call = c
  <2>3. c \in CallsSaid
    BY <1>1, <2>2 DEF CallsSaid
  <2>4. j \in 1 .. Len(said) /\ said[j].call = c
    BY <1>1
  <2>5. CallIndex(c) = said[j].index
    BY DEF CallIndex
  <2> HIDE DEF j
  <2>6. said[j].index = said[k].index
    BY <1>3, <2>2, <2>4 DEF BlameInv, Numbered
  <2> QED
    BY <2>1, <2>3, <2>5, <2>6
<1>4. Json(acc) => GarbledIn(said) \/ (protocol = "responses" /\ PastLimitIn(said)) \/ rc = "fail"
  BY Zenon DEF BlameInv
<1> QED
  BY <1>2, <1>3, <1>4, Zenon DEF HonestError, Json

-----------------------------------------------------------------------------
(* The theorems. *)

\* What the parser emits is a list and the accumulator is over exactly when a
\* terminal event has gone out, which is then the last one: of every stream of
\* every provider (write_cb, sse_cb and done_cb).
THEOREM Inductive == Spec => []StreamInv
<1> QED
  BY InitInv, StepKeeps, PTL DEF Spec

\* A request ends exactly once for its agent: emit, emit_error and emit_done,
\* under every handler, with any read, any event and any end of the transfer.
THEOREM OneEnd == Spec => []EndsOnce
<1>1. StreamInv => EndsOnce
  <2> SUFFICES ASSUME StreamInv PROVE EndsOnce
    OBVIOUS
  <2>1. DOMAIN acc.out = 1 .. Len(acc.out)
    BY AppendList DEF StreamInv, AccumInv
  <2> QED
    BY <2>1 DEF StreamInv, AccumInv, EndsOnce
<1> QED
  BY <1>1, Inductive, PTL

\* A request body says what the conversation says, for each provider: its
\* calls and results in order and none twice; for anthropic, messages of one
\* role are one and the results of a message's calls begin the next one
\* (openai_build_request_body, anthropic_build_request_body and
\* responses_build_request_body).
THEOREM SaysTheConversation == Spec => []BodyFaithful
<1>1. Init => BodyFaithful
  BY DEF Init, BodyFaithful
<1>2. BodyFaithful /\ [Next]_vars => BodyFaithful'
  <2> SUFFICES ASSUME BodyFaithful, [Next]_vars PROVE BodyFaithful'
    OBVIOUS
  <2>1. CASE OpenaiRequest
    <3> SUFFICES ASSUME phase' = "built" PROVE BodyFaithful'
      BY DEF BodyFaithful
    <3>1. PICK list \in Histories, prompt \in BOOLEAN :
            conversation' = list /\ body' = OpenaiBody(list, prompt)
      BY <2>1 DEF OpenaiRequest, Request
    <3>2. list \in Seq(Speech) /\ protocol' # "anthropic"
      BY <2>1, StreamAssumption DEF OpenaiRequest, Request
    <3>3. Traffic(Blocks(OpenaiBody(list, prompt))) = ToolTraffic(list)
      BY <3>2, OpenaiFaithful
    <3> QED
      BY <3>1, <3>2, <3>3 DEF BodyFaithful
  <2>2. CASE AnthropicRequest
    <3> SUFFICES ASSUME phase' = "built" PROVE BodyFaithful'
      BY DEF BodyFaithful
    <3>1. PICK list \in Histories, prompt \in BOOLEAN :
            conversation' = list /\ body' = AnthropicBody(list, prompt)
      BY <2>2 DEF AnthropicRequest, Request
    <3>2. list \in Seq(Speech)
      BY StreamAssumption
    <3>3. /\ Traffic(Blocks(AnthropicBody(list, prompt))) = ToolTraffic(list)
          /\ Ordered(AnthropicBody(list, prompt), list)
      BY <3>2, AnthropicFaithful
    <3> QED
      BY <3>1, <3>3 DEF BodyFaithful
  <2>3. CASE ResponsesRequest
    <3> SUFFICES ASSUME phase' = "built" PROVE BodyFaithful'
      BY DEF BodyFaithful
    <3>1. PICK list \in Histories, prompt \in BOOLEAN :
            /\ conversation' = list /\ body' = ResponsesBody(list, prompt)
            /\ ResponsesBody(list, prompt) # Refused
      BY <2>3 DEF ResponsesRequest, Request
    <3>2. list \in Seq(Speech) /\ protocol' # "anthropic"
      BY <2>3, StreamAssumption DEF ResponsesRequest, Request
    <3>3. Traffic(Blocks(ResponsesBody(list, prompt))) = ToolTraffic(list)
      BY <3>1, <3>2, ResponsesFaithful
    <3> QED
      BY <3>1, <3>2, <3>3 DEF BodyFaithful
  <2>4. CASE Begin
    BY <2>4 DEF Begin, BodyFaithful
  <2>5. CASE ServerSays
    BY <2>5 DEF ServerSays, BodyFaithful
  <2>6. CASE Read
    <3>1. phase' \in {"refused", "open"}
      BY <2>6 DEF Read
    <3> QED
      BY <3>1 DEF BodyFaithful
  <2>7. CASE OpenaiEnds \/ AnthropicEnds \/ ResponsesEnds
    <3>1. phase' = "closed"
      BY <2>7, Zenon DEF OpenaiEnds, AnthropicEnds, ResponsesEnds, DoneCb
    <3> QED
      BY <3>1 DEF BodyFaithful
  <2>8. CASE UNCHANGED vars
    BY <2>8 DEF vars, BodyFaithful
  <2> QED
    BY <2>1, <2>2, <2>3, <2>4, <2>5, <2>6, <2>7, <2>8 DEF Next
<1> QED
  BY <1>1, <1>2, PTL DEF Spec

\* "malformed stream JSON" (emit_error of the three providers) is only said of
\* a stream in which a server said something garbled or endless, or numbered a
\* call past the limit, or which was cut: no division of well-formed bytes into
\* lines and reads makes sse_parser_feed or a handler blame it.
THEOREM BlamesOnlyGarbled == Spec => []HonestError
<1> QED
  BY Inductive, InitBlame, StepBlame, BlameEnough, PTL DEF Spec
=============================================================================
