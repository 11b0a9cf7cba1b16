--------------------------- MODULE SessionProofs ---------------------------
(* Safety of the session log for every value of its constants: what a load *)
(* rebuilds is the conversation the process holds, and whatever a crash    *)
(* leaves behind resumes.  A load is a fold over the lines; LoadAppend and *)
(* NotesAppend, that one more line is one more step of it, are what the    *)
(* steps of the specification rest on.  The lemmas about compaction repeat *)
(* those of AgentLoopProofs for the range a session records, whose start   *)
(* is 0: the two modules cannot extend one another.                        *)
EXTENDS Session, SequenceTheorems, WellFoundedInduction, TLAPS

\* What the rebuilding of a conversation passes through.
View == [ok : BOOLEAN, list : Seq(Talk)]
Start == [ok |-> TRUE, list |-> << >>]

\* A view a process can go on from.
Sound(view) == view.ok /\ NoOrphans(view.list)

\* The conversation ends inside a tool unit, or with the answer that opens it.
LastOpen(list) ==
  \E a \in 1 .. Len(list) : OpensUnit(list, a) /\ \A m \in a + 1 .. Len(list) : IsTool(list, m)

\* The file a crash, or nothing yet, can leave: a load succeeds, whether the
\* last line has its newline or is lost to what is appended behind it, and the
\* conversation of the process is longer by two messages at most, the line
\* lost and the one appended.  A tool result is added to a unit that is open.
FileInv ==
  ~missed =>
    /\ Sound(Load(file))
    /\ ~ended => Sound(Load(Front(file)))
    /\ up /\ ~ended => turn = "idle" /\ messages = Load(file).list
    /\ up => Len(messages) <= Len(Load(file).list) + 2
    /\ turn \in {"tools", "noted"} => LastOpen(Load(file).list)

\* The memory text stays within its limit, and is a number.
MemoryFits == memory \in 0 .. MemoryMax

SInv == TypeOK /\ MemoryFits /\ LoadsWhatIsLive

-----------------------------------------------------------------------------
(* Induction over a range, as a set of the numbers it holds for. *)

\* A nonempty set of natural numbers has a least element.
LEMMA LeastElement ==
  ASSUME NEW T \in SUBSET Nat, T # {}
  PROVE  \E x \in T : \A y \in T : x <= y
<1>1. PICK x \in T : \A y \in T : ~(<<y, x>> \in OpToRel(<, Nat))
  BY NatLessThanWellFounded, WFMin
<1>2. \A y \in T : ~(y < x)
  BY <1>1 DEF OpToRel
<1>3. T \subseteq Nat
  OBVIOUS
<1>4. ASSUME NEW y \in T PROVE x <= y
  <2>1. x \in Nat /\ y \in Nat
    BY <1>3
  <2>2. ~(y < x)
    BY <1>2
  <2> QED
    BY <2>1, <2>2
<1> QED
  BY <1>4

\* What holds at 0 and at each number after one it holds at holds everywhere.
LEMMA CountUp ==
  ASSUME NEW G, 0 \in G, NEW n \in Nat, \A k \in 1 .. n : k - 1 \in G => k \in G
  PROVE  \A k \in 0 .. n : k \in G
<1> DEFINE T == {k \in 0 .. n : k \notin G}
<1>1. SUFFICES ASSUME T # {} PROVE FALSE
  OBVIOUS
<1>2. T \in SUBSET Nat
  OBVIOUS
<1>3. PICK k \in T : \A y \in T : k <= y
  BY <1>1, <1>2, LeastElement
<1>4. k \in 0 .. n /\ k \notin G /\ k # 0
  BY <1>3
<1>5. k \in 1 .. n /\ k - 1 \in 0 .. n /\ ~(k <= k - 1)
  BY <1>4
<1>6. k - 1 \notin T
  BY <1>3, <1>5
<1> QED
  BY <1>4, <1>5, <1>6

\* Max of the community modules is the greatest element.
LEMMA Greatest ==
  ASSUME NEW n \in Nat, NEW S \in SUBSET (1 .. n), S # {}
  PROVE  Max(S) \in S /\ \A y \in S : Max(S) >= y
<1> DEFINE T == {n - x : x \in S}
<1>1. T \in SUBSET Nat /\ T # {}
  <2>1. \A x \in S : x \in 1 .. n
    OBVIOUS
  <2>2. \A x \in S : n - x \in Nat
    BY <2>1
  <2> QED
    BY <2>2
<1>2. PICK d \in T : \A y \in T : d <= y
  BY <1>1, LeastElement
<1>3. PICK m \in S : d = n - m
  BY <1>2
<1>4. ASSUME NEW y \in S PROVE m >= y
  <2>1. d <= n - y
    BY <1>2
  <2> QED
    BY <1>3, <2>1
<1> HIDE DEF T
<1>5. \E x \in S : \A y \in S : x >= y
  BY <1>4
<1> QED
  BY <1>5 DEF Max

\* The first n elements: the last of them and those before it.
LEMMA UpTo ==
  ASSUME NEW N \in Nat, NEW k \in 1 .. N
  PROVE  /\ 1 .. k \in SUBSET (1 .. N) /\ 1 .. k # {} /\ k \in 0 .. N /\ k - 1 \in 0 .. N
         /\ Max(1 .. k) = k /\ (1 .. k) \ {k} = 1 .. k - 1
<1>1. k \in Nat /\ k \in 0 .. N /\ k - 1 \in 0 .. N /\ k \in 1 .. k /\ k <= N
  OBVIOUS
<1>2. \A x \in 1 .. k : x \in 1 .. N
  BY <1>1
<1>3. 1 .. k \in SUBSET (1 .. k) /\ 1 .. k # {}
  BY <1>1
<1>4. Max(1 .. k) \in 1 .. k /\ Max(1 .. k) >= k
  BY <1>1, <1>3, Greatest
<1>5. Max(1 .. k) = k
  BY <1>1, <1>4
<1>6. (1 .. k) \ {k} = 1 .. k - 1
  BY <1>1
<1> QED
  BY <1>1, <1>2, <1>3, <1>5, <1>6

\* A set of the first n numbers is one of the first n - 1, with n or without.
LEMMA Shorter ==
  ASSUME NEW n \in Nat \ {0}, NEW s \in SUBSET (1 .. n), s # {}
  PROVE  /\ n \in s => Max(s) = n /\ s \ {n} \in SUBSET (1 .. n - 1)
         /\ n \notin s => s \in SUBSET (1 .. n - 1) /\ s \ {Max(s)} \in SUBSET (1 .. n - 1)
<1>1. \A x \in 1 .. n : x # n => x \in 1 .. n - 1
  OBVIOUS
<1>2. Max(s) \in s /\ (\A y \in s : Max(s) >= y) /\ Max(s) \in 1 .. n
  BY Greatest
<1>3. n \in s => Max(s) = n
  BY <1>2
<1> QED
  BY <1>1, <1>3

-----------------------------------------------------------------------------
(* Folds.  FoldLeft is a recursive function over sets of positions; `step' *)
(* is one step of the fold as a function, S its values, E the elements.    *)

FoldTable(f, step, base, q, n) ==
  f = [s \in SUBSET (1 .. n) |->
         IF s = {} THEN base ELSE step[<< f[s \ {Max(s)}], q[Max(s)] >>]]

\* The function exists.
LEMMA FoldTableExists ==
  ASSUME NEW S, NEW E, NEW step \in [S \X E -> S], NEW base \in S,
         NEW N \in Nat, NEW q \in [1 .. N -> E]
  PROVE  \E f \in [SUBSET (1 .. N) -> S] : FoldTable(f, step, base, q, N)
<1> USE DEF FoldTable
<1> DEFINE Has(n) == \E f \in [SUBSET (1 .. n) -> S] : FoldTable(f, step, base, q, n)
           G == {n \in 0 .. N : Has(n)}
<1>1. 0 \in G
  <2> DEFINE g == [s \in SUBSET (1 .. 0) |-> base]
  <2>1. \A s \in SUBSET (1 .. 0) : s = {}
    OBVIOUS
  <2>2. FoldTable(g, step, base, q, 0)
    BY <2>1
  <2>3. g \in [SUBSET (1 .. 0) -> S]
    OBVIOUS
  <2> HIDE DEF g, FoldTable
  <2>4. Has(0)
    BY <2>2, <2>3, Zenon
  <2>5. 0 \in 0 .. N
    OBVIOUS
  <2> HIDE DEF Has
  <2> QED
    BY <2>4, <2>5
<1>2. ASSUME NEW n \in 1 .. N, n - 1 \in G PROVE n \in G
  <2>1. n \in Nat \ {0} /\ n \in 0 .. N /\ q[n] \in E
    OBVIOUS
  <2>2. PICK f \in [SUBSET (1 .. n - 1) -> S] : FoldTable(f, step, base, q, n - 1)
    BY <1>2
  <2> DEFINE Val(s) == IF s = {} THEN base ELSE
                       IF n \in s THEN step[<< f[s \ {n}], q[n] >>] ELSE f[s]
             g == [s \in SUBSET (1 .. n) |-> Val(s)]
  <2>3. ASSUME NEW s \in SUBSET (1 .. n), s # {}
        PROVE  /\ g[s] = step[<< g[s \ {Max(s)}], q[Max(s)] >>]
               /\ g[s] \in S
    <3>1. CASE n \in s
      <4>1. Max(s) = n /\ s \ {n} \in SUBSET (1 .. n) /\ s \ {n} \in SUBSET (1 .. n - 1)
        BY <2>1, <2>3, <3>1, Shorter
      <4>2. g[s] = step[<< f[s \ {n}], q[n] >>]
        BY <2>3, <3>1
      <4>3. g[s \ {n}] = IF s \ {n} = {} THEN base ELSE f[s \ {n}]
        BY <4>1
      <4>4. f[s \ {n}] = IF s \ {n} = {} THEN base ELSE f[s \ {n}]
        BY <2>2, <4>1
      <4>5. f[s \ {n}] \in S
        BY <4>1
      <4> HIDE DEF g
      <4> QED
        BY <2>1, <4>1, <4>2, <4>3, <4>4, <4>5
    <3>2. CASE n \notin s
      <4> DEFINE m == Max(s)
      <4>1. s \in SUBSET (1 .. n - 1) /\ s \ {m} \in SUBSET (1 .. n) /\ n \notin s \ {m}
            /\ s \ {m} \in SUBSET (1 .. n - 1)
        BY <2>1, <2>3, <3>2, Shorter
      <4>2. g[s] = f[s]
        BY <2>3, <3>2
      <4>3. f[s] = step[<< f[s \ {m}], q[m] >>]
        BY <2>2, <2>3, <4>1
      <4>4. g[s \ {m}] = IF s \ {m} = {} THEN base ELSE f[s \ {m}]
        BY <4>1
      <4>5. f[s \ {m}] = IF s \ {m} = {} THEN base ELSE f[s \ {m}]
        BY <2>2, <4>1
      <4>6. f[s] \in S
        BY <4>1
      <4> HIDE DEF g, m
      <4> QED
        BY <4>2, <4>3, <4>4, <4>5, <4>6 DEF m
    <3> QED
      BY <3>1, <3>2
  <2>4. FoldTable(g, step, base, q, n) /\ g \in [SUBSET (1 .. n) -> S]
    <3>1. g[{}] = base
      OBVIOUS
    <3> HIDE DEF Val
    <3>2. g = [s \in SUBSET (1 .. n) |-> g[s]]
      OBVIOUS
    <3> HIDE DEF g
    <3>3. \A s \in SUBSET (1 .. n) :
            /\ g[s] = IF s = {} THEN base ELSE step[<< g[s \ {Max(s)}], q[Max(s)] >>]
            /\ g[s] \in S
      BY <2>3, <3>1
    <3> QED
      BY <3>2, <3>3
  <2> HIDE DEF g, FoldTable
  <2>5. Has(n)
    BY <2>4, Zenon
  <2> HIDE DEF Has
  <2> QED
    BY <2>1, <2>5
<1> HIDE DEF G
<1>a. \A n \in 1 .. N : n - 1 \in G => n \in G
  BY <1>2
<1>b. \A n \in 0 .. N : n \in G
  BY <1>1, <1>a, CountUp
<1>3. N \in G
  BY <1>b
<1> QED
  BY <1>3 DEF G

-----------------------------------------------------------------------------
(* Messages. *)

\* A conversation of a session is a conversation, of messages of three roles.
LEMMA TalkFacts ==
  /\ UserMessage \in Talk /\ UserMessage.role = "user"
  /\ \A calls \in CallLists : AssistantMessage(calls) \in Talk
  /\ \A i \in Nat \ {0} : ToolMessage(i) \in Talk
  /\ \A m \in Talk : m.role \in {"user", "assistant", "tool"}
<1>1. CallLists \subseteq Seq(Call)
  BY SessionAssumption
<1>2. \A m \in Talk : m \in Message /\ m.role # "system"
  BY DEF Talk
<1>3. << >> \in Seq(Call)
  OBVIOUS
<1>4. UserMessage \in Message /\ UserMessage.role = "user"
  BY <1>3 DEF UserMessage, Message, Roles
<1>5. ASSUME NEW calls \in CallLists
      PROVE  AssistantMessage(calls) \in Message /\ AssistantMessage(calls).role = "assistant"
  BY <1>1 DEF AssistantMessage, Message, Roles
<1>6. ASSUME NEW i \in Nat \ {0}
      PROVE  ToolMessage(i) \in Message /\ ToolMessage(i).role = "tool"
  BY <1>3 DEF ToolMessage, Message, Roles
<1>7. \A m \in Talk : m.role \in {"user", "assistant", "tool"}
  BY <1>2 DEF Message, Roles
<1> QED
  BY <1>4, <1>5, <1>6, <1>7 DEF Talk

\* The backwards scan of message_list_tool_safe_prefix_count stops inside its
\* range, at its first message or at one that is no tool result.
LEMMA UnitStartStops ==
  ASSUME NEW list \in Seq(Talk), NEW n \in Nat, n < Len(list)
  PROVE  LET e == UnitStart(list, 0, n)
         IN /\ e \in 0 .. n
            /\ e = 0 \/ ~IsTool(list, e + 1)
            /\ \A m \in e + 1 .. n : IsTool(list, m + 1)
<1> DEFINE Scan(k) == \E e \in 0 .. k : /\ e = 0 \/ ~IsTool(list, e + 1)
                                        /\ \A m \in e + 1 .. k : IsTool(list, m + 1)
           G == {k \in 0 .. n : Scan(k)}
<1>1. 0 \in G
  OBVIOUS
<1>2. ASSUME NEW k \in 1 .. n, k - 1 \in G PROVE k \in G
  <2>1. CASE ~IsTool(list, k + 1)
    BY <2>1
  <2>2. CASE IsTool(list, k + 1)
    <3>1. PICK e \in 0 .. k - 1 : /\ e = 0 \/ ~IsTool(list, e + 1)
                                  /\ \A m \in e + 1 .. k - 1 : IsTool(list, m + 1)
      BY <1>2
    <3>2. \A m \in e + 1 .. k : m \in e + 1 .. k - 1 \/ m = k
      OBVIOUS
    <3>3. e \in 0 .. k /\ \A m \in e + 1 .. k : IsTool(list, m + 1)
      BY <2>2, <3>1, <3>2
    <3> QED
      BY <3>1, <3>3
  <2> QED
    BY <2>1, <2>2
<1>3. n \in 0 .. n
  OBVIOUS
<1>4. n \in G
  <2> HIDE DEF G
  <2>1. \A k \in 1 .. n : k - 1 \in G => k \in G
    BY <1>2
  <2>2. \A k \in 0 .. n : k \in G
    BY <1>1, <2>1, CountUp
  <2> QED
    BY <1>3, <2>2
<1> QED
  BY <1>4 DEF UnitStart

\* The cut that compaction moves out of a tool unit: no further than asked
\* for, unchanged when asked for again, and in front of a message that begins
\* no kept tail with a tool result.
LEMMA SafePrefix ==
  ASSUME NEW list \in Seq(Talk), NEW n \in Nat \ {0}, n <= Len(list)
  PROVE  LET safe == ToolSafePrefix(list, 0, n)
         IN /\ safe \in 0 .. n
            /\ ToolSafePrefix(list, 0, safe) = safe
            /\ NoOrphans(list) => safe = Len(list) \/ ~IsTool(list, safe + 1)
<1> DEFINE back == UnitStart(list, 0, n)
<1>0. Len(list) \in Nat /\ n \in Nat /\ n # 0
  OBVIOUS
<1>1. \A k \in Nat \ {0} : k <= Len(list) =>
        ToolSafePrefix(list, 0, k)
          = IF k >= Len(list) THEN k
            ELSE IF ~IsTool(list, k + 1) THEN k
            ELSE IF OpensUnit(list, UnitStart(list, 0, k) + 1) THEN UnitStart(list, 0, k) - 0
            ELSE k
  BY <1>0 DEF ToolSafePrefix
<1>2. ToolSafePrefix(list, 0, 0) = 0
  BY DEF ToolSafePrefix
<1>3. CASE n >= Len(list) \/ ~IsTool(list, n + 1)
  BY <1>0, <1>1, <1>3
<1>4. CASE n < Len(list) /\ IsTool(list, n + 1)
  <2>1. /\ back \in 0 .. n
        /\ back = 0 \/ ~IsTool(list, back + 1)
        /\ \A m \in back + 1 .. n : IsTool(list, m + 1)
    BY <1>0, <1>4, UnitStartStops
  <2>2. CASE OpensUnit(list, back + 1)
    <3>1. ToolSafePrefix(list, 0, n) = back
      BY <1>0, <1>1, <1>4, <2>1, <2>2
    <3>2. ~IsTool(list, back + 1)
      BY <2>2 DEF OpensUnit, IsTool
    <3>3. ToolSafePrefix(list, 0, back) = back
      BY <1>0, <1>1, <1>2, <1>4, <2>1, <3>2
    <3> QED
      BY <2>1, <3>1, <3>2, <3>3
  <2>3. CASE ~OpensUnit(list, back + 1)
    <3>1. ToolSafePrefix(list, 0, n) = n
      BY <1>0, <1>1, <1>4, <2>3
    <3>2. ASSUME NoOrphans(list) PROVE FALSE
      <4>1. PICK a \in 1 .. n : /\ OpensUnit(list, a)
                                /\ \A m \in a + 1 .. n + 1 : IsTool(list, m)
        <5>1. n + 1 \in 1 .. Len(list) /\ (n + 1) - 1 = n
          BY <1>0, <1>4
        <5>2. Owned(list, n + 1)
          BY <1>4, <3>2, <5>1 DEF NoOrphans
        <5> QED
          BY <5>1, <5>2 DEF Owned
      <4>2. ~IsTool(list, a) /\ a \in Nat /\ back \in Nat
        BY <1>0, <2>1, <4>1 DEF OpensUnit, IsTool
      <4> HIDE DEF back
      <4>3. back + 1 # a
        BY <2>3, <4>1
      <4>4. CASE back + 1 > a
        <5>1. back # 0 /\ back + 1 \in a + 1 .. n + 1
          BY <1>0, <2>1, <4>1, <4>2, <4>4
        <5> QED
          BY <2>1, <4>1, <5>1
      <4>5. CASE back + 1 < a
        <5>1. a - 1 \in back + 1 .. n /\ (a - 1) + 1 = a
          BY <1>0, <2>1, <4>1, <4>2, <4>5
        <5>2. IsTool(list, (a - 1) + 1)
          BY <2>1, <5>1
        <5> QED
          BY <4>2, <5>1, <5>2
      <4> QED
        BY <4>2, <4>3, <4>4, <4>5
    <3> QED
      BY <1>0, <3>1, <3>2
  <2> QED
    BY <2>2, <2>3
<1> QED
  BY <1>0, <1>3, <1>4

\* Replacing the first messages by a summary gives a conversation.
LEMMA ReplaceType ==
  ASSUME NEW list \in Seq(Talk), NEW count \in 1 .. Len(list)
  PROVE  /\ Replace(list, 0, count, UserMessage) \in Seq(Talk)
         /\ Len(Replace(list, 0, count, UserMessage)) = Len(list) - count + 1
         /\ Replace(list, 0, count, UserMessage)[1] = UserMessage
         /\ \A k \in 2 .. Len(list) - count + 1 :
              Replace(list, 0, count, UserMessage)[k] = list[k + count - 1]
<1> DEFINE tail == SubSeq(list, count + 1, Len(list))
           new  == << UserMessage >> \o tail
<1>0. Len(list) \in Nat /\ UserMessage \in Talk /\ \A i \in 1 .. Len(list) : list[i] \in Talk
  BY TalkFacts, ElementOfSeq
<1>1. /\ tail \in Seq(Talk) /\ Len(tail) = Len(list) - count
      /\ \A i \in 1 .. Len(list) - count : tail[i] = list[count + i]
  BY <1>0, SubSeqProperties, Z3
<1>2. /\ << UserMessage >> \in Seq(Talk) /\ Len(<< UserMessage >>) = 1
      /\ << UserMessage >>[1] = UserMessage
  BY <1>0
<1>3. SubSeq(list, 1, 0) = << >>
  OBVIOUS
<1>4. << >> \o << UserMessage >> = << UserMessage >>
  BY <1>2, ConcatEmptySeq
<1>5. Replace(list, 0, count, UserMessage) = new
  <2>1. 0 + count + 1 = count + 1
    OBVIOUS
  <2> QED
    BY <1>3, <1>4, <2>1 DEF Replace
<1> HIDE DEF tail
<1>6. /\ new \in Seq(Talk) /\ Len(new) = 1 + Len(tail)
      /\ \A i \in 1 .. 1 + Len(tail) : new[i] = IF i <= 1 THEN << UserMessage >>[i] ELSE tail[i - 1]
  BY <1>1, <1>2, ConcatProperties, Z3
<1> HIDE DEF new
<1>7. Len(new) = Len(list) - count + 1 /\ new[1] = UserMessage
  BY <1>0, <1>1, <1>2, <1>6
<1>8. ASSUME NEW k \in 2 .. Len(list) - count + 1
      PROVE  new[k] = list[k + count - 1]
  <2>1. k - 1 \in 1 .. Len(list) - count /\ k \in 1 .. 1 + Len(tail) /\ ~(k <= 1)
        /\ count + (k - 1) = k + count - 1
    BY <1>0, <1>1
  <2>2. new[k] = tail[k - 1]
    BY <1>6, <2>1
  <2>3. tail[k - 1] = list[count + (k - 1)]
    BY <1>1, <2>1
  <2> QED
    BY <2>1, <2>2, <2>3
<1> QED
  BY <1>5, <1>6, <1>7, <1>8

\* It orphans nothing when the rest does not begin with a tool result.
LEMMA ReplaceKeepsUnits ==
  ASSUME NEW list \in Seq(Talk), NEW count \in 1 .. Len(list), NoOrphans(list),
         count = Len(list) \/ ~IsTool(list, count + 1)
  PROVE  NoOrphans(Replace(list, 0, count, UserMessage))
<1> DEFINE new == Replace(list, 0, count, UserMessage)
<1>1. /\ Len(new) = Len(list) - count + 1 /\ Len(list) \in Nat /\ new[1] = UserMessage
      /\ \A k \in 2 .. Len(new) : new[k] = list[k + count - 1]
  <2> HIDE DEF new
  <2>1. Len(list) \in Nat
    OBVIOUS
  <2>2. /\ Len(new) = Len(list) - count + 1 /\ new[1] = UserMessage
        /\ \A k \in 2 .. Len(list) - count + 1 : new[k] = list[k + count - 1]
    BY ReplaceType, Zenon DEF new
  <2> QED
    BY <2>1, <2>2
<1> HIDE DEF new
<1>2. ASSUME NEW k \in 1 .. Len(new), IsTool(new, k)
      PROVE  Owned(new, k)
  <2>1. k # 1
    BY <1>1, <1>2, TalkFacts DEF IsTool
  <2> DEFINE j == k + count - 1
  <2>2. j \in 1 .. Len(list) /\ j >= count + 1 /\ k \in 2 .. Len(new)
    BY <1>1, <2>1
  <2>3. IsTool(list, j)
    BY <1>1, <1>2, <2>2 DEF IsTool
  <2>4. PICK a \in 1 .. j - 1 : OpensUnit(list, a) /\ \A m \in a + 1 .. j : IsTool(list, m)
    BY <2>2, <2>3 DEF NoOrphans, Owned
  <2>5. a >= count + 1
    <3>1. ASSUME a < count + 1 PROVE FALSE
      <4>1. count + 1 \in a + 1 .. j \/ count + 1 = j
        BY <2>2, <2>4, <3>1
      <4>2. IsTool(list, count + 1)
        BY <2>3, <2>4, <4>1
      <4> QED
        BY <1>1, <2>2, <4>2
    <3> QED
      BY <3>1
  <2> DEFINE b == a - count + 1
  <2>6. b \in 1 .. k - 1 /\ b \in 2 .. Len(new) /\ b + count - 1 = a
    BY <1>1, <2>2, <2>4, <2>5
  <2>7. new[b] = list[a]
    BY <1>1, <2>6
  <2>8. ASSUME NEW m \in b + 1 .. k
        PROVE  IsTool(new, m)
    <3>1. m \in 2 .. Len(new) /\ m + count - 1 \in a + 1 .. j
      BY <1>1, <2>2, <2>6
    <3>2. new[m] = list[m + count - 1]
      BY <1>1, <3>1
    <3> QED
      BY <2>4, <3>1, <3>2 DEF IsTool
  <2>9. OpensUnit(new, b)
    BY <2>4, <2>7 DEF OpensUnit
  <2> QED
    BY <2>6, <2>8, <2>9 DEF Owned
<1> QED
  BY <1>2 DEF NoOrphans, new

\* A message added to a conversation.
LEMMA AppendFacts ==
  ASSUME NEW list \in Seq(Talk), NEW m \in Talk
  PROVE  /\ Append(list, m) \in Seq(Talk)
         /\ Len(list) \in Nat /\ Len(Append(list, m)) = Len(list) + 1
         /\ \A k \in 1 .. Len(list) : Append(list, m)[k] = list[k]
         /\ Append(list, m)[Len(list) + 1] = m
OBVIOUS

\* It orphans nothing, unless it is a tool result outside of a unit.
LEMMA AppendKeepsUnits ==
  ASSUME NEW list \in Seq(Talk), NEW m \in Talk, NoOrphans(list),
         m.role # "tool" \/ LastOpen(list)
  PROVE  NoOrphans(Append(list, m))
<1> DEFINE new == Append(list, m)
           n   == Len(list)
<1>1. /\ n \in Nat /\ Len(new) = n + 1 /\ new[n + 1] = m
      /\ \A k \in 1 .. n : new[k] = list[k]
  BY AppendFacts, Zenon
<1> HIDE DEF new, n
<1>2. ASSUME NEW k \in 1 .. n + 1, IsTool(new, k)
      PROVE  Owned(new, k)
  <2>1. CASE k # n + 1
    <3>1. k \in 1 .. n /\ IsTool(list, k)
      BY <1>1, <1>2, <2>1 DEF IsTool
    <3>2. PICK a \in 1 .. k - 1 : OpensUnit(list, a) /\ \A i \in a + 1 .. k : IsTool(list, i)
      BY <3>1 DEF NoOrphans, Owned, n
    <3>3. new[a] = list[a] /\ \A i \in a + 1 .. k : new[i] = list[i]
      BY <1>1, <3>1
    <3> QED
      BY <3>2, <3>3 DEF Owned, OpensUnit, IsTool
  <2>2. CASE k = n + 1
    <3>1. LastOpen(list)
      BY <1>1, <1>2, <2>2 DEF IsTool
    <3>2. PICK a \in 1 .. n : OpensUnit(list, a) /\ \A i \in a + 1 .. n : IsTool(list, i)
      BY <3>1 DEF LastOpen, n
    <3>3. a \in 1 .. k - 1 /\ new[a] = list[a] /\ \A i \in a + 1 .. n : new[i] = list[i]
      BY <1>1, <2>2
    <3>4. \A i \in a + 1 .. k : i \in a + 1 .. n \/ i = k
      BY <1>1, <2>2
    <3>5. \A i \in a + 1 .. k : IsTool(new, i)
      BY <1>2, <3>2, <3>3, <3>4 DEF IsTool
    <3>6. OpensUnit(new, a)
      BY <3>2, <3>3 DEF OpensUnit
    <3> QED
      BY <3>3, <3>5, <3>6 DEF Owned
  <2> QED
    BY <2>1, <2>2
<1> QED
  BY <1>1, <1>2 DEF NoOrphans, new

\* The answer with calls opens a unit, and a result leaves it open.
LEMMA AppendOpens ==
  ASSUME NEW list \in Seq(Talk), NEW m \in Talk,
         \/ m.role = "assistant" /\ m.calls # << >>
         \/ m.role = "tool" /\ LastOpen(list)
  PROVE  LastOpen(Append(list, m))
<1> DEFINE new == Append(list, m)
           n   == Len(list)
<1>1. /\ n \in Nat /\ Len(new) = n + 1 /\ new[n + 1] = m
      /\ \A k \in 1 .. n : new[k] = list[k]
  BY AppendFacts, Zenon
<1> HIDE DEF new, n
<1>2. CASE m.role = "assistant" /\ m.calls # << >>
  <2>1. n + 1 \in 1 .. Len(new) /\ \A i \in (n + 1) + 1 .. Len(new) : FALSE
    BY <1>1
  <2>2. OpensUnit(new, n + 1)
    BY <1>1, <1>2 DEF OpensUnit
  <2> QED
    BY <2>1, <2>2 DEF LastOpen, new
<1>3. CASE m.role = "tool" /\ LastOpen(list)
  <2>1. PICK a \in 1 .. n : OpensUnit(list, a) /\ \A i \in a + 1 .. n : IsTool(list, i)
    BY <1>3 DEF LastOpen, n
  <2>2. a \in 1 .. Len(new) /\ new[a] = list[a] /\ \A i \in a + 1 .. n : new[i] = list[i]
    BY <1>1
  <2>3. \A i \in a + 1 .. Len(new) : i \in a + 1 .. n \/ i = n + 1
    BY <1>1
  <2>4. \A i \in a + 1 .. Len(new) : IsTool(new, i)
    BY <1>1, <1>3, <2>1, <2>2, <2>3 DEF IsTool
  <2>5. OpensUnit(new, a)
    BY <2>1, <2>2 DEF OpensUnit
  <2> QED
    BY <2>2, <2>4, <2>5 DEF LastOpen, new
<1> QED
  BY <1>2, <1>3

\* What compaction_bounds gives for a session's conversation: a prefix that
\* leaves the least tail alone, that a replay does not shorten, and that the
\* live replacement replaces.
LEMMA BoundsFacts ==
  ASSUME NEW list \in Seq(Talk), CompactionBounds(list).count > 0
  PROVE  LET count == CompactionBounds(list).count
         IN /\ CompactionBounds(list).start = 0
            /\ count \in 1 .. Len(list) /\ count + MinKeep <= Len(list)
            /\ ToolSafePrefix(list, 0, count) = count
            /\ Compact(list, CompactionBounds(list), UserMessage)
                 = Replace(list, 0, count, UserMessage)
<1> DEFINE keep == IF KeepRecent < MinKeep THEN MinKeep ELSE KeepRecent
           b    == CompactionBounds(list)
<1>1. keep \in Nat /\ keep >= MinKeep /\ MinKeep \in Nat \ {0} /\ Len(list) \in Nat
  BY KeepAssumption
<1>2. ~(Len(list) <= MinKeep + 2 \/ Len(list) <= keep + 1)
  <2>1. SUFFICES ASSUME Len(list) <= MinKeep + 2 \/ Len(list) <= keep + 1 PROVE FALSE
    OBVIOUS
  <2>2. b = [start |-> 0, count |-> 0]
    BY <2>1 DEF CompactionBounds
  <2>3. b.count > 0
    OBVIOUS
  <2> HIDE DEF b
  <2> QED
    BY <2>2, <2>3
<1>3. list[1].role # "system"
  <2>1. 1 \in 1 .. Len(list)
    BY <1>1, <1>2
  <2>2. list[1] \in Talk
    BY <2>1, ElementOfSeq
  <2> QED
    BY <2>2 DEF Talk
<1> DEFINE n == Len(list) - 0 - keep
<1>4. b = [start |-> 0, count |-> ToolSafePrefix(list, 0, n)]
  BY <1>2, <1>3 DEF CompactionBounds
<1>5. n \in Nat \ {0} /\ n <= Len(list) /\ n + MinKeep <= Len(list)
  BY <1>1, <1>2
<1> HIDE DEF n, keep
<1>6. /\ ToolSafePrefix(list, 0, n) \in 0 .. n
      /\ ToolSafePrefix(list, 0, ToolSafePrefix(list, 0, n)) = ToolSafePrefix(list, 0, n)
  BY <1>5, SafePrefix
<1>7. b.start = 0 /\ b.count = ToolSafePrefix(list, 0, n) /\ b.count > 0
  BY <1>4
<1> HIDE DEF b
<1>8. /\ b.count \in 1 .. Len(list) /\ b.count + MinKeep <= Len(list)
      /\ ToolSafePrefix(list, 0, b.count) = b.count
  BY <1>1, <1>5, <1>6, <1>7
<1>9. Compact(list, b, UserMessage) = Replace(list, 0, b.count, UserMessage)
  <2>1. ~(b.count = 0 \/ b.start >= Len(list) \/ b.count > Len(list) - b.start
            \/ ToolSafePrefix(list, b.start, b.count) = 0)
    BY <1>1, <1>7, <1>8
  <2> QED
    BY <1>7, <1>8, <2>1 DEF Compact
<1> QED
  BY <1>7, <1>8, <1>9 DEF b

-----------------------------------------------------------------------------
(* One line of a load. *)

\* What a load can tell about a line of each type.
LEMMA LineFacts ==
  ASSUME NEW line \in Lines
  PROVE  /\ line.type = "message" => line.message \in Talk
         /\ line.type = "compaction" => line.start = 0 /\ line.count \in Nat \ {0}
         /\ line.type = "memory" => line.size \in NoteSizes
BY DEF Lines, Meta, Broken, Stats

\* Everything the code writes is a line.
LEMMA LinesWritten ==
  /\ Meta \in Lines /\ Meta.type = "meta"
  /\ Broken \in Lines /\ Broken.type = "broken"
  /\ Stats \in Lines /\ Stats.type = "stats"
  /\ \A m \in Talk : /\ MessageLine(m) \in Lines /\ MessageLine(m).type = "message"
                     /\ MessageLine(m).message = m
  /\ \A n \in NoteSizes : /\ MemoryLine(n) \in Lines /\ MemoryLine(n).type = "memory"
                          /\ MemoryLine(n).size = n
BY DEF Lines, Meta, Broken, Stats, MessageLine, MemoryLine

\* The line of a finished compaction.
LEMMA CompactionWritten ==
  ASSUME NEW list \in Seq(Talk), CompactionBounds(list).count > 0
  PROVE  LET line == CompactionLine(PersistedBounds(list))
         IN /\ line \in Lines /\ line.type = "compaction"
            /\ line.start = 0 /\ line.count = CompactionBounds(list).count
<1> DEFINE b == CompactionBounds(list)
<1>1. b.start = 0 /\ b.count \in 1 .. Len(list)
  BY BoundsFacts
<1>2. b.count \in Nat \ {0}
  BY <1>1
<1> HIDE DEF b
<1> QED
  BY <1>1, <1>2 DEF CompactionLine, PersistedBounds, b, Lines

\* A view with one of its fields replaced.
LEMMA ViewUpdate ==
  ASSUME NEW view \in View, NEW x
  PROVE  /\ [view EXCEPT !.ok = x] = [ok |-> x, list |-> view.list]
         /\ [view EXCEPT !.list = x] = [ok |-> view.ok, list |-> x]
<1>1. PICK ok \in BOOLEAN, list \in Seq(Talk) : view = [ok |-> ok, list |-> list]
  BY DEF View
<1>2. /\ [[ok |-> ok, list |-> list] EXCEPT !.ok = x] = [ok |-> x, list |-> list]
      /\ [[ok |-> ok, list |-> list] EXCEPT !.list = x] = [ok |-> ok, list |-> x]
  OBVIOUS
<1>3. view.ok = ok /\ view.list = list
  BY <1>1
<1> QED
  BY <1>1, <1>2, <1>3, Zenon

\* What one line adds to what a load has rebuilt, case by case.
LEMMA ReplayCases ==
  ASSUME NEW view \in View, NEW line \in Lines
  PROVE  LET new  == ReplayLine(view, line)
             safe == ToolSafePrefix(view.list, 0, line.count)
         IN /\ ~view.ok => new = view
            /\ line.type \notin {"message", "compaction"} => new = view
            /\ view.ok /\ line.type = "message" =>
                 new = [ok |-> TRUE, list |-> Append(view.list, line.message)]
            /\ view.ok /\ line.type = "compaction" =>
                 /\ line.count > Len(view.list) => new = [ok |-> FALSE, list |-> view.list]
                 /\ line.count <= Len(view.list) /\ safe = 0 => new = view
                 /\ line.count <= Len(view.list) /\ safe # 0 =>
                      new = [ok |-> TRUE, list |-> Replace(view.list, 0, safe, UserMessage)]
<1> DEFINE new == ReplayLine(view, line)
<1>1. view.ok \in BOOLEAN /\ view = [ok |-> view.ok, list |-> view.list] /\ Len(view.list) \in Nat
  BY DEF View
<1>2. ~view.ok => new = view
  BY DEF ReplayLine
<1>3. line.type \notin {"message", "compaction"} => new = view
  BY DEF ReplayLine
<1>4. ASSUME view.ok, line.type = "message"
      PROVE  new = [ok |-> TRUE, list |-> Append(view.list, line.message)]
  <2>1. new = [view EXCEPT !.list = Append(@, line.message)]
    BY <1>4 DEF ReplayLine
  <2> QED
    BY <1>1, <1>4, <2>1
<1>5. ASSUME view.ok, line.type = "compaction"
      PROVE  /\ line.count > Len(view.list) => new = [ok |-> FALSE, list |-> view.list]
             /\ line.count <= Len(view.list) =>
                  IF ToolSafePrefix(view.list, 0, line.count) = 0 THEN new = view
                  ELSE new = [ok |-> TRUE,
                              list |-> Replace(view.list, 0,
                                               ToolSafePrefix(view.list, 0, line.count), UserMessage)]
  <2>1. line.start = 0 /\ line.count \in Nat
    BY <1>5, LineFacts
  <2> DEFINE inRange == line.start <= Len(view.list) /\ line.count <= Len(view.list) - line.start
             safe    == ToolSafePrefix(view.list, line.start, line.count)
  <2>2. inRange <=> line.count <= Len(view.list)
    BY <1>1, <2>1
  <2>3. new = IF ~inRange THEN [view EXCEPT !.ok = FALSE]
              ELSE IF safe = 0 THEN view
              ELSE [view EXCEPT !.list = Replace(@, line.start, safe, UserMessage)]
    BY <1>5 DEF ReplayLine
  <2>4. safe = ToolSafePrefix(view.list, 0, line.count)
    BY <2>1
  <2>5. [view EXCEPT !.ok = FALSE] = [ok |-> FALSE, list |-> view.list]
    BY ViewUpdate, Zenon
  <2>6. [view EXCEPT !.list = Replace(@, line.start, safe, UserMessage)]
          = [ok |-> TRUE, list |-> Replace(view.list, 0, safe, UserMessage)]
    <3> DEFINE whole == Replace(view.list, 0, safe, UserMessage)
    <3>1. [view EXCEPT !.list = whole] = [ok |-> TRUE, list |-> whole]
      <4> HIDE DEF whole
      <4>1. view.ok = TRUE
        BY <1>1, <1>5
      <4> QED
        BY <4>1, ViewUpdate, Zenon
    <3>2. [view EXCEPT !.list = Replace(@, line.start, safe, UserMessage)]
            = [view EXCEPT !.list = whole]
      BY <2>1
    <3> QED
      BY <3>1, <3>2
  <2>7. line.count > Len(view.list) <=> ~(line.count <= Len(view.list))
    BY <1>1, <2>1
  <2> HIDE DEF inRange, safe, new
  <2> QED
    BY <2>2, <2>3, <2>4, <2>5, <2>6, <2>7
<1> HIDE DEF new
<1> QED
  BY <1>2, <1>3, <1>4, <1>5 DEF new

\* A line leaves a view, longer by one message at most.
LEMMA ReplayType ==
  ASSUME NEW view \in View, NEW line \in Lines
  PROVE  /\ ReplayLine(view, line) \in View
         /\ Len(ReplayLine(view, line).list) <= Len(view.list) + 1
<1> DEFINE new  == ReplayLine(view, line)
           safe == ToolSafePrefix(view.list, 0, line.count)
<1>1. view.ok \in BOOLEAN /\ view.list \in Seq(Talk) /\ Len(view.list) \in Nat
  BY DEF View
<1>2. ASSUME NEW list \in Seq(Talk), Len(list) <= Len(view.list) + 1,
             new = [ok |-> TRUE, list |-> list]
      PROVE  new \in View /\ Len(new.list) <= Len(view.list) + 1
  BY <1>2 DEF View
<1>3. CASE new = view
  BY <1>1, <1>3
<1>4. CASE view.ok /\ line.type = "message"
  <2>1. line.message \in Talk
    BY <1>4, LineFacts
  <2>2. /\ Append(view.list, line.message) \in Seq(Talk)
        /\ Len(Append(view.list, line.message)) <= Len(view.list) + 1
    BY <1>1, <2>1, AppendFacts
  <2>3. new = [ok |-> TRUE, list |-> Append(view.list, line.message)]
    BY <1>4, ReplayCases
  <2> HIDE DEF new
  <2> QED
    BY <1>2, <2>2, <2>3 DEF new
<1>5. CASE view.ok /\ line.type = "compaction" /\ new # view
  <2>1. line.count \in Nat \ {0}
    BY <1>5, LineFacts
  <2>2. CASE line.count > Len(view.list)
    <3>1. new = [ok |-> FALSE, list |-> view.list]
      BY <1>5, <2>2, ReplayCases
    <3> HIDE DEF new
    <3>2. new \in View /\ new.list = view.list
      BY <1>1, <3>1 DEF View
    <3>3. Len(new.list) <= Len(view.list) + 1
      BY <1>1, <3>2
    <3> QED
      BY <3>2, <3>3 DEF new
  <2>3. CASE line.count <= Len(view.list)
    <3>1. safe \in 0 .. line.count
      BY <1>1, <2>1, <2>3, SafePrefix
    <3>2. safe # 0 /\ new = [ok |-> TRUE, list |-> Replace(view.list, 0, safe, UserMessage)]
      BY <1>5, <2>3, ReplayCases
    <3> HIDE DEF new, safe
    <3>3. safe \in 1 .. Len(view.list)
      BY <1>1, <2>1, <2>3, <3>1, <3>2
    <3>4. /\ Replace(view.list, 0, safe, UserMessage) \in Seq(Talk)
          /\ Len(Replace(view.list, 0, safe, UserMessage)) = Len(view.list) - safe + 1
      BY <1>1, <3>3, ReplaceType
    <3>5. Len(Replace(view.list, 0, safe, UserMessage)) <= Len(view.list) + 1
      BY <1>1, <3>3, <3>4
    <3> QED
      BY <1>2, <3>2, <3>4, <3>5 DEF new
  <2> QED
    BY <1>1, <2>1, <2>2, <2>3
<1> QED
  <2>1. ~view.ok \/ line.type \notin {"message", "compaction"} => new = view
    BY ReplayCases
  <2> HIDE DEF new
  <2> QED
    BY <1>3, <1>4, <1>5, <2>1 DEF new

\* A line keeps a view one can go on from, if a tool result meets an open unit
\* and a range fits.
LEMMA ReplaySound ==
  ASSUME NEW view \in View, Sound(view), NEW line \in Lines,
         line.type = "message" => line.message.role # "tool" \/ LastOpen(view.list),
         line.type = "compaction" => line.count <= Len(view.list)
  PROVE  Sound(ReplayLine(view, line))
<1> DEFINE new  == ReplayLine(view, line)
           safe == ToolSafePrefix(view.list, 0, line.count)
<1>1. view.ok /\ NoOrphans(view.list) /\ view.list \in Seq(Talk) /\ Len(view.list) \in Nat
  BY DEF View, Sound
<1>2. ASSUME NEW list, NoOrphans(list), new = [ok |-> TRUE, list |-> list]
      PROVE  Sound(new)
  BY <1>2 DEF Sound
<1>3. CASE new = view
  BY <1>3
<1>4. CASE line.type = "message"
  <2>1. line.message \in Talk
    BY <1>4, LineFacts
  <2>2. NoOrphans(Append(view.list, line.message))
    BY <1>1, <1>4, <2>1, AppendKeepsUnits
  <2>3. new = [ok |-> TRUE, list |-> Append(view.list, line.message)]
    BY <1>1, <1>4, ReplayCases
  <2> HIDE DEF new
  <2> QED
    BY <1>2, <2>2, <2>3 DEF new
<1>5. CASE line.type = "compaction" /\ new # view
  <2>1. line.count \in Nat \ {0} /\ line.count <= Len(view.list)
    BY <1>5, LineFacts
  <2>2. /\ safe \in 0 .. line.count
        /\ safe = Len(view.list) \/ ~IsTool(view.list, safe + 1)
    BY <1>1, <2>1, SafePrefix
  <2>3. safe # 0 /\ new = [ok |-> TRUE, list |-> Replace(view.list, 0, safe, UserMessage)]
    BY <1>1, <1>5, <2>1, ReplayCases
  <2> HIDE DEF new, safe
  <2>4. safe \in 1 .. Len(view.list)
    BY <1>1, <2>1, <2>2, <2>3
  <2>5. NoOrphans(Replace(view.list, 0, safe, UserMessage))
    BY <1>1, <2>2, <2>4, ReplaceKeepsUnits
  <2> QED
    BY <1>2, <2>3, <2>5 DEF new
<1> QED
  <2>1. line.type \notin {"message", "compaction"} => new = view
    BY ReplayCases
  <2> HIDE DEF new
  <2> QED
    BY <1>3, <1>4, <1>5, <2>1 DEF new

\* memory_add stays within SESSION_MEMORY_MAX.
LEMMA MemoryAddBound ==
  ASSUME NEW used \in 0 .. MemoryMax, NEW size \in NoteSizes
  PROVE  MemoryAdd(used, size) \in 0 .. MemoryMax
<1>1. /\ LabelLen \in Nat /\ MemoryMax \in Nat /\ size \in Nat \ {0}
      /\ used \in Nat /\ used <= MemoryMax
  BY SessionAssumption
<1> DEFINE room == MemoryMax - used
           need == LabelLen + size + 6
           kept == IF need <= room THEN size
                   ELSE IF room > LabelLen + 6 THEN room - LabelLen - 6 ELSE 0
<1>2. kept \in Nat /\ (kept # 0 => used + LabelLen + kept + 4 <= MemoryMax)
  BY <1>1
<1>3. MemoryAdd(used, size) = IF used >= MemoryMax THEN used
                              ELSE IF kept = 0 THEN used
                              ELSE used + LabelLen + kept + 4
  BY DEF MemoryAdd
<1> HIDE DEF kept
<1> QED
  BY <1>1, <1>2, <1>3

-----------------------------------------------------------------------------
(* The two folds of a load, session_load_messages and the memory notes of  *)
(* session_open.                                                           *)

\* Where a load starts: nothing is refused, and no tool result is an orphan.
LEMMA StartFacts ==
  Start \in View /\ Sound(Start) /\ Start.list = << >>
BY DEF Start, View, Sound, NoOrphans

\* A note, or any other line, keeps the memory text within its limit.
LEMMA NoteType ==
  ASSUME NEW used \in 0 .. MemoryMax, NEW line \in Lines
  PROVE  ReplayNote(used, line) \in 0 .. MemoryMax
<1>1. CASE line.type = "memory"
  BY <1>1, LineFacts, MemoryAddBound DEF ReplayNote
<1>2. CASE line.type # "memory"
  BY <1>2 DEF ReplayNote
<1> QED
  BY <1>1, <1>2

\* There is no text before the first note.
LEMMA NoNotes == 0 \in 0 .. MemoryMax
BY SessionAssumption

\* The recursive function in Load.
LoadTable(f, q) ==
  f = [s \in SUBSET (1 .. Len(q)) |->
         IF s = {} THEN Start ELSE ReplayLine(f[s \ {Max(s)}], q[Max(s)])]

\* It has a value for each set of lines.
LEMMA LoadTableExists ==
  ASSUME NEW q \in Seq(Lines)
  PROVE  \E f : LoadTable(f, q)
<1> DEFINE n    == Len(q)
           step == [p \in View \X Lines |-> ReplayLine(p[1], p[2])]
<1>1. n \in Nat /\ q \in [1 .. n -> Lines]
  OBVIOUS
<1>2. \A v \in View, line \in Lines : ReplayLine(v, line) \in View
  BY ReplayType
<1>3. \A p \in View \X Lines : p[1] \in View /\ p[2] \in Lines
  OBVIOUS
<1>4. step \in [View \X Lines -> View]
  BY <1>2, <1>3, Zenon
<1>5. Start \in View
  BY StartFacts
<1>6. \A v \in View, line \in Lines : step[<< v, line >>] = ReplayLine(v, line)
  OBVIOUS
<1> HIDE DEF n, step
<1>7. PICK f \in [SUBSET (1 .. n) -> View] : FoldTable(f, step, Start, q, n)
  BY <1>1, <1>4, <1>5, FoldTableExists
<1>8. ASSUME NEW s \in SUBSET (1 .. n), s # {}
      PROVE  step[<< f[s \ {Max(s)}], q[Max(s)] >>] = ReplayLine(f[s \ {Max(s)}], q[Max(s)])
  <2>1. Max(s) \in 1 .. n
    BY <1>1, <1>8, Greatest
  <2>2. s \ {Max(s)} \in SUBSET (1 .. n)
    OBVIOUS
  <2>3. f[s \ {Max(s)}] \in View /\ q[Max(s)] \in Lines
    BY <1>1, <2>1, <2>2
  <2> QED
    BY <1>6, <2>3
<1>9. f = [s \in SUBSET (1 .. n) |->
             IF s = {} THEN Start ELSE step[<< f[s \ {Max(s)}], q[Max(s)] >>]]
  BY <1>7 DEF FoldTable
<1>10. f = [s \in SUBSET (1 .. n) |->
             IF s = {} THEN Start ELSE ReplayLine(f[s \ {Max(s)}], q[Max(s)])]
  BY <1>8, <1>9
<1> QED
  BY <1>10 DEF LoadTable, n

\* session_load_messages takes the lines one after the other.
LEMMA LoadRuns ==
  ASSUME NEW q \in Seq(Lines)
  PROVE  \E f : /\ f[0] = Start /\ Load(q) = f[Len(q)]
                /\ \A k \in 1 .. Len(q) : f[k] = ReplayLine(f[k - 1], q[k])
<1> DEFINE n == Len(q)
<1>0. n \in Nat /\ DOMAIN q = 1 .. n
  OBVIOUS
<1> HIDE DEF n
<1> DEFINE iter[s \in SUBSET (1 .. n)] ==
             IF s = {} THEN Start ELSE ReplayLine(iter[s \ {Max(s)}], q[Max(s)])
<1>1. Load(q) = iter[1 .. n]
  BY <1>0 DEF Load, FoldLeft, MapThenFoldSet, Start
<1>2. iter = CHOOSE f : LoadTable(f, q)
  BY DEF LoadTable, n
<1> HIDE DEF iter
<1>3. LoadTable(iter, q)
  BY LoadTableExists, <1>2, Zenon
<1> DEFINE f == [k \in 0 .. n |-> iter[1 .. k]]
<1>4. f[0] = Start
  <2>1. 1 .. 0 = {} /\ 0 \in 0 .. n /\ {} \in SUBSET (1 .. n)
    BY <1>0
  <2>2. iter[{}] = Start
    BY <1>3, <2>1 DEF LoadTable, n
  <2> QED
    BY <2>1, <2>2
<1>5. ASSUME NEW k \in 1 .. n PROVE f[k] = ReplayLine(f[k - 1], q[k])
  <2>1. /\ 1 .. k \in SUBSET (1 .. n) /\ 1 .. k # {} /\ k \in 0 .. n /\ k - 1 \in 0 .. n
        /\ Max(1 .. k) = k /\ (1 .. k) \ {k} = 1 .. k - 1
    BY <1>0, UpTo
  <2>2. iter[1 .. k] = ReplayLine(iter[1 .. k - 1], q[k])
    BY <1>3, <2>1 DEF LoadTable, n
  <2> QED
    BY <2>1, <2>2
<1>6. f[n] = iter[1 .. n]
  BY <1>0
<1> HIDE DEF f
<1> QED
  BY <1>1, <1>4, <1>5, <1>6 DEF n

\* The recursive function in Notes.
NotesTable(f, q) ==
  f = [s \in SUBSET (1 .. Len(q)) |->
         IF s = {} THEN 0 ELSE ReplayNote(f[s \ {Max(s)}], q[Max(s)])]

\* It has a value for each set of lines.
LEMMA NotesTableExists ==
  ASSUME NEW q \in Seq(Lines)
  PROVE  \E f : NotesTable(f, q)
<1> DEFINE n    == Len(q)
           step == [p \in (0 .. MemoryMax) \X Lines |-> ReplayNote(p[1], p[2])]
<1>1. n \in Nat /\ q \in [1 .. n -> Lines]
  OBVIOUS
<1>2. \A v \in (0 .. MemoryMax), line \in Lines : ReplayNote(v, line) \in (0 .. MemoryMax)
  BY NoteType
<1>3. \A p \in (0 .. MemoryMax) \X Lines : p[1] \in (0 .. MemoryMax) /\ p[2] \in Lines
  OBVIOUS
<1>4. step \in [(0 .. MemoryMax) \X Lines -> (0 .. MemoryMax)]
  BY <1>2, <1>3, Zenon
<1>5. 0 \in (0 .. MemoryMax)
  BY NoNotes
<1>6. \A v \in (0 .. MemoryMax), line \in Lines : step[<< v, line >>] = ReplayNote(v, line)
  OBVIOUS
<1> HIDE DEF n, step
<1>7. PICK f \in [SUBSET (1 .. n) -> (0 .. MemoryMax)] : FoldTable(f, step, 0, q, n)
  BY <1>1, <1>4, <1>5, FoldTableExists
<1>8. ASSUME NEW s \in SUBSET (1 .. n), s # {}
      PROVE  step[<< f[s \ {Max(s)}], q[Max(s)] >>] = ReplayNote(f[s \ {Max(s)}], q[Max(s)])
  <2>1. Max(s) \in 1 .. n
    BY <1>1, <1>8, Greatest
  <2>2. s \ {Max(s)} \in SUBSET (1 .. n)
    OBVIOUS
  <2>3. f[s \ {Max(s)}] \in (0 .. MemoryMax) /\ q[Max(s)] \in Lines
    BY <1>1, <2>1, <2>2
  <2> QED
    BY <1>6, <2>3
<1>9. f = [s \in SUBSET (1 .. n) |->
             IF s = {} THEN 0 ELSE step[<< f[s \ {Max(s)}], q[Max(s)] >>]]
  BY <1>7 DEF FoldTable
<1>10. f = [s \in SUBSET (1 .. n) |->
             IF s = {} THEN 0 ELSE ReplayNote(f[s \ {Max(s)}], q[Max(s)])]
  BY <1>8, <1>9
<1> QED
  BY <1>10 DEF NotesTable, n

\* session_open takes the notes one after the other.
LEMMA NotesRuns ==
  ASSUME NEW q \in Seq(Lines)
  PROVE  \E f : /\ f[0] = 0 /\ Notes(q) = f[Len(q)]
                /\ \A k \in 1 .. Len(q) : f[k] = ReplayNote(f[k - 1], q[k])
<1> DEFINE n == Len(q)
<1>0. n \in Nat /\ DOMAIN q = 1 .. n
  OBVIOUS
<1> HIDE DEF n
<1> DEFINE iter[s \in SUBSET (1 .. n)] ==
             IF s = {} THEN 0 ELSE ReplayNote(iter[s \ {Max(s)}], q[Max(s)])
<1>1. Notes(q) = iter[1 .. n]
  BY <1>0 DEF Notes, FoldLeft, MapThenFoldSet
<1>2. iter = CHOOSE f : NotesTable(f, q)
  BY DEF NotesTable, n
<1> HIDE DEF iter
<1>3. NotesTable(iter, q)
  BY NotesTableExists, <1>2, Zenon
<1> DEFINE f == [k \in 0 .. n |-> iter[1 .. k]]
<1>4. f[0] = 0
  <2>1. 1 .. 0 = {} /\ 0 \in 0 .. n /\ {} \in SUBSET (1 .. n)
    BY <1>0
  <2>2. iter[{}] = 0
    BY <1>3, <2>1 DEF NotesTable, n
  <2> QED
    BY <2>1, <2>2
<1>5. ASSUME NEW k \in 1 .. n PROVE f[k] = ReplayNote(f[k - 1], q[k])
  <2>1. /\ 1 .. k \in SUBSET (1 .. n) /\ 1 .. k # {} /\ k \in 0 .. n /\ k - 1 \in 0 .. n
        /\ Max(1 .. k) = k /\ (1 .. k) \ {k} = 1 .. k - 1
    BY <1>0, UpTo
  <2>2. iter[1 .. k] = ReplayNote(iter[1 .. k - 1], q[k])
    BY <1>3, <2>1 DEF NotesTable, n
  <2> QED
    BY <2>1, <2>2
<1>6. f[n] = iter[1 .. n]
  BY <1>0
<1> HIDE DEF f
<1> QED
  BY <1>1, <1>4, <1>5, <1>6 DEF n

\* What a load rebuilds is a view.
LEMMA LoadType ==
  ASSUME NEW q \in Seq(Lines)
  PROVE  Load(q) \in View
<1> DEFINE n == Len(q)
<1>1. n \in Nat /\ n \in 0 .. n /\ \A k \in 1 .. n : q[k] \in Lines
  BY ElementOfSeq
<1>2. PICK f : /\ f[0] = Start /\ Load(q) = f[n]
               /\ \A k \in 1 .. n : f[k] = ReplayLine(f[k - 1], q[k])
  BY LoadRuns
<1> HIDE DEF n
<1> DEFINE G == {k \in 0 .. n : f[k] \in View}
<1>3. 0 \in G
  <2>1. Start \in View
    BY StartFacts
  <2> QED
    BY <1>1, <1>2, <2>1
<1>4. ASSUME NEW k \in 1 .. n, k - 1 \in G PROVE k \in G
  <2>1. f[k - 1] \in View /\ q[k] \in Lines /\ k \in 0 .. n
    BY <1>1, <1>4
  <2>2. ReplayLine(f[k - 1], q[k]) \in View
    BY <2>1, ReplayType
  <2> QED
    BY <1>2, <2>1, <2>2
<1> HIDE DEF G
<1>5. \A k \in 1 .. n : k - 1 \in G => k \in G
  BY <1>4
<1>6. n \in G
  BY <1>1, <1>3, <1>5, CountUp
<1> QED
  BY <1>2, <1>6 DEF G

\* Nothing is rebuilt from nothing.
LEMMA LoadEmpty ==
  Load(<< >>) = Start
<1>1. << >> \in Seq(Lines) /\ Len(<< >>) = 0
  OBVIOUS
<1> QED
  BY <1>1, LoadRuns

\* One more line is one more step.
LEMMA LoadAppend ==
  ASSUME NEW q \in Seq(Lines), NEW line \in Lines
  PROVE  Load(Append(q, line)) = ReplayLine(Load(q), line)
<1> DEFINE n   == Len(q)
           new == Append(q, line)
<1>1. /\ n \in Nat /\ n \in 0 .. n /\ new \in Seq(Lines) /\ Len(new) = n + 1
      /\ new[n + 1] = line /\ \A k \in 1 .. n : new[k] = q[k]
      /\ \A k \in 1 .. n : k \in 1 .. n + 1
      /\ n + 1 \in 1 .. n + 1 /\ (n + 1) - 1 = n
  OBVIOUS
<1>2. PICK f : /\ f[0] = Start /\ Load(q) = f[n]
               /\ \A k \in 1 .. n : f[k] = ReplayLine(f[k - 1], q[k])
  BY LoadRuns
<1> HIDE DEF n, new
<1>3. PICK g : /\ g[0] = Start /\ Load(new) = g[Len(new)]
               /\ \A k \in 1 .. Len(new) : g[k] = ReplayLine(g[k - 1], new[k])
  BY <1>1, LoadRuns
<1> DEFINE G == {k \in 0 .. n : f[k] = g[k]}
<1>4. 0 \in G
  BY <1>1, <1>2, <1>3
<1>5. ASSUME NEW k \in 1 .. n, k - 1 \in G PROVE k \in G
  <2>1. f[k - 1] = g[k - 1] /\ k \in 0 .. n /\ k \in 1 .. Len(new)
    BY <1>1, <1>5
  <2>2. f[k] = ReplayLine(f[k - 1], q[k]) /\ g[k] = ReplayLine(g[k - 1], q[k])
    BY <1>1, <1>2, <1>3, <2>1
  <2> QED
    BY <2>1, <2>2
<1> HIDE DEF G
<1>6. \A k \in 1 .. n : k - 1 \in G => k \in G
  BY <1>5
<1>7. n \in G
  BY <1>1, <1>4, <1>6, CountUp
<1>8. f[n] = g[n]
  BY <1>7 DEF G
<1>9. g[n + 1] = ReplayLine(g[n], line)
  BY <1>1, <1>3
<1> QED
  BY <1>1, <1>2, <1>3, <1>8, <1>9 DEF new

\* A load keeps the memory text within SESSION_MEMORY_MAX, whatever the file.
LEMMA NotesType ==
  ASSUME NEW q \in Seq(Lines)
  PROVE  Notes(q) \in (0 .. MemoryMax)
<1> DEFINE n == Len(q)
<1>1. n \in Nat /\ n \in 0 .. n /\ \A k \in 1 .. n : q[k] \in Lines
  BY ElementOfSeq
<1>2. PICK f : /\ f[0] = 0 /\ Notes(q) = f[n]
               /\ \A k \in 1 .. n : f[k] = ReplayNote(f[k - 1], q[k])
  BY NotesRuns
<1> HIDE DEF n
<1> DEFINE G == {k \in 0 .. n : f[k] \in (0 .. MemoryMax)}
<1>3. 0 \in G
  <2>1. 0 \in (0 .. MemoryMax)
    BY NoNotes
  <2> QED
    BY <1>1, <1>2, <2>1
<1>4. ASSUME NEW k \in 1 .. n, k - 1 \in G PROVE k \in G
  <2>1. f[k - 1] \in (0 .. MemoryMax) /\ q[k] \in Lines /\ k \in 0 .. n
    BY <1>1, <1>4
  <2>2. ReplayNote(f[k - 1], q[k]) \in (0 .. MemoryMax)
    BY <2>1, NoteType
  <2> QED
    BY <1>2, <2>1, <2>2
<1> HIDE DEF G
<1>5. \A k \in 1 .. n : k - 1 \in G => k \in G
  BY <1>4
<1>6. n \in G
  BY <1>1, <1>3, <1>5, CountUp
<1> QED
  BY <1>2, <1>6 DEF G

\* No text comes from nothing.
LEMMA NotesEmpty ==
  Notes(<< >>) = 0
<1>1. << >> \in Seq(Lines) /\ Len(<< >>) = 0
  OBVIOUS
<1> QED
  BY <1>1, NotesRuns

\* One more line is one more step.
LEMMA NotesAppend ==
  ASSUME NEW q \in Seq(Lines), NEW line \in Lines
  PROVE  Notes(Append(q, line)) = ReplayNote(Notes(q), line)
<1> DEFINE n   == Len(q)
           new == Append(q, line)
<1>1. /\ n \in Nat /\ n \in 0 .. n /\ new \in Seq(Lines) /\ Len(new) = n + 1
      /\ new[n + 1] = line /\ \A k \in 1 .. n : new[k] = q[k]
      /\ \A k \in 1 .. n : k \in 1 .. n + 1
      /\ n + 1 \in 1 .. n + 1 /\ (n + 1) - 1 = n
  OBVIOUS
<1>2. PICK f : /\ f[0] = 0 /\ Notes(q) = f[n]
               /\ \A k \in 1 .. n : f[k] = ReplayNote(f[k - 1], q[k])
  BY NotesRuns
<1> HIDE DEF n, new
<1>3. PICK g : /\ g[0] = 0 /\ Notes(new) = g[Len(new)]
               /\ \A k \in 1 .. Len(new) : g[k] = ReplayNote(g[k - 1], new[k])
  BY <1>1, NotesRuns
<1> DEFINE G == {k \in 0 .. n : f[k] = g[k]}
<1>4. 0 \in G
  BY <1>1, <1>2, <1>3
<1>5. ASSUME NEW k \in 1 .. n, k - 1 \in G PROVE k \in G
  <2>1. f[k - 1] = g[k - 1] /\ k \in 0 .. n /\ k \in 1 .. Len(new)
    BY <1>1, <1>5
  <2>2. f[k] = ReplayNote(f[k - 1], q[k]) /\ g[k] = ReplayNote(g[k - 1], q[k])
    BY <1>1, <1>2, <1>3, <2>1
  <2> QED
    BY <2>1, <2>2
<1> HIDE DEF G
<1>6. \A k \in 1 .. n : k - 1 \in G => k \in G
  BY <1>5
<1>7. n \in G
  BY <1>1, <1>4, <1>6, CountUp
<1>8. f[n] = g[n]
  BY <1>7 DEF G
<1>9. g[n + 1] = ReplayNote(g[n], line)
  BY <1>1, <1>3
<1> QED
  BY <1>1, <1>2, <1>3, <1>8, <1>9 DEF new

-----------------------------------------------------------------------------
(* The file. *)

\* The line a file ends with, and the file without it.
LEMMA FrontFacts ==
  ASSUME NEW q \in Seq(Lines), q # << >>
  PROVE  /\ Front(q) \in Seq(Lines) /\ q[Len(q)] \in Lines
         /\ q = Append(Front(q), q[Len(q)])
<1>1. Len(q) \in Nat \ {0} /\ Len(q) \in 1 .. Len(q)
  BY EmptySeq
<1>2. Front(q) \in Seq(Lines) /\ Len(Front(q)) = Len(q) - 1
      /\ \A i \in 1 .. Len(q) - 1 : Front(q)[i] = q[i]
  <2> DEFINE n == Len(q) - 1
  <2>1. n \in Nat /\ n <= Len(q) /\ 1 .. n = 1 .. Len(q) - 1
    BY <1>1
  <2> HIDE DEF n
  <2>2. /\ SubSeq(q, 1, n) \in Seq(Lines) /\ Len(SubSeq(q, 1, n)) = n
        /\ \A i \in 1 .. n : SubSeq(q, 1, n)[i] = q[i]
    BY <1>1, <2>1, SubSeqProperties, Z3
  <2>3. Front(q) = SubSeq(q, 1, n)
    BY DEF Front, n
  <2> QED
    BY <2>1, <2>2, <2>3 DEF n
<1>3. q[Len(q)] \in Lines
  BY <1>1, ElementOfSeq
<1> DEFINE f == Front(q)
           last == q[Len(q)]
<1> HIDE DEF f
<1>4. /\ Append(f, last) \in Seq(Lines) /\ Len(Append(f, last)) = Len(q)
      /\ \A i \in 1 .. Len(q) - 1 : Append(f, last)[i] = q[i]
      /\ Append(f, last)[Len(q)] = last
  BY <1>1, <1>2, <1>3 DEF f
<1> HIDE DEF last
<1>5. \A i \in 1 .. Len(q) : Append(f, last)[i] = q[i]
  BY <1>1, <1>4 DEF last
<1>6. Append(f, last) = q
  BY <1>4, <1>5, SeqEqual
<1> QED
  BY <1>2, <1>3, <1>6 DEF f, last

\* What is appended goes behind the file as it was.
LEMMA FrontAppend ==
  ASSUME NEW q \in Seq(Lines), NEW line \in Lines
  PROVE  Front(Append(q, line)) = q
<1>1. /\ Append(q, line) \in Seq(Lines) /\ Len(Append(q, line)) = Len(q) + 1 /\ Len(q) \in Nat
      /\ \A i \in 1 .. Len(q) : Append(q, line)[i] = q[i]
  OBVIOUS
<1> DEFINE new == Append(q, line)
<1> HIDE DEF new
<1>2. /\ SubSeq(new, 1, Len(q)) \in Seq(Lines) /\ Len(SubSeq(new, 1, Len(q))) = Len(q)
      /\ \A i \in 1 .. Len(q) : SubSeq(new, 1, Len(q))[i] = new[i]
  BY <1>1, SubSeqProperties, Z3 DEF new
<1>3. SubSeq(new, 1, Len(q)) = q
  BY <1>1, <1>2, SeqEqual DEF new
<1>4. Len(new) - 1 = Len(q)
  BY <1>1 DEF new
<1> QED
  BY <1>3, <1>4 DEF Front, new

\* A file with a line in it is not empty.
LEMMA AppendNotEmpty ==
  ASSUME NEW q \in Seq(Lines), NEW line \in Lines
  PROVE  Append(q, line) # << >>
BY AppendProperties

\* The file behind which a line is put: what a line without its newline is
\* merged with is lost.
Base == IF ended THEN file ELSE Front(file)

\* It is a file, and holds one line less than the file at most.
LEMMA BaseFacts ==
  ASSUME TypeOK
  PROVE  /\ Base \in Seq(Lines) /\ Load(Base) \in View /\ Load(file) \in View
         /\ Len(Load(file).list) <= Len(Load(Base).list) + 1
         /\ FileInv /\ ~missed => Sound(Load(Base))
<1>1. file \in Seq(Lines) /\ (file = << >> => ended)
  BY DEF TypeOK
<1>2. CASE ended
  <2>1. Base = file /\ Base \in Seq(Lines)
    BY <1>1, <1>2 DEF Base
  <2>2. Load(file) \in View
    BY <1>1, LoadType
  <2>3. Len(Load(file).list) \in Nat
    BY <2>2 DEF View
  <2> QED
    BY <2>1, <2>2, <2>3 DEF FileInv
<1>3. CASE ~ended
  <2>1. Base = Front(file) /\ file # << >>
    BY <1>1, <1>3 DEF Base
  <2>2. /\ Front(file) \in Seq(Lines) /\ file[Len(file)] \in Lines
        /\ file = Append(Front(file), file[Len(file)])
    BY <1>1, <2>1, FrontFacts
  <2>3. Load(file) = ReplayLine(Load(Front(file)), file[Len(file)])
    BY <2>2, LoadAppend
  <2>4. Load(Front(file)) \in View /\ Load(file) \in View
    BY <1>1, <2>2, LoadType
  <2>5. Len(Load(file).list) <= Len(Load(Front(file)).list) + 1
    BY <2>2, <2>3, <2>4, ReplayType
  <2> QED
    BY <1>3, <2>1, <2>2, <2>4, <2>5 DEF FileInv
<1> QED
  BY <1>2, <1>3

\* What append_line leaves, whatever becomes of the write.
LEMMA WrittenFacts ==
  ASSUME TypeOK, NEW line \in Lines, NEW how \in Outcomes \cup Cut
  PROVE  LET new == Written(line, how)
         IN /\ new.file \in Seq(Lines) /\ new.ended \in BOOLEAN
            /\ new.file = << >> => new.ended
            /\ how = "refused" => new.file = file
            /\ how # "refused" /\ ended /\ how # "torn" => new.file = Append(file, line)
            /\ how # "refused" /\ (~ended \/ how = "torn") => new.file = Append(Base, Broken)
            /\ how = Whole => new.ended
<1>1. file \in Seq(Lines) /\ ended \in BOOLEAN /\ (file = << >> => ended) /\ Base \in Seq(Lines)
  BY BaseFacts DEF TypeOK
<1>2. how = Whole => how # "refused" /\ how # "torn"
  BY DEF Whole
<1>3. CASE how = "refused"
  <2>1. Written(line, how) = [file |-> file, ended |-> ended]
    BY <1>3 DEF Written
  <2> QED
    BY <1>1, <1>2, <1>3, <2>1
<1>4. CASE how # "refused"
  <2> DEFINE tail == IF how = "torn" \/ ~ended THEN Broken ELSE line
  <2>1. Written(line, how) = [file |-> Append(Base, tail), ended |-> how = Whole]
    BY <1>4 DEF Written, Base
  <2>2. tail \in Lines
    BY LinesWritten
  <2>3. Append(Base, tail) \in Seq(Lines) /\ Append(Base, tail) # << >>
    <3> HIDE DEF tail
    <3> QED
      BY <1>1, <2>2, AppendProperties
  <2>4. ended /\ how # "torn" => Append(Base, tail) = Append(file, line)
    BY DEF Base
  <2>5. ~ended \/ how = "torn" => Append(Base, tail) = Append(Base, Broken)
    OBVIOUS
  <2>6. (how = Whole) \in BOOLEAN
    OBVIOUS
  <2>7. Written(line, how).file = Append(Base, tail) /\ Written(line, how).ended = (how = Whole)
    BY <2>1
  <2> HIDE DEF tail
  <2> QED
    BY <1>4, <2>3, <2>4, <2>5, <2>6, <2>7
<1> QED
  BY <1>3, <1>4

\* A line that keeps a load of this file one that a process can go on from.
Fits(line) ==
  /\ line \in Lines
  /\ line.type = "message" => line.message.role # "tool" \/ LastOpen(Load(file).list)
  /\ line.type = "compaction" => line.count <= Len(Load(file).list)

\* What one line that is not lost makes of a file.
LEMMA LineKept ==
  ASSUME TypeOK, FileInv, ~missed, NEW line, Fits(line)
  PROVE  /\ Load(Append(file, line)) = ReplayLine(Load(file), line)
         /\ Sound(Load(Append(file, line))) /\ Front(Append(file, line)) = file
<1>1. file \in Seq(Lines) /\ line \in Lines /\ Load(file) \in View
  BY BaseFacts DEF TypeOK, Fits
<1>2. Sound(Load(file))
  BY DEF FileInv
<1>3. Load(Append(file, line)) = ReplayLine(Load(file), line)
  BY <1>1, LoadAppend
<1>4. Sound(ReplayLine(Load(file), line))
  BY <1>1, <1>2, ReplaySound DEF Fits
<1> QED
  BY <1>1, <1>3, <1>4, FrontAppend

\* A line that is lost leaves what was whole behind.
LEMMA LineLost ==
  ASSUME TypeOK, FileInv, ~missed
  PROVE  /\ Load(Append(Base, Broken)) = Load(Base)
         /\ Sound(Load(Append(Base, Broken))) /\ Front(Append(Base, Broken)) = Base
<1>1. Base \in Seq(Lines) /\ Load(Base) \in View /\ Sound(Load(Base))
  BY BaseFacts
<1>2. Broken \in Lines /\ Broken.type \notin {"message", "compaction"}
  BY LinesWritten
<1>3. Load(Append(Base, Broken)) = ReplayLine(Load(Base), Broken)
  BY <1>1, <1>2, LoadAppend
<1>4. ReplayLine(Load(Base), Broken) = Load(Base)
  BY <1>1, <1>2, ReplayCases
<1> QED
  BY <1>1, <1>2, <1>3, <1>4, FrontAppend

\* The line a process is about to write, in each phase of its turn, fits: the
\* conversation is longer by two messages at most than what the file gives
\* back, and a compaction keeps a tail of two at least.
LEMMA WritingFits ==
  ASSUME TypeOK, FileInv, ~missed, up, MinKeep >= 2, NEW line \in Writing
  PROVE  Fits(line)
<1> DEFINE list == Load(file).list
<1>1. /\ Len(list) \in Nat /\ messages \in Seq(Talk) /\ Len(messages) \in Nat
      /\ Len(messages) <= Len(list) + 2
      /\ turn \in {"tools", "noted"} => LastOpen(list) /\ due # << >> /\ due \in Seq(Nat \ {0})
      /\ turn \in {"idle", "ready", "model", "tools", "noted"}
  BY BaseFacts DEF TypeOK, FileInv, View
<1>2. ASSUME NEW m \in Talk, m.role # "tool" \/ LastOpen(list), line = MessageLine(m)
      PROVE  Fits(line)
  BY <1>2, LinesWritten DEF Fits
<1>3. ASSUME line \in Lines, line.type \notin {"message", "compaction"}
      PROVE  Fits(line)
  BY <1>3 DEF Fits
<1>4. CASE turn = "idle"
  <2>1. line \in {MessageLine(UserMessage), Stats}
    BY <1>4 DEF Writing
  <2>2. UserMessage \in Talk /\ UserMessage.role # "tool"
    BY TalkFacts
  <2> QED
    BY <1>2, <1>3, <2>1, <2>2, LinesWritten
<1>5. CASE turn = "ready"
  <2>1. CompactionBounds(messages).count > 0 /\ line = CompactionLine(PersistedBounds(messages))
    BY <1>5 DEF Writing
  <2>2. /\ line \in Lines /\ line.type = "compaction"
        /\ line.count = CompactionBounds(messages).count
    BY <1>1, <2>1, CompactionWritten
  <2>3. line.count \in 1 .. Len(messages) /\ line.count + MinKeep <= Len(messages)
    BY <1>1, <2>1, <2>2, BoundsFacts
  <2>4. MinKeep \in Nat
    BY KeepAssumption
  <2>5. line.count <= Len(list)
    BY <1>1, <2>3, <2>4
  <2> QED
    BY <2>2, <2>5 DEF Fits
<1>6. CASE turn = "model"
  <2>1. PICK c \in CallLists : line = MessageLine(AssistantMessage(c))
    BY <1>6 DEF Writing
  <2>2. AssistantMessage(c) \in Talk /\ AssistantMessage(c).role # "tool"
    BY TalkFacts DEF AssistantMessage
  <2> QED
    BY <1>2, <2>1, <2>2
<1>7. CASE turn \in {"tools", "noted"}
  <2>1. (\E n \in NoteSizes : line = MemoryLine(n)) \/ line = MessageLine(ToolMessage(Head(due)))
    BY <1>7 DEF Writing
  <2>2. Head(due) \in Nat \ {0}
    BY <1>1, <1>7, HeadTailProperties
  <2>3. ToolMessage(Head(due)) \in Talk
    BY <2>2, TalkFacts
  <2> QED
    BY <1>1, <1>2, <1>3, <1>7, <2>1, <2>3, LinesWritten
<1> QED
  BY <1>1, <1>4, <1>5, <1>6, <1>7

-----------------------------------------------------------------------------
(* Types. *)

\* The type invariant, conjunct by conjunct.
LEMMA TypeParts ==
  TypeOK <=>
    /\ file \in Seq(Lines) /\ (file = << >> => ended)
    /\ ended \in BOOLEAN /\ up \in BOOLEAN /\ drifted \in BOOLEAN /\ missed \in BOOLEAN
    /\ turn \in {"idle", "ready", "model", "tools", "noted"}
    /\ due \in Seq(Nat \ {0}) /\ (due # << >> <=> turn \in {"tools", "noted"})
    /\ messages \in Seq(Talk)
    /\ memory \in Nat /\ faults \in Nat
    /\ ~up => turn = "idle" /\ messages = << >> /\ memory = 0 /\ ~drifted
BY Zenon DEF TypeOK

\* What one call of append_line does to the file, the process going on.
LEMMA PutFacts ==
  ASSUME TypeOK, NEW line \in Lines, NEW how \in Outcomes, Put(line, how)
  PROVE  /\ up /\ file' \in Seq(Lines) /\ (file' = << >> => ended')
         /\ ended' \in BOOLEAN /\ drifted' \in BOOLEAN /\ missed' \in BOOLEAN /\ faults' \in Nat
         /\ ~drifted' => ~drifted /\ ended /\ how # "refused" /\ file' = Append(file, line)
         /\ ~missed' => /\ ~missed /\ ended'
                        /\ ended => file' = Append(file, line)
                        /\ ~ended => file' = Append(Base, Broken)
<1>1. /\ file' = Written(line, how).file /\ ended' = Written(line, how).ended
      /\ drifted' = (drifted \/ how # Whole \/ ~ended) /\ up
      /\ faults' = (IF how = Whole THEN faults ELSE faults + 1)
      /\ missed' = (missed \/ how # Whole)
  BY DEF Put, Fault
<1>2. how \in Outcomes \cup Cut
  OBVIOUS
<1>3. /\ Written(line, how).file \in Seq(Lines) /\ Written(line, how).ended \in BOOLEAN
      /\ Written(line, how).file = << >> => Written(line, how).ended
      /\ how # "refused" /\ ended /\ how # "torn" => Written(line, how).file = Append(file, line)
      /\ how # "refused" /\ (~ended \/ how = "torn") =>
           Written(line, how).file = Append(Base, Broken)
      /\ how = Whole => Written(line, how).ended
  BY <1>2, WrittenFacts
<1>4. how = Whole => how # "refused" /\ how # "torn"
  BY DEF Whole
<1>5. faults' \in Nat
  <2>1. faults \in Nat
    BY DEF TypeOK
  <2> QED
    BY <1>1, <2>1
<1>6. drifted' \in BOOLEAN /\ missed' \in BOOLEAN
  BY <1>1, Zenon
<1>7. ~drifted' => ~drifted /\ ended /\ how = Whole
  BY <1>1, Zenon
<1>8. ~missed' => ~missed /\ how = Whole
  BY <1>1, Zenon
<1> QED
  BY <1>1, <1>3, <1>4, <1>5, <1>6, <1>7, <1>8, Zenon

\* What a step writes to an open session is a line.
LEMMA StepLines ==
  ASSUME TypeOK
  PROVE  /\ MessageLine(UserMessage) \in Lines /\ Stats \in Lines
         /\ \A c \in CallLists : MessageLine(AssistantMessage(c)) \in Lines
         /\ \A n \in NoteSizes : MemoryLine(n) \in Lines
         /\ turn \in {"tools", "noted"} =>
              /\ Head(due) \in Nat \ {0} /\ ToolMessage(Head(due)) \in Talk
              /\ MessageLine(ToolMessage(Head(due))) \in Lines
              /\ Tail(due) \in Seq(Nat \ {0}) /\ Len(due) \in Nat /\ Len(Tail(due)) = Len(due) - 1
         /\ CompactionBounds(messages).count > 0 =>
              CompactionLine(PersistedBounds(messages)) \in Lines
         /\ \A line \in Writing : line \in Lines
<1>0. /\ due \in Seq(Nat \ {0}) /\ (due # << >> <=> turn \in {"tools", "noted"})
      /\ messages \in Seq(Talk) /\ turn \in {"idle", "ready", "model", "tools", "noted"}
  BY DEF TypeOK
<1>1. MessageLine(UserMessage) \in Lines /\ Stats \in Lines
  BY TalkFacts, LinesWritten
<1>2. \A c \in CallLists : MessageLine(AssistantMessage(c)) \in Lines
  BY TalkFacts, LinesWritten
<1>3. \A n \in NoteSizes : MemoryLine(n) \in Lines
  BY LinesWritten
<1>4. ASSUME turn \in {"tools", "noted"}
      PROVE  /\ Head(due) \in Nat \ {0} /\ ToolMessage(Head(due)) \in Talk
             /\ MessageLine(ToolMessage(Head(due))) \in Lines
             /\ Tail(due) \in Seq(Nat \ {0}) /\ Len(due) \in Nat /\ Len(Tail(due)) = Len(due) - 1
  <2>1. /\ Head(due) \in Nat \ {0} /\ Tail(due) \in Seq(Nat \ {0}) /\ Len(due) \in Nat
        /\ Len(Tail(due)) = Len(due) - 1
    BY <1>0, <1>4, HeadTailProperties
  <2>2. ToolMessage(Head(due)) \in Talk
    BY <2>1, TalkFacts
  <2> QED
    BY <2>1, <2>2, LinesWritten
<1>5. CompactionBounds(messages).count > 0 => CompactionLine(PersistedBounds(messages)) \in Lines
  BY <1>0, CompactionWritten
<1>6. \A line \in Writing : line \in Lines
  BY <1>0, <1>1, <1>2, <1>3, <1>4, <1>5, Zenon DEF Writing
<1> QED
  BY <1>1, <1>2, <1>3, <1>4, <1>5, <1>6

\* The live replacement of a range leaves a conversation, no longer than it was.
LEMMA CompactFacts ==
  ASSUME NEW list \in Seq(Talk), CompactionBounds(list).count > 0
  PROVE  LET new == Compact(list, CompactionBounds(list), UserMessage)
         IN /\ new \in Seq(Talk)
            /\ Len(new) = Len(list) - CompactionBounds(list).count + 1
<1> DEFINE count == CompactionBounds(list).count
<1>1. /\ count \in 1 .. Len(list)
      /\ Compact(list, CompactionBounds(list), UserMessage) = Replace(list, 0, count, UserMessage)
  BY BoundsFacts
<1> HIDE DEF count
<1> QED
  BY <1>1, ReplaceType DEF count

\* The type invariant after a step, conjunct by conjunct.
LEMMA TypeNext ==
  /\ file' \in Seq(Lines) /\ (file' = << >> => ended')
  /\ ended' \in BOOLEAN /\ up' \in BOOLEAN /\ drifted' \in BOOLEAN /\ missed' \in BOOLEAN
  /\ turn' \in {"idle", "ready", "model", "tools", "noted"}
  /\ due' \in Seq(Nat \ {0}) /\ (due' # << >> <=> turn' \in {"tools", "noted"})
  /\ messages' \in Seq(Talk)
  /\ memory' \in Nat /\ faults' \in Nat
  /\ ~up' => turn' = "idle" /\ messages' = << >> /\ memory' = 0 /\ ~drifted'
  => TypeOK'
BY Zenon DEF TypeOK

\* A process that is gone holds nothing.
LEMMA DownTypes ==
  ASSUME Down
  PROVE  /\ up' \in BOOLEAN /\ drifted' \in BOOLEAN
         /\ turn' \in {"idle", "ready", "model", "tools", "noted"}
         /\ due' \in Seq(Nat \ {0}) /\ (due' # << >> <=> turn' \in {"tools", "noted"})
         /\ messages' \in Seq(Talk) /\ memory' \in Nat
         /\ ~up' => turn' = "idle" /\ messages' = << >> /\ memory' = 0 /\ ~drifted'
<1>1. /\ up' = FALSE /\ drifted' = FALSE /\ turn' = "idle" /\ due' = << >>
      /\ messages' = << >> /\ memory' = 0
  BY DEF Down
<1>2. up' \in BOOLEAN /\ drifted' \in BOOLEAN /\ ~up' /\ ~drifted'
  BY <1>1, Zenon
<1>3. /\ << >> \in Seq(Nat \ {0}) /\ << >> \in Seq(Talk) /\ 0 \in Nat
      /\ "idle" \in {"idle", "ready", "model", "tools", "noted"}
      /\ "idle" \notin {"tools", "noted"}
  OBVIOUS
<1> QED
  BY <1>1, <1>2, <1>3, Zenon

\* A step keeps the types, and the memory text within its limit.
LEMMA TypeStep ==
  ASSUME TypeOK, MemoryFits, Next
  PROVE  TypeOK' /\ MemoryFits'
<1>0. /\ file \in Seq(Lines) /\ (file = << >> => ended)
      /\ ended \in BOOLEAN /\ up \in BOOLEAN /\ drifted \in BOOLEAN /\ missed \in BOOLEAN
      /\ turn \in {"idle", "ready", "model", "tools", "noted"}
      /\ due \in Seq(Nat \ {0}) /\ (due # << >> <=> turn \in {"tools", "noted"})
      /\ messages \in Seq(Talk)
      /\ memory \in Nat /\ faults \in Nat
      /\ ~up => turn = "idle" /\ messages = << >> /\ memory = 0 /\ ~drifted
  BY TypeParts, Zenon
<1>m. \A k \in 0 .. MemoryMax : k \in Nat
  OBVIOUS
<1>1. CASE Create
  <2>1. /\ file' = << Meta >> /\ ended' = TRUE /\ up' = TRUE /\ missed' = FALSE
        /\ UNCHANGED << turn, due, messages, memory, drifted, faults >>
    BY <1>1 DEF Create, live
  <2>2. << Meta >> \in Seq(Lines) /\ << Meta >> # << >>
    BY LinesWritten
  <2>3. TypeOK'
    BY <1>0, <2>1, <2>2, TypeNext, Zenon
  <2> QED
    BY <2>1, <2>3 DEF MemoryFits
<1>2. CASE Resume
  <2>1. /\ up' = TRUE /\ messages' = Load(file).list /\ memory' = Notes(file)
        /\ UNCHANGED << file, ended, turn, due, drifted, missed, faults >>
    BY <1>2 DEF Resume, Loaded, LoadedMemory
  <2>2. Load(file).list \in Seq(Talk) /\ Notes(file) \in 0 .. MemoryMax
    BY <1>0, LoadType, NotesType DEF View
  <2>3. TypeOK'
    BY <1>0, <1>m, <2>1, <2>2, TypeNext, Zenon
  <2> QED
    BY <2>1, <2>2, <2>3 DEF MemoryFits
<1>3. CASE StartTurn
  <2>1. PICK how \in Outcomes : Put(MessageLine(UserMessage), how)
    BY <1>3 DEF StartTurn, Log
  <2>2. /\ messages' = Append(messages, UserMessage) /\ turn' = "ready" /\ turn = "idle"
        /\ UNCHANGED << up, due, memory >>
    BY <1>3 DEF StartTurn
  <2>3. /\ up /\ file' \in Seq(Lines) /\ (file' = << >> => ended')
        /\ ended' \in BOOLEAN /\ drifted' \in BOOLEAN /\ missed' \in BOOLEAN /\ faults' \in Nat
    BY <2>1, PutFacts, StepLines
  <2>4. messages' \in Seq(Talk)
    BY <1>0, <2>2, TalkFacts, AppendFacts
  <2>5. due' # << >> <=> turn' \in {"tools", "noted"}
    BY <1>0, <2>2
  <2>6. TypeOK'
    BY <1>0, <2>2, <2>3, <2>4, <2>5, TypeNext, Zenon
  <2> QED
    BY <2>2, <2>6 DEF MemoryFits
<1>4. CASE Request
  <2>1. /\ up /\ turn' = "model" /\ turn = "ready"
        /\ UNCHANGED << file, ended, up, due, messages, memory, drifted, missed, faults >>
    BY <1>4 DEF Request
  <2>2. due' # << >> <=> turn' \in {"tools", "noted"}
    BY <1>0, <2>1
  <2>3. TypeOK'
    BY <1>0, <2>1, <2>2, TypeNext, Zenon
  <2> QED
    BY <2>1, <2>3 DEF MemoryFits
<1>5. CASE Compaction
  <2>1. /\ turn = "ready" /\ CompactionBounds(messages).count > 0 /\ turn' = "model"
        /\ messages' = Compact(messages, CompactionBounds(messages), UserMessage)
        /\ UNCHANGED << up, due, memory >>
    BY <1>5 DEF Compaction
  <2>2. PICK how \in Outcomes : Put(CompactionLine(PersistedBounds(messages)), how)
    BY <1>5 DEF Compaction, Log
  <2>3. CompactionLine(PersistedBounds(messages)) \in Lines
    BY <2>1, StepLines
  <2>4. /\ up /\ file' \in Seq(Lines) /\ (file' = << >> => ended')
        /\ ended' \in BOOLEAN /\ drifted' \in BOOLEAN /\ missed' \in BOOLEAN /\ faults' \in Nat
    BY <2>2, <2>3, PutFacts
  <2>5. messages' \in Seq(Talk)
    BY <1>0, <2>1, CompactFacts
  <2>6. due' # << >> <=> turn' \in {"tools", "noted"}
    BY <1>0, <2>1
  <2>7. TypeOK'
    BY <1>0, <2>1, <2>4, <2>5, <2>6, TypeNext, Zenon
  <2> QED
    BY <2>1, <2>7 DEF MemoryFits
<1>6. CASE Fallback
  <2>1. /\ up /\ turn = "ready" /\ CompactionBounds(messages).count > 0 /\ turn' = "model"
        /\ messages' = Compact(messages, CompactionBounds(messages), UserMessage)
        /\ drifted' = TRUE
        /\ UNCHANGED << file, ended, up, due, memory, missed, faults >>
    BY <1>6 DEF Fallback
  <2>2. messages' \in Seq(Talk)
    BY <1>0, <2>1, CompactFacts
  <2>3. due' # << >> <=> turn' \in {"tools", "noted"}
    BY <1>0, <2>1
  <2>4. TypeOK'
    BY <1>0, <2>1, <2>2, <2>3, TypeNext, Zenon
  <2> QED
    BY <2>1, <2>4 DEF MemoryFits
<1>7. CASE Answer
  <2>1. PICK calls \in CallLists :
          /\ Log(MessageLine(AssistantMessage(calls)))
          /\ messages' = Append(messages, AssistantMessage(calls))
          /\ due' = [i \in 1 .. Len(calls) |-> i]
          /\ turn' \in IF calls = << >> THEN {"idle", "ready"} ELSE {"tools"}
    BY <1>7 DEF Answer
  <2>2. UNCHANGED << up, memory >>
    BY <1>7 DEF Answer
  <2>3. PICK how \in Outcomes : Put(MessageLine(AssistantMessage(calls)), how)
    BY <2>1 DEF Log
  <2>4. /\ up /\ file' \in Seq(Lines) /\ (file' = << >> => ended')
        /\ ended' \in BOOLEAN /\ drifted' \in BOOLEAN /\ missed' \in BOOLEAN /\ faults' \in Nat
    BY <2>3, PutFacts, StepLines
  <2>5. messages' \in Seq(Talk)
    BY <1>0, <2>1, TalkFacts, AppendFacts
  <2>6. /\ due' \in Seq(Nat \ {0}) /\ (due' # << >> <=> turn' \in {"tools", "noted"})
        /\ turn' \in {"idle", "ready", "model", "tools", "noted"}
    <3>1. calls \in Seq(Call) /\ Len(calls) \in Nat /\ (calls = << >> <=> Len(calls) = 0)
      BY SessionAssumption, EmptySeq
    <3>2. /\ [i \in 1 .. Len(calls) |-> i] \in Seq(Nat \ {0})
          /\ Len([i \in 1 .. Len(calls) |-> i]) = Len(calls)
      BY <3>1
    <3>3. due' # << >> <=> Len(calls) # 0
      BY <2>1, <3>2, EmptySeq
    <3> QED
      BY <2>1, <3>1, <3>2, <3>3
  <2>7. TypeOK'
    BY <1>0, <2>2, <2>4, <2>5, <2>6, TypeNext, Zenon
  <2> QED
    BY <2>2, <2>7 DEF MemoryFits
<1>8. CASE Note
  <2>1. PICK n \in NoteSizes, how \in Outcomes :
          /\ Put(MemoryLine(n), how)
          /\ memory' = IF how = "refused" THEN memory ELSE MemoryAdd(memory, n)
    BY <1>8 DEF Note
  <2>2. turn = "tools" /\ turn' = "noted" /\ UNCHANGED << up, due, messages >>
    BY <1>8 DEF Note
  <2>3. /\ up /\ file' \in Seq(Lines) /\ (file' = << >> => ended')
        /\ ended' \in BOOLEAN /\ drifted' \in BOOLEAN /\ missed' \in BOOLEAN /\ faults' \in Nat
    BY <2>1, PutFacts, StepLines
  <2>4. memory' \in 0 .. MemoryMax
    <3>1. memory \in 0 .. MemoryMax /\ MemoryAdd(memory, n) \in 0 .. MemoryMax
      BY MemoryAddBound DEF MemoryFits
    <3> QED
      BY <2>1, <3>1, Zenon
  <2>5. due' # << >> <=> turn' \in {"tools", "noted"}
    BY <1>0, <2>2
  <2>6. TypeOK'
    BY <1>0, <1>m, <2>2, <2>3, <2>4, <2>5, TypeNext, Zenon
  <2> QED
    BY <2>4, <2>6 DEF MemoryFits
<1>9. CASE Result
  <2>1. /\ turn \in {"tools", "noted"}
        /\ Log(MessageLine(ToolMessage(Head(due))))
        /\ messages' = Append(messages, ToolMessage(Head(due)))
        /\ due' = Tail(due)
        /\ turn' = IF Len(due) = 1 THEN "ready" ELSE "tools"
        /\ UNCHANGED << up, memory >>
    BY <1>9 DEF Result
  <2>2. PICK how \in Outcomes : Put(MessageLine(ToolMessage(Head(due))), how)
    BY <2>1 DEF Log
  <2>3. /\ ToolMessage(Head(due)) \in Talk /\ MessageLine(ToolMessage(Head(due))) \in Lines
        /\ Tail(due) \in Seq(Nat \ {0}) /\ Len(due) \in Nat /\ Len(Tail(due)) = Len(due) - 1
    BY <2>1, StepLines
  <2>4. /\ up /\ file' \in Seq(Lines) /\ (file' = << >> => ended')
        /\ ended' \in BOOLEAN /\ drifted' \in BOOLEAN /\ missed' \in BOOLEAN /\ faults' \in Nat
    BY <2>2, <2>3, PutFacts
  <2>5. messages' \in Seq(Talk)
    BY <1>0, <2>1, <2>3, AppendFacts
  <2>6. /\ due' # << >> <=> turn' \in {"tools", "noted"}
        /\ turn' \in {"idle", "ready", "model", "tools", "noted"}
    <3>1. Tail(due) # << >> <=> Len(due) # 1
      BY <2>3, EmptySeq
    <3> QED
      BY <2>1, <3>1
  <2>7. TypeOK'
    BY <1>0, <2>1, <2>3, <2>4, <2>5, <2>6, TypeNext, Zenon
  <2> QED
    BY <2>1, <2>7 DEF MemoryFits
<1>10. CASE EndTurn
  <2>1. /\ up /\ turn' = "idle" /\ due' = << >>
        /\ UNCHANGED << file, ended, up, messages, memory, drifted, missed, faults >>
    BY <1>10 DEF EndTurn, DropDue
  <2>2. due' \in Seq(Nat \ {0}) /\ (due' # << >> <=> turn' \in {"tools", "noted"})
    BY <2>1
  <2>3. TypeOK'
    BY <1>0, <2>1, <2>2, TypeNext, Zenon
  <2> QED
    BY <2>1, <2>3 DEF MemoryFits
<1>11. CASE Exit
  <2>1. Down
    BY <1>11 DEF Exit
  <2>2. PICK how \in Outcomes : /\ file' = Written(Stats, how).file
                                /\ ended' = Written(Stats, how).ended
                                /\ Fault(how)
    BY <1>11 DEF Exit
  <2>3. Stats \in Lines /\ how \in Outcomes \cup Cut
    BY LinesWritten
  <2>4. file' \in Seq(Lines) /\ (file' = << >> => ended') /\ ended' \in BOOLEAN
    BY <2>2, <2>3, WrittenFacts
  <2>5. missed' \in BOOLEAN
    BY <2>2, Zenon DEF Fault
  <2>6. faults' \in Nat
    BY <1>0, <2>2 DEF Fault
  <2>7. TypeOK'
    BY <2>1, <2>4, <2>5, <2>6, DownTypes, TypeNext, Zenon
  <2>8. memory' = 0
    BY <2>1 DEF Down
  <2> QED
    BY <2>7, <2>8, NoNotes DEF MemoryFits
<1>12. CASE Crash
  <2>1. Down /\ faults' = faults + 1 /\ UNCHANGED missed
    BY <1>12 DEF Crash
  <2>2. file' \in Seq(Lines) /\ (file' = << >> => ended') /\ ended' \in BOOLEAN
    <3>1. CASE UNCHANGED << file, ended >>
      BY <1>0, <3>1
    <3>2. CASE \E line \in Writing, how \in Cut : file' = Written(line, how).file /\ ended' = FALSE
      <4>1. PICK line \in Writing, how \in Cut : file' = Written(line, how).file /\ ended' = FALSE
        BY <3>2
      <4>2. line \in Lines /\ how \in Outcomes \cup Cut /\ how # "refused"
        BY StepLines DEF Cut
      <4>3. file' \in Seq(Lines)
        BY <4>1, <4>2, WrittenFacts
      <4>4. file' = Append(file, line) \/ file' = Append(Base, Broken)
        BY <1>0, <4>1, <4>2, WrittenFacts, Zenon
      <4>5. /\ Append(file, line) # << >>
            /\ Append(Base, Broken) # << >>
        <5>1. Base \in Seq(Lines) /\ Broken \in Lines
          BY BaseFacts, LinesWritten
        <5> QED
          BY <1>0, <4>2, <5>1, AppendNotEmpty, Zenon
      <4> QED
        BY <4>1, <4>3, <4>4, <4>5
    <3> QED
      BY <1>12, <3>1, <3>2 DEF Crash
  <2>3. faults' \in Nat /\ missed' \in BOOLEAN
    BY <1>0, <2>1
  <2>4. TypeOK'
    BY <2>1, <2>2, <2>3, DownTypes, TypeNext, Zenon
  <2>5. memory' = 0
    BY <2>1 DEF Down
  <2> QED
    BY <2>4, <2>5, NoNotes DEF MemoryFits
<1> QED
  BY <1>1, <1>2, <1>3, <1>4, <1>5, <1>6, <1>7, <1>8, <1>9, <1>10, <1>11, <1>12 DEF Next

-----------------------------------------------------------------------------
(* A load is the live conversation. *)

\* The one line of a change, as long as nothing was lost before, is loaded on
\* top of the conversation the process held.
LEMMA LivePut ==
  ASSUME TypeOK, LoadsWhatIsLive, NEW line \in Lines, NEW how \in Outcomes,
         Put(line, how), ~drifted'
  PROVE  /\ how # "refused"
         /\ [ok |-> TRUE, list |-> messages] \in View
         /\ Load(file') = ReplayLine([ok |-> TRUE, list |-> messages], line)
         /\ Notes(file') = ReplayNote(memory, line)
<1>1. up /\ ~drifted /\ how # "refused" /\ file' = Append(file, line)
  BY PutFacts
<1>2. Load(file) = [ok |-> TRUE, list |-> messages] /\ Notes(file) = memory
  BY <1>1 DEF LoadsWhatIsLive, Loaded, LoadedMemory
<1>3. file \in Seq(Lines)
  BY DEF TypeOK
<1>4. Load(file') = ReplayLine(Load(file), line) /\ Notes(file') = ReplayNote(Notes(file), line)
  BY <1>1, <1>3, LoadAppend, NotesAppend
<1>5. Load(file) \in View
  BY <1>3, LoadType
<1> QED
  BY <1>1, <1>2, <1>4, <1>5

\* A message line adds its message and leaves the notes alone.
LEMMA LiveMessage ==
  ASSUME TypeOK, LoadsWhatIsLive, NEW m \in Talk, NEW how \in Outcomes,
         Put(MessageLine(m), how), ~drifted'
  PROVE  /\ Load(file') = [ok |-> TRUE, list |-> Append(messages, m)]
         /\ Notes(file') = memory
<1> DEFINE line == MessageLine(m)
           view == [ok |-> TRUE, list |-> messages]
<1>1. line \in Lines /\ line.type = "message" /\ line.message = m
  BY LinesWritten
<1> HIDE DEF line
<1>2. /\ view \in View /\ Load(file') = ReplayLine(view, line)
      /\ Notes(file') = ReplayNote(memory, line)
  BY <1>1, LivePut DEF line
<1>3. view.ok /\ view.list = messages
  OBVIOUS
<1> HIDE DEF view
<1>4. ReplayLine(view, line) = [ok |-> TRUE, list |-> Append(view.list, line.message)]
  BY <1>1, <1>2, <1>3, ReplayCases
<1>5. ReplayNote(memory, line) = memory
  BY <1>1 DEF ReplayNote
<1> QED
  BY <1>1, <1>2, <1>3, <1>4, <1>5

\* A step keeps what is loaded equal to what is live.
LEMMA LiveStep ==
  ASSUME TypeOK, LoadsWhatIsLive, Next
  PROVE  LoadsWhatIsLive'
<1>0. /\ file \in Seq(Lines) /\ messages \in Seq(Talk)
      /\ ~up => messages = << >> /\ memory = 0
  BY DEF TypeOK
<1> DEFINE Goal == up' /\ ~drifted' => /\ Load(file') = [ok |-> TRUE, list |-> messages']
                                       /\ Notes(file') = memory'
<1>g. Goal => LoadsWhatIsLive'
  BY DEF LoadsWhatIsLive, Loaded, LoadedMemory
<1>s. up /\ ~drifted => Load(file) = [ok |-> TRUE, list |-> messages] /\ Notes(file) = memory
  BY DEF LoadsWhatIsLive, Loaded, LoadedMemory
<1>1. CASE Create
  <2>1. ~up /\ file' = << Meta >> /\ messages' = messages /\ memory' = memory
    BY <1>1 DEF Create, live
  <2>2. /\ << >> \in Seq(Lines) /\ Meta \in Lines /\ Append(<< >>, Meta) = << Meta >>
        /\ Meta.type \notin {"message", "compaction", "memory"}
    BY LinesWritten
  <2>3. Load(<< Meta >>) = ReplayLine(Start, Meta) /\ Notes(<< Meta >>) = ReplayNote(0, Meta)
    BY <2>2, LoadAppend, LoadEmpty, NotesAppend, NotesEmpty
  <2>4. ReplayLine(Start, Meta) = Start /\ ReplayNote(0, Meta) = 0
    BY <2>2, StartFacts, ReplayCases DEF ReplayNote
  <2> QED
    BY <1>0, <1>g, <2>1, <2>3, <2>4 DEF Start
<1>2. CASE Resume
  <2>1. /\ Load(file).ok /\ messages' = Load(file).list /\ memory' = Notes(file)
        /\ UNCHANGED file
    BY <1>2 DEF Resume, Loaded, LoadedMemory
  <2>2. PICK ok \in BOOLEAN, list \in Seq(Talk) : Load(file) = [ok |-> ok, list |-> list]
    BY <1>0, LoadType DEF View
  <2>3. Load(file) = [ok |-> TRUE, list |-> Load(file).list]
    BY <2>1, <2>2
  <2> QED
    BY <1>g, <2>1, <2>3
<1>3. CASE StartTurn
  <2>1. PICK how \in Outcomes : Put(MessageLine(UserMessage), how)
    BY <1>3 DEF StartTurn, Log
  <2>2. messages' = Append(messages, UserMessage) /\ memory' = memory
    BY <1>3 DEF StartTurn
  <2> QED
    BY <1>g, <2>1, <2>2, LiveMessage, TalkFacts, Zenon
<1>4. CASE Request
  <2>1. UNCHANGED << file, up, messages, memory, drifted >>
    BY <1>4 DEF Request
  <2> QED
    BY <1>g, <1>s, <2>1
<1>5. CASE Compaction
  <2>1. /\ CompactionBounds(messages).count > 0 /\ memory' = memory
        /\ messages' = Compact(messages, CompactionBounds(messages), UserMessage)
    BY <1>5 DEF Compaction
  <2> DEFINE count == CompactionBounds(messages).count
             line  == CompactionLine(PersistedBounds(messages))
             view  == [ok |-> TRUE, list |-> messages]
  <2>2. PICK how \in Outcomes : Put(line, how)
    BY <1>5 DEF Compaction, Log
  <2>3. /\ count \in 1 .. Len(messages) /\ ToolSafePrefix(messages, 0, count) = count
        /\ messages' = Replace(messages, 0, count, UserMessage)
    BY <1>0, <2>1, BoundsFacts
  <2>4. line \in Lines /\ line.type = "compaction" /\ line.count = count
    BY <1>0, <2>1, CompactionWritten
  <2>5. view.ok /\ view.list = messages /\ Len(messages) \in Nat
    BY <1>0
  <2> HIDE DEF count, line, view
  <2>6. ASSUME ~drifted'
        PROVE  Load(file') = [ok |-> TRUE, list |-> messages'] /\ Notes(file') = memory'
    <3>1. /\ view \in View /\ Load(file') = ReplayLine(view, line)
          /\ Notes(file') = ReplayNote(memory, line)
      BY <2>2, <2>4, <2>6, LivePut DEF view
    <3>2. /\ line.count <= Len(view.list)
          /\ ToolSafePrefix(view.list, 0, line.count) # 0
          /\ ToolSafePrefix(view.list, 0, line.count) = count
      BY <2>3, <2>4, <2>5
    <3>3. ReplayLine(view, line) = [ok |-> TRUE, list |-> Replace(view.list, 0, count, UserMessage)]
      BY <2>4, <2>5, <3>1, <3>2, ReplayCases
    <3>4. ReplayNote(memory, line) = memory
      BY <2>4 DEF ReplayNote
    <3> QED
      BY <2>1, <2>3, <2>5, <3>1, <3>3, <3>4
  <2> QED
    BY <1>g, <2>6
<1>6. CASE Fallback
  BY <1>6, <1>g DEF Fallback
<1>7. CASE Answer
  <2>1. PICK calls \in CallLists :
          /\ Log(MessageLine(AssistantMessage(calls)))
          /\ messages' = Append(messages, AssistantMessage(calls))
    BY <1>7 DEF Answer
  <2>2. PICK how \in Outcomes : Put(MessageLine(AssistantMessage(calls)), how)
    BY <2>1 DEF Log
  <2>3. memory' = memory
    BY <1>7 DEF Answer
  <2> QED
    BY <1>g, <2>1, <2>2, <2>3, LiveMessage, TalkFacts, Zenon
<1>8. CASE Note
  <2>1. PICK n \in NoteSizes, how \in Outcomes :
          /\ Put(MemoryLine(n), how)
          /\ memory' = IF how = "refused" THEN memory ELSE MemoryAdd(memory, n)
    BY <1>8 DEF Note
  <2> DEFINE line == MemoryLine(n)
             view == [ok |-> TRUE, list |-> messages]
  <2>2. line \in Lines /\ line.type = "memory" /\ line.size = n
    BY LinesWritten
  <2>3. messages' = messages
    BY <1>8 DEF Note
  <2> HIDE DEF line, view
  <2>4. ASSUME ~drifted'
        PROVE  Load(file') = [ok |-> TRUE, list |-> messages'] /\ Notes(file') = memory'
    <3>1. /\ how # "refused" /\ view \in View /\ Load(file') = ReplayLine(view, line)
          /\ Notes(file') = ReplayNote(memory, line)
      BY <2>1, <2>2, <2>4, LivePut DEF view, line
    <3>2. ReplayLine(view, line) = view
      BY <2>2, <3>1, ReplayCases
    <3>3. ReplayNote(memory, line) = MemoryAdd(memory, n)
      BY <2>2 DEF ReplayNote
    <3> QED
      BY <2>1, <2>3, <3>1, <3>2, <3>3 DEF view
  <2> QED
    BY <1>g, <2>4
<1>9. CASE Result
  <2>1. PICK how \in Outcomes : Put(MessageLine(ToolMessage(Head(due))), how)
    BY <1>9 DEF Result, Log
  <2>2. /\ messages' = Append(messages, ToolMessage(Head(due))) /\ memory' = memory
        /\ turn \in {"tools", "noted"}
    BY <1>9 DEF Result
  <2>3. ToolMessage(Head(due)) \in Talk
    BY <2>2, StepLines
  <2> QED
    BY <1>g, <2>1, <2>2, <2>3, LiveMessage, Zenon
<1>10. CASE EndTurn
  <2>1. UNCHANGED << file, up, messages, memory, drifted >>
    BY <1>10 DEF EndTurn
  <2> QED
    BY <1>g, <1>s, <2>1
<1>11. CASE Exit
  BY <1>11, <1>g DEF Exit, Down
<1>12. CASE Crash
  BY <1>12, <1>g DEF Crash, Down
<1> QED
  BY <1>1, <1>2, <1>3, <1>4, <1>5, <1>6, <1>7, <1>8, <1>9, <1>10, <1>11, <1>12 DEF Next

-----------------------------------------------------------------------------
(* Any file a crash can leave resumes. *)

\* What a write that is not known to have failed leaves: the line behind a
\* whole file, or its loss behind an unended one.
LEMMA FilePut ==
  ASSUME TypeOK, FileInv, up, MinKeep >= 2, NEW line \in Writing, NEW how \in Outcomes,
         Put(line, how), ~missed'
  PROVE  /\ ~missed /\ ended' /\ Sound(Load(file')) /\ line \in Lines
         /\ ended => Load(file') = ReplayLine(Load(file), line)
         /\ ~ended => Load(file') = Load(Base)
<1>1. line \in Lines
  BY StepLines
<1>2. /\ ~missed /\ ended'
      /\ ended => file' = Append(file, line)
      /\ ~ended => file' = Append(Base, Broken)
  BY <1>1, PutFacts
<1>3. Fits(line)
  BY <1>2, WritingFits
<1> QED
  BY <1>1, <1>2, <1>3, LineKept, LineLost, Zenon

\* A message that a process in the middle of a turn adds, to both.
LEMMA FileMessage ==
  ASSUME TypeOK, FileInv, up, turn # "idle", MinKeep >= 2, NEW m \in Talk,
         MessageLine(m) \in Writing, NEW how \in Outcomes, Put(MessageLine(m), how), ~missed'
  PROVE  /\ ~missed /\ ended' /\ Sound(Load(file'))
         /\ Load(file').list = Append(Load(file).list, m)
         /\ Len(Append(messages, m)) <= Len(Load(file').list) + 2
<1>1. MessageLine(m) \in Lines /\ MessageLine(m).type = "message" /\ MessageLine(m).message = m
  BY LinesWritten
<1> DEFINE line == MessageLine(m)
<1> HIDE DEF line
<1>2. /\ ~missed /\ ended' /\ Sound(Load(file'))
      /\ ended => Load(file') = ReplayLine(Load(file), line)
  BY FilePut DEF line
<1>3. ended /\ Len(messages) <= Len(Load(file).list) + 2 /\ Load(file).ok
  BY <1>2 DEF FileInv, Sound
<1>4. Load(file) \in View
  BY BaseFacts
<1>5. ReplayLine(Load(file), line) = [ok |-> TRUE, list |-> Append(Load(file).list, m)]
  BY <1>1, <1>3, <1>4, ReplayCases DEF line
<1>6. Load(file').list = Append(Load(file).list, m)
  BY <1>2, <1>3, <1>5
<1>7. messages \in Seq(Talk) /\ Load(file).list \in Seq(Talk)
  BY <1>4 DEF TypeOK, View
<1>8. /\ Len(messages) \in Nat /\ Len(Append(messages, m)) = Len(messages) + 1
      /\ Len(Load(file).list) \in Nat
      /\ Len(Append(Load(file).list, m)) = Len(Load(file).list) + 1
  BY <1>7, AppendFacts
<1> QED
  BY <1>2, <1>3, <1>6, <1>8

\* What a process leaves behind when its last write is cut short.
LEMMA FileLast ==
  ASSUME TypeOK, FileInv, ~missed, NEW line, Fits(line), NEW how \in Outcomes \cup Cut,
         how # "refused"
  PROVE  LET new == Written(line, how).file
         IN Sound(Load(new)) /\ Sound(Load(Front(new)))
<1>1. line \in Lines
  BY DEF Fits
<1>2. Written(line, how).file = Append(file, line) \/ Written(line, how).file = Append(Base, Broken)
  <2>1. ended \in BOOLEAN
    BY DEF TypeOK
  <2> QED
    BY <1>1, <2>1, WrittenFacts, Zenon
<1>3. Sound(Load(file)) /\ Sound(Load(Base))
  BY BaseFacts DEF FileInv
<1>4. Sound(Load(Append(file, line))) /\ Front(Append(file, line)) = file
  BY LineKept
<1>5. Sound(Load(Append(Base, Broken))) /\ Front(Append(Base, Broken)) = Base
  BY LineLost
<1> QED
  BY <1>2, <1>3, <1>4, <1>5, Zenon

\* A step keeps the file one that a process can go on from.
LEMMA FileStep ==
  ASSUME TypeOK, FileInv, MinKeep >= 2, Next
  PROVE  FileInv'
<1>0. /\ file \in Seq(Lines) /\ messages \in Seq(Talk) /\ ended \in BOOLEAN
      /\ turn \in {"idle", "ready", "model", "tools", "noted"}
      /\ ~up => turn = "idle" /\ messages = << >>
  BY DEF TypeOK
<1>f. ~missed => /\ Sound(Load(file))
                 /\ ~ended => Sound(Load(Front(file)))
                 /\ up /\ ~ended => turn = "idle" /\ messages = Load(file).list
                 /\ up => Len(messages) <= Len(Load(file).list) + 2
                 /\ turn \in {"tools", "noted"} => LastOpen(Load(file).list)
  BY DEF FileInv
<1>b. /\ Load(file) \in View /\ Load(Base) \in View
      /\ Load(file).list \in Seq(Talk) /\ Load(Base).list \in Seq(Talk)
      /\ Len(Load(file).list) \in Nat /\ Len(Load(Base).list) \in Nat /\ Len(messages) \in Nat
  BY <1>0, BaseFacts DEF View
<1>1. CASE Create
  <2>1. /\ file' = << Meta >> /\ ended' = TRUE /\ turn' = "idle" /\ messages' = << >>
    BY <1>0, <1>1 DEF Create, live
  <2>2. << >> \in Seq(Lines) /\ Meta \in Lines /\ Append(<< >>, Meta) = << Meta >>
        /\ Meta.type \notin {"message", "compaction"}
    BY LinesWritten
  <2>3. Load(<< Meta >>) = ReplayLine(Start, Meta)
    BY <2>2, LoadAppend, LoadEmpty
  <2>4. ReplayLine(Start, Meta) = Start
    BY <2>2, StartFacts, ReplayCases
  <2>5. Load(file') = Start /\ Len(messages') <= Len(Load(file').list) + 2
    BY <2>1, <2>3, <2>4, StartFacts
  <2> QED
    BY <2>1, <2>5, StartFacts DEF FileInv
<1>2. CASE Resume
  <2>1. /\ messages' = Load(file).list /\ turn = "idle"
        /\ UNCHANGED << file, ended, turn, missed >>
    BY <1>0, <1>2 DEF Resume, Loaded
  <2>2. Len(messages') <= Len(Load(file').list) + 2
    BY <1>b, <2>1
  <2> QED
    BY <1>f, <2>1, <2>2 DEF FileInv
<1>3. CASE StartTurn
  <2>1. PICK how \in Outcomes : Put(MessageLine(UserMessage), how)
    BY <1>3 DEF StartTurn, Log
  <2>2. messages' = Append(messages, UserMessage) /\ turn' = "ready" /\ turn = "idle"
    BY <1>3 DEF StartTurn
  <2> SUFFICES ASSUME ~missed' PROVE FileInv'
    BY DEF FileInv
  <2> DEFINE line == MessageLine(UserMessage)
  <2>3. line \in Writing /\ up
    BY <2>1, <2>2 DEF Writing, Put
  <2>4. /\ ~missed /\ ended' /\ Sound(Load(file')) /\ line \in Lines
        /\ ended => Load(file') = ReplayLine(Load(file), line)
        /\ ~ended => Load(file') = Load(Base)
    BY <2>1, <2>3, FilePut
  <2>5. Len(messages') = Len(messages) + 1
    BY <1>0, <2>2, TalkFacts, AppendFacts
  <2>6. Len(messages') <= Len(Load(file').list) + 2
    <3>1. CASE ended
      <4>1. line.type = "message" /\ line.message = UserMessage
        BY TalkFacts, LinesWritten
      <4>2. Load(file).ok
        BY <1>f, <2>4 DEF Sound
      <4> HIDE DEF line
      <4>3. ReplayLine(Load(file), line)
              = [ok |-> TRUE, list |-> Append(Load(file).list, UserMessage)]
        BY <1>b, <2>4, <4>1, <4>2, ReplayCases
      <4>4. Load(file').list = Append(Load(file).list, UserMessage)
        BY <2>4, <3>1, <4>3
      <4>5. Len(Append(Load(file).list, UserMessage)) = Len(Load(file).list) + 1
        BY <1>b, TalkFacts, AppendFacts
      <4>6. Len(messages) <= Len(Load(file).list) + 2
        BY <1>f, <2>3, <2>4
      <4> QED
        BY <1>b, <2>5, <4>4, <4>5, <4>6
    <3>2. CASE ~ended
      <4>1. messages = Load(file).list
        BY <1>f, <2>3, <2>4, <3>2
      <4>2. Len(Load(file).list) <= Len(Load(Base).list) + 1
        BY BaseFacts
      <4> QED
        BY <1>b, <2>4, <2>5, <3>2, <4>1, <4>2
    <3> QED
      BY <3>1, <3>2
  <2> QED
    BY <2>2, <2>4, <2>6 DEF FileInv
<1>4. CASE Request
  <2>1. up /\ turn = "ready" /\ turn' = "model" /\ UNCHANGED << file, ended, up, messages, missed >>
    BY <1>4 DEF Request
  <2> QED
    BY <1>f, <2>1 DEF FileInv
<1>5. CASE Compaction
  <2>1. /\ CompactionBounds(messages).count > 0 /\ turn = "ready" /\ turn' = "model"
        /\ messages' = Compact(messages, CompactionBounds(messages), UserMessage)
    BY <1>5 DEF Compaction
  <2> DEFINE line  == CompactionLine(PersistedBounds(messages))
             count == CompactionBounds(messages).count
             safe  == ToolSafePrefix(Load(file).list, 0, line.count)
  <2>2. PICK how \in Outcomes : Put(line, how)
    BY <1>5 DEF Compaction, Log
  <2> SUFFICES ASSUME ~missed' PROVE FileInv'
    BY DEF FileInv
  <2>3. line \in Writing /\ up
    BY <2>1, <2>2 DEF Writing, Put
  <2>4. /\ ~missed /\ ended' /\ Sound(Load(file'))
        /\ ended => Load(file') = ReplayLine(Load(file), line)
    BY <2>2, <2>3, FilePut
  <2>5. /\ ended /\ Load(file).ok /\ Len(messages) <= Len(Load(file).list) + 2
    BY <1>0, <1>f, <2>1, <2>3, <2>4 DEF Sound
  <2>6. /\ line \in Lines /\ line.type = "compaction" /\ line.count = count
        /\ line.count <= Len(Load(file).list)
    <3>1. line \in Lines /\ line.type = "compaction" /\ line.count = count
      BY <1>0, <2>1, CompactionWritten
    <3>2. Fits(line)
      BY <2>3, <2>4, WritingFits
    <3> QED
      BY <3>1, <3>2 DEF Fits
  <2>7. Len(messages') = Len(messages) - count + 1 /\ count \in 1 .. Len(messages)
    BY <1>0, <2>1, CompactFacts, BoundsFacts
  <2> HIDE DEF line, count
  <2>8. safe \in 0 .. count
    BY <1>b, <2>6, <2>7, SafePrefix
  <2>9. Len(Load(file').list) >= Len(Load(file).list) - count + 1
    <3>1. CASE safe = 0
      <4>1. Load(file') = Load(file)
        BY <1>b, <2>4, <2>5, <2>6, <3>1, ReplayCases
      <4> QED
        BY <1>b, <2>7, <4>1
    <3>2. CASE safe # 0
      <4>1. ReplayLine(Load(file), line)
              = [ok |-> TRUE, list |-> Replace(Load(file).list, 0, safe, UserMessage)]
        BY <1>b, <2>5, <2>6, <3>2, ReplayCases
      <4>2. Load(file').list = Replace(Load(file).list, 0, safe, UserMessage)
        BY <2>4, <2>5, <4>1
      <4> HIDE DEF safe
      <4>3. safe \in 1 .. Len(Load(file).list)
        BY <1>b, <2>6, <2>7, <2>8, <3>2
      <4>4. Len(Replace(Load(file).list, 0, safe, UserMessage)) = Len(Load(file).list) - safe + 1
        BY <1>b, <4>3, ReplaceType
      <4> QED
        BY <1>b, <2>7, <2>8, <4>2, <4>3, <4>4
    <3> QED
      BY <3>1, <3>2
  <2>10. Len(messages') <= Len(Load(file').list) + 2
    <3>1. Len(Load(file').list) \in Nat
      <4>1. Load(file') \in View
        BY <1>b, <2>4, <2>5, <2>6, ReplayType
      <4> QED
        BY <4>1 DEF View
    <3> QED
      BY <1>b, <2>5, <2>7, <2>9, <3>1
  <2> QED
    BY <2>1, <2>4, <2>10 DEF FileInv
<1>6. CASE Fallback
  <2>1. /\ CompactionBounds(messages).count > 0 /\ turn = "ready" /\ turn' = "model" /\ up
        /\ messages' = Compact(messages, CompactionBounds(messages), UserMessage)
        /\ UNCHANGED << file, ended, up, missed >>
    BY <1>6 DEF Fallback
  <2>2. /\ Len(messages') = Len(messages) - CompactionBounds(messages).count + 1
        /\ CompactionBounds(messages).count \in 1 .. Len(messages)
    BY <1>0, <2>1, CompactFacts, BoundsFacts
  <2>3. Len(messages') <= Len(messages)
    BY <1>b, <2>2
  <2>4. ~missed => Len(messages') <= Len(Load(file').list) + 2
    BY <1>b, <1>f, <2>1, <2>2, <2>3
  <2> QED
    BY <1>f, <2>1, <2>4 DEF FileInv
<1>7. CASE Answer
  <2>1. PICK calls \in CallLists :
          /\ Log(MessageLine(AssistantMessage(calls)))
          /\ messages' = Append(messages, AssistantMessage(calls))
          /\ turn' \in IF calls = << >> THEN {"idle", "ready"} ELSE {"tools"}
    BY <1>7 DEF Answer
  <2> DEFINE m == AssistantMessage(calls)
  <2>2. PICK how \in Outcomes : Put(MessageLine(m), how)
    BY <2>1 DEF Log
  <2>3. turn = "model" /\ up
    BY <1>7, <2>2 DEF Answer, Put
  <2>4. MessageLine(m) \in Writing /\ m \in Talk
    BY <2>3, TalkFacts DEF Writing
  <2>5. m.role = "assistant" /\ m.calls = calls
    BY DEF AssistantMessage
  <2> HIDE DEF m
  <2> SUFFICES ASSUME ~missed' PROVE FileInv'
    BY DEF FileInv
  <2>6. /\ ended' /\ Sound(Load(file'))
        /\ Load(file').list = Append(Load(file).list, m)
        /\ Len(messages') <= Len(Load(file').list) + 2
    BY <2>1, <2>2, <2>3, <2>4, FileMessage DEF m
  <2>7. turn' \in {"tools", "noted"} => LastOpen(Load(file').list)
    <3>1. turn' \in {"tools", "noted"} => calls # << >>
      BY <2>1
    <3> QED
      BY <1>b, <2>4, <2>5, <2>6, <3>1, AppendOpens
  <2> QED
    BY <2>6, <2>7 DEF FileInv
<1>8. CASE Note
  <2>1. PICK n \in NoteSizes, how \in Outcomes : Put(MemoryLine(n), how)
    BY <1>8 DEF Note
  <2> DEFINE line == MemoryLine(n)
  <2>2. turn = "tools" /\ turn' = "noted" /\ messages' = messages /\ up
    BY <1>8, <2>1 DEF Note, Put
  <2>3. line \in Writing /\ line.type \notin {"message", "compaction"}
    BY <2>2, LinesWritten DEF Writing
  <2> SUFFICES ASSUME ~missed' PROVE FileInv'
    BY DEF FileInv
  <2>4. /\ ~missed /\ ended' /\ Sound(Load(file')) /\ line \in Lines
        /\ ended => Load(file') = ReplayLine(Load(file), line)
    BY <2>1, <2>2, <2>3, FilePut
  <2>5. ended
    BY <1>0, <1>f, <2>2, <2>4
  <2>6. Load(file') = Load(file)
    BY <1>b, <2>3, <2>4, <2>5, ReplayCases
  <2> QED
    BY <1>f, <2>2, <2>4, <2>6 DEF FileInv
<1>9. CASE Result
  <2>1. PICK how \in Outcomes : Put(MessageLine(ToolMessage(Head(due))), how)
    BY <1>9 DEF Result, Log
  <2> DEFINE m == ToolMessage(Head(due))
  <2>2. messages' = Append(messages, m) /\ turn \in {"tools", "noted"} /\ up
    BY <1>9, <2>1 DEF Result, Put
  <2>3. m \in Talk /\ m.role = "tool"
    BY <2>2, StepLines DEF ToolMessage
  <2>4. MessageLine(m) \in Writing
    BY <2>2 DEF Writing
  <2>5. Put(MessageLine(m), how) /\ turn # "idle"
    BY <2>1, <2>2
  <2> HIDE DEF m
  <2> SUFFICES ASSUME ~missed' PROVE FileInv'
    BY DEF FileInv
  <2>6. /\ ~missed /\ ended' /\ Sound(Load(file'))
        /\ Load(file').list = Append(Load(file).list, m)
        /\ Len(messages') <= Len(Load(file').list) + 2
    BY <2>2, <2>3, <2>4, <2>5, FileMessage
  <2>7. LastOpen(Load(file').list)
    BY <1>b, <1>f, <2>2, <2>3, <2>6, AppendOpens
  <2> QED
    BY <2>6, <2>7 DEF FileInv
<1>10. CASE EndTurn
  <2>1. up /\ turn # "idle" /\ turn' = "idle" /\ UNCHANGED << file, ended, up, messages, missed >>
    BY <1>10 DEF EndTurn
  <2> QED
    BY <1>f, <2>1 DEF FileInv
<1>11. CASE Exit
  <2>1. up /\ turn = "idle" /\ up' = FALSE /\ turn' = "idle"
    BY <1>11 DEF Exit, Down
  <2>2. PICK how \in Outcomes : file' = Written(Stats, how).file /\ Fault(how)
    BY <1>11 DEF Exit
  <2> SUFFICES ASSUME ~missed' PROVE FileInv'
    BY DEF FileInv
  <2>3. ~missed /\ how # "refused"
    BY <2>2 DEF Fault, Whole
  <2>4. Stats \in Writing
    BY <2>1 DEF Writing
  <2>5. Fits(Stats)
    BY <2>1, <2>3, <2>4, WritingFits
  <2>6. Sound(Load(file')) /\ Sound(Load(Front(file')))
    BY <2>2, <2>3, <2>5, FileLast
  <2> QED
    BY <2>1, <2>6 DEF FileInv
<1>12. CASE Crash
  <2>1. up /\ up' = FALSE /\ turn' = "idle" /\ missed' = missed
    BY <1>12 DEF Crash, Down
  <2> SUFFICES ASSUME ~missed PROVE FileInv'
    BY <2>1 DEF FileInv
  <2>2. CASE UNCHANGED << file, ended >>
    BY <1>f, <2>1, <2>2 DEF FileInv
  <2>3. CASE \E line \in Writing, how \in Cut : file' = Written(line, how).file
    <3>1. PICK line \in Writing, how \in Cut : file' = Written(line, how).file
      BY <2>3
    <3>2. how # "refused" /\ how \in Outcomes \cup Cut
      BY DEF Cut
    <3>3. Fits(line)
      BY <2>1, WritingFits
    <3>4. Sound(Load(file')) /\ Sound(Load(Front(file')))
      BY <3>1, <3>2, <3>3, FileLast
    <3> QED
      BY <2>1, <3>4 DEF FileInv
  <2> QED
    BY <1>12, <2>2, <2>3 DEF Crash
<1> QED
  BY <1>1, <1>2, <1>3, <1>4, <1>5, <1>6, <1>7, <1>8, <1>9, <1>10, <1>11, <1>12 DEF Next

-----------------------------------------------------------------------------
(* Theorems. *)

\* The state before any session.
LEMMA SInvInit ==
  ASSUME Init
  PROVE  SInv /\ FileInv
<1>1. /\ file = << >> /\ ended = TRUE /\ up = FALSE /\ turn = "idle" /\ due = << >>
      /\ messages = << >> /\ memory = 0 /\ drifted = FALSE /\ missed = FALSE /\ faults = 0
  BY DEF Init
<1>2. /\ << >> \in Seq(Lines) /\ << >> \in Seq(Nat \ {0}) /\ << >> \in Seq(Talk) /\ 0 \in Nat
      /\ "idle" \in {"idle", "ready", "model", "tools", "noted"}
      /\ "idle" \notin {"tools", "noted"}
  OBVIOUS
<1>3. TypeOK
  BY <1>1, <1>2, TypeParts, Zenon
<1>4. MemoryFits /\ LoadsWhatIsLive
  BY <1>1, NoNotes DEF MemoryFits, LoadsWhatIsLive
<1>5. Load(file) = Start
  BY <1>1, LoadEmpty
<1>6. FileInv
  BY <1>1, <1>5, StartFacts DEF FileInv
<1> QED
  BY <1>3, <1>4, <1>6 DEF SInv

\* Nothing changes in a step that is none of the session's.
LEMMA SInvStutter ==
  ASSUME UNCHANGED vars
  PROVE  (SInv => SInv') /\ (FileInv => FileInv')
<1>1. UNCHANGED << file, ended, up, turn, due, messages, memory, drifted, missed, faults >>
  BY DEF vars, live
<1>2. TypeOK => TypeOK'
  BY <1>1, Zenon DEF TypeOK
<1>3. MemoryFits => MemoryFits'
  BY <1>1 DEF MemoryFits
<1>4. LoadsWhatIsLive => LoadsWhatIsLive'
  BY <1>1 DEF LoadsWhatIsLive, Loaded, LoadedMemory
<1>5. FileInv => FileInv'
  BY <1>1 DEF FileInv
<1> QED
  BY <1>2, <1>3, <1>4, <1>5 DEF SInv

\* Every step of the session and of the file under it (session.c, and the
\* turn of loop.c that writes to it) keeps the types, the limit of the memory
\* text and the agreement of the file with the conversation.
THEOREM Inductive == Spec => []SInv
<1>1. Init => SInv
  BY SInvInit
<1>2. SInv /\ [Next]_vars => SInv'
  <2> SUFFICES ASSUME SInv, [Next]_vars PROVE SInv'
    OBVIOUS
  <2>1. CASE Next
    BY <2>1, TypeStep, LiveStep DEF SInv
  <2>2. CASE UNCHANGED vars
    BY <2>2, SInvStutter
  <2> QED
    BY <2>1, <2>2
<1> QED
  BY <1>1, <1>2, PTL DEF Spec

\* Every line has one of the formats session.h lists, or is broken, and only
\* the last one may lack its newline.
THEOREM TypeCorrect == Spec => []TypeOK
<1>1. SInv => TypeOK
  BY DEF SInv
<1> QED
  BY <1>1, Inductive, PTL

\* As long as each change added its one line, session_load_messages and
\* session_open rebuild the conversation and the memory the process holds.
THEOREM ReloadsTheConversation == Spec => []LoadsWhatIsLive
<1>1. SInv => LoadsWhatIsLive
  BY DEF SInv
<1> QED
  BY <1>1, Inductive, PTL

\* Whatever crashes leave of a session no write to which was reported done
\* and failed: session_load_messages accepts it, what it rebuilds has no tool
\* result without its answer, and the memory text fits.  It needs a compaction
\* to leave two messages alone; COMPACT_MIN_KEEP is 4 (context.c).
THEOREM CrashesResume ==
  ASSUME MinKeep >= 2
  PROVE  Spec => []LoadsWell
<1>1. Init => FileInv
  BY SInvInit
<1>2. SInv /\ FileInv /\ [Next]_vars => FileInv'
  <2> SUFFICES ASSUME SInv, FileInv, [Next]_vars PROVE FileInv'
    OBVIOUS
  <2>1. CASE Next
    BY <2>1, FileStep DEF SInv
  <2>2. CASE UNCHANGED vars
    BY <2>2, SInvStutter
  <2> QED
    BY <2>1, <2>2
<1>3. SInv /\ FileInv => LoadsWell
  <2> SUFFICES ASSUME SInv, FileInv PROVE LoadsWell
    OBVIOUS
  <2>1. AlwaysLoads /\ LoadsInProtocol
    BY DEF FileInv, Sound, AlwaysLoads, LoadsInProtocol, Loaded
  <2>2. file \in Seq(Lines) /\ memory \in 0 .. MemoryMax
    BY DEF SInv, TypeOK, MemoryFits
  <2>3. Notes(file) \in 0 .. MemoryMax
    BY <2>2, NotesType
  <2>4. MemoryMax \in Nat
    BY SessionAssumption
  <2>5. MemoryBounded
    BY <2>2, <2>3, <2>4 DEF MemoryBounded, LoadedMemory
  <2> QED
    BY <2>1, <2>5 DEF LoadsWell
<1> QED
  BY <1>1, <1>2, <1>3, Inductive, PTL DEF Spec
=============================================================================
