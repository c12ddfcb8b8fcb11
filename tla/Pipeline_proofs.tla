--------------------------- MODULE Pipeline_proofs ---------------------------
(***************************************************************************)
(* The reader of a query gets EOS after all answers, and each answer once, *)
(* for any number of literals in the chain of a group, of reasoners and of *)
(* answers; the reader of a query with several groups never gets EOS. Both *)
(* follow from PipelineInv, which is inductive. The reader of a query with *)
(* two groups gets each combination of their answers once: CombinerInv.    *)
(*                                                                         *)
(* EOS: each link from a stream to another one carries EOS at most once,   *)
(* when the first has ended, and the second has not ended before it comes. *)
(* Answers: a thread is alive until it pushes EOS, and has only copies of  *)
(* its last answer on its stack; while it lives, no stream on the path of  *)
(* its answers has ended. An answer tells which thread pushed it, as the   *)
(* choices of a partial result come from earlier literals.                 *)
(*                                                                         *)
(* The lemmas: the network of streams, what a step leaves as it was, what  *)
(* each action does (for queries of any shape), queries of several groups, *)
(* EOS and answers of a chain action by action, and all of them together;  *)
(* two groups at the end, again action by action.                          *)
(***************************************************************************)
EXTENDS Pipeline, SequenceTheorems, WellFoundedInduction, TLAPS

\* The length of the only chain.
IsChain == Len(plan) <= 1
Depth == IF plan = <<>> THEN 0 ELSE plan[1]
Literal(s) == s[3]
StepOf(s) == Step(1, Literal(s))

\* Stream f hands its messages to x.
Sources == {Source} \cup Streams
Targets == Streams \cup {Reader}
Feeds(f, x) ==
    \/ f = Source /\ x = Edb
    \/ f \in Streams /\ x \in Range(Subscribers(f))

\* Stream n has handed EOS on, and x will take EOS of f.
HasEnded(n) ==
    \/ n = Source /\ numSent[Source] > NumInputs[plan]
    \/ n \in Stages /\ ~isQueryOpened[n]
    \/ n \in Broadcasters /\ channels[n] = {}
Awaits(x, f) ==
    /\ x = Reader => EOS \notin Range(output)
    /\ x \in Stages => isAwaitingInput[x]
    /\ x \in Broadcasters => f \in channels[x]

\* The answers of a thread, and the streams from which they are pushed on.
AnswerOf(t, k) == IF t = Source THEN {Choice(Edb, k)} ELSE t[2] \cup {Choice(t[1], k)}
Current(t) == AnswerOf(t, numSent[t])
IsAlive(t) == IF t = Source THEN numSent[Source] <= NumInputs[plan] ELSE t[2] \in graphQueries[t[1]]
IsLast(t) == IF t = Source THEN Depth = 0 ELSE Literal(t[1]) = Depth
Path(t) == IF t = Source THEN {Source, Edb}
           ELSE {t[1], StepOf(t[1])} \cup (IF IsLast(t) THEN {Idb} ELSE {})

IsSequence(q) == \E S : q \in Seq(S)
Typed ==
    /\ plan \in Plans
    /\ stack = [t \in Threads |-> stack[t]] /\ Source \in Threads
    /\ \A t \in Threads : IsSequence(stack[t])
    /\ numSent \in [Threads -> Nat]
    /\ \A t \in Threads \ {Source} : t = <<t[1], t[2]>> /\ t[1] \in Stages
    /\ channels \in [Streams -> SUBSET Sources]
    /\ isOpened \in [Streams -> BOOLEAN]
    /\ isAwaitingInput \in [Stages -> BOOLEAN] /\ isQueryOpened \in [Stages -> BOOLEAN]
    /\ graphQueries = [s \in Stages |-> graphQueries[s]]
    /\ \A s \in Stages : \A a \in graphQueries[s] : <<s, a>> \in Threads
    /\ IsSequence(output)

\* A thread pushes its last answer while it is alive, and EOS afterwards.
Answering(t, c) == \E f \in Path(t), x \in Targets : Feeds(f, x) /\ c = Push(f, x, Current(t))
Ending(c) ==
    \/ \E f \in Sources, x \in Targets : Feeds(f, x) /\ c = Push(f, x, EOS)
    \/ \E n \in Streams : c = Close(n)
Called ==
    \A t \in Threads : \A k \in DOMAIN stack[t] :
        IF IsAlive(t) THEN Answering(t, stack[t][k]) /\ numSent[t] >= 1 ELSE Ending(stack[t][k])

\* EOS is handed on once, and awaited until then.
Linked ==
    \A f \in Sources, x \in Targets : Feeds(f, x) =>
        /\ ~HasEnded(f) => Awaits(x, f)
        /\ \A t \in Threads : \A k \in DOMAIN stack[t] :
               stack[t][k] = Push(f, x, EOS) => HasEnded(f) /\ Awaits(x, f)
Once ==
    \A f \in Sources, x \in Targets : Feeds(f, x) => \A t, u \in Threads :
        \A k \in DOMAIN stack[t], l \in DOMAIN stack[u] :
            stack[t][k] = Push(f, x, EOS) /\ stack[u][l] = Push(f, x, EOS) => t = u /\ k = l

\* What is closed has ended, and a stage that has ended has no work left.
Closed ==
    /\ \A n \in Broadcasters : ~isOpened[n] => HasEnded(n)
    /\ \A n \in Broadcasters, t \in Threads : \A k \in DOMAIN stack[t] :
           stack[t][k] = Close(n) => HasEnded(n)
    /\ \A s \in Stages : ~isQueryOpened[s] => ~isAwaitingInput[s] /\ graphQueries[s] = {}

\* A step ends after all that is before it.
Upstream ==
    \A i \in 1 .. Depth : HasEnded(Step(1, i)) =>
        HasEnded(Source) /\ \A s \in Stages : Literal(s) <= i => HasEnded(s)

\* A partial result was pushed as an answer, for earlier literals.
ChoiceLiteral(x) == IF x[1] = "edb" THEN 0 ELSE Literal(x[3])
Born ==
    \A q \in Threads \ {Source} :
        /\ \A x \in q[2] : ChoiceLiteral(x) \in 0 .. Literal(q[1]) - 1
        /\ \E t \in Threads : \E k \in 1 .. numSent[t] : q[2] = AnswerOf(t, k)

\* An answer that is on its way has not arrived.
Fresh ==
    \A t \in Threads : IsAlive(t) => \A k \in DOMAIN stack[t] :
        /\ stack[t][k].to \in Stages => <<stack[t][k].to, Current(t)>> \notin Threads
        /\ stack[t][k].to \notin Stages =>
               Len(stack[t]) = 1 /\ \A s \in Stages : <<s, Current(t)>> \notin Threads
        /\ Current(t) \notin Range(output)
        /\ \A l \in DOMAIN stack[t] : stack[t][k].to = stack[t][l].to => k = l

\* The answers to the last literal have been received or are on their way.
Results == {p[2] : p \in produced}
IsPushing(t) == IsAlive(t) /\ stack[t] # <<>>
Received ==
    /\ \A i \in DOMAIN output : output[i] = EOS \/ output[i] \in Results
    /\ \A i, j \in DOMAIN output : output[i] = output[j] => i = j
    /\ \A a \in Results :
           /\ \/ \E i \in DOMAIN output : output[i] = a
              \/ \E t \in Threads : IsLast(t) /\ IsPushing(t) /\ Current(t) = a
           /\ \E t \in Threads : \E k \in 1 .. numSent[t] : IsLast(t) /\ a = AnswerOf(t, k)
    /\ \A t \in Threads : IsLast(t) /\ IsPushing(t) => Current(t) \in Results

EosInv == Called /\ Linked /\ Once /\ Closed /\ Upstream
AnswerInv == Born /\ Fresh /\ Received

\* With several groups EOS does not pass the combiner.
NoEos ==
    /\ \A t \in Threads : \A k \in DOMAIN stack[t] :
           stack[t][k].op = "push" /\ stack[t][k].to \in {Idb, Reader} => stack[t][k].msg # EOS
    /\ \A i \in DOMAIN output : output[i] # EOS

\* EOS is not part of another message, and the combiner is locked by the thread
\* that has still to unlock it.
IsMessage(m) == m = EOS \/ EosToken \notin m
Messages ==
    /\ \A t \in Threads : \A k \in DOMAIN stack[t] : stack[t][k].op = "push" => IsMessage(stack[t][k].msg)
    /\ \A q \in Threads \ {Source} : EosToken \notin q[2]
    /\ \A i \in DOMAIN output : IsMessage(output[i])
Locked ==
    /\ DOMAIN buffer = Groups
    /\ bufferLock = NoThread \/ (bufferLock \in Threads /\ \E k \in DOMAIN stack[bufferLock] :
                                                             stack[bufferLock][k].op = "combine")

PipelineInv == Typed /\ (IsChain => EosInv /\ AnswerInv) /\ (~IsChain => NoEos)
-----------------------------------------------------------------------------
(* The network *)

\* What the assumption on plans says of this one.
LEMMA Plan ==
    ASSUME plan \in Plans
    PROVE  /\ Len(plan) \in Nat /\ Groups = 1 .. Len(plan) /\ DOMAIN plan = Groups
           /\ \A g \in Groups : plan[g] \in Nat /\ plan[g] > 0
           /\ NumReasoners \in Nat /\ NumReasoners > 0
           /\ NumInputs[plan] \in Nat
           /\ (plan = <<>> <=> Len(plan) = 0)
BY PlansAssumption, LenProperties, EmptySeq DEF Groups

\* A stage is known by group, literal and reasoner, a step by group and literal.
LEMMA Names ==
    /\ \A s : s \in Stages <=> \E g \in Groups : \E i \in 1 .. plan[g], r \in 0 .. NumReasoners : s = Stage(g, i, r)
    /\ \A n : n \in Steps <=> \E g \in Groups : \E i \in 1 .. plan[g] : n = Step(g, i)
    /\ \A g, i, r : /\ Stage(g, i, r)[2] = g /\ Stage(g, i, r)[3] = i
                    /\ Stage(g, i, r) \notin {Source, Edb, Idb, Combiner, Reader}
                    /\ \A h, j : Stage(g, i, r) # Step(h, j)
    /\ \A g, i, r, h, j, s : Stage(g, i, r) = Stage(h, j, s) => g = h /\ i = j /\ r = s
    /\ \A g, i : /\ Step(g, i)[2] = g /\ Step(g, i)[3] = i
                 /\ Step(g, i) \notin {Source, Edb, Idb, Combiner, Reader}
    /\ \A g, i, h, j : Step(g, i) = Step(h, j) => g = h /\ i = j
    /\ Source \notin {Edb, Idb, Combiner, Reader} /\ Edb \notin {Idb, Combiner, Reader}
    /\ Idb \notin {Combiner, Reader} /\ Combiner # Reader
<1>1. \A s : s \in Stages <=> \E g \in Groups : \E i \in 1 .. plan[g], r \in 0 .. NumReasoners : s = Stage(g, i, r)
  BY DEF Stages
<1>2. \A n : n \in Steps <=> \E g \in Groups : \E i \in 1 .. plan[g] : n = Step(g, i)
  BY DEF Steps
<1>3. \A g, i, r : /\ Stage(g, i, r)[2] = g /\ Stage(g, i, r)[3] = i
                   /\ Stage(g, i, r) \notin {Source, Edb, Idb, Combiner, Reader}
                   /\ \A h, j : Stage(g, i, r) # Step(h, j)
  BY DEF Stage, Step, Source, Edb, Idb, Combiner, Reader
<1>4. \A g, i, r, h, j, s : Stage(g, i, r) = Stage(h, j, s) => g = h /\ i = j /\ r = s
  BY DEF Stage
<1>5. \A g, i : /\ Step(g, i)[2] = g /\ Step(g, i)[3] = i
                /\ Step(g, i) \notin {Source, Edb, Idb, Combiner, Reader}
  BY DEF Step, Source, Edb, Idb, Combiner, Reader
<1>6. \A g, i, h, j : Step(g, i) = Step(h, j) => g = h /\ i = j
  BY DEF Step
<1>7. /\ Source \notin {Edb, Idb, Combiner, Reader} /\ Edb \notin {Idb, Combiner, Reader}
      /\ Idb \notin {Combiner, Reader} /\ Combiner # Reader
  BY DEF Source, Edb, Idb, Combiner, Reader
<1> QED
  BY <1>1, <1>2, <1>3, <1>4, <1>5, <1>6, <1>7

\* The kinds of streams; no stream is of two kinds.
LEMMA Kinds ==
    /\ Streams = Broadcasters \cup Stages \cup (IF Len(plan) > 1 THEN {Combiner} ELSE {})
    /\ Broadcasters \cap Stages = {} /\ Source \notin Streams /\ Reader \notin Streams
    /\ Edb \in Broadcasters /\ Steps \subseteq Broadcasters /\ Combiner \notin Broadcasters \cup Stages
    /\ (Groups # {} => Idb \in Broadcasters)
    /\ \A n \in Broadcasters : n \in Steps \/ n = Edb \/ (n = Idb /\ Groups # {})
    /\ \A n \in Stages : n \notin {Source, Edb, Idb, Combiner, Reader} /\ n \notin Steps
    /\ \A n \in Steps : n \notin {Source, Edb, Idb, Combiner, Reader}
<1>1. \A n \in Stages : n \notin {Source, Edb, Idb, Combiner, Reader} /\ n \notin Steps
  BY Names
<1>2. \A n \in Steps : n \notin {Source, Edb, Idb, Combiner, Reader}
  BY Names
<1> HIDE DEF Stages, Steps, Groups
<1> QED
  BY <1>1, <1>2, Names DEF Streams, Broadcasters

\* The elements of a sequence given by a function.
LEMMA Listed ==
    ASSUME NEW n \in Nat, NEW S, NEW f(_), \A k \in 1 .. n : f(k) \in S
    PROVE  LET q == [k \in 1 .. n |-> f(k)] IN q \in Seq(S) /\ Len(q) = n
OBVIOUS

\* Who subscribes to each kind of stream.
LEMMA SubscribersOf ==
    ASSUME plan \in Plans
    PROVE  /\ Groups = {} => Subscribers(Edb) = <<Reader>>
           /\ Groups # {} => Subscribers(Edb) = FirstStages
           /\ \A n \in Stages : Subscribers(n) = <<Step(n[2], n[3])>>
           /\ \A n \in Steps : Subscribers(n) = IF n[3] < plan[n[2]] THEN StagesOf(n[2], n[3] + 1)
                                                                     ELSE <<GroupOutput>>
           /\ Subscribers(Combiner) = <<Idb>> /\ Subscribers(Idb) = <<Reader>>
BY Kinds, Names DEF Subscribers

\* The stages of a literal, listed.
LEMMA StagesListed ==
    ASSUME plan \in Plans, NEW g \in Groups, NEW i \in 1 .. plan[g]
    PROVE  /\ StagesOf(g, i) \in Seq(Stages) /\ Len(StagesOf(g, i)) = NumReasoners + 1
           /\ DOMAIN StagesOf(g, i) = 1 .. NumReasoners + 1
           /\ \A k \in 1 .. NumReasoners + 1 : StagesOf(g, i)[k] = Stage(g, i, k - 1)
<1>1. NumReasoners + 1 \in Nat
  BY Plan
<1>2. ASSUME NEW k \in 1 .. NumReasoners + 1 PROVE Stage(g, i, k - 1) \in Stages
  <2>1. k - 1 \in 0 .. NumReasoners
    BY Plan
  <2> QED
    BY <2>1, Names
<1> QED
  BY <1>1, <1>2 DEF StagesOf

\* The stages of the first literals, listed; those of a chain are of one literal.
LEMMA FirstListed ==
    ASSUME plan \in Plans
    PROVE  /\ FirstStages \in Seq(Stages) /\ Len(FirstStages) = Len(plan) * (NumReasoners + 1)
           /\ IsChain /\ Groups # {} =>
                 /\ Len(FirstStages) = NumReasoners + 1 /\ DOMAIN FirstStages = 1 .. NumReasoners + 1
                 /\ \A k \in 1 .. NumReasoners + 1 : FirstStages[k] = Stage(1, 1, k - 1)
<1> DEFINE w == NumReasoners + 1
<1>1. w \in Nat /\ w > 0 /\ Len(plan) \in Nat
  BY Plan
<1> HIDE DEF w
<1>2. Len(plan) * w \in Nat
  BY <1>1
<1>3. ASSUME NEW k \in 1 .. Len(plan) * w
      PROVE  Stage((k - 1) \div w + 1, 1, (k - 1) % w) \in Stages
  <2>1. (k - 1) % w \in 0 .. NumReasoners
    <3>1. k - 1 \in Nat
      BY <1>2
    <3>2. (k - 1) % w \in 0 .. w - 1
      BY <1>1, <3>1
    <3> QED
      BY <3>2, Plan DEF w
  <2>2. (k - 1) \div w \in Nat /\ (k - 1) \div w < Len(plan)
    BY <1>1
  <2>3. (k - 1) \div w + 1 \in Groups
    BY <1>1, <2>2, Plan
  <2>4. 1 \in 1 .. plan[(k - 1) \div w + 1]
    BY <2>3, Plan
  <2> QED
    BY <2>1, <2>3, <2>4, Names
<1>4. /\ FirstStages = [k \in 1 .. Len(plan) * w |-> Stage((k - 1) \div w + 1, 1, (k - 1) % w)]
      /\ FirstStages \in Seq(Stages) /\ Len(FirstStages) = Len(plan) * w
  BY <1>2, <1>3 DEF FirstStages, w
<1>5. ASSUME IsChain, Groups # {}
      PROVE  /\ Len(FirstStages) = w /\ DOMAIN FirstStages = 1 .. w
             /\ \A k \in 1 .. w : FirstStages[k] = Stage(1, 1, k - 1)
  <2>1. Len(plan) = 1
    BY <1>5, <1>1, Plan DEF IsChain
  <2>2. Len(plan) * w = w
    BY <1>1, <2>1
  <2>3. \A k \in 1 .. w : (k - 1) \div w = 0 /\ (k - 1) % w = k - 1
    BY <1>1
  <2> QED
    BY <1>1, <1>4, <2>2, <2>3
<1> QED
  BY <1>4, <1>5 DEF w

\* The subscribers of a stream are a sequence. With several groups only the
\* combiner and what follows it lead to the reader.
LEMMA Subscribed ==
    ASSUME plan \in Plans, NEW n \in Streams
    PROVE  /\ Subscribers(n) \in Seq(Targets)
           /\ Len(plan) > 1 /\ n \notin {Combiner, Idb} =>
                 \A k \in DOMAIN Subscribers(n) : Subscribers(n)[k] \notin {Idb, Reader}
<1> DEFINE Good(q) == /\ q \in Seq(Targets)
                      /\ Len(plan) > 1 /\ n \notin {Combiner, Idb} => \A k \in DOMAIN q : q[k] \notin {Idb, Reader}
<1>1. Stages \subseteq Targets /\ Broadcasters \subseteq Targets /\ Reader \in Targets
  BY Kinds DEF Targets
<1>2. ASSUME NEW q \in Seq(Stages) PROVE Good(q)
  <2>1. q \in Seq(Targets)
    BY <1>1
  <2>2. \A k \in DOMAIN q : q[k] \in Stages
    BY LenProperties
  <2> QED
    BY <2>1, <2>2, Kinds
<1>3. ASSUME NEW x \in Targets, Len(plan) > 1 /\ n \notin {Combiner, Idb} => x \notin {Idb, Reader}
      PROVE  Good(<<x>>)
  BY <1>3
<1> HIDE DEF Good
<1>4. CASE n = Edb
  <2>1. CASE Groups = {}
    <3>1. ~(Len(plan) > 1)
      BY <2>1, Plan
    <3> QED
      BY <1>1, <1>3, <1>4, <2>1, <3>1, SubscribersOf DEF Good
  <2>2. CASE Groups # {}
    BY <1>2, <1>4, <2>2, SubscribersOf, FirstListed DEF Good
  <2> QED
    BY <2>1, <2>2
<1>5. CASE n \in Stages
  <2>1. PICK g \in Groups : \E i \in 1 .. plan[g], r \in 0 .. NumReasoners : n = Stage(g, i, r)
    BY <1>5, Names
  <2>2. PICK i \in 1 .. plan[g], r \in 0 .. NumReasoners : n = Stage(g, i, r)
    BY <2>1
  <2>3. Step(g, i) \in Steps /\ Subscribers(n) = <<Step(g, i)>>
    BY <1>5, <2>2, Names, SubscribersOf
  <2>4. Step(g, i) \in Targets /\ Step(g, i) \notin {Idb, Reader}
    BY <1>1, <2>3, Kinds
  <2> QED
    BY <1>3, <2>3, <2>4 DEF Good
<1>6. CASE n \in Steps
  <2>1. PICK g \in Groups : \E i \in 1 .. plan[g] : n = Step(g, i)
    BY <1>6, Names
  <2>2. PICK i \in 1 .. plan[g] : n = Step(g, i)
    BY <2>1
  <2>3. n[2] = g /\ n[3] = i /\ i \in Nat /\ plan[g] \in Nat
    BY <2>2, Names, Plan
  <2>4. CASE i < plan[g]
    <3>1. i + 1 \in 1 .. plan[g]
      BY <2>3, <2>4
    <3>2. Subscribers(n) = StagesOf(g, i + 1)
      BY <1>6, <2>3, <2>4, SubscribersOf
    <3>3. StagesOf(g, i + 1) \in Seq(Stages)
      BY <3>1, StagesListed
    <3> QED
      BY <1>2, <3>2, <3>3 DEF Good
  <2>5. CASE ~(i < plan[g])
    <3>1. Subscribers(n) = <<GroupOutput>>
      BY <1>6, <2>3, <2>5, SubscribersOf
    <3>2. GroupOutput \in Targets /\ (Len(plan) > 1 => GroupOutput \notin {Idb, Reader})
      <4>1. Len(plan) > 1 \/ Len(plan) = 1
        BY <2>1, Plan
      <4> QED
        <5>1. Len(plan) = 1 => GroupOutput = Idb /\ Idb \in Broadcasters
          BY <2>1, Kinds DEF GroupOutput
        <5>2. Len(plan) > 1 => GroupOutput = Combiner /\ Combiner \in Streams
          BY Kinds, Plan DEF GroupOutput
        <5> QED
          BY <1>1, <4>1, <5>1, <5>2, Names DEF Targets
    <3> QED
      BY <1>3, <3>1, <3>2 DEF Good
  <2> QED
    BY <2>4, <2>5
<1>7. CASE n = Idb \/ n = Combiner
  <2>1. n = Combiner => Idb \in Broadcasters
    <3>1. n = Combiner => Len(plan) > 1
      BY Kinds
    <3>2. Len(plan) > 1 => 1 \in Groups
      BY Plan
    <3> QED
      BY <3>1, <3>2, Kinds
  <2>2. n = Idb => Subscribers(n) = <<Reader>>
    BY SubscribersOf
  <2>3. n = Combiner => Subscribers(n) = <<Idb>>
    BY SubscribersOf
  <2>4. \A x \in Targets : Good(<<x>>)
    BY <1>3, <1>7
  <2> QED
    BY <1>1, <1>7, <2>1, <2>2, <2>3, <2>4 DEF Good
<1>8. n \in Stages \/ n \in Steps \/ n = Edb \/ n = Idb \/ n = Combiner
  BY Kinds
<1> QED
  BY <1>4, <1>5, <1>6, <1>7, <1>8 DEF Good
-----------------------------------------------------------------------------
(* A chain *)

\* The streams of a chain: Edb, and for each literal its stages and its step.
LEMMA ChainStreams ==
    ASSUME plan \in Plans, IsChain
    PROVE  /\ Depth \in Nat /\ (Depth = 0 <=> Groups = {}) /\ (Depth > 0 => Groups = {1} /\ plan[1] = Depth)
           /\ Streams = Broadcasters \cup Stages
           /\ \A s \in Stages : Literal(s) \in 1 .. Depth /\ s[2] = 1 /\ StepOf(s) \in Steps
           /\ \A i \in 1 .. Depth : Step(1, i) \in Steps /\ Step(1, i)[2] = 1 /\ Step(1, i)[3] = i
           /\ \A n \in Steps : \E i \in 1 .. Depth : n = Step(1, i)
           /\ \A i \in 1 .. Depth : Stage(1, i, 0) \in Stages /\ Literal(Stage(1, i, 0)) = i
           /\ \A s \in Stages : \E r \in 0 .. NumReasoners : s = Stage(1, Literal(s), r)
<1>1. /\ Depth \in Nat /\ (Depth = 0 <=> Groups = {}) /\ (Depth > 0 => Groups = {1} /\ plan[1] = Depth)
  <2>1. CASE plan = <<>>
    BY <2>1, Plan DEF Depth
  <2>2. CASE plan # <<>>
    <3>1. Len(plan) = 1
      BY <2>2, Plan DEF IsChain
    <3>2. Groups = {1}
      BY <3>1, Plan
    <3>3. plan[1] \in Nat /\ plan[1] > 0 /\ Depth = plan[1]
      BY <2>2, <3>2, Plan DEF Depth
    <3> QED
      BY <3>2, <3>3
  <2> QED
    BY <2>1, <2>2
<1>2. Streams = Broadcasters \cup Stages
  BY Kinds DEF IsChain
<1>3. ASSUME NEW s \in Stages
      PROVE  /\ Literal(s) \in 1 .. Depth /\ s[2] = 1 /\ StepOf(s) \in Steps
             /\ \E r \in 0 .. NumReasoners : s = Stage(1, Literal(s), r)
  <2>1. PICK g \in Groups : \E i \in 1 .. plan[g], r \in 0 .. NumReasoners : s = Stage(g, i, r)
    BY Names
  <2>2. PICK i \in 1 .. plan[g], r \in 0 .. NumReasoners : s = Stage(g, i, r)
    BY <2>1
  <2>3. g = 1 /\ plan[g] = Depth
    BY <1>1
  <2>4. Literal(s) = i /\ s[2] = 1
    BY <2>2, <2>3, Names DEF Literal
  <2> QED
    BY <2>2, <2>3, <2>4, Names DEF StepOf
<1>4. ASSUME NEW i \in 1 .. Depth
      PROVE  /\ Step(1, i) \in Steps /\ Step(1, i)[2] = 1 /\ Step(1, i)[3] = i
             /\ Stage(1, i, 0) \in Stages /\ Literal(Stage(1, i, 0)) = i
  <2>1. 1 \in Groups /\ i \in 1 .. plan[1]
    BY <1>1
  <2>2. 0 \in 0 .. NumReasoners
    BY Plan
  <2> QED
    BY <2>1, <2>2, Names DEF Literal
<1>5. \A n \in Steps : \E i \in 1 .. Depth : n = Step(1, i)
  BY <1>1, Names
<1> QED
  BY <1>1, <1>2, <1>3, <1>4, <1>5

\* A stream feeds its subscribers.
LEMMA FeedsIn ==
    ASSUME plan \in Plans, NEW n \in Streams
    PROVE  \A x : Feeds(n, x) <=> \E k \in DOMAIN Subscribers(n) : x = Subscribers(n)[k]
BY Kinds DEF Feeds, Range

\* Who feeds whom in a chain.
LEMMA ChainFeeds ==
    ASSUME plan \in Plans, IsChain
    PROVE  /\ \A x : Feeds(Source, x) <=> x = Edb
           /\ Depth = 0 => \A x : Feeds(Edb, x) <=> x = Reader
           /\ Depth > 0 => \A x : Feeds(Edb, x) <=> x \in Stages /\ Literal(x) = 1
           /\ \A s \in Stages : \A x : Feeds(s, x) <=> x = StepOf(s)
           /\ \A i \in 1 .. Depth : i < Depth =>
                 \A x : Feeds(Step(1, i), x) <=> x \in Stages /\ Literal(x) = i + 1
           /\ Depth > 0 => \A x : Feeds(Step(1, Depth), x) <=> x = Idb
           /\ Depth > 0 => \A x : Feeds(Idb, x) <=> x = Reader
<1>0. Edb \in Streams /\ (Depth > 0 => Idb \in Streams) /\ Stages \subseteq Streams /\ Steps \subseteq Streams
  BY ChainStreams, Kinds
<1>1. ASSUME NEW n \in Streams, NEW y, Subscribers(n) = <<y>> PROVE \A x : Feeds(n, x) <=> x = y
  BY <1>1, FeedsIn
<1>2. ASSUME NEW n \in Streams, NEW i \in 1 .. Depth, DOMAIN Subscribers(n) = 1 .. NumReasoners + 1,
             \A k \in 1 .. NumReasoners + 1 : Subscribers(n)[k] = Stage(1, i, k - 1), NEW x
      PROVE  Feeds(n, x) <=> x \in Stages /\ Literal(x) = i
  <2>1. ASSUME NEW k \in 1 .. NumReasoners + 1 PROVE Stage(1, i, k - 1) \in Stages /\ Literal(Stage(1, i, k - 1)) = i
    <3>1. k - 1 \in 0 .. NumReasoners
      BY Plan
    <3>2. 1 \in Groups /\ i \in 1 .. plan[1]
      BY ChainStreams
    <3> QED
      BY <3>1, <3>2, Names DEF Literal
  <2>2. ASSUME x \in Stages, Literal(x) = i PROVE \E k \in 1 .. NumReasoners + 1 : x = Stage(1, i, k - 1)
    <3>1. PICK r \in 0 .. NumReasoners : x = Stage(1, i, r)
      BY <2>2, ChainStreams
    <3>2. r + 1 \in 1 .. NumReasoners + 1 /\ (r + 1) - 1 = r
      BY Plan
    <3> QED
      BY <3>1, <3>2
  <2>3. Feeds(n, x) <=> \E k \in 1 .. NumReasoners + 1 : x = Stage(1, i, k - 1)
    <3>1. Feeds(n, x) <=> \E k \in DOMAIN Subscribers(n) : x = Subscribers(n)[k]
      BY FeedsIn
    <3> QED
      BY ONLY <3>1, <1>2
  <2> QED
    BY ONLY <2>1, <2>2, <2>3
<1>3. \A x : Feeds(Source, x) <=> x = Edb
  BY Kinds DEF Feeds
<1>4. Depth = 0 => \A x : Feeds(Edb, x) <=> x = Reader
  BY <1>0, <1>1, ChainStreams, SubscribersOf
<1>5. Depth > 0 => \A x : Feeds(Edb, x) <=> x \in Stages /\ Literal(x) = 1
  <2> SUFFICES ASSUME Depth > 0 PROVE \A x : Feeds(Edb, x) <=> x \in Stages /\ Literal(x) = 1
    OBVIOUS
  <2>1. Groups # {} /\ 1 \in 1 .. Depth
    BY ChainStreams
  <2>2. Subscribers(Edb) = FirstStages
    BY <2>1, SubscribersOf
  <2> QED
    BY <1>0, <1>2, <2>1, <2>2, FirstListed
<1>6. ASSUME NEW s \in Stages PROVE \A x : Feeds(s, x) <=> x = StepOf(s)
  <2>1. Subscribers(s) = <<StepOf(s)>>
    BY ChainStreams, SubscribersOf DEF StepOf, Literal
  <2> QED
    BY <1>0, <1>1, <2>1
<1>7. ASSUME NEW i \in 1 .. Depth, i < Depth PROVE \A x : Feeds(Step(1, i), x) <=> x \in Stages /\ Literal(x) = i + 1
  <2>1. 1 \in Groups /\ i + 1 \in 1 .. plan[1] /\ i + 1 \in 1 .. Depth /\ plan[1] = Depth
    BY <1>7, ChainStreams
  <2>2. Step(1, i) \in Streams /\ Subscribers(Step(1, i)) = StagesOf(1, i + 1)
    <3>1. Step(1, i) \in Steps /\ Step(1, i)[2] = 1 /\ Step(1, i)[3] = i
      BY ChainStreams
    <3>2. Step(1, i)[3] < plan[Step(1, i)[2]]
      BY ONLY <1>7, <2>1, <3>1
    <3>3. Subscribers(Step(1, i)) = StagesOf(Step(1, i)[2], Step(1, i)[3] + 1)
      BY <3>1, <3>2, SubscribersOf
    <3> QED
      BY ONLY <1>0, <3>1, <3>3
  <2> QED
    BY <1>2, <2>1, <2>2, StagesListed
<1>8. Depth > 0 => \A x : Feeds(Step(1, Depth), x) <=> x = Idb
  <2> SUFFICES ASSUME Depth > 0 PROVE \A x : Feeds(Step(1, Depth), x) <=> x = Idb
    OBVIOUS
  <2>1. plan[1] = Depth /\ Depth \in 1 .. Depth /\ 1 \in Groups
    BY ChainStreams
  <2>2. GroupOutput = Idb
    BY <2>1, Plan DEF GroupOutput, IsChain
  <2>3. Step(1, Depth) \in Streams /\ Subscribers(Step(1, Depth)) = <<Idb>>
    BY <1>0, <2>1, <2>2, ChainStreams, SubscribersOf
  <2> QED
    BY <1>1, <2>3
<1>9. Depth > 0 => \A x : Feeds(Idb, x) <=> x = Reader
  BY <1>0, <1>1, SubscribersOf
<1> QED
  BY <1>3, <1>4, <1>5, <1>6, <1>7, <1>8, <1>9

\* Where the answers of a thread go: down its path, to the stages of the next
\* literal or, after the last literal, to the reader.
Level(t) == IF t = Source THEN 0 ELSE Literal(t[1])

\* Where the answers of a thread go: along its path, to the stages of the next
\* literal or to the reader.
LEMMA PathLeads ==
    ASSUME plan \in Plans, IsChain, NEW t, t = Source \/ t[1] \in Stages, NEW f \in Path(t), NEW x, Feeds(f, x)
    PROVE  /\ f \in Sources /\ Level(t) \in 0 .. Depth
           /\ IsLast(t) <=> Level(t) = Depth
           /\ x \in Path(t) \/ x = Reader \/ x \in Stages
           /\ x \in Stages => Literal(x) = Level(t) + 1
           /\ x \in Broadcasters => x \in Path(t)
           /\ x = Reader => IsLast(t)
<1>0. Depth \in Nat
  BY ChainStreams
<1>1. Level(t) \in 0 .. Depth /\ (IsLast(t) <=> Level(t) = Depth)
  BY ChainStreams, Names DEF Level, IsLast
<1>2. ASSUME NEW s \in Stages PROVE s \notin Broadcasters /\ s # Reader
  BY Kinds
<1>3. ASSUME NEW b \in Broadcasters PROVE b \notin Stages /\ b # Reader
  BY Kinds
<1>4. CASE t = Source
  <2>1. f = Source \/ f = Edb
    BY <1>4 DEF Path
  <2>2. CASE f = Source
    BY <1>1, <1>3, <1>4, <2>2, ChainFeeds, Kinds DEF Path, Sources
  <2>3. CASE f = Edb /\ Depth = 0
    <3>1. x = Reader
      BY <2>3, ChainFeeds
    <3> QED
      BY <1>1, <1>4, <2>3, <3>1, Kinds DEF Sources, Level
  <2>4. CASE f = Edb /\ Depth > 0
    <3>1. x \in Stages /\ Literal(x) = 1
      BY <2>4, ChainFeeds
    <3>2. Level(t) = 0 /\ f \in Sources
      BY <1>4, <2>4, Kinds DEF Sources, Level
    <3> QED
      BY ONLY <1>1, <1>2, <3>1, <3>2
  <2> QED
    BY <1>0, <2>1, <2>2, <2>3, <2>4
<1>5. CASE t # Source
  <2>1. t[1] \in Stages /\ Literal(t[1]) \in 1 .. Depth /\ Level(t) = Literal(t[1]) /\ StepOf(t[1]) = Step(1, Level(t))
    BY <1>5, ChainStreams DEF Level, StepOf
  <2>2. Path(t) = {t[1], StepOf(t[1])} \cup (IF IsLast(t) THEN {Idb} ELSE {})
    BY <1>5 DEF Path
  <2>3. CASE f = t[1]
    <3>1. x = StepOf(t[1])
      BY <2>1, <2>3, ChainFeeds
    <3>2. x \in Broadcasters /\ x \in Path(t)
      BY <2>1, <2>2, <3>1, ChainStreams, Kinds
    <3> QED
      BY <1>1, <1>3, <2>1, <2>3, <3>2, Kinds DEF Sources
  <2>4. CASE f = StepOf(t[1]) /\ Level(t) < Depth
    <3>1. x \in Stages /\ Literal(x) = Level(t) + 1
      BY <2>1, <2>4, ChainFeeds
    <3>2. f \in Sources
      BY <2>1, <2>4, ChainStreams, Kinds DEF Sources
    <3> QED
      BY <1>1, <1>2, <3>1, <3>2
  <2>5. CASE f = StepOf(t[1]) /\ ~(Level(t) < Depth)
    <3>1. Level(t) = Depth /\ Depth > 0 /\ IsLast(t)
      BY ONLY <1>0, <1>1, <2>1, <2>5
    <3>2. x = Idb
      BY <2>1, <2>5, <3>1, ChainFeeds
    <3>3. x \in Broadcasters /\ f \in Sources
      BY <2>1, <2>5, <3>1, <3>2, ChainStreams, Kinds DEF Sources
    <3> QED
      BY <1>1, <1>3, <2>2, <3>1, <3>2, <3>3
  <2>6. CASE f = Idb /\ IsLast(t)
    <3>0. Depth > 0
      BY ONLY <1>0, <2>1
    <3>1. Depth > 0 /\ x = Reader
      BY <2>6, <3>0, ChainFeeds
    <3>2. f \in Sources
      BY <2>6, <3>1, ChainStreams, Kinds DEF Sources
    <3> QED
      BY <1>1, <2>6, <3>1, <3>2, Kinds
  <2> QED
    BY <2>2, <2>3, <2>4, <2>5, <2>6
<1> QED
  BY <1>4, <1>5

\* The links of a chain.
LEMMA Links ==
    ASSUME plan \in Plans, IsChain, NEW f, NEW x, Feeds(f, x)
    PROVE  \/ f = Source /\ x = Edb
           \/ f = Edb /\ Depth = 0 /\ x = Reader
           \/ f = Edb /\ Depth > 0 /\ x \in Stages /\ Literal(x) = 1
           \/ f \in Stages /\ x = StepOf(f)
           \/ \E i \in 1 .. Depth : f = Step(1, i) /\ i < Depth /\ x \in Stages /\ Literal(x) = i + 1
           \/ Depth > 0 /\ f = Step(1, Depth) /\ x = Idb
           \/ Depth > 0 /\ f = Idb /\ x = Reader
<1>0. Depth \in Nat /\ (Depth = 0 <=> Groups = {})
  BY ChainStreams
<1>1. f = Source \/ f \in Streams
  BY DEF Feeds
<1>2. f = Source \/ f = Edb \/ (f = Idb /\ Groups # {}) \/ f \in Steps \/ f \in Stages
  BY <1>1, ChainStreams, Kinds
<1>3. CASE f = Source
  BY <1>3, ChainFeeds
<1>4. CASE f = Edb
  BY <1>0, <1>4, ChainFeeds
<1>5. CASE f = Idb /\ Groups # {}
  BY <1>0, <1>5, ChainFeeds
<1>6. CASE f \in Stages
  BY <1>6, ChainFeeds
<1>7. CASE f \in Steps
  <2>1. PICK i \in 1 .. Depth : f = Step(1, i)
    BY <1>7, ChainStreams
  <2>2. CASE i < Depth
    BY <2>1, <2>2, ChainFeeds
  <2>3. CASE ~(i < Depth)
    <3>1. i = Depth /\ Depth > 0
      BY <1>0, <2>3
    <3> QED
      BY <2>1, <3>1, ChainFeeds
  <2> QED
    BY <2>2, <2>3
<1> QED
  BY <1>2, <1>3, <1>4, <1>5, <1>6, <1>7

\* No stream feeds itself, and what does not count its channels has one input.
LEMMA OneFeeder ==
    ASSUME plan \in Plans, IsChain, NEW f, NEW x, Feeds(f, x)
    PROVE  /\ f # x /\ f \in Sources /\ x \in Targets
           /\ x \notin Broadcasters => \A e : Feeds(e, x) => e = f
<1>0. Depth \in Nat
  BY ChainStreams
<1>1. f # x
  <2>1. CASE f \in Stages /\ x = StepOf(f)
    BY <2>1, ChainStreams, Kinds
  <2>2. CASE \E i \in 1 .. Depth : f = Step(1, i) /\ i < Depth /\ x \in Stages /\ Literal(x) = i + 1
    BY <2>2, ChainStreams, Kinds
  <2>3. CASE Depth > 0 /\ f = Step(1, Depth) /\ x = Idb
    BY <2>3, Names
  <2>4. CASE (f = Source \/ f = Edb \/ f = Idb) /\ (x = Edb \/ x = Reader \/ x \in Stages) /\ ~(f = Edb /\ x = Edb)
    BY <2>4, Names, Kinds
  <2>5. Source # Edb
    BY Names
  <2> QED
    BY <2>1, <2>2, <2>3, <2>4, <2>5, Links, Kinds, Names
<1>2. f \in Sources
  BY DEF Feeds, Sources
<1>3. x \in Targets
  <2>1. CASE f = Source
    BY <2>1, ChainFeeds, Kinds DEF Targets
  <2>2. CASE f # Source
    <3>1. f \in Streams /\ \E k \in DOMAIN Subscribers(f) : x = Subscribers(f)[k]
      BY <2>2, FeedsIn DEF Feeds
    <3> QED
      BY <3>1, Subscribed, ElementOfSeq
  <2> QED
    BY <2>1, <2>2
<1>4. ASSUME x \notin Broadcasters, NEW e, Feeds(e, x) PROVE e = f
  <2>1. x # Edb /\ (Depth > 0 => x # Idb)
    BY <1>0, <1>4, Kinds, ChainStreams
  <2>2. \A s \in Stages : x # StepOf(s)
    BY <1>4, Kinds, ChainStreams
  <2>3. CASE x \in Stages
    <3> DEFINE From(n) == \/ n = Edb /\ Literal(x) = 1
                          \/ \E i \in 1 .. Depth : n = Step(1, i) /\ Literal(x) = i + 1
    <3>1. x # Reader
      BY <2>3, Kinds
    <3>2. From(f)
      BY <2>1, <2>2, <3>1, Links
    <3>3. From(e)
      BY <1>4, <2>1, <2>2, <3>1, Links
    <3>4. \A i, j \in 1 .. Depth : i + 1 = j + 1 => i = j
      BY <1>0
    <3>5. \A i \in 1 .. Depth : i + 1 # 1
      BY <1>0
    <3> QED
      BY ONLY <3>2, <3>3, <3>4, <3>5
  <2>4. CASE x \notin Stages
    <3> DEFINE From(n) == (n = Edb /\ Depth = 0) \/ (n = Idb /\ Depth > 0)
    <3>1. From(f)
      BY <2>1, <2>2, <2>4, Links
    <3>2. From(e)
      BY <1>4, <2>1, <2>2, <2>4, Links
    <3> QED
      BY ONLY <1>0, <3>1, <3>2
  <2> QED
    BY <2>3, <2>4
<1> QED
  BY <1>1, <1>2, <1>3, <1>4

\* The subscribers of a stream of a chain, each listed once.
LEMMA ChainSubscribers ==
    ASSUME plan \in Plans, IsChain, NEW n \in Streams
    PROVE  /\ IsSequence(Subscribers(n)) /\ Subscribers(n) # <<>>
           /\ \A x : Feeds(n, x) <=> \E k \in DOMAIN Subscribers(n) : x = Subscribers(n)[k]
           /\ \A k, l \in DOMAIN Subscribers(n) : Subscribers(n)[k] = Subscribers(n)[l] => k = l
           /\ Len(Subscribers(n)) = 1 \/ \A k \in DOMAIN Subscribers(n) : Subscribers(n)[k] \in Stages
<1> DEFINE Good(q) == /\ q # <<>> /\ \A k, l \in DOMAIN q : q[k] = q[l] => k = l
                      /\ Len(q) = 1 \/ \A k \in DOMAIN q : q[k] \in Stages
<1>1. IsSequence(Subscribers(n)) /\ \A x : Feeds(n, x) <=> \E k \in DOMAIN Subscribers(n) : x = Subscribers(n)[k]
  BY Subscribed, FeedsIn DEF IsSequence
<1>2. ASSUME NEW y PROVE Good(<<y>>)
  OBVIOUS
<1>3. ASSUME NEW i \in 1 .. Depth, NEW q \in Seq(Stages), DOMAIN q = 1 .. NumReasoners + 1,
             \A k \in 1 .. NumReasoners + 1 : q[k] = Stage(1, i, k - 1)
      PROVE  Good(q)
  <2>1. \A k \in DOMAIN q : q[k] \in Stages
    BY ElementOfSeq
  <2>2. q # <<>>
    <3>1. 1 \in 1 .. NumReasoners + 1
      BY Plan
    <3>2. 1 \in DOMAIN q
      BY <1>3, <3>1
    <3> QED
      BY ONLY <3>2
  <2>3. ASSUME NEW k \in DOMAIN q, NEW l \in DOMAIN q, q[k] = q[l] PROVE k = l
    <3>1. Stage(1, i, k - 1) = Stage(1, i, l - 1) /\ k \in Int /\ l \in Int
      BY <1>3, <2>3
    <3>2. k - 1 = l - 1
      BY <3>1, Names
    <3> QED
      BY ONLY <3>1, <3>2
  <2> QED
    BY <2>1, <2>2, <2>3
<1> HIDE DEF Good
<1> SUFFICES Good(Subscribers(n))
  BY <1>1 DEF Good
<1>4. n = Edb \/ (n = Idb /\ Groups # {}) \/ n \in Steps \/ n \in Stages
  BY ChainStreams, Kinds
<1>5. CASE n = Edb
  <2>1. CASE Groups = {}
    BY <1>2, <1>5, <2>1, SubscribersOf
  <2>2. CASE Groups # {}
    <3>1. 1 \in 1 .. Depth
      BY <2>2, ChainStreams
    <3> QED
      BY <1>3, <1>5, <2>2, <3>1, SubscribersOf, FirstListed
  <2> QED
    BY <2>1, <2>2
<1>6. CASE n = Idb \/ n \in Stages
  BY <1>2, <1>6, SubscribersOf
<1>7. CASE n \in Steps
  <2>1. PICK i \in 1 .. Depth : n = Step(1, i)
    BY <1>7, ChainStreams
  <2>2. n[2] = 1 /\ n[3] = i /\ plan[1] = Depth /\ Depth \in Nat /\ 1 \in Groups
    BY <2>1, ChainStreams
  <2>3. CASE i < Depth
    <3>1. i + 1 \in 1 .. Depth
      BY <2>2, <2>3
    <3>2. Subscribers(n) = StagesOf(1, i + 1)
      BY <1>7, <2>2, <2>3, SubscribersOf
    <3>3. i + 1 \in 1 .. plan[1] /\ 1 \in Groups
      BY ONLY <2>2, <3>1
    <3> DEFINE q == StagesOf(1, i + 1)
    <3>4. /\ q \in Seq(Stages) /\ DOMAIN q = 1 .. NumReasoners + 1
          /\ \A k \in 1 .. NumReasoners + 1 : q[k] = Stage(1, i + 1, k - 1)
      BY <3>3, StagesListed
    <3> HIDE DEF q
    <3>5. Good(q)
      BY <1>3, <3>1, <3>4
    <3> QED
      BY <3>2, <3>5 DEF q
  <2>4. CASE ~(i < Depth)
    BY <1>2, <1>7, <2>2, <2>4, SubscribersOf
  <2> QED
    BY <2>3, <2>4
<1> QED
  BY <1>4, <1>5, <1>6, <1>7
-----------------------------------------------------------------------------
(* Steps *)

\* The network is that of the plan.
LEMMA SamePlan ==
    ASSUME plan' = plan
    PROVE  /\ Groups' = Groups /\ Stages' = Stages /\ Broadcasters' = Broadcasters /\ Streams' = Streams
           /\ Depth' = Depth /\ (IsChain' <=> IsChain) /\ Sources' = Sources /\ Targets' = Targets
           /\ \A f, x : Feeds(f, x)' <=> Feeds(f, x)
           /\ \A t : (IsLast(t)' <=> IsLast(t)) /\ Path(t)' = Path(t)
<1>1. Groups' = Groups /\ Stages' = Stages /\ Steps' = Steps
  BY DEF Groups, Stages, Steps
<1>2. Broadcasters' = Broadcasters /\ Streams' = Streams
  BY <1>1 DEF Broadcasters, Streams
<1>3. Depth' = Depth /\ (IsChain' <=> IsChain) /\ Sources' = Sources /\ Targets' = Targets
  BY <1>2 DEF Depth, IsChain, Sources, Targets
<1>4. \A n : Subscribers(n)' = Subscribers(n)
  BY <1>1 DEF Subscribers, FirstStages, StagesOf, GroupOutput
<1>5. \A f, x : Feeds(f, x)' <=> Feeds(f, x)
  BY <1>2, <1>4 DEF Feeds
<1>6. \A t : (IsLast(t)' <=> IsLast(t)) /\ Path(t)' = Path(t)
  BY <1>3 DEF IsLast, Path
<1> QED
  BY <1>1, <1>2, <1>3, <1>5, <1>6

\* In a step thread t replaces the call on top of its stack, if any, by others.
\* A call on a stack after the step is new or was there before.
Turn(t, calls) ==
    \A u \in Threads' : \A k \in DOMAIN stack'[u] :
        \/ u = t /\ k \in DOMAIN calls /\ stack'[u][k] = calls[k]
        \/ u \in Threads /\ \E l \in DOMAIN stack[u] : stack'[u][k] = stack[u][l] /\ l = (IF u = t THEN k + 1 - Len(calls) ELSE k) /\ (u = t => l > 1)

\* Replacing the call on top of a stack by others is a turn.
LEMMA Turns ==
    ASSUME \A u \in Threads : IsSequence(stack[u]), NEW t \in Threads, NEW calls, IsSequence(calls),
           \A u \in Threads \ {t} : stack'[u] = stack[u],
           \A u \in Threads' \ Threads : stack'[u] = <<>>,
           \/ stack[t] = <<>> /\ stack'[t] = calls
           \/ stack[t] # <<>> /\ stack'[t] = calls \o Tail(stack[t])
    PROVE  Turn(t, calls) /\ IsSequence(stack'[t])
<1>1. PICK S : calls \in Seq(S) /\ stack[t] \in Seq(S)
  <2>1. PICK A : calls \in Seq(A)
    BY DEF IsSequence
  <2>2. PICK B : stack[t] \in Seq(B)
    BY DEF IsSequence
  <2>3. calls \in Seq(A \cup B) /\ stack[t] \in Seq(A \cup B)
    BY <2>1, <2>2
  <2> QED
    BY <2>3
<1>2. ASSUME NEW k \in DOMAIN stack'[t]
      PROVE  \/ k \in DOMAIN calls /\ stack'[t][k] = calls[k]
             \/ \E l \in DOMAIN stack[t] : stack'[t][k] = stack[t][l] /\ l = k + 1 - Len(calls) /\ l > 1
  <2>1. CASE stack[t] = <<>>
    BY <2>1
  <2>2. CASE stack[t] # <<>>
    <3> DEFINE q == Tail(stack[t])
    <3>1. q \in Seq(S) /\ Len(stack[t]) = Len(q) + 1 /\ \A l \in 1 .. Len(q) : q[l] = stack[t][l + 1]
      BY <1>1, <2>2, HeadTailProperties
    <3>2. stack'[t] = calls \o q
      BY <2>2
    <3> HIDE DEF q
    <3>3. /\ stack'[t] \in Seq(S) /\ Len(stack'[t]) = Len(calls) + Len(q)
          /\ \A i \in 1 .. Len(calls) + Len(q) : stack'[t][i] = IF i <= Len(calls) THEN calls[i] ELSE q[i - Len(calls)]
      BY ONLY <1>1, <3>1, <3>2, ConcatProperties
    <3>4. k \in 1 .. Len(calls) + Len(q) /\ DOMAIN calls = 1 .. Len(calls) /\ Len(calls) \in Nat /\ Len(q) \in Nat
          /\ DOMAIN stack[t] = 1 .. Len(stack[t])
      BY <1>1, <3>1, <3>3, LenProperties
    <3>5. CASE k <= Len(calls)
      BY ONLY <3>3, <3>4, <3>5
    <3>6. CASE ~(k <= Len(calls))
      <4> DEFINE l == k + 1 - Len(calls)
      <4>1. l - 1 \in 1 .. Len(q) /\ l - 1 = k - Len(calls) /\ l > 1 /\ l \in DOMAIN stack[t] /\ (l - 1) + 1 = l
        BY ONLY <3>1, <3>4, <3>6
      <4>2. stack'[t][k] = stack[t][l]
        BY ONLY <3>1, <3>3, <3>4, <3>6, <4>1
      <4> QED
        BY <4>1, <4>2
    <3> QED
      BY <3>5, <3>6
  <2> QED
    BY <2>1, <2>2
<1>3. IsSequence(stack'[t])
  <2>1. stack[t] # <<>> => calls \o Tail(stack[t]) \in Seq(S)
    BY <1>1
  <2> QED
    BY <1>1, <2>1 DEF IsSequence
<1>4. \A u \in Threads' : u \notin Threads => DOMAIN stack'[u] = {}
  OBVIOUS
<1> QED
  BY <1>2, <1>3, <1>4 DEF Turn

\* Stream e may end in a step, the only one to do so and to announce it, and a
\* stream does not await an EOS any more when it takes it.
Ends(e) ==
    \A f \in Sources : (HasEnded(f) => HasEnded(f)') /\ (HasEnded(f)' => HasEnded(f) \/ f = e)
Takes(t) ==
    \A f \in Sources, x \in Targets : Feeds(f, x) /\ Awaits(x, f) /\ ~Awaits(x, f)' => t \in Threads /\ 1 \in DOMAIN stack[t] /\ stack[t][1] = Push(f, x, EOS)
Announces(e, calls) ==
    \A k \in DOMAIN calls : \A f, x :
        calls[k] = Push(f, x, EOS) => /\ f = e /\ ~HasEnded(e) /\ HasEnded(e)'
                                      /\ \A l \in DOMAIN calls : calls[l] = calls[k] => k = l

\* EOS stays handed on at most once and awaited, if a step ends at most one stream,
\* which announces it, and takes what it no longer awaits.
LEMMA LinkedStep ==
    ASSUME Typed, IsChain, plan' = plan, Linked, Once, NEW t, NEW e, NEW calls, IsSequence(calls),
           \A u \in Threads' : IsSequence(stack'[u]),
           Turn(t, calls), Ends(e), Takes(t), Announces(e, calls)
    PROVE  Linked' /\ Once'
<1> DEFINE Eos(s, k, f, x) == k \in DOMAIN s /\ s[k] = Push(f, x, EOS)
<1>0. Sources' = Sources /\ Targets' = Targets /\ \A f, x : Feeds(f, x)' <=> Feeds(f, x)
  BY SamePlan
<1>1. ASSUME NEW f \in Sources, NEW x \in Targets, Feeds(f, x)
      PROVE  /\ ~HasEnded(f)' => Awaits(x, f)'
             /\ \A u \in Threads' : \A k : Eos(stack'[u], k, f, x) => HasEnded(f)' /\ Awaits(x, f)'
             /\ \A u, v \in Threads' : \A k, l : Eos(stack'[u], k, f, x) /\ Eos(stack'[v], l, f, x) => u = v /\ k = l
  <2>1. ~HasEnded(f) => Awaits(x, f)
    BY <1>1 DEF Linked
  <2>2. \A u \in Threads : \A k : Eos(stack[u], k, f, x) => HasEnded(f) /\ Awaits(x, f)
    BY <1>1 DEF Linked
  <2>3. \A u, v \in Threads : \A k, l : Eos(stack[u], k, f, x) /\ Eos(stack[v], l, f, x) => u = v /\ k = l
    BY <1>1 DEF Once
  <2>4. (HasEnded(f) => HasEnded(f)') /\ (HasEnded(f)' => HasEnded(f) \/ f = e)
    BY DEF Ends
  <2>5. Awaits(x, f) /\ ~Awaits(x, f)' => t \in Threads /\ Eos(stack[t], 1, f, x)
    BY <1>1 DEF Takes
  <2>6. \A k : Eos(calls, k, f, x) => ~HasEnded(f) /\ HasEnded(f)' /\ \A l : Eos(calls, l, f, x) => k = l
    BY DEF Announces
  <2> DEFINE Old(u, k, l) == u \in Threads /\ Eos(stack[u], l, f, x) /\ l = (IF u = t THEN k + 1 - Len(calls) ELSE k) /\ (u = t => l > 1)
  <2>7. \A u \in Threads' : \A k : Eos(stack'[u], k, f, x) => (u = t /\ Eos(calls, k, f, x)) \/ \E l : Old(u, k, l)
    BY DEF Turn
  <2>8. \A u \in Threads' : \A k : Eos(stack'[u], k, f, x) => k \in Int
    BY LenProperties DEF IsSequence
  <2>9. Len(calls) \in Int
    BY LenProperties DEF IsSequence
  <2> HIDE DEF Eos
  <2>10. ~HasEnded(f)' => Awaits(x, f)'
    BY ONLY <2>1, <2>2, <2>4, <2>5
  <2>11. ASSUME NEW u \in Threads', NEW k, Eos(stack'[u], k, f, x) PROVE HasEnded(f)' /\ Awaits(x, f)'
    <3>1. CASE u = t /\ Eos(calls, k, f, x)
      BY ONLY <2>1, <2>2, <2>5, <2>6, <3>1
    <3>2. ASSUME NEW l, Old(u, k, l) PROVE HasEnded(f)' /\ Awaits(x, f)'
      <4>1. HasEnded(f)' /\ Awaits(x, f)
        BY ONLY <2>2, <2>4, <3>2
      <4>2. ~(t \in Threads /\ Eos(stack[t], 1, f, x))
        BY ONLY <2>3, <3>2
      <4> QED
        BY ONLY <2>5, <4>1, <4>2
    <3> QED
      BY <2>7, <2>11, <3>1, <3>2
  <2>12. ASSUME NEW u \in Threads', NEW v \in Threads', NEW k, NEW l, Eos(stack'[u], k, f, x), Eos(stack'[v], l, f, x)
         PROVE  u = v /\ k = l
    <3>1. k \in Int /\ l \in Int
      BY <2>8, <2>12
    <3>2. ~HasEnded(f) => u = t /\ Eos(calls, k, f, x) /\ v = t /\ Eos(calls, l, f, x)
      BY ONLY <2>2, <2>7, <2>12
    <3>3. CASE ~HasEnded(f)
      BY ONLY <2>6, <3>2, <3>3
    <3>4. CASE HasEnded(f)
      <4>1. PICK i : Old(u, k, i)
        BY ONLY <2>6, <2>7, <2>12, <3>4
      <4>2. PICK j : Old(v, l, j)
        BY ONLY <2>6, <2>7, <2>12, <3>4
      <4>3. u = v /\ i = j
        BY ONLY <2>3, <4>1, <4>2
      <4> QED
        BY ONLY <2>9, <3>1, <4>1, <4>2, <4>3
    <3> QED
      BY <3>3, <3>4
  <2> QED
    BY <2>10, <2>11, <2>12
<1>2. Linked'
  BY ONLY <1>0, <1>1 DEF Linked
<1>3. Once'
  BY ONLY <1>0, <1>1 DEF Once
<1> QED
  BY <1>2, <1>3

\* A thread that has calls on its stack goes on with what it does.
Steady(t) ==
    \A u \in Threads : u # t \/ stack[u] # <<>> => (IsAlive(u)' <=> IsAlive(u)) /\ numSent'[u] = numSent[u]

\* A thread stays with its last answer or with EOS if its new calls are such.
LEMMA CalledStep ==
    ASSUME plan' = plan, Called, NEW t, NEW calls, Turn(t, calls), Steady(t),
           \A k \in DOMAIN calls : IF IsAlive(t)' THEN Answering(t, calls[k])' /\ numSent'[t] >= 1 ELSE Ending(calls[k])
    PROVE  Called'
<1> DEFINE Right(u, c) == IF IsAlive(u) THEN Answering(u, c) /\ numSent[u] >= 1 ELSE Ending(c)
           RightNow(u, c) == IF IsAlive(u)' THEN Answering(u, c)' /\ numSent'[u] >= 1 ELSE Ending(c)
<1>1. \A c : Ending(c)' <=> Ending(c)
  BY SamePlan DEF Ending
<1>2. ASSUME NEW u \in Threads, NEW l \in DOMAIN stack[u], NEW c, c = stack[u][l] PROVE RightNow(u, c)
  <2>1. (IsAlive(u)' <=> IsAlive(u)) /\ numSent'[u] = numSent[u]
    BY DEF Steady
  <2>2. Right(u, c)
    BY <1>2 DEF Called
  <2>3. Answering(u, c) => Answering(u, c)'
    BY <2>1, SamePlan DEF Answering, Current
  <2> QED
    BY ONLY <2>1, <2>2, <2>3
<1>3. \A k \in DOMAIN calls : \A c : c = calls[k] => RightNow(t, c)
  OBVIOUS
<1>4. ASSUME NEW u \in Threads', NEW k \in DOMAIN stack'[u], NEW c, c = stack'[u][k] PROVE RightNow(u, c)
  <2> HIDE DEF Right, RightNow
  <2> QED
    BY <1>2, <1>3, <1>4 DEF Turn
<1> QED
  BY ONLY <1>1, <1>4 DEF Called, RightNow

\* What is closed has ended before.
LEMMA ClosedStep ==
    ASSUME plan' = plan, Closed, NEW t, NEW e, NEW calls, Turn(t, calls), Ends(e),
           \A n \in Broadcasters : ~isOpened'[n] => ~isOpened[n] \/ HasEnded(n),
           \A k \in DOMAIN calls : \A n \in Broadcasters : calls[k] = Close(n) => HasEnded(n)',
           \A s \in Stages : ~isQueryOpened'[s] => ~isAwaitingInput'[s] /\ graphQueries'[s] = {}
    PROVE  Closed'
<1>1. Stages' = Stages /\ Broadcasters' = Broadcasters /\ Broadcasters \subseteq Sources
  BY SamePlan, Kinds DEF Sources
<1>2. \A n \in Broadcasters : HasEnded(n) => HasEnded(n)'
  BY <1>1 DEF Ends
<1>3. ASSUME NEW n \in Broadcasters, ~isOpened'[n] PROVE HasEnded(n)'
  BY <1>2, <1>3 DEF Closed
<1>4. ASSUME NEW n \in Broadcasters, NEW u \in Threads', NEW k \in DOMAIN stack'[u], stack'[u][k] = Close(n)
      PROVE  HasEnded(n)'
  <2>1. \/ k \in DOMAIN calls /\ stack'[u][k] = calls[k]
        \/ u \in Threads /\ \E l \in DOMAIN stack[u] : stack'[u][k] = stack[u][l]
    BY DEF Turn
  <2>2. \A v \in Threads : \A l \in DOMAIN stack[v] : stack[v][l] = Close(n) => HasEnded(n)
    BY DEF Closed
  <2> QED
    BY <1>2, <1>4, <2>1, <2>2
<1> QED
  BY <1>1, <1>3, <1>4 DEF Closed

\* If all streams that feed a stream have ended, so has all that is before them.
LEMMA EndedBefore ==
    ASSUME Typed, IsChain, Linked, Closed, Upstream, NEW i \in 1 .. Depth, \A s \in Stages : Literal(s) = i => HasEnded(s)
    PROVE  HasEnded(Source) /\ \A s \in Stages : Literal(s) <= i => HasEnded(s)
<1>0. Depth \in Nat /\ i \in Nat
  BY ChainStreams DEF Typed
<1> DEFINE s0 == Stage(1, i, 0)
<1>1. s0 \in Stages /\ Literal(s0) = i /\ HasEnded(s0)
  BY ChainStreams DEF Typed
<1> HIDE DEF s0
<1>2. ~isAwaitingInput[s0]
  <2>1. s0 \notin Broadcasters /\ s0 # Source
    BY <1>1, Kinds
  <2> QED
    BY <1>1, <2>1 DEF HasEnded, Closed
<1>3. ASSUME NEW f, Feeds(f, s0) PROVE HasEnded(f)
  <2>1. f \in Sources /\ s0 \in Targets
    BY <1>1, <1>3, Kinds DEF Feeds, Sources, Targets
  <2> QED
    BY <1>1, <1>2, <1>3, <2>1 DEF Linked, Awaits
<1>4. CASE i = 1
  <2>1. HasEnded(Edb)
    BY <1>0, <1>1, <1>3, <1>4, ChainFeeds DEF Typed
  <2>2. channels[Edb] = {}
    BY <2>1, Names, Kinds DEF HasEnded
  <2>3. HasEnded(Source)
    BY <2>2, ChainFeeds, Kinds DEF Linked, Awaits, Sources, Targets, Typed
  <2>4. \A s \in Stages : Literal(s) <= i => Literal(s) = i
    BY <1>0, <1>4, ChainStreams DEF Typed
  <2> QED
    BY <2>3, <2>4
<1>5. CASE i # 1
  <2>1. i - 1 \in 1 .. Depth /\ i - 1 < Depth /\ (i - 1) + 1 = i
    BY <1>0, <1>5
  <2>2. Feeds(Step(1, i - 1), s0)
    <3> DEFINE j == i - 1
    <3>1. j \in 1 .. Depth /\ j < Depth /\ j + 1 = i
      BY <2>1
    <3> HIDE DEF j
    <3>2. Feeds(Step(1, j), s0)
      BY <1>1, <3>1, ChainFeeds DEF Typed
    <3> QED
      BY <3>2 DEF j
  <2>3. HasEnded(Source) /\ \A s \in Stages : Literal(s) <= i - 1 => HasEnded(s)
    BY <1>3, <2>1, <2>2 DEF Upstream
  <2>4. ASSUME NEW s \in Stages, Literal(s) <= i PROVE Literal(s) = i \/ Literal(s) <= i - 1
    <3>1. Literal(s) \in Int
      BY ChainStreams DEF Typed
    <3> QED
      BY ONLY <1>0, <2>4, <3>1
  <2> QED
    BY <2>3, <2>4
<1> QED
  BY <1>4, <1>5

\* A step ends when all that feeds it has ended.
LEMMA UpstreamStep ==
    ASSUME Typed, IsChain, plan' = plan, Linked, Closed, Upstream, NEW e, Ends(e),
           e \in Steps /\ ~HasEnded(e) => \A f : Feeds(f, e) => HasEnded(f)
    PROVE  Upstream'
<1>1. /\ Depth' = Depth /\ Stages' = Stages /\ Stages \subseteq Sources /\ Steps \subseteq Sources /\ Source \in Sources
      /\ Depth \in Nat
  BY SamePlan, Kinds, ChainStreams DEF Sources, Typed
<1>2. SUFFICES ASSUME NEW i \in 1 .. Depth, HasEnded(Step(1, i))'
               PROVE  HasEnded(Source) /\ \A s \in Stages : Literal(s) <= i => HasEnded(s)
  BY <1>1 DEF Upstream, Ends
<1>3. CASE HasEnded(Step(1, i))
  BY <1>3 DEF Upstream
<1>4. CASE ~HasEnded(Step(1, i))
  <2>1. Step(1, i) \in Steps
    BY ChainStreams DEF Typed
  <2>2. e = Step(1, i)
    BY <1>1, <1>2, <1>4, <2>1 DEF Ends
  <2>3. \A s \in Stages : Literal(s) = i => Feeds(s, e)
    BY <2>2, ChainFeeds DEF Typed, StepOf
  <2>4. \A s \in Stages : Literal(s) = i => HasEnded(s)
    BY <1>4, <2>1, <2>2, <2>3
  <2> QED
    BY <2>4, EndedBefore
<1> QED
  BY <1>3, <1>4

\* An answer tells which thread has pushed it, and when.
LEMMA AnswersDiffer ==
    ASSUME Typed, Born, NEW t \in Threads, NEW u \in Threads, NEW k \in Nat, NEW l \in Nat,
           AnswerOf(t, k) = AnswerOf(u, l)
    PROVE  t = u /\ k = l
<1>1. \A n, i : \/ n = Edb /\ Choice(n, i) = <<"edb", i>>
                \/ n # Edb /\ Choice(n, i) = <<"query", i, n>>
  BY DEF Choice
<1>2. ASSUME NEW q \in Threads, q # Source
      PROVE  /\ q = <<q[1], q[2]>> /\ q[1] # Edb /\ Literal(q[1]) \in Nat
             /\ \A x \in q[2] : ChoiceLiteral(x) < Literal(q[1])
             /\ \A i : AnswerOf(q, i) = q[2] \cup {<<"query", i, q[1]>>} /\ ChoiceLiteral(<<"query", i, q[1]>>) = Literal(q[1])
  <2>1. q = <<q[1], q[2]>> /\ q[1] \in Stages
    BY <1>2 DEF Typed
  <2>2. q[1] # Edb /\ Literal(q[1]) \in Nat
    BY <2>1, Kinds, Names, Plan DEF Typed, Literal
  <2>3. \A x \in q[2] : ChoiceLiteral(x) < Literal(q[1])
    <3>1. \A x \in q[2] : ChoiceLiteral(x) \in 0 .. Literal(q[1]) - 1
      BY <1>2 DEF Born
    <3> QED
      BY ONLY <2>2, <3>1
  <2>4. \A i : AnswerOf(q, i) = q[2] \cup {<<"query", i, q[1]>>} /\ ChoiceLiteral(<<"query", i, q[1]>>) = Literal(q[1])
    BY <1>1, <1>2, <2>2 DEF AnswerOf, ChoiceLiteral
  <2> QED
    BY <2>1, <2>2, <2>3, <2>4
<1>3. \A i : AnswerOf(Source, i) = {<<"edb", i>>}
  BY <1>1 DEF AnswerOf
<1> DEFINE Input(i) == <<"edb", i>>
           Query(i, n) == <<"query", i, n>>
<1>8. /\ \A i, j : Input(i) = Input(j) => i = j
      /\ \A i, j, n : Input(i) # Query(j, n)
  OBVIOUS
<1>9. /\ \A i : AnswerOf(Source, i) = {Input(i)}
      /\ \A q \in Threads : q # Source => \A i : Query(i, q[1]) \in AnswerOf(q, i)
  BY <1>2, <1>3
<1> HIDE DEF Input, Query
<1>4. CASE t = Source /\ u = Source
  <2>1. {Input(k)} = {Input(l)}
    BY <1>4, <1>9
  <2> QED
    BY ONLY <1>4, <1>8, <2>1
<1>5. CASE t = Source /\ u # Source
  <2>1. Query(l, u[1]) \in {Input(k)}
    BY <1>5, <1>9
  <2> QED
    BY ONLY <1>8, <2>1
<1>6. CASE t # Source /\ u = Source
  <2>1. Query(k, t[1]) \in {Input(l)}
    BY <1>6, <1>9
  <2> QED
    BY ONLY <1>8, <2>1
<1>7. CASE t # Source /\ u # Source
  <2> DEFINE x == <<"query", k, t[1]>>
             y == <<"query", l, u[1]>>
  <2>1. /\ t = <<t[1], t[2]>> /\ Literal(t[1]) \in Nat /\ ChoiceLiteral(x) = Literal(t[1])
        /\ \A z \in t[2] : ChoiceLiteral(z) < Literal(t[1])
    BY <1>2, <1>7
  <2>2. /\ u = <<u[1], u[2]>> /\ Literal(u[1]) \in Nat /\ ChoiceLiteral(y) = Literal(u[1])
        /\ \A z \in u[2] : ChoiceLiteral(z) < Literal(u[1])
    BY <1>2, <1>7
  <2>3. t[2] \cup {x} = u[2] \cup {y}
    BY <1>2, <1>7
  <2>4. x = y => k = l /\ t[1] = u[1]
    OBVIOUS
  <2> HIDE DEF x, y
  <2>5. x \notin t[2] /\ y \notin u[2]
    BY ONLY <2>1, <2>2
  <2>6. x = y
    <3>1. x \in u[2] => ChoiceLiteral(x) < ChoiceLiteral(y)
      BY ONLY <2>2
    <3>2. y \in t[2] => ChoiceLiteral(y) < ChoiceLiteral(x)
      BY ONLY <2>1
    <3> QED
      BY ONLY <2>1, <2>2, <2>3, <3>1, <3>2
  <2>7. t[2] = u[2]
    BY ONLY <2>3, <2>5, <2>6
  <2> QED
    BY ONLY <2>1, <2>2, <2>4, <2>6, <2>7
<1> QED
  BY <1>4, <1>5, <1>6, <1>7

\* No answer is EOS.
LEMMA AnswersAreNotEos ==
    \A t, k : AnswerOf(t, k) # EOS
<1>1. ASSUME NEW t, NEW k PROVE AnswerOf(t, k) # EOS
  <2>1. \A n, i : Choice(n, i) # EosToken
    BY DEF Choice, EosToken
  <2>2. \E n, i : Choice(n, i) \in AnswerOf(t, k)
    BY DEF AnswerOf
  <2> QED
    BY <2>1, <2>2 DEF EOS
<1> QED
  BY <1>1

\* Every answer that a thread starts with or that is on its way has been counted.
LEMMA BornStep ==
    ASSUME Typed, Born, Threads \subseteq Threads', \A t \in Threads : numSent'[t] \in Nat /\ numSent'[t] >= numSent[t],
           \A q \in Threads' \ Threads :
               /\ \A x \in q[2] : ChoiceLiteral(x) \in 0 .. Literal(q[1]) - 1
               /\ \E t \in Threads : \E k \in 1 .. numSent[t] : q[2] = AnswerOf(t, k)
    PROVE  Born'
<1>1. ASSUME NEW t \in Threads, NEW k \in 1 .. numSent[t] PROVE t \in Threads' /\ k \in 1 .. numSent'[t]
  BY DEF Typed
<1>2. \A q \in Threads' \ {Source} :
          /\ \A x \in q[2] : ChoiceLiteral(x) \in 0 .. Literal(q[1]) - 1
          /\ \E t \in Threads : \E k \in 1 .. numSent[t] : q[2] = AnswerOf(t, k)
  BY DEF Born
<1> QED
  BY ONLY <1>1, <1>2 DEF Born

\* The last answer of a thread is not known anywhere else.
FreshAt(t) ==
    \A k \in DOMAIN stack[t] :
        /\ stack[t][k].to \in Stages => <<stack[t][k].to, Current(t)>> \notin Threads
        /\ stack[t][k].to \notin Stages => Len(stack[t]) = 1 /\ \A s \in Stages : <<s, Current(t)>> \notin Threads
        /\ Current(t) \notin Range(output)
        /\ \A l \in DOMAIN stack[t] : stack[t][k].to = stack[t][l].to => k = l

\* Answers on their way stay fresh if those of one thread do and the step adds
\* neither a query nor an output for an answer of another thread.
LEMMA FreshStep ==
    ASSUME Typed, plan' = plan, Fresh, Threads \subseteq Threads', NEW t \in Threads, Steady(t),
           \A u \in Threads \ {t} : stack'[u] = stack[u],
           \A u \in Threads' \ Threads : stack'[u] = <<>>,
           \A u \in Threads \ {t} : IsAlive(u) =>
               /\ \A s \in Stages : <<s, Current(u)>> \in Threads' => <<s, Current(u)>> \in Threads
               /\ Current(u) \in Range(output') => Current(u) \in Range(output),
           IsAlive(t)' => FreshAt(t)'
    PROVE  Fresh'
<1>1. Stages' = Stages
  BY SamePlan
<1>2. ASSUME NEW u \in Threads', IsAlive(u)' PROVE FreshAt(u)'
  <2>1. CASE u = t
    BY <1>2, <2>1
  <2>2. CASE u \notin Threads
    BY <2>2 DEF FreshAt
  <2>3. CASE u \in Threads \ {t}
    <3>1. IsAlive(u) /\ Current(u)' = Current(u)
      BY <1>2, <2>3 DEF Steady, Current
    <3>2. FreshAt(u)
      BY <2>3, <3>1 DEF Fresh, FreshAt
    <3>3. stack'[u] = stack[u]
      BY <2>3
    <3>4. /\ \A s \in Stages : <<s, Current(u)>> \in Threads' => <<s, Current(u)>> \in Threads
          /\ Current(u) \in Range(output') => Current(u) \in Range(output)
      BY <2>3, <3>1
    <3> QED
      BY ONLY <1>1, <3>1, <3>2, <3>3, <3>4 DEF FreshAt
  <2> QED
    BY <2>1, <2>2, <2>3
<1> QED
  BY ONLY <1>2 DEF Fresh, FreshAt

\* While a stream has not ended, no broadcaster that it feeds has ended.
LEMMA EndsThrough ==
    ASSUME Typed, IsChain, Linked, NEW f \in Sources, NEW x \in Broadcasters, Feeds(f, x), HasEnded(x)
    PROVE  HasEnded(f)
<1>1. x # Source /\ x \notin Stages /\ x \in Targets
  BY Kinds DEF Targets
<1>2. channels[x] = {}
  BY <1>1 DEF HasEnded
<1> QED
  BY <1>1, <1>2 DEF Linked, Awaits

\* While a thread is alive, nothing on the path of its answers has ended.
LEMMA AliveOpen ==
    ASSUME Typed, IsChain, Linked, Closed, NEW t \in Threads, IsAlive(t), NEW f \in Path(t)
    PROVE  ~HasEnded(f)
<1>1. CASE t = Source
  <2>1. ~HasEnded(Source)
    <3>1. numSent[Source] \in Nat /\ NumInputs[plan] \in Nat
      BY Plan DEF Typed
    <3>2. ~(numSent[Source] > NumInputs[plan])
      BY <1>1, <3>1 DEF IsAlive
    <3> QED
      BY <3>2, Kinds DEF HasEnded
  <2>2. Feeds(Source, Edb) /\ Edb \in Broadcasters /\ Source \in Sources
    BY ChainFeeds, Kinds DEF Typed, Sources
  <2>3. ~HasEnded(Edb)
    BY <2>1, <2>2, EndsThrough
  <2> QED
    BY <1>1, <2>1, <2>3 DEF Path
<1>2. CASE t # Source
  <2>1. t[1] \in Stages /\ t[2] \in graphQueries[t[1]]
    BY <1>2 DEF Typed, IsAlive
  <2>2. t[1] \in Sources /\ t[1] # Source /\ t[1] \notin Broadcasters
    BY <2>1, Kinds DEF Sources
  <2>3. ~HasEnded(t[1])
    BY <2>1, <2>2 DEF HasEnded, Closed
  <2>4. StepOf(t[1]) \in Steps /\ StepOf(t[1]) \in Sources /\ StepOf(t[1]) \in Broadcasters /\ Feeds(t[1], StepOf(t[1]))
    BY <2>1, ChainStreams, ChainFeeds, Kinds DEF Typed, Sources
  <2>5. ~HasEnded(StepOf(t[1]))
    BY <2>2, <2>3, <2>4, EndsThrough
  <2>6. ASSUME IsLast(t) PROVE ~HasEnded(Idb)
    <3>1. Literal(t[1]) = Depth /\ Depth > 0 /\ StepOf(t[1]) = Step(1, Depth)
      BY <1>2, <2>1, <2>6, ChainStreams DEF Typed, IsLast, StepOf
    <3>2. Feeds(StepOf(t[1]), Idb) /\ Idb \in Broadcasters
      BY <3>1, ChainFeeds, ChainStreams, Kinds DEF Typed
    <3> QED
      BY <2>4, <2>5, <3>2, EndsThrough
  <2> QED
    BY <1>2, <2>3, <2>5, <2>6 DEF Path
<1> QED
  BY <1>1, <1>2

-----------------------------------------------------------------------------
(* What the actions do to the stacks *)

\* A broadcast has a push for each subscriber.
LEMMA Broadcasts ==
    ASSUME plan \in Plans, NEW n \in Streams, NEW m
    PROVE  /\ IsSequence(Broadcast(n, m)) /\ DOMAIN Broadcast(n, m) = DOMAIN Subscribers(n)
           /\ Len(Broadcast(n, m)) = Len(Subscribers(n))
           /\ \A k \in DOMAIN Subscribers(n) : Broadcast(n, m)[k] = Push(n, Subscribers(n)[k], m)
<1>1. Subscribers(n) \in Seq(Targets)
  BY Subscribed
<1>2. DOMAIN Subscribers(n) = 1 .. Len(Subscribers(n)) /\ Len(Subscribers(n)) \in Nat
  BY <1>1, LenProperties
<1> DEFINE T == {Push(n, x, m) : x \in Targets}
           q == Broadcast(n, m)
           l == Len(Subscribers(n))
<1>3. q = [k \in 1 .. l |-> Push(n, Subscribers(n)[k], m)] /\ \A k \in 1 .. l : Subscribers(n)[k] \in Targets
  BY <1>1, <1>2, ElementOfSeq DEF Broadcast
<1>4. l \in Nat
  BY <1>2
<1> HIDE DEF q, l
<1>5. q \in Seq(T) /\ Len(q) = l
  BY <1>3, <1>4
<1> QED
  BY <1>2, <1>3, <1>5 DEF IsSequence, q, l

\* The calls with which stream n hands EOS on, and closes itself.
EosCalls(n, calls) ==
    /\ IsSequence(calls)
    /\ \A k \in DOMAIN calls : calls[k] = Close(n) \/ (k \in DOMAIN Subscribers(n) /\ calls[k] = Push(n, Subscribers(n)[k], EOS))

\* What a stream does at its end are calls of its end.
LEMMA EndCalls ==
    ASSUME plan \in Plans, NEW n \in Streams
    PROVE  /\ EosCalls(n, <<>>) /\ EosCalls(n, <<>> \o <<Close(n)>>)
           /\ EosCalls(n, Broadcast(n, EOS)) /\ EosCalls(n, Broadcast(n, EOS) \o <<Close(n)>>)
<1>1. IsSequence(<<>>) /\ DOMAIN <<>> = {}
  <2>1. <<>> \in Seq({})
    OBVIOUS
  <2> QED
    BY <2>1 DEF IsSequence
<1>2. \A x : x = <<Close(n)>> => <<>> \o x = x
  <2>1. <<Close(n)>> \in Seq({Close(n)})
    OBVIOUS
  <2> QED
    BY <2>1, ConcatEmptySeq
<1>3. IsSequence(<<Close(n)>>)
  <2>1. <<Close(n)>> \in Seq({Close(n)})
    OBVIOUS
  <2> QED
    BY <2>1 DEF IsSequence
<1>4. EosCalls(n, Broadcast(n, EOS))
  BY Broadcasts DEF EosCalls
<1>5. EosCalls(n, Broadcast(n, EOS) \o <<Close(n)>>)
  <2> DEFINE q == Broadcast(n, EOS)
             c == Close(n)
  <2>1. PICK S : q \in Seq(S)
    BY Broadcasts DEF IsSequence
  <2>2. \A k \in DOMAIN q : k \in DOMAIN Subscribers(n) /\ q[k] = Push(n, Subscribers(n)[k], EOS)
    BY Broadcasts
  <2> HIDE DEF q, c
  <2>3. q \in Seq(S \cup {c}) /\ <<c>> \in Seq(S \cup {c}) /\ Len(<<c>>) = 1 /\ <<c>>[1] = c
    BY <2>1
  <2>4. /\ q \o <<c>> \in Seq(S \cup {c}) /\ Len(q \o <<c>>) = Len(q) + 1
        /\ \A k \in 1 .. Len(q) + 1 : (q \o <<c>>)[k] = IF k <= Len(q) THEN q[k] ELSE <<c>>[k - Len(q)]
    BY <2>3, ConcatProperties
  <2>5. DOMAIN (q \o <<c>>) = 1 .. Len(q) + 1 /\ DOMAIN q = 1 .. Len(q) /\ Len(q) \in Nat
    BY <2>1, <2>4, LenProperties
  <2>6. ASSUME NEW k \in 1 .. Len(q) + 1 PROVE (q \o <<c>>)[k] = c \/ (k \in DOMAIN q /\ (q \o <<c>>)[k] = q[k])
    <3>1. CASE k <= Len(q)
      BY ONLY <2>4, <2>5, <2>6, <3>1
    <3>2. CASE ~(k <= Len(q))
      <4>1. k - Len(q) = 1
        BY ONLY <2>5, <2>6, <3>2
      <4> QED
        BY ONLY <2>3, <2>4, <2>6, <3>2, <4>1
    <3> QED
      BY <3>1, <3>2
  <2>7. EosCalls(n, q \o <<c>>)
    BY <2>2, <2>4, <2>5, <2>6 DEF EosCalls, IsSequence, c
  <2> QED
    BY <2>7 DEF q, c
<1> QED
  BY <1>1, <1>2, <1>3, <1>4, <1>5 DEF EosCalls

\* The call on top of t's stack, if any, is replaced; new threads are idle.
Shape(t, calls) ==
    /\ t \in Threads /\ IsSequence(calls)
    /\ Threads \subseteq Threads' /\ stack' = [u \in Threads' |-> stack'[u]]
    /\ \A u \in Threads \ {t} : stack'[u] = stack[u]
    /\ \A u \in Threads' \ Threads : stack'[u] = <<>>
    /\ \/ stack[t] = <<>> /\ stack'[t] = calls
       \/ stack[t] # <<>> /\ stack'[t] = calls \o Tail(stack[t])

\* Replacing the call on top of a stack, or filling an empty one, gives that shape.
LEMMA Shapes ==
    ASSUME Typed, NEW t \in Threads, NEW calls, IsSequence(calls),
           \/ stack[t] # <<>> /\ stack' = Does(t, calls)
           \/ stack[t] = <<>> /\ stack' = [stack EXCEPT ![t] = calls]
    PROVE  Shape(t, calls) /\ Threads' = Threads
<1>1. stack = [u \in Threads |-> stack[u]]
  BY DEF Typed
<1>2. Threads' = Threads
  BY DEF Threads, Does
<1> DEFINE new == IF stack[t] = <<>> THEN calls ELSE calls \o Tail(stack[t])
<1>3. stack' = [stack EXCEPT ![t] = new]
  BY DEF Does
<1> HIDE DEF new
<1>4. stack'[t] = new /\ \A u \in Threads \ {t} : stack'[u] = stack[u]
  BY <1>1, <1>3
<1>5. stack' = [u \in Threads' |-> stack'[u]]
  BY <1>1, <1>2, <1>3, <1>4
<1> QED
  BY <1>2, <1>4, <1>5 DEF Shape, new

\* The call on top.
LEMMA Top ==
    ASSUME Typed, NEW t \in Threads, NEW op, IsCall(t, op)
    PROVE  stack[t] # <<>> /\ 1 \in DOMAIN stack[t] /\ Head(stack[t]) = stack[t][1] /\ stack[t][1].op = op
<1>1. PICK S : stack[t] \in Seq(S)
  BY DEF Typed, IsSequence
<1>2. stack[t] # <<>> /\ Head(stack[t]).op = op
  BY DEF IsCall
<1> QED
  BY <1>1, <1>2

\* Types are kept if the new values have them.
LEMMA TypedStep ==
    ASSUME Typed, NEW t, NEW calls, Shape(t, calls), plan' = plan,
           numSent' \in [Threads' -> Nat],
           \A u \in Threads' \ Threads : u = <<u[1], u[2]>> /\ u[1] \in Stages,
           channels' \in [Streams -> SUBSET Sources], isOpened' \in [Streams -> BOOLEAN],
           isAwaitingInput' \in [Stages -> BOOLEAN], isQueryOpened' \in [Stages -> BOOLEAN],
           graphQueries' = [s \in Stages |-> graphQueries'[s]],
           \A s \in Stages : \A a \in graphQueries'[s] : <<s, a>> \in Threads',
           IsSequence(output')
    PROVE  Typed' /\ Turn(t, calls)
<1>1. Stages' = Stages /\ Streams' = Streams /\ Sources' = Sources
  BY SamePlan
<1>2. Turn(t, calls) /\ IsSequence(stack'[t])
  BY Turns DEF Typed, Shape
<1>3. \A u \in Threads' : IsSequence(stack'[u])
  <2>1. IsSequence(<<>>)
    <3>1. <<>> \in Seq({})
      OBVIOUS
    <3> QED
      BY <3>1 DEF IsSequence
  <2> QED
    BY <1>2, <2>1 DEF Typed, Shape
<1>4. stack' = [u \in Threads' |-> stack'[u]] /\ Source \in Threads'
  BY DEF Shape, Typed
<1>5. \A u \in Threads' \ {Source} : u = <<u[1], u[2]>> /\ u[1] \in Stages
  BY DEF Typed
<1>6. plan' \in Plans
  BY DEF Typed
<1> QED
  BY <1>1, <1>2, <1>3, <1>4, <1>5, <1>6 DEF Typed

\* What PushInput does.
LEMMA PushInputDoes ==
    ASSUME Typed, PushInput
    PROVE  /\ Typed' /\ Threads' = Threads /\ stack[Source] = <<>> /\ numSent'[Source] = numSent[Source] + 1
           /\ \A u \in Threads \ {Source} : numSent'[u] = numSent[u]
           /\ \E calls : /\ calls = <<Push(Source, Edb, AnswerOf(Source, numSent[Source] + 1))>>
                         /\ Shape(Source, calls) /\ Turn(Source, calls)
<1>1. PICK calls : calls = <<Push(Source, Edb, AnswerOf(Source, numSent[Source] + 1))>>
  OBVIOUS
<1>2. stack[Source] = <<>> /\ Source \in Threads /\ stack' = [stack EXCEPT ![Source] = calls]
  BY <1>1 DEF PushInput, IsIdle, AnswerOf, Typed
<1>3. IsSequence(calls)
  <2>1. calls \in Seq({calls[1]})
    BY <1>1
  <2> QED
    BY <2>1 DEF IsSequence
<1>4. Shape(Source, calls) /\ Threads' = Threads
  BY <1>2, <1>3, Shapes
<1>5. /\ numSent' \in [Threads' -> Nat] /\ numSent'[Source] = numSent[Source] + 1
      /\ \A u \in Threads \ {Source} : numSent'[u] = numSent[u]
  BY <1>2, <1>4 DEF Typed, PushInput
<1>6. Typed' /\ Turn(Source, calls)
  <2>1. UNCHANGED <<plan, streamVars, stageVars, output>>
    BY DEF PushInput
  <2> QED
    BY <1>4, <1>5, <2>1, TypedStep DEF Typed, streamVars, stageVars
<1> QED
  BY <1>1, <1>2, <1>4, <1>5, <1>6

\* What EndInput does.
LEMMA EndInputDoes ==
    ASSUME Typed, EndInput
    PROVE  /\ Typed' /\ Threads' = Threads /\ stack[Source] = <<>>
           /\ numSent[Source] <= NumInputs[plan] /\ numSent'[Source] = NumInputs[plan] + 1
           /\ \A u \in Threads \ {Source} : numSent'[u] = numSent[u]
           /\ \E calls : /\ calls = <<Push(Source, Edb, EOS)>>
                         /\ Shape(Source, calls) /\ Turn(Source, calls)
<1>1. PICK calls : calls = <<Push(Source, Edb, EOS)>>
  OBVIOUS
<1>2. stack[Source] = <<>> /\ Source \in Threads /\ stack' = [stack EXCEPT ![Source] = calls]
  BY <1>1 DEF EndInput, IsIdle, Typed
<1>3. IsSequence(calls)
  <2>1. calls \in Seq({calls[1]})
    BY <1>1
  <2> QED
    BY <2>1 DEF IsSequence
<1>4. Shape(Source, calls) /\ Threads' = Threads
  BY <1>2, <1>3, Shapes
<1>5. /\ numSent' \in [Threads' -> Nat] /\ numSent'[Source] = NumInputs[plan] + 1
      /\ numSent[Source] <= NumInputs[plan]
      /\ \A u \in Threads \ {Source} : numSent'[u] = numSent[u]
  BY <1>2, <1>4, Plan DEF Typed, EndInput
<1>6. Typed' /\ Turn(Source, calls)
  <2>1. UNCHANGED <<plan, streamVars, stageVars, readerVars>>
    BY DEF EndInput
  <2> QED
    BY <1>4, <1>5, <2>1, TypedStep DEF Typed, streamVars, stageVars, readerVars
<1> QED
  BY <1>1, <1>2, <1>4, <1>5, <1>6

\* The empty sequence.
LEMMA EmptyIsSequence == IsSequence(<<>>) /\ DOMAIN <<>> = {}
<1>1. <<>> \in Seq({})
  OBVIOUS
<1> QED
  BY <1>1 DEF IsSequence

\* What BroadcastAnswer does.
LEMMA BroadcastAnswerDoes ==
    ASSUME Typed, NEW t \in Threads, BroadcastAnswer(t)
    PROVE  /\ Typed' /\ Threads' = Threads /\ stack[t] # <<>> /\ 1 \in DOMAIN stack[t]
           /\ stack[t][1].op = "push" /\ stack[t][1].msg # EOS
           /\ \E n \in Broadcasters : \E calls :
                 /\ n = stack[t][1].to /\ calls = (IF isOpened[n] THEN Broadcast(n, stack[t][1].msg) ELSE <<>>)
                 /\ Shape(t, calls) /\ Turn(t, calls)
<1>1. /\ stack[t] # <<>> /\ 1 \in DOMAIN stack[t] /\ Head(stack[t]) = stack[t][1] /\ stack[t][1].op = "push"
      /\ stack[t][1].to \in Broadcasters /\ stack[t][1].msg # EOS
  BY Top DEF BroadcastAnswer, IsPush, Msg
<1>2. PICK n \in Broadcasters : n = stack[t][1].to
  BY <1>1
<1>3. PICK calls : calls = IF isOpened[n] THEN Broadcast(n, stack[t][1].msg) ELSE <<>>
  OBVIOUS
<1>4. n \in Streams
  BY Kinds
<1>5. IsSequence(calls) /\ stack' = Does(t, calls)
  BY <1>1, <1>2, <1>3, <1>4, Broadcasts, EmptyIsSequence DEF BroadcastAnswer, Msg, Typed
<1>6. Shape(t, calls) /\ Threads' = Threads
  BY <1>1, <1>5, Shapes
<1>7. Typed' /\ Turn(t, calls)
  <2>1. UNCHANGED <<plan, streamVars, stageVars, numSent, readerVars>>
    BY DEF BroadcastAnswer
  <2> QED
    BY <1>6, <2>1, TypedStep DEF Typed, streamVars, stageVars, readerVars
<1> QED
  BY <1>1, <1>2, <1>3, <1>6, <1>7

\* What BroadcastEos does.
LEMMA BroadcastEosDoes ==
    ASSUME Typed, NEW t \in Threads, BroadcastEos(t)
    PROVE  /\ Typed' /\ Threads' = Threads /\ stack[t] # <<>> /\ 1 \in DOMAIN stack[t]
           /\ stack[t][1].op = "push" /\ stack[t][1].msg = EOS
           /\ \E n \in Broadcasters : \E calls, left :
                 /\ n = stack[t][1].to /\ left = channels[n] \ {stack[t][1].from}
                 /\ channels' = (IF isOpened[n] THEN [channels EXCEPT ![n] = left] ELSE channels)
                 /\ calls = (IF isOpened[n] /\ left # {} THEN <<>> ELSE Broadcast(n, EOS) \o <<Close(n)>>)
                 /\ EosCalls(n, calls) /\ Shape(t, calls) /\ Turn(t, calls)
<1>1. /\ stack[t] # <<>> /\ 1 \in DOMAIN stack[t] /\ Head(stack[t]) = stack[t][1] /\ stack[t][1].op = "push"
      /\ stack[t][1].to \in Broadcasters /\ stack[t][1].msg = EOS
  BY Top DEF BroadcastEos, IsPush, Msg
<1>2. PICK n \in Broadcasters : n = stack[t][1].to
  BY <1>1
<1>3. PICK left : left = channels[n] \ {stack[t][1].from}
  OBVIOUS
<1>4. PICK calls : calls = IF isOpened[n] /\ left # {} THEN <<>> ELSE Broadcast(n, EOS) \o <<Close(n)>>
  OBVIOUS
<1>5. n \in Streams
  BY Kinds
<1>6. EosCalls(n, calls)
  BY <1>4, <1>5, EndCalls DEF Typed
<1>7. /\ stack' = Does(t, calls)
      /\ channels' = IF isOpened[n] THEN [channels EXCEPT ![n] = left] ELSE channels
  BY <1>1, <1>2, <1>3, <1>4 DEF BroadcastEos, EndChannel
<1>8. Shape(t, calls) /\ Threads' = Threads
  BY <1>1, <1>6, <1>7, Shapes DEF EosCalls
<1>9. channels' \in [Streams -> SUBSET Sources]
  BY <1>3, <1>5, <1>7 DEF Typed
<1>10. Typed' /\ Turn(t, calls)
  <2>1. UNCHANGED <<plan, isOpened, stageVars, numSent, readerVars>>
    BY DEF BroadcastEos
  <2> QED
    BY <1>8, <1>9, <2>1, TypedStep DEF Typed, stageVars, readerVars
<1> QED
  BY <1>1, <1>2, <1>3, <1>4, <1>6, <1>7, <1>8, <1>10

\* What CloseStream does.
LEMMA CloseStreamDoes ==
    ASSUME Typed, NEW t \in Threads, CloseStream(t)
    PROVE  /\ Typed' /\ Threads' = Threads /\ stack[t] # <<>> /\ 1 \in DOMAIN stack[t] /\ stack[t][1].op = "close"
           /\ isOpened' = [isOpened EXCEPT ![stack[t][1].to] = FALSE]
           /\ Shape(t, <<>>) /\ Turn(t, <<>>)
<1>1. stack[t] # <<>> /\ 1 \in DOMAIN stack[t] /\ Head(stack[t]) = stack[t][1] /\ stack[t][1].op = "close"
  BY Top DEF CloseStream
<1>2. isOpened' = [isOpened EXCEPT ![stack[t][1].to] = FALSE]
  BY <1>1 DEF CloseStream
<1>3. Shape(t, <<>>) /\ Threads' = Threads
  BY <1>1, EmptyIsSequence, Shapes DEF CloseStream
<1>4. isOpened' \in [Streams -> BOOLEAN]
  BY <1>2 DEF Typed
<1>5. Typed' /\ Turn(t, <<>>)
  <2>1. UNCHANGED <<plan, channels, stageVars, numSent, readerVars>>
    BY DEF CloseStream
  <2> QED
    BY <1>3, <1>4, <2>1, TypedStep DEF Typed, stageVars, readerVars
<1> QED
  BY <1>1, <1>2, <1>3, <1>5

\* What SubmitQuery does.
LEMMA SubmitQueryDoes ==
    ASSUME Typed, NEW t \in Threads, SubmitQuery(t)
    PROVE  /\ Typed' /\ stack[t] # <<>> /\ 1 \in DOMAIN stack[t]
           /\ stack[t][1].op = "push" /\ stack[t][1].msg # EOS
           /\ \A u \in Threads : numSent'[u] = numSent[u]
           /\ Shape(t, <<>>) /\ Turn(t, <<>>)
           /\ \E s \in Stages : \E m :
                 /\ s = stack[t][1].to /\ m = stack[t][1].msg
                 /\ \/ /\ isQueryOpened[s] /\ Threads' = Threads \cup {<<s, m>>}
                       /\ graphQueries' = [graphQueries EXCEPT ![s] = @ \cup {m}]
                    \/ ~(isOpened[s] /\ isQueryOpened[s]) /\ Threads' = Threads /\ graphQueries' = graphQueries
<1>1. /\ stack[t] # <<>> /\ 1 \in DOMAIN stack[t] /\ Head(stack[t]) = stack[t][1] /\ stack[t][1].op = "push"
      /\ stack[t][1].to \in Stages /\ stack[t][1].msg # EOS
  BY Top DEF SubmitQuery, IsPush, Msg
<1>0. PICK m : m = stack[t][1].msg
  OBVIOUS
<1>2. PICK s \in Stages : s = stack[t][1].to /\ m = stack[t][1].msg
  BY <1>0, <1>1
<1> DEFINE q == <<s, m>>
           taken == isOpened[s] /\ isQueryOpened[s]
           popped == Does(t, <<>>)
<1>3. IF taken THEN /\ graphQueries' = [graphQueries EXCEPT ![s] = @ \cup {m}]
                    /\ stack' = [u \in Threads \cup {q} |-> IF u \in Threads THEN popped[u] ELSE <<>>]
                    /\ numSent' = [u \in Threads \cup {q} |-> IF u \in Threads THEN numSent[u] ELSE 0]
               ELSE stack' = popped /\ UNCHANGED <<graphQueries, numSent>>
  BY <1>1, <1>2 DEF SubmitQuery, Msg
<1>4. /\ DOMAIN popped = Threads /\ \A u \in Threads \ {t} : popped[u] = stack[u]
      /\ popped[t] = <<>> \o Tail(stack[t]) /\ popped = [u \in Threads |-> popped[u]]
  BY DEF Typed, Does
<1> HIDE DEF popped
<1>5. CASE taken
  <2>1. Threads' = Threads \cup {q} /\ stack' = [u \in Threads' |-> stack'[u]]
    BY <1>3, <1>5 DEF Threads
  <2>2. \A u \in Threads : stack'[u] = popped[u] /\ numSent'[u] = numSent[u]
    BY <1>3, <1>5
  <2>3. \A u \in Threads' \ Threads : stack'[u] = <<>> /\ u = q /\ numSent'[u] = 0
    BY <1>3, <1>5, <2>1
  <2>4. Shape(t, <<>>)
    BY <1>1, <1>4, <2>1, <2>2, <2>3, EmptyIsSequence DEF Shape
  <2>5. numSent' \in [Threads' -> Nat]
    <3>1. numSent \in [Threads -> Nat]
      BY DEF Typed
    <3> QED
      BY ONLY <1>3, <1>5, <2>1, <3>1
  <2>6. graphQueries' = [graphQueries EXCEPT ![s] = @ \cup {m}] /\ isQueryOpened[s]
    BY <1>3, <1>5
  <2>7. /\ graphQueries' = [r \in Stages |-> graphQueries'[r]]
        /\ \A r \in Stages : \A a \in graphQueries'[r] : <<r, a>> \in Threads'
    <3>1. graphQueries = [r \in Stages |-> graphQueries[r]] /\ \A r \in Stages : \A a \in graphQueries[r] : <<r, a>> \in Threads
      BY DEF Typed
    <3>2. graphQueries'[s] = graphQueries[s] \cup {m} /\ \A r \in Stages : r # s => graphQueries'[r] = graphQueries[r]
      BY ONLY <2>6, <3>1
    <3>3. graphQueries' = [r \in Stages |-> graphQueries'[r]]
      BY ONLY <2>6, <3>1, <3>2
    <3>4. <<s, m>> \in Threads'
      BY <2>1
    <3> QED
      BY <2>1, <3>1, <3>2, <3>3, <3>4
  <2>8. \A u \in Threads' \ Threads : u = <<u[1], u[2]>> /\ u[1] \in Stages
    BY <2>3
  <2>9. Typed' /\ Turn(t, <<>>)
    <3>1. UNCHANGED <<plan, streamVars, isAwaitingInput, isQueryOpened, readerVars>>
      BY DEF SubmitQuery
    <3> QED
      BY <2>4, <2>5, <2>7, <2>8, <3>1, TypedStep DEF Typed, streamVars, readerVars
  <2> QED
    BY <1>1, <1>2, <2>1, <2>2, <2>4, <2>6, <2>9
<1>6. CASE ~taken
  <2>1. stack' = popped /\ numSent' = numSent /\ graphQueries' = graphQueries
    BY <1>3, <1>6
  <2>2. Shape(t, <<>>) /\ Threads' = Threads
    BY <1>1, <2>1, EmptyIsSequence, Shapes DEF popped
  <2>3. Typed' /\ Turn(t, <<>>)
    <3>1. UNCHANGED <<plan, streamVars, isAwaitingInput, isQueryOpened, readerVars>>
      BY DEF SubmitQuery
    <3> QED
      BY <2>1, <2>2, <3>1, TypedStep DEF Typed, streamVars, readerVars
  <2> QED
    BY <1>1, <1>2, <1>6, <2>1, <2>2, <2>3
<1> QED
  BY <1>5, <1>6

\* What StageEos does.
LEMMA StageEosDoes ==
    ASSUME Typed, NEW t \in Threads, StageEos(t)
    PROVE  /\ Typed' /\ Threads' = Threads /\ stack[t] # <<>> /\ 1 \in DOMAIN stack[t]
           /\ stack[t][1].op = "push" /\ stack[t][1].msg = EOS
           /\ \E s \in Stages : \E calls :
                 /\ s = stack[t][1].to /\ channels' = [channels EXCEPT ![s] = {}]
                 /\ isAwaitingInput' = [isAwaitingInput EXCEPT ![s] = FALSE]
                 /\ isQueryOpened' = [isQueryOpened EXCEPT ![s] = @ /\ graphQueries[s] # {}]
                 /\ EosCalls(s, calls) /\ Shape(t, calls) /\ Turn(t, calls)
                 /\ graphQueries[s] # {} => \A k \in DOMAIN calls : calls[k] = Close(s)
<1>1. /\ stack[t] # <<>> /\ 1 \in DOMAIN stack[t] /\ Head(stack[t]) = stack[t][1] /\ stack[t][1].op = "push"
      /\ stack[t][1].to \in Stages /\ stack[t][1].msg = EOS
  BY Top DEF StageEos, IsPush, Msg
<1>2. PICK s \in Stages : s = stack[t][1].to
  BY <1>1
<1>3. PICK calls : calls = (IF graphQueries[s] = {} THEN Broadcast(s, EOS) ELSE <<>>) \o <<Close(s)>>
  OBVIOUS
<1>4. s \in Streams
  BY Kinds
<1>5. EosCalls(s, calls)
  BY <1>3, <1>4, EndCalls DEF Typed
<1>6. /\ stack' = Does(t, calls) /\ channels' = [channels EXCEPT ![s] = {}]
      /\ isAwaitingInput' = [isAwaitingInput EXCEPT ![s] = FALSE]
      /\ isQueryOpened' = [isQueryOpened EXCEPT ![s] = @ /\ graphQueries[s] # {}]
  BY <1>1, <1>2, <1>3 DEF StageEos, EndStageInput
<1>7. Shape(t, calls) /\ Threads' = Threads
  BY <1>1, <1>5, <1>6, Shapes DEF EosCalls
<1>8. Typed' /\ Turn(t, calls)
  <2>1. UNCHANGED <<plan, isOpened, graphQueries, numSent, readerVars>>
    BY DEF StageEos
  <2>2. channels' \in [Streams -> SUBSET Sources]
    BY <1>6 DEF Typed
  <2>3. isAwaitingInput' \in [Stages -> BOOLEAN]
    BY <1>6 DEF Typed
  <2>4. isQueryOpened' \in [Stages -> BOOLEAN]
    <3>1. isQueryOpened \in [Stages -> BOOLEAN]
      BY DEF Typed
    <3> QED
      BY ONLY <1>6, <3>1
  <2> QED
    BY <1>7, <2>1, <2>2, <2>3, <2>4, TypedStep DEF Typed, readerVars
<1>9. graphQueries[s] # {} => \A k \in DOMAIN calls : calls[k] = Close(s)
  <2>1. graphQueries[s] # {} => calls = <<>> \o <<Close(s)>>
    BY <1>3
  <2>2. <<Close(s)>> \in Seq({Close(s)})
    OBVIOUS
  <2>3. <<>> \o <<Close(s)>> = <<Close(s)>>
    BY <2>2, ConcatEmptySeq
  <2> QED
    BY <2>1, <2>3
<1> QED
  BY <1>1, <1>2, <1>5, <1>6, <1>7, <1>8, <1>9

\* What PushAnswer does.
LEMMA PushAnswerDoes ==
    ASSUME Typed, NEW q \in Threads, PushAnswer(q)
    PROVE  /\ Typed' /\ Threads' = Threads /\ stack[q] = <<>> /\ q # Source /\ q[1] \in Stages /\ q[2] \in graphQueries[q[1]]
           /\ numSent'[q] = numSent[q] + 1 /\ \A u \in Threads \ {q} : numSent'[u] = numSent[u]
           /\ \E calls : /\ calls = (IF isQueryOpened[q[1]] THEN Broadcast(q[1], AnswerOf(q, numSent'[q])) ELSE <<>>)
                         /\ Shape(q, calls) /\ Turn(q, calls)
<1>1. stack[q] = <<>> /\ q # Source /\ q[1] \in Stages /\ q[2] \in graphQueries[q[1]]
  BY DEF PushAnswer, IsIdle, IsActive, Typed
<1>2. /\ numSent' \in [Threads -> Nat] /\ numSent'[q] = numSent[q] + 1
      /\ \A u \in Threads \ {q} : numSent'[u] = numSent[u]
  BY DEF Typed, PushAnswer
<1>3. PICK calls : calls = IF isQueryOpened[q[1]] THEN Broadcast(q[1], AnswerOf(q, numSent[q] + 1)) ELSE <<>>
  OBVIOUS
<1>4. stack' = [stack EXCEPT ![q] = calls]
  BY <1>1, <1>3 DEF PushAnswer, AnswerOf
<1>5. IsSequence(calls)
  BY <1>1, <1>3, Broadcasts, EmptyIsSequence, Kinds DEF Typed
<1>6. Shape(q, calls) /\ Threads' = Threads
  BY <1>1, <1>4, <1>5, Shapes
<1>7. Typed' /\ Turn(q, calls)
  <2>1. UNCHANGED <<plan, streamVars, stageVars, output>>
    BY DEF PushAnswer
  <2> QED
    BY <1>2, <1>6, <2>1, TypedStep DEF Typed, streamVars, stageVars
<1> QED
  BY <1>1, <1>2, <1>3, <1>6, <1>7

\* What EndQuery does.
LEMMA EndQueryDoes ==
    ASSUME Typed, NEW q \in Threads, EndQuery(q)
    PROVE  /\ Typed' /\ Threads' = Threads /\ stack[q] = <<>> /\ q # Source /\ q[1] \in Stages /\ q[2] \in graphQueries[q[1]]
           /\ graphQueries' = [graphQueries EXCEPT ![q[1]] = @ \ {q[2]}]
           /\ \E calls, isLast :
                 /\ isLast = (graphQueries[q[1]] = {q[2]} /\ ~isAwaitingInput[q[1]])
                 /\ isQueryOpened' = [isQueryOpened EXCEPT ![q[1]] = @ /\ ~isLast]
                 /\ calls = (IF isLast THEN Broadcast(q[1], EOS) ELSE <<>>)
                 /\ EosCalls(q[1], calls) /\ Shape(q, calls) /\ Turn(q, calls)
<1>1. stack[q] = <<>> /\ q # Source /\ q[1] \in Stages /\ q[2] \in graphQueries[q[1]]
  BY DEF EndQuery, IsIdle, IsActive, Typed
<1>2. PICK isLast : isLast = (graphQueries[q[1]] = {q[2]} /\ ~isAwaitingInput[q[1]])
  OBVIOUS
<1>3. PICK calls : calls = IF isLast THEN Broadcast(q[1], EOS) ELSE <<>>
  OBVIOUS
<1>4. /\ stack' = [stack EXCEPT ![q] = calls]
      /\ graphQueries' = [graphQueries EXCEPT ![q[1]] = @ \ {q[2]}]
      /\ isQueryOpened' = [isQueryOpened EXCEPT ![q[1]] = @ /\ ~isLast]
  BY <1>2, <1>3 DEF EndQuery
<1>5. EosCalls(q[1], calls)
  BY <1>1, <1>3, EndCalls, Kinds DEF Typed
<1>6. Shape(q, calls) /\ Threads' = Threads
  BY <1>1, <1>4, <1>5, Shapes DEF EosCalls
<1>7. Typed' /\ Turn(q, calls)
  <2>1. UNCHANGED <<plan, streamVars, isAwaitingInput, numSent, readerVars>>
    BY DEF EndQuery
  <2>2. isQueryOpened' \in [Stages -> BOOLEAN]
    <3>1. isQueryOpened \in [Stages -> BOOLEAN]
      BY DEF Typed
    <3> QED
      BY ONLY <1>2, <1>4, <3>1
  <2>3. /\ graphQueries' = [r \in Stages |-> graphQueries'[r]]
        /\ \A r \in Stages : \A a \in graphQueries'[r] : a \in graphQueries[r]
    <3>1. graphQueries = [r \in Stages |-> graphQueries[r]]
      BY DEF Typed
    <3>2. graphQueries'[q[1]] = graphQueries[q[1]] \ {q[2]} /\ \A r \in Stages : r # q[1] => graphQueries'[r] = graphQueries[r]
      BY ONLY <1>1, <1>4, <3>1
    <3>3. graphQueries' = [r \in Stages |-> graphQueries'[r]]
      BY ONLY <1>4, <3>1, <3>2
    <3> QED
      BY ONLY <3>2, <3>3
  <2> QED
    BY <1>6, <2>1, <2>2, <2>3, TypedStep DEF Typed, streamVars, readerVars
<1> QED
  BY <1>1, <1>2, <1>3, <1>4, <1>5, <1>6, <1>7

\* What Receive does.
LEMMA ReceiveDoes ==
    ASSUME Typed, NEW t \in Threads, Receive(t)
    PROVE  /\ Typed' /\ Threads' = Threads /\ stack[t] # <<>> /\ 1 \in DOMAIN stack[t]
           /\ stack[t][1].op = "push" /\ stack[t][1].to = Reader
           /\ DOMAIN output' = DOMAIN output \cup {Len(output) + 1} /\ Len(output) + 1 \notin DOMAIN output
           /\ output'[Len(output) + 1] = stack[t][1].msg /\ \A i \in DOMAIN output : output'[i] = output[i]
           /\ Shape(t, <<>>) /\ Turn(t, <<>>)
<1>1. /\ stack[t] # <<>> /\ 1 \in DOMAIN stack[t] /\ Head(stack[t]) = stack[t][1] /\ stack[t][1].op = "push"
      /\ stack[t][1].to = Reader
  BY Top DEF Receive, IsPush
<1>2. PICK m : m = stack[t][1].msg
  OBVIOUS
<1>3. output' = Append(output, m)
  BY <1>1, <1>2 DEF Receive, Msg
<1>4. PICK S : output \in Seq(S)
  BY DEF Typed, IsSequence
<1>5. output \in Seq(S \cup {m}) /\ Len(output) \in Nat /\ DOMAIN output = 1 .. Len(output)
  BY <1>4, LenProperties
<1>6. /\ output' \in Seq(S \cup {m}) /\ Len(output') = Len(output) + 1
      /\ output'[Len(output) + 1] = m /\ \A i \in 1 .. Len(output) : output'[i] = output[i]
  BY <1>3, <1>5, AppendProperties
<1>7. DOMAIN output' = 1 .. Len(output) + 1
  BY <1>6, LenProperties
<1>8. DOMAIN output' = DOMAIN output \cup {Len(output) + 1} /\ Len(output) + 1 \notin DOMAIN output
  BY ONLY <1>5, <1>7
<1>9. Shape(t, <<>>) /\ Threads' = Threads
  BY <1>1, EmptyIsSequence, Shapes DEF Receive
<1>10. Typed' /\ Turn(t, <<>>)
  <2>1. UNCHANGED <<plan, streamVars, stageVars, numSent>>
    BY DEF Receive
  <2>2. IsSequence(output')
    BY <1>6 DEF IsSequence
  <2> QED
    BY <1>9, <2>1, <2>2, TypedStep DEF Typed, streamVars, stageVars
<1> QED
  BY <1>1, <1>2, <1>5, <1>6, <1>8, <1>9, <1>10

\* The actions of the combiner, for any number of groups.
Combines(t) == Combine(t) \/ PushCombination(t) \/ EndCombine(t)

\* What the steps of a combiner do: they push no message with EOS in it.
LEMMA CombinesDoes ==
    ASSUME Typed, NEW t \in Threads, Combines(t)
    PROVE  /\ Typed' /\ Threads' = Threads /\ output' = output /\ stack[t] # <<>> /\ 1 \in DOMAIN stack[t]
           /\ stack[t][1].op = "combine" \/ (stack[t][1].op = "push" /\ stack[t][1].to = Combiner)
           /\ \E calls : /\ \A k \in DOMAIN calls : calls[k].op = "push" => EosToken \notin calls[k].msg
                         /\ Shape(t, calls) /\ Turn(t, calls)
<1>1. /\ stack[t] # <<>> /\ 1 \in DOMAIN stack[t]
      /\ stack[t][1].op = "combine" \/ (stack[t][1].op = "push" /\ stack[t][1].to = Combiner)
  BY Top DEF Combines, Combine, PushCombination, EndCombine, IsPush
<1> DEFINE Silent(c) == c.op = "push" => EosToken \notin c.msg
<1>2. \E calls : IsSequence(calls) /\ (\A k \in DOMAIN calls : Silent(calls[k])) /\ stack' = Does(t, calls)
  <2>1. CASE Combine(t)
    <3>1. PICK todo : stack' = Does(t, <<Combining(todo)>>)
      BY <2>1 DEF Combine
    <3>2. PICK calls : calls = <<Combining(todo)>>
      OBVIOUS
    <3>3. calls \in Seq({Combining(todo)}) /\ \A k \in DOMAIN calls : calls[k] = Combining(todo)
      BY <3>2
    <3>4. Combining(todo).op # "push"
      BY DEF Combining
    <3> QED
      BY <3>1, <3>2, <3>3, <3>4 DEF IsSequence
  <2>2. CASE EndCombine(t)
    BY <2>2, EmptyIsSequence DEF EndCombine
  <2>3. CASE PushCombination(t)
    <3>1. PICK todo, f, a, rest :
             /\ a = UNION {Copy(buffer[h][f[h]]) : h \in Groups}
             /\ rest = Combining(todo \ {f}) /\ stack' = Does(t, Broadcast(Combiner, a) \o <<rest>>)
      BY <2>3 DEF PushCombination
    <3>2. EosToken \notin a
      BY <3>1 DEF Copy
    <3>3. PICK c : c = Push(Combiner, Idb, a)
      OBVIOUS
    <3>4. Silent(c) /\ Silent(rest)
      BY <3>1, <3>2, <3>3 DEF Push, Combining
    <3>5. Subscribers(Combiner) = <<Idb>>
      BY SubscribersOf DEF Typed
    <3>6. Broadcast(Combiner, a) = [k \in {1} |-> c]
      BY <3>3, <3>5 DEF Broadcast
    <3>7. PICK calls : calls = Broadcast(Combiner, a) \o <<rest>>
      OBVIOUS
    <3> HIDE DEF Silent
    <3>8. Broadcast(Combiner, a) = <<c>>
      BY <3>6
    <3>9. calls \in Seq({c, rest}) /\ \A k \in DOMAIN calls : calls[k] \in {c, rest}
      BY ONLY <3>7, <3>8
    <3> QED
      BY <3>1, <3>4, <3>7, <3>9 DEF IsSequence
  <2> QED
    BY <2>1, <2>2, <2>3 DEF Combines
<1>3. PICK calls : IsSequence(calls) /\ (\A k \in DOMAIN calls : Silent(calls[k])) /\ stack' = Does(t, calls)
  BY <1>2
<1>4. Shape(t, calls) /\ Threads' = Threads
  BY <1>1, <1>3, Shapes
<1>5. Typed' /\ Turn(t, calls) /\ output' = output
  <2>1. UNCHANGED <<plan, streamVars, stageVars, numSent, readerVars>>
    BY DEF Combines, Combine, PushCombination, EndCombine
  <2> QED
    BY <1>4, <2>1, TypedStep DEF Typed, streamVars, stageVars, readerVars
<1> QED
  BY <1>1, <1>3, <1>4, <1>5

-----------------------------------------------------------------------------
(* Several groups *)

\* What a call is, and to whom.
LEMMA CallsAre ==
    /\ \A f, x, m : Push(f, x, m).op = "push" /\ Push(f, x, m).from = f /\ Push(f, x, m).to = x /\ Push(f, x, m).msg = m
    /\ \A n : Close(n).op = "close" /\ Close(n).to = n
    /\ \A f, x, m, n : Push(f, x, m) # Close(n)
BY DEF Push, Close

\* EOS stays away from the reader if no new call brings it there.
LEMMA NoEosStep ==
    ASSUME NoEos, NEW t, NEW calls, Turn(t, calls),
           \A k \in DOMAIN calls : calls[k].op = "push" /\ calls[k].to \in {Idb, Reader} => calls[k].msg # EOS,
           \A i \in DOMAIN output' : output'[i] # EOS
    PROVE  NoEos'
<1> DEFINE Good(c) == c.op = "push" /\ c.to \in {Idb, Reader} => c.msg # EOS
<1>1. \A u \in Threads : \A k \in DOMAIN stack[u] : Good(stack[u][k])
  BY DEF NoEos
<1>2. \A k \in DOMAIN calls : Good(calls[k])
  OBVIOUS
<1> HIDE DEF Good
<1>3. \A u \in Threads' : \A k \in DOMAIN stack'[u] : Good(stack'[u][k])
  BY <1>1, <1>2 DEF Turn
<1> QED
  BY <1>3 DEF NoEos, Good

\* Only the combiner and what follows it lead to the reader.
LEMMA EndsElsewhere ==
    ASSUME Typed, ~IsChain, NEW n \in Streams, n \notin {Combiner, Idb}, NEW calls, EosCalls(n, calls)
    PROVE  \A k \in DOMAIN calls : calls[k].op = "push" /\ calls[k].to \in {Idb, Reader} => calls[k].msg # EOS
<1>1. \A k \in DOMAIN Subscribers(n) : Subscribers(n)[k] \notin {Idb, Reader}
  <2>1. Len(plan) > 1
    BY Plan DEF Typed, IsChain
  <2> QED
    BY <2>1, Subscribed DEF Typed
<1> QED
  BY <1>1, CallsAre DEF EosCalls

\* With several groups no step brings EOS past the combiner.
LEMMA NoEosNext ==
    ASSUME Typed, ~IsChain, NoEos, Next
    PROVE  NoEos'
<1>0. \A i \in DOMAIN output : output[i] # EOS
  BY DEF NoEos
<1>1. CASE PushInput
  <2>1. PICK calls : calls = <<Push(Source, Edb, AnswerOf(Source, numSent[Source] + 1))>> /\ Turn(Source, calls)
    BY <1>1, PushInputDoes
  <2>2. output' = output
    BY <1>1 DEF PushInput
  <2>3. \A k \in DOMAIN calls : calls[k].to = Edb
    BY <2>1, CallsAre
  <2> QED
    BY <1>0, <2>1, <2>2, <2>3, NoEosStep, Names
<1>2. CASE EndInput
  <2>1. PICK calls : calls = <<Push(Source, Edb, EOS)>> /\ Turn(Source, calls)
    BY <1>2, EndInputDoes
  <2>2. output' = output
    BY <1>2 DEF EndInput, readerVars
  <2>3. \A k \in DOMAIN calls : calls[k].to = Edb
    BY <2>1, CallsAre
  <2> QED
    BY <1>0, <2>1, <2>2, <2>3, NoEosStep, Names
<1>3. ASSUME NEW t \in Threads, BroadcastAnswer(t) PROVE NoEos'
  <2>1. PICK n \in Broadcasters : \E calls :
           calls = (IF isOpened[n] THEN Broadcast(n, stack[t][1].msg) ELSE <<>>) /\ Turn(t, calls) /\ stack[t][1].msg # EOS
    BY <1>3, BroadcastAnswerDoes
  <2>2. PICK calls : calls = (IF isOpened[n] THEN Broadcast(n, stack[t][1].msg) ELSE <<>>) /\ Turn(t, calls) /\ stack[t][1].msg # EOS
    BY <2>1
  <2>3. output' = output /\ n \in Streams
    BY <1>3, Kinds DEF BroadcastAnswer, readerVars
  <2>4. \A k \in DOMAIN calls : calls[k].msg # EOS
    BY <2>2, <2>3, Broadcasts, CallsAre, EmptyIsSequence DEF Typed
  <2> QED
    BY <1>0, <2>2, <2>3, <2>4, NoEosStep
<1>4. ASSUME NEW t \in Threads, BroadcastEos(t) PROVE NoEos'
  <2>1. PICK n \in Broadcasters : \E calls : n = stack[t][1].to /\ EosCalls(n, calls) /\ Turn(t, calls)
    BY <1>4, BroadcastEosDoes
  <2>2. PICK calls : EosCalls(n, calls) /\ Turn(t, calls)
    BY <2>1
  <2>3. n # Idb
    BY <1>4, <2>1, BroadcastEosDoes DEF NoEos
  <2>4. output' = output /\ n \in Streams /\ n # Combiner
    BY <1>4, Kinds DEF BroadcastEos, readerVars
  <2> QED
    BY <1>0, <2>2, <2>3, <2>4, NoEosStep, EndsElsewhere
<1>5. ASSUME NEW t \in Threads, CloseStream(t) \/ SubmitQuery(t) PROVE NoEos'
  <2>1. Turn(t, <<>>)
    BY <1>5, CloseStreamDoes, SubmitQueryDoes
  <2>2. output' = output
    BY <1>5 DEF CloseStream, SubmitQuery, readerVars
  <2> QED
    BY <1>0, <2>1, <2>2, NoEosStep
<1>6. ASSUME NEW t \in Threads, StageEos(t) PROVE NoEos'
  <2>1. PICK n \in Stages : \E calls : EosCalls(n, calls) /\ Turn(t, calls)
    BY <1>6, StageEosDoes
  <2>2. PICK calls : EosCalls(n, calls) /\ Turn(t, calls)
    BY <2>1
  <2>3. output' = output /\ n \in Streams /\ n \notin {Combiner, Idb}
    BY <1>6, Kinds DEF StageEos, readerVars
  <2> QED
    BY <1>0, <2>2, <2>3, NoEosStep, EndsElsewhere
<1>7. ASSUME NEW t \in Threads, PushAnswer(t) PROVE NoEos'
  <2>1. PICK calls : calls = (IF isQueryOpened[t[1]] THEN Broadcast(t[1], AnswerOf(t, numSent'[t])) ELSE <<>>) /\ Turn(t, calls)
    BY <1>7, PushAnswerDoes
  <2>2. output' = output /\ t[1] \in Streams
    BY <1>7, PushAnswerDoes, Kinds DEF PushAnswer
  <2>3. \A k \in DOMAIN calls : calls[k].msg # EOS
    BY <2>1, <2>2, Broadcasts, CallsAre, EmptyIsSequence, AnswersAreNotEos DEF Typed
  <2> QED
    BY <1>0, <2>1, <2>2, <2>3, NoEosStep
<1>8. ASSUME NEW t \in Threads, EndQuery(t) PROVE NoEos'
  <2>1. PICK calls : EosCalls(t[1], calls) /\ Turn(t, calls)
    BY <1>8, EndQueryDoes
  <2>2. output' = output /\ t[1] \in Streams /\ t[1] \notin {Combiner, Idb}
    BY <1>8, EndQueryDoes, Kinds DEF EndQuery, readerVars
  <2> QED
    BY <1>0, <2>1, <2>2, NoEosStep, EndsElsewhere
<1>9. ASSUME NEW t \in Threads, Combines(t) PROVE NoEos'
  <2>1. PICK calls : (\A k \in DOMAIN calls : calls[k].op = "push" => EosToken \notin calls[k].msg) /\ Turn(t, calls)
    BY <1>9, CombinesDoes
  <2>2. output' = output
    BY <1>9, CombinesDoes
  <2>3. \A k \in DOMAIN calls : calls[k].op = "push" => calls[k].msg # EOS
    BY <2>1 DEF EOS
  <2> QED
    BY <1>0, <2>1, <2>2, <2>3, NoEosStep
<1>10. ASSUME NEW t \in Threads, Receive(t) PROVE NoEos'
  <2>1. Turn(t, <<>>)
    BY <1>10, ReceiveDoes
  <2>2. stack[t][1].msg # EOS
    BY <1>10, ReceiveDoes DEF NoEos
  <2>3. \A i \in DOMAIN output' : output'[i] # EOS
    BY <1>0, <1>10, <2>2, ReceiveDoes
  <2> QED
    BY <2>1, <2>3, NoEosStep
<1> QED
  BY <1>1, <1>2, <1>3, <1>4, <1>5, <1>6, <1>7, <1>8, <1>9, <1>10 DEF Next, Combines

\* Every step keeps the types.
LEMMA TypedNext ==
    ASSUME Typed, Next
    PROVE  Typed'
BY PushInputDoes, EndInputDoes, BroadcastAnswerDoes, BroadcastEosDoes, CloseStreamDoes, SubmitQueryDoes,
   StageEosDoes, PushAnswerDoes, EndQueryDoes, CombinesDoes, ReceiveDoes DEF Next, Combines

-----------------------------------------------------------------------------
(* A chain: EOS *)

\* A step keeps what is known of EOS if its calls do.
LEMMA EosStep ==
    ASSUME Typed, Typed', IsChain, plan' = plan, EosInv,
           NEW t, NEW e, NEW calls, IsSequence(calls), Turn(t, calls), Steady(t), Ends(e), Takes(t), Announces(e, calls),
           \A k \in DOMAIN calls : IF IsAlive(t)' THEN Answering(t, calls[k])' /\ numSent'[t] >= 1 ELSE Ending(calls[k]),
           \A n \in Broadcasters : ~isOpened'[n] => ~isOpened[n] \/ HasEnded(n),
           \A k \in DOMAIN calls : \A n \in Broadcasters : calls[k] = Close(n) => HasEnded(n)',
           \A s \in Stages : ~isQueryOpened'[s] => ~isAwaitingInput'[s] /\ graphQueries'[s] = {},
           e \in Steps /\ ~HasEnded(e) => \A f : Feeds(f, e) => HasEnded(f)
    PROVE  EosInv'
<1>1. Called'
  BY CalledStep DEF EosInv
<1>2. \A u \in Threads' : IsSequence(stack'[u])
  BY DEF Typed
<1>3. Linked' /\ Once'
  BY <1>2, LinkedStep DEF EosInv
<1>4. Closed'
  BY ClosedStep DEF EosInv
<1>5. Upstream'
  BY UpstreamStep DEF EosInv
<1> QED
  BY <1>1, <1>3, <1>4, <1>5 DEF EosInv

\* What ends, and what is awaited, is a matter of few variables.
LEMMA SameEnds ==
    ASSUME plan' = plan, channels' = channels, isQueryOpened' = isQueryOpened,
           numSent'[Source] > NumInputs[plan] <=> numSent[Source] > NumInputs[plan]
    PROVE  \A f : HasEnded(f)' <=> HasEnded(f)
BY SamePlan DEF HasEnded

\* What is awaited is a matter of few variables, too.
LEMMA SameAwaits ==
    ASSUME plan' = plan, channels' = channels, isAwaitingInput' = isAwaitingInput, output' = output
    PROVE  Takes(Source) /\ \A t : Takes(t)
<1>1. \A x, f : Awaits(x, f)' <=> Awaits(x, f)
  BY SamePlan DEF Awaits
<1> QED
  BY <1>1 DEF Takes

\* The call on top of a stack.
LEMMA TopIs ==
    ASSUME Typed, IsChain, Called, NEW t \in Threads, 1 \in DOMAIN stack[t]
    PROVE  /\ stack[t][1].op \in {"push", "close"} /\ (stack[t][1].op = "push" => stack[t][1].to # Combiner)
           /\ stack[t][1].op = "close" => ~IsAlive(t) /\ stack[t][1] = Close(stack[t][1].to) /\ stack[t][1].to \in Streams
           /\ stack[t][1].op = "push" /\ stack[t][1].msg # EOS =>
                 /\ IsAlive(t) /\ numSent[t] >= 1 /\ stack[t][1].msg = Current(t)
                 /\ \E f \in Path(t) : f \in Sources /\ stack[t][1].from = f /\ Feeds(f, stack[t][1].to)
           /\ stack[t][1].op = "push" /\ stack[t][1].msg = EOS =>
                 /\ ~IsAlive(t) /\ stack[t][1] = Push(stack[t][1].from, stack[t][1].to, EOS)
                 /\ stack[t][1].from \in Sources /\ stack[t][1].to \in Targets /\ Feeds(stack[t][1].from, stack[t][1].to)
<1>1. PICK c : c = stack[t][1]
  OBVIOUS
<1>2. Combiner \notin Targets
  BY ChainStreams, Kinds, Names DEF Targets, Typed
<1>3. CASE IsAlive(t)
  <2>1. Answering(t, c) /\ numSent[t] >= 1
    BY <1>1, <1>3 DEF Called
  <2>2. PICK f \in Path(t), x \in Targets : Feeds(f, x) /\ c = Push(f, x, Current(t))
    BY <2>1 DEF Answering
  <2>3. c.op = "push" /\ c.from = f /\ c.to = x /\ c.msg = Current(t) /\ c.msg # EOS
    BY <2>2, CallsAre, AnswersAreNotEos DEF Current
  <2>4. f \in Sources
    BY <2>2 DEF Feeds, Sources
  <2> QED
    BY <1>1, <1>2, <1>3, <2>1, <2>2, <2>3, <2>4
<1>4. CASE ~IsAlive(t)
  <2>1. Ending(c)
    BY <1>1, <1>4 DEF Called
  <2>2. CASE \E n \in Streams : c = Close(n)
    BY <1>1, <1>4, <2>2, CallsAre
  <2>3. CASE \E f \in Sources, x \in Targets : Feeds(f, x) /\ c = Push(f, x, EOS)
    <3>1. PICK f \in Sources, x \in Targets : Feeds(f, x) /\ c = Push(f, x, EOS)
      BY <2>3
    <3>2. c.op = "push" /\ c.from = f /\ c.to = x /\ c.msg = EOS
      BY <3>1, CallsAre
    <3> QED
      BY <1>1, <1>2, <1>4, <3>1, <3>2
  <2> QED
    BY <2>1, <2>2, <2>3 DEF Ending
<1> QED
  BY <1>3, <1>4

\* The calls with which a stream on its path hands a thread's answer on.
LEMMA PathCalls ==
    ASSUME Typed, IsChain, NEW t \in Threads, NEW n \in Path(t), n \in Streams, NEW calls, calls = Broadcast(n, Current(t))
    PROVE  /\ IsSequence(calls) /\ calls # <<>> /\ DOMAIN calls = DOMAIN Subscribers(n)
           /\ \A k \in DOMAIN calls : Answering(t, calls[k]) /\ calls[k].op = "push" /\ calls[k].msg = Current(t) /\ Current(t) # EOS
                                      /\ calls[k].to = Subscribers(n)[k] /\ Feeds(n, Subscribers(n)[k])
<1>1. /\ IsSequence(calls) /\ DOMAIN calls = DOMAIN Subscribers(n)
      /\ \A k \in DOMAIN calls : calls[k] = Push(n, Subscribers(n)[k], Current(t))
  BY Broadcasts DEF Typed
<1>2. calls # <<>>
  <2>1. Subscribers(n) # <<>> /\ IsSequence(Subscribers(n))
    BY ChainSubscribers DEF Typed
  <2>2. \A q : IsSequence(q) => (q = <<>> <=> DOMAIN q = {})
    BY DEF IsSequence
  <2> QED
    BY <1>1, <2>1, <2>2
<1>3. \A k \in DOMAIN calls : Feeds(n, Subscribers(n)[k])
  BY <1>1, ChainSubscribers DEF Typed
<1>4. \A k \in DOMAIN calls : Answering(t, calls[k])
  <2>1. \A k \in DOMAIN calls : Subscribers(n)[k] \in Targets
    BY <1>3, OneFeeder DEF Typed
  <2> QED
    BY <1>1, <1>3, <2>1 DEF Answering
<1> QED
  BY <1>1, <1>2, <1>3, <1>4, CallsAre, AnswersAreNotEos DEF Current

\* Calls that are no EOS announce nothing.
LEMMA NoAnnouncement ==
    ASSUME NEW e, NEW calls, \A k \in DOMAIN calls : calls[k].op = "push" => calls[k].msg # EOS
    PROVE  Announces(e, calls)
BY CallsAre DEF Announces

\* EOS when the query of Edb pushes an answer.
LEMMA PushInputEos ==
    ASSUME Typed, IsChain, EosInv, PushInput
    PROVE  EosInv'
<1>1. PICK calls : calls = <<Push(Source, Edb, AnswerOf(Source, numSent[Source] + 1))>> /\ Turn(Source, calls) /\ Shape(Source, calls)
  BY PushInputDoes
<1>2. Typed' /\ Threads' = Threads /\ stack[Source] = <<>> /\ numSent'[Source] = numSent[Source] + 1
  BY PushInputDoes
<1>3. numSent[Source] < NumInputs[plan] /\ UNCHANGED <<plan, channels, isOpened, graphQueries, isAwaitingInput, isQueryOpened, output>>
  BY DEF PushInput, streamVars, stageVars
<1>4. numSent[Source] \in Nat /\ NumInputs[plan] \in Nat
  BY Plan DEF Typed
<1>5. \A f : HasEnded(f)' <=> HasEnded(f)
  <2>1. numSent'[Source] > NumInputs[plan] <=> numSent[Source] > NumInputs[plan]
    BY ONLY <1>2, <1>3, <1>4
  <2> QED
    BY <1>3, <2>1, SameEnds
<1>6. Steady(Source)
  BY <1>2, <1>3, PushInputDoes DEF Steady, IsAlive
<1>7. IsAlive(Source)' /\ Current(Source)' = AnswerOf(Source, numSent[Source] + 1) /\ numSent'[Source] >= 1
  <2>1. numSent'[Source] <= NumInputs[plan] /\ numSent'[Source] >= 1
    BY ONLY <1>2, <1>3, <1>4
  <2> QED
    BY <1>2, <1>3, <2>1 DEF IsAlive, Current
<1>8. DOMAIN calls = {1} /\ calls[1] = Push(Source, Edb, Current(Source)')
  BY <1>1, <1>7
<1>9. Answering(Source, calls[1])'
  <2>1. Source \in Path(Source) /\ Edb \in Targets /\ Feeds(Source, Edb)
    BY ChainFeeds, Kinds DEF Path, Targets, Typed
  <2> QED
    BY <1>3, <1>8, <2>1, SamePlan DEF Answering
<1>10. \A k \in DOMAIN calls : calls[k].op = "push" /\ calls[k].msg # EOS
  BY <1>1, <1>8, CallsAre, AnswersAreNotEos
<1>11. Announces(Reader, calls)
  BY <1>10, NoAnnouncement
<1>12. Ends(Reader) /\ Takes(Source)
  BY <1>3, <1>5, SameAwaits DEF Ends
<1>13. \A k \in DOMAIN calls : \A n : calls[k] # Close(n)
  BY <1>10, CallsAre
<1>14. Reader \notin Steps
  BY Kinds
<1> QED
  BY <1>1, <1>2, <1>3, <1>6, <1>7, <1>8, <1>9, <1>11, <1>12, <1>13, <1>14, EosStep DEF Shape, EosInv, Closed

\* EOS when the query of Edb ends.
LEMMA EndInputEos ==
    ASSUME Typed, IsChain, EosInv, EndInput
    PROVE  EosInv'
<1>1. PICK calls : calls = <<Push(Source, Edb, EOS)>> /\ Turn(Source, calls) /\ Shape(Source, calls)
  BY EndInputDoes
<1>2. Typed' /\ Threads' = Threads /\ stack[Source] = <<>> /\ numSent[Source] <= NumInputs[plan] /\ numSent'[Source] = NumInputs[plan] + 1
  BY EndInputDoes
<1>3. UNCHANGED <<plan, channels, isOpened, graphQueries, isAwaitingInput, isQueryOpened, output>>
  BY DEF EndInput, streamVars, stageVars, readerVars
<1>4. numSent[Source] \in Nat /\ NumInputs[plan] \in Nat
  BY Plan DEF Typed
<1>5. ~HasEnded(Source) /\ HasEnded(Source)' /\ \A f : f # Source => (HasEnded(f)' <=> HasEnded(f))
  <2>1. numSent'[Source] > NumInputs[plan] /\ ~(numSent[Source] > NumInputs[plan])
    BY ONLY <1>2, <1>4
  <2>2. Source \notin Stages /\ Source \notin Broadcasters
    BY Kinds
  <2> QED
    BY <1>3, <2>1, <2>2, SamePlan DEF HasEnded
<1>6. Steady(Source) /\ ~IsAlive(Source)'
  <2>1. ~(numSent'[Source] <= NumInputs[plan])
    BY ONLY <1>2, <1>4
  <2> QED
    BY <1>2, <1>3, <2>1, EndInputDoes DEF Steady, IsAlive
<1>7. DOMAIN calls = {1} /\ calls[1] = Push(Source, Edb, EOS)
  BY <1>1
<1>8. Source \in Sources /\ Edb \in Targets /\ Feeds(Source, Edb)
  BY ChainFeeds, Kinds DEF Sources, Targets, Typed
<1>9. \A k \in DOMAIN calls : Ending(calls[k])
  BY <1>7, <1>8 DEF Ending
<1>10. Announces(Source, calls)
  <2>0. calls[1].from = Source /\ \A f, x : Push(f, x, EOS).from = f
    BY <1>7, CallsAre
  <2>1. \A f, x : calls[1] = Push(f, x, EOS) => f = Source
    BY ONLY <2>0
  <2> QED
    BY <1>5, <1>7, <2>1 DEF Announces
<1>11. Ends(Source) /\ Takes(Source)
  BY <1>3, <1>5, SameAwaits DEF Ends
<1>12. \A k \in DOMAIN calls : \A n : calls[k] # Close(n)
  BY <1>7, CallsAre
<1>13. Source \notin Steps
  BY Names
<1> QED
  BY <1>1, <1>2, <1>3, <1>6, <1>9, <1>10, <1>11, <1>12, <1>13, EosStep DEF Shape, EosInv, Closed

\* The streams that hand an answer on are open.
LEMMA AnswerPath ==
    ASSUME Typed, IsChain, EosInv, NEW t \in Threads, 1 \in DOMAIN stack[t], stack[t][1].op = "push", stack[t][1].msg # EOS
    PROVE  /\ IsAlive(t) /\ numSent[t] >= 1 /\ stack[t][1].msg = Current(t) /\ Level(t) \in 0 .. Depth
           /\ IsLast(t) <=> Level(t) = Depth
           /\ stack[t][1].to \in Broadcasters => stack[t][1].to \in Path(t) /\ isOpened[stack[t][1].to]
           /\ stack[t][1].to \in Stages => Literal(stack[t][1].to) = Level(t) + 1
           /\ stack[t][1].to = Reader => IsLast(t)
<1>1. /\ IsAlive(t) /\ numSent[t] >= 1 /\ stack[t][1].msg = Current(t)
      /\ \E f \in Path(t) : Feeds(f, stack[t][1].to)
  BY TopIs DEF EosInv
<1>2. PICK x : x = stack[t][1].to
  OBVIOUS
<1>3. PICK f \in Path(t) : Feeds(f, x)
  BY <1>1, <1>2
<1>4. t = Source \/ t[1] \in Stages
  BY DEF Typed
<1>5. /\ Level(t) \in 0 .. Depth /\ (IsLast(t) <=> Level(t) = Depth)
      /\ x \in Stages => Literal(x) = Level(t) + 1
      /\ x \in Broadcasters => x \in Path(t)
      /\ x = Reader => IsLast(t)
  BY <1>3, <1>4, PathLeads DEF Typed
<1>6. ASSUME x \in Broadcasters PROVE isOpened[x]
  <2>1. ~HasEnded(x)
    BY <1>1, <1>5, <1>6, AliveOpen DEF EosInv
  <2> QED
    BY <1>6, <2>1 DEF EosInv, Closed
<1> QED
  BY <1>1, <1>2, <1>5, <1>6

\* EOS when an answer is broadcast.
LEMMA BroadcastAnswerEos ==
    ASSUME Typed, IsChain, EosInv, NEW t \in Threads, BroadcastAnswer(t)
    PROVE  EosInv'
<1>1. PICK n \in Broadcasters : \E calls : n = stack[t][1].to /\ calls = (IF isOpened[n] THEN Broadcast(n, stack[t][1].msg) ELSE <<>>)
                                           /\ Shape(t, calls) /\ Turn(t, calls)
  BY BroadcastAnswerDoes
<1>2. Typed' /\ Threads' = Threads /\ stack[t] # <<>> /\ 1 \in DOMAIN stack[t] /\ stack[t][1].op = "push" /\ stack[t][1].msg # EOS
  BY BroadcastAnswerDoes
<1>3. UNCHANGED <<plan, channels, isOpened, graphQueries, isAwaitingInput, isQueryOpened, output, numSent>>
  BY DEF BroadcastAnswer, streamVars, stageVars, readerVars
<1>4. IsAlive(t) /\ numSent[t] >= 1 /\ stack[t][1].msg = Current(t) /\ n \in Path(t) /\ isOpened[n]
  BY <1>1, <1>2, AnswerPath
<1>5. PICK calls : calls = Broadcast(n, Current(t)) /\ Shape(t, calls) /\ Turn(t, calls)
  BY <1>1, <1>4
<1>6. \A f : HasEnded(f)' <=> HasEnded(f)
  BY <1>3, SameEnds
<1>7. Steady(t) /\ IsAlive(t)' /\ numSent'[t] >= 1
  BY <1>2, <1>3, <1>4 DEF Steady, IsAlive
<1>8. n \in Streams
  BY Kinds
<1>9. IsSequence(calls) /\ \A k \in DOMAIN calls : Answering(t, calls[k]) /\ calls[k].op = "push" /\ calls[k].msg # EOS
  BY <1>4, <1>5, <1>8, PathCalls
<1>10. \A k \in DOMAIN calls : Answering(t, calls[k])'
  BY <1>3, <1>9, SamePlan DEF Answering, Current
<1>11. Announces(Reader, calls)
  BY <1>9, NoAnnouncement
<1>12. Ends(Reader) /\ Takes(t)
  BY <1>3, <1>6, SameAwaits DEF Ends
<1>13. \A k \in DOMAIN calls : \A m : calls[k] # Close(m)
  BY <1>9, CallsAre
<1>14. Reader \notin Steps
  BY Kinds
<1> QED
  BY <1>2, <1>3, <1>5, <1>7, <1>9, <1>10, <1>11, <1>12, <1>13, <1>14, EosStep DEF EosInv, Closed

\* EOS when a stream is closed.
LEMMA CloseStreamEos ==
    ASSUME Typed, IsChain, EosInv, NEW t \in Threads, CloseStream(t)
    PROVE  EosInv'
<1>1. /\ Typed' /\ Threads' = Threads /\ stack[t] # <<>> /\ 1 \in DOMAIN stack[t] /\ stack[t][1].op = "close"
      /\ isOpened' = [isOpened EXCEPT ![stack[t][1].to] = FALSE]
      /\ Turn(t, <<>>) /\ IsSequence(<<>>) /\ DOMAIN <<>> = {}
  BY CloseStreamDoes, EmptyIsSequence
<1>2. UNCHANGED <<plan, channels, graphQueries, isAwaitingInput, isQueryOpened, output, numSent>>
  BY DEF CloseStream, stageVars, readerVars
<1>3. \A f : HasEnded(f)' <=> HasEnded(f)
  BY <1>2, SameEnds
<1>4. Steady(t)
  BY <1>2 DEF Steady, IsAlive
<1>5. Announces(Reader, <<>>) /\ Ends(Reader) /\ Takes(t)
  BY <1>1, <1>2, <1>3, SameAwaits DEF Announces, Ends
<1>6. stack[t][1] = Close(stack[t][1].to)
  BY <1>1, TopIs DEF EosInv
<1>7. ASSUME NEW n \in Broadcasters, ~isOpened'[n] PROVE ~isOpened[n] \/ HasEnded(n)
  <2>1. ~isOpened[n] \/ n = stack[t][1].to
    BY <1>1, <1>7, Kinds DEF Typed
  <2>2. n = stack[t][1].to => HasEnded(n)
    BY <1>1, <1>6 DEF EosInv, Closed
  <2> QED
    BY <2>1, <2>2
<1>8. Reader \notin Steps
  BY Kinds
<1> QED
  BY <1>1, <1>2, <1>4, <1>5, <1>7, <1>8, EosStep DEF EosInv, Closed

\* A stage that starts a query has not seen its answer before.
LEMMA SubmitsFresh ==
    ASSUME Typed, IsChain, EosInv, Fresh, NEW t \in Threads, SubmitQuery(t)
    PROVE  /\ IsAlive(t) /\ numSent[t] >= 1 /\ stack[t][1].msg = Current(t) /\ stack[t][1].to \in Stages
           /\ Literal(stack[t][1].to) = Level(t) + 1 /\ <<stack[t][1].to, Current(t)>> \notin Threads
<1>1. 1 \in DOMAIN stack[t] /\ stack[t][1].op = "push" /\ stack[t][1].msg # EOS /\ stack[t][1].to \in Stages
  BY SubmitQueryDoes
<1>2. /\ IsAlive(t) /\ numSent[t] >= 1 /\ stack[t][1].msg = Current(t)
      /\ Literal(stack[t][1].to) = Level(t) + 1
  BY <1>1, AnswerPath
<1> QED
  BY <1>1, <1>2 DEF Fresh

\* Starting a query leaves the other threads alive or ended, as they were: its
\* thread is new.
LEMMA SubmitSteady ==
    ASSUME Typed, IsChain, EosInv, Fresh, NEW t \in Threads, SubmitQuery(t)
    PROVE  /\ Steady(t)
           /\ \A r \in Stages : graphQueries'[r] = graphQueries[r] \/ isQueryOpened[r]
<1>1. (\A u \in Threads : numSent'[u] = numSent[u]) /\ plan' = plan
  BY SubmitQueryDoes DEF SubmitQuery
<1>3. PICK s \in Stages : \E m : /\ s = stack[t][1].to /\ m = stack[t][1].msg
          /\ \/ isQueryOpened[s] /\ Threads' = Threads \cup {<<s, m>>} /\ graphQueries' = [graphQueries EXCEPT ![s] = @ \cup {m}]
             \/ ~(isOpened[s] /\ isQueryOpened[s]) /\ Threads' = Threads /\ graphQueries' = graphQueries
  BY SubmitQueryDoes, Zenon
<1>4. PICK m : /\ s = stack[t][1].to /\ m = stack[t][1].msg
               /\ \/ isQueryOpened[s] /\ graphQueries' = [graphQueries EXCEPT ![s] = @ \cup {m}]
                  \/ graphQueries' = graphQueries
  BY <1>3
<1>5. <<s, m>> \notin Threads
  BY <1>4, SubmitsFresh
<1>7. \A r \in Stages : graphQueries'[r] = graphQueries[r] \/ (r = s /\ graphQueries'[r] = graphQueries[r] \cup {m} /\ isQueryOpened[s])
  <2>1. graphQueries = [r \in Stages |-> graphQueries[r]]
    BY DEF Typed
  <2> QED
    BY ONLY <1>4, <2>1
<1>8. Steady(t)
  <2>1. ASSUME NEW u \in Threads, u # Source PROVE IsAlive(u)' <=> IsAlive(u)
    <3>1. u = <<u[1], u[2]>> /\ u[1] \in Stages
      BY <2>1 DEF Typed
    <3>2. u[1] = s => u[2] # m
      BY <1>5, <3>1
    <3>3. u[2] \in graphQueries'[u[1]] <=> u[2] \in graphQueries[u[1]]
      BY <1>7, <3>1, <3>2
    <3> QED
      BY <2>1, <3>3 DEF IsAlive
  <2>2. IsAlive(Source)' <=> IsAlive(Source)
    BY <1>1 DEF IsAlive, Typed
  <2> QED
    BY <1>1, <2>1, <2>2 DEF Steady
<1> QED
  BY <1>7, <1>8

\* EOS when a stage starts a query.
LEMMA SubmitQueryEos ==
    ASSUME Typed, IsChain, EosInv, Fresh, NEW t \in Threads, SubmitQuery(t)
    PROVE  EosInv'
<1>1. /\ Typed' /\ Turn(t, <<>>) /\ IsSequence(<<>>) /\ DOMAIN <<>> = {}
      /\ \A u \in Threads : numSent'[u] = numSent[u]
  BY SubmitQueryDoes, EmptyIsSequence
<1>2. UNCHANGED <<plan, channels, isOpened, isAwaitingInput, isQueryOpened, output>>
  BY DEF SubmitQuery, streamVars, readerVars
<1>6. \A f : HasEnded(f)' <=> HasEnded(f)
  <2>1. numSent'[Source] = numSent[Source]
    BY <1>1 DEF Typed
  <2> QED
    BY <1>2, <2>1, SameEnds
<1>7. Steady(t) /\ \A r \in Stages : graphQueries'[r] = graphQueries[r] \/ isQueryOpened[r]
  BY SubmitSteady
<1>9. Announces(Reader, <<>>) /\ Ends(Reader) /\ Takes(t)
  BY <1>1, <1>2, <1>6, SameAwaits DEF Announces, Ends
<1>10. \A r \in Stages : ~isQueryOpened'[r] => ~isAwaitingInput'[r] /\ graphQueries'[r] = {}
  BY <1>2, <1>7 DEF EosInv, Closed
<1>11. Reader \notin Steps
  BY Kinds
<1> QED
  BY <1>1, <1>2, <1>7, <1>9, <1>10, <1>11, EosStep

\* A stage that is alive hands answers on.
LEMMA PushesOpen ==
    ASSUME Typed, IsChain, EosInv, NEW q \in Threads, PushAnswer(q)
    PROVE  /\ IsAlive(q) /\ IsAlive(q)' /\ q[1] \in Path(q) /\ q[1] \in Streams /\ isQueryOpened[q[1]]
           /\ Current(q)' = AnswerOf(q, numSent'[q]) /\ plan' = plan
<1>1. q # Source /\ q[1] \in Stages /\ q[2] \in graphQueries[q[1]]
  BY PushAnswerDoes
<1>2. isQueryOpened[q[1]]
  BY <1>1 DEF EosInv, Closed
<1>3. UNCHANGED <<plan, graphQueries>>
  BY DEF PushAnswer, stageVars
<1> QED
  BY <1>1, <1>2, <1>3, Kinds DEF IsAlive, Path, Current

\* EOS when a query of a stage pushes an answer.
LEMMA PushAnswerEos ==
    ASSUME Typed, IsChain, EosInv, NEW q \in Threads, PushAnswer(q)
    PROVE  EosInv'
<1>1. /\ Typed' /\ Threads' = Threads /\ stack[q] = <<>> /\ q # Source /\ q[1] \in Stages
      /\ numSent'[q] = numSent[q] + 1 /\ \A u \in Threads \ {q} : numSent'[u] = numSent[u]
  BY PushAnswerDoes
<1>2. UNCHANGED <<plan, channels, isOpened, graphQueries, isAwaitingInput, isQueryOpened, output>>
  BY DEF PushAnswer, streamVars, stageVars
<1>3. IsAlive(q)' /\ q[1] \in Path(q) /\ q[1] \in Streams /\ isQueryOpened[q[1]] /\ Current(q)' = AnswerOf(q, numSent'[q])
  BY PushesOpen
<1>4. PICK calls : calls = Broadcast(q[1], AnswerOf(q, numSent'[q])) /\ Shape(q, calls) /\ Turn(q, calls)
  BY <1>3, PushAnswerDoes
<1>5. \A f : HasEnded(f)' <=> HasEnded(f)
  <2>1. numSent'[Source] = numSent[Source]
    BY <1>1 DEF Typed
  <2> QED
    BY <1>2, <2>1, SameEnds
<1>6. Steady(q) /\ numSent'[q] >= 1
  <2>1. numSent[q] \in Nat
    BY DEF Typed
  <2>2. \A u \in Threads : u # q => (IsAlive(u)' <=> IsAlive(u))
    BY <1>1, <1>2 DEF IsAlive
  <2> QED
    BY <1>1, <2>1, <2>2 DEF Steady
<1>7. PICK m : m = AnswerOf(q, numSent'[q])
  OBVIOUS
<1>8. /\ IsSequence(calls) /\ DOMAIN calls = DOMAIN Subscribers(q[1])
      /\ \A k \in DOMAIN calls : calls[k] = Push(q[1], Subscribers(q[1])[k], m) /\ Feeds(q[1], Subscribers(q[1])[k])
  BY <1>3, <1>4, <1>7, Broadcasts, ChainSubscribers DEF Typed
<1>9. \A k \in DOMAIN calls : Subscribers(q[1])[k] \in Targets
  BY <1>8, OneFeeder DEF Typed
<1>10. \A k \in DOMAIN calls : Answering(q, calls[k])'
  <2>1. \A k \in DOMAIN calls : \E f \in Path(q), x \in Targets : Feeds(f, x) /\ calls[k] = Push(f, x, m)
    BY <1>3, <1>8, <1>9
  <2>2. Current(q)' = m
    BY <1>3, <1>7
  <2> QED
    BY <1>2, <2>1, <2>2, SamePlan DEF Answering
<1>11. \A k \in DOMAIN calls : calls[k].op = "push" /\ calls[k].msg # EOS
  BY <1>7, <1>8, CallsAre, AnswersAreNotEos
<1>12. Announces(Reader, calls)
  BY <1>11, NoAnnouncement
<1>13. Ends(Reader) /\ Takes(q)
  BY <1>2, <1>5, SameAwaits DEF Ends
<1>14. \A k \in DOMAIN calls : \A n : calls[k] # Close(n)
  BY <1>11, CallsAre
<1>15. Reader \notin Steps
  BY Kinds
<1> QED
  BY <1>1, <1>2, <1>3, <1>4, <1>6, <1>8, <1>10, <1>12, <1>13, <1>14, <1>15, EosStep DEF EosInv, Closed

\* Handing EOS on is right for a thread that is not alive, and announces the end.
LEMMA EosAnnounced ==
    ASSUME plan \in Plans, IsChain, NEW n \in Streams, NEW calls, EosCalls(n, calls)
    PROVE  /\ ~HasEnded(n) /\ HasEnded(n)' => Announces(n, calls)
           /\ \A k \in DOMAIN calls : Ending(calls[k])
           /\ \A k \in DOMAIN calls : \A m : calls[k] = Close(m) => m = n
<1>1. ASSUME NEW k \in DOMAIN calls
      PROVE  calls[k] = Close(n) \/ (k \in DOMAIN Subscribers(n) /\ calls[k] = Push(n, Subscribers(n)[k], EOS) /\ Feeds(n, Subscribers(n)[k]))
  BY ChainSubscribers DEF EosCalls
<1>2. ASSUME NEW k \in DOMAIN calls PROVE Ending(calls[k])
  <2>1. CASE calls[k] = Close(n)
    BY <2>1 DEF Ending
  <2>2. CASE k \in DOMAIN Subscribers(n) /\ calls[k] = Push(n, Subscribers(n)[k], EOS) /\ Feeds(n, Subscribers(n)[k])
    <3>1. n \in Sources /\ Subscribers(n)[k] \in Targets
      BY <2>2, OneFeeder
    <3> QED
      BY <2>2, <3>1 DEF Ending
  <2> QED
    BY <1>1, <2>1, <2>2
<1>3. ASSUME NEW k \in DOMAIN calls, NEW m, calls[k] = Close(m) PROVE m = n
  <2>1. calls[k] = Close(n)
    BY <1>1, <1>3, CallsAre
  <2>2. calls[k].to = n /\ calls[k].to = m
    BY <1>3, <2>1, CallsAre
  <2> QED
    BY <2>2
<1>4. ASSUME NEW k \in DOMAIN calls, NEW f, NEW x, calls[k] = Push(f, x, EOS)
      PROVE  f = n /\ \A l \in DOMAIN calls : calls[l] = calls[k] => k = l
  <2>1. \A l \in DOMAIN calls : calls[l] = calls[k] => l \in DOMAIN Subscribers(n) /\ calls[l] = Push(n, Subscribers(n)[l], EOS)
    BY <1>1, <1>4, CallsAre
  <2>2. \A l \in DOMAIN calls : calls[l] = calls[k] => l \in DOMAIN Subscribers(n) /\ calls[k].from = n /\ calls[k].to = Subscribers(n)[l]
    <3>1. \A y : Push(n, y, EOS).from = n /\ Push(n, y, EOS).to = y
      BY CallsAre
    <3> QED
      BY <2>1, <3>1
  <2>3. calls[k].from = f
    BY <1>4, CallsAre
  <2>4. \A i, j \in DOMAIN Subscribers(n) : Subscribers(n)[i] = Subscribers(n)[j] => i = j
    BY ChainSubscribers
  <2> QED
    BY ONLY <2>2, <2>3, <2>4
<1>5. ASSUME ~HasEnded(n), HasEnded(n)' PROVE Announces(n, calls)
  BY <1>4, <1>5 DEF Announces
<1> QED
  BY <1>2, <1>3, <1>5

\* EOS when a broadcaster gets it from one of its inputs.
LEMMA BroadcastEosEos ==
    ASSUME Typed, IsChain, EosInv, NEW t \in Threads, BroadcastEos(t)
    PROVE  EosInv'
<1>1. /\ Typed' /\ Threads' = Threads /\ stack[t] # <<>> /\ 1 \in DOMAIN stack[t]
      /\ stack[t][1].op = "push" /\ stack[t][1].msg = EOS
  BY BroadcastEosDoes
<1>2. PICK n \in Broadcasters : \E calls, left :
         /\ n = stack[t][1].to /\ left = channels[n] \ {stack[t][1].from}
         /\ channels' = (IF isOpened[n] THEN [channels EXCEPT ![n] = left] ELSE channels)
         /\ calls = (IF isOpened[n] /\ left # {} THEN <<>> ELSE Broadcast(n, EOS) \o <<Close(n)>>)
         /\ EosCalls(n, calls) /\ Shape(t, calls) /\ Turn(t, calls)
  BY BroadcastEosDoes
<1>3. PICK calls, left :
         /\ n = stack[t][1].to /\ left = channels[n] \ {stack[t][1].from}
         /\ channels' = (IF isOpened[n] THEN [channels EXCEPT ![n] = left] ELSE channels)
         /\ calls = (IF isOpened[n] /\ left # {} THEN <<>> ELSE Broadcast(n, EOS) \o <<Close(n)>>)
         /\ EosCalls(n, calls) /\ Shape(t, calls) /\ Turn(t, calls)
  BY <1>2
<1>4. UNCHANGED <<plan, isOpened, graphQueries, isAwaitingInput, isQueryOpened, output, numSent>>
  BY DEF BroadcastEos, stageVars, readerVars
<1>5. PICK f \in Sources : f = stack[t][1].from /\ stack[t][1] = Push(f, n, EOS) /\ Feeds(f, n) /\ ~IsAlive(t)
  BY <1>1, <1>3, TopIs DEF EosInv
<1>6. n \in Streams /\ n \in Targets /\ n \notin Stages /\ n # Source /\ n # Reader
  BY Kinds DEF Targets
<1>7. HasEnded(f) /\ f \in channels[n]
  BY <1>1, <1>5, <1>6 DEF EosInv, Linked, Awaits
<1>8. ~HasEnded(n) /\ isOpened[n]
  BY <1>6, <1>7 DEF HasEnded, EosInv, Closed
<1>9. /\ channels'[n] = left /\ left = channels[n] \ {f}
      /\ \A m \in Streams : m # n => channels'[m] = channels[m]
      /\ calls = IF left # {} THEN <<>> ELSE Broadcast(n, EOS) \o <<Close(n)>>
  BY <1>3, <1>5, <1>6, <1>8 DEF Typed
<1>10. HasEnded(n)' <=> left = {}
  BY <1>4, <1>6, <1>9, SamePlan DEF HasEnded
<1>11. ASSUME NEW g, g # n PROVE HasEnded(g)' <=> HasEnded(g)
  <2>1. g \in Broadcasters => channels'[g] = channels[g]
    BY <1>9, <1>11, Kinds
  <2> QED
    BY <1>4, <2>1, SamePlan DEF HasEnded
<1>12. PICK e : e = IF left = {} THEN n ELSE Reader
  OBVIOUS
<1>13. Ends(e)
  BY <1>8, <1>10, <1>11, <1>12 DEF Ends
<1>14. Takes(t)
  <2>1. ASSUME NEW g \in Sources, NEW x \in Targets, Awaits(x, g), ~Awaits(x, g)' PROVE x = n /\ g = f
    <3>1. x \in Broadcasters /\ g \in channels[x] /\ g \notin channels'[x]
      BY <1>4, <2>1, SamePlan DEF Awaits
    <3> QED
      BY <1>9, <3>1, Kinds
  <2> QED
    BY <1>1, <1>5, <2>1 DEF Takes
<1>15. plan \in Plans
  BY DEF Typed
<1>16. Announces(e, calls)
  <2>1. CASE left = {}
    BY <1>3, <1>6, <1>8, <1>10, <1>12, <1>15, <2>1, EosAnnounced
  <2>2. CASE left # {}
    BY <1>9, <2>2, EmptyIsSequence DEF Announces
  <2> QED
    BY <2>1, <2>2
<1>17. Steady(t) /\ ~IsAlive(t)'
  BY <1>1, <1>4, <1>5 DEF Steady, IsAlive
<1>18. /\ \A k \in DOMAIN calls : Ending(calls[k])
       /\ \A k \in DOMAIN calls : \A m : calls[k] = Close(m) => m = n
  <2>1. EosCalls(n, calls)
    BY <1>3
  <2> QED
    BY <1>6, <1>15, <2>1, EosAnnounced
<1>19. \A k \in DOMAIN calls : \A m : calls[k] = Close(m) => HasEnded(m)'
  BY <1>9, <1>10, <1>18, EmptyIsSequence
<1>20. ASSUME e \in Steps, ~HasEnded(e), NEW g, Feeds(g, e) PROVE HasEnded(g)
  <2>1. e = n /\ left = {} /\ g \in Sources
    BY <1>12, <1>20, Kinds DEF Feeds, Sources
  <2>2. ~HasEnded(g) => g \in channels[n]
    BY <1>6, <1>20, <2>1 DEF EosInv, Linked, Awaits
  <2> QED
    BY <1>7, <1>9, <2>1, <2>2
<1> QED
  BY <1>1, <1>3, <1>4, <1>13, <1>14, <1>16, <1>17, <1>18, <1>19, <1>20, EosStep DEF EosInv, Closed, EosCalls

\* EOS when a stage gets it.
LEMMA StageEosEos ==
    ASSUME Typed, IsChain, EosInv, NEW t \in Threads, StageEos(t)
    PROVE  EosInv'
<1>1. /\ Typed' /\ Threads' = Threads /\ stack[t] # <<>> /\ 1 \in DOMAIN stack[t]
      /\ stack[t][1].op = "push" /\ stack[t][1].msg = EOS
  BY StageEosDoes
<1>2. PICK s \in Stages : \E calls :
         /\ s = stack[t][1].to /\ channels' = [channels EXCEPT ![s] = {}]
         /\ isAwaitingInput' = [isAwaitingInput EXCEPT ![s] = FALSE]
         /\ isQueryOpened' = [isQueryOpened EXCEPT ![s] = @ /\ graphQueries[s] # {}]
         /\ EosCalls(s, calls) /\ Shape(t, calls) /\ Turn(t, calls)
         /\ graphQueries[s] # {} => \A k \in DOMAIN calls : calls[k] = Close(s)
  BY StageEosDoes
<1>3. PICK calls :
         /\ s = stack[t][1].to /\ channels' = [channels EXCEPT ![s] = {}]
         /\ isAwaitingInput' = [isAwaitingInput EXCEPT ![s] = FALSE]
         /\ isQueryOpened' = [isQueryOpened EXCEPT ![s] = @ /\ graphQueries[s] # {}]
         /\ EosCalls(s, calls) /\ Shape(t, calls) /\ Turn(t, calls)
         /\ graphQueries[s] # {} => \A k \in DOMAIN calls : calls[k] = Close(s)
  BY <1>2
<1>4. UNCHANGED <<plan, isOpened, graphQueries, output, numSent>>
  BY DEF StageEos, readerVars
<1>5. PICK f \in Sources : f = stack[t][1].from /\ stack[t][1] = Push(f, s, EOS) /\ Feeds(f, s) /\ ~IsAlive(t)
  BY <1>1, <1>3, TopIs DEF EosInv
<1>6. s \in Streams /\ s \in Targets /\ s \notin Broadcasters /\ s # Source /\ s # Reader /\ s \notin Steps /\ Reader \notin Steps
  BY Kinds DEF Targets
<1>7. isAwaitingInput[s]
  BY <1>1, <1>5, <1>6 DEF EosInv, Linked, Awaits
<1>8. isQueryOpened[s] /\ ~HasEnded(s)
  BY <1>6, <1>7 DEF HasEnded, EosInv, Closed
<1>9. /\ ~isAwaitingInput'[s] /\ (isQueryOpened'[s] <=> graphQueries[s] # {})
      /\ \A r \in Stages : r # s => isAwaitingInput'[r] = isAwaitingInput[r] /\ isQueryOpened'[r] = isQueryOpened[r]
      /\ \A m \in Broadcasters : channels'[m] = channels[m]
  <2>1. channels \in [Streams -> SUBSET Sources] /\ isAwaitingInput \in [Stages -> BOOLEAN] /\ isQueryOpened \in [Stages -> BOOLEAN]
    BY DEF Typed
  <2>2. \A m \in Broadcasters : m \in Streams /\ m # s
    BY Kinds
  <2> QED
    BY ONLY <1>3, <1>8, <2>1, <2>2
<1>10. HasEnded(s)' <=> graphQueries[s] = {}
  BY <1>4, <1>6, <1>9, SamePlan DEF HasEnded
<1>11. \A g : g # s => (HasEnded(g)' <=> HasEnded(g))
  BY <1>4, <1>9, SamePlan DEF HasEnded
<1>12. PICK e : e = IF graphQueries[s] = {} THEN s ELSE Reader
  OBVIOUS
<1>13. Ends(e)
  BY <1>8, <1>10, <1>11, <1>12 DEF Ends
<1>14. plan \in Plans
  BY DEF Typed
<1>15. Takes(t)
  <2>1. ASSUME NEW g \in Sources, NEW x \in Targets, Feeds(g, x), Awaits(x, g), ~Awaits(x, g)' PROVE x = s /\ g = f
    <3>1. x = s
      BY <1>4, <1>9, <2>1, SamePlan DEF Awaits
    <3> QED
      BY <1>5, <1>6, <1>14, <2>1, <3>1, OneFeeder
  <2> QED
    BY <1>1, <1>5, <2>1 DEF Takes
<1>16. Announces(e, calls)
  <2>1. CASE graphQueries[s] = {}
    BY <1>3, <1>6, <1>8, <1>10, <1>12, <1>14, <2>1, EosAnnounced
  <2>2. CASE graphQueries[s] # {}
    BY <1>3, <2>2, CallsAre DEF Announces
  <2> QED
    BY <2>1, <2>2
<1>17. Steady(t) /\ ~IsAlive(t)'
  BY <1>1, <1>4, <1>5 DEF Steady, IsAlive
<1>18. /\ \A k \in DOMAIN calls : Ending(calls[k])
       /\ \A k \in DOMAIN calls : \A m \in Broadcasters : calls[k] # Close(m)
  BY <1>3, <1>6, <1>14, EosAnnounced
<1>19. \A r \in Stages : ~isQueryOpened'[r] => ~isAwaitingInput'[r] /\ graphQueries'[r] = {}
  BY <1>4, <1>9 DEF EosInv, Closed
<1>20. e \notin Steps
  BY <1>6, <1>12
<1> QED
  BY <1>1, <1>3, <1>4, <1>13, <1>15, <1>16, <1>17, <1>18, <1>19, <1>20, EosStep DEF EosInv, EosCalls

\* EOS when a query of a stage ends.
LEMMA EndQueryEos ==
    ASSUME Typed, IsChain, EosInv, NEW q \in Threads, EndQuery(q)
    PROVE  EosInv'
<1>1. /\ Typed' /\ Threads' = Threads /\ stack[q] = <<>> /\ q # Source /\ q[1] \in Stages /\ q[2] \in graphQueries[q[1]]
      /\ graphQueries' = [graphQueries EXCEPT ![q[1]] = @ \ {q[2]}]
  BY EndQueryDoes
<1>2. PICK calls, isLast :
         /\ isLast = (graphQueries[q[1]] = {q[2]} /\ ~isAwaitingInput[q[1]])
         /\ isQueryOpened' = [isQueryOpened EXCEPT ![q[1]] = @ /\ ~isLast]
         /\ calls = (IF isLast THEN Broadcast(q[1], EOS) ELSE <<>>)
         /\ EosCalls(q[1], calls) /\ Shape(q, calls) /\ Turn(q, calls)
  BY EndQueryDoes
<1>3. PICK s \in Stages : s = q[1]
  BY <1>1
<1>4. UNCHANGED <<plan, channels, isOpened, isAwaitingInput, numSent, output>>
  BY DEF EndQuery, streamVars, readerVars
<1>5. s \in Streams /\ s \notin Broadcasters /\ s # Source /\ s \notin Steps /\ Reader \notin Steps
  BY Kinds
<1>6. isQueryOpened[s] /\ ~HasEnded(s)
  BY <1>1, <1>3, <1>5 DEF HasEnded, EosInv, Closed
<1>7. /\ isQueryOpened'[s] <=> ~isLast
      /\ \A r \in Stages : r # s => isQueryOpened'[r] = isQueryOpened[r]
      /\ graphQueries'[s] = graphQueries[s] \ {q[2]}
      /\ \A r \in Stages : r # s => graphQueries'[r] = graphQueries[r]
  <2>1. isQueryOpened \in [Stages -> BOOLEAN] /\ graphQueries = [r \in Stages |-> graphQueries[r]]
    BY DEF Typed
  <2> QED
    BY ONLY <1>1, <1>2, <1>3, <1>6, <2>1
<1>8. HasEnded(s)' <=> isLast
  BY <1>4, <1>5, <1>7, SamePlan DEF HasEnded
<1>9. \A g : g # s => (HasEnded(g)' <=> HasEnded(g))
  BY <1>4, <1>7, SamePlan DEF HasEnded
<1>10. PICK e : e = IF isLast THEN s ELSE Reader
  OBVIOUS
<1>11. Ends(e) /\ Takes(q)
  <2>1. Ends(e)
    BY <1>6, <1>8, <1>9, <1>10 DEF Ends
  <2> QED
    BY <1>4, <2>1, SameAwaits
<1>12. plan \in Plans /\ EosCalls(s, calls)
  BY <1>2, <1>3 DEF Typed
<1>13. Announces(e, calls)
  <2>1. CASE isLast
    BY <1>5, <1>6, <1>8, <1>10, <1>12, <2>1, EosAnnounced
  <2>2. CASE ~isLast
    BY <1>2, <2>2, EmptyIsSequence DEF Announces
  <2> QED
    BY <2>1, <2>2
<1>14. /\ \A k \in DOMAIN calls : Ending(calls[k])
       /\ \A k \in DOMAIN calls : \A m \in Broadcasters : calls[k] # Close(m)
  BY <1>5, <1>12, EosAnnounced
<1>15. Steady(q) /\ ~IsAlive(q)'
  <2>1. ASSUME NEW u \in Threads, u # Source, u # q PROVE IsAlive(u)' <=> IsAlive(u)
    <3>1. u = <<u[1], u[2]>> /\ u[1] \in Stages /\ q = <<q[1], q[2]>>
      BY <1>1, <2>1 DEF Typed
    <3>2. u[1] = s => u[2] # q[2]
      BY <1>3, <2>1, <3>1
    <3>3. u[2] \in graphQueries'[u[1]] <=> u[2] \in graphQueries[u[1]]
      BY <1>7, <3>1, <3>2
    <3> QED
      BY <2>1, <3>3 DEF IsAlive
  <2>2. IsAlive(Source)' <=> IsAlive(Source)
    BY <1>4 DEF IsAlive
  <2>3. ~IsAlive(q)'
    BY <1>1, <1>3, <1>7 DEF IsAlive
  <2> QED
    BY <1>1, <1>4, <2>1, <2>2, <2>3 DEF Steady
<1>16. \A r \in Stages : ~isQueryOpened'[r] => ~isAwaitingInput'[r] /\ graphQueries'[r] = {}
  <2>1. \A r \in Stages : ~isQueryOpened[r] => ~isAwaitingInput[r] /\ graphQueries[r] = {}
    BY DEF EosInv, Closed
  <2>2. isLast => ~isAwaitingInput[s] /\ graphQueries[s] = {q[2]}
    BY <1>2, <1>3
  <2>3. isAwaitingInput' = isAwaitingInput
    BY <1>4
  <2> QED
    BY ONLY <1>7, <2>1, <2>2, <2>3
<1>17. e \notin Steps
  BY <1>5, <1>10
<1> QED
  BY <1>1, <1>2, <1>4, <1>11, <1>13, <1>14, <1>15, <1>16, <1>17, EosStep DEF EosInv, Closed, EosCalls

\* EOS when the reader gets a message.
LEMMA ReceiveEos ==
    ASSUME Typed, IsChain, EosInv, NEW t \in Threads, Receive(t)
    PROVE  EosInv'
<1>1. /\ Typed' /\ Threads' = Threads /\ stack[t] # <<>> /\ 1 \in DOMAIN stack[t]
      /\ stack[t][1].op = "push" /\ stack[t][1].to = Reader
      /\ DOMAIN output' = DOMAIN output \cup {Len(output) + 1}
      /\ output'[Len(output) + 1] = stack[t][1].msg /\ \A i \in DOMAIN output : output'[i] = output[i]
      /\ Turn(t, <<>>) /\ IsSequence(<<>>) /\ DOMAIN <<>> = {}
  BY ReceiveDoes, EmptyIsSequence
<1>2. UNCHANGED <<plan, channels, isOpened, graphQueries, isAwaitingInput, isQueryOpened, numSent>>
  BY DEF Receive, streamVars, stageVars
<1>3. \A f : HasEnded(f)' <=> HasEnded(f)
  BY <1>2, SameEnds
<1>4. Steady(t)
  BY <1>2 DEF Steady, IsAlive
<1>5. Announces(Reader, <<>>) /\ Ends(Reader)
  BY <1>1, <1>3 DEF Announces, Ends
<1>6. Reader \notin Steps /\ Reader \notin Broadcasters
  BY Kinds
<1>7. Takes(t)
  <2>1. ASSUME NEW g \in Sources, NEW x \in Targets, Feeds(g, x), Awaits(x, g), ~Awaits(x, g)'
        PROVE  stack[t][1] = Push(g, x, EOS)
    <3>1. x = Reader /\ EOS \notin Range(output) /\ EOS \in Range(output')
      BY <1>2, <2>1, SamePlan DEF Awaits
    <3>2. stack[t][1].msg = EOS
      BY <1>1, <3>1 DEF Range
    <3>3. stack[t][1] = Push(stack[t][1].from, Reader, EOS) /\ Feeds(stack[t][1].from, Reader)
      BY <1>1, <3>2, TopIs DEF EosInv
    <3>4. stack[t][1].from = g
      BY <1>6, <2>1, <3>1, <3>3, OneFeeder DEF Typed
    <3> QED
      BY <3>1, <3>3, <3>4
  <2> QED
    BY <1>1, <2>1 DEF Takes
<1> QED
  BY <1>1, <1>2, <1>4, <1>5, <1>6, <1>7, EosStep DEF EosInv, Closed

\* A chain has no combiner.
LEMMA CombinesNot ==
    ASSUME Typed, IsChain, EosInv, NEW t \in Threads
    PROVE  ~Combines(t)
BY CombinesDoes, TopIs DEF EosInv

-----------------------------------------------------------------------------
(* A chain: answers *)

\* The next answer of a thread is not known yet.
LEMMA NewAnswer ==
    ASSUME Typed, IsChain, AnswerInv, NEW t \in Threads, NEW m, m = AnswerOf(t, numSent[t] + 1)
    PROVE  (\A s : <<s, m>> \notin Threads) /\ m \notin Range(output) /\ m # EOS
<1>1. ASSUME NEW u \in Threads, NEW k \in 1 .. numSent[u] PROVE m # AnswerOf(u, k)
  <2>1. numSent[t] \in Nat /\ numSent[u] \in Nat
    BY DEF Typed
  <2>2. numSent[t] + 1 \in Nat /\ k \in Nat /\ k <= numSent[u]
    BY <2>1
  <2>3. m = AnswerOf(u, k) => t = u /\ numSent[t] + 1 = k
    BY <2>2, AnswersDiffer DEF AnswerInv
  <2>4. ~(t = u /\ numSent[t] + 1 = k)
    BY ONLY <2>1, <2>2
  <2> QED
    BY <2>3, <2>4
<1>2. ASSUME NEW s PROVE <<s, m>> \notin Threads
  <2>1. <<s, m>> # Source /\ <<s, m>>[2] = m
    BY DEF Source
  <2> QED
    BY <1>1, <2>1 DEF AnswerInv, Born
<1>3. m # EOS
  BY AnswersAreNotEos
<1>4. m \notin Results
  BY <1>1 DEF AnswerInv, Received
<1>5. m \notin Range(output)
  BY <1>3, <1>4 DEF AnswerInv, Received, Range
<1> QED
  BY <1>2, <1>3, <1>5

\* The calls that hand an unknown answer on.
LEMMA BroadcastFresh ==
    ASSUME plan \in Plans, IsChain, NEW n \in Streams, NEW m, NEW calls, calls = Broadcast(n, m),
           \A s \in Stages : <<s, m>> \notin Threads, m \notin Range(output)
    PROVE  \A k \in DOMAIN calls :
               /\ calls[k].to \in Stages => <<calls[k].to, m>> \notin Threads
               /\ calls[k].to \notin Stages => Len(calls) = 1 /\ \A s \in Stages : <<s, m>> \notin Threads
               /\ m \notin Range(output)
               /\ \A l \in DOMAIN calls : calls[k].to = calls[l].to => k = l
<1>1. /\ DOMAIN calls = DOMAIN Subscribers(n) /\ Len(calls) = Len(Subscribers(n))
      /\ \A k \in DOMAIN calls : calls[k] = Push(n, Subscribers(n)[k], m)
  BY Broadcasts
<1>2. \A k \in DOMAIN calls : calls[k].to = Subscribers(n)[k]
  BY <1>1, CallsAre
<1>3. /\ \A k, l \in DOMAIN Subscribers(n) : Subscribers(n)[k] = Subscribers(n)[l] => k = l
      /\ Len(Subscribers(n)) = 1 \/ \A k \in DOMAIN Subscribers(n) : Subscribers(n)[k] \in Stages
  BY ChainSubscribers
<1> QED
  BY <1>1, <1>2, <1>3

\* What a thread does with its only call, or without one.
LEMMA OnlyCall ==
    ASSUME Typed, NEW t \in Threads, NEW calls, Shape(t, calls), stack[t] = <<>> \/ Len(stack[t]) = 1
    PROVE  stack'[t] = calls
<1>1. CASE stack[t] = <<>>
  BY <1>1 DEF Shape
<1>2. CASE stack[t] # <<>>
  <2>1. PICK S : stack[t] \in Seq(S)
    BY DEF Typed, IsSequence
  <2>2. PICK C : calls \in Seq(C)
    BY DEF Shape, IsSequence
  <2>3. Len(stack[t]) = 1
    BY <1>1, <1>2
  <2>4. Tail(stack[t]) \in Seq(S) /\ Len(Tail(stack[t])) = 0
    BY <1>2, <2>1, <2>3, HeadTailProperties
  <2>5. Tail(stack[t]) = <<>>
    BY <2>4, EmptySeq
  <2> QED
    BY <1>2, <2>2, <2>5, ConcatEmptySeq DEF Shape
<1> QED
  BY <1>1, <1>2

\* The answers are kept by a step that delivers nothing, if those that are added
\* are on their way, and no last answer is dropped.
LEMMA ReceivedStep ==
    ASSUME Typed, Typed', IsChain, plan' = plan, AnswerInv, output' = output,
           NEW t \in Threads, NEW calls, Shape(t, calls), Steady(t), numSent'[t] >= numSent[t],
           IsLast(t) /\ IsPushing(t) => IsPushing(t)' /\ Current(t)' = Current(t),
           IsLast(t) /\ IsPushing(t)' => Current(t)' \in Results',
           Results \subseteq Results',
           \A a \in Results' : a \in Results \/ (IsLast(t) /\ IsPushing(t)' /\ a = Current(t)' /\ numSent'[t] >= 1)
    PROVE  Received'
<1>1. Threads \subseteq Threads' /\ \A u \in Threads' \ Threads : ~IsPushing(u)'
  BY DEF Shape, IsPushing
<1>2. \A u \in Threads : numSent[u] \in Nat /\ numSent'[u] \in Nat /\ numSent'[u] >= numSent[u]
  <2>1. \A u \in Threads : numSent[u] \in Nat /\ numSent'[u] \in Nat
    BY <1>1 DEF Typed
  <2>2. \A u \in Threads : u # t => numSent'[u] = numSent[u]
    BY DEF Steady
  <2> QED
    BY <2>1, <2>2
<1>3. \A u : IsLast(u)' <=> IsLast(u)
  BY SamePlan
<1>4. ASSUME NEW u \in Threads \ {t} PROVE (IsPushing(u)' <=> IsPushing(u)) /\ Current(u)' = Current(u)
  BY DEF IsPushing, Steady, Current, Shape
<1>5. \A i \in DOMAIN output : output[i] = EOS \/ output[i] \in Results'
  BY DEF AnswerInv, Received
<1>6. \A i, j \in DOMAIN output : output[i] = output[j] => i = j
  BY DEF AnswerInv, Received
<1>7. ASSUME NEW a \in Results'
      PROVE  /\ \/ \E i \in DOMAIN output : output[i] = a
                \/ \E u \in Threads' : IsLast(u) /\ IsPushing(u)' /\ Current(u)' = a
             /\ \E u \in Threads' : \E k \in 1 .. numSent'[u] : IsLast(u) /\ a = AnswerOf(u, k)
  <2>1. CASE a \in Results
    <3>1. \/ \E i \in DOMAIN output : output[i] = a
          \/ \E u \in Threads : IsLast(u) /\ IsPushing(u) /\ Current(u) = a
      BY <2>1 DEF AnswerInv, Received
    <3>2. PICK u \in Threads : \E k \in 1 .. numSent[u] : IsLast(u) /\ a = AnswerOf(u, k)
      BY <2>1 DEF AnswerInv, Received
    <3>3. \A k \in 1 .. numSent[u] : k \in 1 .. numSent'[u]
      BY ONLY <1>2
    <3> QED
      BY <1>1, <1>4, <3>1, <3>2, <3>3
  <2>2. CASE a \notin Results
    <3>1. IsLast(t) /\ IsPushing(t)' /\ a = Current(t)' /\ numSent'[t] >= 1
      BY <2>2
    <3>2. numSent'[t] \in 1 .. numSent'[t]
      BY <1>2, <3>1
    <3>3. Current(t)' = AnswerOf(t, numSent'[t])
      BY DEF Current
    <3> QED
      BY <1>1, <3>1, <3>2, <3>3
  <2> QED
    BY <2>1, <2>2
<1>8. \A u \in Threads' : IsLast(u) /\ IsPushing(u)' => Current(u)' \in Results'
  BY <1>1, <1>4 DEF AnswerInv, Received
<1> QED
  BY ONLY <1>3, <1>5, <1>6, <1>7, <1>8, output' = output DEF Received

\* If it starts no thread either, nobody knows more answers.
LEMMA AnswerStep ==
    ASSUME Typed, Typed', IsChain, plan' = plan, AnswerInv, Threads' = Threads, output' = output,
           NEW t \in Threads, NEW calls, Shape(t, calls), Steady(t), numSent'[t] >= numSent[t],
           IsAlive(t)' => FreshAt(t)',
           IsLast(t) /\ IsPushing(t) => IsPushing(t)' /\ Current(t)' = Current(t),
           IsLast(t) /\ IsPushing(t)' => Current(t)' \in Results',
           Results \subseteq Results',
           \A a \in Results' : a \in Results \/ (IsLast(t) /\ IsPushing(t)' /\ a = Current(t)' /\ numSent'[t] >= 1)
    PROVE  AnswerInv'
<1>1. \A u \in Threads : numSent[u] \in Nat /\ numSent'[u] \in Nat /\ numSent'[u] >= numSent[u]
  <2>1. \A u \in Threads : numSent[u] \in Nat /\ numSent'[u] \in Nat
    BY DEF Typed
  <2>2. \A u \in Threads : u # t => numSent'[u] = numSent[u]
    BY DEF Steady
  <2> QED
    BY <2>1, <2>2
<1>2. Born'
  BY <1>1, BornStep DEF AnswerInv
<1>3. Fresh'
  BY FreshStep DEF AnswerInv, Shape
<1>4. Received'
  BY ReceivedStep
<1> QED
  BY <1>2, <1>3, <1>4 DEF AnswerInv

\* A thread that only hands EOS on has no part in this.
LEMMA DeadStep ==
    ASSUME Typed, Typed', IsChain, plan' = plan, AnswerInv, Threads' = Threads, output' = output, produced' = produced,
           NEW t \in Threads, NEW calls, Shape(t, calls), Steady(t), numSent'[t] >= numSent[t], ~IsAlive(t)', ~IsPushing(t)
    PROVE  AnswerInv'
<1>1. ~IsPushing(t)' /\ Results' = Results
  BY DEF IsPushing, Results
<1> QED
  BY <1>1, AnswerStep

\* The answers of results with one more.
LEMMA ResultAdded ==
    ASSUME NEW P, NEW g, NEW a
    PROVE  {p[2] : p \in P \cup {<<g, a>>}} = {p[2] : p \in P} \cup {a}
<1>1. <<g, a>>[2] = a
  OBVIOUS
<1> QED
  BY <1>1

\* Answers when the query of Edb pushes one.
LEMMA PushInputAnswers ==
    ASSUME Typed, IsChain, EosInv, AnswerInv, PushInput
    PROVE  AnswerInv'
<1>1. PICK m : m = AnswerOf(Source, numSent[Source] + 1)
  OBVIOUS
<1>2. PICK calls : calls = <<Push(Source, Edb, m)>> /\ Shape(Source, calls)
  BY <1>1, PushInputDoes
<1>3. /\ Typed' /\ Threads' = Threads /\ stack[Source] = <<>> /\ numSent'[Source] = numSent[Source] + 1
      /\ \A u \in Threads \ {Source} : numSent'[u] = numSent[u]
  BY PushInputDoes
<1>4. /\ UNCHANGED <<plan, graphQueries, output>>
      /\ produced' = IF Groups = {} THEN produced \cup {<<0, m>>} ELSE produced
  BY <1>1 DEF PushInput, stageVars, AnswerOf
<1>5. Source \in Threads /\ numSent[Source] \in Nat
  BY DEF Typed
<1>6. (\A s : <<s, m>> \notin Threads) /\ m \notin Range(output)
  BY <1>1, <1>5, NewAnswer
<1>7. Steady(Source) /\ numSent'[Source] >= numSent[Source] /\ numSent'[Source] >= 1
  <2>1. \A u \in Threads : u # Source => (IsAlive(u)' <=> IsAlive(u))
    BY <1>4 DEF IsAlive
  <2> QED
    BY <1>3, <1>5, <2>1 DEF Steady
<1>8. stack'[Source] = calls /\ Current(Source)' = m
  BY <1>1, <1>2, <1>3, <1>5, OnlyCall DEF Current
<1>9. DOMAIN calls = {1} /\ Len(calls) = 1 /\ calls[1].to = Edb /\ calls # <<>> /\ Edb \notin Stages
  BY <1>2, CallsAre, Kinds
<1>10. FreshAt(Source)'
  BY <1>3, <1>4, <1>6, <1>8, <1>9, SamePlan DEF FreshAt
<1>11. IsAlive(Source)' /\ IsPushing(Source)' /\ ~IsPushing(Source)
  <2>1. numSent'[Source] <= NumInputs[plan]
    <3>1. numSent[Source] < NumInputs[plan] /\ NumInputs[plan] \in Nat
      BY Plan DEF PushInput, Typed
    <3> QED
      BY ONLY <1>3, <1>5, <3>1
  <2> QED
    BY <1>3, <1>4, <1>8, <1>9, <2>1 DEF IsPushing, IsAlive
<1>12. IsLast(Source) <=> Groups = {}
  BY ChainStreams DEF IsLast, Typed
<1>13. Results' = IF Groups = {} THEN Results \cup {m} ELSE Results
  BY <1>4, ResultAdded DEF Results
<1> QED
  BY <1>2, <1>3, <1>4, <1>5, <1>7, <1>8, <1>10, <1>11, <1>12, <1>13, AnswerStep

\* Answers when the query of Edb ends.
LEMMA EndInputAnswers ==
    ASSUME Typed, IsChain, EosInv, AnswerInv, EndInput
    PROVE  AnswerInv'
<1>1. /\ Typed' /\ Threads' = Threads /\ stack[Source] = <<>> /\ numSent[Source] <= NumInputs[plan]
      /\ numSent'[Source] = NumInputs[plan] + 1 /\ \A u \in Threads \ {Source} : numSent'[u] = numSent[u]
  BY EndInputDoes
<1>2. PICK calls : Shape(Source, calls)
  BY EndInputDoes
<1>3. UNCHANGED <<plan, graphQueries, output, produced>>
  BY DEF EndInput, stageVars, readerVars
<1>4. Source \in Threads /\ numSent[Source] \in Nat /\ NumInputs[plan] \in Nat
  BY Plan DEF Typed
<1>5. Steady(Source) /\ numSent'[Source] >= numSent[Source] /\ ~IsAlive(Source)'
  <2>1. \A u \in Threads : u # Source => (IsAlive(u)' <=> IsAlive(u))
    BY <1>3 DEF IsAlive
  <2>2. ~(numSent'[Source] <= NumInputs[plan]) /\ numSent'[Source] >= numSent[Source]
    BY ONLY <1>1, <1>4
  <2> QED
    BY <1>1, <1>3, <2>1, <2>2 DEF Steady, IsAlive
<1> QED
  BY <1>1, <1>2, <1>3, <1>4, <1>5, DeadStep DEF IsPushing

\* Answers when one is broadcast.
LEMMA BroadcastAnswerAnswers ==
    ASSUME Typed, IsChain, EosInv, AnswerInv, NEW t \in Threads, BroadcastAnswer(t)
    PROVE  AnswerInv'
<1>1. PICK n \in Broadcasters : \E calls : n = stack[t][1].to /\ calls = (IF isOpened[n] THEN Broadcast(n, stack[t][1].msg) ELSE <<>>)
                                           /\ Shape(t, calls)
  BY BroadcastAnswerDoes
<1>2. Typed' /\ Threads' = Threads /\ stack[t] # <<>> /\ 1 \in DOMAIN stack[t] /\ stack[t][1].op = "push" /\ stack[t][1].msg # EOS
  BY BroadcastAnswerDoes
<1>3. UNCHANGED <<plan, graphQueries, output, numSent, produced>>
  BY DEF BroadcastAnswer, stageVars, readerVars
<1>4. PICK m : m = Current(t)
  OBVIOUS
<1>5. IsAlive(t) /\ stack[t][1].msg = m /\ n \in Path(t) /\ isOpened[n]
  BY <1>1, <1>2, <1>4, AnswerPath
<1>6. PICK calls : calls = Broadcast(n, m) /\ Shape(t, calls)
  BY <1>1, <1>5
<1>7. n \in Streams /\ n \notin Stages
  BY Kinds
<1>8. Len(stack[t]) = 1 /\ (\A s \in Stages : <<s, m>> \notin Threads) /\ m \notin Range(output)
  BY <1>1, <1>2, <1>4, <1>5, <1>7 DEF AnswerInv, Fresh
<1>9. stack'[t] = calls /\ calls # <<>> /\ Current(t)' = m
  BY <1>3, <1>4, <1>5, <1>6, <1>7, <1>8, OnlyCall, PathCalls DEF Current
<1>10. FreshAt(t)'
  <2>1. \A k \in DOMAIN calls :
            /\ calls[k].to \in Stages => <<calls[k].to, m>> \notin Threads
            /\ calls[k].to \notin Stages => Len(calls) = 1 /\ \A s \in Stages : <<s, m>> \notin Threads
            /\ m \notin Range(output)
            /\ \A l \in DOMAIN calls : calls[k].to = calls[l].to => k = l
    BY <1>6, <1>7, <1>8, BroadcastFresh DEF Typed
  <2>2. Stages' = Stages /\ output' = output
    BY <1>3, SamePlan
  <2> QED
    BY ONLY <1>2, <1>9, <2>1, <2>2 DEF FreshAt
<1>11. Steady(t) /\ IsAlive(t)' /\ numSent'[t] >= numSent[t]
  BY <1>2, <1>3, <1>5 DEF Steady, IsAlive, Typed
<1>12. IsPushing(t) /\ IsPushing(t)' /\ Results' = Results
  BY <1>2, <1>3, <1>5, <1>9, <1>11 DEF IsPushing, Results
<1>13. IsLast(t) => m \in Results
  BY <1>4, <1>12 DEF AnswerInv, Received
<1> QED
  BY <1>2, <1>3, <1>4, <1>6, <1>9, <1>10, <1>11, <1>12, <1>13, AnswerStep

\* The steps that handle EOS.
LEMMA EosAnswers ==
    ASSUME Typed, IsChain, EosInv, AnswerInv, NEW t \in Threads, BroadcastEos(t) \/ CloseStream(t) \/ StageEos(t)
    PROVE  AnswerInv'
<1>1. /\ Typed' /\ Threads' = Threads /\ stack[t] # <<>> /\ 1 \in DOMAIN stack[t]
      /\ stack[t][1].op = "close" \/ (stack[t][1].op = "push" /\ stack[t][1].msg = EOS)
  BY BroadcastEosDoes, CloseStreamDoes, StageEosDoes
<1>2. PICK calls : Shape(t, calls)
  <2>1. CASE BroadcastEos(t)
    BY <2>1, BroadcastEosDoes
  <2>2. CASE CloseStream(t)
    BY <2>2, CloseStreamDoes
  <2>3. CASE StageEos(t)
    BY <2>3, StageEosDoes
  <2> QED
    BY <2>1, <2>2, <2>3
<1>3. UNCHANGED <<plan, graphQueries, output, produced, numSent>>
  BY DEF BroadcastEos, CloseStream, StageEos, stageVars, readerVars
<1>4. ~IsAlive(t)
  BY <1>1, TopIs DEF EosInv
<1>5. Steady(t) /\ ~IsAlive(t)' /\ numSent'[t] >= numSent[t]
  BY <1>1, <1>3, <1>4 DEF Steady, IsAlive, Typed
<1> QED
  BY <1>1, <1>2, <1>3, <1>4, <1>5, DeadStep DEF IsPushing

\* Answers when a query of a stage pushes one.
LEMMA PushAnswerAnswers ==
    ASSUME Typed, IsChain, EosInv, AnswerInv, NEW q \in Threads, PushAnswer(q)
    PROVE  AnswerInv'
<1>1. PICK m : m = AnswerOf(q, numSent[q] + 1)
  OBVIOUS
<1>2. /\ Typed' /\ Threads' = Threads /\ stack[q] = <<>> /\ q # Source /\ q[1] \in Stages /\ q[2] \in graphQueries[q[1]]
      /\ numSent'[q] = numSent[q] + 1 /\ \A u \in Threads \ {q} : numSent'[u] = numSent[u]
  BY PushAnswerDoes
<1>3. /\ IsAlive(q)' /\ q[1] \in Path(q) /\ q[1] \in Streams /\ isQueryOpened[q[1]] /\ plan' = plan
      /\ Current(q)' = m
  BY <1>1, <1>2, PushesOpen
<1>4. PICK calls : calls = Broadcast(q[1], m) /\ Shape(q, calls)
  BY <1>1, <1>2, <1>3, PushAnswerDoes
<1>5. (\A s : <<s, m>> \notin Threads) /\ m \notin Range(output)
  BY <1>1, NewAnswer
<1>6. /\ UNCHANGED <<graphQueries, output>>
      /\ produced' = IF q[1][3] = plan[q[1][2]] THEN produced \cup {<<q[1][2], m>>} ELSE produced
  BY <1>1, <1>2 DEF PushAnswer, stageVars, AnswerOf
<1>7. numSent[q] \in Nat
  BY DEF Typed
<1>8. Steady(q) /\ numSent'[q] >= numSent[q] /\ numSent'[q] >= 1
  <2>1. \A u \in Threads : IsAlive(u)' <=> IsAlive(u)
    BY <1>2, <1>3, <1>6 DEF IsAlive, Typed
  <2> QED
    BY <1>2, <1>7, <2>1 DEF Steady
<1>9. stack'[q] = calls
  BY <1>2, <1>4, OnlyCall
<1>10. calls # <<>>
  <2>1. DOMAIN calls = DOMAIN Subscribers(q[1])
    BY <1>3, <1>4, Broadcasts DEF Typed
  <2>2. Subscribers(q[1]) # <<>> /\ IsSequence(Subscribers(q[1]))
    BY <1>3, ChainSubscribers DEF Typed
  <2>3. \A p : IsSequence(p) => (p = <<>> <=> DOMAIN p = {})
    BY DEF IsSequence
  <2> QED
    BY <2>1, <2>2, <2>3
<1>11. FreshAt(q)'
  <2>1. \A k \in DOMAIN calls :
            /\ calls[k].to \in Stages => <<calls[k].to, m>> \notin Threads
            /\ calls[k].to \notin Stages => Len(calls) = 1 /\ \A s \in Stages : <<s, m>> \notin Threads
            /\ m \notin Range(output)
            /\ \A l \in DOMAIN calls : calls[k].to = calls[l].to => k = l
    BY <1>3, <1>4, <1>5, BroadcastFresh DEF Typed
  <2>2. Stages' = Stages /\ output' = output
    BY <1>3, <1>6, SamePlan
  <2> QED
    BY ONLY <1>2, <1>3, <1>9, <2>1, <2>2 DEF FreshAt
<1>12. IsPushing(q)' /\ ~IsPushing(q)
  BY <1>2, <1>3, <1>9, <1>10 DEF IsPushing
<1>13. Results' = IF IsLast(q) THEN Results \cup {m} ELSE Results
  <2>1. q[1][2] = 1 /\ Depth \in Nat /\ Literal(q[1]) \in 1 .. Depth
    BY <1>2, ChainStreams DEF Typed
  <2>2. plan[1] = Depth
    BY <2>1, ChainStreams DEF Typed
  <2>3. IsLast(q) <=> q[1][3] = plan[q[1][2]]
    BY <1>2, <2>1, <2>2 DEF IsLast, Literal
  <2> QED
    BY <1>6, <2>3, ResultAdded DEF Results
<1> QED
  BY <1>2, <1>3, <1>4, <1>6, <1>8, <1>11, <1>12, <1>13, AnswerStep

\* Answers when a query of a stage ends.
LEMMA EndQueryAnswers ==
    ASSUME Typed, IsChain, EosInv, AnswerInv, NEW q \in Threads, EndQuery(q)
    PROVE  AnswerInv'
<1>1. /\ Typed' /\ Threads' = Threads /\ stack[q] = <<>> /\ q # Source /\ q[1] \in Stages
      /\ graphQueries' = [graphQueries EXCEPT ![q[1]] = @ \ {q[2]}]
  BY EndQueryDoes
<1>2. PICK calls : Shape(q, calls)
  BY EndQueryDoes
<1>3. UNCHANGED <<plan, numSent, output, produced>>
  BY DEF EndQuery, readerVars
<1>4. /\ graphQueries'[q[1]] = graphQueries[q[1]] \ {q[2]}
      /\ \A r \in Stages : r # q[1] => graphQueries'[r] = graphQueries[r]
  <2>1. graphQueries = [r \in Stages |-> graphQueries[r]]
    BY DEF Typed
  <2> QED
    BY ONLY <1>1, <2>1
<1>5. ASSUME NEW u \in Threads, u # q PROVE IsAlive(u)' <=> IsAlive(u)
  <2>1. CASE u = Source
    BY <1>3, <2>1 DEF IsAlive
  <2>2. CASE u # Source
    <3>1. u = <<u[1], u[2]>> /\ u[1] \in Stages /\ q = <<q[1], q[2]>>
      BY <1>1, <2>2 DEF Typed
    <3>2. u[1] = q[1] => u[2] # q[2]
      BY <1>5, <3>1
    <3>3. u[2] \in graphQueries'[u[1]] <=> u[2] \in graphQueries[u[1]]
      BY <1>4, <3>1, <3>2
    <3> QED
      BY <2>2, <3>3 DEF IsAlive
  <2> QED
    BY <2>1, <2>2
<1>6. Steady(q) /\ ~IsAlive(q)' /\ numSent'[q] >= numSent[q]
  <2>1. ~IsAlive(q)'
    BY <1>1, <1>4 DEF IsAlive
  <2>2. numSent'[q] >= numSent[q]
    BY <1>3 DEF Typed
  <2>3. Steady(q)
    BY <1>1, <1>3, <1>5 DEF Steady
  <2> QED
    BY <2>1, <2>2, <2>3
<1> QED
  BY <1>1, <1>2, <1>3, <1>6, DeadStep DEF IsPushing

\* Answers when a stage starts a query for one.
LEMMA SubmitQueryAnswers ==
    ASSUME Typed, IsChain, EosInv, AnswerInv, NEW t \in Threads, SubmitQuery(t)
    PROVE  AnswerInv'
<1>1. PICK m : m = Current(t)
  OBVIOUS
<1>2. PICK s \in Stages : s = stack[t][1].to
  BY SubmitQueryDoes
<1>3. /\ IsAlive(t) /\ numSent[t] >= 1 /\ stack[t][1].msg = m
      /\ Literal(s) = Level(t) + 1 /\ <<s, m>> \notin Threads
  BY <1>1, <1>2, SubmitsFresh DEF AnswerInv
<1>4. /\ Typed' /\ stack[t] # <<>> /\ 1 \in DOMAIN stack[t] /\ \A u \in Threads : numSent'[u] = numSent[u]
      /\ Shape(t, <<>>) /\ Turn(t, <<>>)
  BY SubmitQueryDoes
<1>5. UNCHANGED <<plan, output, produced>>
  BY DEF SubmitQuery, readerVars
<1>6. Threads \subseteq Threads' /\ Threads' \subseteq Threads \cup {<<s, m>>}
  BY <1>2, <1>3, SubmitQueryDoes
<1>7. Born'
  <2>1. ASSUME NEW x \in m PROVE ChoiceLiteral(x) \in 0 .. Literal(s) - 1
    <3>1. CASE t = Source
      <4>1. x = Choice(Edb, numSent[t]) /\ Level(t) = 0
        BY <1>1, <2>1, <3>1 DEF Current, AnswerOf, Level
      <4>2. ChoiceLiteral(x) = 0
        BY <4>1 DEF Choice, ChoiceLiteral
      <4> QED
        BY <1>3, <4>1, <4>2
    <3>2. CASE t # Source
      <4>1. x \in t[2] \/ x = Choice(t[1], numSent[t])
        BY <1>1, <2>1, <3>2 DEF Current, AnswerOf
      <4>2. t[1] \in Stages /\ Literal(t[1]) \in Nat /\ Level(t) = Literal(t[1]) /\ t[1] # Edb
        <5>1. t[1] \in Stages /\ Level(t) = Literal(t[1])
          BY <3>2 DEF Typed, Level
        <5>2. Literal(t[1]) \in 1 .. Depth /\ Depth \in Nat
          BY <5>1, ChainStreams DEF Typed
        <5> QED
          BY <5>1, <5>2, Kinds
      <4>3. \A z \in t[2] : ChoiceLiteral(z) \in 0 .. Literal(t[1]) - 1
        BY <3>2 DEF AnswerInv, Born
      <4>4. ChoiceLiteral(Choice(t[1], numSent[t])) = Literal(t[1])
        BY <4>2 DEF Choice, ChoiceLiteral
      <4>5. CASE x \in t[2]
        BY ONLY <1>3, <4>2, <4>3, <4>5
      <4>6. CASE x = Choice(t[1], numSent[t])
        BY ONLY <1>3, <4>2, <4>4, <4>6
      <4> QED
        BY <4>1, <4>5, <4>6
    <3> QED
      BY <3>1, <3>2
  <2>2. numSent[t] \in 1 .. numSent[t] /\ m = AnswerOf(t, numSent[t])
    BY <1>1, <1>3 DEF Current, Typed
  <2>3. \A u \in Threads : numSent'[u] \in Nat /\ numSent'[u] >= numSent[u]
    BY <1>4 DEF Typed
  <2>4. \A q \in Threads' \ Threads : q = <<s, m>> /\ q[1] = s /\ q[2] = m
    BY <1>6
  <2> QED
    BY <1>6, <2>1, <2>2, <2>3, <2>4, BornStep DEF AnswerInv
<1>8. Current(t)' = m /\ plan' = plan
  BY <1>1, <1>4, <1>5 DEF Current
<1>9. FreshAt(t)'
  <2>1. FreshAt(t)
    BY <1>3 DEF AnswerInv, Fresh, FreshAt
  <2>2. \A k \in DOMAIN stack'[t] : \E l \in DOMAIN stack[t] : stack'[t][k] = stack[t][l] /\ l = k + 1 - Len(<<>>) /\ l > 1
    BY <1>4, EmptyIsSequence DEF Turn, Shape
  <2>3. DOMAIN stack[t] = 1 .. Len(stack[t]) /\ \A k \in DOMAIN stack'[t] : k \in Int
    BY <1>4, LenProperties DEF Typed, IsSequence, Shape
  <2>4. ASSUME NEW l \in DOMAIN stack[t], l > 1
        PROVE  stack[t][l].to \in Stages /\ stack[t][l].to # s /\ <<stack[t][l].to, m>> \notin Threads
    <3>1. l \in 1 .. Len(stack[t]) /\ l > 1
      BY <2>3, <2>4
    <3>2. Len(stack[t]) # 1
      BY ONLY <3>1
    <3>3. stack[t][l].to \in Stages
      BY <2>1, <3>2 DEF FreshAt
    <3>4. l # 1
      BY ONLY <3>1
    <3>5. stack[t][l].to # s
      BY <1>2, <1>4, <2>1, <3>4 DEF FreshAt
    <3> QED
      BY <1>1, <2>1, <3>3, <3>5 DEF FreshAt
  <2>5. \A l \in DOMAIN stack[t] : l > 1 => <<stack[t][l].to, m>> \notin Threads'
    <3>1. \A x : x # s => <<x, m>> # <<s, m>>
      OBVIOUS
    <3> QED
      BY <1>6, <2>4, <3>1
  <2>6. Stages' = Stages /\ output' = output
    BY <1>5, SamePlan
  <2>7. DOMAIN stack[t] # {} => m \notin Range(output)
    BY <1>1, <2>1 DEF FreshAt
  <2>8. ASSUME NEW k \in DOMAIN stack'[t], NEW l \in DOMAIN stack'[t], stack'[t][k].to = stack'[t][l].to
        PROVE  k = l
    <3>1. PICK i \in DOMAIN stack[t] : stack'[t][k] = stack[t][i] /\ i = k + 1 - Len(<<>>)
      BY <2>2
    <3>2. PICK j \in DOMAIN stack[t] : stack'[t][l] = stack[t][j] /\ j = l + 1 - Len(<<>>)
      BY <2>2
    <3>3. i = j
      BY <2>1, <2>8, <3>1, <3>2 DEF FreshAt
    <3>4. Len(<<>>) = 0
      OBVIOUS
    <3> QED
      BY ONLY <2>3, <2>8, <3>1, <3>2, <3>3, <3>4
  <2>9. ASSUME NEW k \in DOMAIN stack'[t]
        PROVE  /\ stack'[t][k].to \in Stages /\ <<stack'[t][k].to, m>> \notin Threads' /\ m \notin Range(output)
    BY <2>2, <2>4, <2>5, <2>7
  <2> QED
    BY ONLY <1>8, <2>6, <2>8, <2>9 DEF FreshAt
<1>10. Steady(t)
  BY SubmitSteady DEF AnswerInv
<1>11. ASSUME NEW u \in Threads \ {t} PROVE Current(u) # m
  <2>1. numSent[u] \in Nat /\ numSent[t] \in Nat
    BY DEF Typed
  <2> QED
    BY <1>1, <2>1, AnswersDiffer DEF AnswerInv, Current
<1>12. Fresh'
  <2>1. ASSUME NEW u \in Threads \ {t}
        PROVE  /\ \A r \in Stages : <<r, Current(u)>> \in Threads' => <<r, Current(u)>> \in Threads
               /\ Current(u) \in Range(output') => Current(u) \in Range(output)
    <3>1. \A x, r : x # m => <<r, x>> # <<s, m>>
      OBVIOUS
    <3> QED
      BY <1>5, <1>6, <1>11, <3>1
  <2> QED
    BY <1>4, <1>6, <1>8, <1>9, <1>10, <2>1, FreshStep DEF AnswerInv, Shape
<1>13. ~IsLast(t)
  <2>1. Literal(s) \in 1 .. Depth /\ Depth \in Nat
    BY ChainStreams DEF Typed
  <2>2. Level(t) # Depth
    BY ONLY <1>3, <2>1
  <2>3. t = Source => Level(t) = 0
    BY DEF Level
  <2>4. t # Source => Level(t) = Literal(t[1])
    BY DEF Level
  <2> QED
    BY <2>2, <2>3, <2>4 DEF IsLast
<1>14. Received'
  <2>1. Results' = Results /\ numSent'[t] >= numSent[t]
    BY <1>4, <1>5 DEF Results, Typed
  <2> QED
    BY <1>4, <1>5, <1>10, <1>13, <2>1, ReceivedStep
<1> QED
  BY <1>7, <1>12, <1>14 DEF AnswerInv

\* Answers when the reader gets a message.
LEMMA ReceiveAnswers ==
    ASSUME Typed, IsChain, EosInv, AnswerInv, NEW t \in Threads, Receive(t)
    PROVE  AnswerInv'
<1>1. PICK m : m = stack[t][1].msg
  OBVIOUS
<1>2. PICK n : n = Len(output) + 1
  OBVIOUS
<1>3. /\ Typed' /\ Threads' = Threads /\ stack[t] # <<>> /\ 1 \in DOMAIN stack[t]
      /\ stack[t][1].op = "push" /\ stack[t][1].to = Reader
      /\ DOMAIN output' = DOMAIN output \cup {n} /\ n \notin DOMAIN output
      /\ output'[n] = m /\ \A i \in DOMAIN output : output'[i] = output[i]
      /\ Shape(t, <<>>)
  BY <1>1, <1>2, ReceiveDoes
<1>4. UNCHANGED <<plan, graphQueries, numSent, produced>>
  BY DEF Receive, stageVars
<1>5. Steady(t)
  BY <1>4 DEF Steady, IsAlive
<1>6. Reader \notin Stages /\ Reader \notin Broadcasters
  BY Kinds
<1>7. ASSUME m # EOS
      PROVE  /\ IsAlive(t) /\ IsLast(t) /\ Current(t) = m /\ m \in Results /\ m \notin Range(output) /\ Len(stack[t]) = 1
             /\ \A u \in Threads \ {t} : Current(u) # m
  <2>1. IsAlive(t) /\ IsLast(t) /\ Current(t) = m
    BY <1>1, <1>3, <1>7, AnswerPath
  <2>2. m \notin Range(output) /\ Len(stack[t]) = 1
    BY <1>3, <1>6, <2>1 DEF AnswerInv, Fresh
  <2>3. m \in Results
    BY <1>3, <2>1 DEF AnswerInv, Received, IsPushing
  <2>4. ASSUME NEW u \in Threads \ {t} PROVE Current(u) # m
    <3>1. numSent[u] \in Nat /\ numSent[t] \in Nat
      BY DEF Typed
    <3> QED
      BY <2>1, <3>1, AnswersDiffer DEF AnswerInv, Current
  <2> QED
    BY <2>1, <2>2, <2>3, <2>4
<1>8. ASSUME m = EOS
      PROVE  ~IsAlive(t) /\ m \notin Range(output) /\ \A u \in Threads : Current(u) # m
  <2>1. /\ ~IsAlive(t) /\ stack[t][1] = Push(stack[t][1].from, Reader, EOS)
        /\ stack[t][1].from \in Sources /\ Reader \in Targets /\ Feeds(stack[t][1].from, Reader)
    BY <1>1, <1>3, <1>8, TopIs DEF EosInv
  <2>2. EOS \notin Range(output)
    BY <1>3, <2>1 DEF EosInv, Linked, Awaits
  <2> QED
    BY <1>8, <2>1, <2>2, AnswersAreNotEos DEF Current
<1>9. m \notin Range(output) /\ (m = EOS \/ m \in Results) /\ \A u \in Threads \ {t} : Current(u) # m
  BY <1>7, <1>8
<1>10. \A x : x \in Range(output') <=> x \in Range(output) \/ x = m
  BY <1>3 DEF Range
<1>11. IsAlive(t) => stack'[t] = <<>> /\ Current(t) = m
  BY <1>3, <1>7, <1>8, OnlyCall
<1>12. \A u \in Threads : (IsAlive(u)' <=> IsAlive(u)) /\ Current(u)' = Current(u)
  BY <1>4 DEF IsAlive, Current
<1>13. Born'
  <2>1. \A u \in Threads : numSent'[u] \in Nat /\ numSent'[u] >= numSent[u]
    BY <1>4 DEF Typed
  <2> QED
    BY <1>3, <2>1, BornStep DEF AnswerInv
<1>14. Fresh'
  <2>1. IsAlive(t)' => FreshAt(t)'
    BY <1>3, <1>11, <1>12 DEF FreshAt
  <2> QED
    BY <1>3, <1>4, <1>5, <1>9, <1>10, <2>1, FreshStep DEF AnswerInv, Shape
<1>15. Received'
  <2>1. Results' = Results /\ \A u : IsLast(u)' <=> IsLast(u)
    BY <1>4, SamePlan DEF Results
  <2>2. /\ ~IsPushing(t)'
        /\ \A u \in Threads \ {t} : IsPushing(u)' <=> IsPushing(u)
    BY <1>3, <1>11, <1>12 DEF IsPushing, Shape
  <2>3. \A i \in DOMAIN output' : output'[i] = EOS \/ output'[i] \in Results
    BY <1>3, <1>9 DEF AnswerInv, Received
  <2>4. \A i \in DOMAIN output : output[i] # m
    BY <1>9 DEF Range
  <2>5. \A i, j \in DOMAIN output' : output'[i] = output'[j] => i = j
    BY <1>3, <2>4 DEF AnswerInv, Received
  <2>6. ASSUME NEW a \in Results
        PROVE  /\ \/ \E i \in DOMAIN output' : output'[i] = a
                  \/ \E u \in Threads : IsLast(u) /\ IsPushing(u)' /\ Current(u)' = a
               /\ \E u \in Threads : \E k \in 1 .. numSent[u] : IsLast(u) /\ a = AnswerOf(u, k)
    <3>1. /\ \/ \E i \in DOMAIN output : output[i] = a
             \/ \E u \in Threads : IsLast(u) /\ IsPushing(u) /\ Current(u) = a
          /\ \E u \in Threads : \E k \in 1 .. numSent[u] : IsLast(u) /\ a = AnswerOf(u, k)
      BY DEF AnswerInv, Received
    <3>2. IsPushing(t) => Current(t) = m
      BY <1>11 DEF IsPushing
    <3>3. (\E i \in DOMAIN output : output[i] = a) => \E j \in DOMAIN output' : output'[j] = a
      BY <1>3
    <3> QED
      BY <1>3, <1>12, <2>2, <3>1, <3>2
  <2>7. \A u \in Threads : IsLast(u) /\ IsPushing(u)' => Current(u)' \in Results
    BY <1>12, <2>2 DEF AnswerInv, Received
  <2>8. numSent' = numSent /\ Threads' = Threads
    BY <1>3, <1>4
  <2> QED
    BY ONLY <2>1, <2>3, <2>5, <2>6, <2>7, <2>8 DEF Received
<1> QED
  BY <1>13, <1>14, <1>15 DEF AnswerInv

-----------------------------------------------------------------------------
(* Every step *)

\* The plan of a query never changes.
LEMMA PlanStays ==
    ASSUME Next
    PROVE  plan' = plan
BY DEF Next, PushInput, EndInput, BroadcastAnswer, BroadcastEos, CloseStream, SubmitQuery, StageEos,
       PushAnswer, EndQuery, Combine, PushCombination, EndCombine, Receive

\* EOS of a chain.
LEMMA EosNext ==
    ASSUME Typed, IsChain, EosInv, Fresh, Next
    PROVE  EosInv'
BY PushInputEos, EndInputEos, BroadcastAnswerEos, BroadcastEosEos, CloseStreamEos, SubmitQueryEos, StageEosEos,
   PushAnswerEos, EndQueryEos, CombinesNot, ReceiveEos DEF Next, Combines

\* Answers of a chain.
LEMMA AnswersNext ==
    ASSUME Typed, IsChain, EosInv, AnswerInv, Next
    PROVE  AnswerInv'
BY PushInputAnswers, EndInputAnswers, BroadcastAnswerAnswers, EosAnswers, SubmitQueryAnswers, PushAnswerAnswers,
   EndQueryAnswers, CombinesNot, ReceiveAnswers DEF Next, Combines

\* A step that changes nothing.
LEMMA Stutters ==
    ASSUME PipelineInv, UNCHANGED vars
    PROVE  PipelineInv'
<1>1. /\ UNCHANGED <<plan, channels, isOpened, graphQueries, isAwaitingInput, isQueryOpened, stack, numSent>>
      /\ UNCHANGED <<produced, output>> /\ Threads' = Threads
  BY DEF vars, streamVars, stageVars, threadVars, readerVars, Threads
<1>2. /\ Groups' = Groups /\ Stages' = Stages /\ Broadcasters' = Broadcasters /\ Streams' = Streams
      /\ Depth' = Depth /\ (IsChain' <=> IsChain) /\ Sources' = Sources /\ Targets' = Targets
      /\ \A f, x : Feeds(f, x)' <=> Feeds(f, x)
      /\ \A t : (IsLast(t)' <=> IsLast(t)) /\ Path(t)' = Path(t)
  BY <1>1, SamePlan
<1>3. Typed' <=> Typed
  BY <1>1, <1>2 DEF Typed
<1>4. /\ \A n : HasEnded(n)' <=> HasEnded(n)
      /\ \A x, f : Awaits(x, f)' <=> Awaits(x, f)
      /\ \A t : (IsAlive(t)' <=> IsAlive(t)) /\ Current(t)' = Current(t) /\ (IsPushing(t)' <=> IsPushing(t))
      /\ \A t, c : Answering(t, c)' <=> Answering(t, c)
      /\ \A c : Ending(c)' <=> Ending(c)
      /\ Results' = Results
  <2>1. \A n : HasEnded(n)' <=> HasEnded(n)
    BY <1>1, <1>2 DEF HasEnded
  <2>2. \A x, f : Awaits(x, f)' <=> Awaits(x, f)
    BY <1>1, <1>2 DEF Awaits
  <2>3. \A t : (IsAlive(t)' <=> IsAlive(t)) /\ Current(t)' = Current(t)
    BY <1>1 DEF IsAlive, Current
  <2>4. \A t : IsPushing(t)' <=> IsPushing(t)
    BY <1>1, <2>3 DEF IsPushing
  <2>5. \A t, c : Answering(t, c)' <=> Answering(t, c)
    BY <1>2, <2>3 DEF Answering
  <2>6. \A c : Ending(c)' <=> Ending(c)
    BY <1>2 DEF Ending
  <2>7. Results' = Results
    BY <1>1 DEF Results
  <2> QED
    BY <2>1, <2>2, <2>3, <2>4, <2>5, <2>6, <2>7
<1>5. EosInv => EosInv'
  <2>1. Called => Called'
    BY <1>1, <1>4 DEF Called
  <2>2. Linked => Linked'
    BY <1>1, <1>2, <1>4 DEF Linked
  <2>3. Once => Once'
    BY <1>1, <1>2 DEF Once
  <2>4. Closed => Closed'
    BY <1>1, <1>2, <1>4 DEF Closed
  <2>5. Upstream => Upstream'
    BY <1>2, <1>4 DEF Upstream
  <2> QED
    BY <2>1, <2>2, <2>3, <2>4, <2>5 DEF EosInv
<1>6. AnswerInv => AnswerInv'
  <2>1. Born => Born'
    BY <1>1 DEF Born
  <2>2. Fresh => Fresh'
    BY <1>1, <1>2, <1>4 DEF Fresh
  <2>3. Received => Received'
    BY <1>1, <1>2, <1>4 DEF Received
  <2> QED
    BY <2>1, <2>2, <2>3 DEF AnswerInv
<1>7. NoEos => NoEos'
  BY <1>1 DEF NoEos
<1> QED
  BY <1>2, <1>3, <1>5, <1>6, <1>7 DEF PipelineInv

\* The invariant is preserved by every step.
LEMMA PipelineInvNext ==
    ASSUME PipelineInv, [Next]_vars
    PROVE  PipelineInv'
<1>1. CASE Next
  <2>1. IsChain' <=> IsChain
    BY <1>1, PlanStays, SamePlan
  <2>2. Typed'
    BY <1>1, TypedNext DEF PipelineInv
  <2>3. IsChain => EosInv' /\ AnswerInv'
    BY <1>1, EosNext, AnswersNext DEF PipelineInv, AnswerInv
  <2>4. ~IsChain => NoEos'
    BY <1>1, NoEosNext DEF PipelineInv
  <2> QED
    BY <2>1, <2>2, <2>3, <2>4 DEF PipelineInv
<1> QED
  BY <1>1, Stutters

-----------------------------------------------------------------------------
(* What the invariant says when the reader gets EOS *)

\* When EOS has reached the reader of a chain, all queries have ended.
LEMMA AllEnded ==
    ASSUME Typed, IsChain, EosInv, EOS \in Range(output)
    PROVE  HasEnded(Source) /\ \A s \in Stages : HasEnded(s)
<1>0. plan \in Plans
  BY DEF Typed
<1>1. Depth \in Nat /\ Reader \in Targets /\ Edb \in Broadcasters /\ (Depth > 0 => Idb \in Broadcasters)
  BY <1>0, ChainStreams, Kinds DEF Targets
<1>2. Broadcasters \subseteq Streams /\ Source \in Sources /\ Streams \subseteq Sources
  BY Kinds DEF Sources
<1>3. ASSUME NEW f \in Sources, Feeds(f, Reader) PROVE HasEnded(f)
  BY <1>1, <1>3 DEF EosInv, Linked, Awaits
<1>4. CASE Depth = 0
  <2>1. HasEnded(Edb)
    BY <1>0, <1>1, <1>2, <1>3, <1>4, ChainFeeds
  <2>2. HasEnded(Source)
    BY <1>0, <1>1, <1>2, <2>1, ChainFeeds, EndsThrough DEF EosInv
  <2>3. Stages = {}
    <3>1. \A s \in Stages : Literal(s) \in 1 .. Depth
      BY <1>0, ChainStreams
    <3> QED
      BY <1>4, <3>1
  <2> QED
    BY <2>2, <2>3
<1>5. CASE Depth > 0
  <2>1. HasEnded(Idb)
    BY <1>0, <1>1, <1>2, <1>3, <1>5, ChainFeeds
  <2>2. Depth \in 1 .. Depth
    BY <1>1, <1>5
  <2>3. Step(1, Depth) \in Steps /\ Feeds(Step(1, Depth), Idb)
    BY <1>0, <1>5, <2>2, ChainStreams, ChainFeeds
  <2>4. HasEnded(Step(1, Depth))
    BY <1>1, <1>2, <1>5, <2>1, <2>3, Kinds, EndsThrough DEF EosInv
  <2>5. HasEnded(Source) /\ \A s \in Stages : Literal(s) <= Depth => HasEnded(s)
    BY <2>2, <2>4 DEF EosInv, Upstream
  <2>6. \A s \in Stages : Literal(s) \in 1 .. Depth
    BY <1>0, ChainStreams
  <2>7. \A i \in 1 .. Depth : i <= Depth
    BY <1>1
  <2> QED
    BY <2>5, <2>6, <2>7
<1> QED
  BY <1>1, <1>4, <1>5

\* Then no thread has an answer to push or on its way.
LEMMA NoneAlive ==
    ASSUME Typed, IsChain, EosInv, EOS \in Range(output)
    PROVE  (\A s \in Stages : graphQueries[s] = {}) /\ \A t \in Threads : ~IsAlive(t)
<1>1. HasEnded(Source) /\ \A s \in Stages : HasEnded(s)
  BY AllEnded
<1>2. \A s \in Stages : graphQueries[s] = {}
  BY <1>1, Kinds DEF EosInv, Closed, HasEnded
<1>3. ~IsAlive(Source)
  <2>1. Source \notin Stages /\ Source \notin Broadcasters
    BY Kinds
  <2>2. numSent[Source] > NumInputs[plan]
    BY <1>1, <2>1 DEF HasEnded
  <2>3. numSent[Source] \in Nat /\ NumInputs[plan] \in Nat
    BY Plan DEF Typed
  <2>4. ~(numSent[Source] <= NumInputs[plan])
    BY <2>2, <2>3
  <2> QED
    BY <2>4 DEF IsAlive
<1>4. ASSUME NEW t \in Threads, t # Source PROVE ~IsAlive(t)
  BY <1>2, <1>4 DEF IsAlive, Typed
<1> QED
  BY <1>2, <1>3, <1>4

\* The invariant implies that the reader has all when it has EOS.
LEMMA InvComplete ==
    ASSUME PipelineInv
    PROVE  CompleteAtEos
<1>1. SUFFICES ASSUME EOS \in Range(output)
               PROVE  /\ \A s \in Stages : graphQueries[s] = {}
                      /\ \A c \in Calls : c.op = "push" => c.msg = EOS
                      /\ IsInjective(output)
                      /\ Results \cup {EOS} = Range(output)
  BY DEF CompleteAtEos, Results
<1>2. Typed /\ IsChain /\ EosInv /\ AnswerInv
  BY <1>1 DEF PipelineInv, NoEos, Range
<1>3. (\A s \in Stages : graphQueries[s] = {}) /\ \A t \in Threads : ~IsAlive(t)
  BY <1>1, <1>2, NoneAlive
<1>4. ASSUME NEW c \in Calls, c.op = "push" PROVE c.msg = EOS
  <2>1. PICK t \in Threads : \E k \in DOMAIN stack[t] : c = stack[t][k]
    BY DEF Calls, Range
  <2>2. Ending(c)
    BY <1>2, <1>3, <2>1 DEF EosInv, Called
  <2> QED
    BY <1>4, <2>2 DEF Ending, Push, Close
<1>5. IsInjective(output)
  BY <1>2 DEF AnswerInv, Received, IsInjective
<1>6. Results \cup {EOS} = Range(output)
  <2>1. \A i \in DOMAIN output : output[i] = EOS \/ output[i] \in Results
    BY <1>2 DEF AnswerInv, Received
  <2>2. \A a \in Results : \E i \in DOMAIN output : output[i] = a
    BY <1>2, <1>3 DEF AnswerInv, Received, IsPushing
  <2>3. \A a : a \in Range(output) <=> \E i \in DOMAIN output : output[i] = a
    BY DEF Range
  <2> QED
    BY <1>1, <2>1, <2>2, <2>3
<1> QED
  BY <1>3, <1>4, <1>5, <1>6

-----------------------------------------------------------------------------
(* The initial states *)

\* Initially nothing is called or received, and all is awaited.
LEMMA Initially ==
    ASSUME Init
    PROVE  /\ Typed /\ Threads = {Source} /\ stack[Source] = <<>> /\ output = <<>> /\ produced = {}
           /\ \A t \in Threads : DOMAIN stack[t] = {} /\ stack[t] = <<>>
           /\ \A n \in Streams : isOpened[n] /\ channels[n] = Inputs(n)
           /\ \A s \in Stages : isAwaitingInput[s] /\ isQueryOpened[s]
<1>1. Threads = {Source} /\ stack[Source] = <<>> /\ numSent \in [Threads -> Nat] /\ stack = [t \in Threads |-> stack[t]]
  BY DEF Init, Threads
<1>2. \A t \in Threads : IsSequence(stack[t]) /\ DOMAIN stack[t] = {} /\ stack[t] = <<>>
  BY <1>1, EmptyIsSequence
<1>3. plan \in Plans /\ output = <<>> /\ produced = {}
  BY DEF Init
<1>4. IsSequence(output)
  BY <1>3, EmptyIsSequence
<1>5. channels \in [Streams -> SUBSET Sources] /\ \A n \in Streams : channels[n] = Inputs(n)
  <2>1. \A n : Inputs(n) \subseteq Sources
    BY DEF Inputs, Sources
  <2> QED
    BY <2>1 DEF Init
<1>6. /\ isOpened \in [Streams -> BOOLEAN] /\ isAwaitingInput \in [Stages -> BOOLEAN] /\ isQueryOpened \in [Stages -> BOOLEAN]
      /\ (\A n \in Streams : isOpened[n]) /\ \A s \in Stages : isAwaitingInput[s] /\ isQueryOpened[s]
  BY DEF Init
<1>7. graphQueries = [s \in Stages |-> graphQueries[s]] /\ \A s \in Stages : graphQueries[s] = {}
  BY DEF Init
<1> QED
  BY <1>1, <1>2, <1>3, <1>4, <1>5, <1>6, <1>7 DEF Typed

\* Each stream awaits all that feeds it.
LEMMA InputsFeed ==
    ASSUME plan \in Plans, IsChain, NEW f, NEW x \in Broadcasters, Feeds(f, x)
    PROVE  f \in Inputs(x)
<1>1. CASE x = Edb
  <2>1. Edb # Reader /\ Edb # Idb /\ Edb \notin Stages /\ \A s \in Stages : Edb # StepOf(s)
    BY ChainStreams, Kinds, Names
  <2>2. f = Source
    BY <1>1, <2>1, Links
  <2> QED
    BY <1>1, <2>2 DEF Inputs
<1>2. CASE x # Edb
  <2>1. f # Source
    BY <1>2, ChainFeeds
  <2> QED
    BY <1>2, <2>1 DEF Feeds, Inputs
<1> QED
  BY <1>1, <1>2

\* The invariant holds initially.
LEMMA PipelineInvInit ==
    ASSUME Init
    PROVE  PipelineInv
<1>1. /\ Typed /\ Threads = {Source} /\ output = <<>> /\ produced = {}
      /\ \A t \in Threads : DOMAIN stack[t] = {} /\ stack[t] = <<>>
      /\ \A n \in Streams : isOpened[n] /\ channels[n] = Inputs(n)
      /\ \A s \in Stages : isAwaitingInput[s] /\ isQueryOpened[s]
  BY Initially
<1>2. DOMAIN output = {} /\ Range(output) = {} /\ Results = {} /\ plan \in Plans
  BY <1>1, EmptyIsSequence DEF Range, Results, Typed
<1>3. Broadcasters \subseteq Streams
  BY Kinds
<1>4. ASSUME IsChain PROVE EosInv
  <2>1. Called /\ Once
    BY <1>1 DEF Called, Once
  <2>2. Linked
    <3>1. ASSUME NEW f \in Sources, NEW x \in Targets, Feeds(f, x) PROVE Awaits(x, f)
      BY <1>1, <1>2, <1>3, <1>4, <3>1, InputsFeed DEF Awaits
    <3> QED
      BY <1>1, <3>1 DEF Linked
  <2>3. Closed
    BY <1>1, <1>3 DEF Closed
  <2>4. ASSUME NEW i \in 1 .. Depth PROVE ~HasEnded(Step(1, i))
    <3>1. PICK s \in Stages : s = Stage(1, i, 0) /\ Literal(s) = i
      BY <1>2, <1>4, ChainStreams
    <3>2. Step(1, i) = StepOf(s) /\ Step(1, i) \in Steps /\ Feeds(s, Step(1, i))
      BY <1>2, <1>4, <3>1, ChainStreams, ChainFeeds DEF StepOf
    <3>3. s \in channels[Step(1, i)]
      BY <1>1, <1>2, <1>3, <1>4, <3>2, InputsFeed, Kinds
    <3> QED
      BY <3>2, <3>3, Kinds DEF HasEnded
  <2>5. Upstream
    BY <2>4 DEF Upstream
  <2> QED
    BY <2>1, <2>2, <2>3, <2>5 DEF EosInv
<1>5. Born /\ Fresh
  BY <1>1 DEF Born, Fresh
<1>6. Received
  BY <1>1, <1>2 DEF Received, IsPushing
<1>7. NoEos
  BY <1>1, <1>2 DEF NoEos
<1> QED
  BY <1>1, <1>4, <1>5, <1>6, <1>7 DEF PipelineInv, AnswerInv

-----------------------------------------------------------------------------
(* Messages, and the lock of the combiner *)

\* Messages are kept if the new calls, the new threads and the output have them.
LEMMA MessagesStep ==
    ASSUME Messages, NEW t, NEW calls, Turn(t, calls),
           \A k \in DOMAIN calls : calls[k].op = "push" => IsMessage(calls[k].msg),
           \A q \in Threads' \ Threads : EosToken \notin q[2],
           \A i \in DOMAIN output' : IsMessage(output'[i])
    PROVE  Messages'
<1> DEFINE Good(c) == c.op = "push" => IsMessage(c.msg)
<1>1. \A u \in Threads : \A k \in DOMAIN stack[u] : Good(stack[u][k])
  BY DEF Messages
<1>2. \A k \in DOMAIN calls : Good(calls[k])
  OBVIOUS
<1> HIDE DEF Good
<1>3. \A u \in Threads' : \A k \in DOMAIN stack'[u] : Good(stack'[u][k])
  BY <1>1, <1>2 DEF Turn
<1>4. \A q \in Threads' \ {Source} : EosToken \notin q[2]
  BY DEF Messages
<1> QED
  BY <1>3, <1>4 DEF Messages, Good

\* A broadcast hands on the message it is given.
LEMMA MessagesBroadcast ==
    ASSUME plan \in Plans, NEW n \in Streams, NEW m, IsMessage(m), NEW calls,
           calls = Broadcast(n, m) \/ calls = <<>> \/ EosCalls(n, calls)
    PROVE  \A k \in DOMAIN calls : calls[k].op = "push" => IsMessage(calls[k].msg)
<1>1. CASE calls = Broadcast(n, m)
  BY <1>1, Broadcasts, CallsAre
<1>2. CASE calls = <<>>
  BY <1>2, EmptyIsSequence
<1>3. CASE EosCalls(n, calls)
  BY <1>3, CallsAre DEF EosCalls, IsMessage
<1> QED
  BY <1>1, <1>2, <1>3

\* No step makes EOS part of another message.
LEMMA MessagesNext ==
    ASSUME Typed, Messages, Next
    PROVE  Messages'
<1>0. /\ plan \in Plans /\ IsMessage(EOS) /\ (\A i \in DOMAIN output : IsMessage(output[i]))
      /\ \A n, k : EosToken # Choice(n, k)
  BY DEF Typed, Messages, IsMessage, Choice, EosToken
<1>1. CASE PushInput
  <2>1. PICK m : m = AnswerOf(Source, numSent[Source] + 1)
    OBVIOUS
  <2>2. PICK calls : calls = <<Push(Source, Edb, m)>> /\ Turn(Source, calls)
    BY <1>1, <2>1, PushInputDoes
  <2>3. IsMessage(m)
    BY <1>0, <2>1 DEF AnswerOf, IsMessage
  <2>4. \A k \in DOMAIN calls : calls[k].op = "push" => IsMessage(calls[k].msg)
    BY <2>2, <2>3, CallsAre
  <2>5. output' = output /\ Threads' = Threads
    BY <1>1, PushInputDoes DEF PushInput
  <2> QED
    BY <1>0, <2>2, <2>4, <2>5, MessagesStep
<1>2. CASE EndInput
  <2>1. PICK calls : calls = <<Push(Source, Edb, EOS)>> /\ Turn(Source, calls)
    BY <1>2, EndInputDoes
  <2>2. output' = output /\ Threads' = Threads
    BY <1>2, EndInputDoes DEF EndInput, readerVars
  <2>3. \A k \in DOMAIN calls : calls[k].op = "push" => IsMessage(calls[k].msg)
    BY <1>0, <2>1, CallsAre
  <2> QED
    BY <1>0, <2>1, <2>2, <2>3, MessagesStep
<1>3. ASSUME NEW t \in Threads, BroadcastAnswer(t) PROVE Messages'
  <2>1. PICK n \in Broadcasters : \E calls :
           calls = (IF isOpened[n] THEN Broadcast(n, stack[t][1].msg) ELSE <<>>) /\ Turn(t, calls)
    BY <1>3, BroadcastAnswerDoes
  <2>2. PICK calls : calls = (IF isOpened[n] THEN Broadcast(n, stack[t][1].msg) ELSE <<>>) /\ Turn(t, calls)
    BY <2>1
  <2>3. output' = output /\ n \in Streams /\ Threads' = Threads
    BY <1>3, Kinds, BroadcastAnswerDoes DEF BroadcastAnswer, readerVars
  <2>4. IsMessage(stack[t][1].msg)
    BY <1>3, BroadcastAnswerDoes DEF Messages
  <2>5. calls = Broadcast(n, stack[t][1].msg) \/ calls = <<>>
    BY <2>2
  <2>6. \A k \in DOMAIN calls : calls[k].op = "push" => IsMessage(calls[k].msg)
    BY <1>0, <2>3, <2>4, <2>5, MessagesBroadcast
  <2> QED
    BY <1>0, <2>2, <2>3, <2>6, MessagesStep
<1>4. ASSUME NEW t \in Threads, BroadcastEos(t) \/ StageEos(t) \/ EndQuery(t) PROVE Messages'
  <2>1. PICK n \in Streams : \E calls : EosCalls(n, calls) /\ Turn(t, calls)
    BY <1>4, BroadcastEosDoes, StageEosDoes, EndQueryDoes, Kinds
  <2>2. PICK calls : EosCalls(n, calls) /\ Turn(t, calls)
    BY <2>1
  <2>3. output' = output /\ Threads' = Threads
    BY <1>4, BroadcastEosDoes, StageEosDoes, EndQueryDoes DEF BroadcastEos, StageEos, EndQuery, readerVars
  <2>4. \A k \in DOMAIN calls : calls[k].op = "push" => IsMessage(calls[k].msg)
    BY <1>0, <2>2, MessagesBroadcast
  <2> QED
    BY <1>0, <2>2, <2>3, <2>4, MessagesStep
<1>5. ASSUME NEW t \in Threads, CloseStream(t) PROVE Messages'
  <2>1. Turn(t, <<>>) /\ Threads' = Threads /\ output' = output
    BY <1>5, CloseStreamDoes DEF CloseStream, readerVars
  <2> QED
    BY <1>0, <2>1, EmptyIsSequence, MessagesStep
<1>6. ASSUME NEW t \in Threads, SubmitQuery(t) PROVE Messages'
  <2>1. Turn(t, <<>>) /\ output' = output
    BY <1>6, SubmitQueryDoes DEF SubmitQuery, readerVars
  <2>2. EosToken \notin stack[t][1].msg
    BY <1>6, SubmitQueryDoes DEF Messages, IsMessage
  <2>3. \A q \in Threads' \ Threads : \E s : q = <<s, stack[t][1].msg>>
    BY <1>6, SubmitQueryDoes
  <2>4. \A q \in Threads' \ Threads : EosToken \notin q[2]
    BY <2>2, <2>3
  <2> QED
    BY <1>0, <2>1, <2>4, EmptyIsSequence, MessagesStep
<1>7. ASSUME NEW t \in Threads, PushAnswer(t) PROVE Messages'
  <2>1. PICK m : m = AnswerOf(t, numSent'[t])
    OBVIOUS
  <2>2. PICK calls : calls = (IF isQueryOpened[t[1]] THEN Broadcast(t[1], m) ELSE <<>>) /\ Turn(t, calls)
    BY <1>7, <2>1, PushAnswerDoes
  <2>3. output' = output /\ t[1] \in Streams /\ Threads' = Threads /\ t # Source
    BY <1>7, PushAnswerDoes, Kinds DEF PushAnswer
  <2>4. IsMessage(m)
    BY <1>0, <2>1, <2>3 DEF AnswerOf, IsMessage, Messages
  <2>5. calls = Broadcast(t[1], m) \/ calls = <<>>
    BY <2>2
  <2>6. \A k \in DOMAIN calls : calls[k].op = "push" => IsMessage(calls[k].msg)
    BY <1>0, <2>3, <2>4, <2>5, MessagesBroadcast
  <2> QED
    BY <1>0, <2>2, <2>3, <2>6, MessagesStep
<1>8. ASSUME NEW t \in Threads, Combines(t) PROVE Messages'
  <2>1. PICK calls : (\A k \in DOMAIN calls : calls[k].op = "push" => EosToken \notin calls[k].msg) /\ Turn(t, calls)
    BY <1>8, CombinesDoes
  <2>2. output' = output /\ Threads' = Threads
    BY <1>8, CombinesDoes
  <2>3. \A k \in DOMAIN calls : calls[k].op = "push" => IsMessage(calls[k].msg)
    BY <2>1 DEF IsMessage
  <2> QED
    BY <1>0, <2>1, <2>2, <2>3, MessagesStep
<1>9. ASSUME NEW t \in Threads, Receive(t) PROVE Messages'
  <2>1. Turn(t, <<>>) /\ Threads' = Threads
    BY <1>9, ReceiveDoes
  <2>2. IsMessage(stack[t][1].msg)
    BY <1>9, ReceiveDoes DEF Messages
  <2>3. \A i \in DOMAIN output' : IsMessage(output'[i])
    BY <1>0, <1>9, <2>2, ReceiveDoes
  <2> QED
    BY <2>1, <2>3, EmptyIsSequence, MessagesStep
<1> QED
  BY <1>1, <1>2, <1>3, <1>4, <1>5, <1>6, <1>7, <1>8, <1>9 DEF Next, Combines

\* What a step puts on a stack is there, and so is what was below the top.
LEMMA Kept ==
    ASSUME Typed, NEW t \in Threads, NEW calls, Shape(t, calls)
    PROVE  /\ \A k \in DOMAIN calls : \E l \in DOMAIN stack'[t] : stack'[t][l] = calls[k]
           /\ \A k \in DOMAIN stack[t] : k # 1 => \E l \in DOMAIN stack'[t] : stack'[t][l] = stack[t][k]
<1>1. PICK S : calls \in Seq(S) /\ stack[t] \in Seq(S)
  <2>1. PICK A : calls \in Seq(A)
    BY DEF Shape, IsSequence
  <2>2. PICK B : stack[t] \in Seq(B)
    BY DEF Typed, IsSequence
  <2>3. calls \in Seq(A \cup B) /\ stack[t] \in Seq(A \cup B)
    BY <2>1, <2>2
  <2> QED
    BY <2>3
<1>2. CASE stack[t] = <<>>
  BY <1>2, EmptyIsSequence DEF Shape
<1>3. CASE stack[t] # <<>>
  <2>1. PICK q : q = Tail(stack[t])
    OBVIOUS
  <2>2. q \in Seq(S) /\ Len(stack[t]) = Len(q) + 1 /\ \A l \in 1 .. Len(q) : q[l] = stack[t][l + 1]
    BY <1>1, <1>3, <2>1, HeadTailProperties
  <2>3. stack'[t] = calls \o q
    BY <1>3, <2>1 DEF Shape
  <2>4. /\ DOMAIN stack'[t] = 1 .. Len(calls) + Len(q)
        /\ \A l \in 1 .. Len(calls) + Len(q) : stack'[t][l] = IF l <= Len(calls) THEN calls[l] ELSE q[l - Len(calls)]
    BY ONLY <1>1, <2>2, <2>3, ConcatProperties, LenProperties
  <2>5. DOMAIN calls = 1 .. Len(calls) /\ Len(calls) \in Nat /\ DOMAIN stack[t] = 1 .. Len(stack[t]) /\ Len(q) \in Nat
    BY ONLY <1>1, <2>2, LenProperties
  <2>6. ASSUME NEW k \in DOMAIN calls PROVE \E l \in DOMAIN stack'[t] : stack'[t][l] = calls[k]
    <3>1. k \in 1 .. Len(calls) + Len(q) /\ k <= Len(calls)
      BY <2>5
    <3> QED
      BY <2>4, <3>1
  <2>7. ASSUME NEW k \in DOMAIN stack[t], k # 1 PROVE \E l \in DOMAIN stack'[t] : stack'[t][l] = stack[t][k]
    <3>1. k - 1 \in 1 .. Len(q) /\ k = (k - 1) + 1
      BY <2>2, <2>5, <2>7
    <3>2. stack[t][k] = q[k - 1]
      BY <2>2, <3>1
    <3>3. PICK l : l = Len(calls) + (k - 1)
      OBVIOUS
    <3>4. l \in 1 .. Len(calls) + Len(q) /\ ~(l <= Len(calls)) /\ l - Len(calls) = k - 1
      BY ONLY <2>5, <3>1, <3>3
    <3> QED
      BY <2>4, <3>2, <3>4
  <2> QED
    BY <2>6, <2>7
<1> QED
  BY <1>2, <1>3

\* The lock stays with its holder unless the holder executes its last combination.
LEMMA LockedStep ==
    ASSUME Typed, Locked, plan' = plan, NEW t \in Threads, NEW calls, Shape(t, calls),
           bufferLock' = bufferLock, DOMAIN buffer' = DOMAIN buffer,
           stack[t] = <<>> \/ stack[t][1].op # "combine" \/ \E k \in DOMAIN calls : calls[k].op = "combine"
    PROVE  Locked'
<1>1. Groups' = Groups
  BY SamePlan
<1>2. CASE bufferLock = NoThread
  BY <1>1, <1>2 DEF Locked, NoThread
<1>3. CASE bufferLock # NoThread
  <2>1. bufferLock \in Threads /\ bufferLock \in Threads'
    BY <1>3 DEF Locked, Shape
  <2>2. PICK k \in DOMAIN stack[bufferLock] : stack[bufferLock][k].op = "combine"
    BY <1>3 DEF Locked
  <2>3. \E l \in DOMAIN stack'[bufferLock] : stack'[bufferLock][l].op = "combine"
    <3>1. CASE bufferLock # t
      BY <2>1, <2>2, <3>1 DEF Shape
    <3>2. CASE bufferLock = t /\ k # 1
      BY <2>2, <3>2, Kept
    <3>3. CASE bufferLock = t /\ k = 1
      <4>1. stack[t] # <<>>
        BY <2>2, <3>3, EmptyIsSequence
      <4>2. \E l \in DOMAIN calls : calls[l].op = "combine"
        BY <2>2, <3>3, <4>1
      <4> QED
        BY <3>3, <4>2, Kept
    <3> QED
      BY <3>1, <3>2, <3>3
  <2> QED
    BY <1>1, <2>1, <2>3 DEF Locked
<1> QED
  BY <1>2, <1>3

\* Every step leaves the combiner locked by a thread that will unlock it.
LEMMA LockedNext ==
    ASSUME Typed, Locked, Next
    PROVE  Locked'
<1>1. ASSUME NEW t \in Threads, NEW calls, Shape(t, calls), UNCHANGED combinerVars,
             stack[t] = <<>> \/ stack[t][1].op # "combine"
      PROVE  Locked'
  BY <1>1, PlanStays, LockedStep DEF combinerVars
<1>2. CASE PushInput
  <2>1. UNCHANGED combinerVars
    BY <1>2 DEF PushInput
  <2> QED
    BY <1>1, <1>2, <2>1, PushInputDoes DEF Typed
<1>3. CASE EndInput
  <2>1. UNCHANGED combinerVars
    BY <1>3 DEF EndInput
  <2> QED
    BY <1>1, <1>3, <2>1, EndInputDoes DEF Typed
<1>4. ASSUME NEW t \in Threads, BroadcastAnswer(t) \/ BroadcastEos(t) \/ CloseStream(t) PROVE Locked'
  <2>1. UNCHANGED combinerVars
    BY <1>4 DEF BroadcastAnswer, BroadcastEos, CloseStream
  <2>2. stack[t][1].op # "combine" /\ \E calls : Shape(t, calls)
    BY <1>4, BroadcastAnswerDoes, BroadcastEosDoes, CloseStreamDoes
  <2> QED
    BY <1>1, <2>1, <2>2
<1>5. ASSUME NEW t \in Threads, SubmitQuery(t) \/ StageEos(t) \/ Receive(t) PROVE Locked'
  <2>1. UNCHANGED combinerVars
    BY <1>5 DEF SubmitQuery, StageEos, Receive
  <2>2. stack[t][1].op # "combine" /\ \E calls : Shape(t, calls)
    BY <1>5, SubmitQueryDoes, StageEosDoes, ReceiveDoes
  <2> QED
    BY <1>1, <2>1, <2>2
<1>6. ASSUME NEW t \in Threads, PushAnswer(t) \/ EndQuery(t) PROVE Locked'
  <2>1. UNCHANGED combinerVars
    BY <1>6 DEF PushAnswer, EndQuery
  <2>2. stack[t] = <<>> /\ \E calls : Shape(t, calls)
    BY <1>6, PushAnswerDoes, EndQueryDoes
  <2> QED
    BY <1>1, <2>1, <2>2
<1>7. ASSUME NEW t \in Threads, Combine(t) PROVE Locked'
  <2>1. PICK todo : stack' = Does(t, <<Combining(todo)>>)
    BY <1>7 DEF Combine
  <2>2. stack[t] # <<>>
    BY <1>7, CombinesDoes DEF Combines
  <2>3. PICK calls : calls = <<Combining(todo)>>
    OBVIOUS
  <2>4. IsSequence(calls) /\ 1 \in DOMAIN calls /\ calls[1].op = "combine"
    <3>1. calls \in Seq({Combining(todo)}) /\ 1 \in DOMAIN calls /\ calls[1] = Combining(todo)
      BY <2>3
    <3>2. Combining(todo).op = "combine"
      BY DEF Combining
    <3> QED
      BY <3>1, <3>2 DEF IsSequence
  <2>5. Shape(t, calls) /\ Threads' = Threads
    BY <2>1, <2>2, <2>3, <2>4, Shapes
  <2>6. \E l \in DOMAIN stack'[t] : stack'[t][l].op = "combine"
    BY <2>4, <2>5, Kept
  <2>7. bufferLock' = t /\ DOMAIN buffer' = DOMAIN buffer
    BY <1>7 DEF Combine
  <2>8. Groups' = Groups
    BY PlanStays, SamePlan
  <2> QED
    BY <2>5, <2>6, <2>7, <2>8 DEF Locked
<1>8. ASSUME NEW t \in Threads, PushCombination(t) PROVE Locked'
  <2>1. PICK a, todo : stack' = Does(t, Broadcast(Combiner, a) \o <<Combining(todo)>>)
    BY <1>8 DEF PushCombination
  <2>2. stack[t] # <<>>
    BY <1>8, CombinesDoes DEF Combines
  <2>3. PICK c, d : c = Push(Combiner, Idb, a) /\ d = Combining(todo)
    OBVIOUS
  <2>4. Broadcast(Combiner, a) = <<c>>
    <3>1. Subscribers(Combiner) = <<Idb>>
      BY SubscribersOf DEF Typed
    <3>2. Broadcast(Combiner, a) = [k \in {1} |-> c]
      BY <2>3, <3>1 DEF Broadcast
    <3> QED
      BY <3>2
  <2>5. PICK calls : calls = <<c>> \o <<d>>
    OBVIOUS
  <2>6. calls \in Seq({c, d}) /\ 2 \in DOMAIN calls /\ calls[2] = d
    BY ONLY <2>5
  <2>7. d.op = "combine"
    BY <2>3 DEF Combining
  <2>8. Shape(t, calls)
    BY <2>1, <2>2, <2>3, <2>4, <2>5, <2>6, Shapes DEF IsSequence
  <2>9. UNCHANGED combinerVars
    BY <1>8 DEF PushCombination
  <2> QED
    BY <2>6, <2>7, <2>8, <2>9, PlanStays, LockedStep DEF combinerVars
<1>9. ASSUME NEW t \in Threads, EndCombine(t) PROVE Locked'
  <2>1. bufferLock' = NoThread /\ buffer' = buffer
    BY <1>9 DEF EndCombine
  <2>2. Groups' = Groups
    BY PlanStays, SamePlan
  <2> QED
    BY <2>1, <2>2 DEF Locked
<1> QED
  BY <1>2, <1>3, <1>4, <1>5, <1>6, <1>7, <1>8, <1>9 DEF Next

-----------------------------------------------------------------------------
(* The theorems *)

\* The types, messages and the lock of a query of any shape.
LEMMA TypesInvariant == Spec => [](Typed /\ Messages /\ Locked)
<1> DEFINE Inv == Typed /\ Messages /\ Locked
<1>1. Init => Inv
  <2> SUFFICES ASSUME Init PROVE Inv
    OBVIOUS
  <2>1. Typed /\ Threads = {Source} /\ output = <<>> /\ \A t \in Threads : DOMAIN stack[t] = {}
    BY Initially
  <2>2. Messages
    BY <2>1, EmptyIsSequence DEF Messages
  <2>3. Locked
    BY DEF Init, Locked
  <2> QED
    BY <2>1, <2>2, <2>3
<1>2. Inv /\ [Next]_vars => Inv'
  <2> SUFFICES ASSUME Inv, [Next]_vars PROVE Inv'
    OBVIOUS
  <2>1. CASE Next
    BY <2>1, TypedNext, MessagesNext, LockedNext
  <2>2. CASE UNCHANGED vars
    <3>1. /\ UNCHANGED <<plan, channels, isOpened, graphQueries, isAwaitingInput, isQueryOpened, stack, numSent>>
          /\ UNCHANGED <<output, buffer, bufferLock>> /\ Threads' = Threads
      BY <2>2 DEF vars, streamVars, stageVars, threadVars, combinerVars, readerVars, Threads
    <3>2. Groups' = Groups /\ Stages' = Stages /\ Streams' = Streams /\ Sources' = Sources
      BY <3>1, SamePlan
    <3>3. Typed'
      BY <3>1, <3>2 DEF Typed
    <3>4. Messages'
      BY <3>1 DEF Messages
    <3>5. Locked'
      BY <3>1, <3>2 DEF Locked
    <3> QED
      BY <3>3, <3>4, <3>5
  <2> QED
    BY <2>1, <2>2
<1> HIDE DEF Inv
<1>3. Spec => []Inv
  BY <1>1, <1>2, PTL DEF Spec
<1> QED
  BY <1>3 DEF Inv

\* Types, for any number of literals, groups, reasoners and answers; an active
\* query has its thread, and EOS is not part of another message.
THEOREM TypeCorrect == Spec => []TypeOK
<1>1. ASSUME Typed, Messages, Locked PROVE TypeOK
  <2>1. DOMAIN graphQueries = Stages /\ DOMAIN numSent = Threads
    BY <1>1 DEF Typed
  <2>2. bufferLock = NoThread \/ \E c \in Range(stack[bufferLock]) : c.op = "combine"
    BY <1>1 DEF Locked, Range
  <2>3. \A m \in Range(output) : m = EOS \/ EosToken \notin m
    BY <1>1 DEF Messages, IsMessage, Range
  <2> QED
    BY <1>1, <2>1, <2>2, <2>3 DEF TypeOK, Typed, Sources, Locked
<1>2. Typed /\ Messages /\ Locked => TypeOK
  BY <1>1
<1> QED
  BY <1>2, TypesInvariant, PTL

\* In every reachable state: types, what is known of EOS and of answers in a
\* chain, and that EOS does not pass a combiner.
THEOREM PipelineInvariant == Spec => []PipelineInv
<1>1. Init => PipelineInv
  BY PipelineInvInit
<1>2. PipelineInv /\ [Next]_vars => PipelineInv'
  BY PipelineInvNext
<1> QED
  BY <1>1, <1>2, PTL DEF Spec

\* When the reader receives EOS, no query is active, no answer is on its way, and
\* every answer to the last literal has been received exactly once.
THEOREM ReaderGetsAll == Spec => []CompleteAtEos
<1>1. PipelineInv => CompleteAtEos
  BY InvComplete
<1> QED
  BY <1>1, PipelineInvariant, PTL

\* With several groups the reader never gets EOS: the combiner hands copies on.
THEOREM SeveralGroupsNeverEnd == Spec => [](Len(plan) > 1 => EOS \notin Range(output))
<1>1. PipelineInv => (Len(plan) > 1 => EOS \notin Range(output))
  <2> SUFFICES ASSUME PipelineInv, Len(plan) > 1 PROVE EOS \notin Range(output)
    OBVIOUS
  <2>1. ~IsChain
    BY Plan DEF PipelineInv, Typed, IsChain
  <2> QED
    BY <2>1 DEF PipelineInv, NoEos, Range
<1> QED
  BY <1>1, PipelineInvariant, PTL

-----------------------------------------------------------------------------
(* Two groups: what the combiner does *)

IsPair == Len(plan) = 2

\* No group has ended at the combiner.
Quiet == \A g \in Groups : \A i \in DOMAIN buffer[g] : buffer[g][i] # EOS

\* The stream that gets the answers of a thread, and where they go from there.
Group(s) == s[2]
Home(t) == IF t = Source THEN Edb ELSE Step(Group(t[1]), Literal(t[1]))
IsNextStage(t, s) ==
    /\ s \in Stages
    /\ IF t = Source THEN Literal(s) = 1 ELSE Group(s) = Group(t[1]) /\ Literal(s) = Literal(t[1]) + 1
IsFinal(t) == t # Source /\ Literal(t[1]) = plan[Group(t[1])]

\* A thread hands EOS on, ...
IsEosCall(c) ==
    \/ c.op = "push" /\ c.msg = EOS /\ c.to \notin {Idb, Reader} /\ (c.to = Combiner => c.from \in Steps)
    \/ c.op = "close" /\ c.to # Idb
IsLastStep(n) == n \in Steps /\ Literal(n) = plan[Group(n)]
EosSequence(q) ==
    \A k \in DOMAIN q :
        /\ IsEosCall(q[k])
        /\ q[k].op = "close" /\ IsLastStep(q[k].to) =>
              \E l \in DOMAIN q : l < k /\ q[l].op = "push" /\ q[l].to = Combiner
HandsEosOn(t) == EosSequence(stack[t])

\* ... or its last answer to the next stages, which do not have it yet, ...
Relays(t) ==
    /\ ~IsFinal(t) /\ numSent[t] >= 1
    /\ \A k \in DOMAIN stack[t] :
        /\ stack[t][k].op = "push" /\ stack[t][k].msg = Current(t)
        /\ \/ /\ IsNextStage(t, stack[t][k].to) /\ <<stack[t][k].to, Current(t)>> \notin Threads
              /\ \A l \in DOMAIN stack[t] : stack[t][l].to = stack[t][k].to => k = l
           \/ /\ stack[t][k].to = Home(t) /\ Len(stack[t]) = 1
              /\ \A s \in Stages : <<s, Current(t)>> \notin Threads

\* ... or to the combiner, which does not have it yet.
InBuffer(g, a) == \E i \in DOMAIN buffer[g] : buffer[g][i] = a
Delivers(t) ==
    /\ IsFinal(t) /\ numSent[t] >= 1
    /\ \/ stack[t] = <<Push(t[1], Home(t), Current(t))>>
       \/ stack[t] = <<Push(Home(t), Combiner, Current(t))>>
    /\ <<Group(t[1]), Current(t)>> \in produced /\ ~InBuffer(Group(t[1]), Current(t))
Flows == \A t \in Threads : t # bufferLock => HandsEosOn(t) \/ Relays(t) \/ Delivers(t)

\* A stage without a query is closed, the streams behind the last literals are open.
Opened ==
    /\ \A s \in Stages : ~isQueryOpened[s] => graphQueries[s] = {}
    /\ isOpened[Idb] /\ \A g \in Groups : isOpened[Step(g, plan[g])]

\* A partial result goes back to the input and to literals of the same group.
Grouped(g, a) == /\ \E x \in a : x[1] = "edb"
                 /\ \A x \in a : x[1] = "edb" \/ (x[1] = "query" /\ Group(x[3]) = g)
Derived == \A q \in Threads \ {Source} : Grouped(Group(q[1]), q[2])

\* The buffers have the answers to the last literals that have been delivered, each once.
IsAnswerOf(g, a) == \E t \in Threads : IsFinal(t) /\ Group(t[1]) = g /\ \E k \in 1 .. numSent[t] : a = AnswerOf(t, k)
Buffered ==
    /\ \A g \in Groups : /\ IsSequence(buffer[g])
                         /\ \A i \in DOMAIN buffer[g] : <<g, buffer[g][i]>> \in produced
                         /\ \A i, j \in DOMAIN buffer[g] : buffer[g][i] = buffer[g][j] => i = j
    /\ \A p \in produced :
          /\ p[1] \in Groups /\ p = <<p[1], p[2]>> /\ IsAnswerOf(p[1], p[2])
          /\ \/ InBuffer(p[1], p[2])
             \/ \E t \in Threads : t # bufferLock /\ Delivers(t) /\ Group(t[1]) = p[1] /\ Current(t) = p[2]

\* The combinations are those that have been received, one on its way to the reader,
\* and those that the thread which holds the lock is still to push.
Unifying(b) == {f \in Selections(b) : \A h, e \in Groups : h # e => Unifies(b[h][f[h]], b[e][f[e]])}
CombinationOf(b, f) == UNION {Copy(b[h][f[h]]) : h \in Groups}
Combined(todo, pending) ==
    /\ todo \subseteq Unifying(buffer)
    /\ Range(output) \cup pending \cup {CombinationOf(buffer, f) : f \in todo} =
           {CombinationOf(buffer, f) : f \in Unifying(buffer)}
    /\ \A f \in todo : CombinationOf(buffer, f) \notin Range(output) \cup pending
    /\ pending \cap Range(output) = {} /\ \A i, j \in DOMAIN output : output[i] = output[j] => i = j
Pushes(todo, pending) ==
    \/ pending = {} /\ stack[bufferLock] = <<Combining(todo)>>
    \/ \E m : /\ pending = {m}
              /\ \/ stack[bufferLock] = <<Push(Combiner, Idb, m), Combining(todo)>>
                 \/ stack[bufferLock] = <<Push(Idb, Reader, m), Combining(todo)>>
Combinator ==
    IF bufferLock = NoThread THEN Combined({}, {})
    ELSE /\ bufferLock \in Threads /\ IsFinal(bufferLock) /\ numSent[bufferLock] >= 1
         /\ \E todo, pending : Pushes(todo, pending) /\ Combined(todo, pending)

PairInv == Opened /\ Flows /\ Buffered /\ Combinator
CombinerInv == (\A g \in Groups : IsSequence(buffer[g])) /\ (Quiet => Born /\ Derived /\ PairInv)

-----------------------------------------------------------------------------

\* What was defined of a query depends on the plan only.
LEMMA SamePair ==
    ASSUME plan' = plan
    PROVE  /\ Groups' = Groups /\ Stages' = Stages /\ Steps' = Steps /\ (IsPair' <=> IsPair)
           /\ \A t : IsFinal(t)' <=> IsFinal(t)
           /\ \A t : \A s : IsNextStage(t, s)' <=> IsNextStage(t, s)
           /\ \A c : IsEosCall(c)' <=> IsEosCall(c)
           /\ \A n : IsLastStep(n)' <=> IsLastStep(n)
           /\ \A q : EosSequence(q)' <=> EosSequence(q)
<1>1. Groups' = Groups /\ Stages' = Stages /\ Steps' = Steps
  BY DEF Groups, Stages, Steps
<1>2. \A t : IsFinal(t)' <=> IsFinal(t)
  BY DEF IsFinal
<1>3. \A t : \A s : IsNextStage(t, s)' <=> IsNextStage(t, s)
  BY <1>1 DEF IsNextStage
<1>4. \A c : IsEosCall(c)' <=> IsEosCall(c)
  BY <1>1 DEF IsEosCall
<1>5. \A n : IsLastStep(n)' <=> IsLastStep(n)
  BY <1>1 DEF IsLastStep
<1>6. \A q : EosSequence(q)' <=> EosSequence(q)
  BY <1>4, <1>5 DEF EosSequence
<1>7. IsPair' <=> IsPair
  BY DEF IsPair
<1> QED
  BY <1>1, <1>2, <1>3, <1>4, <1>5, <1>6, <1>7

\* The streams of two groups.
LEMMA PairStreams ==
    ASSUME plan \in Plans, IsPair
    PROVE  /\ Groups = {1, 2} /\ ~IsChain /\ Combiner \in Streams /\ Idb \in Broadcasters
           /\ \A g \in Groups : plan[g] \in Nat /\ plan[g] >= 1 /\ IsLastStep(Step(g, plan[g]))
           /\ \A s \in Stages : /\ Group(s) \in Groups /\ Literal(s) \in Nat /\ Literal(s) \in 1 .. plan[Group(s)]
                                /\ Step(Group(s), Literal(s)) \in Steps
                                /\ Subscribers(s) = <<Step(Group(s), Literal(s))>>
           /\ \A n \in Steps : /\ Group(n) \in Groups /\ Literal(n) \in 1 .. plan[Group(n)]
                               /\ n = Step(Group(n), Literal(n))
                               /\ ~IsLastStep(n) => Subscribers(n) = StagesOf(Group(n), Literal(n) + 1)
                                                    /\ Literal(n) + 1 \in 1 .. plan[Group(n)]
                               /\ IsLastStep(n) => Subscribers(n) = <<Combiner>>
           /\ Subscribers(Edb) = FirstStages /\ Subscribers(Combiner) = <<Idb>> /\ Subscribers(Idb) = <<Reader>>
<1>1. /\ Groups = {1, 2} /\ ~IsChain /\ Combiner \in Streams /\ Idb \in Broadcasters
      /\ \A g \in Groups : plan[g] \in Nat /\ plan[g] >= 1
  <2>1. Len(plan) = 2 /\ Groups = 1 .. 2 /\ \A g \in Groups : plan[g] \in Nat /\ plan[g] > 0
    BY Plan DEF IsPair
  <2>2. Groups # {} /\ Groups = {1, 2}
    BY <2>1
  <2> QED
    BY <2>1, <2>2, Kinds DEF IsChain
<1>2. \A s \in Stages : /\ Group(s) \in Groups /\ Literal(s) \in 1 .. plan[Group(s)]
                        /\ Step(Group(s), Literal(s)) \in Steps
                        /\ Subscribers(s) = <<Step(Group(s), Literal(s))>>
  <2> SUFFICES ASSUME NEW s \in Stages
               PROVE  /\ Group(s) \in Groups /\ Literal(s) \in 1 .. plan[Group(s)]
                      /\ Step(Group(s), Literal(s)) \in Steps
                      /\ Subscribers(s) = <<Step(Group(s), Literal(s))>>
    OBVIOUS
  <2>1. PICK g \in Groups : \E i \in 1 .. plan[g], r \in 0 .. NumReasoners : s = Stage(g, i, r)
    BY Names
  <2>2. PICK i \in 1 .. plan[g], r \in 0 .. NumReasoners : s = Stage(g, i, r)
    BY <2>1
  <2>3. s[2] = g /\ s[3] = i
    BY <2>2, Names
  <2> QED
    BY <2>2, <2>3, Names, SubscribersOf DEF Group, Literal
<1>3. \A n \in Steps : /\ Group(n) \in Groups /\ Literal(n) \in 1 .. plan[Group(n)]
                       /\ n = Step(Group(n), Literal(n))
                       /\ Subscribers(n) = IF Literal(n) < plan[Group(n)] THEN StagesOf(Group(n), Literal(n) + 1)
                                                                          ELSE <<Combiner>>
  <2> SUFFICES ASSUME NEW n \in Steps
               PROVE  /\ Group(n) \in Groups /\ Literal(n) \in 1 .. plan[Group(n)]
                      /\ n = Step(Group(n), Literal(n))
                      /\ Subscribers(n) = IF Literal(n) < plan[Group(n)] THEN StagesOf(Group(n), Literal(n) + 1)
                                                                         ELSE <<Combiner>>
    OBVIOUS
  <2>1. PICK g \in Groups : \E i \in 1 .. plan[g] : n = Step(g, i)
    BY Names
  <2>2. PICK i \in 1 .. plan[g] : n = Step(g, i)
    BY <2>1
  <2>3. n[2] = g /\ n[3] = i
    BY <2>2, Names
  <2>4. GroupOutput = Combiner
    BY DEF GroupOutput, IsPair
  <2> QED
    BY <2>2, <2>3, <2>4, SubscribersOf DEF Group, Literal
<1>4. \A g \in Groups : IsLastStep(Step(g, plan[g]))
  <2> SUFFICES ASSUME NEW g \in Groups PROVE IsLastStep(Step(g, plan[g]))
    OBVIOUS
  <2>1. plan[g] \in 1 .. plan[g]
    BY <1>1
  <2> QED
    BY <2>1, Names DEF IsLastStep, Group, Literal
<1>5. \A n \in Steps : /\ ~IsLastStep(n) => Literal(n) < plan[Group(n)] /\ Literal(n) + 1 \in 1 .. plan[Group(n)]
                       /\ IsLastStep(n) => ~(Literal(n) < plan[Group(n)])
  <2> SUFFICES ASSUME NEW n \in Steps
               PROVE  /\ ~IsLastStep(n) => Literal(n) < plan[Group(n)] /\ Literal(n) + 1 \in 1 .. plan[Group(n)]
                      /\ IsLastStep(n) => ~(Literal(n) < plan[Group(n)])
    OBVIOUS
  <2>1. plan[Group(n)] \in Nat /\ Literal(n) \in 1 .. plan[Group(n)]
    BY <1>1, <1>3
  <2> QED
    BY <2>1 DEF IsLastStep
<1>6. Subscribers(Edb) = FirstStages /\ Subscribers(Combiner) = <<Idb>> /\ Subscribers(Idb) = <<Reader>>
  BY <1>1, SubscribersOf
<1>7. \A s \in Stages : Literal(s) \in Nat
  BY <1>1, <1>2
<1> QED
  BY <1>1, <1>2, <1>3, <1>4, <1>5, <1>6, <1>7

\* The first stages are all different.
LEMMA FirstDiffer ==
    ASSUME plan \in Plans, IsPair
    PROVE  /\ \A k \in DOMAIN FirstStages : FirstStages[k] \in Stages /\ Literal(FirstStages[k]) = 1
           /\ \A k, l \in DOMAIN FirstStages : FirstStages[k] = FirstStages[l] => k = l
<1> DEFINE w == NumReasoners + 1
<1>1. w \in Nat /\ w > 0 /\ Len(plan) * w \in Nat
  <2>1. NumReasoners \in Nat /\ Len(plan) = 2
    BY Plan DEF IsPair
  <2> QED
    BY <2>1
<1>2. DOMAIN FirstStages = 1 .. Len(plan) * w /\ FirstStages \in Seq(Stages)
  BY <1>1, FirstListed DEF FirstStages
<1>3. \A k \in DOMAIN FirstStages : FirstStages[k] = Stage((k - 1) \div w + 1, 1, (k - 1) % w)
  BY <1>2 DEF FirstStages
<1>4. \A k \in DOMAIN FirstStages : FirstStages[k] \in Stages
  BY <1>2, ElementOfSeq, LenProperties
<1>5. \A k \in DOMAIN FirstStages : k - 1 \in Nat
  BY <1>1, <1>2
<1> HIDE DEF w
<1>6. ASSUME NEW a \in 0 .. 2 * w - 1
      PROVE  IF a < w THEN (a \div w) = 0 /\ (a % w) = a ELSE (a \div w) = 1 /\ (a % w) = a - w
  <2>1. CASE a < w
    BY <1>1, <2>1
  <2>2. CASE ~(a < w)
    BY <1>1, <2>2
  <2> QED
    BY <2>1, <2>2
<1>7. ASSUME NEW k \in DOMAIN FirstStages, NEW l \in DOMAIN FirstStages, FirstStages[k] = FirstStages[l] PROVE k = l
  <2>1. (k - 1) \div w + 1 = (l - 1) \div w + 1 /\ (k - 1) % w = (l - 1) % w
    BY <1>3, <1>7, Names
  <2>2. k - 1 \in 0 .. 2 * w - 1 /\ l - 1 \in 0 .. 2 * w - 1
    BY <1>1, <1>2 DEF IsPair
  <2>4. k - 1 = l - 1
    <3> DEFINE a == k - 1
               b == l - 1
    <3>1. /\ (a \div w) + 1 = (b \div w) + 1 /\ (a % w) = (b % w)
          /\ a \in 0 .. 2 * w - 1 /\ b \in 0 .. 2 * w - 1
          /\ IF a < w THEN (a \div w) = 0 /\ (a % w) = a ELSE (a \div w) = 1 /\ (a % w) = a - w
          /\ IF b < w THEN (b \div w) = 0 /\ (b % w) = b ELSE (b \div w) = 1 /\ (b % w) = b - w
      BY <1>6, <2>1, <2>2
    <3> HIDE DEF a, b
    <3>2. a = b
      BY ONLY <1>1, <3>1
    <3> QED
      BY <3>2 DEF a, b
  <2>3. k \in Nat /\ l \in Nat
    BY <1>2, <1>1
  <2> QED
    BY <2>3, <2>4
<1>8. \A k \in DOMAIN FirstStages : Literal(FirstStages[k]) = 1
  BY <1>3, Names DEF Literal
<1> QED
  BY <1>4, <1>7, <1>8

\* A thread pushes its answers to one stream, which hands them on to the next stages, or
\* to the combiner after the last literal.
LEMMA HomeOf ==
    ASSUME Typed, IsPair, NEW t \in Threads
    PROVE  /\ t # NoThread
           /\ t # Source => t = <<t[1], t[2]>> /\ t[1] \in Stages /\ Subscribers(t[1]) = <<Home(t)>>
           /\ Home(t) \in Broadcasters /\ Home(t) \notin Stages /\ Home(t) \notin {Combiner, Idb, Reader}
           /\ IsFinal(t) => IsLastStep(Home(t)) /\ Subscribers(Home(t)) = <<Combiner>>
                            /\ Group(t[1]) \in Groups /\ Home(t) = Step(Group(t[1]), plan[Group(t[1])])
           /\ ~IsFinal(t) => /\ \A k \in DOMAIN Subscribers(Home(t)) : IsNextStage(t, Subscribers(Home(t))[k])
                             /\ \A k, l \in DOMAIN Subscribers(Home(t)) :
                                   Subscribers(Home(t))[k] = Subscribers(Home(t))[l] => k = l
<1>1. plan \in Plans
  BY DEF Typed
<1>2. CASE t = Source
  <2>1. Home(t) = Edb /\ ~IsFinal(t) /\ t # NoThread
    BY <1>2 DEF Home, IsFinal, Source, NoThread
  <2>2. \A s \in Stages : Literal(s) = 1 => IsNextStage(t, s)
    BY <1>2 DEF IsNextStage
  <2> QED
    BY <1>1, <1>2, <2>1, <2>2, FirstDiffer, PairStreams, Kinds, Names
<1>3. CASE t # Source
  <2> DEFINE s == t[1]
             n == Home(t)
             g == Group(s)
  <2>1. t = <<t[1], t[2]>> /\ s \in Stages
    BY <1>3 DEF Typed
  <2>2. /\ t # NoThread /\ n = Step(g, Literal(s)) /\ n \in Steps /\ Subscribers(s) = <<n>>
        /\ Literal(s) \in 1 .. plan[g] /\ g \in Groups /\ plan[g] \in Nat
        /\ Group(n) = g /\ Literal(n) = Literal(s)
    <3>1. t # NoThread
      BY <2>1 DEF NoThread
    <3>2. n = Step(g, Literal(s))
      BY <1>3 DEF Home
    <3> QED
      BY <1>1, <2>1, <3>1, <3>2, PairStreams, Names DEF Group, Literal
  <2>3. IsFinal(t) <=> IsLastStep(n)
    BY <1>3, <2>2 DEF IsFinal, IsLastStep
  <2>4. IsFinal(t) => n = Step(g, plan[g])
    BY <2>2 DEF IsFinal
  <2>5. ASSUME ~IsFinal(t)
        PROVE  /\ \A k \in DOMAIN Subscribers(n) : IsNextStage(t, Subscribers(n)[k])
               /\ \A k, l \in DOMAIN Subscribers(n) : Subscribers(n)[k] = Subscribers(n)[l] => k = l
    <3> DEFINE i == Literal(s) + 1
    <3>1. i \in 1 .. plan[g] /\ Subscribers(n) = StagesOf(g, i)
      BY <1>1, <2>2, <2>3, <2>5, PairStreams
    <3>2. /\ DOMAIN StagesOf(g, i) = 1 .. NumReasoners + 1
          /\ \A k \in 1 .. NumReasoners + 1 : StagesOf(g, i)[k] = Stage(g, i, k - 1)
          /\ StagesOf(g, i) \in Seq(Stages)
      BY <1>1, <2>2, <3>1, StagesListed
    <3>3. \A k \in 1 .. NumReasoners + 1 : StagesOf(g, i)[k] \in Stages
      BY <3>2, ElementOfSeq, LenProperties
    <3>4. ASSUME NEW k \in 1 .. NumReasoners + 1 PROVE IsNextStage(t, Stage(g, i, k - 1))
      <4>1. Stage(g, i, k - 1) \in Stages
        BY <3>2, <3>3
      <4> QED
        BY <1>3, <4>1, Names DEF IsNextStage, Group, Literal
    <3>5. ASSUME NEW k \in 1 .. NumReasoners + 1, NEW l \in 1 .. NumReasoners + 1,
                 Stage(g, i, k - 1) = Stage(g, i, l - 1)
          PROVE  k = l
      <4>1. k - 1 = l - 1 /\ NumReasoners \in Nat
        BY <1>1, <3>5, Names, Plan
      <4> QED
        BY <4>1
    <3> HIDE DEF i
    <3> QED
      BY <3>1, <3>2, <3>4, <3>5
  <2> QED
    BY <1>1, <1>3, <2>1, <2>2, <2>3, <2>4, <2>5, PairStreams, Kinds, Names
<1> QED
  BY <1>2, <1>3

\* The sequence of calls with which a stream ends: EOS is pushed before it is closed.
LEMMA EndsOrderly ==
    ASSUME plan \in Plans, IsPair, NEW n \in Streams, n \notin {Combiner, Idb}
    PROVE  /\ \A calls : EosCalls(n, calls) => \A k \in DOMAIN calls : IsEosCall(calls[k])
           /\ ~IsLastStep(n) => \A calls : EosCalls(n, calls) => EosSequence(calls)
           /\ EosSequence(<<>>) /\ EosSequence(Broadcast(n, EOS) \o <<Close(n)>>)
<1>1. /\ \A k \in DOMAIN Subscribers(n) : Subscribers(n)[k] \notin {Idb, Reader}
      /\ \A k \in DOMAIN Subscribers(n) : Subscribers(n)[k] = Combiner => n \in Steps
  <2>1. Len(plan) > 1
    BY Plan DEF IsPair
  <2>2. n \notin Steps => \A k \in DOMAIN Subscribers(n) : Subscribers(n)[k] # Combiner
    <3>1. n \notin Steps => n = Edb \/ n \in Stages
      BY Kinds
    <3>2. n = Edb => \A k \in DOMAIN Subscribers(n) : Subscribers(n)[k] \in Stages
      BY FirstDiffer, PairStreams
    <3>3. n \in Stages => \A k \in DOMAIN Subscribers(n) : Subscribers(n)[k] \in Steps
      BY PairStreams
    <3> QED
      BY <3>1, <3>2, <3>3, Kinds
  <2> QED
    BY <2>1, <2>2, Subscribed
<1>2. \A x \in {Close(n)} \cup {Push(n, Subscribers(n)[k], EOS) : k \in DOMAIN Subscribers(n)} : IsEosCall(x)
  BY <1>1, CallsAre DEF IsEosCall
<1>3. \A calls : EosCalls(n, calls) => \A k \in DOMAIN calls : IsEosCall(calls[k])
  BY <1>2 DEF EosCalls
<1>4. EosSequence(<<>>)
  BY EmptyIsSequence DEF EosSequence
<1>6. ASSUME ~IsLastStep(n), NEW calls, EosCalls(n, calls) PROVE EosSequence(calls)
  <2>1. \A k \in DOMAIN calls : calls[k] = Close(n) \/ calls[k].op = "push"
    BY <1>6, CallsAre DEF EosCalls
  <2> QED
    BY <1>3, <1>6, <2>1, CallsAre DEF EosSequence
<1>5. EosSequence(Broadcast(n, EOS) \o <<Close(n)>>)
  <2> DEFINE q == Broadcast(n, EOS)
             c == Close(n)
             r == q \o <<c>>
  <2>1. \A k \in DOMAIN r : IsEosCall(r[k])
    BY <1>3, EndCalls
  <2>2. CASE ~IsLastStep(n)
    BY <1>6, <2>2, EndCalls
  <2>3. CASE IsLastStep(n)
    <3>1. Subscribers(n) = <<Combiner>>
      BY <2>3, PairStreams DEF IsLastStep
    <3>2. PICK p : p = Push(n, Combiner, EOS)
      OBVIOUS
    <3>3. q = [k \in {1} |-> p]
      BY <3>1, <3>2 DEF Broadcast
    <3> HIDE DEF q, c
    <3>4. q = <<p>>
      BY <3>3
    <3>5. q \in Seq({p, c}) /\ <<c>> \in Seq({p, c}) /\ Len(q) = 1 /\ Len(<<c>>) = 1 /\ q[1] = p
      BY ONLY <3>4
    <3>6. r \in Seq({p, c}) /\ Len(r) = 2 /\ r[1] = p
      BY ONLY <3>5, ConcatProperties
    <3>7. DOMAIN r = 1 .. 2 /\ p.op = "push" /\ p.to = Combiner
      BY <3>2, <3>6, LenProperties, CallsAre
    <3> HIDE DEF r
    <3>8. ASSUME NEW k \in DOMAIN r, r[k].op = "close" PROVE 1 \in DOMAIN r /\ 1 < k
      <4>1. k = 1 \/ k = 2
        BY <3>7
      <4>2. k # 1
        BY <3>6, <3>7, <3>8
      <4> QED
        BY <3>7, <4>1, <4>2
    <3>9. EosSequence(r)
      BY <2>1, <3>6, <3>7, <3>8 DEF EosSequence
    <3> QED
      BY <3>9 DEF r, q, c
  <2> QED
    BY <2>2, <2>3
<1> QED
  BY <1>3, <1>4, <1>5, <1>6

\* Other calls of that kind may take the place of the first one, unless it is a push to the combiner.
LEMMA EosReplaced ==
    ASSUME NEW q, NEW r, IsSequence(q), IsSequence(r), q # <<>>, EosSequence(q), EosSequence(r),
           ~(q[1].op = "push" /\ q[1].to = Combiner)
    PROVE  EosSequence(r \o Tail(q))
<1>1. PICK S : q \in Seq(S) /\ r \in Seq(S)
  <2>1. PICK A : q \in Seq(A)
    BY DEF IsSequence
  <2>2. PICK B : r \in Seq(B)
    BY DEF IsSequence
  <2>3. q \in Seq(A \cup B) /\ r \in Seq(A \cup B)
    BY <2>1, <2>2
  <2> QED
    BY <2>3
<1> DEFINE p == Tail(q)
           m == Len(r)
           z == r \o p
<1>2. p \in Seq(S) /\ Len(q) = Len(p) + 1 /\ \A l \in 1 .. Len(p) : p[l] = q[l + 1]
  BY <1>1, HeadTailProperties
<1>3. /\ z \in Seq(S) /\ Len(z) = m + Len(p)
      /\ \A i \in 1 .. m + Len(p) : z[i] = IF i <= m THEN r[i] ELSE p[i - m]
  BY <1>1, <1>2, ConcatProperties
<1>4. /\ DOMAIN z = 1 .. m + Len(p) /\ m \in Nat /\ Len(p) \in Nat /\ DOMAIN q = 1 .. Len(p) + 1 /\ DOMAIN r = 1 .. m
  BY <1>1, <1>2, <1>3, LenProperties
<1> HIDE DEF p, m, z
<1>5. /\ \A i \in 1 .. m : i \in DOMAIN z /\ z[i] = r[i]
      /\ \A i \in 2 .. Len(p) + 1 : i + m - 1 \in DOMAIN z /\ z[i + m - 1] = q[i]
  <2>1. \A i \in 1 .. m : i \in DOMAIN z /\ z[i] = r[i]
    BY ONLY <1>3, <1>4
  <2>2. ASSUME NEW i \in 2 .. Len(p) + 1 PROVE i + m - 1 \in DOMAIN z /\ z[i + m - 1] = q[i]
    <3>1. i + m - 1 \in 1 .. m + Len(p) /\ ~(i + m - 1 <= m) /\ (i + m - 1) - m = i - 1 /\ i - 1 \in 1 .. Len(p) /\ (i - 1) + 1 = i
      BY ONLY <1>4
    <3> QED
      BY ONLY <1>2, <1>3, <1>4, <3>1
  <2> QED
    BY <2>1, <2>2
<1>6. ASSUME NEW k \in DOMAIN z
      PROVE  \/ k \in 1 .. m
             \/ \E i \in 2 .. Len(p) + 1 : k = i + m - 1
  <2>1. ~(k <= m) => k - m + 1 \in 2 .. Len(p) + 1 /\ k = (k - m + 1) + m - 1
    BY ONLY <1>4, <1>6
  <2>2. k <= m => k \in 1 .. m
    BY ONLY <1>4, <1>6
  <2> QED
    BY ONLY <2>1, <2>2
<1>7. ASSUME NEW k \in 1 .. m
      PROVE  /\ IsEosCall(z[k])
             /\ z[k].op = "close" /\ IsLastStep(z[k].to) =>
                   \E l \in DOMAIN z : l < k /\ z[l].op = "push" /\ z[l].to = Combiner
  <2>1. k \in DOMAIN r /\ z[k] = r[k] /\ \A l \in DOMAIN r : l \in DOMAIN z /\ z[l] = r[l]
    BY <1>4, <1>5
  <2> QED
    BY <2>1 DEF EosSequence
<1>8. ASSUME NEW i \in 2 .. Len(p) + 1
      PROVE  /\ IsEosCall(z[i + m - 1])
             /\ z[i + m - 1].op = "close" /\ IsLastStep(z[i + m - 1].to) =>
                   \E l \in DOMAIN z : l < i + m - 1 /\ z[l].op = "push" /\ z[l].to = Combiner
  <2>1. i \in DOMAIN q /\ z[i + m - 1] = q[i]
    BY <1>4, <1>5
  <2>2. IsEosCall(q[i]) /\ (q[i].op = "close" /\ IsLastStep(q[i].to) =>
             \E l \in DOMAIN q : l < i /\ q[l].op = "push" /\ q[l].to = Combiner)
    BY <2>1 DEF EosSequence
  <2>3. ASSUME NEW l \in DOMAIN q, l < i, q[l].op = "push", q[l].to = Combiner
        PROVE  l + m - 1 \in DOMAIN z /\ l + m - 1 < i + m - 1 /\ z[l + m - 1] = q[l]
    <3>1. l # 1
      BY <2>3
    <3>2. l \in 2 .. Len(p) + 1 /\ l + m - 1 < i + m - 1
      BY ONLY <1>4, <2>3, <3>1
    <3> QED
      BY <1>5, <3>2
  <2> QED
    BY <2>1, <2>2, <2>3
<1>9. EosSequence(z)
  BY <1>6, <1>7, <1>8 DEF EosSequence
<1> QED
  BY <1>9 DEF z, p

\* A thread whose stack does not change keeps what is known of it.
LEMMA FlowStays ==
    ASSUME plan' = plan, NEW u, stack'[u] = stack[u], numSent'[u] = numSent[u]
    PROVE  /\ HandsEosOn(u) => HandsEosOn(u)'
           /\ Current(u)' = Current(u)
           /\ Relays(u) /\ (\A s \in Stages : <<s, Current(u)>> \in Threads' => <<s, Current(u)>> \in Threads) => Relays(u)'
           /\ Delivers(u) /\ produced \subseteq produced' /\ ~InBuffer(Group(u[1]), Current(u))' => Delivers(u)'
<1>1. /\ Current(u)' = Current(u) /\ Stages' = Stages /\ (IsFinal(u)' <=> IsFinal(u))
      /\ \A s : IsNextStage(u, s)' <=> IsNextStage(u, s)
      /\ \A q : EosSequence(q)' <=> EosSequence(q)
  BY SamePair DEF Current, AnswerOf
<1>2. HandsEosOn(u) => HandsEosOn(u)'
  BY <1>1 DEF HandsEosOn
<1>3. ASSUME Relays(u), \A s \in Stages : <<s, Current(u)>> \in Threads' => <<s, Current(u)>> \in Threads
      PROVE  Relays(u)'
  <2>1. ~IsFinal(u)' /\ numSent'[u] >= 1
    BY <1>1, <1>3 DEF Relays
  <2>2. ASSUME NEW k \in DOMAIN stack[u]
        PROVE  /\ stack[u][k].op = "push" /\ stack[u][k].msg = Current(u)
               /\ \/ /\ IsNextStage(u, stack[u][k].to)' /\ <<stack[u][k].to, Current(u)>> \notin Threads'
                     /\ \A l \in DOMAIN stack[u] : stack[u][l].to = stack[u][k].to => k = l
                  \/ /\ stack[u][k].to = Home(u) /\ Len(stack[u]) = 1
                     /\ \A s \in Stages : <<s, Current(u)>> \notin Threads'
    <3>1. PICK x : x = stack[u][k].to
      OBVIOUS
    <3>2. IsNextStage(u, x) => x \in Stages
      BY DEF IsNextStage
    <3>3. IsNextStage(u, x)' <=> IsNextStage(u, x)
      BY <1>1
    <3>4. /\ stack[u][k].op = "push" /\ stack[u][k].msg = Current(u)
          /\ \/ /\ IsNextStage(u, x) /\ <<x, Current(u)>> \notin Threads
                /\ \A l \in DOMAIN stack[u] : stack[u][l].to = x => k = l
             \/ /\ x = Home(u) /\ Len(stack[u]) = 1
                /\ \A s \in Stages : <<s, Current(u)>> \notin Threads
      BY <1>3, <3>1 DEF Relays
    <3>5. IsNextStage(u, stack[u][k].to)' <=> IsNextStage(u, x)
      <4>1. stack'[u][k].to = x
        BY <3>1
      <4> QED
        BY <1>1, <3>1, <4>1, SamePair DEF IsNextStage
    <3> QED
      BY <1>3, <3>1, <3>2, <3>4, <3>5
  <2> QED
    BY <1>1, <2>1, <2>2 DEF Relays
<1>4. ASSUME Delivers(u), produced \subseteq produced', ~InBuffer(Group(u[1]), Current(u))'
      PROVE  Delivers(u)'
  BY <1>1, <1>4 DEF Delivers, Home
<1> QED
  BY <1>1, <1>2, <1>3, <1>4

\* All threads keep what is known of them if the one that takes the step does.
LEMMA FlowsStep ==
    ASSUME Typed, plan' = plan, Flows, NEW t, NEW calls, Shape(t, calls),
           \A u \in Threads \ {t} : numSent'[u] = numSent[u], produced \subseteq produced',
           \A u \in Threads \ {t} : Delivers(u) => ~InBuffer(Group(u[1]), Current(u))',
           \A u \in Threads \ {t} : Relays(u) =>
               \A s \in Stages : <<s, Current(u)>> \in Threads' => <<s, Current(u)>> \in Threads,
           \A u \in Threads \ {t} : u # bufferLock' => u # bufferLock,
           t # bufferLock' => HandsEosOn(t)' \/ Relays(t)' \/ Delivers(t)'
    PROVE  Flows' /\ \A u \in Threads \ {t} : Delivers(u) => Delivers(u)' /\ Current(u)' = Current(u)
<1>1. ASSUME NEW u \in Threads \ {t}
      PROVE  /\ Delivers(u) => Delivers(u)' /\ Current(u)' = Current(u)
             /\ u # bufferLock' => HandsEosOn(u)' \/ Relays(u)' \/ Delivers(u)'
  <2>1. stack'[u] = stack[u] /\ numSent'[u] = numSent[u]
    BY DEF Shape
  <2>2. u # bufferLock => HandsEosOn(u) \/ Relays(u) \/ Delivers(u)
    BY DEF Flows
  <2> QED
    BY <2>1, <2>2, FlowStays
<1>2. ASSUME NEW u \in Threads' \ Threads PROVE HandsEosOn(u)'
  <2>1. stack'[u] = <<>>
    BY DEF Shape
  <2> QED
    BY <2>1, EmptyIsSequence DEF HandsEosOn, EosSequence
<1> QED
  BY <1>1, <1>2 DEF Flows

\* The buffers have what was delivered if the step delivers what it produces.
LEMMA BufferedStep ==
    ASSUME Typed, Typed', plan' = plan, Buffered, NEW t \in Threads, Threads \subseteq Threads', buffer' = buffer,
           \A u \in Threads : numSent'[u] >= numSent[u],
           \A u \in Threads \ {t} : Delivers(u) => Delivers(u)' /\ Current(u)' = Current(u),
           \A u \in Threads : u # bufferLock => u # bufferLock',
           t # bufferLock /\ Delivers(t) => Delivers(t)' /\ Current(t)' = Current(t),
           produced \subseteq produced',
           \A p \in produced' \ produced :
               /\ t # bufferLock' /\ Delivers(t)' /\ Group(t[1]) \in Groups /\ p = <<Group(t[1]), Current(t)'>>
    PROVE  Buffered'
<1>1. Groups' = Groups /\ \A u : IsFinal(u)' <=> IsFinal(u)
  BY SamePair
<1>2. \A g, a : InBuffer(g, a)' <=> InBuffer(g, a)
  BY DEF InBuffer
<1>3. \A g \in Groups : /\ IsSequence(buffer[g])
                        /\ \A i \in DOMAIN buffer[g] : <<g, buffer[g][i]>> \in produced'
                        /\ \A i, j \in DOMAIN buffer[g] : buffer[g][i] = buffer[g][j] => i = j
  BY DEF Buffered
<1>4. ASSUME NEW g, NEW a, IsAnswerOf(g, a) PROVE IsAnswerOf(g, a)'
  <2>1. PICK u \in Threads : IsFinal(u) /\ Group(u[1]) = g /\ \E k \in 1 .. numSent[u] : a = AnswerOf(u, k)
    BY <1>4 DEF IsAnswerOf
  <2>2. PICK k \in 1 .. numSent[u] : a = AnswerOf(u, k)
    BY <2>1
  <2>3. u \in Threads' /\ k \in 1 .. numSent'[u] /\ IsFinal(u)'
    <3>1. numSent[u] \in Nat /\ numSent'[u] \in Nat /\ numSent'[u] >= numSent[u]
      BY DEF Typed
    <3> QED
      BY <1>1, <2>1, <3>1
  <2>4. AnswerOf(u, k)' = AnswerOf(u, k)
    BY DEF AnswerOf
  <2> QED
    BY <2>1, <2>2, <2>3, <2>4 DEF IsAnswerOf
<1>5. ASSUME NEW p \in produced
      PROVE  /\ p[1] \in Groups /\ p = <<p[1], p[2]>> /\ IsAnswerOf(p[1], p[2])'
             /\ \/ InBuffer(p[1], p[2])'
                \/ \E u \in Threads' : u # bufferLock' /\ Delivers(u)' /\ Group(u[1]) = p[1] /\ Current(u)' = p[2]
  <2>1. /\ p[1] \in Groups /\ p = <<p[1], p[2]>> /\ IsAnswerOf(p[1], p[2])
        /\ \/ InBuffer(p[1], p[2])
           \/ \E u \in Threads : u # bufferLock /\ Delivers(u) /\ Group(u[1]) = p[1] /\ Current(u) = p[2]
    BY DEF Buffered
  <2>2. IsAnswerOf(p[1], p[2])'
    BY <1>4, <2>1
  <2>3. CASE InBuffer(p[1], p[2])
    BY <1>2, <2>1, <2>2, <2>3
  <2>4. ASSUME NEW u \in Threads, u # bufferLock, Delivers(u), Group(u[1]) = p[1], Current(u) = p[2]
        PROVE  u \in Threads' /\ u # bufferLock' /\ Delivers(u)' /\ Group(u[1]) = p[1] /\ Current(u)' = p[2]
    BY <2>4
  <2> QED
    BY <2>1, <2>2, <2>3, <2>4
<1>6. ASSUME NEW p \in produced' \ produced
      PROVE  /\ p[1] \in Groups /\ p = <<p[1], p[2]>> /\ IsAnswerOf(p[1], p[2])'
             /\ t \in Threads' /\ t # bufferLock' /\ Delivers(t)' /\ Group(t[1]) = p[1] /\ Current(t)' = p[2]
  <2>1. /\ t # bufferLock' /\ Delivers(t)' /\ Group(t[1]) \in Groups /\ p[1] = Group(t[1]) /\ p[2] = Current(t)'
        /\ p = <<p[1], p[2]>> /\ t \in Threads'
    OBVIOUS
  <2>2. IsFinal(t)' /\ numSent'[t] >= 1 /\ numSent'[t] \in Nat
    BY <2>1 DEF Delivers, Typed
  <2>3. numSent'[t] \in 1 .. numSent'[t]
    BY <2>2
  <2>4. Current(t)' = AnswerOf(t, numSent'[t])
    BY DEF Current, AnswerOf
  <2>5. AnswerOf(t, numSent'[t]) = AnswerOf(t, numSent[t])'
    BY DEF AnswerOf
  <2> DEFINE n == numSent'[t]
  <2>6. \E k \in 1 .. n : p[2] = (IF t = Source THEN {Choice(Edb, k)} ELSE t[2] \cup {Choice(t[1], k)})
    BY <2>1, <2>3, <2>4 DEF AnswerOf
  <2>7. IsAnswerOf(p[1], p[2])'
    BY <2>1, <2>2, <2>6 DEF IsAnswerOf, AnswerOf
  <2> QED
    BY <2>1, <2>7
<1>7. ASSUME NEW p \in produced'
      PROVE  /\ p[1] \in Groups /\ p = <<p[1], p[2]>> /\ IsAnswerOf(p[1], p[2])'
             /\ \/ InBuffer(p[1], p[2])'
                \/ \E u \in Threads' : u # bufferLock' /\ Delivers(u)' /\ Group(u[1]) = p[1] /\ Current(u)' = p[2]
  <2>1. CASE p \in produced
    BY <1>5, <2>1
  <2>2. CASE p \notin produced
    BY <1>6, <2>2
  <2> QED
    BY <2>1, <2>2
<1>8. /\ \A p \in produced' :
            /\ p[1] \in Groups' /\ p = <<p[1], p[2]>> /\ IsAnswerOf(p[1], p[2])'
            /\ \/ InBuffer(p[1], p[2])'
               \/ \E u \in Threads' : u # bufferLock' /\ Delivers(u)' /\ Group(u[1]) = p[1] /\ Current(u)' = p[2]
  BY <1>1, <1>7
<1>9. \A g \in Groups' : /\ IsSequence(buffer'[g])
                         /\ \A i \in DOMAIN buffer'[g] : <<g, buffer'[g][i]>> \in produced'
                         /\ \A i, j \in DOMAIN buffer'[g] : buffer'[g][i] = buffer'[g][j] => i = j
  BY <1>1, <1>3
<1> QED
  BY <1>8, <1>9 DEF Buffered

\* Where the combiner is depends on the buffers, the reader and the thread that holds the lock.
LEMMA CombinatorStays ==
    ASSUME plan' = plan, UNCHANGED <<buffer, bufferLock, output>>, Combinator,
           bufferLock # NoThread => /\ bufferLock \in Threads' /\ stack'[bufferLock] = stack[bufferLock]
                                    /\ numSent'[bufferLock] >= 1
    PROVE  Combinator'
<1>1. ASSUME NEW todo, NEW pending PROVE Combined(todo, pending)' <=> Combined(todo, pending)
  BY SamePair DEF Combined, Unifying, CombinationOf, Selections, Unifies, Copy
<1>2. CASE bufferLock = NoThread
  BY <1>1, <1>2 DEF Combinator
<1>3. CASE bufferLock # NoThread
  <2>1. PICK t : t = bufferLock
    OBVIOUS
  <2>2. bufferLock' = t /\ stack'[t] = stack[t] /\ (IsFinal(t)' <=> IsFinal(t)) /\ t \in Threads' /\ numSent'[t] >= 1
    BY <1>3, <2>1, SamePair
  <2>3. PICK todo, pending : Pushes(todo, pending) /\ Combined(todo, pending)
    BY <1>3 DEF Combinator
  <2>4. Pushes(todo, pending)'
    BY <2>1, <2>2, <2>3 DEF Pushes
  <2>5. IsFinal(t) /\ t # NoThread
    BY <1>3, <2>1 DEF Combinator
  <2>6. \E x, y : Pushes(x, y)' /\ Combined(x, y)'
    BY <1>1, <2>3, <2>4
  <2>7. IsFinal(bufferLock)'
    BY <2>2, <2>5 DEF IsFinal
  <2> QED
    BY <2>2, <2>5, <2>6, <2>7 DEF Combinator
<1> QED
  BY <1>2, <1>3

\* The thread that holds the lock is pushing a combination, or about to push the next.
LEMMA LockHolder ==
    ASSUME Typed, Combinator, bufferLock # NoThread
    PROVE  /\ bufferLock \in Threads /\ bufferLock # Source /\ IsFinal(bufferLock)
           /\ numSent[bufferLock] >= 1 /\ stack[bufferLock] # <<>>
           /\ \/ stack[bufferLock][1].op = "combine"
              \/ stack[bufferLock][1].op = "push" /\ stack[bufferLock][1].to \in {Idb, Reader}
<1>1. /\ bufferLock \in Threads /\ IsFinal(bufferLock) /\ numSent[bufferLock] >= 1
      /\ \E todo, pending : Pushes(todo, pending)
  BY DEF Combinator
<1>2. PICK todo, pending : Pushes(todo, pending)
  BY <1>1
<1>3. \A q : q = <<Combining(todo)>> => q # <<>> /\ q[1] = Combining(todo)
  OBVIOUS
<1>4. \A q, m, c : q = <<m, c>> => q # <<>> /\ q[1] = m
  OBVIOUS
<1> QED
  BY <1>1, <1>2, <1>3, <1>4, CallsAre DEF Pushes, Combining, IsFinal

\* A step of a thread that does not hold the lock.
LEMMA PairStep ==
    ASSUME Typed, Typed', IsPair, plan' = plan, PairInv, NEW t \in Threads, t # bufferLock,
           NEW calls, Shape(t, calls), UNCHANGED <<buffer, bufferLock, output>>,
           \A u \in Threads \ {t} : numSent'[u] = numSent[u], numSent'[t] >= numSent[t],
           \A u \in Threads \ {t} : Relays(u) =>
               \A s \in Stages : <<s, Current(u)>> \in Threads' => <<s, Current(u)>> \in Threads,
           HandsEosOn(t)' \/ Relays(t)' \/ Delivers(t)',
           Delivers(t) => Delivers(t)' /\ Current(t)' = Current(t),
           produced \subseteq produced',
           \A p \in produced' \ produced :
               Delivers(t)' /\ Group(t[1]) \in Groups /\ p = <<Group(t[1]), Current(t)'>>,
           Opened'
    PROVE  PairInv'
<1>1. \A u \in Threads \ {t} : Delivers(u) => ~InBuffer(Group(u[1]), Current(u))'
  <2>1. \A u \in Threads \ {t} : Current(u)' = Current(u)
    BY DEF Current, AnswerOf
  <2> QED
    BY <2>1 DEF InBuffer, Delivers
<1>2. Flows' /\ \A u \in Threads \ {t} : Delivers(u) => Delivers(u)' /\ Current(u)' = Current(u)
  BY <1>1, FlowsStep DEF PairInv
<1>3. Threads \subseteq Threads' /\ \A u \in Threads : numSent'[u] >= numSent[u]
  BY DEF Shape, Typed
<1>4. Buffered'
  BY <1>2, <1>3, BufferedStep DEF PairInv
<1>5. Combinator'
  <2>1. bufferLock # NoThread => /\ bufferLock \in Threads' /\ stack'[bufferLock] = stack[bufferLock]
                                 /\ numSent'[bufferLock] >= 1
    BY <1>3, LockHolder DEF PairInv, Shape
  <2> QED
    BY <2>1, CombinatorStays DEF PairInv
<1> QED
  BY <1>2, <1>4, <1>5 DEF PairInv

\* A step of a thread that hands EOS on.
LEMMA EosUpstream ==
    ASSUME Typed, Typed', IsPair, plan' = plan, PairInv, NEW t \in Threads, t # bufferLock,
           NEW calls, Shape(t, calls), UNCHANGED <<buffer, bufferLock, output, produced>>, Threads' = Threads,
           \A u \in Threads \ {t} : numSent'[u] = numSent[u], numSent'[t] >= numSent[t],
           EosSequence(calls), Opened',
           \/ stack[t] = <<>>
           \/ HandsEosOn(t) /\ ~(stack[t][1].op = "push" /\ stack[t][1].to = Combiner)
    PROVE  PairInv'
<1>1. HandsEosOn(t)'
  <2>1. CASE stack[t] = <<>>
    <3>1. stack'[t] = calls
      BY <2>1 DEF Shape
    <3> QED
      BY <3>1, SamePair DEF HandsEosOn
  <2>2. CASE stack[t] # <<>>
    <3>1. stack'[t] = calls \o Tail(stack[t]) /\ IsSequence(calls)
      BY <2>2 DEF Shape
    <3>2. EosSequence(calls \o Tail(stack[t]))
      BY <2>2, <3>1, EosReplaced DEF HandsEosOn, Typed
    <3> QED
      BY <3>1, <3>2, SamePair DEF HandsEosOn
  <2> QED
    BY <2>1, <2>2
<1>2. ~Delivers(t)
  <2>1. \A q, c : q = <<c>> => q # <<>> /\ 1 \in DOMAIN q /\ q[1] = c
    OBVIOUS
  <2>2. Current(t) # EOS
    BY AnswersAreNotEos DEF Current
  <2> QED
    BY <2>1, <2>2, CallsAre DEF Delivers, HandsEosOn, EosSequence, IsEosCall
<1> QED
  BY <1>1, <1>2, PairStep

\* Streams stay open, and stages without work closed, if a step leaves them as they were.
LEMMA SameOpened ==
    ASSUME plan' = plan, Opened, UNCHANGED <<isOpened, isQueryOpened, graphQueries>>
    PROVE  Opened'
BY SamePair DEF Opened

\* The steps that hand EOS on.
LEMMA EndInputPair ==
    ASSUME Typed, IsPair, PairInv, EndInput
    PROVE  PairInv'
<1>1. PICK calls : calls = <<Push(Source, Edb, EOS)>> /\ Shape(Source, calls)
  BY EndInputDoes
<1>2. /\ Typed' /\ Threads' = Threads /\ stack[Source] = <<>> /\ numSent'[Source] >= numSent[Source]
      /\ \A u \in Threads \ {Source} : numSent'[u] = numSent[u]
      /\ Source \in Threads /\ Source # NoThread
  <2>1. numSent[Source] \in Nat /\ NumInputs[plan] \in Nat /\ numSent[Source] <= NumInputs[plan] /\ numSent'[Source] = NumInputs[plan] + 1
    BY EndInputDoes, Plan DEF Typed
  <2>2. numSent'[Source] >= numSent[Source]
    BY <2>1
  <2> QED
    BY <2>2, EndInputDoes, HomeOf DEF Typed
<1>3. Source # bufferLock
  BY <1>2, LockHolder DEF PairInv
<1>4. EosSequence(calls)
  <2>1. DOMAIN calls = {1} /\ calls[1] = Push(Source, Edb, EOS)
    BY <1>1
  <2>2. IsEosCall(Push(Source, Edb, EOS)) /\ Push(Source, Edb, EOS).op # "close"
    BY CallsAre, Names DEF IsEosCall
  <2> QED
    BY <2>1, <2>2 DEF EosSequence
<1>5. UNCHANGED <<plan, isOpened, isQueryOpened, graphQueries, buffer, bufferLock, output, produced>>
  BY DEF EndInput, streamVars, stageVars, combinerVars, readerVars
<1> QED
  BY <1>1, <1>2, <1>3, <1>4, <1>5, EosUpstream, SameOpened DEF PairInv

\* A stream closes; those behind the last literals stay open.
LEMMA CloseStreamPair ==
    ASSUME Typed, IsPair, PairInv, NEW t \in Threads, CloseStream(t)
    PROVE  PairInv'
<1>1. /\ Typed' /\ Threads' = Threads /\ stack[t] # <<>> /\ 1 \in DOMAIN stack[t] /\ stack[t][1].op = "close"
      /\ isOpened' = [isOpened EXCEPT ![stack[t][1].to] = FALSE] /\ Shape(t, <<>>)
  BY CloseStreamDoes
<1>2. UNCHANGED <<plan, numSent, isQueryOpened, graphQueries, buffer, bufferLock, output, produced>>
  BY DEF CloseStream, stageVars, combinerVars, readerVars
<1>3. t # bufferLock
  BY <1>1, HomeOf, LockHolder DEF PairInv
<1>4. HandsEosOn(t)
  <2>1. ~Relays(t)
    BY <1>1 DEF Relays
  <2>2. ~Delivers(t)
    <3>1. \A q, c : q = <<c>> => q[1] = c
      OBVIOUS
    <3> QED
      BY <1>1, <3>1, CallsAre DEF Delivers
  <2> QED
    BY <1>3, <2>1, <2>2 DEF PairInv, Flows
<1>5. PICK n : n = stack[t][1].to
  OBVIOUS
<1>6. n # Idb /\ ~IsLastStep(n)
  <2>1. IsEosCall(stack[t][1])
    BY <1>1, <1>4 DEF HandsEosOn, EosSequence
  <2>2. DOMAIN stack[t] = 1 .. Len(stack[t]) /\ Len(stack[t]) \in Nat
    BY LenProperties DEF Typed, IsSequence
  <2>3. \A l \in DOMAIN stack[t] : ~(l < 1)
    BY <2>2
  <2> QED
    BY <1>1, <1>4, <1>5, <2>1, <2>3 DEF HandsEosOn, EosSequence, IsEosCall
<1>7. Opened'
  <2>1. \A g \in Groups : IsLastStep(Step(g, plan[g])) /\ Step(g, plan[g]) \in Streams
    BY PairStreams, Kinds DEF Typed, IsLastStep
  <2>2. Idb \in Streams
    BY PairStreams, Kinds DEF Typed
  <2>3. isOpened'[Idb] /\ \A g \in Groups : isOpened'[Step(g, plan[g])]
    BY <1>1, <1>5, <1>6, <2>1, <2>2 DEF PairInv, Opened, Typed
  <2> QED
    BY <1>2, <2>3, SamePair DEF PairInv, Opened
<1>8. EosSequence(<<>>)
  BY EmptyIsSequence DEF EosSequence
<1>9. numSent'[t] >= numSent[t]
  BY <1>2 DEF Typed
<1> QED
  BY <1>1, <1>2, <1>3, <1>4, <1>7, <1>8, <1>9, EosUpstream

\* A thread whose next call is EOS hands EOS on.
LEMMA EosOnTop ==
    ASSUME Typed, IsPair, PairInv, NEW t \in Threads, stack[t] # <<>>, 1 \in DOMAIN stack[t],
           stack[t][1].op = "push", stack[t][1].msg = EOS, NoEos
    PROVE  t # bufferLock /\ HandsEosOn(t) /\ IsEosCall(stack[t][1])
<1>1. t # bufferLock
  BY HomeOf, LockHolder DEF PairInv, NoEos
<1>2. Current(t) # EOS
  BY AnswersAreNotEos DEF Current
<1>3. \A q, c : q = <<c>> => q[1] = c
  OBVIOUS
<1>4. ~Relays(t)
  BY <1>2 DEF Relays
<1>5. ~Delivers(t)
  BY <1>2, <1>3, CallsAre DEF Delivers
<1>6. HandsEosOn(t)
  BY <1>1, <1>4, <1>5 DEF PairInv, Flows
<1> QED
  BY <1>1, <1>6 DEF HandsEosOn, EosSequence

\* A broadcaster gets EOS of a channel, and hands it on after the last one.
LEMMA BroadcastEosPair ==
    ASSUME Typed, IsPair, PairInv, NoEos, NEW t \in Threads, BroadcastEos(t)
    PROVE  PairInv'
<1>1. /\ Typed' /\ Threads' = Threads /\ stack[t] # <<>> /\ 1 \in DOMAIN stack[t]
      /\ stack[t][1].op = "push" /\ stack[t][1].msg = EOS
  BY BroadcastEosDoes
<1>2. PICK n \in Broadcasters : \E calls, left :
         /\ n = stack[t][1].to /\ Shape(t, calls)
         /\ calls = (IF isOpened[n] /\ left # {} THEN <<>> ELSE Broadcast(n, EOS) \o <<Close(n)>>)
  BY BroadcastEosDoes
<1>3. PICK calls : /\ Shape(t, calls) /\ n = stack[t][1].to
                   /\ calls = <<>> \/ calls = Broadcast(n, EOS) \o <<Close(n)>>
  BY <1>2
<1>4. UNCHANGED <<plan, numSent, isOpened, isQueryOpened, graphQueries, buffer, bufferLock, output, produced>>
  BY DEF BroadcastEos, stageVars, combinerVars, readerVars
<1>5. t # bufferLock /\ HandsEosOn(t) /\ IsEosCall(stack[t][1])
  BY <1>1, EosOnTop
<1>6. n \in Streams /\ n \notin {Combiner, Idb}
  BY <1>1, <1>3, <1>5, Kinds DEF IsEosCall
<1>7. EosSequence(calls)
  BY <1>3, <1>6, EndsOrderly DEF Typed
<1>8. numSent'[t] >= numSent[t]
  BY <1>4 DEF Typed
<1>9. stack[t][1].to # Combiner
  BY <1>3, <1>6
<1> QED
  BY <1>1, <1>3, <1>4, <1>5, <1>7, <1>8, <1>9, EosUpstream, SameOpened DEF PairInv

\* The input of a stage has ended.
LEMMA StageEosPair ==
    ASSUME Typed, IsPair, PairInv, NoEos, NEW t \in Threads, StageEos(t)
    PROVE  PairInv'
<1>1. /\ Typed' /\ Threads' = Threads /\ stack[t] # <<>> /\ 1 \in DOMAIN stack[t]
      /\ stack[t][1].op = "push" /\ stack[t][1].msg = EOS
  BY StageEosDoes
<1>2. PICK s \in Stages : \E calls :
         /\ s = stack[t][1].to /\ Shape(t, calls) /\ EosCalls(s, calls)
         /\ isQueryOpened' = [isQueryOpened EXCEPT ![s] = @ /\ graphQueries[s] # {}]
  BY StageEosDoes
<1>3. PICK calls : Shape(t, calls) /\ EosCalls(s, calls)
  BY <1>2
<1>4. UNCHANGED <<plan, numSent, isOpened, graphQueries, buffer, bufferLock, output, produced>>
  BY DEF StageEos, combinerVars, readerVars
<1>5. t # bufferLock /\ HandsEosOn(t) /\ IsEosCall(stack[t][1])
  BY <1>1, EosOnTop
<1>6. s \in Streams /\ s \notin {Combiner, Idb} /\ ~IsLastStep(s)
  BY Kinds DEF IsLastStep
<1>7. EosSequence(calls)
  BY <1>3, <1>6, EndsOrderly DEF Typed
<1>8. Opened'
  <2>1. \A r \in Stages : ~isQueryOpened'[r] => graphQueries[r] = {}
    BY <1>2 DEF PairInv, Opened, Typed
  <2> QED
    BY <1>4, <2>1, SamePair DEF PairInv, Opened
<1>9. numSent'[t] >= numSent[t]
  BY <1>4 DEF Typed
<1>10. stack[t][1].to # Combiner
  BY <1>2, <1>6
<1> QED
  BY <1>1, <1>3, <1>4, <1>5, <1>7, <1>8, <1>9, <1>10, EosUpstream

\* A query has ended.
LEMMA EndQueryPair ==
    ASSUME Typed, IsPair, PairInv, NEW q \in Threads, EndQuery(q)
    PROVE  PairInv'
<1>1. /\ Typed' /\ Threads' = Threads /\ stack[q] = <<>> /\ q[1] \in Stages
      /\ graphQueries' = [graphQueries EXCEPT ![q[1]] = @ \ {q[2]}]
  BY EndQueryDoes
<1>2. PICK calls, isLast :
         /\ isLast = (graphQueries[q[1]] = {q[2]} /\ ~isAwaitingInput[q[1]])
         /\ isQueryOpened' = [isQueryOpened EXCEPT ![q[1]] = @ /\ ~isLast]
         /\ EosCalls(q[1], calls) /\ Shape(q, calls)
  BY EndQueryDoes
<1>3. UNCHANGED <<plan, numSent, isOpened, buffer, bufferLock, output, produced>>
  BY DEF EndQuery, streamVars, combinerVars, readerVars
<1>4. q # bufferLock
  BY <1>1, HomeOf, LockHolder DEF PairInv
<1>5. EosSequence(calls)
  <2>1. q[1] \in Streams /\ q[1] \notin {Combiner, Idb} /\ ~IsLastStep(q[1])
    BY <1>1, Kinds DEF IsLastStep
  <2> QED
    BY <1>2, <2>1, EndsOrderly DEF Typed
<1>6. Opened'
  <2>1. \A r \in Stages : ~isQueryOpened'[r] => graphQueries'[r] = {}
    <3>1. \A r \in Stages : r # q[1] => isQueryOpened'[r] = isQueryOpened[r] /\ graphQueries'[r] = graphQueries[r]
      BY <1>1, <1>2 DEF Typed
    <3>2. isQueryOpened'[q[1]] = (isQueryOpened[q[1]] /\ ~isLast) /\ graphQueries'[q[1]] = graphQueries[q[1]] \ {q[2]}
      BY <1>1, <1>2 DEF Typed
    <3>3. \A r \in Stages : ~isQueryOpened[r] => graphQueries[r] = {}
      BY DEF PairInv, Opened
    <3> QED
      BY <1>1, <1>2, <3>1, <3>2, <3>3
  <2> QED
    BY <1>3, <2>1, SamePair DEF PairInv, Opened
<1>7. numSent'[q] >= numSent[q]
  BY <1>3 DEF Typed
<1> QED
  BY <1>1, <1>2, <1>3, <1>4, <1>5, <1>6, <1>7, EosUpstream

\* A new answer is in no buffer, and no thread has started with it.
LEMMA NewAnswerPair ==
    ASSUME Typed, Born, Buffered, NEW t \in Threads, NEW a, a = AnswerOf(t, numSent[t] + 1)
    PROVE  /\ \A s \in Stages : <<s, a>> \notin Threads
           /\ \A g \in Groups : ~InBuffer(g, a)
<1>1. numSent[t] \in Nat /\ numSent[t] + 1 \in Nat
  BY DEF Typed
<1>2. ASSUME NEW u \in Threads, NEW k \in 1 .. numSent[u] PROVE a # AnswerOf(u, k)
  <2>1. k \in Nat /\ numSent[u] \in Nat
    BY DEF Typed
  <2>2. a = AnswerOf(u, k) => u = t /\ k = numSent[t] + 1
    BY <1>1, <2>1, AnswersDiffer
  <2> QED
    BY <1>1, <2>2
<1>3. ASSUME NEW s \in Stages, <<s, a>> \in Threads PROVE FALSE
  <2>1. <<s, a>> # Source /\ <<s, a>>[2] = a
    BY DEF Source
  <2> QED
    BY <1>2, <1>3, <2>1 DEF Born
<1>4. ASSUME NEW g \in Groups, InBuffer(g, a) PROVE FALSE
  <2>1. <<g, a>> \in produced
    BY <1>4 DEF InBuffer, Buffered
  <2>2. IsAnswerOf(g, a)
    BY <2>1 DEF Buffered
  <2> QED
    BY <1>2, <2>2 DEF IsAnswerOf
<1> QED
  BY <1>3, <1>4

\* A new answer to the input.
LEMMA PushInputPair ==
    ASSUME Typed, IsPair, Born, PairInv, PushInput
    PROVE  PairInv'
<1> DEFINE n == numSent[Source] + 1
<1>1. /\ Typed' /\ Threads' = Threads /\ stack[Source] = <<>> /\ numSent'[Source] = n
      /\ \A u \in Threads \ {Source} : numSent'[u] = numSent[u]
  BY PushInputDoes
<1>2. PICK a : a = AnswerOf(Source, n)
  OBVIOUS
<1>3. PICK calls : calls = <<Push(Source, Edb, a)>> /\ Shape(Source, calls)
  BY <1>2, PushInputDoes
<1>4. Source \in Threads /\ n \in Nat /\ n >= 1 /\ n >= numSent[Source]
  <2>1. Source \in Threads /\ numSent[Source] \in Nat
    BY DEF Typed
  <2> QED
    BY <2>1
<1>5. Source # bufferLock
  BY <1>1, <1>4, HomeOf, LockHolder DEF PairInv
<1>6. UNCHANGED <<plan, isOpened, isQueryOpened, graphQueries, buffer, bufferLock, output, produced>>
  <2>1. Groups # {}
    BY PairStreams DEF Typed
  <2> QED
    BY <2>1 DEF PushInput, streamVars, stageVars, combinerVars
<1>7. \A s \in Stages : <<s, a>> \notin Threads
  BY <1>2, <1>4, NewAnswerPair DEF PairInv
<1>8. Relays(Source)'
  <2>1. ~IsFinal(Source)' /\ Home(Source) = Edb
    BY DEF IsFinal, Home
  <2>2. Current(Source)' = a
    BY <1>1, <1>2 DEF Current, AnswerOf
  <2>3. stack'[Source] = calls
    BY <1>1, <1>3 DEF Shape
  <2>4. DOMAIN calls = {1} /\ Len(calls) = 1 /\ calls[1].op = "push" /\ calls[1].to = Edb /\ calls[1].msg = a
    BY <1>3, CallsAre
  <2>5. \A s \in Stages' : <<s, a>> \notin Threads'
    BY <1>1, <1>6, <1>7, SamePair
  <2> HIDE DEF n
  <2>6. Home(Source)' = Edb
    BY DEF Home
  <2> QED
    BY <1>1, <1>4, <2>1, <2>2, <2>3, <2>4, <2>5, <2>6 DEF Relays
<1>9. ~Delivers(Source)
  BY DEF Delivers, IsFinal
<1> HIDE DEF n
<1> QED
  BY <1>1, <1>3, <1>4, <1>5, <1>6, <1>8, <1>9, PairStep, SameOpened DEF PairInv

\* A new answer to a literal; to a last literal, it will be delivered.
LEMMA PushAnswerPair ==
    ASSUME Typed, IsPair, Born, PairInv, NEW q \in Threads, PushAnswer(q)
    PROVE  PairInv'
<1> DEFINE n == numSent[q] + 1
           s == q[1]
           g == Group(q[1])
<1>1. /\ Typed' /\ Threads' = Threads /\ stack[q] = <<>> /\ q # Source /\ s \in Stages /\ q[2] \in graphQueries[s]
      /\ numSent'[q] = n /\ \A u \in Threads \ {q} : numSent'[u] = numSent[u]
  BY PushAnswerDoes
<1>2. PICK a : a = AnswerOf(q, n)
  OBVIOUS
<1>3. isQueryOpened[s]
  BY <1>1 DEF PairInv, Opened
<1>4. PICK calls : calls = Broadcast(s, a) /\ Shape(q, calls)
  BY <1>1, <1>2, <1>3, PushAnswerDoes
<1>5. n \in Nat /\ n >= 1 /\ n >= numSent[q]
  <2>1. numSent[q] \in Nat
    BY DEF Typed
  <2> QED
    BY <2>1
<1>6. q # bufferLock
  BY <1>1, HomeOf, LockHolder DEF PairInv
<1>7. UNCHANGED <<plan, isOpened, isQueryOpened, graphQueries, buffer, bufferLock, output>>
  BY DEF PushAnswer, streamVars, stageVars, combinerVars
<1>8. (\A r \in Stages : <<r, a>> \notin Threads) /\ \A h \in Groups : ~InBuffer(h, a)
  BY <1>2, NewAnswerPair DEF PairInv
<1>9. /\ g \in Groups /\ (IsFinal(q) <=> s[3] = plan[s[2]])
      /\ produced' = IF IsFinal(q) THEN produced \cup {<<g, a>>} ELSE produced
  <2>1. g \in Groups
    BY <1>1, PairStreams DEF Typed
  <2>2. IsFinal(q) <=> s[3] = plan[s[2]]
    BY <1>1 DEF IsFinal, Literal, Group
  <2> QED
    BY <1>1, <1>2, <2>1, <2>2 DEF PushAnswer, AnswerOf, Group
<1>10. PICK c : c = Push(s, Home(q), a)
  OBVIOUS
<1>11. calls = <<c>>
  <2>1. Subscribers(s) = <<Home(q)>>
    BY <1>1, HomeOf
  <2>2. calls = [k \in {1} |-> c]
    BY <1>4, <1>10, <2>1 DEF Broadcast
  <2> QED
    BY <2>2
<1>12. stack'[q] = <<c>> /\ Current(q)' = a /\ (IsFinal(q)' <=> IsFinal(q)) /\ Home(q)' = Home(q)
  <2>1. stack'[q] = calls
    BY <1>1, <1>4 DEF Shape
  <2> QED
    BY <1>1, <1>2, <1>7, <1>11, <2>1, SamePair DEF Current, AnswerOf, Home
<1> HIDE DEF n
<1>13. CASE ~IsFinal(q)
  <2>1. DOMAIN <<c>> = {1} /\ Len(<<c>>) = 1 /\ <<c>>[1] = c /\ c.op = "push" /\ c.to = Home(q) /\ c.msg = a
    BY <1>10, CallsAre
  <2>2. \A r \in Stages' : <<r, a>> \notin Threads'
    BY <1>1, <1>7, <1>8, SamePair
  <2>3. Relays(q)'
    BY <1>1, <1>5, <1>12, <1>13, <2>1, <2>2 DEF Relays
  <2>4. ~Delivers(q) /\ produced' = produced
    BY <1>9, <1>13 DEF Delivers
  <2> QED
    BY <1>1, <1>4, <1>5, <1>6, <1>7, <2>3, <2>4, PairStep, SameOpened DEF PairInv
<1>14. CASE IsFinal(q)
  <2>1. <<g, a>> \in produced' /\ ~InBuffer(g, a)'
    BY <1>7, <1>8, <1>9, <1>14 DEF InBuffer
  <2>2. Delivers(q)'
    BY <1>1, <1>5, <1>10, <1>12, <1>14, <2>1 DEF Delivers
  <2>3. ~Delivers(q)
    BY <1>1 DEF Delivers
  <2>4. produced \subseteq produced' /\ \A p \in produced' \ produced : p = <<g, Current(q)'>>
    BY <1>9, <1>12, <1>14
  <2> QED
    BY <1>1, <1>4, <1>5, <1>6, <1>7, <1>9, <2>2, <2>3, <2>4, PairStep, SameOpened DEF PairInv
<1> QED
  BY <1>13, <1>14

\* What is below the top of a stack when it is taken off.
LEMMA Popped ==
    ASSUME Typed, NEW t \in Threads, Shape(t, <<>>), stack[t] # <<>>
    PROVE  /\ stack'[t] = Tail(stack[t])
           /\ \A k \in DOMAIN stack'[t] : k + 1 \in DOMAIN stack[t] /\ k + 1 # 1 /\ stack'[t][k] = stack[t][k + 1]
           /\ Len(stack[t]) = 1 => stack'[t] = <<>>
<1>1. PICK S : stack[t] \in Seq(S)
  BY DEF Typed, IsSequence
<1>2. PICK q : q = Tail(stack[t])
  OBVIOUS
<1>3. q \in Seq(S) /\ Len(stack[t]) = Len(q) + 1 /\ \A l \in 1 .. Len(q) : q[l] = stack[t][l + 1]
  BY <1>1, <1>2, HeadTailProperties
<1>4. stack'[t] = q
  <2>1. stack'[t] = <<>> \o q
    BY <1>2 DEF Shape
  <2> QED
    BY <1>3, <2>1
<1>5. DOMAIN q = 1 .. Len(q) /\ DOMAIN stack[t] = 1 .. Len(stack[t]) /\ Len(q) \in Nat
  BY <1>1, <1>3, LenProperties
<1>6. ASSUME NEW k \in DOMAIN q PROVE k + 1 \in DOMAIN stack[t] /\ k + 1 # 1 /\ q[k] = stack[t][k + 1]
  BY ONLY <1>3, <1>5
<1>7. Len(stack[t]) = 1 => q = <<>>
  BY ONLY <1>3, <1>5
<1> QED
  BY <1>2, <1>4, <1>6, <1>7

\* A stage that starts a query gets the last answer of the thread, and has not had it before.
LEMMA SubmitsRelayed ==
    ASSUME Typed, IsPair, PairInv, NEW t \in Threads, SubmitQuery(t)
    PROVE  /\ t # bufferLock /\ Relays(t) /\ stack[t][1].msg = Current(t)
           /\ IsNextStage(t, stack[t][1].to) /\ <<stack[t][1].to, Current(t)>> \notin Threads
           /\ \A k \in DOMAIN stack[t] : k # 1 =>
                 /\ stack[t][k].op = "push" /\ stack[t][k].msg = Current(t) /\ stack[t][k].to # stack[t][1].to
                 /\ IsNextStage(t, stack[t][k].to) /\ <<stack[t][k].to, Current(t)>> \notin Threads
<1>1. /\ stack[t] # <<>> /\ 1 \in DOMAIN stack[t] /\ stack[t][1].op = "push" /\ stack[t][1].msg # EOS
      /\ stack[t][1].to \in Stages
  <2>1. \E s \in Stages : s = stack[t][1].to
    BY SubmitQueryDoes
  <2> QED
    BY <2>1, SubmitQueryDoes
<1>2. stack[t][1].to \notin {Combiner, Idb, Reader} /\ stack[t][1].to # Home(t)
  BY <1>1, HomeOf, Kinds, Names
<1>3. t # bufferLock
  BY <1>1, <1>2, HomeOf, LockHolder DEF PairInv
<1>4. ~HandsEosOn(t)
  BY <1>1 DEF HandsEosOn, EosSequence, IsEosCall
<1>5. ~Delivers(t)
  <2>1. \A q, c : q = <<c>> => q[1] = c
    OBVIOUS
  <2> QED
    BY <1>2, <2>1, CallsAre DEF Delivers
<1>6. Relays(t)
  BY <1>3, <1>4, <1>5 DEF PairInv, Flows
<1>7. DOMAIN stack[t] = 1 .. Len(stack[t])
  BY LenProperties DEF Typed, IsSequence
<1>8. ASSUME NEW k \in DOMAIN stack[t], k # 1
      PROVE  /\ stack[t][k].op = "push" /\ stack[t][k].msg = Current(t) /\ stack[t][k].to # stack[t][1].to
             /\ IsNextStage(t, stack[t][k].to) /\ <<stack[t][k].to, Current(t)>> \notin Threads
  <2>1. Len(stack[t]) # 1
    <3> SUFFICES ASSUME Len(stack[t]) = 1 PROVE FALSE
      OBVIOUS
    <3>1. DOMAIN stack[t] = 1 .. 1
      BY <1>7
    <3>2. k \in 1 .. 1
      BY <1>8, <3>1
    <3> QED
      BY <1>8, <3>2
  <2> QED
    BY <1>1, <1>6, <1>8, <2>1 DEF Relays
<1> QED
  BY <1>1, <1>2, <1>3, <1>6, <1>8 DEF Relays

\* The query that a stage starts leaves the answers of other threads new to the next stages.
LEMMA SubmitQueryPair ==
    ASSUME Typed, IsPair, Born, PairInv, NEW t \in Threads, SubmitQuery(t)
    PROVE  PairInv'
<1>1. /\ Typed' /\ stack[t] # <<>> /\ 1 \in DOMAIN stack[t] /\ Shape(t, <<>>)
      /\ \A u \in Threads : numSent'[u] = numSent[u]
  BY SubmitQueryDoes
<1>2. UNCHANGED <<plan, isOpened, isQueryOpened, buffer, bufferLock, output, produced>>
  BY DEF SubmitQuery, streamVars, combinerVars, readerVars
<1>3. PICK s \in Stages : \E m : /\ s = stack[t][1].to /\ m = stack[t][1].msg
          /\ \/ isQueryOpened[s] /\ Threads' = Threads \cup {<<s, m>>} /\ graphQueries' = [graphQueries EXCEPT ![s] = @ \cup {m}]
             \/ ~(isOpened[s] /\ isQueryOpened[s]) /\ Threads' = Threads /\ graphQueries' = graphQueries
  BY SubmitQueryDoes, Zenon
<1>4. PICK m : /\ s = stack[t][1].to /\ m = stack[t][1].msg
               /\ \/ isQueryOpened[s] /\ Threads' = Threads \cup {<<s, m>>} /\ graphQueries' = [graphQueries EXCEPT ![s] = @ \cup {m}]
                  \/ Threads' = Threads /\ graphQueries' = graphQueries
  BY <1>3
<1>5. /\ t # bufferLock /\ Relays(t) /\ m = Current(t)
      /\ \A k \in DOMAIN stack[t] : k # 1 =>
            /\ stack[t][k].op = "push" /\ stack[t][k].msg = m /\ stack[t][k].to # s
            /\ IsNextStage(t, stack[t][k].to) /\ <<stack[t][k].to, m>> \notin Threads
  BY <1>4, SubmitsRelayed
<1>6. \A u \in Threads' : u \in Threads \/ u = <<s, m>>
  BY <1>4
<1>7. ASSUME NEW u \in Threads \ {t}, NEW r \in Stages, <<r, Current(u)>> \in Threads' PROVE <<r, Current(u)>> \in Threads
  <2>1. <<r, Current(u)>> = <<s, m>> => Current(u) = Current(t)
    BY <1>5
  <2>2. Current(u) # Current(t)
    <3>1. numSent[u] \in Nat /\ numSent[t] \in Nat
      BY DEF Typed
    <3> QED
      BY <3>1, AnswersDiffer DEF Current
  <2> QED
    BY <1>6, <1>7, <2>1, <2>2
<1>8. Relays(t)'
  <2>1. ASSUME NEW k \in DOMAIN stack'[t]
        PROVE  /\ stack'[t][k].op = "push" /\ stack'[t][k].msg = m
               /\ IsNextStage(t, stack'[t][k].to) /\ <<stack'[t][k].to, m>> \notin Threads'
               /\ \A l \in DOMAIN stack'[t] : stack'[t][l].to = stack'[t][k].to => k = l
    <3>1. k + 1 \in DOMAIN stack[t] /\ k + 1 # 1 /\ stack'[t][k] = stack[t][k + 1] /\ IsNextStage(t, stack[t][k + 1].to)
      BY <1>1, <1>5, Popped
    <3>2. PICK x : x = stack'[t][k].to
      OBVIOUS
    <3>3. <<x, m>> # <<s, m>> /\ <<x, m>> \notin Threads
      BY <1>5, <3>1, <3>2
    <3>4. ASSUME NEW l \in DOMAIN stack'[t], stack'[t][l].to = stack'[t][k].to PROVE k = l
      <4>1. l + 1 \in DOMAIN stack[t] /\ l + 1 # 1 /\ stack'[t][l] = stack[t][l + 1]
        BY <1>1, Popped
      <4>2. stack[t][k + 1].to \in Stages /\ stack[t][k + 1].to # Home(t)
        BY <3>1, HomeOf DEF IsNextStage
      <4>3. k + 1 = l + 1
        BY <1>5, <3>1, <3>4, <4>1, <4>2 DEF Relays
      <4>4. k \in Nat /\ l \in Nat
        <5>1. DOMAIN stack'[t] = 1 .. Len(stack'[t])
          BY <1>1, LenProperties DEF Typed, IsSequence, Shape
        <5> QED
          BY <3>4, <5>1
      <4> QED
        BY <4>3, <4>4
    <3> QED
      BY <1>5, <1>6, <3>1, <3>2, <3>3, <3>4
  <2>2. Current(t)' = m
    BY <1>1, <1>5 DEF Current, AnswerOf
  <2>3. \A x : IsNextStage(t, x)' <=> IsNextStage(t, x)
    BY <1>2, SamePair
  <2>4. ~IsFinal(t)' /\ numSent'[t] >= 1
    BY <1>1, <1>2, <1>5, SamePair DEF Relays
  <2>5. ASSUME NEW k \in DOMAIN stack'[t] PROVE IsNextStage(t, stack[t][k].to)'
    <3>1. PICK x : x = stack'[t][k].to
      OBVIOUS
    <3>2. IsNextStage(t, x)
      BY <2>1, <3>1
    <3>3. Stages' = Stages
      BY <1>2, SamePair
    <3> QED
      BY <1>2, <3>1, <3>2, <3>3 DEF IsNextStage
  <2> QED
    BY <2>1, <2>2, <2>4, <2>5 DEF Relays
<1>9. ~Delivers(t)
  BY <1>5 DEF Relays, Delivers
<1>10. Opened'
  <2>1. \A r \in Stages : ~isQueryOpened[r] => graphQueries'[r] = graphQueries[r]
    BY <1>4 DEF Typed
  <2> QED
    BY <1>2, <2>1, SamePair DEF PairInv, Opened
<1>11. numSent'[t] >= numSent[t]
  BY <1>1 DEF Typed
<1> QED
  BY <1>1, <1>2, <1>5, <1>7, <1>8, <1>9, <1>10, <1>11, PairStep

\* A query starts with an answer for earlier literals of its group.
LEMMA SubmitQueryBorn ==
    ASSUME Typed, IsPair, Born, Derived, PairInv, NEW t \in Threads, SubmitQuery(t)
    PROVE  Born' /\ Derived'
<1>1. /\ Typed' /\ Shape(t, <<>>)
      /\ \A u \in Threads : numSent'[u] = numSent[u]
  BY SubmitQueryDoes
<1>2. PICK s \in Stages : \E m : /\ s = stack[t][1].to /\ m = stack[t][1].msg
          /\ \/ isQueryOpened[s] /\ Threads' = Threads \cup {<<s, m>>} /\ graphQueries' = [graphQueries EXCEPT ![s] = @ \cup {m}]
             \/ ~(isOpened[s] /\ isQueryOpened[s]) /\ Threads' = Threads /\ graphQueries' = graphQueries
  BY SubmitQueryDoes, Zenon
<1>3. PICK m : /\ s = stack[t][1].to /\ m = stack[t][1].msg
               /\ (Threads' = Threads \cup {<<s, m>>} \/ Threads' = Threads)
  BY <1>2, Zenon
<1>4. m = Current(t) /\ IsNextStage(t, s) /\ numSent[t] >= 1 /\ ~IsFinal(t)
  BY <1>3, SubmitsRelayed DEF Relays
<1>5. numSent[t] \in Nat /\ numSent[t] \in 1 .. numSent[t]
  <2>1. numSent[t] \in Nat
    BY DEF Typed
  <2> QED
    BY <1>4, <2>1
<1>6. m = AnswerOf(t, numSent[t])
  BY <1>4 DEF Current
<1>7. /\ \A x \in m : ChoiceLiteral(x) \in 0 .. Literal(s) - 1
      /\ Grouped(Group(s), m)
  <2>1. CASE t = Source
    <3>1. PICK x : x = <<"edb", numSent[t]>>
      OBVIOUS
    <3>2. m = {x} /\ x[1] = "edb" /\ Literal(s) = 1
      BY <1>4, <1>6, <2>1, <3>1 DEF AnswerOf, Choice, IsNextStage
    <3> QED
      BY <3>2 DEF ChoiceLiteral, Grouped
  <2>2. CASE t # Source
    <3>1. PICK x : x = <<"query", numSent[t], t[1]>>
      OBVIOUS
    <3>2. t[1] \in Stages /\ t[1] # Edb
      BY <2>2, Kinds DEF Typed
    <3>3. m = t[2] \cup {x} /\ x[1] = "query" /\ x[3] = t[1] /\ x[1] # "edb"
      BY <1>6, <2>2, <3>1, <3>2 DEF AnswerOf, Choice
    <3>4. Group(s) = Group(t[1]) /\ Literal(s) = Literal(t[1]) + 1 /\ Literal(t[1]) \in Nat
      BY <1>4, <2>2, <3>2, PairStreams DEF IsNextStage, Typed
    <3>5. (\A y \in t[2] : ChoiceLiteral(y) \in 0 .. Literal(t[1]) - 1) /\ Grouped(Group(t[1]), t[2])
      BY <2>2 DEF Born, Derived
    <3>6. ChoiceLiteral(x) = Literal(t[1])
      BY <3>3 DEF ChoiceLiteral
    <3>7. \A y \in m : ChoiceLiteral(y) \in 0 .. Literal(s) - 1
      <4>1. \A y : ChoiceLiteral(y) \in 0 .. Literal(t[1]) - 1 => ChoiceLiteral(y) \in 0 .. Literal(s) - 1
        BY <3>4
      <4>2. ChoiceLiteral(x) \in 0 .. Literal(s) - 1
        BY <3>4, <3>6
      <4> QED
        BY <3>3, <3>5, <4>1, <4>2
    <3>8. Grouped(Group(s), m)
      BY <3>3, <3>4, <3>5 DEF Grouped
    <3> QED
      BY <3>7, <3>8
  <2> QED
    BY <2>1, <2>2
<1>8. \A q \in Threads' \ Threads : q = <<s, m>> /\ q[1] = s /\ q[2] = m
  BY <1>3
<1>9. Born'
  <2>1. \A u \in Threads : numSent'[u] \in Nat /\ numSent'[u] >= numSent[u]
    BY <1>1 DEF Typed
  <2>2. Threads \subseteq Threads'
    BY <1>1 DEF Shape
  <2>3. \E u \in Threads : \E k \in 1 .. numSent[u] : m = AnswerOf(u, k)
    BY <1>5, <1>6
  <2> QED
    BY <1>7, <1>8, <2>1, <2>2, <2>3, BornStep
<1>10. Derived'
  BY <1>7, <1>8 DEF Derived
<1> QED
  BY <1>9, <1>10

\* The other steps start no query.
LEMMA BornStays ==
    ASSUME Typed, Typed', Born, Derived, Threads' = Threads, \A t \in Threads : numSent'[t] >= numSent[t]
    PROVE  Born' /\ Derived'
<1>1. \A t \in Threads : numSent'[t] \in Nat /\ numSent'[t] >= numSent[t]
  BY DEF Typed
<1>2. Born'
  BY <1>1, BornStep
<1> QED
  BY <1>2 DEF Derived

\* A step of the thread that holds the lock.
LEMMA HolderStep ==
    ASSUME Typed, Typed', IsPair, plan' = plan, PairInv, NEW t \in Threads, t = bufferLock, bufferLock' \in {t, NoThread},
           NEW calls, Shape(t, calls), Threads' = Threads, UNCHANGED <<numSent, buffer, produced>>,
           t # bufferLock' => stack'[t] = <<>>, Opened', Combinator'
    PROVE  PairInv'
<1>1. \A u \in Threads \ {t} : Delivers(u) => ~InBuffer(Group(u[1]), Current(u))'
  <2>1. \A u \in Threads \ {t} : Current(u)' = Current(u)
    BY DEF Current, AnswerOf
  <2> QED
    BY <2>1 DEF InBuffer, Delivers
<1>2. t # bufferLock' => HandsEosOn(t)'
  <2>1. t # bufferLock' => stack'[t] = <<>>
    OBVIOUS
  <2> QED
    BY <2>1, EmptyIsSequence DEF HandsEosOn, EosSequence
<1>3. \A u \in Threads : u # NoThread
  BY HomeOf
<1>4. \A u \in Threads \ {t} : u # bufferLock' => u # bufferLock
  OBVIOUS
<1>5. Flows' /\ \A u \in Threads \ {t} : Delivers(u) => Delivers(u)' /\ Current(u)' = Current(u)
  BY <1>1, <1>2, <1>4, FlowsStep DEF PairInv
<1>6. \A u \in Threads : u # bufferLock => u # bufferLock'
  BY <1>3
<1>7. \A u \in Threads : numSent'[u] >= numSent[u]
  BY DEF Typed
<1>8. Buffered'
  BY <1>5, <1>6, <1>7, BufferedStep DEF PairInv
<1> QED
  BY <1>5, <1>8 DEF PairInv

\* What combinations there are depends on the buffers and the reader.
LEMMA SameCombined ==
    ASSUME plan' = plan, UNCHANGED <<buffer, output>>, NEW todo, NEW pending
    PROVE  Combined(todo, pending)' <=> Combined(todo, pending)
BY SamePair DEF Combined, Unifying, CombinationOf, Selections, Unifies, Copy

\* The only subscriber gets the message.
LEMMA BroadcastToOne ==
    ASSUME NEW n, NEW x, NEW m, Subscribers(n) = <<x>>
    PROVE  Broadcast(n, m) = <<Push(n, x, m)>>
<1>1. PICK c : c = Push(n, x, m)
  OBVIOUS
<1>2. Broadcast(n, m) = [k \in {1} |-> c]
  BY <1>1 DEF Broadcast
<1> QED
  BY <1>1, <1>2

\* Calls that replace the only call on a stack.
LEMMA OnlyReplaced ==
    ASSUME NEW c, NEW q, q = <<c>>, NEW calls, IsSequence(calls)
    PROVE  q # <<>> /\ q[1] = c /\ calls \o Tail(q) = calls
<1>1. q # <<>> /\ q[1] = c /\ Tail(q) = <<>>
  OBVIOUS
<1>2. PICK S : calls \in Seq(S)
  BY DEF IsSequence
<1> QED
  BY <1>1, <1>2

\* The stream of a literal hands the answer on to the next stages, or to the combiner.
LEMMA BroadcastOnPair ==
    ASSUME Typed, IsPair, PairInv, NEW t \in Threads, t # bufferLock, BroadcastAnswer(t)
    PROVE  PairInv'
<1>1. /\ Typed' /\ Threads' = Threads /\ stack[t] # <<>> /\ 1 \in DOMAIN stack[t]
      /\ stack[t][1].op = "push" /\ stack[t][1].msg # EOS
  BY BroadcastAnswerDoes
<1>2. PICK n \in Broadcasters : \E calls :
         /\ n = stack[t][1].to /\ calls = (IF isOpened[n] THEN Broadcast(n, stack[t][1].msg) ELSE <<>>)
         /\ Shape(t, calls) /\ Turn(t, calls)
  BY BroadcastAnswerDoes, Zenon
<1>3. PICK m : m = stack[t][1].msg
  OBVIOUS
<1>4. PICK calls : calls = (IF isOpened[n] THEN Broadcast(n, m) ELSE <<>>) /\ Shape(t, calls) /\ n = stack[t][1].to
  BY <1>2, <1>3
<1>5. UNCHANGED <<plan, numSent, isOpened, isQueryOpened, graphQueries, buffer, bufferLock, output, produced>>
  BY DEF BroadcastAnswer, streamVars, stageVars, combinerVars, readerVars
<1>6. ~HandsEosOn(t)
  BY <1>1 DEF HandsEosOn, EosSequence, IsEosCall
<1>7. Current(t)' = Current(t) /\ (IsFinal(t)' <=> IsFinal(t)) /\ Home(t)' = Home(t)
  BY <1>5, SamePair DEF Current, AnswerOf, Home
<1>8. n \notin Stages /\ n # Combiner
  BY Kinds
<1>9. numSent'[t] >= numSent[t]
  BY <1>5 DEF Typed
<1>10. CASE Relays(t)
  <2>1. /\ n = Home(t) /\ Len(stack[t]) = 1 /\ m = Current(t) /\ ~IsFinal(t) /\ numSent[t] >= 1
        /\ \A s \in Stages : <<s, m>> \notin Threads
    BY <1>1, <1>3, <1>4, <1>8, <1>10 DEF Relays, IsNextStage
  <2>2. stack'[t] = calls
    <3>1. PICK S : stack[t] \in Seq(S)
      BY DEF Typed, IsSequence
    <3>2. PICK c : stack[t] = <<c>>
      BY <2>1, <3>1
    <3>3. calls \o Tail(stack[t]) = calls
      BY <1>4, <3>2, OnlyReplaced DEF Shape
    <3> QED
      BY <1>1, <1>4, <3>3 DEF Shape
  <2>3. ASSUME NEW k \in DOMAIN calls
        PROVE  /\ calls[k].op = "push" /\ calls[k].msg = m
               /\ IsNextStage(t, calls[k].to) /\ <<calls[k].to, m>> \notin Threads
               /\ \A l \in DOMAIN calls : calls[l].to = calls[k].to => k = l
    <3>1. calls = Broadcast(n, m)
      BY <1>4, <2>3, EmptyIsSequence
    <3>2. n \in Streams
      BY Kinds
    <3>3. DOMAIN calls = DOMAIN Subscribers(n) /\ \A l \in DOMAIN calls : calls[l] = Push(n, Subscribers(n)[l], m)
      BY <3>1, <3>2, Broadcasts DEF Typed
    <3>4. \A l \in DOMAIN calls : calls[l].op = "push" /\ calls[l].msg = m /\ calls[l].to = Subscribers(n)[l]
      BY <3>3, CallsAre
    <3>5. IsNextStage(t, Subscribers(n)[k]) /\ \A l \in DOMAIN Subscribers(n) : Subscribers(n)[l] = Subscribers(n)[k] => k = l
      BY <2>1, <3>3, HomeOf
    <3>6. Subscribers(n)[k] \in Stages
      BY <3>5 DEF IsNextStage
    <3> QED
      BY <2>1, <3>3, <3>4, <3>5, <3>6
  <2>4. Relays(t)'
    <3>1. \A k \in DOMAIN calls : IsNextStage(t, calls[k].to)'
      <4> SUFFICES ASSUME NEW k \in DOMAIN calls PROVE IsNextStage(t, calls[k].to)'
        OBVIOUS
      <4>1. IsNextStage(t, calls[k].to) /\ Stages' = Stages
        BY <1>5, <2>3, SamePair
      <4> QED
        BY <1>5, <4>1 DEF IsNextStage
    <3> QED
      BY <1>1, <1>5, <1>7, <2>1, <2>2, <2>3, <3>1 DEF Relays
  <2>5. ~Delivers(t)
    BY <2>1 DEF Delivers
  <2> QED
    BY <1>1, <1>4, <1>5, <1>9, <2>4, <2>5, PairStep, SameOpened DEF PairInv
<1>11. CASE Delivers(t)
  <2>1. IsFinal(t) /\ numSent[t] >= 1 /\ <<Group(t[1]), Current(t)>> \in produced /\ ~InBuffer(Group(t[1]), Current(t))
    BY <1>11 DEF Delivers
  <2>2. \A q, c : q = <<c>> => q[1] = c
    OBVIOUS
  <2>3. PICK c : c = Push(t[1], Home(t), Current(t))
    OBVIOUS
  <2>4. stack[t] # <<Push(Home(t), Combiner, Current(t))>>
    BY <1>4, <1>8, <2>2, CallsAre
  <2>5. stack[t] = <<c>> /\ n = Home(t) /\ m = Current(t)
    BY <1>3, <1>4, <1>11, <2>2, <2>3, <2>4, CallsAre DEF Delivers
  <2>6. isOpened[n] /\ Subscribers(n) = <<Combiner>>
    BY <2>1, <2>5, HomeOf DEF PairInv, Opened
  <2>7. PICK d : d = Push(Home(t), Combiner, Current(t))
    OBVIOUS
  <2>8. calls = <<d>>
    BY <1>4, <2>5, <2>6, <2>7, BroadcastToOne
  <2>9. stack'[t] = <<d>>
    BY <1>1, <1>4, <2>5, <2>8, OnlyReplaced DEF Shape
  <2>10. Delivers(t)'
    <3>1. <<Group(t[1]), Current(t)'>> \in produced' /\ ~InBuffer(Group(t[1]), Current(t))'
      BY <1>5, <1>7, <2>1 DEF InBuffer
    <3> QED
      BY <1>5, <1>7, <2>1, <2>7, <2>9, <3>1 DEF Delivers
  <2> QED
    BY <1>1, <1>4, <1>5, <1>7, <1>9, <2>10, PairStep, SameOpened DEF PairInv
<1> QED
  BY <1>6, <1>10, <1>11 DEF PairInv, Flows

\* A call that replaces the first of two calls on a stack.
LEMMA FirstReplaced ==
    ASSUME NEW c, NEW r, NEW q, q = <<c, r>>, NEW d
    PROVE  q # <<>> /\ q[1] = c /\ Tail(q) = <<r>> /\ <<d>> \o Tail(q) = <<d, r>> /\ <<>> \o Tail(q) = <<r>>
<1>1. q # <<>> /\ q[1] = c /\ Tail(q) = <<r>>
  OBVIOUS
<1>2. <<>> \o <<r>> = <<r>>
  OBVIOUS
<1>3. <<d>> \o <<r>> = <<d, r>>
  <2>1. PICK z : z = <<d>> \o <<r>>
    OBVIOUS
  <2>2. <<d>> \in Seq({d, r}) /\ <<r>> \in Seq({d, r}) /\ <<d, r>> \in Seq({d, r}) /\ Len(<<d, r>>) = 2
    BY ONLY TRUE
  <2>3. z \in Seq({d, r}) /\ Len(z) = 2 /\ z[1] = d /\ z[2] = r
    BY ONLY <2>1, <2>2, ConcatProperties
  <2>4. \A i \in 1 .. 2 : z[i] = <<d, r>>[i]
    BY ONLY <2>3
  <2>5. z = <<d, r>>
    BY ONLY <2>2, <2>3, <2>4, SeqEqual
  <2> QED
    BY <2>1, <2>5
<1> QED
  BY <1>1, <1>2, <1>3

\* A combination on its way to the reader.
LEMMA BroadcastCombinationPair ==
    ASSUME Typed, IsPair, PairInv, NEW t \in Threads, t = bufferLock, BroadcastAnswer(t)
    PROVE  PairInv'
<1>1. /\ Typed' /\ Threads' = Threads /\ stack[t] # <<>> /\ 1 \in DOMAIN stack[t]
      /\ stack[t][1].op = "push" /\ stack[t][1].msg # EOS
  BY BroadcastAnswerDoes
<1>2. PICK n \in Broadcasters : \E calls :
         /\ n = stack[t][1].to /\ calls = (IF isOpened[n] THEN Broadcast(n, stack[t][1].msg) ELSE <<>>)
         /\ Shape(t, calls) /\ Turn(t, calls)
  BY BroadcastAnswerDoes, Zenon
<1>3. PICK m : m = stack[t][1].msg
  OBVIOUS
<1>4. PICK calls : calls = (IF isOpened[n] THEN Broadcast(n, m) ELSE <<>>) /\ Shape(t, calls) /\ n = stack[t][1].to
  BY <1>2, <1>3
<1>5. UNCHANGED <<plan, numSent, isOpened, isQueryOpened, graphQueries, buffer, bufferLock, output, produced>>
  BY DEF BroadcastAnswer, streamVars, stageVars, combinerVars, readerVars
<1>6. t # NoThread
  BY HomeOf
<1>7. PICK todo, pending : Pushes(todo, pending) /\ Combined(todo, pending)
  BY <1>6 DEF PairInv, Combinator
<1>8. \A q, c, d : q = <<c, d>> => q[1] = c
  OBVIOUS
<1>9. n # Reader
  BY Kinds
<1>10. /\ pending = {m} /\ n = Idb
       /\ stack[t] = <<Push(Combiner, Idb, m), Combining(todo)>>
  <2>1. stack[t] # <<Combining(todo)>>
    <3>1. \A q, c : q = <<c>> => q[1] = c
      OBVIOUS
    <3>2. Combining(todo).op # "push"
      BY DEF Combining
    <3> QED
      BY <1>1, <3>1, <3>2
  <2>2. PICK x : /\ pending = {x}
                 /\ \/ stack[t] = <<Push(Combiner, Idb, x), Combining(todo)>>
                    \/ stack[t] = <<Push(Idb, Reader, x), Combining(todo)>>
    BY <1>7, <2>1 DEF Pushes
  <2>3. stack[t] = <<Push(Combiner, Idb, x), Combining(todo)>>
    BY <1>4, <1>8, <1>9, <2>2, CallsAre
  <2>4. x = m /\ n = Idb
    BY <1>3, <1>4, <1>8, <2>3, CallsAre
  <2> QED
    BY <2>2, <2>3, <2>4
<1>11. PICK d, c, r : d = Push(Idb, Reader, m) /\ c = Push(Combiner, Idb, m) /\ r = Combining(todo)
  OBVIOUS
<1>12. calls = <<d>>
  <2>1. isOpened[Idb] /\ Subscribers(Idb) = <<Reader>>
    BY PairStreams DEF PairInv, Opened, Typed
  <2> QED
    BY <1>4, <1>10, <1>11, <2>1, BroadcastToOne
<1>13. stack'[t] = <<d, r>>
  <2>1. stack'[t] = calls \o Tail(stack[t])
    BY <1>1, <1>4 DEF Shape
  <2>2. stack[t] = <<c, r>>
    BY <1>10, <1>11
  <2>3. PICK q : q = stack[t]
    OBVIOUS
  <2>4. q = <<c, r>>
    BY <2>2, <2>3
  <2>5. <<d>> \o Tail(q) = <<d, r>>
    BY ONLY <2>4, FirstReplaced
  <2> QED
    BY <1>12, <2>1, <2>3, <2>5
<1>14. Combinator'
  <2>1. Pushes(todo, pending)'
    BY <1>5, <1>10, <1>11, <1>13 DEF Pushes
  <2>2. Combined(todo, pending)'
    BY <1>5, <1>7, SameCombined
  <2>3. IsFinal(bufferLock)' /\ numSent'[t] >= 1 /\ t \in Threads'
    BY <1>1, <1>5, <1>6 DEF PairInv, Combinator, IsFinal
  <2> QED
    BY <1>5, <1>6, <2>1, <2>2, <2>3 DEF Combinator
<1> QED
  BY <1>1, <1>4, <1>5, <1>14, HolderStep, SameOpened DEF PairInv

\* Only the thread that holds the lock combines, and gives combinations to the reader.
LEMMA OnlyHolder ==
    ASSUME Typed, IsPair, PairInv, NEW t \in Threads, 1 \in DOMAIN stack[t],
           stack[t][1].op = "combine" \/ (stack[t][1].op = "push" /\ stack[t][1].to = Reader)
    PROVE  t = bufferLock
<1>1. Reader \notin Stages /\ Reader # Home(t) /\ Reader # Combiner
  BY HomeOf, Kinds, Names
<1>2. ~HandsEosOn(t)
  BY DEF HandsEosOn, EosSequence, IsEosCall
<1>3. ~Relays(t)
  BY <1>1 DEF Relays, IsNextStage
<1>4. ~Delivers(t)
  <2>1. \A q, c : q = <<c>> => q[1] = c
    OBVIOUS
  <2> QED
    BY <1>1, <2>1, CallsAre DEF Delivers
<1> QED
  BY <1>2, <1>3, <1>4 DEF PairInv, Flows

\* The reader gets a combination.
LEMMA ReceivePair ==
    ASSUME Typed, IsPair, PairInv, NEW t \in Threads, Receive(t)
    PROVE  PairInv'
<1>1. /\ Typed' /\ Threads' = Threads /\ stack[t] # <<>> /\ 1 \in DOMAIN stack[t]
      /\ stack[t][1].op = "push" /\ stack[t][1].to = Reader
      /\ DOMAIN output' = DOMAIN output \cup {Len(output) + 1} /\ Len(output) + 1 \notin DOMAIN output
      /\ output'[Len(output) + 1] = stack[t][1].msg /\ \A i \in DOMAIN output : output'[i] = output[i]
      /\ Shape(t, <<>>)
  BY ReceiveDoes
<1>2. t = bufferLock /\ t # NoThread
  BY <1>1, OnlyHolder, HomeOf
<1>3. UNCHANGED <<plan, numSent, isOpened, isQueryOpened, graphQueries, buffer, bufferLock, produced>>
  BY DEF Receive, streamVars, stageVars, combinerVars
<1>4. PICK todo, pending : Pushes(todo, pending) /\ Combined(todo, pending)
  BY <1>2 DEF PairInv, Combinator
<1>5. PICK m : m = stack[t][1].msg
  OBVIOUS
<1>6. pending = {m} /\ stack[t] = <<Push(Idb, Reader, m), Combining(todo)>>
  <2>1. \A q, c : q = <<c>> => q[1] = c
    OBVIOUS
  <2>2. \A q, c, d : q = <<c, d>> => q[1] = c
    OBVIOUS
  <2>3. Combining(todo).op # "push"
    BY DEF Combining
  <2>4. stack[t] # <<Combining(todo)>>
    BY <1>1, <2>1, <2>3
  <2>5. PICK x : /\ pending = {x}
                 /\ \/ stack[t] = <<Push(Combiner, Idb, x), Combining(todo)>>
                    \/ stack[t] = <<Push(Idb, Reader, x), Combining(todo)>>
    BY <1>2, <1>4, <2>4 DEF Pushes
  <2>6. stack[t] = <<Push(Idb, Reader, x), Combining(todo)>>
    BY <1>1, <2>2, <2>5, CallsAre, Names
  <2>7. x = m
    BY <1>5, <2>2, <2>6, CallsAre
  <2> QED
    BY <2>5, <2>6, <2>7
<1>7. stack'[t] = <<Combining(todo)>>
  <2>1. PICK q, c, r : q = stack[t] /\ c = Push(Idb, Reader, m) /\ r = Combining(todo)
    OBVIOUS
  <2>2. q = <<c, r>>
    BY <1>6, <2>1
  <2>3. <<>> \o Tail(q) = <<r>>
    BY ONLY <2>2, FirstReplaced
  <2> QED
    BY <1>1, <2>1, <2>3 DEF Shape
<1>8. Combined(todo, {})'
  <2>1. PICK n : n = Len(output) + 1
    OBVIOUS
  <2>2. DOMAIN output' = DOMAIN output \cup {n} /\ n \notin DOMAIN output /\ output'[n] = m /\ \A i \in DOMAIN output : output'[i] = output[i]
    BY <1>1, <1>5, <2>1
  <2>3. Range(output') = Range(output) \cup {m}
    BY <2>2 DEF Range
  <2>4. /\ Unifying(buffer)' = Unifying(buffer)
        /\ \A f : CombinationOf(buffer, f)' = CombinationOf(buffer, f)
    BY <1>3, SamePair DEF Unifying, CombinationOf, Selections, Unifies, Copy
  <2>5. m \notin Range(output) /\ \A i, j \in DOMAIN output : output[i] = output[j] => i = j
    BY <1>4, <1>6 DEF Combined
  <2>6. \A i, j \in DOMAIN output' : output'[i] = output'[j] => i = j
    BY <2>2, <2>5 DEF Range
  <2>7. /\ todo \subseteq Unifying(buffer)
        /\ Range(output) \cup {m} \cup {CombinationOf(buffer, f) : f \in todo} = {CombinationOf(buffer, f) : f \in Unifying(buffer)}
        /\ \A f \in todo : CombinationOf(buffer, f) \notin Range(output) \cup {m}
    BY <1>4, <1>6 DEF Combined
  <2>8. Range(output)' = Range(output) \cup {m}
    BY <2>3
  <2>9. /\ {CombinationOf(buffer, f) : f \in todo}' = {CombinationOf(buffer, f) : f \in todo}
        /\ {CombinationOf(buffer, f) : f \in Unifying(buffer)}' = {CombinationOf(buffer, f) : f \in Unifying(buffer)}
    BY <2>4
  <2> QED
    BY <2>4, <2>6, <2>7, <2>8, <2>9 DEF Combined
<1>9. Combinator'
  <2>1. Pushes(todo, {})'
    BY <1>2, <1>3, <1>7 DEF Pushes
  <2>2. IsFinal(bufferLock)' /\ numSent'[t] >= 1 /\ t \in Threads'
    BY <1>1, <1>2, <1>3 DEF PairInv, Combinator, IsFinal
  <2> QED
    BY <1>2, <1>3, <1>8, <2>1, <2>2 DEF Combinator
<1> QED
  BY <1>1, <1>2, <1>3, <1>9, HolderStep, SameOpened DEF PairInv

\* The thread that combines is about to push the combinations that are left.
LEMMA CombinesRest ==
    ASSUME Typed, IsPair, PairInv, NEW t \in Threads, IsCall(t, "combine")
    PROVE  /\ t = bufferLock /\ t # NoThread
           /\ \E todo : stack[t] = <<Combining(todo)>> /\ Head(stack[t]).todo = todo /\ Combined(todo, {})
<1>1. stack[t] # <<>> /\ 1 \in DOMAIN stack[t] /\ Head(stack[t]) = stack[t][1] /\ stack[t][1].op = "combine"
  BY Top
<1>2. t = bufferLock /\ t # NoThread
  BY <1>1, OnlyHolder, HomeOf
<1>3. PICK todo, pending : Pushes(todo, pending) /\ Combined(todo, pending)
  BY <1>2 DEF PairInv, Combinator
<1>4. \A q, c, d : q = <<c, d>> => q[1] = c
  OBVIOUS
<1>5. \A q, c : q = <<c>> => Head(q) = c
  OBVIOUS
<1>6. pending = {} /\ stack[t] = <<Combining(todo)>>
  BY <1>1, <1>2, <1>3, <1>4, CallsAre DEF Pushes
<1>7. Head(stack[t]).todo = todo
  BY <1>5, <1>6 DEF Combining
<1> QED
  BY <1>2, <1>3, <1>6, <1>7

\* The lock is released when all combinations have been received.
LEMMA EndCombinePair ==
    ASSUME Typed, IsPair, PairInv, NEW t \in Threads, EndCombine(t)
    PROVE  PairInv'
<1>1. t = bufferLock /\ t # NoThread /\ Combined({}, {})
  <2>1. IsCall(t, "combine") /\ Head(stack[t]).todo = {}
    BY DEF EndCombine
  <2> QED
    BY <2>1, CombinesRest
<1>2. PICK todo : stack[t] = <<Combining(todo)>>
  BY CombinesRest DEF EndCombine
<1>3. Typed' /\ Threads' = Threads /\ output' = output
  BY CombinesDoes DEF Combines
<1>4. /\ UNCHANGED <<plan, numSent, isOpened, isQueryOpened, graphQueries, buffer, produced>>
      /\ bufferLock' = NoThread
  BY DEF EndCombine, streamVars, stageVars, readerVars
<1>5. PICK c, q : c = Combining(todo) /\ q = stack[t]
  OBVIOUS
<1>6. q # <<>> /\ <<>> \o Tail(q) = <<>>
  <2>1. q = <<c>>
    BY <1>2, <1>5
  <2> QED
    BY ONLY <2>1, EmptyIsSequence, OnlyReplaced
<1>7. Shape(t, <<>>) /\ stack'[t] = <<>>
  <2>1. Shape(t, <<>>)
    BY <1>5, <1>6, EmptyIsSequence, Shapes DEF EndCombine
  <2> QED
    BY <1>5, <1>6, <2>1 DEF Shape
<1>8. Combined({}, {})'
  BY <1>1, <1>3, <1>4, SameCombined
<1>9. Combinator'
  BY <1>4, <1>8 DEF Combinator
<1> QED
  BY <1>1, <1>3, <1>4, <1>7, <1>9, HolderStep, SameOpened DEF PairInv

\* A set of numbers has a least one.
LEMMA LeastOf ==
    ASSUME NEW T, T \subseteq Nat, T # {}
    PROVE  \E x \in T : \A y \in T : x <= y
<1>1. IsWellFoundedOn(OpToRel(<, Nat), Nat)
  BY NatLessThanWellFounded
<1>2. \E x \in T : \A y \in T : ~(<<y, x>> \in OpToRel(<, Nat))
  BY <1>1, WFMin
<1>3. PICK x \in T : \A y \in T : ~(<<y, x>> \in OpToRel(<, Nat))
  BY <1>2
<1>4. ASSUME NEW y \in T PROVE x <= y
  <2>1. x \in Nat /\ y \in Nat
    OBVIOUS
  <2>2. ~(y < x)
    BY <1>3, <2>1 DEF OpToRel
  <2> QED
    BY <2>1, <2>2
<1> QED
  BY <1>4

\* One of the selections comes before all others.
LEMMA FirstSelection ==
    ASSUME Groups = {1, 2}, NEW todo, todo \subseteq [Groups -> Nat], todo # {}
    PROVE  NextOf(todo) \in todo
<1>1. PICK n \in {f[1] : f \in todo} : \A k \in {f[1] : f \in todo} : n <= k
  <2>1. {f[1] : f \in todo} # {} /\ {f[1] : f \in todo} \subseteq Nat
    OBVIOUS
  <2> QED
    BY <2>1, LeastOf
<1>2. PICK k \in {f[2] : f \in {h \in todo : h[1] = n}} : \A l \in {f[2] : f \in {h \in todo : h[1] = n}} : k <= l
  <2>1. {f[2] : f \in {h \in todo : h[1] = n}} # {} /\ {f[2] : f \in {h \in todo : h[1] = n}} \subseteq Nat
    OBVIOUS
  <2> QED
    BY <2>1, LeastOf
<1>3. PICK f \in todo : f[1] = n /\ f[2] = k
  OBVIOUS
<1>4. ASSUME NEW h \in todo \ {f} PROVE Precedes(f, h)
  <2>1. f[1] \in Nat /\ h[1] \in Nat /\ f[2] \in Nat /\ h[2] \in Nat /\ f[1] <= h[1]
    BY <1>1, <1>3
  <2>2. CASE f[1] # h[1]
    <3>1. f[1] < h[1] /\ \A e \in 1 .. 1 - 1 : f[e] = h[e]
      BY <2>1, <2>2
    <3> QED
      BY <3>1 DEF Precedes
  <2>3. CASE f[1] = h[1]
    <3>1. f[2] <= h[2]
      BY <1>2, <1>3, <2>3
    <3>2. f[2] # h[2]
      BY <2>3
    <3>3. f[2] < h[2] /\ \A e \in 1 .. 2 - 1 : f[e] = h[e]
      BY <2>1, <2>3, <3>1, <3>2
    <3> QED
      BY <3>3 DEF Precedes
  <2> QED
    BY <2>2, <2>3
<1>5. \E x \in todo : \A h \in todo \ {x} : Precedes(x, h)
  BY <1>4
<1> QED
  BY <1>5, Zenon DEF NextOf

\* An answer to the last literal of a group is made of answers to the input and to the group.
LEMMA AnswerGrouped ==
    ASSUME Typed, Derived, NEW g, NEW a, IsAnswerOf(g, a)
    PROVE  Grouped(g, a) /\ Copy(a) = a
<1>1. PICK t \in Threads : IsFinal(t) /\ Group(t[1]) = g /\ \E k \in 1 .. numSent[t] : a = AnswerOf(t, k)
  BY DEF IsAnswerOf
<1>2. PICK k : a = AnswerOf(t, k)
  BY <1>1
<1>3. t # Source /\ t[1] # Edb
  BY <1>1, Kinds DEF IsFinal, Typed
<1>4. PICK x : x = <<"query", k, t[1]>>
  OBVIOUS
<1>5. a = t[2] \cup {x} /\ x[1] = "query" /\ x[3] = t[1]
  BY <1>2, <1>3, <1>4 DEF AnswerOf, Choice
<1>6. Grouped(g, t[2])
  BY <1>1, <1>3 DEF Derived
<1>7. Grouped(g, a)
  BY <1>1, <1>5, <1>6 DEF Grouped
<1>8. EosToken \notin a
  BY <1>7 DEF Grouped, EosToken
<1> QED
  BY <1>7, <1>8 DEF Copy

\* What a selection combines.
LEMMA CombinesTwo ==
    ASSUME Typed, IsPair, Derived, NEW b, \A g \in Groups : \A i \in DOMAIN b[g] : IsAnswerOf(g, b[g][i]),
           NEW f \in Unifying(b)
    PROVE  /\ CombinationOf(b, f) = b[1][f[1]] \cup b[2][f[2]]
           /\ Grouped(1, b[1][f[1]]) /\ Grouped(2, b[2][f[2]]) /\ Unifies(b[1][f[1]], b[2][f[2]])
           /\ f \in Selections(b) /\ f[1] \in DOMAIN b[1] /\ f[2] \in DOMAIN b[2]
<1>1. Groups = {1, 2}
  BY PairStreams DEF Typed
<1>2. f \in Selections(b) /\ f[1] \in DOMAIN b[1] /\ f[2] \in DOMAIN b[2] /\ Unifies(b[1][f[1]], b[2][f[2]])
  BY <1>1 DEF Unifying, Selections
<1>3. /\ Grouped(1, b[1][f[1]]) /\ Copy(b[1][f[1]]) = b[1][f[1]]
      /\ Grouped(2, b[2][f[2]]) /\ Copy(b[2][f[2]]) = b[2][f[2]]
  BY <1>1, <1>2, AnswerGrouped
<1>4. CombinationOf(b, f) = Copy(b[1][f[1]]) \cup Copy(b[2][f[2]])
  BY <1>1 DEF CombinationOf
<1> QED
  BY <1>2, <1>3, <1>4

\* Two answers can be told from their combination.
LEMMA CombinationSplits ==
    ASSUME NEW a, NEW c, Grouped(1, a), Grouped(2, c), Unifies(a, c)
    PROVE  /\ a = {x \in a \cup c : x[1] = "edb" \/ (x[1] = "query" /\ Group(x[3]) = 1)}
           /\ c = {x \in a \cup c : x[1] = "edb" \/ (x[1] = "query" /\ Group(x[3]) = 2)}
<1>1. \A x \in a : x[1] = "edb" => x \in c
  BY DEF Grouped, Unifies
<1>2. \A x \in c : x[1] = "edb" => x \in a
  BY DEF Grouped, Unifies
<1> QED
  BY <1>1, <1>2 DEF Grouped

\* Selections of different answers give different combinations.
LEMMA CombinationsDiffer ==
    ASSUME Typed, IsPair, Derived, NEW b,
           \A g \in Groups : /\ \A i \in DOMAIN b[g] : IsAnswerOf(g, b[g][i])
                             /\ \A i, j \in DOMAIN b[g] : b[g][i] = b[g][j] => i = j,
           NEW f \in Unifying(b), NEW h \in Unifying(b), CombinationOf(b, f) = CombinationOf(b, h)
    PROVE  f = h
<1>1. Groups = {1, 2}
  BY PairStreams DEF Typed
<1>2. /\ CombinationOf(b, f) = b[1][f[1]] \cup b[2][f[2]]
      /\ Grouped(1, b[1][f[1]]) /\ Grouped(2, b[2][f[2]]) /\ Unifies(b[1][f[1]], b[2][f[2]])
      /\ f \in Selections(b) /\ f[1] \in DOMAIN b[1] /\ f[2] \in DOMAIN b[2]
  BY CombinesTwo
<1>3. /\ CombinationOf(b, h) = b[1][h[1]] \cup b[2][h[2]]
      /\ Grouped(1, b[1][h[1]]) /\ Grouped(2, b[2][h[2]]) /\ Unifies(b[1][h[1]], b[2][h[2]])
      /\ h \in Selections(b) /\ h[1] \in DOMAIN b[1] /\ h[2] \in DOMAIN b[2]
  BY CombinesTwo
<1>4. b[1][f[1]] = b[1][h[1]] /\ b[2][f[2]] = b[2][h[2]]
  <2>1. PICK u : u = CombinationOf(b, f)
    OBVIOUS
  <2>2. /\ b[1][f[1]] = {x \in u : x[1] = "edb" \/ (x[1] = "query" /\ Group(x[3]) = 1)}
        /\ b[2][f[2]] = {x \in u : x[1] = "edb" \/ (x[1] = "query" /\ Group(x[3]) = 2)}
    BY <1>2, <2>1, CombinationSplits
  <2>3. /\ b[1][h[1]] = {x \in u : x[1] = "edb" \/ (x[1] = "query" /\ Group(x[3]) = 1)}
        /\ b[2][h[2]] = {x \in u : x[1] = "edb" \/ (x[1] = "query" /\ Group(x[3]) = 2)}
    BY <1>3, <2>1, CombinationSplits
  <2> QED
    BY <2>2, <2>3
<1>5. f[1] = h[1] /\ f[2] = h[2]
  BY <1>1, <1>2, <1>3, <1>4
<1> QED
  BY <1>1, <1>2, <1>3, <1>5 DEF Selections

\* The next combination is on its way to the reader.
LEMMA PushCombinationPair ==
    ASSUME Typed, IsPair, Derived, PairInv, NEW t \in Threads, PushCombination(t)
    PROVE  PairInv'
<1>1. IsCall(t, "combine") /\ Head(stack[t]).todo # {}
  BY DEF PushCombination
<1>2. t = bufferLock /\ t # NoThread
  BY <1>1, CombinesRest
<1>3. PICK todo : stack[t] = <<Combining(todo)>> /\ Head(stack[t]).todo = todo /\ Combined(todo, {})
  BY <1>1, CombinesRest
<1>4. PICK f : f = NextOf(todo)
  OBVIOUS
<1>5. PICK a : a = CombinationOf(buffer, f)
  OBVIOUS
<1>6. PICK p, r : p = Push(Combiner, Idb, a) /\ r = Combining(todo \ {f})
  OBVIOUS
<1>7. stack' = Does(t, Broadcast(Combiner, a) \o <<r>>)
  BY <1>3, <1>4, <1>5, <1>6 DEF PushCombination, CombinationOf
<1>8. Broadcast(Combiner, a) = <<p>>
  BY <1>6, BroadcastToOne, PairStreams DEF Typed
<1>9. PICK calls : calls = <<p>> \o <<r>>
  OBVIOUS
<1>10. IsSequence(calls) /\ calls = <<p, r>>
  <2>1. PICK q : q = <<p, r>>
    OBVIOUS
  <2>2. <<p>> \o Tail(q) = <<p, r>> /\ Tail(q) = <<r>>
    BY ONLY <2>1, FirstReplaced
  <2>3. <<p, r>> \in Seq({p, r})
    BY ONLY TRUE
  <2> QED
    BY <1>9, <2>2, <2>3 DEF IsSequence
<1>11. Typed' /\ Threads' = Threads /\ output' = output
  BY CombinesDoes DEF Combines
<1>12. UNCHANGED <<plan, numSent, isOpened, isQueryOpened, graphQueries, buffer, bufferLock, produced>>
  BY DEF PushCombination, streamVars, stageVars, combinerVars, readerVars
<1>13. Shape(t, calls) /\ stack'[t] = <<p, r>>
  <2>1. PICK q, c : q = stack[t] /\ c = Combining(todo)
    OBVIOUS
  <2>2. q = <<c>>
    BY <1>3, <2>1
  <2>3. q # <<>> /\ calls \o Tail(q) = calls
    BY ONLY <1>10, <2>2, OnlyReplaced
  <2>4. Shape(t, calls)
    BY <1>7, <1>8, <1>9, <1>10, <2>1, <2>3, Shapes
  <2> QED
    BY <1>10, <2>1, <2>3, <2>4 DEF Shape
<1>14. Groups = {1, 2}
  BY PairStreams DEF Typed
<1>15. f \in todo /\ todo \subseteq Unifying(buffer)
  <2>1. todo \subseteq Unifying(buffer) /\ todo # {}
    BY <1>1, <1>3 DEF Combined
  <2>2. \A g \in Groups : DOMAIN buffer[g] \subseteq Nat
    <3> SUFFICES ASSUME NEW g \in Groups PROVE DOMAIN buffer[g] \subseteq Nat
      OBVIOUS
    <3>1. DOMAIN buffer[g] = 1 .. Len(buffer[g])
      BY LenProperties DEF PairInv, Buffered, IsSequence
    <3> QED
      BY <3>1
  <2>3. UNION {DOMAIN buffer[h] : h \in Groups} \subseteq Nat
    BY <2>2
  <2>4. todo \subseteq [Groups -> Nat]
    BY <2>1, <2>3 DEF Unifying, Selections
  <2> QED
    BY <1>4, <1>14, <2>1, <2>4, FirstSelection
<1>16. \A h \in todo \ {f} : CombinationOf(buffer, h) # a
  <2>1. \A g \in Groups : /\ \A i \in DOMAIN buffer[g] : IsAnswerOf(g, buffer[g][i])
                          /\ \A i, j \in DOMAIN buffer[g] : buffer[g][i] = buffer[g][j] => i = j
    <3> SUFFICES ASSUME NEW g \in Groups, NEW i \in DOMAIN buffer[g] PROVE IsAnswerOf(g, buffer[g][i])
      BY DEF PairInv, Buffered
    <3>1. PICK x : x = <<g, buffer[g][i]>>
      OBVIOUS
    <3>2. x \in produced /\ x[1] = g /\ x[2] = buffer[g][i]
      BY <3>1 DEF PairInv, Buffered
    <3> QED
      BY <3>2 DEF PairInv, Buffered
  <2> QED
    BY <1>5, <1>15, <2>1, CombinationsDiffer
<1>17. Combined(todo \ {f}, {a})
  BY <1>3, <1>5, <1>15, <1>16 DEF Combined
<1>18. Combined(todo \ {f}, {a})'
  BY <1>11, <1>12, <1>17, SameCombined
<1>19. Combinator'
  <2>1. Pushes(todo \ {f}, {a})'
    BY <1>2, <1>6, <1>12, <1>13 DEF Pushes
  <2>2. IsFinal(bufferLock)' /\ numSent'[t] >= 1 /\ t \in Threads'
    BY <1>2, <1>11, <1>12 DEF PairInv, Combinator, IsFinal
  <2> QED
    BY <1>2, <1>12, <1>18, <2>1, <2>2 DEF Combinator
<1> QED
  BY <1>2, <1>11, <1>12, <1>13, <1>19, HolderStep, SameOpened DEF PairInv

\* A message is added to the buffer of group g.
Enters(g, m) ==
    /\ g \in Groups /\ \A h \in Groups \ {g} : buffer'[h] = buffer[h]
    /\ IsSequence(buffer'[g]) /\ Len(buffer'[g]) \notin DOMAIN buffer[g]
    /\ DOMAIN buffer'[g] = DOMAIN buffer[g] \cup {Len(buffer'[g])}
    /\ buffer'[g][Len(buffer'[g])] = m /\ \A i \in DOMAIN buffer[g] : buffer'[g][i] = buffer[g][i]

\* Appending is such an addition.
LEMMA EntersAtEnd ==
    ASSUME DOMAIN buffer = Groups, NEW g \in Groups, IsSequence(buffer[g]), NEW m,
           buffer' = [buffer EXCEPT ![g] = Append(@, m)]
    PROVE  Enters(g, m)
<1>1. PICK S : buffer[g] \in Seq(S)
  BY DEF IsSequence
<1>2. PICK q : q = buffer[g]
  OBVIOUS
<1>3. q \in Seq(S \cup {m}) /\ Len(q) \in Nat /\ DOMAIN q = 1 .. Len(q)
  BY <1>1, <1>2, LenProperties
<1>4. PICK z : z = Append(q, m)
  OBVIOUS
<1>5. z \in Seq(S \cup {m}) /\ Len(z) = Len(q) + 1 /\ z[Len(q) + 1] = m /\ \A i \in 1 .. Len(q) : z[i] = q[i]
  BY <1>3, <1>4, AppendProperties
<1>6. DOMAIN z = 1 .. Len(q) + 1
  BY <1>5, LenProperties
<1>7. DOMAIN z = DOMAIN q \cup {Len(z)} /\ Len(z) \notin DOMAIN q /\ z[Len(z)] = m /\ \A i \in DOMAIN q : z[i] = q[i]
  BY ONLY <1>3, <1>5, <1>6
<1>8. buffer'[g] = z /\ \A h \in Groups \ {g} : buffer'[h] = buffer[h]
  BY <1>2, <1>4
<1>9. IsSequence(z)
  BY <1>5 DEF IsSequence
<1> QED
  BY <1>2, <1>7, <1>8, <1>9 DEF Enters

\* The combiner takes an answer that it does not have yet, or EOS.
LEMMA CombineDelivers ==
    ASSUME Typed, Locked, IsPair, PairInv, NEW t \in Threads, Combine(t), Quiet'
    PROVE  /\ Typed' /\ Threads' = Threads /\ t # NoThread /\ bufferLock = NoThread /\ Delivers(t)
           /\ Enters(Group(t[1]), Current(t))
           /\ Shape(t, <<Combining(Combinations(buffer', Group(t[1])))>>)
           /\ stack'[t] = <<Combining(Combinations(buffer', Group(t[1])))>>
<1>1. /\ stack[t] # <<>> /\ 1 \in DOMAIN stack[t] /\ Head(stack[t]) = stack[t][1] /\ stack[t][1].op = "push"
      /\ stack[t][1].to = Combiner
  BY Top DEF Combine, IsPush
<1>2. t # NoThread /\ bufferLock = NoThread
  BY HomeOf DEF Combine
<1>3. PICK g, m : g = stack[t][1].from[2] /\ m = stack[t][1].msg
  OBVIOUS
<1>4. PICK r : r = Combining(Combinations(buffer', g))
  OBVIOUS
<1>5. /\ buffer' = [buffer EXCEPT ![g] = Append(@, m)]
      /\ stack' = Does(t, <<r>>) /\ plan' = plan
  BY <1>1, <1>3, <1>4 DEF Combine, Msg
<1>6. g \in Groups => Enters(g, m)
  BY <1>5, EntersAtEnd DEF PairInv, Buffered, Locked
<1>7. Groups' = Groups
  BY <1>5, SamePair
<1>8. ~HandsEosOn(t)
  <2> SUFFICES ASSUME HandsEosOn(t) PROVE FALSE
    OBVIOUS
  <2>1. m = EOS /\ stack[t][1].from \in Steps
    BY <1>1, <1>3 DEF HandsEosOn, EosSequence, IsEosCall
  <2>2. g \in Groups
    BY <1>3, <2>1, PairStreams DEF Group, Typed
  <2>3. Len(buffer'[g]) \in DOMAIN buffer'[g] /\ buffer'[g][Len(buffer'[g])] = EOS
    BY <1>6, <2>1, <2>2 DEF Enters
  <2> QED
    BY <1>7, <2>2, <2>3 DEF Quiet
<1>9. ~Relays(t)
  <2>1. Combiner \notin Stages /\ Combiner # Home(t)
    BY HomeOf, Kinds
  <2> QED
    BY <1>1, <2>1 DEF Relays, IsNextStage
<1>10. Delivers(t)
  BY <1>2, <1>8, <1>9 DEF PairInv, Flows
<1>11. PICK c : c = Push(Home(t), Combiner, Current(t))
  OBVIOUS
<1>12. \A q, d : q = <<d>> => q[1] = d
  OBVIOUS
<1>13. stack[t] = <<c>>
  <2>1. Combiner # Home(t)
    BY HomeOf
  <2> QED
    BY <1>1, <1>10, <1>11, <1>12, <2>1, CallsAre DEF Delivers
<1>14. g = Group(t[1]) /\ g \in Groups /\ m = Current(t)
  <2>1. m = Current(t) /\ g = Home(t)[2]
    BY <1>3, <1>11, <1>12, <1>13, CallsAre
  <2>2. Home(t) = Step(Group(t[1]), plan[Group(t[1])]) /\ Group(t[1]) \in Groups
    BY <1>10, HomeOf DEF Delivers
  <2> QED
    BY <2>1, <2>2, Names
<1>15. IsSequence(<<r>>)
  <2>1. <<r>> \in Seq({r})
    OBVIOUS
  <2> QED
    BY <2>1 DEF IsSequence
<1>16. Shape(t, <<r>>) /\ Threads' = Threads
  BY <1>1, <1>5, <1>15, Shapes
<1>17. stack'[t] = <<r>>
  <2>1. PICK q, calls : q = stack[t] /\ calls = <<r>>
    OBVIOUS
  <2>2. calls \o Tail(q) = calls
    BY <1>13, <1>15, <2>1, OnlyReplaced
  <2> QED
    BY <1>1, <1>16, <2>1, <2>2 DEF Shape
<1>18. Typed'
  BY CombinesDoes DEF Combines
<1> QED
  BY <1>2, <1>4, <1>6, <1>10, <1>14, <1>16, <1>17, <1>18

\* The combiner has what was delivered to it.
LEMMA CombineBuffered ==
    ASSUME Typed, Typed', Born, IsPair, Buffered, NEW t \in Threads, Delivers(t), Threads' = Threads,
           UNCHANGED <<plan, numSent, produced>>, bufferLock' = t, Enters(Group(t[1]), Current(t)),
           \A u \in Threads \ {t} : Delivers(u) => Delivers(u)' /\ Current(u)' = Current(u)
    PROVE  Buffered'
<1> DEFINE g == Group(t[1])
           m == Current(t)
           n == Len(buffer'[g])
<1>1. /\ g \in Groups /\ (\A h \in Groups \ {g} : buffer'[h] = buffer[h])
      /\ IsSequence(buffer'[g]) /\ n \notin DOMAIN buffer[g] /\ DOMAIN buffer'[g] = DOMAIN buffer[g] \cup {n}
      /\ buffer'[g][n] = m /\ \A i \in DOMAIN buffer[g] : buffer'[g][i] = buffer[g][i]
  BY DEF Enters
<1>2. <<g, m>> \in produced /\ ~InBuffer(g, m)
  BY DEF Delivers
<1> HIDE DEF g, m, n
<1>3. Groups' = Groups /\ \A u : IsFinal(u)' <=> IsFinal(u)
  BY SamePair
<1>4. ASSUME NEW h \in Groups
      PROVE  /\ IsSequence(buffer'[h])
             /\ \A i \in DOMAIN buffer'[h] : <<h, buffer'[h][i]>> \in produced
             /\ \A i, j \in DOMAIN buffer'[h] : buffer'[h][i] = buffer'[h][j] => i = j
  <2>1. /\ IsSequence(buffer[h])
        /\ \A i \in DOMAIN buffer[h] : <<h, buffer[h][i]>> \in produced
        /\ \A i, j \in DOMAIN buffer[h] : buffer[h][i] = buffer[h][j] => i = j
    BY DEF Buffered
  <2>2. CASE h # g
    BY <1>1, <2>1, <2>2
  <2>3. CASE h = g
    <3>1. \A i \in DOMAIN buffer[g] : buffer[g][i] # m
      BY <1>2 DEF InBuffer
    <3> QED
      BY <1>1, <1>2, <2>1, <2>3, <3>1
  <2> QED
    BY <2>2, <2>3
<1>5. ASSUME NEW h \in Groups, NEW a, InBuffer(h, a) \/ (h = g /\ a = m) PROVE InBuffer(h, a)'
  BY <1>1, <1>5 DEF InBuffer
<1>6. ASSUME NEW h, NEW a, IsAnswerOf(h, a) PROVE IsAnswerOf(h, a)'
  <2>1. PICK u \in Threads : IsFinal(u) /\ Group(u[1]) = h /\ \E k \in 1 .. numSent[u] : a = AnswerOf(u, k)
    BY <1>6 DEF IsAnswerOf
  <2>2. PICK k \in 1 .. numSent[u] : a = AnswerOf(u, k)
    BY <2>1
  <2>3. AnswerOf(u, k)' = AnswerOf(u, k)
    BY DEF AnswerOf
  <2> QED
    BY <1>3, <2>1, <2>2, <2>3 DEF IsAnswerOf
<1>7. ASSUME NEW p \in produced
      PROVE  /\ p[1] \in Groups /\ p = <<p[1], p[2]>> /\ IsAnswerOf(p[1], p[2])'
             /\ \/ InBuffer(p[1], p[2])'
                \/ \E u \in Threads : u # bufferLock' /\ Delivers(u)' /\ Group(u[1]) = p[1] /\ Current(u)' = p[2]
  <2>1. /\ p[1] \in Groups /\ p = <<p[1], p[2]>> /\ IsAnswerOf(p[1], p[2])
        /\ \/ InBuffer(p[1], p[2])
           \/ \E u \in Threads : u # bufferLock /\ Delivers(u) /\ Group(u[1]) = p[1] /\ Current(u) = p[2]
    BY DEF Buffered
  <2>2. IsAnswerOf(p[1], p[2])'
    BY <1>6, <2>1
  <2>3. CASE InBuffer(p[1], p[2])
    BY <1>5, <2>1, <2>2, <2>3
  <2>4. ASSUME NEW u \in Threads, Delivers(u), Group(u[1]) = p[1], Current(u) = p[2]
        PROVE  \/ InBuffer(p[1], p[2])'
               \/ u # bufferLock' /\ Delivers(u)' /\ Group(u[1]) = p[1] /\ Current(u)' = p[2]
    <3>1. CASE u = t
      BY <1>5, <2>1, <2>4, <3>1 DEF g, m
    <3>2. CASE u # t
      BY <2>4, <3>2
    <3> QED
      BY <3>1, <3>2
  <2> QED
    BY <2>1, <2>2, <2>3, <2>4
<1> QED
  BY <1>3, <1>4, <1>7 DEF Buffered

\* What has still to be combined are the combinations with the new answer.
LEMMA CombineCombined ==
    ASSUME Typed, Typed', Derived, IsPair, Buffered, Combined({}, {}), NEW t \in Threads, Delivers(t),
           UNCHANGED <<plan, output>>, Enters(Group(t[1]), Current(t)),
           NEW todo, todo = Combinations(buffer', Group(t[1]))
    PROVE  Combined(todo, {})'
<1>1. PICK g, m, b, c : g = Group(t[1]) /\ m = Current(t) /\ b = buffer' /\ c = buffer
  OBVIOUS
<1>2. PICK n : n = Len(b[g])
  OBVIOUS
<1>3. /\ g \in Groups /\ (\A h \in Groups \ {g} : b[h] = c[h])
      /\ IsSequence(b[g]) /\ n \notin DOMAIN c[g] /\ DOMAIN b[g] = DOMAIN c[g] \cup {n}
      /\ b[g][n] = m /\ \A i \in DOMAIN c[g] : b[g][i] = c[g][i]
  BY <1>1, <1>2 DEF Enters
<1>4. <<g, m>> \in produced /\ ~InBuffer(g, m)
  BY <1>1 DEF Delivers
<1>5. Groups' = Groups
  BY SamePair
<1>6. ASSUME NEW h \in Groups
      PROVE  /\ \A i \in DOMAIN b[h] : IsAnswerOf(h, b[h][i])
             /\ \A i, j \in DOMAIN b[h] : b[h][i] = b[h][j] => i = j
             /\ \A i \in DOMAIN c[h] : i \in DOMAIN b[h] /\ b[h][i] = c[h][i]
             /\ DOMAIN c[h] \subseteq DOMAIN b[h]
  <2>1. /\ \A i \in DOMAIN c[h] : <<h, c[h][i]>> \in produced
        /\ \A i, j \in DOMAIN c[h] : c[h][i] = c[h][j] => i = j
    BY <1>1 DEF Buffered
  <2>2. ASSUME NEW a, <<h, a>> \in produced PROVE IsAnswerOf(h, a)
    <3>1. PICK x : x = <<h, a>>
      OBVIOUS
    <3>2. x \in produced /\ x[1] = h /\ x[2] = a
      BY <2>2, <3>1
    <3> QED
      BY <3>2 DEF Buffered
  <2>3. \A i \in DOMAIN c[g] : c[g][i] # m
    BY <1>1, <1>4 DEF InBuffer
  <2>4. CASE h # g
    BY <1>3, <2>1, <2>2, <2>4
  <2>5. CASE h = g
    <3>1. \A i \in DOMAIN b[g] : <<g, b[g][i]>> \in produced
      BY <1>3, <1>4, <2>1, <2>5
    <3>2. \A i, j \in DOMAIN b[g] : b[g][i] = b[g][j] => i = j
      BY <1>3, <2>1, <2>3, <2>5
    <3> QED
      BY <1>3, <2>2, <2>5, <3>1, <3>2
  <2> QED
    BY <2>4, <2>5
<1>7. todo = Combinations(b, g)
  BY <1>1
<1>8. todo = {f \in Unifying(b) : f[g] = n}
  BY <1>2, <1>7 DEF Combinations, Unifying
<1>9. Unifying(c) = {f \in Unifying(b) : f[g] # n}
  <2>1. ASSUME NEW f \in Unifying(c) PROVE f \in Unifying(b) /\ f[g] # n
    <3>1. f \in Selections(c) /\ \A h \in Groups : f[h] \in DOMAIN c[h] /\ f[h] \in DOMAIN b[h] /\ b[h][f[h]] = c[h][f[h]]
      BY <1>6 DEF Unifying, Selections
    <3>2. f \in Selections(b)
      BY <1>6, <3>1 DEF Selections
    <3>3. \A h, e \in Groups : h # e => Unifies(c[h][f[h]], c[e][f[e]])
      BY DEF Unifying
    <3>4. \A h, e \in Groups : h # e => Unifies(b[h][f[h]], b[e][f[e]])
      BY <3>1, <3>3
    <3> QED
      BY <1>3, <3>1, <3>2, <3>4 DEF Unifying
  <2>2. ASSUME NEW f \in Unifying(b), f[g] # n PROVE f \in Unifying(c)
    <3>1. \A h \in Groups : f[h] \in DOMAIN b[h]
      BY DEF Unifying, Selections
    <3>2. \A h \in Groups : f[h] \in DOMAIN c[h] /\ b[h][f[h]] = c[h][f[h]]
      BY <1>3, <2>2, <3>1
    <3>3. f \in Selections(c)
      BY <3>2 DEF Unifying, Selections
    <3>4. \A h, e \in Groups : h # e => Unifies(b[h][f[h]], b[e][f[e]])
      BY DEF Unifying
    <3>5. \A h, e \in Groups : h # e => Unifies(c[h][f[h]], c[e][f[e]])
      BY <3>2, <3>4
    <3> QED
      BY <3>3, <3>5 DEF Unifying
  <2> QED
    BY <2>1, <2>2
<1>10. ASSUME NEW f \in Unifying(c) PROVE CombinationOf(c, f) = CombinationOf(b, f)
  <2>1. \A h \in Groups : b[h][f[h]] = c[h][f[h]]
    BY <1>6 DEF Unifying, Selections
  <2> QED
    BY <2>1 DEF CombinationOf
<1>11. /\ Range(output) = {CombinationOf(c, f) : f \in Unifying(c)}
       /\ \A i, j \in DOMAIN output : output[i] = output[j] => i = j
  BY <1>1 DEF Combined
<1>12. Range(output) = {CombinationOf(b, f) : f \in Unifying(c)}
  BY <1>10, <1>11
<1>13. /\ todo \subseteq Unifying(b)
       /\ Range(output) \cup {} \cup {CombinationOf(b, f) : f \in todo} = {CombinationOf(b, f) : f \in Unifying(b)}
  BY <1>8, <1>9, <1>12
<1>14. \A f \in todo : CombinationOf(b, f) \notin Range(output) \cup {}
  <2> SUFFICES ASSUME NEW f \in todo, NEW h \in Unifying(c), CombinationOf(b, f) = CombinationOf(b, h) PROVE FALSE
    BY <1>12
  <2>1. f \in Unifying(b) /\ h \in Unifying(b) /\ f # h
    BY <1>8, <1>9
  <2> QED
    BY <1>6, <2>1, CombinationsDiffer
<1>15. Unifying(buffer)' = Unifying(b) /\ \A f : CombinationOf(buffer, f)' = CombinationOf(b, f)
  BY <1>1, <1>5 DEF Unifying, CombinationOf, Selections, Unifies, Copy
<1>16. Combined(todo, {})'
  <2>1. {CombinationOf(buffer, f) : f \in todo}' = {CombinationOf(b, f) : f \in todo}
    BY <1>15
  <2>2. {CombinationOf(buffer, f) : f \in Unifying(buffer)}' = {CombinationOf(b, f) : f \in Unifying(b)}
    BY <1>15
  <2>3. Range(output)' = Range(output)
    OBVIOUS
  <2> QED
    BY <1>11, <1>13, <1>14, <1>15, <2>1, <2>2, <2>3 DEF Combined
<1> QED
  BY <1>16

\* The combiner takes an answer, and the lock.
LEMMA CombinePair ==
    ASSUME Typed, Locked, IsPair, Born, Derived, PairInv, NEW t \in Threads, Combine(t), Quiet'
    PROVE  PairInv'
<1>1. PICK todo : todo = Combinations(buffer', Group(t[1]))
  OBVIOUS
<1>2. /\ Typed' /\ Threads' = Threads /\ t # NoThread /\ bufferLock = NoThread /\ Delivers(t)
      /\ Enters(Group(t[1]), Current(t))
      /\ Shape(t, <<Combining(todo)>>) /\ stack'[t] = <<Combining(todo)>>
  BY <1>1, CombineDelivers
<1>3. /\ UNCHANGED <<plan, numSent, isOpened, isQueryOpened, graphQueries, output, produced>>
      /\ bufferLock' = t
  BY DEF Combine, streamVars, stageVars, readerVars
<1>4. ASSUME NEW u \in Threads \ {t}, Delivers(u) PROVE ~InBuffer(Group(u[1]), Current(u))'
  <2>1. Current(u)' = Current(u)
    BY <1>3 DEF Current, AnswerOf
  <2>2. Current(u) # Current(t)
    <3>1. numSent[u] \in Nat /\ numSent[t] \in Nat
      BY DEF Typed
    <3> QED
      BY <3>1, AnswersDiffer DEF Current
  <2>3. PICK g, a, m : g = Group(u[1]) /\ a = Current(u) /\ m = Current(t)
    OBVIOUS
  <2>4. a # m /\ ~InBuffer(g, a) /\ g \in Groups
    BY <1>4, <2>2, <2>3, HomeOf DEF Delivers
  <2>5. ~InBuffer(g, a)'
    BY <1>2, <2>3, <2>4 DEF InBuffer, Enters
  <2> QED
    BY <2>1, <2>3, <2>5 DEF InBuffer
<1>5. Flows' /\ \A u \in Threads \ {t} : Delivers(u) => Delivers(u)' /\ Current(u)' = Current(u)
  BY <1>2, <1>3, <1>4, HomeOf, FlowsStep DEF PairInv
<1>6. Buffered'
  BY <1>2, <1>3, <1>5, CombineBuffered DEF PairInv
<1>7. Combined(todo, {})'
  BY <1>1, <1>2, <1>3, CombineCombined DEF PairInv, Combinator
<1>8. Combinator'
  <2>1. Pushes(todo, {})'
    BY <1>2, <1>3 DEF Pushes
  <2>2. IsFinal(t) /\ numSent[t] >= 1
    BY <1>2 DEF Delivers
  <2>3. IsFinal(bufferLock)' /\ numSent'[t] >= 1 /\ t \in Threads'
    BY <1>2, <1>3, <2>2 DEF IsFinal
  <2> QED
    BY <1>2, <1>3, <1>7, <2>1, <2>3 DEF Combinator
<1> QED
  BY <1>3, <1>5, <1>6, <1>8, SameOpened DEF PairInv

\* Buffers only grow: a group that has ended stays so.
LEMMA BuffersGrow ==
    ASSUME Typed, Locked, \A g \in Groups : IsSequence(buffer[g]), Next
    PROVE  (\A g \in Groups' : IsSequence(buffer'[g])) /\ (Quiet' => Quiet)
<1>1. Groups' = Groups
  BY PlanStays, SamePair
<1>2. CASE buffer' = buffer
  BY <1>1, <1>2 DEF Quiet
<1>3. ASSUME NEW t \in Threads, Combine(t)
      PROVE  (\A g \in Groups : IsSequence(buffer'[g])) /\ (Quiet' => Quiet)
  <2>1. PICK g, m : buffer' = [buffer EXCEPT ![g] = Append(@, m)]
    BY <1>3 DEF Combine
  <2>2. CASE g \notin Groups
    <3>1. \A h \in Groups : buffer'[h] = buffer[h]
      BY <2>1, <2>2 DEF Locked
    <3> QED
      BY <1>1, <3>1 DEF Quiet
  <2>3. CASE g \in Groups
    <3>1. Enters(g, m)
      BY <2>1, <2>3, EntersAtEnd DEF Locked
    <3>2. \A h \in Groups : IsSequence(buffer'[h])
      BY <3>1 DEF Enters
    <3>3. \A h \in Groups : \A i \in DOMAIN buffer[h] : i \in DOMAIN buffer'[h] /\ buffer'[h][i] = buffer[h][i]
      BY <3>1 DEF Enters
    <3> QED
      BY <1>1, <3>2, <3>3 DEF Quiet
  <2> QED
    BY <2>2, <2>3
<1>4. buffer' = buffer \/ \E t \in Threads : Combine(t)
  BY DEF Next, PushInput, EndInput, BroadcastAnswer, BroadcastEos, CloseStream, SubmitQuery, StageEos,
         PushAnswer, EndQuery, PushCombination, EndCombine, Receive, combinerVars
<1> QED
  BY <1>1, <1>2, <1>3, <1>4

\* All steps with two groups none of which has ended.
LEMMA PairNext ==
    ASSUME Typed, Locked, NoEos, IsPair, Born, Derived, PairInv, Next, Quiet'
    PROVE  Born' /\ Derived' /\ PairInv'
<1>1. ASSUME PushInput PROVE PairInv' /\ Threads' = Threads /\ \A u \in Threads : numSent'[u] >= numSent[u]
  <2>1. Threads' = Threads /\ numSent'[Source] = numSent[Source] + 1 /\ \A u \in Threads \ {Source} : numSent'[u] = numSent[u]
    BY <1>1, PushInputDoes
  <2> QED
    BY <1>1, <2>1, PushInputPair DEF Typed
<1>2. ASSUME EndInput PROVE PairInv' /\ Threads' = Threads /\ \A u \in Threads : numSent'[u] >= numSent[u]
  <2>1. Threads' = Threads /\ \A u \in Threads \ {Source} : numSent'[u] = numSent[u]
    BY <1>2, EndInputDoes
  <2>2. numSent'[Source] >= numSent[Source]
    <3>1. numSent[Source] \in Nat /\ NumInputs[plan] \in Nat /\ numSent[Source] <= NumInputs[plan] /\ numSent'[Source] = NumInputs[plan] + 1
      BY <1>2, EndInputDoes, Plan DEF Typed
    <3> QED
      BY <3>1
  <2> QED
    BY <1>2, <2>1, <2>2, EndInputPair DEF Typed
<1>3. ASSUME NEW t \in Threads, PushAnswer(t) PROVE PairInv' /\ Threads' = Threads /\ \A u \in Threads : numSent'[u] >= numSent[u]
  <2>1. Threads' = Threads /\ numSent'[t] = numSent[t] + 1 /\ \A u \in Threads \ {t} : numSent'[u] = numSent[u]
    BY <1>3, PushAnswerDoes
  <2> QED
    BY <1>3, <2>1, PushAnswerPair DEF Typed
<1>4. ASSUME NEW t \in Threads, BroadcastAnswer(t) PROVE PairInv' /\ Threads' = Threads /\ numSent' = numSent
  BY <1>4, BroadcastAnswerDoes, BroadcastOnPair, BroadcastCombinationPair DEF BroadcastAnswer
<1>5. ASSUME NEW t \in Threads, BroadcastEos(t) PROVE PairInv' /\ Threads' = Threads /\ numSent' = numSent
  BY <1>5, BroadcastEosDoes, BroadcastEosPair DEF BroadcastEos
<1>6. ASSUME NEW t \in Threads, CloseStream(t) PROVE PairInv' /\ Threads' = Threads /\ numSent' = numSent
  BY <1>6, CloseStreamDoes, CloseStreamPair DEF CloseStream
<1>7. ASSUME NEW t \in Threads, StageEos(t) PROVE PairInv' /\ Threads' = Threads /\ numSent' = numSent
  BY <1>7, StageEosDoes, StageEosPair DEF StageEos
<1>8. ASSUME NEW t \in Threads, EndQuery(t) PROVE PairInv' /\ Threads' = Threads /\ numSent' = numSent
  BY <1>8, EndQueryDoes, EndQueryPair DEF EndQuery
<1>9. ASSUME NEW t \in Threads, Combines(t) PROVE PairInv' /\ Threads' = Threads /\ numSent' = numSent
  <2>1. Threads' = Threads /\ numSent' = numSent
    BY <1>9, CombinesDoes DEF Combines, Combine, PushCombination, EndCombine
  <2>2. PairInv'
    BY <1>9, CombinePair, PushCombinationPair, EndCombinePair DEF Combines
  <2> QED
    BY <2>1, <2>2
<1>10. ASSUME NEW t \in Threads, Receive(t) PROVE PairInv' /\ Threads' = Threads /\ numSent' = numSent
  BY <1>10, ReceiveDoes, ReceivePair DEF Receive
<1>11. Typed'
  BY TypedNext
<1>12. ASSUME NEW t \in Threads, SubmitQuery(t) PROVE PairInv' /\ Born' /\ Derived'
  BY <1>12, SubmitQueryPair, SubmitQueryBorn
<1>13. numSent' = numSent => \A u \in Threads : numSent'[u] >= numSent[u]
  BY DEF Typed
<1>14. Threads' = Threads /\ (\A u \in Threads : numSent'[u] >= numSent[u]) => Born' /\ Derived'
  BY <1>11, BornStays
<1> QED
  BY <1>1, <1>2, <1>3, <1>4, <1>5, <1>6, <1>7, <1>8, <1>9, <1>10, <1>12, <1>13, <1>14 DEF Next, Combines

\* A step that changes nothing.
LEMMA PairStutters ==
    ASSUME Typed, CombinerInv, UNCHANGED vars
    PROVE  CombinerInv'
<1>1. /\ UNCHANGED <<plan, isOpened, graphQueries, isQueryOpened, stack, numSent, buffer, bufferLock, produced, output>>
      /\ Threads' = Threads
  BY DEF vars, streamVars, stageVars, threadVars, combinerVars, readerVars, Threads
<1>2. Groups' = Groups /\ Stages' = Stages
  BY <1>1, SamePair
<1>3. (Quiet' <=> Quiet) /\ \A g \in Groups' : IsSequence(buffer'[g])
  BY <1>1, <1>2 DEF Quiet, CombinerInv
<1>4. Born => Born'
  BY <1>1 DEF Born
<1>5. Derived => Derived'
  BY <1>1 DEF Derived
<1>6. ASSUME PairInv PROVE PairInv'
  <2>1. Opened'
    BY <1>1, <1>6, SameOpened DEF PairInv
  <2>2. ASSUME NEW u PROVE (Delivers(u) => Delivers(u)') /\ Current(u)' = Current(u)
    <3>1. Current(u)' = Current(u)
      BY <1>1 DEF Current, AnswerOf
    <3>2. Delivers(u) => ~InBuffer(Group(u[1]), Current(u))'
      BY <1>1, <3>1 DEF Delivers, InBuffer
    <3> QED
      BY <1>1, <3>1, <3>2, FlowStays
  <2>3. Flows'
    <3>1. ASSUME NEW u \in Threads, u # bufferLock PROVE HandsEosOn(u)' \/ Relays(u)' \/ Delivers(u)'
      <4>1. HandsEosOn(u) \/ Relays(u) \/ Delivers(u)
        BY <1>6, <3>1 DEF PairInv, Flows
      <4> QED
        BY <1>1, <2>2, <4>1, FlowStays
    <3> QED
      BY <1>1, <3>1 DEF Flows
  <2>4. Buffered'
    <3>1. ASSUME NEW g, NEW a, IsAnswerOf(g, a) PROVE IsAnswerOf(g, a)'
      BY <1>1, <3>1 DEF IsAnswerOf, AnswerOf, IsFinal
    <3>2. \A g, a : InBuffer(g, a)' <=> InBuffer(g, a)
      BY <1>1 DEF InBuffer
    <3>3. ASSUME NEW p \in produced
          PROVE  /\ p[1] \in Groups /\ p = <<p[1], p[2]>> /\ IsAnswerOf(p[1], p[2])'
                 /\ \/ InBuffer(p[1], p[2])'
                    \/ \E t \in Threads : t # bufferLock /\ Delivers(t)' /\ Group(t[1]) = p[1] /\ Current(t)' = p[2]
      <4>1. /\ p[1] \in Groups /\ p = <<p[1], p[2]>> /\ IsAnswerOf(p[1], p[2])
            /\ \/ InBuffer(p[1], p[2])
               \/ \E t \in Threads : t # bufferLock /\ Delivers(t) /\ Group(t[1]) = p[1] /\ Current(t) = p[2]
        BY <1>6 DEF PairInv, Buffered
      <4>2. IsAnswerOf(p[1], p[2])'
        BY <3>1, <4>1
      <4> QED
        BY <2>2, <3>2, <4>1, <4>2
    <3>4. \A g \in Groups : /\ IsSequence(buffer[g])
                            /\ \A i \in DOMAIN buffer[g] : <<g, buffer[g][i]>> \in produced
                            /\ \A i, j \in DOMAIN buffer[g] : buffer[g][i] = buffer[g][j] => i = j
      BY <1>6 DEF PairInv, Buffered
    <3> QED
      BY <1>1, <1>2, <3>3, <3>4 DEF Buffered
  <2>5. Combinator'
    <3>1. bufferLock # NoThread => bufferLock \in Threads /\ numSent[bufferLock] >= 1
      BY <1>6 DEF PairInv, Combinator
    <3> QED
      BY <1>1, <1>6, <3>1, CombinatorStays DEF PairInv
  <2> QED
    BY <2>1, <2>3, <2>4, <2>5 DEF PairInv
<1> QED
  BY <1>3, <1>4, <1>5, <1>6 DEF CombinerInv

\* What is known of two groups is preserved by every step, and holds at the start.
LEMMA CombinerInvNext ==
    ASSUME PipelineInv, Locked, IsPair => CombinerInv, [Next]_vars
    PROVE  (IsPair => CombinerInv)'
<1>1. Typed
  BY DEF PipelineInv
<1>2. CASE Next
  <2> SUFFICES ASSUME IsPair PROVE CombinerInv'
    BY <1>2, PlanStays, SamePair
  <2>1. NoEos
    BY PairStreams DEF PipelineInv, Typed
  <2>2. (\A g \in Groups' : IsSequence(buffer'[g])) /\ (Quiet' => Quiet)
    BY <1>1, <1>2, BuffersGrow DEF CombinerInv
  <2>3. Quiet' => Born' /\ Derived' /\ PairInv'
    BY <1>1, <1>2, <2>1, <2>2, PairNext DEF CombinerInv
  <2> QED
    BY <2>2, <2>3 DEF CombinerInv
<1>3. CASE UNCHANGED vars
  <2>1. plan' = plan
    BY <1>3 DEF vars
  <2> QED
    BY <1>1, <1>3, <2>1, SamePair, PairStutters
<1> QED
  BY <1>2, <1>3

\* At the start nothing has been produced.
LEMMA CombinerInvInit ==
    ASSUME Init, IsPair
    PROVE  CombinerInv
<1>1. /\ Typed /\ Threads = {Source} /\ stack[Source] = <<>> /\ output = <<>> /\ produced = {}
      /\ (\A n \in Streams : isOpened[n]) /\ \A s \in Stages : isQueryOpened[s]
  BY Initially
<1>2. bufferLock = NoThread /\ \A g \in Groups : buffer[g] = <<>>
  BY DEF Init
<1>3. \A g \in Groups : IsSequence(buffer[g]) /\ DOMAIN buffer[g] = {}
  BY <1>2, EmptyIsSequence
<1>4. Born /\ Derived
  BY <1>1 DEF Born, Derived
<1>5. Opened
  <2>1. Idb \in Streams /\ \A g \in Groups : Step(g, plan[g]) \in Streams
    BY <1>1, PairStreams, Kinds DEF Typed, IsLastStep
  <2> QED
    BY <1>1, <2>1 DEF Opened
<1>6. Flows
  BY <1>1, EmptyIsSequence DEF Flows, HandsEosOn, EosSequence
<1>7. Buffered
  BY <1>1, <1>3 DEF Buffered
<1>8. Combinator
  <2>1. Unifying(buffer) = {}
    <3>1. 1 \in Groups
      BY <1>1, PairStreams DEF Typed
    <3> QED
      BY <1>3, <3>1 DEF Unifying, Selections
  <2>2. Range(output) = {}
    BY <1>1, EmptyIsSequence DEF Range
  <2>3. \A i, j \in DOMAIN output : output[i] = output[j] => i = j
    BY <1>1, EmptyIsSequence
  <2>4. Combined({}, {})
    BY <2>1, <2>2, <2>3 DEF Combined
  <2> QED
    BY <1>2, <2>4 DEF Combinator
<1> QED
  BY <1>3, <1>4, <1>5, <1>6, <1>7, <1>8 DEF CombinerInv, PairInv

\* When no call is pending, the reader has what it is to have.
LEMMA CombinerInvCombines ==
    ASSUME Typed, Locked, CombinerInv, IsPair, Calls = {}, \A g \in Groups : EOS \notin Range(buffer[g])
    PROVE  /\ IsInjective(output)
           /\ Range(output) =
                  {p[1][2] \cup p[2][2] : p \in {q \in produced \X produced :
                       q[1][1] = 1 /\ q[2][1] = 2 /\ Unifies(q[1][2], q[2][2])}}
<1>1. Groups = {1, 2}
  BY PairStreams DEF Typed
<1>2. Derived /\ PairInv
  <2>1. Quiet
    BY DEF Quiet, Range
  <2> QED
    BY <2>1 DEF CombinerInv
<1>3. \A t \in Threads : DOMAIN stack[t] = {}
  BY DEF Calls, Range
<1>4. bufferLock = NoThread
  BY <1>3 DEF Locked
<1>5. /\ Range(output) = {CombinationOf(buffer, f) : f \in Unifying(buffer)}
      /\ \A i, j \in DOMAIN output : output[i] = output[j] => i = j
  BY <1>2, <1>4 DEF PairInv, Combinator, Combined
<1>6. \A t \in Threads : ~Delivers(t)
  <2>1. \A q, c : q = <<c>> => DOMAIN q # {}
    OBVIOUS
  <2> QED
    BY <1>3, <2>1 DEF Delivers
<1>7. ASSUME NEW p \in produced PROVE InBuffer(p[1], p[2]) /\ p = <<p[1], p[2]>>
  BY <1>2, <1>6 DEF PairInv, Buffered
<1>8. ASSUME NEW g \in Groups, NEW i \in DOMAIN buffer[g] PROVE <<g, buffer[g][i]>> \in produced /\ IsAnswerOf(g, buffer[g][i])
  <2>1. PICK x : x = <<g, buffer[g][i]>>
    OBVIOUS
  <2>2. x \in produced /\ x[1] = g /\ x[2] = buffer[g][i]
    BY <1>2, <2>1 DEF PairInv, Buffered
  <2> QED
    BY <1>2, <2>1, <2>2 DEF PairInv, Buffered
<1> DEFINE pairs == {q \in produced \X produced : q[1][1] = 1 /\ q[2][1] = 2 /\ Unifies(q[1][2], q[2][2])}
<1>9. ASSUME NEW f \in Unifying(buffer) PROVE \E p \in pairs : CombinationOf(buffer, f) = p[1][2] \cup p[2][2]
  <2>1. /\ CombinationOf(buffer, f) = buffer[1][f[1]] \cup buffer[2][f[2]]
        /\ Unifies(buffer[1][f[1]], buffer[2][f[2]]) /\ f[1] \in DOMAIN buffer[1] /\ f[2] \in DOMAIN buffer[2]
    BY <1>1, <1>2, <1>8, CombinesTwo
  <2>2. PICK a, c : a = buffer[1][f[1]] /\ c = buffer[2][f[2]]
    OBVIOUS
  <2>3. <<1, a>> \in produced /\ <<2, c>> \in produced
    BY <1>1, <1>8, <2>1, <2>2
  <2>4. PICK x, y : x = <<1, a>> /\ y = <<2, c>>
    OBVIOUS
  <2>5. x[1] = 1 /\ x[2] = a /\ y[1] = 2 /\ y[2] = c
    BY <2>4
  <2>6. PICK p : p = <<x, y>>
    OBVIOUS
  <2>7. p \in pairs
    BY <2>1, <2>2, <2>3, <2>4, <2>5, <2>6
  <2> QED
    BY <2>1, <2>2, <2>5, <2>6, <2>7
<1>10. ASSUME NEW p \in pairs PROVE \E f \in Unifying(buffer) : CombinationOf(buffer, f) = p[1][2] \cup p[2][2]
  <2>1. p[1] \in produced /\ p[2] \in produced /\ p[1][1] = 1 /\ p[2][1] = 2 /\ Unifies(p[1][2], p[2][2])
    OBVIOUS
  <2>2. PICK i \in DOMAIN buffer[1] : buffer[1][i] = p[1][2]
    BY <1>7, <2>1 DEF InBuffer
  <2>3. PICK j \in DOMAIN buffer[2] : buffer[2][j] = p[2][2]
    BY <1>7, <2>1 DEF InBuffer
  <2>4. PICK f : f = [h \in Groups |-> IF h = 1 THEN i ELSE j]
    OBVIOUS
  <2>5. f[1] = i /\ f[2] = j
    BY <1>1, <2>4
  <2>6. f \in Selections(buffer)
    BY <1>1, <2>4, <2>5 DEF Selections
  <2>7. \A h, e \in Groups : h # e => Unifies(buffer[h][f[h]], buffer[e][f[e]])
    <3>1. Unifies(buffer[1][f[1]], buffer[2][f[2]])
      BY <2>1, <2>2, <2>3, <2>5
    <3>2. Unifies(buffer[2][f[2]], buffer[1][f[1]])
      BY <3>1 DEF Unifies
    <3> QED
      BY <1>1, <3>1, <3>2
  <2>8. f \in Unifying(buffer)
    BY <2>6, <2>7 DEF Unifying
  <2>9. CombinationOf(buffer, f) = buffer[1][f[1]] \cup buffer[2][f[2]]
    BY <1>1, <1>2, <1>8, <2>8, CombinesTwo
  <2> QED
    BY <2>2, <2>3, <2>5, <2>8, <2>9
<1>11. IsInjective(output)
  BY <1>5 DEF IsInjective
<1> HIDE DEF pairs
<1>12. Range(output) = {p[1][2] \cup p[2][2] : p \in pairs}
  BY <1>5, <1>9, <1>10
<1> QED
  BY <1>11, <1>12 DEF pairs

\* As long as no group of two has ended, whenever no call is pending, the reader
\* has each combination of one answer of each group that unify, exactly once.
THEOREM CombinesSafe == Spec => []CombinesEach
<1> DEFINE Inv == IsPair => CombinerInv
           Rest == Typed /\ Messages /\ Locked
<1>1. Spec => []PipelineInv
  BY PipelineInvariant
<1>2. Spec => []Rest
  BY TypesInvariant
<1>3. Init => Inv
  BY CombinerInvInit
<1>4. PipelineInv /\ Rest /\ Inv /\ [Next]_vars => Inv'
  BY CombinerInvNext
<1>5. Rest /\ Inv => CombinesEach
  BY CombinerInvCombines DEF CombinesEach, IsPair
<1> HIDE DEF Inv, Rest
<1> QED
  BY <1>1, <1>2, <1>3, <1>4, <1>5, PTL DEF Spec
==============================================================================
