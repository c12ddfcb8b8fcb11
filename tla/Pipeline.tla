------------------------------ MODULE Pipeline ------------------------------
(***************************************************************************)
(* The network of streams that KnowledgeBase::submitQuery builds for a     *)
(* conjunctive query (src/KnowledgeBase.cpp), and how answers and the      *)
(* end-of-stream message (EOS) travel through it.                          *)
(*                                                                         *)
(* The literals that only the database can answer are evaluated first; the *)
(* stream of their answers is edb. The other literals are sorted into      *)
(* dependency groups. A group is a chain of steps, one for each literal: a *)
(* stage for the database and one for each reasoner run in parallel, each  *)
(* starts a query for every answer of the step before, and a broadcaster   *)
(* merges their outputs. Several groups run in parallel and an             *)
(* AnswerCombiner (src/queries/AnswerCombiner.cpp) combines their answers. *)
(*                                                                         *)
(* A push runs down the network in the thread that pushes, as nested calls *)
(* from stream to stream. It ends in the stages, which hand work on to     *)
(* other threads, or at the reader. Each thread has a stack of calls; a    *)
(* step executes the call on top.                                          *)
(*                                                                         *)
(* A stage tests and changes its own state in one step here, and a buffer  *)
(* loses nothing: see QueryStage.tla and AnswerBuffer.tla for what their   *)
(* races do. All solutions are asked for.                                  *)
(***************************************************************************)
EXTENDS Integers, Sequences, SequencesExt

CONSTANTS
    Plans,          \* the queries: the number of literals in each group
    NumReasoners,   \* how many reasoners can evaluate each of these literals
    NumInputs,      \* per plan: how many answers edb has at most
    NumAnswers      \* per plan: how many answers all queries of the stages have at most

ASSUME PlansAssumption ==
    /\ Plans \subseteq Seq(Nat \ {0})
    /\ NumReasoners \in Nat \ {0}
    /\ {NumInputs, NumAnswers} \subseteq [Plans -> Nat]

VARIABLES
    plan,           \* the query, one of Plans; never changes
    channels,       \* per stream: channels_, named by the streams they come from
    isOpened,       \* per stream: isOpened_
    graphQueries,   \* per stage: graphQueries_, the partial results in evaluation
    isAwaitingInput,\* per stage: isAwaitingInput_
    isQueryOpened,  \* per stage: isQueryOpened_
    stack,          \* per thread: the calls it has to execute
    numSent,        \* per thread: how many answers it has pushed
    buffer,         \* per group: buffer_ of the combiner
    bufferLock,     \* the thread that holds buffer_mutex_, or NoThread
    produced,       \* the answers to the last literals, with their group (history)
    output          \* what the reader has received

streamVars == <<channels, isOpened>>
stageVars == <<graphQueries, isAwaitingInput, isQueryOpened>>
threadVars == <<stack, numSent>>
combinerVars == <<buffer, bufferLock>>
readerVars == <<produced, output>>
vars == <<plan, streamVars, stageVars, threadVars, combinerVars, readerVars>>

-----------------------------------------------------------------------------
(* The streams, and who subscribes to whom *)

Edb == <<"edb">>
Idb == <<"idb">>
Combiner == <<"combiner">>
Reader == <<"reader">>
Stage(g, i, r) == <<"stage", g, i, r>>     \* r = 0 is the EDBStage
Step(g, i) == <<"step", g, i>>

Groups == 1 .. Len(plan)
Stages == UNION {{Stage(g, i, r) : i \in 1 .. plan[g], r \in 0 .. NumReasoners} : g \in Groups}
Steps == UNION {{Step(g, i) : i \in 1 .. plan[g]} : g \in Groups}
Broadcasters == {Edb} \cup Steps \cup (IF Groups = {} THEN {} ELSE {Idb})
Streams == Broadcasters \cup Stages \cup (IF Len(plan) > 1 THEN {Combiner} ELSE {})

\* The stages of literal i of group g, in the order in which they are connected.
StagesOf(g, i) == [k \in 1 .. NumReasoners + 1 |-> Stage(g, i, k - 1)]

\* The stages of the first literal of all groups, one group after the other.
FirstStages == [k \in 1 .. Len(plan) * (NumReasoners + 1) |->
                   Stage((k - 1) \div (NumReasoners + 1) + 1, 1, (k - 1) % (NumReasoners + 1))]

\* Where the last step of a group ends.
GroupOutput == IF Len(plan) = 1 THEN Idb ELSE Combiner

Subscribers(n) ==
    CASE n = Edb /\ Groups = {} -> <<Reader>>
      [] n = Edb /\ Groups # {} -> FirstStages
      [] n \in Stages           -> <<Step(n[2], n[3])>>
      [] n \in Steps            -> IF n[3] < plan[n[2]] THEN StagesOf(n[2], n[3] + 1)
                                                        ELSE <<GroupOutput>>
      [] n = Combiner           -> <<Idb>>
      [] n = Idb                -> <<Reader>>

\* The thread that evaluates the query for the literals of Edb. The other
\* threads are the queries of the stages: a stage and a partial result.
Source == <<"source">>
NoThread == <<>>
Threads == DOMAIN stack

Inputs(n) == IF n = Edb THEN {Source} ELSE {m \in Streams : n \in Range(Subscribers(m))}

-----------------------------------------------------------------------------
(* Messages: an answer is the set of the choices it was derived from, each  *)
(* of a stream and a number; that is what its substitution tells apart.     *)

EosToken == <<"eos", 0>>
EOS == {EosToken}

\* A copy of a message is never EOS: EOS is known by its address. What is copied
\* of it is an empty answer.
Copy(m) == m \ {EosToken}

\* Answers unify unless they extend different answers of Edb: groups have no
\* other variables in common.
Unifies(a, b) == \A x \in a, y \in b : x[1] = "edb" /\ y[1] = "edb" => x = y

\* The choice number k of stream n; streams are told apart by what is in n.
Choice(n, k) == IF n = Edb THEN <<"edb", k>> ELSE <<"query", k, n>>

-----------------------------------------------------------------------------
(* Calls: a push into stream "to", and what is done after nested calls return *)

Push(from, to, m) == [op |-> "push", from |-> from, to |-> to, msg |-> m]
Close(n) == [op |-> "close", to |-> n]
Combining(todo) == [op |-> "combine", todo |-> todo]

\* AnswerBroadcaster::pushToBroadcast
Broadcast(n, m) == [k \in DOMAIN Subscribers(n) |-> Push(n, Subscribers(n)[k], m)]

IsCall(t, op) == stack[t] # <<>> /\ Head(stack[t]).op = op
IsPush(t, to) == IsCall(t, "push") /\ Head(stack[t]).to \in to
Msg(t) == Head(stack[t]).msg
IsIdle(t) == stack[t] = <<>>

\* The call on top of t's stack is replaced by the calls it makes.
Does(t, calls) == [stack EXCEPT ![t] = calls \o Tail(@)]

Init ==
    /\ plan \in Plans
    /\ channels = [n \in Streams |-> Inputs(n)]
    /\ isOpened = [n \in Streams |-> TRUE]
    /\ graphQueries = [s \in Stages |-> {}]
    /\ isAwaitingInput = [s \in Stages |-> TRUE]
    /\ isQueryOpened = [s \in Stages |-> TRUE]
    /\ stack = [t \in {Source} |-> <<>>] /\ numSent = [t \in {Source} |-> 0]
    /\ buffer = [g \in Groups |-> <<>>] /\ bufferLock = NoThread
    /\ produced = {} /\ output = <<>>

-----------------------------------------------------------------------------
(* The query for the literals of Edb; it has ended when its count says so *)

PushInput ==
    /\ IsIdle(Source) /\ numSent[Source] < NumInputs[plan]
    /\ LET a == {Choice(Edb, numSent[Source] + 1)} IN
       /\ stack' = [stack EXCEPT ![Source] = <<Push(Source, Edb, a)>>]
       /\ produced' = IF Groups = {} THEN produced \cup {<<0, a>>} ELSE produced
    /\ numSent' = [numSent EXCEPT ![Source] = @ + 1]
    /\ UNCHANGED <<plan, streamVars, stageVars, combinerVars, output>>

EndInput ==
    /\ IsIdle(Source) /\ numSent[Source] <= NumInputs[plan]
    /\ stack' = [stack EXCEPT ![Source] = <<Push(Source, Edb, EOS)>>]
    /\ numSent' = [numSent EXCEPT ![Source] = NumInputs[plan] + 1]
    /\ UNCHANGED <<plan, streamVars, stageVars, combinerVars, readerVars>>

-----------------------------------------------------------------------------
(* AnswerStream::push(channel, item) of a broadcaster *)

BroadcastAnswer(t) ==
    /\ IsPush(t, Broadcasters) /\ Msg(t) # EOS
    /\ LET n == Head(stack[t]).to IN
       stack' = Does(t, IF isOpened[n] THEN Broadcast(n, Msg(t)) ELSE <<>>)
    /\ UNCHANGED <<plan, streamVars, stageVars, numSent, combinerVars, readerVars>>

\* The channel is erased; the last one hands EOS on and closes the stream.
EndChannel(t, n) ==
    LET left == channels[n] \ {Head(stack[t]).from} IN
    /\ channels' = IF isOpened[n] THEN [channels EXCEPT ![n] = left] ELSE channels
    /\ stack' = Does(t, IF isOpened[n] /\ left # {}
                        THEN <<>> ELSE Broadcast(n, EOS) \o <<Close(n)>>)

BroadcastEos(t) ==
    /\ IsPush(t, Broadcasters) /\ Msg(t) = EOS
    /\ EndChannel(t, Head(stack[t]).to)
    /\ UNCHANGED <<plan, isOpened, stageVars, numSent, combinerVars, readerVars>>

CloseStream(t) ==
    /\ IsCall(t, "close")
    /\ isOpened' = [isOpened EXCEPT ![Head(stack[t]).to] = FALSE]
    /\ stack' = Does(t, <<>>)
    /\ UNCHANGED <<plan, channels, stageVars, numSent, combinerVars, readerVars>>

-----------------------------------------------------------------------------
(* QueryStage *)

\* A stage starts a query for each partial result.
SubmitQuery(t) ==
    /\ IsPush(t, Stages) /\ Msg(t) # EOS
    /\ LET s == Head(stack[t]).to
           q == <<s, Msg(t)>>
       IN IF isOpened[s] /\ isQueryOpened[s]
          THEN /\ graphQueries' = [graphQueries EXCEPT ![s] = @ \cup {Msg(t)}]
               /\ stack' = [u \in Threads \cup {q} |-> IF u \in Threads THEN Does(t, <<>>)[u] ELSE <<>>]
               /\ numSent' = [u \in Threads \cup {q} |-> IF u \in Threads THEN numSent[u] ELSE 0]
          ELSE /\ stack' = Does(t, <<>>)
               /\ UNCHANGED <<graphQueries, numSent>>
    /\ UNCHANGED <<plan, streamVars, isAwaitingInput, isQueryOpened, combinerVars, readerVars>>

\* Mutant: the stage forgets that its input has ended if queries are active.
EndStageInputForgotten(t, s) ==
    /\ isAwaitingInput' = [isAwaitingInput EXCEPT ![s] = graphQueries[s] # {}]
    /\ isQueryOpened' = [isQueryOpened EXCEPT ![s] = graphQueries[s] # {}]
    /\ stack' = Does(t, (IF graphQueries[s] = {} THEN Broadcast(s, EOS) ELSE <<>>)
                            \o <<Close(s)>>)

\* The input of the stage has ended: EOS is handed on unless a query is active.
EndStageInput(t, s) ==
    /\ isAwaitingInput' = [isAwaitingInput EXCEPT ![s] = FALSE]
    /\ isQueryOpened' = [isQueryOpened EXCEPT ![s] = @ /\ graphQueries[s] # {}]
    /\ stack' = Does(t, (IF graphQueries[s] = {} THEN Broadcast(s, EOS) ELSE <<>>)
                            \o <<Close(s)>>)

StageEos(t) ==
    /\ IsPush(t, Stages) /\ Msg(t) = EOS
    /\ channels' = [channels EXCEPT ![Head(stack[t]).to] = {}]
    /\ EndStageInput(t, Head(stack[t]).to)
    /\ UNCHANGED <<plan, isOpened, graphQueries, numSent, combinerVars, readerVars>>

IsActive(q) == q # Source /\ q[2] \in graphQueries[q[1]]

NumAnswersSent == SumFunction([q \in Threads \ {Source} |-> numSent[q]])

\* pushTransformed of an answer, combined with the partial result.
PushAnswer(q) ==
    /\ IsActive(q) /\ IsIdle(q) /\ NumAnswersSent < NumAnswers[plan]
    /\ LET s == q[1]
           a == q[2] \cup {Choice(s, numSent[q] + 1)}
       IN /\ stack' = [stack EXCEPT ![q] = IF isQueryOpened[s] THEN Broadcast(s, a) ELSE <<>>]
          /\ produced' = IF s[3] = plan[s[2]] THEN produced \cup {<<s[2], a>>} ELSE produced
    /\ numSent' = [numSent EXCEPT ![q] = @ + 1]
    /\ UNCHANGED <<plan, streamVars, stageVars, combinerVars, output>>

\* Mutant: the first query that ends after the input ends the stage.
EndQueryUntested(q) ==
    /\ IsActive(q) /\ IsIdle(q)
    /\ graphQueries' = [graphQueries EXCEPT ![q[1]] = @ \ {q[2]}]
    /\ stack' = [stack EXCEPT ![q] = IF isAwaitingInput[q[1]] THEN <<>>
                                     ELSE Broadcast(q[1], EOS)]
    /\ UNCHANGED <<plan, streamVars, isAwaitingInput, isQueryOpened, numSent, combinerVars,
                   readerVars>>

\* pushTransformed of EOS: the last query after the end of the input hands it on.
EndQuery(q) ==
    /\ IsActive(q) /\ IsIdle(q)
    /\ LET s == q[1]
           isLast == graphQueries[s] = {q[2]} /\ ~isAwaitingInput[s]
       IN /\ graphQueries' = [graphQueries EXCEPT ![s] = @ \ {q[2]}]
          /\ isQueryOpened' = [isQueryOpened EXCEPT ![s] = @ /\ ~isLast]
          /\ stack' = [stack EXCEPT ![q] = IF isLast THEN Broadcast(s, EOS) ELSE <<>>]
    /\ UNCHANGED <<plan, streamVars, isAwaitingInput, numSent, combinerVars, readerVars>>

-----------------------------------------------------------------------------
(* AnswerCombiner::push *)

\* A combination is a message of each group, given by its place in the buffer.
Selections(b) == {f \in [Groups -> UNION {DOMAIN b[h] : h \in Groups}] : \A h \in Groups : f[h] \in DOMAIN b[h]}

\* Mutant: only the oldest message of another group is combined with.
CombinationsOfFirst(b, g) == {f \in Selections(b) : f[g] = Len(b[g]) /\ \A h \in Groups \ {g} : f[h] = 1}

\* The combinations of the last message of group g with messages of the other groups.
Combinations(b, g) ==
    {f \in Selections(b) : /\ f[g] = Len(b[g])
                        /\ \A h, e \in Groups : h # e => Unifies(b[h][f[h]], b[e][f[e]])}

\* EOS is not told apart from answers. The lock is held until all combinations
\* have been pushed.
Combine(t) ==
    /\ IsPush(t, {Combiner}) /\ bufferLock = NoThread
    /\ LET g == Head(stack[t]).from[2]
       IN /\ buffer' = [buffer EXCEPT ![g] = Append(@, Msg(t))]
          /\ stack' = Does(t, <<Combining(Combinations(buffer', g))>>)
    /\ bufferLock' = t
    /\ UNCHANGED <<plan, streamVars, stageVars, numSent, readerVars>>

\* The loops of genCombinations are nested in the order of the groups.
Precedes(f, h) ==
    \E g \in Groups : f[g] < h[g] /\ \A e \in 1 .. g - 1 : f[e] = h[e]
NextOf(todo) == CHOOSE f \in todo : \A h \in todo \ {f} : Precedes(f, h)

\* The combination is a new answer, and broadcast.
PushCombination(t) ==
    /\ IsCall(t, "combine") /\ Head(stack[t]).todo # {}
    /\ LET todo == Head(stack[t]).todo
           f == NextOf(todo)
           a == UNION {Copy(buffer[h][f[h]]) : h \in Groups}
       IN stack' = Does(t, Broadcast(Combiner, a) \o <<Combining(todo \ {f})>>)
    /\ UNCHANGED <<plan, streamVars, stageVars, numSent, combinerVars, readerVars>>

EndCombine(t) ==
    /\ IsCall(t, "combine") /\ Head(stack[t]).todo = {}
    /\ bufferLock' = NoThread
    /\ stack' = Does(t, <<>>)
    /\ UNCHANGED <<plan, streamVars, stageVars, numSent, buffer, readerVars>>

-----------------------------------------------------------------------------
(* The stream that submitQuery returns, with the queue its reader creates *)

Receive(t) ==
    /\ IsPush(t, {Reader})
    /\ output' = Append(output, Msg(t))
    /\ stack' = Does(t, <<>>)
    /\ UNCHANGED <<plan, streamVars, stageVars, numSent, combinerVars, produced>>

-----------------------------------------------------------------------------
Next ==
    \/ PushInput \/ EndInput
    \/ \E t \in Threads :
          \/ BroadcastAnswer(t) \/ BroadcastEos(t) \/ CloseStream(t)
          \/ SubmitQuery(t) \/ StageEos(t)
          \/ PushAnswer(t) \/ EndQuery(t)
          \/ Combine(t) \/ PushCombination(t) \/ EndCombine(t)
          \/ Receive(t)

Spec == Init /\ [][Next]_vars

\* Some thread that can take a step does. As every thread takes finitely many
\* steps, this lets all of them come to their end.
FairSpec == Spec /\ WF_vars(Next)

-----------------------------------------------------------------------------
(* Safety *)

Calls == UNION {Range(stack[t]) : t \in Threads}

\* Types, and: a query has a place on the call stacks from when its stage has
\* started it, the combiner is locked by the thread that will unlock it, and a
\* message is either EOS or made of answers only, however EOS was combined.
TypeOK ==
    /\ plan \in Plans
    /\ channels \in [Streams -> SUBSET ({Source} \cup Streams)]
    /\ isOpened \in [Streams -> BOOLEAN]
    /\ isAwaitingInput \in [Stages -> BOOLEAN] /\ isQueryOpened \in [Stages -> BOOLEAN]
    /\ DOMAIN graphQueries = Stages /\ DOMAIN numSent = Threads
    /\ \A s \in Stages : \A a \in graphQueries[s] : <<s, a>> \in Threads
    /\ DOMAIN buffer = Groups
    /\ bufferLock = NoThread \/ \E c \in Range(stack[bufferLock]) : c.op = "combine"
    /\ \A m \in Range(output) : m = EOS \/ EosToken \notin m

\* When the reader receives EOS, no query is active, no answer is on its way, and
\* every answer to the last literal has been received exactly once.
CompleteAtEos ==
    EOS \in Range(output) =>
        /\ \A s \in Stages : graphQueries[s] = {}
        /\ \A c \in Calls : c.op = "push" => c.msg = EOS
        /\ IsInjective(output)
        /\ {p[2] : p \in produced} \cup {EOS} = Range(output)

\* "Combines multiple query result streams, and broadcasts each combination
\* computed" (AnswerCombiner.h): as long as no group has ended, whenever no call
\* is pending, the reader has each combination of one answer of each group that
\* unify, exactly once.
CombinesEach ==
    (Len(plan) = 2 /\ Calls = {} /\ \A g \in Groups : EOS \notin Range(buffer[g])) =>
        /\ IsInjective(output)
        /\ Range(output) =
               {p[1][2] \cup p[2][2] : p \in {q \in produced \X produced :
                    q[1][1] = 1 /\ q[2][1] = 2 /\ Unifies(q[1][2], q[2][2])}}

-----------------------------------------------------------------------------
(* Liveness *)

\* Unless the query has several groups, the reader gets its EOS.
EosArrives == Len(plan) <= 1 ~> EOS \in Range(output)

\* "a stream auto-closes once it has received EOS messages from all of its input
\* channels" (AnswerStream.h:54), an AnswerCombiner for one.
CombinerAutoCloses ==
    (Len(plan) > 1 /\ \A g \in Groups : EOS \in Range(buffer[g])) ~> ~isOpened[Combiner]
=============================================================================
