----------------------------- MODULE QueryStage -----------------------------
(***************************************************************************)
(* One stage of a query pipeline (src/queries/QueryStage.cpp): for every   *)
(* partial result of the stage before it, a graph query is started, and    *)
(* the answers of all of them are broadcast to the next stage. EOS is      *)
(* broadcast when the input has ended and no graph query is active.        *)
(*                                                                         *)
(* Threads: the Feeder pushes the partial results and then EOS; each query *)
(* has a worker that pushes its answers and then EOS into the stage's      *)
(* QueryStageTransformer, which takes its pushLock_ first. The stage has   *)
(* no lock of its own: each access to its flags and to graphQueries_ is a  *)
(* step.                                                                   *)
(*                                                                         *)
(* Between a query and its transformer is an AnswerBuffer; that it hands   *)
(* on every message once and in order is assumed here and examined in      *)
(* AnswerBuffer.tla. Damage to the std::list by overlapping accesses is    *)
(* left out, too.                                                          *)
(***************************************************************************)
EXTENDS Integers, Sequences, SequencesExt

CONSTANTS
    NumInputs,      \* the partial results the stage receives
    NumAnswers,     \* how many answers a graph query has at most
    Feeder, NoOne

ASSUME StageAssumption ==
    /\ NumInputs \in Nat /\ NumAnswers \in Nat
    /\ {Feeder, NoOne} \cap Nat = {} /\ Feeder # NoOne

\* Query q evaluates the q-th partial result; its k-th answer is <<q, k>>.
Queries == 1 .. NumInputs
Threads == Queries \cup {Feeder}
EOS == <<>>
Messages == (Queries \X (1 .. NumAnswers)) \cup {EOS}

VARIABLES
    isOneSolution,      \* queryFlags_ has QUERY_FLAG_ONE_SOLUTION; never changes
    isQueryOpened,      \* isQueryOpened_
    isAwaitingInput,    \* isAwaitingInput_
    hasStopRequest,     \* hasStopRequest_
    isStreamOpened,     \* isOpened_ of the stage as a stream
    graphQueries,       \* graphQueries_: the newest query first
    pushLock,           \* per query: the thread that holds pushLock_
    isConnected,        \* per query: isOpened_ of the transformer's channel
    isOutputOpened,     \* isOpened_ of the channel to the next stage
    pc,                 \* per thread: where it stands
    numFed,             \* how many partial results have been pushed
    numSent,            \* per query: how many answers have been pushed
    output,             \* what the next stage has received (history)
    windows             \* the races that have happened (history)

stageVars == <<isOneSolution, isQueryOpened, isAwaitingInput, hasStopRequest, isStreamOpened, graphQueries>>
outputVars == <<isOutputOpened, output>>
queryVars == <<pushLock, isConnected, numSent>>
vars == <<stageVars, outputVars, queryVars, pc, numFed, windows>>

ThreadPC == {"absent", "idle", "submit", "testActive", "answer", "testOutput", "send",
             "close", "closing",
             "erase", "testEmpty", "testInput", "eos", "deliverEos", "shut",
             "finished", "stuck", "undefined"}
EosPC == {"eos", "deliverEos", "shut"}

Init ==
    /\ isOneSolution \in BOOLEAN
    /\ isQueryOpened = TRUE /\ isAwaitingInput = TRUE
    /\ hasStopRequest = FALSE /\ isStreamOpened = TRUE
    /\ graphQueries = <<>>
    /\ pushLock = [q \in Queries |-> NoOne]
    /\ isConnected = [q \in Queries |-> FALSE]
    /\ isOutputOpened = TRUE /\ output = <<>>
    /\ pc = [t \in Threads |-> IF t = Feeder THEN "idle" ELSE "absent"]
    /\ numFed = 0 /\ numSent = [q \in Queries |-> 0]
    /\ windows = {}

Goes(t, from, to) == pc[t] = from /\ pc' = [pc EXCEPT ![t] = to]
IsActive(q) == q \in Range(graphQueries)

-----------------------------------------------------------------------------
(* push of a partial result *)

\* The stage is tested as a stream (AnswerStream::push) and as a query.
FeedAnswer ==
    /\ numFed < NumInputs
    /\ numFed' = numFed + 1
    /\ Goes(Feeder, "idle", IF isStreamOpened /\ isQueryOpened THEN "submit" ELSE "idle")
    /\ UNCHANGED <<stageVars, outputVars, queryVars, windows>>

\* submitQuery, graphQueries_.emplace_front, and the connection of the
\* transformer; only now messages of the query are handed on.
SubmitQuery ==
    /\ pc[Feeder] = "submit"
    /\ pc' = [pc EXCEPT ![Feeder] = "idle", ![numFed] = "idle"]
    /\ graphQueries' = <<numFed>> \o graphQueries
    /\ isConnected' = [isConnected EXCEPT ![numFed] = TRUE]
    /\ UNCHANGED <<isOneSolution, isQueryOpened, isAwaitingInput, hasStopRequest, isStreamOpened,
                   outputVars, pushLock, numSent, numFed, windows>>

-----------------------------------------------------------------------------
(* push of EOS *)

\* Mutant: isAwaitingInput_ is reset only if no query is active.
FeedEosForgotten ==
    /\ numFed = NumInputs
    /\ Goes(Feeder, "idle", "testActive")
    /\ isAwaitingInput' = (graphQueries # <<>>)
    /\ UNCHANGED <<isOneSolution, isQueryOpened, hasStopRequest, isStreamOpened, graphQueries,
                   outputVars, queryVars, numFed, windows>>

FeedEos ==
    /\ numFed = NumInputs
    /\ Goes(Feeder, "idle", "testActive")
    /\ isAwaitingInput' = FALSE
    /\ UNCHANGED <<isOneSolution, isQueryOpened, hasStopRequest, isStreamOpened, graphQueries,
                   outputVars, queryVars, numFed, windows>>

\* The history of a step that lets thread t begin to broadcast EOS.
NoteEosBy(t) ==
    windows' = windows
        \cup (IF graphQueries # <<>> THEN {"overtaken"} ELSE {})
        \cup (IF \E u \in Threads \ {t} : pc[u] \in EosPC THEN {"simultaneous"} ELSE {})

\* Mutant: EOS is passed on although graph queries are active.
TestActiveMissing ==
    /\ Goes(Feeder, "testActive", "eos")
    /\ isQueryOpened' = FALSE
    /\ UNCHANGED <<isOneSolution, isAwaitingInput, hasStopRequest, isStreamOpened, graphQueries,
                   outputVars, queryVars, numFed, windows>>

\* graphQueries_.empty() && !hasStopRequest_
TestActive ==
    /\ pc[Feeder] = "testActive"
    /\ IF graphQueries = <<>> /\ ~hasStopRequest
       THEN /\ Goes(Feeder, "testActive", "eos")
            /\ isQueryOpened' = FALSE
            /\ NoteEosBy(Feeder)
       ELSE /\ Goes(Feeder, "testActive", "finished")
            /\ UNCHANGED <<isOneSolution, isQueryOpened, windows>>
    /\ UNCHANGED <<isOneSolution, isAwaitingInput, hasStopRequest, isStreamOpened, graphQueries,
                   outputVars, queryVars, numFed>>

-----------------------------------------------------------------------------
(* A query's worker: QueryStageTransformer::push, QueryStage::pushTransformed *)

Lock(q, to) ==
    /\ isConnected[q] /\ pushLock[q] = NoOne
    /\ Goes(q, "idle", to)
    /\ pushLock' = [pushLock EXCEPT ![q] = q]

Unlocked(q) == [pushLock EXCEPT ![q] = NoOne]

BeginAnswer(q) ==
    /\ numSent[q] < NumAnswers
    /\ Lock(q, "answer")
    /\ numSent' = [numSent EXCEPT ![q] = @ + 1]
    /\ UNCHANGED <<stageVars, outputVars, isConnected, numFed, windows>>

\* An answer for a stage that has ended is dropped ...
TestOpened(q) ==
    /\ pc[q] = "answer"
    /\ IF isQueryOpened
       THEN Goes(q, "answer", "testOutput") /\ UNCHANGED pushLock
       ELSE Goes(q, "answer", "idle") /\ pushLock' = Unlocked(q)
    /\ UNCHANGED <<stageVars, outputVars, isConnected, numSent, numFed, windows>>

\* Where the worker goes after the broadcast of an answer: it keeps the lock
\* while it closes the stage after one solution.
LeavesAnswer(q) ==
    /\ pc' = [pc EXCEPT ![q] = IF isOneSolution THEN "close" ELSE "idle"]
    /\ pushLock' = IF isOneSolution THEN pushLock ELSE Unlocked(q)

\* ... and so is one for a channel that has been closed; ...
TestChannel(q) ==
    /\ pc[q] = "testOutput"
    /\ IF isOutputOpened
       THEN Goes(q, "testOutput", "send") /\ UNCHANGED pushLock
       ELSE LeavesAnswer(q)
    /\ UNCHANGED <<stageVars, outputVars, isConnected, numSent, numFed, windows>>

\* ... any other is received by the next stage.
PushAnswer(q) ==
    /\ pc[q] = "send"
    /\ output' = Append(output, <<q, numSent[q]>>)
    /\ LeavesAnswer(q)
    /\ UNCHANGED <<stageVars, isOutputOpened, isConnected, numSent, numFed, windows>>

BeginEos(q) ==
    /\ Lock(q, "erase")
    /\ isConnected' = [isConnected EXCEPT ![q] = FALSE]
    /\ UNCHANGED <<stageVars, outputVars, numSent, numFed, windows>>

\* graphQueries_.erase(graphQueryIterator): the iterator stands on the query's element.
EraseQuery(q) ==
    /\ Goes(q, "erase", "testEmpty")
    /\ \E i \in DOMAIN graphQueries :
          graphQueries[i] = q /\ graphQueries' = RemoveAt(graphQueries, i)
    /\ UNCHANGED <<isOneSolution, isQueryOpened, isAwaitingInput, hasStopRequest, isStreamOpened,
                   outputVars, queryVars, numFed, windows>>

LeavesEos(q) ==
    /\ pc' = [pc EXCEPT ![q] = "finished"]
    /\ pushLock' = Unlocked(q)

\* graphQueries_.empty() && ...
TestEmpty(q) ==
    /\ pc[q] = "testEmpty"
    /\ IF graphQueries = <<>>
       THEN Goes(q, "testEmpty", "testInput") /\ UNCHANGED pushLock
       ELSE LeavesEos(q)
    /\ UNCHANGED <<stageVars, outputVars, isConnected, numSent, numFed, windows>>

\* ... && !isAwaitingInput_, read after the first condition.
TestInput(q) ==
    /\ pc[q] = "testInput"
    /\ IF isAwaitingInput
       THEN LeavesEos(q) /\ UNCHANGED <<isOneSolution, isQueryOpened, windows>>
       ELSE /\ Goes(q, "testInput", "eos")
            /\ isQueryOpened' = FALSE
            /\ NoteEosBy(q)
            /\ UNCHANGED pushLock
    /\ UNCHANGED <<isOneSolution, isAwaitingInput, hasStopRequest, isStreamOpened, graphQueries,
                   outputVars, isConnected, numSent, numFed>>

-----------------------------------------------------------------------------
(* pushToBroadcast of EOS: the channel to the next stage is tested, ... *)

Finish(t, from) ==
    /\ Goes(t, from, "finished")
    /\ pushLock' = IF t = Feeder THEN pushLock ELSE Unlocked(t)

\* Mutant: the channel does not test whether it has been closed.
TestOutputMissing(t) ==
    /\ Goes(t, "eos", "deliverEos")
    /\ UNCHANGED <<stageVars, outputVars, queryVars, numFed, windows>>

TestOutput(t) ==
    /\ pc[t] = "eos"
    /\ IF isOutputOpened
       THEN Goes(t, "eos", "deliverEos") /\ UNCHANGED pushLock
       ELSE Finish(t, "eos")
    /\ UNCHANGED <<stageVars, outputVars, isConnected, numSent, numFed, windows>>

\* ... the next stage receives EOS, ...
DeliverEos(t) ==
    /\ Goes(t, "deliverEos", "shut")
    /\ output' = Append(output, EOS)
    /\ UNCHANGED <<stageVars, isOutputOpened, queryVars, numFed, windows>>

\* ... and the channel is closed.
ShutOutput(t) ==
    /\ Finish(t, "shut")
    /\ isOutputOpened' = FALSE
    /\ UNCHANGED <<stageVars, output, isConnected, numSent, numFed, windows>>

-----------------------------------------------------------------------------
(* close *)

\* After one solution, by the worker that has just broadcast it.
CloseBegins(q) ==
    /\ pc[q] = "close"
    /\ IF hasStopRequest
       THEN Goes(q, "close", "idle") /\ pushLock' = Unlocked(q)
       ELSE Goes(q, "close", "closing") /\ UNCHANGED pushLock
    /\ hasStopRequest' = TRUE
    /\ UNCHANGED <<isOneSolution, isQueryOpened, isAwaitingInput, isStreamOpened, graphQueries,
                   outputVars, isConnected, numSent, numFed, windows>>

\* The loop over graphQueries_ reaches the query of the worker itself: closing
\* it pushes EOS into the transformer (or calls its close), and both lock the
\* pushLock_ that the worker holds.
CloseOwnQuery(q) ==
    /\ graphQueries # <<>> /\ Head(graphQueries) = q
    /\ Goes(q, "closing", "stuck")
    /\ UNCHANGED <<stageVars, outputVars, queryVars, numFed, windows>>

\* It reaches another query: the EOS that closing pushes erases the element
\* the loop stands on. What follows is undefined.
CloseOtherQuery(q) ==
    /\ graphQueries # <<>> /\ Head(graphQueries) # q
    /\ pushLock[Head(graphQueries)] = NoOne
    /\ Goes(q, "closing", "undefined")
    /\ graphQueries' = Tail(graphQueries)
    /\ isConnected' = [isConnected EXCEPT ![Head(graphQueries)] = FALSE]
    /\ UNCHANGED <<isOneSolution, isQueryOpened, isAwaitingInput, hasStopRequest, isStreamOpened,
                   outputVars, pushLock, numSent, numFed, windows>>

\* ~QueryPipeline, once EOS has passed through: there is nothing to close
\* any more, neither a query nor an input channel.
Teardown ==
    /\ ~isOutputOpened /\ ~hasStopRequest
    /\ \A t \in Threads : pc[t] \in {"absent", "finished"}
    /\ hasStopRequest' = TRUE
    /\ graphQueries' = <<>>
    /\ isStreamOpened' = FALSE
    /\ UNCHANGED <<isOneSolution, isQueryOpened, isAwaitingInput, outputVars, queryVars, pc, numFed,
                   windows>>

-----------------------------------------------------------------------------
PushEos(t) == TestOutput(t) \/ DeliverEos(t) \/ ShutOutput(t)
Feed == FeedAnswer \/ SubmitQuery \/ FeedEos \/ TestActive \/ PushEos(Feeder)
PushTransformed(q) ==
    \/ TestOpened(q) \/ TestChannel(q) \/ PushAnswer(q)
    \/ EraseQuery(q) \/ TestEmpty(q) \/ TestInput(q) \/ PushEos(q)
    \/ CloseBegins(q) \/ CloseOwnQuery(q) \/ CloseOtherQuery(q)
Next ==
    \/ Feed \/ Teardown
    \/ \E q \in Queries : BeginAnswer(q) \/ BeginEos(q) \/ PushTransformed(q)

\* Every thread that can run does, and a query comes to its EOS: a cursor is
\* exhausted sooner or later, however many answers it has.
Fairness ==
    /\ WF_vars(Feed)
    /\ \A q \in Queries : WF_vars(BeginEos(q)) /\ WF_vars(PushTransformed(q))

Spec == Init /\ [][Next]_vars /\ Fairness

-----------------------------------------------------------------------------
(* Safety *)

\* Types, and: a worker holds its pushLock_ exactly while it is in push.
TypeOK ==
    /\ {isOneSolution, isQueryOpened, isAwaitingInput, hasStopRequest, isStreamOpened,
        isOutputOpened} \subseteq BOOLEAN
    /\ graphQueries \in Seq(Queries) /\ IsInjective(graphQueries)
    /\ isConnected \in [Queries -> BOOLEAN]
    /\ pushLock \in [Queries -> Queries \cup {NoOne}]
    /\ pc \in [Threads -> ThreadPC]
    /\ \A q \in Queries :
          pushLock[q] = IF pc[q] \in {"absent", "idle", "finished"} THEN NoOne ELSE q
    /\ numFed \in 0 .. NumInputs /\ numSent \in [Queries -> 0 .. NumAnswers]
    /\ output \in Seq(Messages)
    /\ windows \subseteq {"overtaken", "simultaneous"}

\* When EOS goes out every partial result has been evaluated and every answer
\* of every query has gone out before ("only push EOS message if no query is
\* still active", QueryStage.cpp:111), unless a query was started between
\* the two tests of pushTransformed.
CompleteUnlessOvertaken ==
    (EOS \in Range(output) /\ "overtaken" \notin windows)
        => /\ numFed = NumInputs /\ graphQueries = <<>>
           /\ \A q \in Queries : \A k \in 1 .. numSent[q] : <<q, k>> \in Range(output)
           /\ output[Len(output)] = EOS

\* "only push EOS message if no query is still active" (QueryStage.cpp:111).
NoActiveQueryAtEos == EOS \in Range(output) => graphQueries = <<>>

\* The next stage receives one EOS, unless the EOS of the input and that of
\* the last query, or two of these, are broadcast at the same time.
OneEosUnlessSimultaneous ==
    "simultaneous" \notin windows
        => \A i, j \in DOMAIN output : output[i] = EOS /\ output[j] = EOS => i = j

-----------------------------------------------------------------------------
(* Liveness *)

IsFed == pc[Feeder] = "finished"

\* Although the input and the queries end concurrently, and each leaves EOS
\* to the other one, the next stage always receives it when it has asked for all solutions.
EosIsPushed == (IsFed /\ ~isOneSolution) ~> EOS \in Range(output)

\* A caller that asks for one solution and reads one message, as the action
\* server does (ROSInterface.cpp:255), gets a solution or EOS.
FirstMessageArrives == IsFed ~> output # <<>>

\* "close the stage if only one solution is requested" (QueryStage.cpp:120).
StageIsClosed == hasStopRequest ~> ~isStreamOpened
=============================================================================
