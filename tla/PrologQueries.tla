---------------------------- MODULE PrologQueries ----------------------------
(***************************************************************************)
(* Calls of Prolog from other threads                                      *)
(* (src/reasoner/prolog/PrologReasoner.cpp, PrologQueryRunner.cpp): a call *)
(* of oneSolution or allSolutions gives a goal to a worker thread of the   *)
(* Prolog thread pool and reads an answer queue. The worker pushes what    *)
(* Prolog finds, then EOS, and throws what Prolog has thrown; the pool     *)
(* hands that to the exception handler of the call, which refers to a      *)
(* local variable of it (exc).                                             *)
(*                                                                         *)
(* How the pool finds a worker, and runs and joins the goal, is the        *)
(* subject of ThreadPool.tla; how the channel of the call closes its       *)
(* stream, of AnswerStream.tla.                                            *)
(***************************************************************************)
EXTENDS Naturals, Sequences

CONSTANT MaxSolutions       \* bound on the solutions of a goal

VARIABLES
    goal,           \* the call and what Prolog makes of its goal
    runner,         \* the worker: pc, solutions pushed, the stop flag, exceptionTerm
    outputStream,   \* its queue, and isOpened_
    caller,         \* the calling thread: pc, what it has read, exc and its outcome
    strayWrite      \* exc was assigned after the call had ended (history)

vars == <<goal, runner, outputStream, caller, strayWrite>>

EOS == 0      \* solutions are numbered from 1

\* A goal whose arguments cannot be constructed is stopped, and evaluated all the same.
Init ==
    /\ goal \in [call : {"oneSolution", "allSolutions"}, isOneSolution : BOOLEAN,
                 isValid : BOOLEAN, numSolutions : 0 .. MaxSolutions, raises : BOOLEAN]
    /\ runner = [pc |-> "queued", pushed |-> 0, hasStopRequest |-> FALSE, exceptionTerm |-> FALSE]
    /\ outputStream = [queue |-> <<>>, isOpened |-> TRUE]
    /\ caller = [pc |-> "begin", results |-> <<>>, exc |-> FALSE, outcome |-> "none"]
    /\ strayWrite = FALSE

-----------------------------------------------------------------------------
(* The worker: PrologQueryRunner::run, and what the pool does around it      *)

Runs(pc) == runner.pc = pc

\* createQueryArgumentTerms may fail; the runner stops itself then.
StartQuery ==
    /\ Runs("queued") /\ caller.pc # "begin"
    /\ runner' = [runner EXCEPT !.pc = "loop", !.hasStopRequest = ~goal.isValid]
    /\ UNCHANGED <<goal, outputStream, caller, strayWrite>>

HasNext == runner.pushed < goal.numSolutions /\ ~runner.hasStopRequest

\* PL_next_solution succeeds.
PushSolution ==
    /\ Runs("loop") /\ HasNext
    /\ outputStream' = [outputStream EXCEPT !.queue = Append(@, runner.pushed + 1)]
    /\ runner' = [runner EXCEPT !.pushed = @ + 1,
                                !.pc = IF goal.isOneSolution THEN "eos" ELSE "loop"]
    /\ UNCHANGED <<goal, caller, strayWrite>>

\* It does not, or the runner is stopped; PL_exception.
EndQuery ==
    /\ Runs("loop") /\ ~HasNext
    /\ runner' = [runner EXCEPT !.pc = "eos",
                                !.exceptionTerm = goal.raises /\ ~runner.hasStopRequest]
    /\ UNCHANGED <<goal, outputStream, caller, strayWrite>>

\* The EOS closes the stream, as it comes from its only channel.
PushEOS ==
    /\ Runs("eos")
    /\ outputStream' = [queue |-> Append(outputStream.queue, EOS), isOpened |-> FALSE]
    /\ runner' = [runner EXCEPT !.pc = IF runner.exceptionTerm THEN "throw" ELSE "terminated"]
    /\ UNCHANGED <<goal, caller, strayWrite>>

HasReturned == caller.pc = "done"

\* *excPtr = e: what is a variable of the call only as long as the call lasts.
HandleException ==
    /\ Runs("throw")
    /\ runner' = [runner EXCEPT !.pc = "closing"]
    /\ IF HasReturned THEN strayWrite' = TRUE /\ UNCHANGED caller
                      ELSE caller' = [caller EXCEPT !.exc = TRUE] /\ UNCHANGED strayWrite
    /\ UNCHANGED <<goal, outputStream>>

\* outputStream->close() does nothing when the stream is closed already.
HandlerCloses ==
    /\ Runs("closing")
    /\ outputStream' = IF outputStream.isOpened
                       THEN [queue |-> Append(outputStream.queue, EOS), isOpened |-> FALSE]
                       ELSE outputStream
    /\ runner' = [runner EXCEPT !.pc = "terminated"]
    /\ UNCHANGED <<goal, caller, strayWrite>>

Worker == StartQuery \/ PushSolution \/ EndQuery \/ PushEOS \/ HandleException \/ HandlerCloses

-----------------------------------------------------------------------------
(* The calling thread *)

pushWork ==
    /\ caller.pc = "begin"
    /\ caller' = [caller EXCEPT !.pc = IF goal.call = "oneSolution" THEN "pop" ELSE "join"]
    /\ UNCHANGED <<goal, runner, outputStream, strayWrite>>

\* allSolutions only.
join ==
    /\ caller.pc = "join" /\ Runs("terminated")
    /\ caller' = [caller EXCEPT !.pc = "pop"]
    /\ UNCHANGED <<goal, runner, outputStream, strayWrite>>

\* allSolutions reads up to EOS, oneSolution a single message.
pop_front ==
    /\ caller.pc = "pop" /\ outputStream.queue # <<>>
    /\ LET next == Head(outputStream.queue)
       IN caller' = [caller EXCEPT
                        !.results = Append(@, next),
                        !.pc = IF goal.call = "oneSolution" \/ next = EOS THEN "check" ELSE "pop"]
    /\ outputStream' = [outputStream EXCEPT !.queue = Tail(@)]
    /\ UNCHANGED <<goal, runner, strayWrite>>

\* if(exc.has_value()) throw
End ==
    /\ caller.pc = "check"
    /\ caller' = [caller EXCEPT !.pc = "done",
                                !.outcome = IF caller.exc THEN "thrown" ELSE "returned"]
    /\ UNCHANGED <<goal, runner, outputStream, strayWrite>>

Caller == pushWork \/ join \/ pop_front \/ End

Next == Worker \/ Caller
Spec == Init /\ [][Next]_vars

-----------------------------------------------------------------------------
(* Properties *)

FoundNothing == caller.results # <<>> /\ caller.results[1] = EOS

\* A call that returns with nothing but EOS, "there is no solution", was not failed by
\* Prolog ("rethrow any exceptions in this thread!").
FailureIsRethrown == caller.outcome = "returned" /\ FoundNothing => ~runner.exceptionTerm

\* allSolutions waits for the runner: a call that returns was not failed by Prolog, and
\* its local variable is not assigned after its end.
AllSolutionsRethrows ==
    goal.call = "allSolutions" =>
        /\ caller.outcome = "returned" => ~runner.exceptionTerm
        /\ ~strayWrite
==============================================================================
