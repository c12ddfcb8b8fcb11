----------------------------- MODULE ThreadPool -----------------------------
(***************************************************************************)
(* The worker pool that executes every query and reasoner call             *)
(* (src/ThreadPool.cpp, include/knowrob/ThreadPool.h).                     *)
(*                                                                         *)
(* Three kinds of threads take part:                                       *)
(*   - one caller per runner ("goal"): it calls pushWork and may then      *)
(*     call Runner::join, or give its reference to the runner away;        *)
(*   - the workers, each executing Worker::run;                            *)
(*   - the thread that destroys the pool.                                  *)
(* A step is what runs between two points at which another thread can      *)
(* observe or change shared state: an access to an atomic variable, taking *)
(* or releasing a mutex, or falling asleep on a condition variable.        *)
(*                                                                         *)
(* Left out: log output, the body of a runner's run() (it returns or       *)
(* throws), and finalizeWorker, which touches no state of the pool.        *)
(***************************************************************************)
EXTENDS Integers, Sequences, FiniteSets

CONSTANTS
    Goals,          \* the runners handed to pushWork
    Workers,        \* the Worker objects the pool can ever create
    MaxNumThreads,  \* maxNumThreads_
    FailingWorkers, \* the workers whose initializeWorker may return false
    WordSize,       \* 2^32 in the code: unsigned counters wrap around here
    NoOne           \* stands for "no thread" and "no goal"

ASSUME GoalsAssumption ==
    /\ IsFiniteSet(Goals) /\ IsFiniteSet(Workers)
    /\ NoOne \notin Goals /\ NoOne \notin Workers
    /\ Goals \cap Workers = {}

\* A push creates at most one worker, so there are always objects left; the
\* counters of the code are wide enough for the number of workers.
ASSUME SizeAssumption ==
    /\ MaxNumThreads \in Nat
    /\ FailingWorkers \subseteq Workers
    /\ Cardinality(Workers) >= Cardinality(Goals)
    /\ WordSize \in Nat /\ WordSize > Cardinality(Workers)

VARIABLES
    workerThreads,    \* workerThreads_: the set of workers created so far
    workQueue,        \* workQueue_
    workMutex,        \* the thread that holds workMutex_, or NoOne
    numFinished,      \* numFinishedThreads_
    numActive,        \* numActiveWorker_
    numAlive,         \* numAliveThreads, a local of the running pushWork
    numAvailable,     \* numAvailableThreads, a local of the running pushWork
    hasTerminateRequest, \* per worker: hasTerminateRequest_
    wpc,              \* per worker: where Worker::run stands
    goalOf,           \* per worker: the goal it executes, or NoOne
    cpc,              \* per goal: where its caller stands
    isTerminated,     \* per goal: Runner::isTerminated_
    hasThrown,        \* per goal: run() has thrown (history)
    isHandled,        \* per goal: the exception handler has returned (history)
    pool,             \* where ~ThreadPool stands
    visited,          \* the workers its current loop has reached
    pushed,           \* the goals in the order they were queued (history)
    started           \* the goals in the order they were popped (history)

poolVars == <<workerThreads, workQueue, workMutex, numFinished, numActive>>
localVars == <<numAlive, numAvailable>>
runnerVars == <<isTerminated, hasThrown, isHandled>>
history == <<pushed, started>>
destroyVars == <<pool, visited>>
vars == <<poolVars, localVars, hasTerminateRequest, wpc, goalOf, cpc,
          runnerVars, destroyVars, history>>
\* What a step leaves alone that only moves a worker, a caller or the
\* destructor on.
allButWpc == <<poolVars, localVars, hasTerminateRequest, goalOf, cpc,
               runnerVars, destroyVars, history>>
allButCpc == <<poolVars, localVars, hasTerminateRequest, wpc, goalOf,
               runnerVars, destroyVars, history>>
allButPool == <<poolVars, localVars, hasTerminateRequest, wpc, goalOf, cpc,
                runnerVars, visited, history>>

-----------------------------------------------------------------------------
(* Control states *)

WorkerPC == {"absent", "init", "activate", "loop", "pred", "sleep", "waiting",
             "relock", "awake", "pop", "run", "handler", "done", "notify",
             "exit", "decrement", "exited", "joined"}
CallerPC == {"new", "enqueued", "counted", "unlocked", "pushed", "joinPred",
             "joinSleep", "joinWaiting", "joined", "released"}
PoolPC == {"up", "flagging", "deleting", "draining", "gone"}

\* Control points of a pushWork that has started and not returned.
Pushing == {"enqueued", "counted", "unlocked"}
\* Control points of a worker that is accounted for in numActiveWorker_.
ActivePC == {"loop", "awake", "pop", "run", "handler", "done", "notify",
             "exit", "decrement"}
\* Control points of a worker that is accounted for in numFinishedThreads_.
FinishedPC == {"decrement", "exited", "joined"}

\* Control points of a worker that executes a goal.
BusyPC == {"run", "handler", "done", "notify"}

WorkersAt(pcs) == {w \in Workers : wpc[w] \in pcs}

Init ==
    /\ workerThreads = {} /\ workQueue = <<>> /\ workMutex = NoOne
    /\ numFinished = 0 /\ numActive = 0
    /\ numAlive = 0 /\ numAvailable = 0
    /\ hasTerminateRequest = [w \in Workers |-> FALSE]
    /\ wpc = [w \in Workers |-> "absent"]
    /\ goalOf = [w \in Workers |-> NoOne]
    /\ cpc = [g \in Goals |-> "new"]
    /\ isTerminated = [g \in Goals |-> FALSE]
    /\ hasThrown = [g \in Goals |-> FALSE]
    /\ isHandled = [g \in Goals |-> FALSE]
    /\ pool = "up" /\ visited = {}
    /\ pushed = <<>> /\ started = <<>>

CallerGoes(g, from, to) == cpc[g] = from /\ cpc' = [cpc EXCEPT ![g] = to]
WorkerGoes(w, from, to) == wpc[w] = from /\ wpc' = [wpc EXCEPT ![w] = to]

-----------------------------------------------------------------------------
(* pushWork *)

\* Takes workMutex_, queues the goal, reads workerThreads_.size() and
\* numFinishedThreads_.
PushEnqueue(g) ==
    /\ CallerGoes(g, "new", "enqueued")
    /\ pool = "up" /\ workMutex = NoOne
    /\ workMutex' = g
    /\ workQueue' = Append(workQueue, g)
    /\ pushed' = Append(pushed, g)
    /\ numAlive' = (Cardinality(workerThreads) - numFinished) % WordSize
    /\ UNCHANGED <<workerThreads, numFinished, numActive, numAvailable,
                   hasTerminateRequest, wpc, goalOf, runnerVars, destroyVars, started>>

\* Reads numActiveWorker_; the subtraction is one of unsigned numbers.
PushCount(g) ==
    /\ CallerGoes(g, "enqueued", "counted")
    /\ numAvailable' = (numAlive - numActive) % WordSize
    /\ UNCHANGED <<poolVars, numAlive, hasTerminateRequest, wpc, goalOf,
                   runnerVars, destroyVars, history>>

\* Mutant: the limit is not compared with the threads that are still alive.
MayAddWorkerUnlimited == numAvailable = 0
MayAddWorker ==
    /\ numAvailable = 0
    /\ Cardinality(workerThreads) < MaxNumThreads + numFinished

\* Adds a worker when none is available and the limit allows one, and
\* releases workMutex_.
PushSpawn(g) ==
    /\ CallerGoes(g, "counted", "unlocked")
    /\ IF MayAddWorker
       THEN \E w \in Workers :
               /\ WorkerGoes(w, "absent", "init")
               /\ workerThreads' = workerThreads \cup {w}
       ELSE UNCHANGED <<wpc, workerThreads>>
    /\ workMutex' = NoOne
    /\ numAlive' = 0 /\ numAvailable' = 0
    /\ UNCHANGED <<workQueue, numFinished, numActive, hasTerminateRequest,
                   goalOf, runnerVars, destroyVars, history>>

\* Mutant: no worker is woken up.
PushNotifyMissing(g) ==
    /\ CallerGoes(g, "unlocked", "pushed")
    /\ UNCHANGED allButCpc

\* workCV_.notify_one().
PushNotify(g) ==
    /\ CallerGoes(g, "unlocked", "pushed")
    /\ IF WorkersAt({"waiting"}) = {} THEN UNCHANGED wpc
       ELSE \E w \in Workers : WorkerGoes(w, "waiting", "relock")
    /\ UNCHANGED <<poolVars, localVars, hasTerminateRequest, goalOf,
                   runnerVars, destroyVars, history>>

-----------------------------------------------------------------------------
(* Worker::run *)

\* initializeWorker succeeds; the request flag is (re)set to false.
InitializeWorker(w) ==
    /\ WorkerGoes(w, "init", "activate")
    /\ hasTerminateRequest' = [hasTerminateRequest EXCEPT ![w] = FALSE]
    /\ UNCHANGED <<poolVars, localVars, goalOf, cpc, runnerVars, destroyVars, history>>

\* Mutant: the failed worker is not counted as finished.
InitializeFailsUncounted(w) ==
    /\ w \in FailingWorkers
    /\ WorkerGoes(w, "init", "exited")
    /\ UNCHANGED allButWpc

\* Mutant: the failed worker has counted itself as active before.
InitializeFailsActive(w) ==
    /\ w \in FailingWorkers
    /\ WorkerGoes(w, "init", "exited")
    /\ numFinished' = (numFinished + 1) % WordSize
    /\ numActive' = (numActive + 1) % WordSize
    /\ UNCHANGED <<workerThreads, workQueue, workMutex, localVars,
                   hasTerminateRequest, goalOf, cpc, runnerVars, destroyVars, history>>

\* initializeWorker fails: the thread ends, counted as finished.
InitializeFails(w) ==
    /\ w \in FailingWorkers
    /\ WorkerGoes(w, "init", "exited")
    /\ numFinished' = (numFinished + 1) % WordSize
    /\ UNCHANGED <<workerThreads, workQueue, workMutex, numActive, localVars,
                   hasTerminateRequest, goalOf, cpc, runnerVars, destroyVars, history>>

Activate(w) ==
    /\ WorkerGoes(w, "activate", "loop")
    /\ numActive' = (numActive + 1) % WordSize
    /\ UNCHANGED <<workerThreads, workQueue, workMutex, numFinished, localVars,
                   hasTerminateRequest, goalOf, cpc, runnerVars, destroyVars, history>>

\* The loop condition: leave on a terminate request, ...
LoopExit(w) ==
    /\ hasTerminateRequest[w]
    /\ WorkerGoes(w, "loop", "exit")
    /\ UNCHANGED allButWpc

\* ... else take workMutex_ and count as available.
LockForWork(w) ==
    /\ ~hasTerminateRequest[w] /\ workMutex = NoOne
    /\ WorkerGoes(w, "loop", "pred")
    /\ workMutex' = w
    /\ numActive' = (numActive - 1) % WordSize
    /\ UNCHANGED <<workerThreads, workQueue, numFinished, localVars,
                   hasTerminateRequest, goalOf, cpc, runnerVars, destroyVars, history>>

WakePredicate(w) == hasTerminateRequest[w] \/ workQueue # <<>>

\* The wait predicate holds: count as active, release the mutex.
Wake(w) ==
    /\ WakePredicate(w)
    /\ WorkerGoes(w, "pred", "awake")
    /\ workMutex' = NoOne
    /\ numActive' = (numActive + 1) % WordSize
    /\ UNCHANGED <<workerThreads, workQueue, numFinished, localVars,
                   hasTerminateRequest, goalOf, cpc, runnerVars, destroyVars, history>>

\* It does not: decide to sleep, the mutex still held ...
DecideToSleep(w) ==
    /\ ~WakePredicate(w)
    /\ WorkerGoes(w, "pred", "sleep")
    /\ UNCHANGED allButWpc

\* ... and release the mutex and fall asleep in one step.
FallAsleep(w) ==
    /\ WorkerGoes(w, "sleep", "waiting")
    /\ workMutex' = NoOne
    /\ UNCHANGED <<workerThreads, workQueue, numFinished, numActive, localVars,
                   hasTerminateRequest, goalOf, cpc, runnerVars, destroyVars, history>>

SpuriousWakeup(w) ==
    /\ WorkerGoes(w, "waiting", "relock")
    /\ UNCHANGED allButWpc

\* Woken up: take the mutex again and go back to the predicate.
Relock(w) ==
    /\ workMutex = NoOne
    /\ WorkerGoes(w, "relock", "pred")
    /\ workMutex' = w
    /\ UNCHANGED <<workerThreads, workQueue, numFinished, numActive, localVars,
                   hasTerminateRequest, goalOf, cpc, runnerVars, destroyVars, history>>

\* After the wait: leave on a terminate request.
CheckRequest(w) ==
    /\ WorkerGoes(w, "awake", IF hasTerminateRequest[w] THEN "exit" ELSE "pop")
    /\ UNCHANGED allButWpc

\* Mutant: the queue is read without the mutex, so the goal another worker
\* is about to remove is taken as well.
PopWorkUnlocked(w) ==
    /\ IF workQueue = <<>>
       THEN WorkerGoes(w, "pop", "loop") /\ UNCHANGED <<workQueue, goalOf, started>>
       ELSE /\ WorkerGoes(w, "pop", "run")
            /\ goalOf' = [goalOf EXCEPT ![w] = Head(workQueue)]
            /\ workQueue' \in {workQueue, Tail(workQueue)}
            /\ started' = Append(started, Head(workQueue))
    /\ UNCHANGED <<workerThreads, workMutex, numFinished, numActive, localVars,
                   hasTerminateRequest, cpc, runnerVars, destroyVars, pushed>>

\* Mutant: the worker does not expect an empty queue ("if(goal)" dropped).
PopWorkUnchecked(w) ==
    /\ workMutex = NoOne
    /\ WorkerGoes(w, "pop", "run")
    /\ IF workQueue = <<>>
       THEN UNCHANGED <<workQueue, goalOf, started>>
       ELSE /\ goalOf' = [goalOf EXCEPT ![w] = Head(workQueue)]
            /\ workQueue' = Tail(workQueue)
            /\ started' = Append(started, Head(workQueue))
    /\ UNCHANGED <<workerThreads, workMutex, numFinished, numActive, localVars,
                   hasTerminateRequest, cpc, runnerVars, destroyVars, pushed>>

\* popWork: another worker may have emptied the queue in the meantime.
PopWork(w) ==
    /\ workMutex = NoOne
    /\ IF workQueue = <<>>
       THEN WorkerGoes(w, "pop", "loop") /\ UNCHANGED <<workQueue, goalOf, started>>
       ELSE /\ WorkerGoes(w, "pop", "run")
            /\ goalOf' = [goalOf EXCEPT ![w] = Head(workQueue)]
            /\ workQueue' = Tail(workQueue)
            /\ started' = Append(started, Head(workQueue))
    /\ UNCHANGED <<workerThreads, workMutex, numFinished, numActive, localVars,
                   hasTerminateRequest, cpc, runnerVars, destroyVars, pushed>>

-----------------------------------------------------------------------------
(* Runner::runInternal *)

RunReturns(w) ==
    /\ WorkerGoes(w, "run", "done")
    /\ UNCHANGED allButWpc

RunThrows(w) ==
    /\ WorkerGoes(w, "run", "handler")
    /\ hasThrown' = [hasThrown EXCEPT ![goalOf[w]] = TRUE]
    /\ UNCHANGED <<poolVars, localVars, hasTerminateRequest, goalOf, cpc,
                   isTerminated, isHandled, destroyVars, history>>

HandlerReturns(w) ==
    /\ WorkerGoes(w, "handler", "done")
    /\ isHandled' = [isHandled EXCEPT ![goalOf[w]] = TRUE]
    /\ UNCHANGED <<poolVars, localVars, hasTerminateRequest, goalOf, cpc,
                   isTerminated, hasThrown, destroyVars, history>>

\* Mutant: the flag is set as soon as run() is left, before the handler.
SetTerminatedEarly(w) ==
    /\ wpc[w] \in {"handler", "done"}
    /\ wpc' = [wpc EXCEPT ![w] = IF @ = "done" THEN "notify" ELSE @]
    /\ isTerminated' = [isTerminated EXCEPT ![goalOf[w]] = TRUE]
    /\ UNCHANGED <<poolVars, localVars, hasTerminateRequest, goalOf, cpc,
                   hasThrown, isHandled, destroyVars, history>>

\* isTerminated_ = true, without the runner's mutex.
SetTerminated(w) ==
    /\ WorkerGoes(w, "done", "notify")
    /\ isTerminated' = [isTerminated EXCEPT ![goalOf[w]] = TRUE]
    /\ UNCHANGED <<poolVars, localVars, hasTerminateRequest, goalOf, cpc,
                   hasThrown, isHandled, destroyVars, history>>

\* finishedCV_.notify_all(); the worker then drops its reference to the goal.
NotifyFinished(w) ==
    /\ WorkerGoes(w, "notify", "loop")
    /\ cpc' = [cpc EXCEPT ![goalOf[w]] = IF @ = "joinWaiting" THEN "joinPred" ELSE @]
    /\ goalOf' = [goalOf EXCEPT ![w] = NoOne]
    /\ UNCHANGED <<poolVars, localVars, hasTerminateRequest, runnerVars, destroyVars, history>>

-----------------------------------------------------------------------------
(* The end of a worker: numFinishedThreads_ goes up before numActiveWorker_ *)
(* goes down, so the unsigned difference wraps around in between.           *)

FinishWorker(w) ==
    /\ WorkerGoes(w, "exit", "decrement")
    /\ numFinished' = (numFinished + 1) % WordSize
    /\ UNCHANGED <<workerThreads, workQueue, workMutex, numActive, localVars,
                   hasTerminateRequest, goalOf, cpc, runnerVars, destroyVars, history>>

DeactivateWorker(w) ==
    /\ WorkerGoes(w, "decrement", "exited")
    /\ numActive' = (numActive - 1) % WordSize
    /\ UNCHANGED <<workerThreads, workQueue, workMutex, numFinished, localVars,
                   hasTerminateRequest, goalOf, cpc, runnerVars, destroyVars, history>>

-----------------------------------------------------------------------------
(* The caller after pushWork *)

\* Runner::join: return at once when the runner has terminated, ...
JoinReturnsAtOnce(g) ==
    /\ isTerminated[g]
    /\ CallerGoes(g, "pushed", "joined")
    /\ UNCHANGED allButCpc

\* ... else lock mutex_ (no one else uses it) and wait on finishedCV_.
JoinStarts(g) ==
    /\ ~isTerminated[g]
    /\ CallerGoes(g, "pushed", "joinPred")
    /\ UNCHANGED allButCpc

JoinPredicate(g) ==
    /\ CallerGoes(g, "joinPred", IF isTerminated[g] THEN "joined" ELSE "joinSleep")
    /\ UNCHANGED allButCpc

JoinSleeps(g) ==
    /\ CallerGoes(g, "joinSleep", "joinWaiting")
    /\ UNCHANGED allButCpc

\* A caller that does not wait gives its reference to the runner away.
Release(g) ==
    /\ CallerGoes(g, "pushed", "released")
    /\ UNCHANGED allButCpc

-----------------------------------------------------------------------------
(* ~ThreadPool, called when no pushWork is running *)

DestroyBegins ==
    /\ pool = "up" /\ \A g \in Goals : cpc[g] \notin Pushing
    /\ pool' = "flagging"
    /\ UNCHANGED allButPool

\* One store per worker, without workMutex_.
RequestTermination(w) ==
    /\ pool = "flagging" /\ w \in workerThreads \ visited
    /\ visited' = visited \cup {w}
    /\ hasTerminateRequest' = [hasTerminateRequest EXCEPT ![w] = TRUE]
    /\ UNCHANGED <<poolVars, localVars, wpc, goalOf, cpc, runnerVars, pool,
                   history>>

\* workCV_.notify_all(), once all flags have been set.
NotifyWorkers ==
    /\ pool = "flagging" /\ visited = workerThreads
    /\ pool' = "deleting"
    /\ visited' = {}
    /\ wpc' = [w \in Workers |-> IF wpc[w] = "waiting" THEN "relock" ELSE wpc[w]]
    /\ UNCHANGED <<poolVars, localVars, hasTerminateRequest, goalOf, cpc,
                   runnerVars, history>>

\* ~Worker of the next worker: the flag is set once more, no one is notified.
DeleteWorker(w) ==
    /\ pool = "deleting" /\ w \in workerThreads \ visited
    /\ \A v \in visited : wpc[v] = "joined"
    /\ visited' = visited \cup {w}
    /\ hasTerminateRequest' = [hasTerminateRequest EXCEPT ![w] = TRUE]
    /\ UNCHANGED <<poolVars, localVars, wpc, goalOf, cpc, runnerVars, pool,
                   history>>

\* Mutant: the thread is detached instead of joined.
DetachWorker(w) ==
    /\ w \in visited /\ pool = "deleting" /\ wpc[w] # "joined"
    /\ wpc' = [wpc EXCEPT ![w] = "joined"]
    /\ UNCHANGED allButWpc

\* thread_.join() in ~Worker.
JoinWorker(w) ==
    /\ w \in visited /\ pool = "deleting"
    /\ WorkerGoes(w, "exited", "joined")
    /\ UNCHANGED allButWpc

\* workerThreads_.clear(); the members of the pool are destroyed next.
ClearWorkers ==
    /\ pool = "deleting"
    /\ \A w \in workerThreads : wpc[w] = "joined"
    /\ pool' = "draining"
    /\ UNCHANGED allButPool

\* ~queue drops its references. The last owner of a runner runs ~Runner,
\* that is stop(true): it waits for the runner to terminate.
DropGoal ==
    /\ pool = "draining" /\ workQueue # <<>>
    /\ cpc[Head(workQueue)] = "released" => isTerminated[Head(workQueue)]
    /\ workQueue' = Tail(workQueue)
    /\ UNCHANGED <<workerThreads, workMutex, numFinished, numActive, localVars,
                   hasTerminateRequest, wpc, goalOf, cpc, runnerVars,
                   destroyVars, history>>

DestroyEnds ==
    /\ pool = "draining" /\ workQueue = <<>>
    /\ pool' = "gone"
    /\ UNCHANGED allButPool

-----------------------------------------------------------------------------
CallerNext(g) ==
    \/ PushEnqueue(g) \/ PushCount(g) \/ PushSpawn(g) \/ PushNotify(g)
    \/ JoinReturnsAtOnce(g) \/ JoinStarts(g) \/ JoinPredicate(g) \/ JoinSleeps(g)
    \/ Release(g)

WorkerStep(w) ==
    \/ InitializeWorker(w) \/ InitializeFails(w) \/ Activate(w)
    \/ LoopExit(w) \/ LockForWork(w) \/ Wake(w) \/ DecideToSleep(w)
    \/ FallAsleep(w) \/ Relock(w) \/ CheckRequest(w) \/ PopWork(w)
    \/ RunReturns(w) \/ RunThrows(w) \/ HandlerReturns(w)
    \/ SetTerminated(w) \/ NotifyFinished(w)
    \/ FinishWorker(w) \/ DeactivateWorker(w)

DestroyerNext ==
    \/ DestroyBegins \/ NotifyWorkers \/ ClearWorkers \/ DropGoal \/ DestroyEnds
    \/ \E w \in Workers : RequestTermination(w) \/ DeleteWorker(w) \/ JoinWorker(w)

Next ==
    \/ \E g \in Goals : CallerNext(g)
    \/ \E w \in Workers : WorkerStep(w) \/ SpuriousWakeup(w)
    \/ DestroyerNext

Spec == Init /\ [][Next]_vars

\* The part of Next taken while the pool is in use: no one destroys it.
UseNext ==
    \/ \E g \in Goals : CallerNext(g)
    \/ \E w \in Workers : WorkerStep(w) \/ SpuriousWakeup(w)

\* The scheduler runs every thread that can run, and a mutex that is free
\* again and again is eventually granted (strong fairness of the three steps
\* that take workMutex_ in competition with other threads). Nothing forces a
\* spurious wakeup, a release, or the start of a pushWork or a destruction.
WorkerFairness ==
    \A w \in Workers : /\ WF_vars(WorkerStep(w))
                       /\ SF_vars(LockForWork(w)) /\ SF_vars(Relock(w))
                       /\ SF_vars(PopWork(w))
CallerFairness ==
    \A g \in Goals : /\ WF_vars(PushCount(g)) /\ WF_vars(PushSpawn(g))
                     /\ WF_vars(PushNotify(g))
                     /\ WF_vars(JoinPredicate(g)) /\ WF_vars(JoinSleeps(g))
DestroyerFairness ==
    /\ WF_vars(NotifyWorkers) /\ WF_vars(ClearWorkers)
    /\ WF_vars(DropGoal) /\ WF_vars(DestroyEnds)
    /\ \A w \in Workers : /\ WF_vars(RequestTermination(w))
                          /\ WF_vars(DeleteWorker(w)) /\ WF_vars(JoinWorker(w))

FairSpec == Spec /\ WorkerFairness /\ CallerFairness /\ DestroyerFairness
UseSpec == Init /\ [][UseNext]_vars /\ WorkerFairness /\ CallerFairness

-----------------------------------------------------------------------------
(* Safety *)

\* Types, and: a worker holds a goal exactly while it executes one.
TypeOK ==
    /\ workerThreads \subseteq Workers /\ visited \subseteq workerThreads
    /\ workQueue \in Seq(Goals)
    /\ workMutex \in Goals \cup Workers \cup {NoOne}
    /\ numFinished \in 0 .. WordSize - 1 /\ numActive \in 0 .. WordSize - 1
    /\ numAlive \in 0 .. WordSize - 1 /\ numAvailable \in 0 .. WordSize - 1
    /\ hasTerminateRequest \in [Workers -> BOOLEAN]
    /\ wpc \in [Workers -> WorkerPC]
    /\ goalOf \in [Workers -> Goals \cup {NoOne}]
    /\ \A w \in Workers : goalOf[w] # NoOne <=> wpc[w] \in BusyPC
    /\ cpc \in [Goals -> CallerPC]
    /\ isTerminated \in [Goals -> BOOLEAN]
    /\ hasThrown \in [Goals -> BOOLEAN] /\ isHandled \in [Goals -> BOOLEAN]
    /\ pool \in PoolPC
    /\ pushed \in Seq(Goals) /\ started \in Seq(Goals)

\* The two atomic counters, changed at different times and partly without
\* workMutex_, always count exactly the workers past the matching points of
\* Worker::run.
CountersExact ==
    /\ numActive = Cardinality(WorkersAt(ActivePC))
    /\ numFinished = Cardinality(WorkersAt(FinishedPC))

\* "limit to this number of worker threads" (ThreadPool.h:135): no matter how
\* worker failures and pushes interleave, no more threads than that are alive.
ThreadLimit ==
    Cardinality(workerThreads \ WorkersAt(FinishedPC)) <= MaxNumThreads

\* The unsigned subtractions of pushWork never wrap around, although their
\* operands are read one after the other while workers come and go.
NoWrapAround ==
    \A g \in Goals :
        cpc[g] = "counted" => /\ numAvailable <= Cardinality(Workers)
                              /\ numAlive >= numActive

\* Every goal is taken exactly once and in the order of the pushes, and
\* none is lost between the queue and the workers.
FifoExactlyOnce == pool # "draining" /\ pool # "gone" => pushed = started \o workQueue

AllWorkersFailed ==
    workerThreads # {} /\ \A w \in workerThreads : wpc[w] = "exited"

\* No lost wakeup: while the pool is up and goals are queued, some worker that
\* is not asleep will come back to the queue, unless a pushWork is still in
\* progress or every worker ever created has failed to initialize.
NoLostWakeup ==
    (pool = "up" /\ workQueue # <<>> /\ \A g \in Goals : cpc[g] \notin Pushing)
        => \/ \E w \in workerThreads : wpc[w] \notin {"waiting", "exited"}
           \/ AllWorkersFailed

\* A caller that returns from join finds the exception handler of its goal
\* finished ("rethrow any exceptions in this thread!" in PrologReasoner
\* relies on it).
HandledBeforeJoinReturns ==
    \A g \in Goals : cpc[g] = "joined" /\ hasThrown[g] => isHandled[g]

\* When the pool is gone no thread touches it any more, and what was queued
\* and never started has not been reported as terminated.
NothingRunsAfterDestruction ==
    pool \in {"draining", "gone"} =>
        /\ WorkersAt(WorkerPC \ {"absent", "joined"}) = {}
        /\ \A g \in Goals : isTerminated[g] <=> \E i \in 1 .. Len(started) : started[i] = g

-----------------------------------------------------------------------------
(* Liveness *)

\* Every goal pushed is eventually run to its end, unless every worker has
\* failed to initialize or the pool is destroyed.
GoalsTerminate ==
    \A g \in Goals :
        cpc[g] = "enqueued" ~> (isTerminated[g] \/ AllWorkersFailed \/ pool # "up")

\* "Wait until run function has exited." (ThreadPool.h:87): a caller in join
\* returns once its runner has terminated.
JoinReturns ==
    \A g \in Goals : (cpc[g] \in {"joinPred", "joinSleep", "joinWaiting"} /\ isTerminated[g])
                        ~> cpc[g] = "joined"
=============================================================================
