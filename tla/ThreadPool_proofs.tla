-------------------------- MODULE ThreadPool_proofs --------------------------
(***************************************************************************)
(* Proofs about the worker pool, for any number of callers and workers,    *)
(* any thread limit and any word size that can count the workers.          *)
(*                                                                         *)
(* The inductive invariant is built in layers; each layer is proved with   *)
(* the ones before it as known facts:                                      *)
(*   TypeOK        types, and a worker has a goal iff it executes one;     *)
(*   CountersExact the two counters count workers at control points;       *)
(*   LimitInv      who is in workerThreads_, and the limit;                *)
(*   MutexInv      who holds workMutex_, and no one stops while it is up;  *)
(*   CountInv      what a running pushWork has read still bounds the rest; *)
(*   GoalInv       every goal has one owner and flags to match;            *)
(*   SleepInv, ReadyInv, SpawnInv   why no wakeup is lost;                 *)
(*   StartedInv, DrainInv           what is left after the destructor.     *)
(***************************************************************************)
EXTENDS ThreadPool, FiniteSetTheorems, SequenceTheorems, TLAPS

\* The result of an unsigned subtraction or increment is a 32-bit word again.
LEMMA Modulo ==
    ASSUME NEW n \in Int
    PROVE  n % WordSize \in 0 .. WordSize - 1
BY SizeAssumption, GoalsAssumption, FS_CardinalityType

\* The word size leaves room for zero.
LEMMA WordPositive == WordSize \in Nat /\ 0 \in 0 .. WordSize - 1
BY SizeAssumption, GoalsAssumption, FS_CardinalityType

\* workerThreads_.size() is a natural number.
LEMMA CountType ==
    ASSUME TypeOK
    PROVE  Cardinality(workerThreads) \in Nat
BY GoalsAssumption, FS_Subset, FS_CardinalityType DEF TypeOK

\* workerThreads_ holds the workers that have been created.
Membership == \A w \in Workers : w \in workerThreads <=> wpc[w] # "absent"

\* Every variable keeps its type, and a worker refers to a goal exactly while it
\* executes one (Worker::run, Runner::runInternal), in every execution.
THEOREM TypeCorrect == Spec => []TypeOK
<1>1. Init => TypeOK
  BY GoalsAssumption, SizeAssumption, FS_CardinalityType
  DEF Init, TypeOK, WorkerPC, CallerPC, PoolPC, BusyPC
<1>2. TypeOK /\ [Next]_vars => TypeOK'
  <2> SUFFICES ASSUME TypeOK, [Next]_vars PROVE TypeOK'
    OBVIOUS
  <2> USE GoalsAssumption DEF poolVars, localVars, runnerVars, history, destroyVars
  <2>1. CASE UNCHANGED vars
    BY <2>1 DEF vars, TypeOK
  <2>2. ASSUME NEW g \in Goals, CallerNext(g) PROVE TypeOK'
    <3> USE DEF TypeOK, CallerPC, CallerGoes, allButCpc
    <3>1. CASE PushEnqueue(g)
      <4>1. numAlive' \in 0 .. WordSize - 1
        <5>1. Cardinality(workerThreads) \in Int /\ numFinished \in Int
          BY CountType
        <5>. QED BY ONLY <3>1, <5>1, Modulo DEF PushEnqueue
      <4>2. workQueue' \in Seq(Goals) /\ pushed' \in Seq(Goals)
        BY <3>1 DEF PushEnqueue
      <4>. QED BY <3>1, <4>1, <4>2 DEF PushEnqueue
    <3>2. CASE PushCount(g)
      <4>1. numAvailable' \in 0 .. WordSize - 1
        BY <3>2, Modulo DEF PushCount
      <4>. QED BY <3>2, <4>1 DEF PushCount
    <3>3. CASE PushSpawn(g)
      <4>1. workerThreads' \subseteq Workers /\ workerThreads \subseteq workerThreads'
        BY <3>3 DEF PushSpawn
      <4>2. wpc' \in [Workers -> WorkerPC]
        BY <3>3 DEF PushSpawn, WorkerGoes, WorkerPC
      <4>3. \A w \in Workers : wpc'[w] \in BusyPC <=> wpc[w] \in BusyPC
        BY <3>3 DEF PushSpawn, WorkerGoes, BusyPC
      <4>. QED BY <3>3, <4>1, <4>2, <4>3, WordPositive DEF PushSpawn
    <3>4. CASE PushNotify(g)
      <4>1. CASE wpc' = wpc
        BY <3>4, <4>1 DEF PushNotify
      <4>2. ASSUME NEW w \in Workers, WorkerGoes(w, "waiting", "relock") PROVE TypeOK'
        <5>1. wpc' \in [Workers -> WorkerPC] /\ \A v \in Workers : wpc'[v] \in BusyPC <=> wpc[v] \in BusyPC
          BY <4>2 DEF WorkerGoes, WorkerPC, BusyPC
        <5>. QED BY <3>4, <5>1 DEF PushNotify
      <4>. QED BY <3>4, <4>1, <4>2 DEF PushNotify
    <3>5. CASE JoinReturnsAtOnce(g) \/ JoinStarts(g) \/ JoinPredicate(g) \/ JoinSleeps(g) \/ Release(g)
      BY <3>5 DEF JoinReturnsAtOnce, JoinStarts, JoinPredicate, JoinSleeps, Release
    <3>. QED BY <2>2, <3>1, <3>2, <3>3, <3>4, <3>5 DEF CallerNext
  <2>3. ASSUME NEW w \in Workers, WorkerStep(w) \/ SpuriousWakeup(w) PROVE TypeOK'
    <3> USE DEF TypeOK, WorkerPC, WorkerGoes, BusyPC, allButWpc
    <3>1. CASE InitializeWorker(w)
      BY <3>1 DEF InitializeWorker
    <3>2. CASE InitializeFails(w)
      <4>1. numFinished' \in 0 .. WordSize - 1
        BY <3>2, Modulo DEF InitializeFails
      <4>. QED BY <3>2, <4>1 DEF InitializeFails
    <3>3. CASE Activate(w)
      <4>1. numActive' \in 0 .. WordSize - 1
        BY <3>3, Modulo DEF Activate
      <4>. QED BY <3>3, <4>1 DEF Activate
    <3>4. CASE LockForWork(w)
      <4>1. numActive' \in 0 .. WordSize - 1
        BY <3>4, Modulo DEF LockForWork
      <4>. QED BY <3>4, <4>1 DEF LockForWork
    <3>5. CASE Wake(w)
      <4>1. numActive' \in 0 .. WordSize - 1
        BY <3>5, Modulo DEF Wake
      <4>. QED BY <3>5, <4>1 DEF Wake
    <3>6. CASE FinishWorker(w)
      <4>1. numFinished' \in 0 .. WordSize - 1
        BY <3>6, Modulo DEF FinishWorker
      <4>. QED BY <3>6, <4>1 DEF FinishWorker
    <3>7. CASE DeactivateWorker(w)
      <4>1. numActive' \in 0 .. WordSize - 1
        BY <3>7, Modulo DEF DeactivateWorker
      <4>. QED BY <3>7, <4>1 DEF DeactivateWorker
    <3>8. CASE LoopExit(w)
      BY <3>8 DEF LoopExit
    <3>9. CASE DecideToSleep(w)
      BY <3>9 DEF DecideToSleep
    <3>10. CASE FallAsleep(w)
      BY <3>10 DEF FallAsleep
    <3>11. CASE Relock(w)
      BY <3>11 DEF Relock
    <3>12. CASE CheckRequest(w)
      BY <3>12 DEF CheckRequest
    <3>13. CASE RunReturns(w)
      BY <3>13 DEF RunReturns
    <3>14. CASE RunThrows(w)
      BY <3>14 DEF RunThrows
    <3>15. CASE HandlerReturns(w)
      BY <3>15 DEF HandlerReturns
    <3>16. CASE SetTerminated(w)
      BY <3>16 DEF SetTerminated
    <3>17. CASE SpuriousWakeup(w)
      BY <3>17 DEF SpuriousWakeup
    <3>18. CASE PopWork(w)
      <4>1. CASE workQueue = <<>>
        <5>1. wpc' = [wpc EXCEPT ![w] = "loop"] /\ wpc[w] = "pop" /\ UNCHANGED <<workQueue, goalOf, started>>
          BY <3>18, <4>1 DEF PopWork
        <5>2. wpc' \in [Workers -> WorkerPC] /\ \A v \in Workers : goalOf'[v] # NoOne <=> wpc'[v] \in BusyPC
          BY <5>1
        <5>. QED BY <3>18, <5>1, <5>2 DEF PopWork
      <4>2. CASE workQueue # <<>>
        <5>1. Head(workQueue) \in Goals /\ Tail(workQueue) \in Seq(Goals)
          BY <4>2
        <5>2. /\ wpc[w] = "pop" /\ wpc' = [wpc EXCEPT ![w] = "run"]
              /\ goalOf' = [goalOf EXCEPT ![w] = Head(workQueue)]
              /\ workQueue' = Tail(workQueue)
              /\ started' = Append(started, Head(workQueue))
          BY ONLY <3>18, <4>2 DEF PopWork, WorkerGoes
        <5>3. started' \in Seq(Goals)
          BY <5>1, <5>2
        <5>4. \A v \in Workers : goalOf'[v] # NoOne <=> wpc'[v] \in BusyPC
          BY <5>1, <5>2
        <5>. QED BY <3>18, <5>1, <5>2, <5>3, <5>4 DEF PopWork
      <4>. QED BY <4>1, <4>2
    <3>19. CASE NotifyFinished(w)
      <4>1. cpc' \in [Goals -> CallerPC]
        BY <3>19 DEF NotifyFinished, CallerPC
      <4>. QED BY <3>19, <4>1 DEF NotifyFinished
    <3>. QED
      BY <2>3, <3>1, <3>2, <3>3, <3>4, <3>5, <3>6, <3>7, <3>8, <3>9, <3>10, <3>11, <3>12, <3>13, <3>14, <3>15, <3>16, <3>17, <3>18, <3>19
      DEF WorkerStep
  <2>4. CASE DestroyerNext
    <3> USE DEF TypeOK, PoolPC, allButPool
    <3>1. CASE DestroyBegins \/ ClearWorkers \/ DestroyEnds
      BY <3>1 DEF DestroyBegins, ClearWorkers, DestroyEnds
    <3>2. CASE NotifyWorkers
      BY <3>2 DEF NotifyWorkers, WorkerPC, BusyPC
    <3>3. CASE DropGoal
      BY <3>3 DEF DropGoal
    <3>4. ASSUME NEW w \in Workers, RequestTermination(w) \/ DeleteWorker(w) PROVE TypeOK'
      BY <3>4 DEF RequestTermination, DeleteWorker
    <3>5. ASSUME NEW w \in Workers, JoinWorker(w) PROVE TypeOK'
      BY <3>5 DEF JoinWorker, WorkerGoes, WorkerPC, BusyPC, allButWpc
    <3>. QED BY <2>4, <3>1, <3>2, <3>3, <3>4, <3>5 DEF DestroyerNext
  <2>. QED BY <2>1, <2>2, <2>3, <2>4 DEF Next
<1>. QED BY <1>1, <1>2, PTL DEF Spec

-----------------------------------------------------------------------------
\* A value that fits a word is not changed by the conversion to one.
LEMMA ModuloExact ==
    ASSUME NEW n \in 0 .. WordSize - 1
    PROVE  n % WordSize = n
BY WordPositive

\* There are finitely many workers at any set of control points.
LEMMA WorkersAtFinite ==
    ASSUME NEW P
    PROVE  /\ IsFiniteSet(WorkersAt(P))
           /\ Cardinality(WorkersAt(P)) \in Nat
           /\ Cardinality(WorkersAt(P)) <= Cardinality(Workers)
BY GoalsAssumption, FS_Subset, FS_CardinalityType DEF WorkersAt

\* One worker moving on changes the number of workers at a set of control points
\* by at most one, up when it enters the set and down when it leaves.
LEMMA MoveWorker ==
    ASSUME NEW P, NEW w \in Workers, NEW to,
           wpc \in [Workers -> WorkerPC], wpc' = [wpc EXCEPT ![w] = to]
    PROVE  /\ (wpc[w] \in P <=> to \in P) => WorkersAt(P)' = WorkersAt(P)
           /\ wpc[w] \notin P /\ to \in P =>
                Cardinality(WorkersAt(P)') = Cardinality(WorkersAt(P)) + 1
           /\ wpc[w] \in P /\ to \notin P =>
                Cardinality(WorkersAt(P)') = Cardinality(WorkersAt(P)) - 1
<1>1. ASSUME wpc[w] \in P <=> to \in P PROVE WorkersAt(P)' = WorkersAt(P)
  BY <1>1 DEF WorkersAt
<1>2. ASSUME wpc[w] \notin P, to \in P
      PROVE  Cardinality(WorkersAt(P)') = Cardinality(WorkersAt(P)) + 1
  <2>1. WorkersAt(P)' = WorkersAt(P) \cup {w} /\ w \notin WorkersAt(P)
    BY <1>2 DEF WorkersAt
  <2>. QED BY <2>1, WorkersAtFinite, FS_AddElement
<1>3. ASSUME wpc[w] \in P, to \notin P
      PROVE  Cardinality(WorkersAt(P)') = Cardinality(WorkersAt(P)) - 1
  <2>1. WorkersAt(P)' = WorkersAt(P) \ {w} /\ w \in WorkersAt(P)
    BY <1>3 DEF WorkersAt
  <2>. QED BY <2>1, WorkersAtFinite, FS_RemoveElement
<1>. QED BY <1>1, <1>2, <1>3

\* A step of Worker::run that crosses no counted point needs no counter update.
LEMMA SameCounters ==
    ASSUME TypeOK, CountersExact, NEW w \in Workers, NEW to,
           wpc' = [wpc EXCEPT ![w] = to],
           wpc[w] \in ActivePC <=> to \in ActivePC,
           wpc[w] \in FinishedPC <=> to \in FinishedPC,
           numActive' = numActive, numFinished' = numFinished
    PROVE  CountersExact'
BY MoveWorker DEF TypeOK, CountersExact

\* A worker that becomes active and increments numActiveWorker_ keeps the counters exact.
LEMMA ActiveUp ==
    ASSUME TypeOK, CountersExact, NEW w \in Workers, NEW to,
           wpc' = [wpc EXCEPT ![w] = to],
           wpc[w] \notin ActivePC, to \in ActivePC,
           wpc[w] \in FinishedPC <=> to \in FinishedPC,
           numActive' = (numActive + 1) % WordSize, numFinished' = numFinished
    PROVE  CountersExact'
<1>1. /\ Cardinality(WorkersAt(ActivePC)') = Cardinality(WorkersAt(ActivePC)) + 1
      /\ WorkersAt(FinishedPC)' = WorkersAt(FinishedPC)
  BY MoveWorker DEF TypeOK
<1>2. Cardinality(WorkersAt(ActivePC)') <= Cardinality(Workers)
  <2>1. WorkersAt(ActivePC)' \subseteq Workers
    BY DEF WorkersAt
  <2>. QED BY <2>1, GoalsAssumption, FS_Subset
<1>3. numActive + 1 \in 0 .. WordSize - 1
  BY <1>1, <1>2, WorkersAtFinite, SizeAssumption, GoalsAssumption, FS_CardinalityType
  DEF CountersExact
<1>. QED BY <1>1, <1>3, ModuloExact DEF CountersExact

\* A worker that ceases to be active and decrements numActiveWorker_ keeps them exact.
LEMMA ActiveDown ==
    ASSUME TypeOK, CountersExact, NEW w \in Workers, NEW to,
           wpc' = [wpc EXCEPT ![w] = to],
           wpc[w] \in ActivePC, to \notin ActivePC,
           wpc[w] \in FinishedPC <=> to \in FinishedPC,
           numActive' = (numActive - 1) % WordSize, numFinished' = numFinished
    PROVE  CountersExact'
<1>1. /\ Cardinality(WorkersAt(ActivePC)') = Cardinality(WorkersAt(ActivePC)) - 1
      /\ WorkersAt(FinishedPC)' = WorkersAt(FinishedPC)
  BY MoveWorker DEF TypeOK
<1>2. Cardinality(WorkersAt(ActivePC)') \in Nat
  <2>1. WorkersAt(ActivePC)' \subseteq Workers
    BY DEF WorkersAt
  <2>. QED BY <2>1, GoalsAssumption, FS_Subset, FS_CardinalityType
<1>3. numActive - 1 \in 0 .. WordSize - 1
  BY <1>1, <1>2, WordPositive DEF CountersExact, TypeOK
<1>. QED BY <1>1, <1>3, ModuloExact DEF CountersExact

\* A worker that finishes and increments numFinishedThreads_ keeps them exact, and
\* the increment does not wrap around.
LEMMA FinishedUp ==
    ASSUME TypeOK, CountersExact, NEW w \in Workers, NEW to,
           wpc' = [wpc EXCEPT ![w] = to],
           wpc[w] \notin FinishedPC, to \in FinishedPC,
           wpc[w] \in ActivePC <=> to \in ActivePC,
           numFinished' = (numFinished + 1) % WordSize, numActive' = numActive
    PROVE  CountersExact' /\ numFinished' = numFinished + 1
<1>1. /\ Cardinality(WorkersAt(FinishedPC)') = Cardinality(WorkersAt(FinishedPC)) + 1
      /\ WorkersAt(ActivePC)' = WorkersAt(ActivePC)
  BY MoveWorker DEF TypeOK
<1>2. Cardinality(WorkersAt(FinishedPC)') <= Cardinality(Workers)
  <2>1. WorkersAt(FinishedPC)' \subseteq Workers
    BY DEF WorkersAt
  <2>. QED BY <2>1, GoalsAssumption, FS_Subset
<1>3. numFinished + 1 \in 0 .. WordSize - 1
  BY <1>1, <1>2, WorkersAtFinite, SizeAssumption, GoalsAssumption, FS_CardinalityType
  DEF CountersExact
<1>. QED BY <1>1, <1>3, ModuloExact DEF CountersExact

\* A step that moves no worker and changes no counter keeps them exact.
LEMMA WpcUnchanged ==
    ASSUME CountersExact, wpc' = wpc, numActive' = numActive, numFinished' = numFinished
    PROVE  CountersExact'
BY DEF CountersExact, WorkersAt

\* No step of a caller, a worker or the destructor makes a counter inexact.
LEMMA CountersStep ==
    ASSUME TypeOK, CountersExact, [Next]_vars
    PROVE  CountersExact'
<1> USE DEF poolVars, localVars, runnerVars, history, destroyVars
<1>1. CASE UNCHANGED vars
  BY <1>1, WpcUnchanged DEF vars
<1>2. ASSUME NEW g \in Goals, CallerNext(g) PROVE CountersExact'
  <2> USE DEF allButCpc
  <2>1. CASE PushEnqueue(g) \/ PushCount(g)
    BY <2>1, WpcUnchanged DEF PushEnqueue, PushCount
  <2>2. CASE PushSpawn(g)
    <3>1. CASE MayAddWorker
      <4>1. PICK w \in Workers : WorkerGoes(w, "absent", "init")
        BY <2>2, <3>1 DEF PushSpawn
      <4>. QED
        BY <2>2, <4>1, SameCounters DEF PushSpawn, WorkerGoes, ActivePC, FinishedPC
    <3>2. CASE ~MayAddWorker
      BY <2>2, <3>2, WpcUnchanged DEF PushSpawn
    <3>. QED BY <3>1, <3>2
  <2>3. CASE PushNotify(g)
    <3>1. CASE WorkersAt({"waiting"}) = {}
      BY <2>3, <3>1, WpcUnchanged DEF PushNotify
    <3>2. CASE WorkersAt({"waiting"}) # {}
      <4>1. PICK w \in Workers : WorkerGoes(w, "waiting", "relock")
        BY <2>3, <3>2 DEF PushNotify
      <4>. QED
        BY <2>3, <4>1, SameCounters DEF PushNotify, WorkerGoes, ActivePC, FinishedPC
    <3>. QED BY <3>1, <3>2
  <2>4. CASE JoinReturnsAtOnce(g) \/ JoinStarts(g) \/ JoinPredicate(g)
             \/ JoinSleeps(g) \/ Release(g)
    BY <2>4, WpcUnchanged
    DEF JoinReturnsAtOnce, JoinStarts, JoinPredicate, JoinSleeps, Release
  <2>. QED BY <1>2, <2>1, <2>2, <2>3, <2>4 DEF CallerNext
<1>3. ASSUME NEW w \in Workers, WorkerStep(w) \/ SpuriousWakeup(w) PROVE CountersExact'
  <2> USE DEF WorkerGoes, ActivePC, FinishedPC, allButWpc
  <2>1. CASE InitializeWorker(w)
    BY <2>1, SameCounters DEF InitializeWorker
  <2>2. CASE InitializeFails(w)
    BY <2>2, FinishedUp DEF InitializeFails
  <2>3. CASE Activate(w)
    BY <2>3, ActiveUp DEF Activate
  <2>4. CASE LockForWork(w)
    BY <2>4, ActiveDown DEF LockForWork
  <2>5. CASE Wake(w)
    BY <2>5, ActiveUp DEF Wake
  <2>6. CASE FinishWorker(w)
    BY <2>6, FinishedUp DEF FinishWorker
  <2>7. CASE DeactivateWorker(w)
    BY <2>7, ActiveDown DEF DeactivateWorker
  <2>8. CASE LoopExit(w)
    BY <2>8, SameCounters DEF LoopExit
  <2>9. CASE DecideToSleep(w)
    BY <2>9, SameCounters DEF DecideToSleep
  <2>10. CASE FallAsleep(w)
    BY <2>10, SameCounters DEF FallAsleep
  <2>11. CASE Relock(w)
    BY <2>11, SameCounters DEF Relock
  <2>12. CASE CheckRequest(w)
    BY <2>12, SameCounters DEF CheckRequest
  <2>13. CASE PopWork(w)
    BY <2>13, SameCounters DEF PopWork
  <2>14. CASE RunReturns(w)
    BY <2>14, SameCounters DEF RunReturns
  <2>15. CASE RunThrows(w)
    BY <2>15, SameCounters DEF RunThrows
  <2>16. CASE HandlerReturns(w)
    BY <2>16, SameCounters DEF HandlerReturns
  <2>17. CASE SetTerminated(w)
    BY <2>17, SameCounters DEF SetTerminated
  <2>18. CASE NotifyFinished(w)
    BY <2>18, SameCounters DEF NotifyFinished
  <2>19. CASE SpuriousWakeup(w)
    BY <2>19, SameCounters DEF SpuriousWakeup
  <2>. QED
    BY <1>3, <2>1, <2>2, <2>3, <2>4, <2>5, <2>6, <2>7, <2>8, <2>9, <2>10, <2>11, <2>12, <2>13, <2>14, <2>15, <2>16, <2>17, <2>18, <2>19 DEF WorkerStep
<1>4. CASE DestroyerNext
  <2>1. CASE NotifyWorkers
    <3>1. WorkersAt(ActivePC)' = WorkersAt(ActivePC)
      BY <2>1 DEF NotifyWorkers, WorkersAt, ActivePC, TypeOK
    <3>2. WorkersAt(FinishedPC)' = WorkersAt(FinishedPC)
      BY <2>1 DEF NotifyWorkers, WorkersAt, FinishedPC, TypeOK
    <3>. QED BY <2>1, <3>1, <3>2 DEF NotifyWorkers, CountersExact
  <2>2. ASSUME NEW w \in Workers, JoinWorker(w) PROVE CountersExact'
    BY <2>2, SameCounters DEF JoinWorker, WorkerGoes, ActivePC, FinishedPC, allButWpc
  <2>3. ASSUME NEW w \in Workers, RequestTermination(w) \/ DeleteWorker(w)
        PROVE  CountersExact'
    BY <2>3, WpcUnchanged DEF RequestTermination, DeleteWorker
  <2>4. CASE DestroyBegins \/ ClearWorkers \/ DropGoal \/ DestroyEnds
    BY <2>4, WpcUnchanged DEF DestroyBegins, ClearWorkers, DropGoal, DestroyEnds, allButPool
  <2>. QED BY <1>4, <2>1, <2>2, <2>3, <2>4 DEF DestroyerNext
<1>. QED BY <1>1, <1>2, <1>3, <1>4 DEF Next

\* numActiveWorker_ and numFinishedThreads_, updated by every worker on its own and
\* partly without workMutex_, count exactly the active and the finished workers.
THEOREM CountersCorrect == Spec => []CountersExact
<1>1. Init => CountersExact
  <2>1. ASSUME Init PROVE WorkersAt(ActivePC) = {} /\ WorkersAt(FinishedPC) = {}
    BY <2>1 DEF Init, WorkersAt, ActivePC, FinishedPC
  <2>. QED BY <2>1, FS_EmptySet DEF Init, CountersExact
<1>2. TypeOK /\ CountersExact /\ [Next]_vars => CountersExact'
  BY CountersStep
<1>. QED BY <1>1, <1>2, TypeCorrect, PTL DEF Spec

-----------------------------------------------------------------------------
\* The workers created and the limit on those that are alive.
LimitInv == Membership /\ ThreadLimit

\* No step exceeds the thread limit: pushWork adds a worker only below it, and
\* failed or finished workers never come back.
LEMMA LimitStep ==
    ASSUME TypeOK, CountersExact, LimitInv, [Next]_vars
    PROVE  LimitInv'
<1> USE DEF poolVars, localVars, runnerVars, history, destroyVars
<1> DEFINE Alive == workerThreads \ WorkersAt(FinishedPC)
<1>1. IsFiniteSet(workerThreads) /\ IsFiniteSet(Alive)
  BY GoalsAssumption, FS_Subset DEF TypeOK
<1>2. ASSUME workerThreads' = workerThreads,
             WorkersAt(FinishedPC) \subseteq WorkersAt(FinishedPC)'
      PROVE  ThreadLimit'
  <2>1. Alive' \subseteq Alive
    BY <1>2
  <2>. QED BY <2>1, <1>1, FS_Subset, FS_CardinalityType, SizeAssumption DEF LimitInv, ThreadLimit
<1>3. ASSUME workerThreads' = workerThreads, wpc' = wpc PROVE LimitInv'
  BY <1>2, <1>3 DEF LimitInv, Membership, WorkersAt
<1>4. ASSUME NEW w \in Workers, NEW to, workerThreads' = workerThreads,
             wpc' = [wpc EXCEPT ![w] = to], wpc[w] # "absent", to # "absent",
             wpc[w] \in FinishedPC => to \in FinishedPC
      PROVE  LimitInv'
  BY <1>2, <1>4 DEF LimitInv, Membership, WorkersAt, TypeOK
<1>5. CASE UNCHANGED vars
  BY <1>5, <1>3 DEF vars
<1>6. ASSUME NEW g \in Goals, CallerNext(g) PROVE LimitInv'
  <2>1. CASE PushSpawn(g) /\ MayAddWorker
    <3>1. PICK w \in Workers : /\ WorkerGoes(w, "absent", "init")
                               /\ workerThreads' = workerThreads \cup {w}
      BY <2>1 DEF PushSpawn
    <3>2. Membership'
      BY <3>1 DEF LimitInv, Membership, WorkerGoes, TypeOK
    <3>3. /\ WorkersAt(FinishedPC)' = WorkersAt(FinishedPC)
          /\ w \notin workerThreads
      <4>1. WorkersAt(FinishedPC)' = WorkersAt(FinishedPC)
        <5>1. wpc' = [wpc EXCEPT ![w] = "init"] /\ wpc \in [Workers -> WorkerPC]
          BY <3>1 DEF WorkerGoes, TypeOK
        <5>2. wpc[w] \in FinishedPC <=> "init" \in FinishedPC
          BY <3>1 DEF WorkerGoes, FinishedPC
        <5>. QED BY <5>1, <5>2, MoveWorker
      <4>2. w \notin workerThreads
        BY <3>1 DEF WorkerGoes, LimitInv, Membership
      <4>. QED BY <4>1, <4>2
    <3>4. WorkersAt(FinishedPC) \subseteq workerThreads
      BY DEF LimitInv, Membership, WorkersAt, FinishedPC
    <3>5. Cardinality(Alive) = Cardinality(workerThreads) - Cardinality(WorkersAt(FinishedPC))
      <4>1. workerThreads \cap WorkersAt(FinishedPC) = WorkersAt(FinishedPC)
        BY <3>4
      <4>. QED BY <4>1, <1>1, FS_Difference
    <3>6. Cardinality(Alive) + 1 <= MaxNumThreads
      BY <2>1, <3>5, <1>1, FS_CardinalityType, SizeAssumption, WorkersAtFinite
      DEF MayAddWorker, CountersExact
    <3>7. Alive' = Alive \cup {w} /\ w \notin Alive
      BY <3>1, <3>3, <3>4
    <3>8. Cardinality(Alive') = Cardinality(Alive) + 1
      BY <3>7, <1>1, FS_AddElement
    <3>. QED BY <3>2, <3>6, <3>8 DEF LimitInv, ThreadLimit
  <2>2. CASE PushSpawn(g) /\ ~MayAddWorker
    BY <2>2, <1>3 DEF PushSpawn
  <2>3. CASE PushNotify(g)
    <3>1. CASE WorkersAt({"waiting"}) = {}
      BY <2>3, <3>1, <1>3 DEF PushNotify
    <3>2. CASE WorkersAt({"waiting"}) # {}
      BY <2>3, <3>2, <1>4 DEF PushNotify, WorkerGoes, FinishedPC
    <3>. QED BY <3>1, <3>2
  <2>4. CASE PushEnqueue(g) \/ PushCount(g)
    BY <2>4, <1>3 DEF PushEnqueue, PushCount
  <2>5. CASE JoinReturnsAtOnce(g) \/ JoinStarts(g) \/ JoinPredicate(g)
             \/ JoinSleeps(g) \/ Release(g)
    BY <2>5, <1>3
    DEF JoinReturnsAtOnce, JoinStarts, JoinPredicate, JoinSleeps, Release, allButCpc
  <2>. QED BY <1>6, <2>1, <2>2, <2>3, <2>4, <2>5 DEF CallerNext
<1>7. ASSUME NEW w \in Workers, WorkerStep(w) \/ SpuriousWakeup(w) PROVE LimitInv'
  <2> USE <1>4 DEF WorkerGoes, FinishedPC, allButWpc
  <2>1. CASE InitializeWorker(w) \/ InitializeFails(w) \/ Activate(w) \/ LoopExit(w)
    BY <2>1 DEF InitializeWorker, InitializeFails, Activate, LoopExit
  <2>2. CASE LockForWork(w) \/ Wake(w) \/ DecideToSleep(w) \/ FallAsleep(w)
             \/ SpuriousWakeup(w) \/ Relock(w)
    BY <2>2 DEF LockForWork, Wake, DecideToSleep, FallAsleep, SpuriousWakeup, Relock
  <2>3. CASE CheckRequest(w)
    BY <2>3 DEF CheckRequest
  <2>4. CASE PopWork(w)
    BY <2>4 DEF PopWork
  <2>5. CASE RunReturns(w) \/ RunThrows(w) \/ HandlerReturns(w) \/ SetTerminated(w)
             \/ NotifyFinished(w)
    BY <2>5 DEF RunReturns, RunThrows, HandlerReturns, SetTerminated, NotifyFinished
  <2>6. CASE FinishWorker(w) \/ DeactivateWorker(w)
    BY <2>6 DEF FinishWorker, DeactivateWorker
  <2>. QED BY <1>7, <2>1, <2>2, <2>3, <2>4, <2>5, <2>6 DEF WorkerStep
<1>8. CASE DestroyerNext
  <2>1. CASE NotifyWorkers
    <3>1. WorkersAt(FinishedPC)' = WorkersAt(FinishedPC)
      BY <2>1 DEF NotifyWorkers, WorkersAt, FinishedPC, TypeOK
    <3>2. Membership'
      BY <2>1 DEF NotifyWorkers, Membership, LimitInv
    <3>. QED BY <2>1, <3>1, <3>2, <1>2 DEF NotifyWorkers, LimitInv
  <2>2. ASSUME NEW w \in Workers, JoinWorker(w) PROVE LimitInv'
    BY <2>2, <1>4 DEF JoinWorker, WorkerGoes, FinishedPC, allButWpc
  <2>3. ASSUME NEW w \in Workers, RequestTermination(w) \/ DeleteWorker(w)
        PROVE  LimitInv'
    BY <2>3, <1>3 DEF RequestTermination, DeleteWorker
  <2>4. CASE DestroyBegins \/ ClearWorkers \/ DropGoal \/ DestroyEnds
    BY <2>4, <1>3 DEF DestroyBegins, ClearWorkers, DropGoal, DestroyEnds, allButPool
  <2>. QED BY <1>8, <2>1, <2>2, <2>3, <2>4 DEF DestroyerNext
<1>. QED BY <1>5, <1>6, <1>7, <1>8 DEF Next

\* At most maxNumThreads_ workers are alive, however pushes and failing
\* initializations interleave (pushWork); workerThreads_ holds those created.
THEOREM LimitCorrect == Spec => [](Membership /\ ThreadLimit)
<1>1. Init => LimitInv
  <2>1. ASSUME Init PROVE workerThreads \ WorkersAt(FinishedPC) = {}
    BY <2>1 DEF Init
  <2>. QED BY <2>1, FS_EmptySet, SizeAssumption DEF Init, LimitInv, Membership, ThreadLimit
<1>2. TypeOK /\ CountersExact /\ LimitInv /\ [Next]_vars => LimitInv'
  BY LimitStep
<1>3. LimitInv => Membership /\ ThreadLimit
  BY DEF LimitInv
<1>. QED BY <1>1, <1>2, <1>3, TypeCorrect, CountersCorrect, PTL DEF Spec

-----------------------------------------------------------------------------
\* workMutex_ is held by whoever is between locking and releasing it.
MutexHeld ==
    /\ \A g \in Goals : cpc[g] \in {"enqueued", "counted"} => workMutex = g
    /\ \A w \in Workers : wpc[w] \in {"pred", "sleep"} => workMutex = w

\* No worker is asked to stop while the pool is up, and it stays up as long as
\* a pushWork is in progress.
UpInv ==
    /\ \A g \in Goals : cpc[g] \in Pushing => pool = "up"
    /\ pool = "up" => \A w \in Workers : /\ ~hasTerminateRequest[w]
                                         /\ wpc[w] \notin {"exit", "decrement", "joined"}

\* Mutual exclusion, and what it means that the pool is up.
MutexInv == MutexHeld /\ UpInv

\* No step breaks mutual exclusion or asks a worker of a live pool to stop.
LEMMA MutexStep ==
    ASSUME TypeOK, MutexInv, [Next]_vars
    PROVE  MutexInv'
<1> USE GoalsAssumption
    DEF poolVars, localVars, runnerVars, history, destroyVars, MutexInv, MutexHeld,
        UpInv, Pushing
<1>1. CASE UNCHANGED vars
  BY <1>1 DEF vars
<1>2. ASSUME NEW g \in Goals, CallerNext(g) PROVE MutexInv'
  <2> USE DEF CallerGoes, TypeOK, allButCpc
  <2>1. CASE PushEnqueue(g)
    BY <2>1 DEF PushEnqueue
  <2>2. CASE PushCount(g)
    BY <2>2 DEF PushCount
  <2>3. CASE PushSpawn(g)
    <3>1. \A w \in Workers : wpc'[w] # wpc[w] => wpc'[w] = "init"
      BY <2>3 DEF PushSpawn, WorkerGoes
    <3>. QED BY <2>3, <3>1 DEF PushSpawn
  <2>4. CASE PushNotify(g)
    <3>1. \A w \in Workers : wpc'[w] # wpc[w] => wpc'[w] = "relock"
      BY <2>4 DEF PushNotify, WorkerGoes
    <3>. QED BY <2>4, <3>1 DEF PushNotify
  <2>5. CASE JoinReturnsAtOnce(g) \/ JoinStarts(g) \/ JoinPredicate(g)
             \/ JoinSleeps(g) \/ Release(g)
    BY <2>5 DEF JoinReturnsAtOnce, JoinStarts, JoinPredicate, JoinSleeps, Release
  <2>. QED BY <1>2, <2>1, <2>2, <2>3, <2>4, <2>5 DEF CallerNext
<1>3. ASSUME NEW w \in Workers, WorkerStep(w) \/ SpuriousWakeup(w) PROVE MutexInv'
  <2> USE DEF WorkerGoes, TypeOK, allButWpc
  <2>1. CASE InitializeWorker(w) \/ InitializeFails(w) \/ Activate(w) \/ LoopExit(w)
    BY <2>1 DEF InitializeWorker, InitializeFails, Activate, LoopExit
  <2>2. CASE LockForWork(w) \/ Wake(w)
    BY <2>2 DEF LockForWork, Wake
  <2>3. CASE DecideToSleep(w) \/ FallAsleep(w) \/ SpuriousWakeup(w) \/ Relock(w)
    <3>1. CASE DecideToSleep(w)
      BY <3>1 DEF DecideToSleep
    <3>2. CASE FallAsleep(w)
      BY <3>2 DEF FallAsleep
    <3>3. CASE SpuriousWakeup(w)
      BY <3>3 DEF SpuriousWakeup
    <3>4. CASE Relock(w)
      BY <3>4 DEF Relock
    <3>. QED BY <2>3, <3>1, <3>2, <3>3, <3>4
  <2>4. CASE CheckRequest(w) \/ PopWork(w)
    BY <2>4 DEF CheckRequest, PopWork
  <2>5. CASE RunReturns(w) \/ RunThrows(w) \/ HandlerReturns(w) \/ SetTerminated(w)
    BY <2>5 DEF RunReturns, RunThrows, HandlerReturns, SetTerminated
  <2>6. CASE NotifyFinished(w)
    BY <2>6 DEF NotifyFinished
  <2>7. CASE FinishWorker(w) \/ DeactivateWorker(w)
    BY <2>7 DEF FinishWorker, DeactivateWorker
  <2>. QED BY <1>3, <2>1, <2>2, <2>3, <2>4, <2>5, <2>6, <2>7 DEF WorkerStep
<1>4. CASE DestroyerNext
  <2> USE DEF TypeOK, allButPool
  <2>1. CASE NotifyWorkers
    BY <2>1 DEF NotifyWorkers
  <2>2. ASSUME NEW w \in Workers,
               JoinWorker(w) \/ RequestTermination(w) \/ DeleteWorker(w)
        PROVE  MutexInv'
    BY <2>2 DEF JoinWorker, RequestTermination, DeleteWorker, WorkerGoes, allButWpc
  <2>3. CASE DestroyBegins \/ ClearWorkers \/ DropGoal \/ DestroyEnds
    BY <2>3 DEF DestroyBegins, ClearWorkers, DropGoal, DestroyEnds
  <2>. QED BY <1>4, <2>1, <2>2, <2>3 DEF DestroyerNext
<1>. QED BY <1>1, <1>2, <1>3, <1>4 DEF Next

\* workMutex_ is held between its lock and release by one thread only, and a pool
\* that is not being destroyed keeps its workers in the loop of Worker::run.
THEOREM MutexCorrect == Spec => []MutexInv
<1>1. Init => MutexInv
  BY DEF Init, MutexInv, MutexHeld, UpInv, Pushing
<1>2. TypeOK /\ MutexInv /\ [Next]_vars => MutexInv'
  BY MutexStep
<1>. QED BY <1>1, <1>2, TypeCorrect, PTL DEF Spec

-----------------------------------------------------------------------------
\* No more workers have finished than were created.
LEMMA FinishedBound ==
    ASSUME TypeOK, CountersExact, Membership
    PROVE  /\ numFinished <= Cardinality(workerThreads)
           /\ Cardinality(workerThreads) <= Cardinality(Workers)
<1>1. IsFiniteSet(workerThreads) /\ Cardinality(workerThreads) <= Cardinality(Workers)
  BY GoalsAssumption, FS_Subset DEF TypeOK
<1>2. WorkersAt(FinishedPC) \subseteq workerThreads
  BY DEF Membership, WorkersAt, FinishedPC
<1>. QED BY <1>1, <1>2, FS_Subset DEF CountersExact

\* While the pool is up no worker is counted both as active and as finished, so the
\* sum of the counters is bounded by workerThreads_.size().
LEMMA ActiveBound ==
    ASSUME TypeOK, CountersExact, Membership, UpInv, pool = "up"
    PROVE  numActive + numFinished <= Cardinality(workerThreads)
<1>1. WorkersAt(ActivePC) \cap WorkersAt(FinishedPC) = {}
  BY DEF UpInv, WorkersAt, ActivePC, FinishedPC
<1>2. WorkersAt(ActivePC) \cup WorkersAt(FinishedPC) \subseteq workerThreads
  BY DEF Membership, WorkersAt, ActivePC, FinishedPC
<1>3. IsFiniteSet(workerThreads)
  BY GoalsAssumption, FS_Subset DEF TypeOK
<1>4. Cardinality(WorkersAt(ActivePC) \cup WorkersAt(FinishedPC))
        = Cardinality(WorkersAt(ActivePC)) + Cardinality(WorkersAt(FinishedPC))
  BY <1>1, WorkersAtFinite, FS_Union, FS_EmptySet
<1>5. Cardinality(WorkersAt(ActivePC) \cup WorkersAt(FinishedPC))
        <= Cardinality(workerThreads)
  BY <1>2, <1>3, FS_Subset
<1>. QED BY <1>4, <1>5 DEF CountersExact

\* What pushWork has read stays an upper bound while it holds workMutex_:
\* workers may only have finished since.
CountInv ==
    \A g \in Goals :
        /\ cpc[g] \in {"enqueued", "counted"} =>
              /\ Cardinality(workerThreads) <= numAlive + numFinished
              /\ numAlive <= Cardinality(workerThreads)
        /\ cpc[g] = "counted" => numAvailable <= Cardinality(workerThreads)

\* Workers only ever increment numFinishedThreads_.
LEMMA FinishedGrows ==
    ASSUME TypeOK, CountersExact, NEW w \in Workers, WorkerStep(w) \/ SpuriousWakeup(w)
    PROVE  numFinished' >= numFinished
<1>1. CASE InitializeFails(w) \/ FinishWorker(w)
  <2>1. PICK to : /\ wpc' = [wpc EXCEPT ![w] = to]
                  /\ wpc[w] \notin FinishedPC /\ to \in FinishedPC
                  /\ wpc[w] \in ActivePC <=> to \in ActivePC
                  /\ numFinished' = (numFinished + 1) % WordSize /\ numActive' = numActive
    BY <1>1 DEF InitializeFails, FinishWorker, WorkerGoes, FinishedPC, ActivePC
  <2>2. numFinished' = numFinished + 1
    BY <2>1, FinishedUp
  <2>. QED BY <2>2 DEF TypeOK
<1>2. CASE numFinished' = numFinished
  BY <1>2 DEF TypeOK
<1>. QED
  BY <1>1, <1>2
  DEF WorkerStep, InitializeWorker, Activate, LoopExit, LockForWork, Wake, DecideToSleep,
      FallAsleep, Relock, SpuriousWakeup, CheckRequest, PopWork, RunReturns, RunThrows,
      HandlerReturns, SetTerminated, NotifyFinished, DeactivateWorker, allButWpc, poolVars

\* What a pushWork has read of the counters remains an upper bound until it
\* releases the mutex, whatever the workers do in between.
LEMMA CountStep ==
    ASSUME TypeOK, CountersExact, Membership, MutexInv, CountInv, [Next]_vars
    PROVE  CountInv'
<1> USE DEF poolVars, localVars, runnerVars, history, destroyVars
<1>1. /\ Cardinality(workerThreads) \in Nat /\ numAlive \in Nat /\ numAvailable \in Nat
      /\ numActive \in Nat /\ numFinished \in Nat
  BY CountType, WordPositive DEF TypeOK
<1>2. ASSUME workerThreads' = workerThreads, numAlive' = numAlive,
             numAvailable' = numAvailable, numFinished' >= numFinished,
             numFinished' \in Int,
             \A g \in Goals : cpc'[g] \in {"enqueued", "counted"} => cpc'[g] = cpc[g]
      PROVE  CountInv'
  BY <1>1, <1>2 DEF CountInv
<1>3. CASE UNCHANGED vars
  BY <1>1, <1>2, <1>3 DEF vars
<1>4. ASSUME NEW g \in Goals, CallerNext(g) PROVE CountInv'
  <2> USE GoalsAssumption DEF CallerGoes
  <2>1. CASE PushEnqueue(g)
    <3>1. \A h \in Goals \ {g} : cpc'[h] \notin {"enqueued", "counted"}
      BY <2>1 DEF PushEnqueue, MutexInv, MutexHeld, TypeOK
    <3>2. cpc'[g] = "enqueued" /\ workerThreads' = workerThreads /\ numFinished' = numFinished
      BY <2>1 DEF PushEnqueue, TypeOK
    <3>3. Cardinality(workerThreads) - numFinished \in 0 .. WordSize - 1
      BY <1>1, FinishedBound, SizeAssumption, FS_CardinalityType
    <3>4. numAlive' = Cardinality(workerThreads) - numFinished
      BY <2>1, <3>3, ModuloExact DEF PushEnqueue
    <3>. QED BY <1>1, <3>1, <3>2, <3>4 DEF CountInv
  <2>2. CASE PushCount(g)
    <3>1. \A h \in Goals \ {g} : cpc'[h] \notin {"enqueued", "counted"}
      BY <2>2 DEF PushCount, MutexInv, MutexHeld, TypeOK
    <3>2. /\ cpc[g] = "enqueued" /\ cpc'[g] = "counted" /\ workerThreads' = workerThreads
          /\ numFinished' = numFinished /\ numAlive' = numAlive
      BY <2>2 DEF PushCount, TypeOK
    <3>3. numActive + numFinished <= Cardinality(workerThreads)
      BY <3>2, ActiveBound DEF MutexInv, UpInv, Pushing
    <3>4. numAlive - numActive \in 0 .. WordSize - 1
      <4>1. Cardinality(workerThreads) <= numAlive + numFinished
        BY <3>2 DEF CountInv
      <4>2. numAlive <= WordSize - 1
        BY WordPositive DEF TypeOK
      <4>. QED BY <1>1, <3>3, <4>1, <4>2, WordPositive
    <3>5. numAvailable' = numAlive - numActive
      BY <2>2, <3>4, ModuloExact DEF PushCount
    <3>. QED BY <1>1, <3>1, <3>2, <3>5 DEF CountInv
  <2>3. CASE PushSpawn(g)
    <3>1. \A h \in Goals : cpc'[h] \notin {"enqueued", "counted"}
      BY <2>3 DEF PushSpawn, MutexInv, MutexHeld, TypeOK
    <3>. QED BY <3>1 DEF CountInv
  <2>4. CASE PushNotify(g)
    BY <1>1, <1>2, <2>4 DEF PushNotify, TypeOK
  <2>5. CASE JoinReturnsAtOnce(g) \/ JoinStarts(g) \/ JoinPredicate(g)
             \/ JoinSleeps(g) \/ Release(g)
    BY <1>1, <1>2, <2>5
    DEF JoinReturnsAtOnce, JoinStarts, JoinPredicate, JoinSleeps, Release, allButCpc, TypeOK
  <2>. QED BY <1>4, <2>1, <2>2, <2>3, <2>4, <2>5 DEF CallerNext
<1>5. ASSUME NEW w \in Workers, WorkerStep(w) \/ SpuriousWakeup(w) PROVE CountInv'
  <2>1. numFinished' >= numFinished
    BY <1>5, FinishedGrows
  <2>2. numFinished' \in Int
    <3>1. numFinished + 1 \in Int /\ (numFinished + 1) % WordSize \in Int
      BY <1>1, Modulo
    <3>. QED BY ONLY <1>1, <1>5, <3>1
    DEF poolVars, WorkerStep, InitializeWorker, InitializeFails, Activate, LoopExit, LockForWork,
        Wake, DecideToSleep, FallAsleep, Relock, SpuriousWakeup, CheckRequest, PopWork,
        RunReturns, RunThrows, HandlerReturns, SetTerminated, NotifyFinished, FinishWorker,
        DeactivateWorker, allButWpc
  <2>3. /\ workerThreads' = workerThreads /\ numAlive' = numAlive
        /\ numAvailable' = numAvailable
    BY <1>5
    DEF WorkerStep, InitializeWorker, InitializeFails, Activate, LoopExit, LockForWork,
        Wake, DecideToSleep, FallAsleep, Relock, SpuriousWakeup, CheckRequest, PopWork,
        RunReturns, RunThrows, HandlerReturns, SetTerminated, NotifyFinished, FinishWorker,
        DeactivateWorker, allButWpc
  <2>4. \A g \in Goals : cpc'[g] \in {"enqueued", "counted"} => cpc'[g] = cpc[g]
    <3>1. CASE NotifyFinished(w)
      BY <3>1 DEF NotifyFinished, TypeOK
    <3>2. CASE cpc' = cpc
      BY <3>2
    <3>. QED
      BY <1>5, <3>1, <3>2
      DEF WorkerStep, InitializeWorker, InitializeFails, Activate, LoopExit, LockForWork,
          Wake, DecideToSleep, FallAsleep, Relock, SpuriousWakeup, CheckRequest, PopWork,
          RunReturns, RunThrows, HandlerReturns, SetTerminated, FinishWorker,
          DeactivateWorker, allButWpc
  <2>. QED BY <1>2, <2>1, <2>2, <2>3, <2>4
<1>6. CASE DestroyerNext
  BY <1>1, <1>2, <1>6
  DEF DestroyerNext, NotifyWorkers, JoinWorker, RequestTermination, DeleteWorker,
      DestroyBegins, ClearWorkers, DropGoal, DestroyEnds, allButWpc, allButPool
<1>. QED BY <1>3, <1>4, <1>5, <1>6 DEF Next

\* The locals numAliveThreads and numAvailableThreads of a running pushWork are
\* upper bounds of what they stand for.
THEOREM CountCorrect == Spec => []CountInv
<1>1. Init => CountInv
  BY DEF Init, CountInv
<1>2. TypeOK /\ CountersExact /\ Membership /\ MutexInv /\ CountInv /\ [Next]_vars
        => CountInv'
  BY CountStep
<1>. QED
  BY <1>1, <1>2, TypeCorrect, CountersCorrect, LimitCorrect, MutexCorrect, PTL DEF Spec

\* The unsigned subtractions of pushWork (ThreadPool.cpp:49-50) never wrap around,
\* although the counters they read change in between without workMutex_.
THEOREM NoWrapAroundCorrect == Spec => []NoWrapAround
<1>1. TypeOK /\ CountersExact /\ Membership /\ MutexInv /\ CountInv => NoWrapAround
  <2> SUFFICES ASSUME TypeOK, CountersExact, Membership, MutexInv, CountInv,
                      NEW g \in Goals, cpc[g] = "counted"
               PROVE  numAvailable <= Cardinality(Workers) /\ numAlive >= numActive
    BY DEF NoWrapAround
  <2>1. /\ Cardinality(workerThreads) <= Cardinality(Workers)
        /\ numActive + numFinished <= Cardinality(workerThreads)
    BY FinishedBound, ActiveBound DEF MutexInv, UpInv, Pushing
  <2>2. /\ Cardinality(workerThreads) \in Nat /\ numAlive \in Nat /\ numAvailable \in Nat
        /\ numActive \in Nat /\ numFinished \in Nat /\ Cardinality(Workers) \in Nat
    BY CountType, WordPositive, GoalsAssumption, FS_CardinalityType DEF TypeOK
  <2>. QED BY <2>1, <2>2 DEF CountInv
<1>. QED
  BY <1>1, TypeCorrect, CountersCorrect, LimitCorrect, MutexCorrect, CountCorrect, PTL

-----------------------------------------------------------------------------
\* Moving the head of a queue to the end of a sequence keeps their concatenation.
LEMMA HeadConcat ==
    ASSUME NEW S, NEW s \in Seq(S), NEW q \in Seq(S), q # <<>>
    PROVE  Append(s, Head(q)) \o Tail(q) = s \o q
OBVIOUS

\* A push appends to the history and to the queue, a pop moves the head from the
\* queue to what has been started; nothing else touches them.
LEMMA FifoStep ==
    ASSUME TypeOK, FifoExactlyOnce, [Next]_vars
    PROVE  FifoExactlyOnce'
<1> USE DEF poolVars, localVars, runnerVars, history, destroyVars
<1>1. ASSUME workQueue' = workQueue, pushed' = pushed, started' = started,
             pool' \notin {"draining", "gone"} => pool \notin {"draining", "gone"}
      PROVE  FifoExactlyOnce'
  BY <1>1 DEF FifoExactlyOnce
<1>2. CASE UNCHANGED vars
  BY <1>1, <1>2 DEF vars
<1>3. ASSUME NEW g \in Goals, CallerNext(g) PROVE FifoExactlyOnce'
  <2>1. CASE PushEnqueue(g)
    <3>1. Append(started \o workQueue, g) = started \o Append(workQueue, g)
      <4>1. started \in Seq(Goals) /\ workQueue \in Seq(Goals) /\ <<g>> \in Seq(Goals)
        BY DEF TypeOK
      <4>2. Append(started \o workQueue, g) = (started \o workQueue) \o <<g>>
        BY <4>1, ConcatProperties, AppendIsConcat
      <4>3. started \o Append(workQueue, g) = started \o (workQueue \o <<g>>)
        BY <4>1, AppendIsConcat
      <4>. QED BY ONLY <4>1, <4>2, <4>3, ConcatAssociative
    <3>. QED BY <2>1, <3>1 DEF PushEnqueue, FifoExactlyOnce
  <2>2. CASE ~PushEnqueue(g)
    BY <1>1, <1>3, <2>2
    DEF CallerNext, PushCount, PushSpawn, PushNotify, JoinReturnsAtOnce, JoinStarts,
        JoinPredicate, JoinSleeps, Release, allButCpc
  <2>. QED BY <2>1, <2>2
<1>4. ASSUME NEW w \in Workers, WorkerStep(w) \/ SpuriousWakeup(w) PROVE FifoExactlyOnce'
  <2>1. CASE PopWork(w) /\ workQueue # <<>>
    <3>1. Append(started, Head(workQueue)) \o Tail(workQueue) = started \o workQueue
      BY <2>1, HeadConcat DEF TypeOK
    <3>. QED BY <2>1, <3>1 DEF PopWork, FifoExactlyOnce
  <2>2. CASE PopWork(w) /\ workQueue = <<>>
    BY <1>1, <2>2 DEF PopWork
  <2>3. CASE ~PopWork(w)
    BY <1>1, <1>4, <2>3
    DEF WorkerStep, InitializeWorker, InitializeFails, Activate, LoopExit, LockForWork,
        Wake, DecideToSleep, FallAsleep, Relock, SpuriousWakeup, CheckRequest,
        RunReturns, RunThrows, HandlerReturns, SetTerminated, NotifyFinished, FinishWorker,
        DeactivateWorker, allButWpc
  <2>. QED BY <2>1, <2>2, <2>3
<1>5. CASE DestroyerNext
  <2>1. CASE DropGoal
    BY <2>1 DEF DropGoal, FifoExactlyOnce
  <2>2. CASE ~DropGoal
    BY <1>1, <1>5, <2>2
    DEF DestroyerNext, NotifyWorkers, JoinWorker, RequestTermination, DeleteWorker,
        DestroyBegins, ClearWorkers, DestroyEnds, allButWpc, allButPool
  <2>. QED BY <2>1, <2>2
<1>. QED BY <1>2, <1>3, <1>4, <1>5 DEF Next

\* pushWork and popWork lose no goal, hand none out twice and keep the order, for
\* any number of callers and workers.
THEOREM FifoCorrect == Spec => []FifoExactlyOnce
<1>1. Init => FifoExactlyOnce
  BY DEF Init, FifoExactlyOnce
<1>2. TypeOK /\ FifoExactlyOnce /\ [Next]_vars => FifoExactlyOnce'
  BY FifoStep
<1>. QED BY <1>1, <1>2, TypeCorrect, PTL DEF Spec

-----------------------------------------------------------------------------
\* A goal is in the queue once, or one worker executes it, or neither.
OneOwner ==
    /\ \A i, j \in 1 .. Len(workQueue) : workQueue[i] = workQueue[j] => i = j
    /\ \A i \in 1 .. Len(workQueue) : \A w \in Workers : goalOf[w] # workQueue[i]
    /\ \A v, w \in Workers : goalOf[v] = goalOf[w] /\ goalOf[v] # NoOne => v = w

\* What is known of a goal that has not been taken from the queue ...
Untouched(g) == ~isTerminated[g] /\ ~hasThrown[g]
\* ... and of one that a worker executes.
RunInv ==
    /\ \A g \in Goals : cpc[g] = "new" => Untouched(g)
    /\ \A i \in 1 .. Len(workQueue) : cpc[workQueue[i]] # "new" /\ Untouched(workQueue[i])
    /\ \A w \in Workers :
          /\ wpc[w] \in BusyPC => cpc[goalOf[w]] # "new"
          /\ wpc[w] = "run" => ~hasThrown[goalOf[w]]
          /\ wpc[w] \in {"run", "handler", "done"} => ~isTerminated[goalOf[w]]
          /\ wpc[w] \in {"done", "notify"} /\ hasThrown[goalOf[w]] => isHandled[goalOf[w]]
    /\ \A g \in Goals : isTerminated[g] /\ hasThrown[g] => isHandled[g]
    /\ \A g \in Goals : cpc[g] = "joined" => isTerminated[g]

\* The life of a goal.
GoalInv == OneOwner /\ RunInv

\* Every step keeps a goal with one owner, and its flags in the order in which
\* Runner::runInternal sets them.
LEMMA GoalStep ==
    ASSUME TypeOK, GoalInv, [Next]_vars
    PROVE  GoalInv'
<1> USE GoalsAssumption
    DEF poolVars, localVars, runnerVars, history, destroyVars, GoalInv, OneOwner, RunInv,
        Untouched, BusyPC
\* Steps that move a worker without touching goals.
<1>1. ASSUME NEW w \in Workers, NEW to, wpc' = [wpc EXCEPT ![w] = to],
             to \in {"run", "handler", "done", "notify"} => wpc[w] = to,
             workQueue' = workQueue, goalOf' = goalOf, cpc' = cpc, UNCHANGED runnerVars
      PROVE  GoalInv'
  BY <1>1 DEF TypeOK
\* Steps that move a caller.
<1>2. ASSUME NEW g \in Goals, NEW to, cpc' = [cpc EXCEPT ![g] = to], to # "new",
             to = "joined" => isTerminated[g],
             wpc' = wpc, workQueue' = workQueue, goalOf' = goalOf, UNCHANGED runnerVars
      PROVE  GoalInv'
  BY <1>2 DEF TypeOK
<1>3. ASSUME wpc' = wpc, workQueue' = workQueue, goalOf' = goalOf, cpc' = cpc,
             UNCHANGED runnerVars
      PROVE  GoalInv'
  BY <1>3
<1>4. CASE UNCHANGED vars
  BY <1>3, <1>4 DEF vars
<1>5. ASSUME NEW g \in Goals, CallerNext(g) PROVE GoalInv'
  <2>1. CASE PushEnqueue(g)
    <3>1. /\ cpc[g] = "new" /\ cpc' = [cpc EXCEPT ![g] = "enqueued"]
          /\ workQueue' = Append(workQueue, g)
          /\ wpc' = wpc /\ goalOf' = goalOf /\ UNCHANGED runnerVars
      BY <2>1 DEF PushEnqueue, CallerGoes
    <3>2. /\ Len(workQueue') = Len(workQueue) + 1
          /\ \A i \in 1 .. Len(workQueue) : workQueue'[i] = workQueue[i]
          /\ workQueue'[Len(workQueue) + 1] = g /\ Len(workQueue) \in Nat
      BY <3>1 DEF TypeOK
    <3>3. \A i \in 1 .. Len(workQueue) : workQueue[i] # g
      BY <3>1
    <3>4. \A w \in Workers : goalOf[w] # g
      BY <3>1 DEF TypeOK
    <3>5. OneOwner'
      BY <3>1, <3>2, <3>3, <3>4
    <3>6. RunInv'
      BY <3>1, <3>2, <3>3, <3>4 DEF TypeOK
    <3>. QED BY <3>5, <3>6
  <2>2. CASE PushCount(g) \/ JoinReturnsAtOnce(g) \/ JoinStarts(g) \/ JoinPredicate(g)
             \/ JoinSleeps(g) \/ Release(g)
    BY <1>2, <2>2
    DEF PushCount, JoinReturnsAtOnce, JoinStarts, JoinPredicate, JoinSleeps, Release,
        allButCpc, CallerGoes
  <2>3. CASE PushSpawn(g) \/ PushNotify(g)
    <3>1. \E to : to \notin {"new", "joined"} /\ cpc' = [cpc EXCEPT ![g] = to]
      BY <2>3 DEF PushSpawn, PushNotify, CallerGoes
    <3>2. workQueue' = workQueue /\ goalOf' = goalOf /\ UNCHANGED runnerVars
      BY <2>3 DEF PushSpawn, PushNotify
    <3>3. \A w \in Workers : wpc'[w] \in BusyPC => wpc'[w] = wpc[w]
      BY <2>3 DEF PushSpawn, PushNotify, WorkerGoes, TypeOK
    <3>. QED BY <3>1, <3>2, <3>3 DEF TypeOK
  <2>. QED BY <1>5, <2>1, <2>2, <2>3 DEF CallerNext
<1>6. ASSUME NEW w \in Workers, WorkerStep(w) \/ SpuriousWakeup(w) PROVE GoalInv'
  <2> USE DEF WorkerGoes, allButWpc
  <2>1. CASE PopWork(w)
    <3>1. CASE workQueue = <<>>
      BY <1>1, <2>1, <3>1 DEF PopWork
    <3>2. CASE workQueue # <<>>
      <4>1. /\ wpc' = [wpc EXCEPT ![w] = "run"] /\ wpc[w] = "pop"
            /\ goalOf' = [goalOf EXCEPT ![w] = Head(workQueue)]
            /\ workQueue' = Tail(workQueue) /\ cpc' = cpc /\ UNCHANGED runnerVars
        BY <2>1, <3>2 DEF PopWork
      <4>2. /\ Len(workQueue) \in Nat /\ Len(workQueue) > 0
            /\ Head(workQueue) = workQueue[1] /\ workQueue[1] \in Goals
            /\ Len(workQueue') = Len(workQueue) - 1
            /\ \A i \in 1 .. Len(workQueue') : workQueue'[i] = workQueue[i + 1]
        BY <3>2, <4>1 DEF TypeOK
      <4>3. \A i \in 1 .. Len(workQueue') : /\ i + 1 \in 1 .. Len(workQueue)
                                            /\ workQueue'[i] # workQueue[1]
        BY <4>2
      <4>4. OneOwner'
        <5>1. \A i, j \in 1 .. Len(workQueue') : workQueue'[i] = workQueue'[j] => i = j
          BY <4>2, <4>3
        <5>2. \A v \in Workers : goalOf'[v] = IF v = w THEN workQueue[1] ELSE goalOf[v]
          BY <4>1, <4>2 DEF TypeOK
        <5>3. \A v \in Workers : goalOf[v] # workQueue[1]
          BY <4>2
        <5>4. \A i \in 1 .. Len(workQueue') : \A v \in Workers : goalOf'[v] # workQueue'[i]
          BY <4>2, <4>3, <5>2
        <5>5. \A u, v \in Workers : goalOf'[u] = goalOf'[v] /\ goalOf'[u] # NoOne => u = v
          BY <5>2, <5>3
        <5>. QED BY <5>1, <5>4, <5>5
      <4>5. RunInv'
        BY <4>1, <4>2, <4>3 DEF TypeOK
      <4>. QED BY <4>4, <4>5
    <3>. QED BY <3>1, <3>2
  <2>2. CASE RunReturns(w) \/ RunThrows(w) \/ HandlerReturns(w) \/ SetTerminated(w)
    <3>1. goalOf[w] \in Goals /\ \A v \in Workers \ {w} : goalOf[v] # goalOf[w]
      BY <2>2 DEF RunReturns, RunThrows, HandlerReturns, SetTerminated, TypeOK
    <3>2. CASE RunReturns(w)
      BY <3>1, <3>2 DEF RunReturns, TypeOK
    <3>3. CASE RunThrows(w)
      BY <3>1, <3>3 DEF RunThrows, TypeOK
    <3>4. CASE HandlerReturns(w)
      BY <3>1, <3>4 DEF HandlerReturns, TypeOK
    <3>5. CASE SetTerminated(w)
      BY <3>1, <3>5 DEF SetTerminated, TypeOK
    <3>. QED BY <2>2, <3>2, <3>3, <3>4, <3>5
  <2>3. CASE NotifyFinished(w)
    <3>1. /\ wpc' = [wpc EXCEPT ![w] = "loop"]
          /\ goalOf' = [goalOf EXCEPT ![w] = NoOne]
          /\ workQueue' = workQueue /\ UNCHANGED runnerVars
      BY <2>3 DEF NotifyFinished
    <3>2. \A g \in Goals : /\ cpc'[g] = "joined" => cpc[g] = "joined"
                           /\ cpc'[g] = "new" <=> cpc[g] = "new"
      BY <2>3 DEF NotifyFinished, TypeOK
    <3>3. OneOwner'
      BY <3>1 DEF TypeOK
    <3>4. RunInv'
      BY <3>1, <3>2 DEF TypeOK
    <3>. QED BY <3>3, <3>4
  <2>4. CASE InitializeWorker(w) \/ InitializeFails(w) \/ Activate(w) \/ LoopExit(w)
    BY <1>1, <2>4 DEF InitializeWorker, InitializeFails, Activate, LoopExit
  <2>5. CASE LockForWork(w) \/ Wake(w) \/ DecideToSleep(w) \/ FallAsleep(w)
    BY <1>1, <2>5 DEF LockForWork, Wake, DecideToSleep, FallAsleep
  <2>6. CASE SpuriousWakeup(w) \/ Relock(w) \/ FinishWorker(w) \/ DeactivateWorker(w)
    BY <1>1, <2>6 DEF SpuriousWakeup, Relock, FinishWorker, DeactivateWorker
  <2>7. CASE CheckRequest(w)
    BY <1>1, <2>7 DEF CheckRequest
  <2>. QED BY <1>6, <2>1, <2>2, <2>3, <2>4, <2>5, <2>6, <2>7 DEF WorkerStep
<1>7. CASE DestroyerNext
  <2>1. CASE NotifyWorkers
    <3>1. \A w \in Workers : wpc'[w] \in BusyPC => wpc'[w] = wpc[w]
      BY <2>1 DEF NotifyWorkers, TypeOK
    <3>. QED BY <2>1, <3>1 DEF NotifyWorkers, TypeOK
  <2>2. ASSUME NEW w \in Workers, JoinWorker(w) PROVE GoalInv'
    BY <1>1, <2>2 DEF JoinWorker, WorkerGoes, allButWpc
  <2>3. ASSUME NEW w \in Workers, RequestTermination(w) \/ DeleteWorker(w) PROVE GoalInv'
    BY <1>3, <2>3 DEF RequestTermination, DeleteWorker
  <2>4. CASE DropGoal
    <3>1. /\ Len(workQueue) \in Nat /\ Len(workQueue) > 0
          /\ Len(workQueue') = Len(workQueue) - 1
          /\ \A i \in 1 .. Len(workQueue') : workQueue'[i] = workQueue[i + 1]
      BY <2>4 DEF DropGoal, TypeOK
    <3>2. wpc' = wpc /\ goalOf' = goalOf /\ cpc' = cpc /\ UNCHANGED runnerVars
      BY <2>4 DEF DropGoal
    <3>3. \A i, j \in 1 .. Len(workQueue') : workQueue'[i] = workQueue'[j] => i = j
      BY <3>1
    <3>4. \A i \in 1 .. Len(workQueue') : \A w \in Workers : goalOf'[w] # workQueue'[i]
      BY <3>1, <3>2
    <3>5. \A i \in 1 .. Len(workQueue') :
             cpc'[workQueue'[i]] # "new" /\ ~isTerminated'[workQueue'[i]] /\ ~hasThrown'[workQueue'[i]]
      <4>1. \A i \in 1 .. Len(workQueue) : cpc[workQueue[i]] # "new" /\ Untouched(workQueue[i])
        BY DEF GoalInv, RunInv
      <4>. QED BY ONLY <3>1, <3>2, <4>1 DEF Untouched, runnerVars
    <3>6. OneOwner' /\ RunInv'
      BY <3>2, <3>3, <3>4, <3>5
    <3>. QED BY <3>6
  <2>5. CASE DestroyBegins \/ ClearWorkers \/ DestroyEnds
    BY <1>3, <2>5 DEF DestroyBegins, ClearWorkers, DestroyEnds, allButPool
  <2>. QED BY <1>7, <2>1, <2>2, <2>3, <2>4, <2>5 DEF DestroyerNext
<1>. QED BY <1>4, <1>5, <1>6, <1>7 DEF Next

\* Every goal is either queued once or executed by one worker or neither, and its
\* flags match how far that worker has come.
THEOREM GoalCorrect == Spec => []GoalInv
<1>1. Init => GoalInv
  BY DEF Init, GoalInv, OneOwner, RunInv, Untouched, BusyPC
<1>2. TypeOK /\ GoalInv /\ [Next]_vars => GoalInv'
  BY GoalStep
<1>. QED BY <1>1, <1>2, TypeCorrect, PTL DEF Spec

\* Runner::join returns only after the exception handler of the goal has returned:
\* runInternal sets isTerminated_ last.
THEOREM HandledCorrect == Spec => []HandledBeforeJoinReturns
<1>1. GoalInv => HandledBeforeJoinReturns
  BY DEF GoalInv, RunInv, HandledBeforeJoinReturns
<1>. QED BY <1>1, GoalCorrect, PTL
-----------------------------------------------------------------------------
\* Control points from which a worker of a running pool comes back to the queue.
ReadyPC == {"activate", "loop", "relock", "pred", "awake", "pop"} \cup BusyPC
NoPush == \A g \in Goals : cpc[g] \notin Pushing

\* Why no wakeup is lost. A worker decides to sleep only on an empty queue; ...
SleepInv == \A w \in Workers : wpc[w] = "sleep" => workQueue = <<>>
\* ... goals left in the queue and sleeping workers mean someone is on the way; ...
ReadyInv ==
    pool = "up" /\ workQueue # <<>> /\ NoPush
        => \/ \A w \in Workers : wpc[w] # "waiting"
           \/ \E w \in Workers : wpc[w] \in ReadyPC
\* ... and the first pushWork to get past its critical section adds a worker.
SpawnInv ==
    (\E g \in Goals : cpc[g] \notin {"new", "enqueued", "counted"}) => workerThreads # {}

\* A worker holds workMutex_ from the test of the predicate to falling asleep, so
\* no push gets in between (Worker::run, line 112).
LEMMA SleepStep ==
    ASSUME TypeOK, MutexInv, SleepInv, [Next]_vars
    PROVE  SleepInv'
<1> USE GoalsAssumption DEF poolVars, SleepInv
<1>1. ASSUME \A w \in Workers : wpc'[w] = "sleep" => wpc[w] = "sleep",
             workQueue' = workQueue \/ workQueue # <<>>
      PROVE  SleepInv'
  BY <1>1
<1>2. CASE UNCHANGED vars
  BY <1>1, <1>2 DEF vars
<1>3. ASSUME NEW g \in Goals, CallerNext(g) PROVE SleepInv'
  <2>1. CASE PushEnqueue(g)
    <3>1. \A w \in Workers : wpc'[w] # "sleep"
      BY <2>1 DEF PushEnqueue, MutexInv, MutexHeld
    <3>. QED BY <3>1
  <2>2. CASE PushSpawn(g) \/ PushNotify(g)
    BY <1>1, <2>2 DEF PushSpawn, PushNotify, WorkerGoes, TypeOK
  <2>3. CASE PushCount(g) \/ JoinReturnsAtOnce(g) \/ JoinStarts(g) \/ JoinPredicate(g)
             \/ JoinSleeps(g) \/ Release(g)
    BY <1>1, <2>3
    DEF PushCount, JoinReturnsAtOnce, JoinStarts, JoinPredicate, JoinSleeps, Release, allButCpc
  <2>. QED BY <1>3, <2>1, <2>2, <2>3 DEF CallerNext
<1>4. ASSUME NEW w \in Workers, WorkerStep(w) \/ SpuriousWakeup(w) PROVE SleepInv'
  <2> USE DEF WorkerGoes, TypeOK, allButWpc
  <2>1. CASE DecideToSleep(w)
    BY <2>1 DEF DecideToSleep, WakePredicate
  <2>2. CASE PopWork(w)
    BY <1>1, <2>2 DEF PopWork
  <2>3. CASE InitializeWorker(w) \/ InitializeFails(w) \/ Activate(w) \/ LoopExit(w)
             \/ LockForWork(w) \/ Wake(w)
    BY <1>1, <2>3
    DEF InitializeWorker, InitializeFails, Activate, LoopExit, LockForWork, Wake
  <2>4. CASE FallAsleep(w) \/ SpuriousWakeup(w) \/ Relock(w) \/ CheckRequest(w)
    BY <1>1, <2>4 DEF FallAsleep, SpuriousWakeup, Relock, CheckRequest
  <2>5. CASE RunReturns(w) \/ RunThrows(w) \/ HandlerReturns(w) \/ SetTerminated(w)
             \/ NotifyFinished(w) \/ FinishWorker(w) \/ DeactivateWorker(w)
    BY <1>1, <2>5
    DEF RunReturns, RunThrows, HandlerReturns, SetTerminated, NotifyFinished,
        FinishWorker, DeactivateWorker
  <2>. QED BY <1>4, <2>1, <2>2, <2>3, <2>4, <2>5 DEF WorkerStep
<1>5. CASE DestroyerNext
  BY <1>1, <1>5
  DEF DestroyerNext, NotifyWorkers, JoinWorker, RequestTermination, DeleteWorker, WorkerGoes,
      DestroyBegins, ClearWorkers, DropGoal, DestroyEnds, allButWpc, allButPool, TypeOK
<1>. QED BY <1>2, <1>3, <1>4, <1>5 DEF Next

\* notify_one comes after the goal is in the queue and the mutex is released, so it
\* finds the sleeping worker.
LEMMA ReadyStep ==
    ASSUME TypeOK, MutexInv, SleepInv, ReadyInv, [Next]_vars
    PROVE  ReadyInv'
<1> USE DEF poolVars, ReadyInv, ReadyPC, BusyPC, NoPush
<1>1. ASSUME pool' = pool, workQueue' = workQueue, NoPush' => NoPush,
             \A w \in Workers : wpc'[w] = "waiting" => wpc[w] = "waiting",
             \A w \in Workers : wpc[w] \in ReadyPC => wpc'[w] \in ReadyPC
      PROVE  ReadyInv'
  BY <1>1
<1>2. ASSUME NEW w \in Workers, wpc'[w] \in ReadyPC PROVE ReadyInv'
  BY <1>2
<1>3. CASE UNCHANGED vars
  BY <1>1, <1>3 DEF vars, destroyVars
<1>4. ASSUME NEW g \in Goals, CallerNext(g) PROVE ReadyInv'
  <2> USE DEF CallerGoes, Pushing, TypeOK
  <2>1. CASE PushEnqueue(g) \/ PushCount(g) \/ PushSpawn(g)
    <3>1. ~NoPush'
      BY <2>1 DEF PushEnqueue, PushCount, PushSpawn
    <3>. QED BY <3>1
  <2>2. CASE PushNotify(g)
    <3>1. CASE WorkersAt({"waiting"}) = {}
      BY <2>2, <3>1 DEF PushNotify, WorkersAt
    <3>2. CASE WorkersAt({"waiting"}) # {}
      BY <1>2, <2>2, <3>2 DEF PushNotify, WorkerGoes
    <3>. QED BY <3>1, <3>2
  <2>3. CASE JoinReturnsAtOnce(g) \/ JoinStarts(g) \/ JoinPredicate(g)
             \/ JoinSleeps(g) \/ Release(g)
    BY <1>1, <2>3
    DEF JoinReturnsAtOnce, JoinStarts, JoinPredicate, JoinSleeps, Release, allButCpc, destroyVars
  <2>. QED BY <1>4, <2>1, <2>2, <2>3 DEF CallerNext
<1>5. ASSUME NEW w \in Workers, WorkerStep(w) \/ SpuriousWakeup(w) PROVE ReadyInv'
  <2> USE DEF WorkerGoes, TypeOK, allButWpc, destroyVars
  <2>1. CASE InitializeFails(w)
    BY <1>1, <2>1 DEF InitializeFails
  <2>2. CASE DecideToSleep(w)
    BY <2>2 DEF DecideToSleep, WakePredicate
  <2>3. CASE FallAsleep(w)
    BY <2>3 DEF FallAsleep, SleepInv
  <2>4. CASE LoopExit(w) \/ FinishWorker(w) \/ DeactivateWorker(w)
    BY <2>4 DEF LoopExit, FinishWorker, DeactivateWorker, MutexInv, UpInv
  <2>5. CASE CheckRequest(w)
    <3>1. CASE pool = "up"
      BY <1>2, <2>5, <3>1 DEF CheckRequest, MutexInv, UpInv
    <3>2. CASE pool # "up"
      BY <2>5, <3>2 DEF CheckRequest
    <3>. QED BY <3>1, <3>2
  <2>6. CASE PopWork(w)
    BY <1>2, <2>6 DEF PopWork
  <2>7. CASE InitializeWorker(w) \/ Activate(w) \/ LockForWork(w) \/ Wake(w)
    BY <1>2, <2>7 DEF InitializeWorker, Activate, LockForWork, Wake
  <2>8. CASE SpuriousWakeup(w) \/ Relock(w) \/ RunReturns(w) \/ RunThrows(w)
    BY <1>2, <2>8 DEF SpuriousWakeup, Relock, RunReturns, RunThrows
  <2>9. CASE HandlerReturns(w) \/ SetTerminated(w) \/ NotifyFinished(w)
    BY <1>2, <2>9 DEF HandlerReturns, SetTerminated, NotifyFinished
  <2>. QED
    BY <1>5, <2>1, <2>2, <2>3, <2>4, <2>5, <2>6, <2>7, <2>8, <2>9 DEF WorkerStep
<1>6. CASE DestroyerNext
  <2>1. pool' # "up"
    BY <1>6
    DEF DestroyerNext, NotifyWorkers, JoinWorker, RequestTermination, DeleteWorker,
        DestroyBegins, ClearWorkers, DropGoal, DestroyEnds, allButWpc, destroyVars
  <2>. QED BY <2>1
<1>. QED BY <1>3, <1>4, <1>5, <1>6 DEF Next

\* With no worker created yet, pushWork computes no available thread and adds one.
LEMMA SpawnStep ==
    ASSUME MaxNumThreads > 0, TypeOK, CountersExact, Membership, CountInv, SpawnInv,
           [Next]_vars
    PROVE  SpawnInv'
<1> USE DEF poolVars, localVars, SpawnInv
<1>1. ASSUME workerThreads \subseteq workerThreads',
             \A g \in Goals : cpc'[g] \in {"new", "enqueued", "counted"}
                              <=> cpc[g] \in {"new", "enqueued", "counted"}
      PROVE  SpawnInv'
  BY <1>1
<1>2. CASE UNCHANGED vars
  BY <1>1, <1>2 DEF vars
<1>3. ASSUME NEW g \in Goals, CallerNext(g) PROVE SpawnInv'
  <2> USE DEF CallerGoes, TypeOK
  <2>1. CASE PushSpawn(g)
    <3>1. CASE workerThreads = {}
      <4>1. Cardinality(workerThreads) = 0
        BY <3>1, FS_EmptySet
      <4>2. numFinished = 0
        BY <4>1, FinishedBound
      <4>3. numAvailable = 0
        BY <2>1, <4>1 DEF PushSpawn, CountInv
      <4>4. MayAddWorker
        BY <4>1, <4>2, <4>3, SizeAssumption DEF MayAddWorker
      <4>. QED BY <2>1, <4>4 DEF PushSpawn
    <3>2. CASE workerThreads # {}
      BY <2>1, <3>2 DEF PushSpawn
    <3>. QED BY <3>1, <3>2
  <2>2. CASE PushEnqueue(g) \/ PushCount(g) \/ PushNotify(g)
    BY <1>1, <2>2 DEF PushEnqueue, PushCount, PushNotify
  <2>3. CASE JoinReturnsAtOnce(g) \/ JoinStarts(g) \/ JoinPredicate(g)
             \/ JoinSleeps(g) \/ Release(g)
    BY <1>1, <2>3
    DEF JoinReturnsAtOnce, JoinStarts, JoinPredicate, JoinSleeps, Release, allButCpc
  <2>. QED BY <1>3, <2>1, <2>2, <2>3 DEF CallerNext
<1>4. ASSUME NEW w \in Workers, WorkerStep(w) \/ SpuriousWakeup(w) PROVE SpawnInv'
  <2>1. CASE NotifyFinished(w)
    BY <1>1, <2>1 DEF NotifyFinished, TypeOK
  <2>2. CASE ~NotifyFinished(w)
    BY <1>1, <1>4, <2>2
    DEF WorkerStep, InitializeWorker, InitializeFails, Activate, LoopExit, LockForWork,
        Wake, DecideToSleep, FallAsleep, Relock, SpuriousWakeup, CheckRequest, PopWork,
        RunReturns, RunThrows, HandlerReturns, SetTerminated, FinishWorker,
        DeactivateWorker, allButWpc
  <2>. QED BY <2>1, <2>2
<1>5. CASE DestroyerNext
  BY <1>1, <1>5
  DEF DestroyerNext, NotifyWorkers, JoinWorker, RequestTermination, DeleteWorker,
      DestroyBegins, ClearWorkers, DropGoal, DestroyEnds, allButWpc, allButPool
<1>. QED BY <1>2, <1>3, <1>4, <1>5 DEF Next

\* While the pool is up no queued goal is left with all workers asleep, provided
\* the pool may have threads at all: the pools of KnowledgeBase.cpp:88 and
\* PrologReasoner.cpp:99 are created with hardware_concurrency() as their limit,
\* which may return 0, and then nothing pushed to them is ever run.
THEOREM NoLostWakeupCorrect ==
    ASSUME MaxNumThreads > 0
    PROVE  Spec => []NoLostWakeup
<1> DEFINE Known == TypeOK /\ CountersExact /\ Membership /\ MutexInv /\ CountInv /\ GoalInv
<1> DEFINE WakeInv == SleepInv /\ ReadyInv /\ SpawnInv
<1>1. Init => WakeInv
  BY DEF Init, SleepInv, ReadyInv, SpawnInv
<1>2. Known /\ WakeInv /\ [Next]_vars => WakeInv'
  BY SleepStep, ReadyStep, SpawnStep
<1>3. Known /\ WakeInv => NoLostWakeup
  <2> SUFFICES ASSUME Known, WakeInv, pool = "up", workQueue # <<>>, NoPush
               PROVE  \/ \E w \in workerThreads : wpc[w] \notin {"waiting", "exited"}
                      \/ AllWorkersFailed
    BY DEF NoLostWakeup, NoPush
  <2>1. workerThreads # {}
    <3>1. workQueue[1] \in Goals /\ cpc[workQueue[1]] # "new"
      BY DEF TypeOK, GoalInv, RunInv
    <3>. QED BY <3>1 DEF SpawnInv, NoPush, Pushing
  <2>2. CASE \A w \in Workers : wpc[w] # "waiting"
    BY <2>1, <2>2 DEF AllWorkersFailed, TypeOK
  <2>3. CASE \E w \in Workers : wpc[w] \in ReadyPC
    BY <2>3 DEF Membership, ReadyPC, BusyPC
  <2>. QED BY <2>2, <2>3 DEF ReadyInv
<1>4. Spec => []Known
  BY TypeCorrect, CountersCorrect, LimitCorrect, MutexCorrect, CountCorrect, GoalCorrect, PTL
<1>. QED BY <1>1, <1>2, <1>3, <1>4, PTL DEF Spec
-----------------------------------------------------------------------------
\* The goals that workers have taken are those they execute and those they
\* have finished.
Started(g) == \E i \in 1 .. Len(started) : started[i] = g
Executed(g) == \E w \in Workers : goalOf[w] = g
StartedInv ==
    /\ \A g \in Goals : Started(g) <=> isTerminated[g] \/ Executed(g)
    /\ \A w \in Workers : wpc[w] = "notify" => isTerminated[goalOf[w]]

\* The members of the pool are destroyed after all workers have been joined.
DrainInv == pool \in {"draining", "gone"} =>
                \A w \in Workers : wpc[w] \in {"absent", "joined"}

\* A goal enters "started" when a worker takes it, and the worker keeps it until it
\* has set isTerminated_.
LEMMA StartedStep ==
    ASSUME TypeOK, StartedInv, [Next]_vars
    PROVE  StartedInv'
<1> USE GoalsAssumption DEF poolVars, localVars, runnerVars, history, StartedInv, Started, Executed
<1>1. ASSUME started' = started, goalOf' = goalOf, isTerminated' = isTerminated,
             \A w \in Workers : wpc'[w] = "notify" => wpc[w] = "notify"
      PROVE  StartedInv'
  BY <1>1
<1>2. CASE UNCHANGED vars
  BY <1>1, <1>2 DEF vars
<1>3. ASSUME NEW g \in Goals, CallerNext(g) PROVE StartedInv'
  <2>1. CASE PushSpawn(g) \/ PushNotify(g)
    BY <1>1, <2>1 DEF PushSpawn, PushNotify, WorkerGoes, TypeOK
  <2>2. CASE ~(PushSpawn(g) \/ PushNotify(g))
    BY <1>1, <1>3, <2>2
    DEF CallerNext, PushEnqueue, PushCount, JoinReturnsAtOnce, JoinStarts, JoinPredicate,
        JoinSleeps, Release, allButCpc
  <2>. QED BY <2>1, <2>2
<1>4. ASSUME NEW w \in Workers, WorkerStep(w) \/ SpuriousWakeup(w) PROVE StartedInv'
  <2> USE DEF WorkerGoes, TypeOK, allButWpc, BusyPC
  <2>1. CASE PopWork(w)
    <3>1. CASE workQueue = <<>>
      BY <1>1, <2>1, <3>1 DEF PopWork
    <3>2. CASE workQueue # <<>>
      <4>1. /\ wpc[w] = "pop" /\ wpc' = [wpc EXCEPT ![w] = "run"]
            /\ goalOf' = [goalOf EXCEPT ![w] = Head(workQueue)]
            /\ started' = Append(started, Head(workQueue))
            /\ isTerminated' = isTerminated /\ Head(workQueue) \in Goals
        BY <2>1, <3>2 DEF PopWork
      <4>2. goalOf[w] = NoOne
        BY <4>1
      <4>3. \A g \in Goals : Started(g)' <=> Started(g) \/ g = Head(workQueue)
        BY <4>1, AppendProperties
      <4>4. \A g \in Goals : Executed(g)' <=> Executed(g) \/ g = Head(workQueue)
        BY <4>1, <4>2
      <4>5. \A v \in Workers : wpc'[v] = "notify" => isTerminated'[goalOf'[v]]
        BY <4>1
      <4>6. \A g \in Goals : Started(g) <=> isTerminated[g] \/ Executed(g)
        OBVIOUS
      <4>7. isTerminated' = isTerminated
        BY <4>1
      <4> HIDE DEF Started, Executed
      <4>. QED BY ONLY <4>3, <4>4, <4>5, <4>6, <4>7 DEF StartedInv
    <3>. QED BY <3>1, <3>2
  <2>2. CASE SetTerminated(w)
    <3>1. /\ wpc[w] = "done" /\ goalOf[w] \in Goals
          /\ wpc' = [wpc EXCEPT ![w] = "notify"] /\ goalOf' = goalOf
          /\ isTerminated' = [isTerminated EXCEPT ![goalOf[w]] = TRUE]
          /\ started' = started
      BY <2>2 DEF SetTerminated
    <3>2. \A v \in Workers : goalOf[v] \in Goals /\ isTerminated[goalOf[v]] => isTerminated'[goalOf[v]]
      BY <3>1
    <3>3. \A v \in Workers : wpc'[v] = "notify" => isTerminated'[goalOf'[v]]
      BY <3>1, <3>2
    <3>4. \A g \in Goals : Started(g)' <=> isTerminated'[g] \/ Executed(g)'
      BY <3>1
    <3>. QED BY <3>3, <3>4
  <2>3. CASE NotifyFinished(w)
    <3>1. /\ wpc[w] = "notify" /\ wpc' = [wpc EXCEPT ![w] = "loop"]
          /\ goalOf' = [goalOf EXCEPT ![w] = NoOne] /\ isTerminated[goalOf[w]]
          /\ isTerminated' = isTerminated /\ started' = started
      BY <2>3 DEF NotifyFinished
    <3>2. \A g \in Goals : Executed(g) <=> Executed(g)' \/ g = goalOf[w]
      BY <3>1
    <3>3. \A v \in Workers : wpc'[v] = "notify" => isTerminated'[goalOf'[v]]
      BY <3>1
    <3>. QED BY <3>1, <3>2, <3>3
  <2>4. CASE InitializeWorker(w) \/ InitializeFails(w) \/ Activate(w) \/ LoopExit(w)
             \/ LockForWork(w) \/ Wake(w) \/ DecideToSleep(w) \/ FallAsleep(w)
    BY <1>1, <2>4
    DEF InitializeWorker, InitializeFails, Activate, LoopExit, LockForWork, Wake,
        DecideToSleep, FallAsleep
  <2>5. CASE SpuriousWakeup(w) \/ Relock(w) \/ CheckRequest(w) \/ FinishWorker(w)
             \/ DeactivateWorker(w)
    BY <1>1, <2>5 DEF SpuriousWakeup, Relock, CheckRequest, FinishWorker, DeactivateWorker
  <2>6. CASE RunReturns(w) \/ RunThrows(w) \/ HandlerReturns(w)
    BY <1>1, <2>6 DEF RunReturns, RunThrows, HandlerReturns
  <2>. QED BY <1>4, <2>1, <2>2, <2>3, <2>4, <2>5, <2>6 DEF WorkerStep
<1>5. CASE DestroyerNext
  BY <1>1, <1>5
  DEF DestroyerNext, NotifyWorkers, JoinWorker, RequestTermination, DeleteWorker, WorkerGoes,
      DestroyBegins, ClearWorkers, DropGoal, DestroyEnds, allButWpc, allButPool, TypeOK
<1>. QED BY <1>2, <1>3, <1>4, <1>5 DEF Next

\* Once ~ThreadPool has joined the workers none of them moves and none is created.
LEMMA DrainStep ==
    ASSUME TypeOK, Membership, UpInv, DrainInv, [Next]_vars
    PROVE  DrainInv'
<1> USE DEF destroyVars, DrainInv
<1>1. ASSUME pool' = pool, wpc' = wpc PROVE DrainInv'
  BY <1>1
<1>2. CASE UNCHANGED vars
  BY <1>1, <1>2 DEF vars
<1>3. ASSUME NEW g \in Goals, CallerNext(g) PROVE DrainInv'
  <2>1. CASE PushSpawn(g) \/ PushNotify(g)
    BY <2>1 DEF PushSpawn, PushNotify, CallerGoes, UpInv, Pushing
  <2>2. CASE ~(PushSpawn(g) \/ PushNotify(g))
    BY <1>1, <1>3, <2>2
    DEF CallerNext, PushEnqueue, PushCount, JoinReturnsAtOnce, JoinStarts, JoinPredicate,
        JoinSleeps, Release, allButCpc
  <2>. QED BY <2>1, <2>2
<1>4. ASSUME NEW w \in Workers, WorkerStep(w) \/ SpuriousWakeup(w) PROVE DrainInv'
  <2>1. wpc[w] \notin {"absent", "joined"} /\ pool' = pool
    BY <1>4
    DEF WorkerStep, InitializeWorker, InitializeFails, Activate, LoopExit, LockForWork,
        Wake, DecideToSleep, FallAsleep, Relock, SpuriousWakeup, CheckRequest, PopWork,
        RunReturns, RunThrows, HandlerReturns, SetTerminated, NotifyFinished, FinishWorker,
        DeactivateWorker, WorkerGoes, allButWpc
  <2>. QED BY <2>1
<1>5. CASE DestroyerNext
  <2>1. CASE ClearWorkers
    BY <2>1 DEF ClearWorkers, allButPool, Membership
  <2>2. CASE ~ClearWorkers
    BY <1>1, <1>5, <2>2
    DEF DestroyerNext, NotifyWorkers, JoinWorker, RequestTermination, DeleteWorker,
        DestroyBegins, DropGoal, DestroyEnds, allButWpc, allButPool
  <2>. QED BY <2>1, <2>2
<1>. QED BY <1>2, <1>3, <1>4, <1>5 DEF Next

\* When ~ThreadPool destroys the queue and the mutex no worker can touch them any
\* more, and exactly the goals that were started have terminated.
THEOREM DestructionCorrect == Spec => []NothingRunsAfterDestruction
<1>1. Init => StartedInv /\ DrainInv
  BY GoalsAssumption DEF Init, StartedInv, DrainInv, Started, Executed
<1>2. TypeOK /\ Membership /\ MutexInv /\ StartedInv /\ DrainInv /\ [Next]_vars
        => StartedInv' /\ DrainInv'
  BY StartedStep, DrainStep DEF MutexInv
<1>3. TypeOK /\ StartedInv /\ DrainInv => NothingRunsAfterDestruction
  <2> SUFFICES ASSUME TypeOK, StartedInv, DrainInv, pool \in {"draining", "gone"}
               PROVE  /\ WorkersAt(WorkerPC \ {"absent", "joined"}) = {}
                      /\ \A g \in Goals : isTerminated[g] <=> Started(g)
    BY DEF NothingRunsAfterDestruction, Started
  <2>1. \A w \in Workers : wpc[w] \in {"absent", "joined"}
    BY DEF DrainInv
  <2>2. \A g \in Goals : ~Executed(g)
    BY <2>1, GoalsAssumption DEF Executed, TypeOK, BusyPC
  <2>. QED BY <2>1, <2>2 DEF StartedInv, WorkersAt
<1>. QED BY <1>1, <1>2, <1>3, TypeCorrect, LimitCorrect, MutexCorrect, PTL DEF Spec

-----------------------------------------------------------------------------
(* The calls of Prolog, whose goals the pool runs (PrologQueries.tla).       *)
(* allSolutions loses no exception and its frame outlives the handler, for   *)
(* any number of solutions. (oneSolution does not wait for the runner: the   *)
(* run of FailureIsRethrown shows what happens.)                             *)

CONSTANT MaxSolutions
VARIABLES goal, runner, outputStream, caller, strayWrite
Prolog == INSTANCE PrologQueries

\* What is known of the records.
PrologTyped ==
    /\ runner \in [pc : {"queued", "loop", "eos", "throw", "closing", "terminated"},
                   pushed : Nat, hasStopRequest : BOOLEAN, exceptionTerm : BOOLEAN]
    /\ caller \in [pc : {"begin", "join", "pop", "check", "done"},
                   results : Seq(Nat), exc : BOOLEAN, outcome : {"none", "thrown", "returned"}]
    /\ outputStream \in [queue : Seq(Nat), isOpened : BOOLEAN]
    /\ strayWrite \in BOOLEAN

\* The call is past join only when the runner has terminated, and a runner that has
\* failed terminates after its handler has assigned exc.
Waits ==
    goal.call = "allSolutions" =>
        /\ caller.pc \in {"pop", "check", "done"} => runner.pc = "terminated"
        /\ runner.exceptionTerm /\ runner.pc \in {"closing", "terminated"} => caller.exc
        /\ caller.outcome = "returned" => caller.pc = "done" /\ ~caller.exc
        /\ ~strayWrite

\* A runner that has not read an exception does not throw.
ReadsFirst == runner.exceptionTerm => runner.pc \in {"eos", "throw", "closing", "terminated"}

PrologInv == PrologTyped /\ Waits /\ ReadsFirst

LEMMA PrologInit == Prolog!Init => PrologInv
<1> SUFFICES ASSUME Prolog!Init PROVE PrologInv
  OBVIOUS
<1>1. <<>> \in Seq(Nat)
  OBVIOUS
<1>2. PrologTyped
  BY <1>1 DEF Prolog!Init, PrologTyped
<1>3. Waits
  BY DEF Prolog!Init, Waits
<1>4. ReadsFirst
  BY DEF Prolog!Init, ReadsFirst
<1> QED
  BY <1>2, <1>3, <1>4 DEF PrologInv

LEMMA WorkerKeepsProlog == PrologInv /\ Prolog!Worker => PrologInv'
<1> SUFFICES ASSUME PrologInv, Prolog!Worker PROVE PrologInv'
  OBVIOUS
<1> USE DEF PrologInv, PrologTyped, Waits, ReadsFirst, Prolog!Runs
<1>1. CASE Prolog!StartQuery
  BY <1>1 DEF Prolog!StartQuery
<1>2. CASE Prolog!PushSolution
  <2>0. runner.pushed + 1 \in Nat /\ Append(outputStream.queue, runner.pushed + 1) \in Seq(Nat)
    <3>1. runner.pushed + 1 \in Nat
      OBVIOUS
    <3>2. outputStream.queue \in Seq(Nat)
      OBVIOUS
    <3> QED
      BY <3>1, <3>2, AppendProperties
  <2>1. outputStream' \in [queue : Seq(Nat), isOpened : BOOLEAN]
    BY <1>2, <2>0 DEF Prolog!PushSolution
  <2>2. runner' \in [pc : {"queued", "loop", "eos", "throw", "closing", "terminated"},
                     pushed : Nat, hasStopRequest : BOOLEAN, exceptionTerm : BOOLEAN]
    BY <1>2, <2>0 DEF Prolog!PushSolution
  <2>3. runner.pc = "loop" /\ runner'.pc \in {"eos", "loop"}
        /\ runner'.exceptionTerm = runner.exceptionTerm /\ UNCHANGED <<goal, caller, strayWrite>>
    BY <1>2 DEF Prolog!PushSolution
  <2> QED
    BY <2>1, <2>2, <2>3
<1>3. CASE Prolog!EndQuery
  BY <1>3 DEF Prolog!EndQuery, Prolog!HasNext
<1>4. CASE Prolog!PushEOS
  <2>1. outputStream' \in [queue : Seq(Nat), isOpened : BOOLEAN]
    BY <1>4 DEF Prolog!PushEOS, Prolog!EOS
  <2>2. runner.pc = "eos" /\ runner' = [runner EXCEPT !.pc = IF runner.exceptionTerm
                                                             THEN "throw" ELSE "terminated"]
    BY <1>4 DEF Prolog!PushEOS
  <2>3. UNCHANGED <<goal, caller, strayWrite>>
    BY <1>4 DEF Prolog!PushEOS
  <2> QED
    BY <2>1, <2>2, <2>3
<1>5. CASE Prolog!HandleException
  BY <1>5 DEF Prolog!HandleException, Prolog!HasReturned
<1>6. CASE Prolog!HandlerCloses
  BY <1>6 DEF Prolog!HandlerCloses, Prolog!EOS
<1> QED
  BY <1>1, <1>2, <1>3, <1>4, <1>5, <1>6 DEF Prolog!Worker

LEMMA CallerKeepsProlog == PrologInv /\ Prolog!Caller => PrologInv'
<1> SUFFICES ASSUME PrologInv, Prolog!Caller PROVE PrologInv'
  OBVIOUS
<1> USE DEF PrologInv, PrologTyped, Waits, ReadsFirst, Prolog!Runs
<1>1. CASE Prolog!pushWork
  BY <1>1 DEF Prolog!pushWork
<1>2. CASE Prolog!join
  BY <1>2 DEF Prolog!join
<1>3. CASE Prolog!pop_front
  <2> DEFINE next == Head(outputStream.queue)
  <2>1. next \in Nat /\ Tail(outputStream.queue) \in Seq(Nat)
    BY <1>3 DEF Prolog!pop_front
  <2>2. outputStream' \in [queue : Seq(Nat), isOpened : BOOLEAN]
    BY <1>3, <2>1 DEF Prolog!pop_front
  <2>3. /\ caller' \in [pc : {"begin", "join", "pop", "check", "done"},
                        results : Seq(Nat), exc : BOOLEAN, outcome : {"none", "thrown", "returned"}]
        /\ caller.pc = "pop" /\ caller'.pc \in {"pop", "check"}
        /\ caller'.exc = caller.exc /\ caller'.outcome = caller.outcome
    <3>1. Append(caller.results, next) \in Seq(Nat)
      BY <2>1
    <3> QED
      BY <1>3, <3>1 DEF Prolog!pop_front
  <2>4. UNCHANGED <<goal, runner, strayWrite>>
    BY <1>3 DEF Prolog!pop_front
  <2> QED
    BY <2>2, <2>3, <2>4
<1>4. CASE Prolog!End
  BY <1>4 DEF Prolog!End
<1> QED
  BY <1>1, <1>2, <1>3, <1>4 DEF Prolog!Caller

\* The inductive invariant holds in every reachable state.
THEOREM PrologInvariance == Prolog!Spec => []PrologInv
<1>1. PrologInv /\ [Prolog!Next]_(Prolog!vars) => PrologInv'
  <2>1. CASE UNCHANGED Prolog!vars
    BY <2>1 DEF Prolog!vars, PrologInv, PrologTyped, Waits, ReadsFirst
  <2> QED
    BY <2>1, WorkerKeepsProlog, CallerKeepsProlog DEF Prolog!Next
<1> QED
  BY <1>1, PrologInit, PTL DEF Prolog!Spec

\* A call of allSolutions that returns was not failed by Prolog, and exc is not
\* assigned after its end (PrologReasoner.cpp: join comes before exc is read).
THEOREM AllSolutionsSafe == Prolog!Spec => []Prolog!AllSolutionsRethrows
<1>1. PrologInv => Prolog!AllSolutionsRethrows
  BY DEF PrologInv, PrologTyped, Waits, ReadsFirst, Prolog!AllSolutionsRethrows
<1> QED
  BY <1>1, PrologInvariance, PTL
=============================================================================
