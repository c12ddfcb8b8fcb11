# TLA+ model of KnowRob's query processing

KnowRob answers queries about a robot's knowledge. A query is a formula with
modal operators; it is split into paths of literals, each literal is evaluated by
graph databases and reasoners that run concurrently in worker threads, and the
answers flow through a network of streams to the caller. What is known comes from
ontology files and from statements that are told, and is stored in a database whose
documents are updated by several requests each.

This directory models that way of a query from its text to its last answer (parser,
query tree, plan, pipeline, stages, streams, thread pool, combination of answers), the
store behind it (loading of ontologies, insertion and lookup of triples), and the calls
of Prolog from other threads. TLC checks the models on small instances. TLAPS proves for
all of them the safety of the thread pool, of the streams with their buffers and stages,
of the plan and the pipeline of a query, of the loading of ontologies with its hierarchy of
imports, of the insertion of triples with their hierarchy and their times, and of the calls
of Prolog that wait.

## Inventory of the system

| part | state | operations | interacts with |
|---|---|---|---|
| `ThreadPool`, `Worker`, `Runner` | queue, workers, two atomic counters, a flag per worker and runner | `pushWork`, `popWork`, `run`, `runInternal`, `join`, `stop`, the destructors | runs every graph query and every Prolog call |
| `AnswerStream`, `Channel` | list of input channels, a flag per stream and per channel | `create`, `push`, `close`, destructors | base of all streams; producers are worker threads |
| `AnswerQueue` | queue, condition variable | `push`, `pop_front` | its reader: action server, terminal, Prolog |
| `AnswerBroadcaster`, `AnswerBuffer` | subscribers, buffer, `isBuffering_` | `push`, `addSubscriber`, `stopBuffering` | outputs of queries; connected after the query was started |
| `QueryStage` (`EDBStage`, `IDBStage`) | active queries, three flags | `push`, `pushTransformed`, `close` | starts one query per partial result, forwards the answers |
| `AnswerCombiner` | answers per channel | `push` | joins the answers of independent groups of literals |
| `KnowledgeBase`, `QueryPipeline` | list of stages | `submitQuery`, destructor | builds the network of streams for a formula |
| `DependencyGraph`, `QueryTree` | groups; paths | `insert`; DNF | used by `KnowledgeBase` |
| terms, `Substitution`, `Unifier`, `Answer` | a mapping of variables | `unify`, `combine`, rollback | used by stages and the combiner |
| `PrologReasoner`, `PrologQueryRunner` | a pool of its own | `oneSolution`, `allSolutions`, `submitQuery` | pool and streams |
| `MongoKnowledgeGraph`, `KnowledgeGraph` | triples, graph versions, hierarchy | `submitQuery`, `loadFile`, `insert`, `updateTimeInterval` | pool, streams, MongoDB |
| `ImportHierarchy`, `Vocabulary` | graphs, classes, properties | add and remove | knowledge graphs |
| `QueryWatch` | map of watchers, a thread | `watch`, `unwatch`, `loop` | MongoDB; no user in this version |
| `ROSInterface`, client library | action servers and clients | ask, tell, cancel | `KnowledgeBase` |

What makes each of them correct:

* **Thread pool** - every goal is run once, in order, and to its end; the
  limit on threads holds; no goal waits while all workers sleep; after the
  destruction nothing runs.
* **Streams** - the reader gets every answer of every channel in order, then
  exactly one EOS, always, also when producers fail or the stream is closed.
* **Buffer** - connecting late loses, repeats and reorders nothing.
* **Stages** - EOS goes out exactly when the input has ended and all queries
  have; a query for one solution gets one and stops.
* **Pipeline** - the caller of `submitQuery` gets EOS after all answers of all
  paths.
* **Pure parts** - groups are the connected components, paths are the DNF,
  unifiers unify, imports are the transitive closure.
* **Graphs** - a graph that is recorded as loaded is complete, also after a
  crash.

PROJECT.json lists all components, also those that are left out with the
reason, and under `hazards` the places in the code that these properties are for.

## Modules

| module | models | state and actions in terms of the code |
|---|---|---|
| `ThreadPool` | `src/ThreadPool.cpp` | One control variable per worker (`wpc`, the line of `Worker::run` and `runInternal`), per caller (`cpc`, `pushWork` and `join`) and for the destructor (`pool`). `workQueue`, `workMutex`, `numFinished`, `numActive`, `hasTerminateRequest`, `isTerminated` are the members of the same name. |
| `AnswerStream` | `AnswerStream.cpp`, `AnswerQueue.cpp` | `channels`, `isOpened`, `isChannelOpened` are the members; `isHeld` says whether someone but `channels_` refers to a channel, since a destructor has an effect; `isStreamSet` whether the pointer `stream_` of a channel is set, which is reset in a step after the channel's flag. A step per test of a flag, per critical section and per assignment. |
| `AnswerStreamContract` | nothing; it is the abstract specification | What a stream promises: answers in order, EOS last, always. |
| `AnswerBuffer` | `AnswerBuffer.cpp`, `AnswerBroadcaster.cpp` | The producer's `push` and the connector's `addSubscriber` and `stopBuffering`, with the broadcast to one channel after the other. |
| `QueryStage` | `QueryStage.cpp` | The feeder's `push` and, per query, the worker's `QueryStageTransformer::push` with its lock and `pushTransformed`. |
| `Pipeline` | `KnowledgeBase.cpp`, `AnswerCombiner.cpp`, with the streams and stages in between | The network that `submitQuery` builds for a conjunctive query, given by `plan`. A push is a stack of nested calls per thread, as in the code; `channels`, `isOpened`, `graphQueries`, `isAwaitingInput`, `isQueryOpened`, `buffer` are the members of the streams. The combiner pushes one combination after the other (`Combining`), with its lock held. |
| `QueryTree` | `QueryTree.cpp` | A formula and the expansion of its nodes into paths: `nodes` is the tree, `Expand` one turn of the constructor's loop, with any choice among nodes of the same priority. Recursion over the tree is written with recursive functions, and a path is listed in any order, since its literals are sorted before they are used. |
| `QueryParser` | `QueryParser.cpp` | The grammar as an operator from tokens to the formulas it can give, in its order of alternatives; and the texts a formula may be written as. |
| `QueryMeaning` | nothing; it is for properties | When a formula, and a path, hold; that parser and query tree preserve this. |
| `QueryPlan` | `KnowledgeBase.cpp` (`submitQuery`), `DependencyGraph.cpp` | Per path: the literals inserted into the dependency graph one by one (`groups`, `neighbors`), the walk through each group (`group`, `stack`, `sequences`), and the connection of the path to the output (`channels`, `isOpened`) while earlier paths end: per path, `eos` is how far `AnswerStream::push` is with its EOS, which erases the channel under the mutex and pushes EOS and closes the stream after it. |
| `Modalities` | `modalities/`, `RDFLiteral.cpp`, `ROSInterface.cpp` | Reduction of iterated operators, what a message's fields become, what a literal's operators become in an expression or statement. |
| `OntologyStore` | `MongoKnowledgeGraph.cpp` (`loadFile`), `ImportHierarchy.cpp` | `loading` is the stack of activations of `loadFile`, a step per request to the database and per import that `updateHierarchy` adds; `directImports` and `imports` are the members of the hierarchy; `unread` is what `initialize` has yet to read from the database, in any order; files change, parsing fails, the program stops and starts. |
| `TripleSelector` | `MongoKnowledgeGraph.cpp` (selectors), `aggregation/triples.cpp`, `aggregation/terms.cpp` | Which documents an expression matches, and the lookup of a sequence of expressions. |
| `TripleStore` | `MongoKnowledgeGraph.cpp` (`insert`, `updateTimeInterval`, `removeAll`), `TripleLoader.cpp`, `aggregation/graph.cpp`, `Vocabulary.cpp` | Per thread, `task` is the progress of an `insert`: loader, hierarchy, times. A step is a request to the database. `Above` is what `forallParents` visits, as the least set that holds the parents of its members; `todo` has the updates that `updateHierarchy` is yet to do, each a place in its three loops. |
| `Terms` | `Unifier.cpp`, `Substitution.cpp`, `Predicate.cpp` | Terms, their unification and substitution. |
| `AnswerCombination` | `AnswerCombiner.cpp`, `Answer.cpp` | `genCombinations` in one object that is changed and rolled back, as in the code. |
| `PrologQueries` | `PrologReasoner.cpp`, `PrologQueryRunner.cpp` | The calling thread and the worker of one `oneSolution` or `allSolutions`. |
| `ThreadPool_proofs`, `AnswerStream_proofs`, `AnswerBuffer_proofs`, `QueryStage_proofs`, `Pipeline_proofs`, `QueryPlan_proofs`, `OntologyStore_proofs`, `TripleStore_proofs` | - | The theorems about the module of that name; those about `PrologQueries` are at the end of `ThreadPool_proofs`, since they are about goals of a pool. |
| `MC...` | - | Extend the module of that name; sets and symmetry for TLC. |

`AnswerStream` is what is behind each subscriber of an `AnswerBuffer` and of a
`QueryStage`; there, the channel is reduced to its flag and what passes it.
`QueryStage` takes from `AnswerBuffer` that the messages of a query arrive once
and in order (which holds outside of the two windows `AnswerBuffer` names), and
from `ThreadPool` that each query is run.

`Pipeline` composes the components: its stages and broadcasters are those of
`QueryStage` and `AnswerStream` without their races, each test and change of
a stream's state in one step, so that what the network as a whole does is not
hidden behind what can go wrong in one of its parts.

`QueryPlan` gives what `Pipeline` starts from: `plan` there is the number of groups
and their lengths here. `AnswerCombination` gives the data that `Pipeline`'s combiner
leaves out. `PrologQueries` takes from `ThreadPool` that a goal is run and joined, and
from `AnswerStream` how its channel closes. `QueryTree` and `TripleStore` share
`Modalities`.

**Granularity.** A step is what happens between two points at which another
thread can observe or change shared state. A critical section is one step unless
something in it reads an atomic variable that others change without the mutex, as
`pushWork` does; then it is split there. A request to the database is one step, and a
pipeline that reads documents and then writes them is two. Undefined behaviour is a
state of its own (`"undefined"`): the iterator that is advanced after its element was
erased either happens to work or leads there, as does a call through `stream_` that another
thread has reset, or is resetting; and a mutex that its owner locks again
leads to `"stuck"`. In `PrologQueries` the assignment to a variable of a call that
has ended is recorded (`strayWrite`).

**Abstractions.** A runner returns or throws. A stream outlives its channels, since its reader has a
reference: what a channel loses with `stream_` is the pointer. In the modules of the network an answer
is its number; what is in it is the subject of `AnswerCombination`. Log output is left
out. Damage to a `std::list` that two threads change at once is left out:
`AnswerBuffer` and `QueryStage` show what goes wrong even with intact lists; so is
damage to the maps of the vocabulary, which inserts of several threads change without
a lock. Sequential consistency is assumed for the atomics, which all have the default
memory order. Formulas have names for atoms; triples have one graph, and no
confidence; ontologies have the same name as their graph (two URIs with the same stem
share a graph in the code).

## Runs

| run | instance | question | result |
|---|---|---|---|
| `ThreadPool_use` | 3 goals, 3 workers that may fail, limit 2 | counters, limit, order, wakeups | hold |
| `ThreadPool_life` | 2 goals, limit 1, destruction at any time, fair | goals terminate; nothing outlives the pool | hold |
| `AnswerStream_use` | 2 connected channels, 2 answers each, fair | the stream implements its contract | holds |
| `AnswerStream_teardown` | 1 connected and 1 late channel, failures, a closer, fair | EOS always comes, or one of the known failures does | holds |
| `AnswerBuffer` | 2 subscribers, 3 answers | no message twice; in order, none missing, outside of two windows | holds |
| `QueryStage_use` | 3 partial results, both query modes, fair | EOS is pushed; once and last outside of two windows | holds |
| `Pipeline` | 4 shapes of queries with up to 2 computable literals, fair | the reader gets every answer once, then EOS; groups are combined pairwise | hold |
| `QueryPlan` | 85 formulas over 6 predicates | parsed as written; paths are the DNF; what is connected is evaluated in one sequence, bound step by step; EOS after all paths that were connected in time | hold |
| `OntologyStore` | 3 ontologies, cyclic imports, 2 versions of each, 2 stops | recorded graphs are complete; the hierarchy is a closure and survives restarts; cycles end | hold |
| `TripleStore` | 2 threads, 2 inserts, 1 removal, times 1 to 3 | indexed hierarchy and merged times; lookups are joins; questions about the past are answered right | hold |
| `AnswerCombination` | 3 channels, 4 pushes out of 9 answers | unifiers are most general; each choice that agrees is combined once, with its doubts | hold |
| `PrologQueries_rethrow` | 1 call, up to 2 solutions | "rethrow any exceptions in this thread!" (`PrologReasoner.cpp:366`) | violated |

**Bounds and why they are enough.** The thread pool needs three goals for a push
to find one worker asleep and one busy, and a limit of two for a third push to be
refused a thread; `WordSize` is 8 instead of 2^32, which is above the largest value
a counter can have, so a wrap-around is as visible as in the code. Streams need two
channels for "the last channel" to be a race, and one late one for a list that is
empty too early; two answers per channel tell a reordering from a loss. A buffer
needs two subscribers for a broadcast to be interrupted between them. A stage needs
two queries for a race between their ends and a third to start in between.
The pipeline has the shapes no computable literal, one, two in a chain and two in
parallel, with one reasoner beside the database: so every kind of edge of the
network occurs, with two stages that end concurrently in each step. The number of
answers depends on the shape (`AllInputs`, `AllAnswers`): two overlapping queries in a
stage, two answers that reach the second step of a chain, and two answers of one group
for one of the other. With one answer of the database, two groups never disagree:
that they may is in the model (`Unifies`); that disagreeing answers are not combined
is checked in `AnswerCombination`.

The formulas of `QueryPlan` have every binary connective around every other, plain and
negated, on either side, and modal operators inside and around them; in the conjunctions
for the dependency graph a literal joins two groups, three share a variable, one shares
none, and one is for the database alone. Three ontologies are the least for a cycle
that is not entered at its head; the second
versions change the imports, so that edges of the hierarchy go as well as come; the
second stop may hit the load that repairs the first. In `TripleStore` the batches
hold a class below another, in either order, instances of both, a subproperty,
touching and separate intervals, belief and knowledge; two inserts and a
removal overlap in all ways. Query messages have every
combination of epistemic operator, agent, temporal operator and bounds that the
interface distinguishes. The nine answers of `AnswerCombination` have variables,
constants and compound terms that agree in some choices and disagree in others, and
each channel offers a certain and an uncertain one, so that a rollback shows.

Deadlock checking is off where a run may stop: everything is pushed and read, or a
thread is in a state that the properties are about.

Type invariants: that of the thread pool is checked by its run and proved; those of streams,
buffers and stages, of `TripleStore`, and of `Pipeline` and `OntologyStore` (in their proof modules) are
proved. The others are stated for the reader.

**Fairness.** Every thread that can take a step takes one (weak fairness per
thread). For the three steps of a worker that compete for `workMutex_`, strong
fairness: the mutex is free again and again, and an operating system grants it
eventually. A producer comes to its EOS (cursors are finite, runners return). There
is no fairness for spurious wakeups, failures, closing or destroying, and none for
starting a push. In `Pipeline` it is enough that some thread which can take a step
does, since every thread takes finitely many. The runs of the parser and planner, of
the stores, of the combination and of Prolog calls check safety only and assume none.

## Proofs

Eight modules hold theorems. None of the properties they prove is inductive as it stands;
each section names the invariant that is. TLC checked these invariants on the instances
of the runs before they were proved.

| theorem | states | for |
|---|---|---|
| `ThreadPool_proofs`: `CountersCorrect`, `LimitCorrect`, `NoWrapAroundCorrect`, `FifoCorrect`, `HandledCorrect`, `NoLostWakeupCorrect`, `DestructionCorrect` | all safety properties of its runs | any goals, workers, limit, word size above the number of workers |
| `AnswerStream_proofs`: `IteratorSafe` | `NoDanglingIterator` (and no use of a `stream_` that was reset) | any channels, answers, and any channels connected |
| ... `CompleteSafe`, `ContractSafe` | `CompleteAtEos`; the steps of `AnswerStreamContract` | any channels and answers, all channels connected |
| `AnswerBuffer_proofs`: `UniqueSafe`, `InOrderSafe` | `NoDuplicates`, `InOrderUnlessRaced` | any subscribers and answers |
| `QueryStage_proofs`: `OneEosSafe`, `CompleteSafe` | `OneEosUnlessSimultaneous`, `CompleteUnlessOvertaken` | any number of partial results and answers, both query modes |
| `Pipeline_proofs`: `ReaderGetsAll` | `CompleteAtEos` | queries of any shape: any literals, groups, reasoners and answers |
| ... `SeveralGroupsNeverEnd` | the reader of a query with several groups never gets EOS | any groups of any length |
| ... `CombinesSafe` | `CombinesEach` | two groups of any length, any reasoners and answers |
| `QueryPlan_proofs`: `StreamHasAllPaths`, `StepsAreBound` | `EosAfterAllPaths`, `EachStepIsBound` | any formulas, predicates, variables and reasoners |
| ... `LiteralsAreEvaluatedOnce` | `EachEvaluatedOnceUnlessMerged` | the same |
| `OntologyStore_proofs`: `RecordSafe`, `LoadedSafe`, `ReentrySafe`, `ClosureSafe`, `RestartSafe` | `RecordedIsComplete`, `ImportsAreLoaded`, `NotReentered`, `ImportsAreClosure`, `HierarchySurvivesRestart` | any ontologies, imports between them, versions, sources, stops |
| `TripleStore_proofs`: `HierarchySafe`, `TimesSafe` | `HierarchyIsIndexed`, `TimesAreUnion` | any threads, any number of inserts of any batches, any removals |
| `ThreadPool_proofs`: `AllSolutionsSafe` | `AllSolutionsRethrows` and no stray write | any number of solutions |

All but `QueryPlan_proofs`, where types are part of the invariant, also prove type correctness. Hypotheses are the assumptions on the constants, which TLC evaluates in every
run: `GoalsAssumption` and `SizeAssumption` (there is an object for every worker that could
be created, and the word is larger than their number), `ChannelsAssumption`,
`BufferAssumption` (no subscriber is named twice), `StageAssumption`, `PlansAssumption` (each
group has a literal, and each of these literals a reasoner), `OntologiesAssumption`, `FormulaAssumption` (the parts of a formula are formulas),
`BatchesAssumption` (see the triple store below);
and, for `CompleteSafe` and `ContractSafe` of the stream, that all channels are connected
from the start. The last is how `AnswerStream_use` instantiates the module:
inside a pipeline, streams are connected before the buffers at its head are flushed, so
before the first message. Without it the properties are false: `channels_` can be empty
while a channel is yet to be connected, as happens to the output of several paths
(`ReturnsStream` and `NoChannelDuringEos` below).

### Thread pool

The inductive invariant is built in layers, each of which uses those before it:

1. `TypeOK`.
2. `CountersExact`: both counters are the cardinality of a set of workers by
   control state. It needs the lemmas on how the cardinality of such a set changes
   when one worker moves.
3. `LimitInv` (`Membership`, `ThreadLimit`): a worker is added only when the mutex
   holder has compared the number of those created with the counter, and the counter
   only grows.
4. `MutexInv` (`MutexHeld`, `UpInv`): who holds `workMutex_` follows from the
   control states.
5. `CountInv`: the locals of a running `pushWork` bound what they were read from. The
   counters change while it runs, so this is what excludes a wrap-around.
6. `GoalInv` (`OneOwner`, `RunInv`): a goal is queued, or executed by one worker,
   or neither, and its flags match the state of that worker.
7. `SleepInv`, `ReadyInv`, `SpawnInv`: who is responsible for a goal that is queued:
   a worker that is awake, one that has been notified, a push that has not notified
   yet, or a worker that is starting. This is the argument against the lost wakeup.
   It needs a limit of at least one thread; the code passes
   `std::thread::hardware_concurrency()`, which may be 0.
8. `StartedInv`, `DrainInv`: the goals that were started are those executed or
   terminated; while the pool is drained all workers have been joined.

### Streams

`Owned`: while a stream is in use, a channel is erased by its own producer only, which closes
it and does not come back, so the state of the producer says whether its channel is in
`channels_`. `Ended`: the stream is open as long as it has a channel; EOS is sent by the
producer that has erased the last one, and by no other. `Delivered`: an answer is in the
output, or it is the one that its producer is about to enqueue. With these every step of the
stream maps to a step of `AnswerStreamContract` or to none. That the contract's EOS comes at
last is liveness and stays with the run.

### Buffers

`UniqueInv`: until the connector clears it, the buffer holds the first messages in order;
the connector broadcasts one of them, and the producer a later one (`Numbered`); what a
subscriber has received was flushed, or broadcast by the producer and is not in the buffer
(`Received`). `OrderInv`: without an overlap the producer broadcasts only after the flush,
which took the whole buffer, so that each subscriber has exactly the first messages.

### Stages

`StageInv`: a worker is inside `push` only as long as `graphQueries` has its query
(`Tracked`), and EOS goes out after `isQueryOpened` was reset, which waits for the end of the
input (`Closed`). `CompleteInv`: each answer of a query is in the output, or in the hands of a
worker inside `push`. `OneEosInv`: one thread at most is sending EOS, and the channel to the
next stage is closed before another one tests it. The steps that matter for it are
summarized in `EosMove`, so that its case analysis is not repeated for every line of code.

### Pipeline

`PipelineInv` says one thing of a query with several groups: no call for the last stream or
the reader has EOS as its message (`NoEos`), because the combiner hands on copies. The rest is about
a chain of literals, and each action is taken through two invariants.

`EosInv` is about links, from a stream to another one. A thread that is alive has copies of its last
answer on its stack and nothing else; one that is not has EOS and streams to close (`Called`).
A stream that has not ended is awaited by all it feeds, and EOS is on a link only if its source has
ended and its target still awaits it (`Linked`), in one call at most (`Once`). A stream that is
closed has ended, and a stage has ended only when its input has and no query is left (`Closed`).
So a step of the chain ends after all that comes before it (`Upstream`), and while a thread
is alive no stream on the path of its answers has ended (`AliveOpen`), which is why no answer
is dropped at a closed stream.

`AnswerInv` is about answers. A partial result was pushed as an answer, and its choices are from
literals before the one it is evaluated for (`Born`); hence an answer tells its thread
(`AnswersDiffer`). An answer on its way has neither arrived at the stages it is still pushed to, as the
partial result of a query, nor at the reader (`Fresh`); each result is received or in the hands of a
thread that is alive, and none is received twice (`Received`). `Fresh` is needed for EOS too: a stage that got the
same partial result twice would start one query where it should start two.

When EOS is at the reader, `Linked` and `Upstream` say that all streams have ended, so that no thread is
alive, so that what is under way is EOS and all results have been received.

With two groups the question is what the combiner has handed on as long as none of them has ended,
and `PairInv` answers it for any state. A thread that does not hold the lock hands
EOS on, its last answer to the next stages, or its last answer to the combiner (`Flows`), and the
streams behind the last literals are open (`Opened`), since they push EOS before they are closed
and then the group has ended. So an answer to a last literal is in the buffer of its group, once, or in
the hands of one thread (`Buffered`). The combinations of what is in the buffers are those received,
one that the holder of the lock is pushing, and those it has still to push (`Combinator`). That
none comes twice rests on two facts: partial results are made of answers to the input and of
literals of one group (`Derived`), so the two answers can be told from their combination
(`CombinationsDiffer`), and an answer tells its thread, as in a chain. The loops of the
combiner are taken as the code nests them: `FirstSelection` shows that there is a next
selection as long as one is left.

### Plans

`QueryPlanInv` has a part for each of three questions. `ChannelInv`: the paths that were connected in time
(`inTime`: since the first one there was always a channel) are each in `channels_`, or their
EOS has taken them out and their answers are output. As long as one of them is in `channels_`, no path has found the list
empty, so the stream is open and EOS is not sent. When none is left the list has run empty (`HasRunEmpty`), and
all of them have output their answers before they were erased. That is all that EOS needs; what a path does that
comes later, between the steps of the last EOS, does not matter any more. `IsUnbroken` tells the two
apart, at the time the path is connected. `NeighborInv`:
neighbors share a variable, and what is on the stack is in the sequence; so the next literal
is bound by the one it is visited from. This holds after a merge, too.

That each literal is evaluated once needs connectedness, which is stated without paths
through the graph: `GroupInv` says that no part of a group but all of it is closed under neighbors,
while no groups were merged. `InsertLiteral` preserves this because the literal shares a variable with
a member of the group it joins. `SequenceInv` says that a literal in a sequence that is not on the
stack has its neighbors in the sequence; when the stack is empty the sequence is closed, and so it is
the whole group. A merge breaks the first of these: the literal alone is then a group, and the members of
the others are in none.

### Loading of ontologies

`RecordInv` adds to `RecordedIsComplete` that only the innermost activation of `loadFile`
has stored triples without a record (`Parsed`), and that the version of an activation was
read before its content (`Stacked`); without the latter a record could be newer than the
triples. `LoadedInv`: each import of a recorded ontology is recorded or `Pending`, in an
activation that loads it or is still to call for it. It is the stack that matters here: with
a cycle of imports the one that is called again returns at once, and it is the activation
below that has not come to its other imports yet. `ReentryInv`: an activation that waits has
recorded the version that its file still has (`Steady`); this is why a call for the same
ontology above it returns. `HierarchyInv` does not depend on the stack: the lemmas
`addDirectImportKeeps` and `removeCurrentGraphKeeps` say that each function of
`ImportHierarchy` keeps the transitive closure. The closure is stated as the least set that is
closed under `directImports_`, so that cycles need no induction.

`PairsInv` is about what a restart would change, which is nothing: the direct imports that are
known of an ontology, those `initialize()` has still to read and those the innermost activation
has still to add (`IsToAdd`) are together the ones its triples state (`PairsHold`). When nothing
is to be read or added, the known imports are the stored ones, and since `imports_` is the least
set closed under the former (`HierarchyInv`) it is what the latter reach. The order in which imports
were added or read does not occur in the argument. `"importDropped"` is excluded because
`removeCurrentGraph` takes the graph out of the imports of others, whose triples still state it;
`"interrupted"` because stored triples without a record are not read back.

### Triple store

`BatchesAssumption` says what a statement is and that no name is that of a class and of a property
(`IsWellNamed`): `createTripleDocument` asks first whether an object is a property and then whether it is a
class, and the documents say no more about it than the name. The constants are otherwise arbitrary.
`Basic` has what both theorems need: ids are below `nextId`, what a task points to exists, what is
pending comes from a statement that was loaded, each document has its own base among its parents, and no
update loses it. `Undisturbed`: without overlap and removal one insert is under way at a time, and
what it is about to merge is what it has found.

`HierarchyInv` has a lower and an upper bound of the parents in a document, and neither is the set of
what is above by itself. From above, `ParentsAreAbove`: every set that holds the base and is closed under the assertions
written holds the parents; an update only adds parents of a document that was found below the
child. From below, `ParentsAreClosed`: a document whose parents have the child of an
assertion has its parent, or an update for that assertion and that kind of document is to
come (`IsToCome`). The second is where the order matters. An update for an assertion `a` below `b` gives
the documents below `a` all parents in the assertions about `b`; these are closed
except for assertions whose own update is to come. So what is reached at last does not depend on
the order within a loop of `updateHierarchy`, but the third loop, which updates the predicates of triples,
has to come after the second, whose documents it reads (`IsNext`). When
nothing is to come, both bounds meet in the least closed set, which is `Above`. No induction
on paths is needed, and cycles are no special case. `LoadedIsWritten` and
`VocabularyIsWritten` relate the database to what the loader has in memory, and
`RemovedIsKept` says that a merge keeps an assertion of each kind it removes, which is what
`"unlinked"` is about.

`TimesInv` has three parts. `DocumentsAreAsserted`: at each instant of a document, pending ones included,
something was asserted. `AssertedIsWritten`: each instant of a statement is in a document that will not be
removed (`IsDoomed`), or in one that is pending, or the statement is not loaded yet; while documents are
removed one by one it is the first of them, already rewritten, that holds the instants of the rest. `OverlapIsUnread`:
if two documents of a triple overlap, then the insert under way has a statement it has not
compared yet, and that overlaps with both. The union of documents that all overlap with one
interval has no gaps (`UnionIsCovered`), so that the rewritten document says nothing new; and a document that
overlaps with the union but was not found overlaps with one of those that were, so that a later
statement overlaps with both (`UnionOverlaps`). The third part is why two statements of one batch that overlap end in one document,
and also two that are joined by a third.

### Prolog

`allSolutions` needs that the runner has terminated when the call is past `join`
(`Waits`), that a runner with an exception has read it before it terminates (`ReadsFirst`),
and the shape of the records (`Typed`). The same does not hold of `oneSolution`, which is
what `PrologQueries_rethrow` shows.

### Only model-checked

* liveness (`GoalsTerminate`, `AutoCloses`, `ClosePushesEosOrFails`, `EosIsPushed`,
  `FirstMessageArrives`, `EosArrives`, and with it the fairness in `ImplementsContract`),
  which TLAPS cannot prove under fairness;
* `LookupIsJoin` and `AsksAreAnswered`: a lookup is a fold over a sequence of expressions, and
  the properties compare it with minima and maxima over the positions of a query;
* `ReadsAsWritten` and `PathsAreDNF`, and the properties of `AnswerCombination`: what a formula or a
  term means is defined by recursion, and what a recursive definition computes
  for every input is an induction as well. The proofs about plans take the paths as they come: all they
  need of the tree is that it is finite.

## What the code does otherwise

A run that is violated:

* `PrologQueries_rethrow`: `oneSolution` (`PrologReasoner.cpp:352`) returns after the
  first message. If the goal fails, that is the EOS which the worker pushes before it
  throws: the call says that there is no solution, and the handler then assigns a
  variable of a call that has returned.

Properties that are stated in the modules, and that TLC refutes on the instances given
here. They are not in the runs; each states what a comment of the code says.

| property | instance | what the code says | what happens |
|---|---|---|---|
| `JoinReturns` | `MCThreadPool`, `UseSpec`, one goal, worker and thread | "Wait until run function has exited." (`ThreadPool.h:87`) | `join` misses its notification (`ThreadPool.cpp:180`): the flag is set and the condition notified without the mutex of the waiting thread. Under all of the fairness above. |
| `NoChannelDuringEos` | `MCAnswerStream`, `UseSpec`, two channels, one connected, one answer | "prevent channels from being created while processing EOS message" (`AnswerStream.cpp:65`) | The lock is released once the last channel is erased. Before EOS is pushed (`AnswerStream.cpp:74`) and `isOpened_` reset (`:75`) a channel can still be created, whose answers come after EOS or are dropped. |
| `ClosePushesEos` | `MCAnswerStream`, `FailSpec`, one connected channel, one answer | "This will push an EOS message" (`AnswerStream.h:50`) | When a graph query fails, its worker waits for itself (`AnswerStream.cpp:69` and `:93`): the handler closes the stream, which destroys the channel with the mutex held that the channel's destructor takes. |
| `NothingLost` | `MCAnswerBuffer`, `Spec`, `OneSubscriber`, one answer | "to avoid them being lost" (`QueryStage.cpp:163`) | A message pushed while the buffer is flushed gets lost (`AnswerBuffer.cpp:38`), or overtaken. |
| `NoActiveQueryAtEos` | `MCQueryStage`, `Spec`, two inputs, one answer | "only push EOS message if no query is still active" (`QueryStage.cpp:111`) | Line 113 reads two conditions one after the other. In between the feeder starts a query and ends the input, and EOS goes out with that query active. |
| `StageIsClosed` | `MCQueryStage`, `Spec`, one input, one answer | "close the stage" (`QueryStage.cpp:120`) | The thread that does so (`:121`) holds the lock that closing needs. |
| `CombinerAutoCloses` | `MCPipeline`, `FairSpec`, `TwoGroups`, one of everything else | "a stream auto-closes once it has received EOS" (`AnswerStream.h:54`) | The combiner takes EOS for an answer (`AnswerCombiner.cpp:21`): a query with two independent groups of literals never ends. `EosArrives` is therefore stated for queries with at most one group. |
| `ReturnsStream` | `MCQueryPlan`, `Spec`, `TwoPaths` | "The call is non-blocking and returns a stream of answers." (`KnowledgeBase.h:101`) | If the first path of a formula has ended before the second is connected, the output has closed itself, `Channel::create` throws (`AnswerStream.cpp:110`) and so does `submitQuery`. |
| `GroupsHaveAllMembers` | `MCQueryPlan`, `Spec`, `OneConjunction` | "merge multiple groups into one" (`DependencyGraph.cpp:67`) | When a literal joins two groups, `operator+=` (`DependencyGraph.h:65`) inserts the members of the other group into that group; their literals are never evaluated. |
| `UnifierUnifies` | `MCAnswerCombination`, `Spec`, `TwiceX`, two pushes | "A substitution that unifies some terms." (`Unifier.h:16`) | The second value of a variable is ignored (`Unifier.cpp:52`): p(X,X) and p(a,b) have a unifier. |
| `HoldsDuringInterval` | `MCAnswerCombination` as in its run | "an optional time interval of this answer being true" (`Answer.h:55`) | The result of `intersectWith`, which is const, is dropped (`Answer.cpp:67`): a combination has the interval of one of its parts. |

Windows that a passing run names and excludes are behaviour of the code, too:

* **`AnswerStream`**: what `ClosePushesEosOrFails` excuses: `deadlocked`, `close()` waits for the mutex it
  holds; `"undefined"`, a thread uses what was let go of, which is the iterator of the loop in `close()`, the
  iterator of a channel that two threads end, or the `stream_` that one of them resets (`AnswerStream.cpp:119`,
  `:134`) when the other is past the test of `isOpened_` (`:116`, `:130`).
* **`QueryStage`**: `"overtaken"`: the window of `NoActiveQueryAtEos`; `"simultaneous"`: two threads broadcast EOS at once and the next stage gets two.
* **`AnswerBuffer`**: `hasRaced`: a message is broadcast while the buffer is flushed, or
  appended to it after it was switched off.
* **`QueryPlan`**: `merged`: a literal has joined two groups (`GroupsHaveAllMembers`). `inTime` leaves out a path that is
  connected when all before it have ended: it is refused (`ReturnsStream`), or accepted while their EOS
  is processed and cut off by it (`NoChannelDuringEos`). Negative literals are left out of the plan altogether.
* **`OntologyStore`**: `"interrupted"`: when a load fails or the program stops, what was stored
  so far stays in the graph, where the next load adds to it; and if the version was
  recorded already, the imports that are missing are not loaded, since what is up to date
  is not looked into; `"importDropped"`: a new version of an imported graph makes
  its importers forget it in memory, though not in the database; `"changedWhileLoading"`:
  a cycle of imports loads an ontology again within itself if its file has changed.
* **`TripleStore`**: `"overlapped"`: two inserts that interleave miss
  each other's parents, or merge what the other has removed; `"removed"`:
  parents in documents, and in memory, survive the triples they came from; `"subsumed"`:
  a statement merges with a document of a subproperty; `"mixed"`: belief merges with
  knowledge, or what held at some time with what held always; `"unlinked"`: a
  statement merges with the assertion of a subclass between other classes that has the same class above it,
  and one of the two is removed, while documents keep the parents it gave them; `"unbounded"`: an open
  interval becomes closed when it is merged, since undefined bounds are ignored.
* **`AnswerCombination`**: a combination names predicates, and is uncertain, because of
  parts of combinations pushed before: only the substitution is rolled back. `IsLinear`:
  terms in which no variable occurs twice (`UnifierUnifies`); a variable does not unify with itself.

What else the models show of the code, without a property: the epistemic operator of a
message has no effect unless an agent is named (`EpistemicOperator`), so that a question
for knowledge gets beliefs as well, while `GraphQueryMessage.msg` says that no agent
means the robot itself; `executeTellCB` puts the operators of the message around the
formula and then inserts the formula without them (`ToldStatements`); a question about
the present is not tested against time, and one about all of the past, without both
bounds, only against the bound it has; a document that holds at some time never
matches a question; nested operators of one kind collapse even if their agents differ
(`Reduces`); what an option like `P[10,]` is given as in `ModalityWithEmptyArguments`, the
grammar does not accept; the literals for the database are ordered by address, not by
what the comment at `KnowledgeBase.cpp:32` says.

## Not modelled, and why

* **Not in the build, or not used**: `ros/tf`, `Blackboard`, `ReasoningGraph`,
  `BuiltinEvaluator`; `RedundantAnswerFilter` (its stage is commented out) and
  `QueryWatch` (its only user is). Of `QueryWatch` the inventory keeps the state.
* **Another language**: the Prolog libraries and the query compiler of Mongolog (programs
  that produce database pipelines), ESG, SWRL rules.
* **Before any query, in one thread**: `ReasonerManager`, `KnowledgeGraphManager`, the
  configuration.
* **Input, output and formatting**: terminal, logging, URIs, data sources, BSON and
  cursors, conversion of terms to and from Prolog and ROS messages, the grammar of
  tokens.
* **Outside of the repository**: the action library with its goals, preemption and
  timeouts, the database server, the Prolog engine. The reader of `AnswerStream` is what
  the loop of an action server does.
* **Data**: ontologies, launch files, scripts.
* **Lookup of transitive properties** (`triples.cpp`, lines 527 to 663): what the
  database makes of its pipeline cannot be said from the code. Line 597 appends to a
  stage whose array is still open, line 644 to a document that was ended before; a
  lookup that starts with the subject goes on from the property of a triple
  (`connectFromField` in line 568) instead of its object. The queries of `TripleStore` have no
  transitive property.

What could follow: `CombinesEach` for three groups and more; several paths in `Pipeline`, and its ownership; the destruction of a
broadcaster that sends EOS; a proof that a stage implements a contract like that of a stream.
