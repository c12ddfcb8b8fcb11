----------------------------- MODULE TripleStore -----------------------------
(***************************************************************************)
(* The triples in the database (src/mongodb/MongoKnowledgeGraph.cpp):      *)
(* insert() hands statements to a TripleLoader, which adds them to the     *)
(* vocabulary in memory and stores documents in bulk; then it updates, in  *)
(* the documents, the hierarchy of classes and properties, and merges      *)
(* documents whose times overlap. Every step is a request to the server,   *)
(* and inserts of several threads interleave.                              *)
(*                                                                         *)
(* A bulk operation, a read and a write are atomic each. The hierarchy is  *)
(* updated by pipelines that read and then write documents: these are two  *)
(* steps. One graph.                                                       *)
(***************************************************************************)
EXTENDS TripleSelector

CONSTANTS
    Threads,
    Properties,     \* the names of properties; the other names are not
    Batches,        \* what insert() may be called with: sequences of statements
    Tells, Asks,    \* messages to the action server
    BatchSize,      \* batchSize_
    Queries,        \* queries: sequences of expressions
    Removals,       \* what removeAll() may be called with: expressions
    MaxInserts, MaxRemovals         \* bounds on the calls

\* No name is that of a class and of a property.
IsWellNamed(s) ==
    /\ s.predicate = "subPropertyOf" => {s.subject, s.object} \subseteq Properties
    /\ s.predicate = "subClassOf" => {s.subject, s.object} \cap Properties = {}
    /\ s.predicate = "type" => s.object \notin Properties

MaybeTimes == {NoTime} \cup Times
Statements ==
    {s \in [subject : STRING, predicate : Properties, object : STRING, begin : MaybeTimes,
            end : MaybeTimes, certain : BOOLEAN, sometimes : BOOLEAN, agent : SUBSET STRING] : IsWellNamed(s)}

ASSUME BatchesAssumption ==
    /\ Batches \cup {ToldStatements(m) : m \in Tells} \subseteq Seq(Statements)
    /\ Properties \subseteq STRING /\ MaxTime \in Nat

VARIABLES
    docs,           \* the documents, with an id
    nextId,         \* the id of the next document
    parents,        \* the vocabulary: the direct parents of classes and properties
    task,           \* per thread: what it does
    asserted,       \* the statements inserted (history)
    numRemovals,
    windows         \* what has happened (history)

vars == <<docs, nextId, parents, task, asserted, numRemovals, windows>>

Idle == [pc |-> "idle"]
IsIdle == \A t \in Threads : task[t] = Idle
NoParents == [c \in {} |-> {}]

Init ==
    /\ docs = {} /\ nextId = 1 /\ parents = NoParents
    /\ task = [t \in Threads |-> Idle]
    /\ asserted = <<>> /\ numRemovals = 0 /\ windows = {}

At(t, pc) == task[t].pc = pc
Statement(t) == task[t].batch[task[t].next]
Set(t, r) == task' = [task EXCEPT ![t] = r]
IsAnnotationProperty(p) == p = "comment"
isDirectParent(p) == p \in {"subClassOf", "subPropertyOf"}

\* forallParents: the members of seen and all that is above them, the least set that
\* holds the parents of its members.
Above(relation, seen) ==
    LET nodes == seen \cup UNION {relation[c] : c \in DOMAIN relation}
        holdsParents(S) == \A c \in S \cap DOMAIN relation : relation[c] \subseteq S
    IN {x \in nodes : \A S \in SUBSET nodes : seen \subseteq S /\ holdsParents(S) => x \in S}

-----------------------------------------------------------------------------
(* TripleLoader *)

\* KnowledgeBase::insert
BeginInsert(t, batch) ==
    /\ At(t, "idle") /\ Len(asserted) < MaxInserts
    /\ asserted' = Append(asserted, batch)
    /\ Set(t, [pc |-> "load", batch |-> batch, next |-> 1, pending |-> <<>>])
    /\ windows' = windows \cup (IF IsIdle THEN {} ELSE {"overlapped"})
    /\ UNCHANGED <<docs, nextId, parents, numRemovals>>

\* An exception is thrown unless all literals are positive and have no variables.
executeTellCB(t) ==
    \E m \in Tells :
        /\ \A k \in DOMAIN m.literals : LET l == m.literals[k]
               IN ~l.negated /\ ~IsVariable(l.subject) /\ ~IsVariable(l.object)
        /\ BeginInsert(t, ToldStatements(m))

\* Where the parents of a triple start.
Base(s) == IF isTaxonomicProperty(s.predicate) THEN s.object ELSE s.predicate

createTripleDocument(s, relation) ==
    [subject |-> s.subject, predicate |-> s.predicate, object |-> s.object,
     parents |-> Above(relation, {Base(s)}),
     uncertain |-> ~s.certain, agent |-> s.agent, occasional |-> s.sometimes,
     since |-> s.begin, until |-> s.end]

addDirectParent(s) ==
    IF isDirectParent(s.predicate)
    THEN [c \in DOMAIN parents \cup {s.subject} |->
             (IF c \in DOMAIN parents THEN parents[c] ELSE {})
               \cup (IF c = s.subject THEN {s.object} ELSE {})]
    ELSE parents

WithId(d, id) == [id |-> id, subject |-> d.subject, predicate |-> d.predicate, object |-> d.object,
                  parents |-> d.parents, uncertain |-> d.uncertain, agent |-> d.agent,
                  occasional |-> d.occasional,
                  since |-> d.since, until |-> d.until]

\* Annotations are not stored.
loadTriple(t) ==
    /\ At(t, "load") /\ task[t].next <= Len(task[t].batch)
    /\ Len(task[t].pending) <= BatchSize + 1
    /\ LET s == Statement(t)
           r == [task[t] EXCEPT !.next = @ + 1]
       IN IF IsAnnotationProperty(s.predicate)
          THEN Set(t, r) /\ UNCHANGED parents
          ELSE /\ parents' = addDirectParent(s)
               /\ Set(t, [r EXCEPT !.pending = Append(@, createTripleDocument(s, parents'))])
    /\ UNCHANGED <<docs, nextId, asserted, numRemovals, windows>>

\* The updates of documents: for each subclass and each subproperty assertion those
\* that have the child in "o*", then for each subproperty those that have it in "p*".
Rounds == <<"subClassOf", "subPropertyOf", "subPropertyOf">>
Jobs(batch) == {j \in (1 .. 3) \X DOMAIN batch : batch[j[2]].predicate = Rounds[j[1]]}

\* When the bulk operation is full, and at the end.
flush(t) ==
    /\ At(t, "load")
    /\ LET pending == task[t].pending
           isDone == task[t].next > Len(task[t].batch)
       IN /\ isDone \/ Len(pending) > BatchSize + 1
          /\ docs' = docs \cup {WithId(pending[k], nextId + k - 1) : k \in DOMAIN pending}
          /\ nextId' = nextId + Len(pending)
          /\ Set(t, IF isDone
                    THEN [pc |-> "hierarchy", batch |-> task[t].batch, todo |-> Jobs(task[t].batch)]
                    ELSE [task[t] EXCEPT !.pending = <<>>])
    /\ UNCHANGED <<parents, asserted, numRemovals, windows>>

-----------------------------------------------------------------------------
(* updateHierarchy *)

\* In the order of the assertions; the subproperties are in a set at last.
IsNext(j, todo) ==
    \A i \in todo : j[1] <= i[1] /\ (j[1] = i[1] /\ j[1] < 3 => j[2] <= i[2])
UpdatesSame(t, i, j) ==
    i = j \/ (i[1] = 3 /\ j[1] = 3 /\ task[t].batch[i[2]].subject = task[t].batch[j[2]].subject)

\* lookupParents
ParentsOf(entity, relation) ==
    UNION {d.parents : d \in {e \in docs : e.subject = entity /\ e.predicate = relation}}

\* Mutant: the parents of the new parent are not looked up.
NewParentsDirect(round, s) ==
    IF round < 3 THEN {s.object} ELSE ParentsOf(s.subject, s.predicate)

NewParents(round, s) ==
    IF round < 3 THEN ParentsOf(s.object, s.predicate) \cup {s.object}
                 ELSE ParentsOf(s.subject, s.predicate)

\* Documents that have the child among their parents get the new parents.
readHierarchy(t) ==
    /\ At(t, "hierarchy")
    /\ \E j \in task[t].todo :
          /\ IsNext(j, task[t].todo)
          /\ LET s == task[t].batch[j[2]]
                 found == {d \in docs : /\ isTaxonomicProperty(d.predicate) = (j[1] < 3)
                                        /\ s.subject \in d.parents}
             IN Set(t, [pc |-> "merge", batch |-> task[t].batch, todo |-> task[t].todo, job |-> j,
                        update |-> {<<d.id, d.parents \cup NewParents(j[1], s)>> : d \in found}])
    /\ UNCHANGED <<docs, nextId, parents, asserted, numRemovals, windows>>

\* $merge. (A document that was removed comes back as a fragment that has none of the
\* fields that expressions match.)
writeHierarchy(t) ==
    /\ At(t, "merge")
    /\ LET new(d) == {u[2] : u \in {v \in task[t].update : v[1] = d.id}}
       IN docs' = {[d EXCEPT !.parents = IF new(d) = {} THEN @ ELSE UNION new(d)] : d \in docs}
    /\ Set(t, [pc |-> "hierarchy", batch |-> task[t].batch,
               todo |-> {i \in task[t].todo : ~UpdatesSame(t, i, task[t].job)}])
    /\ UNCHANGED <<nextId, parents, asserted, numRemovals, windows>>

endHierarchy(t) ==
    /\ At(t, "hierarchy") /\ task[t].todo = {}
    /\ Set(t, [pc |-> "time", batch |-> task[t].batch, next |-> 1])
    /\ UNCHANGED <<docs, nextId, parents, asserted, numRemovals, windows>>

-----------------------------------------------------------------------------
(* updateTimeInterval *)

HasTime(s) == s.begin # NoTime \/ s.end # NoTime
NextStatement(t) == Set(t, [pc |-> "time", batch |-> task[t].batch, next |-> task[t].next + 1])

\* Minimum and maximum; undefined values are ignored.
UnionTime(s, found) ==
    LET begins == ({s.begin} \cup {d.since : d \in found}) \ {NoTime}
        ends == ({s.end} \cup {d.until : d \in found}) \ {NoTime}
    IN [since |-> IF begins = {} THEN NoTime ELSE CHOOSE x \in begins : \A y \in begins : x <= y,
        until |-> IF ends = {} THEN NoTime ELSE CHOOSE x \in ends : \A y \in ends : x >= y]

\* What makes the union of the times say more or less than what was asserted.
Oddities(s, found) ==
    LET different == {d \in found : <<d.subject, d.predicate, d.object>>
                                       # <<s.subject, s.predicate, s.object>>}
    IN (IF different = {} THEN {} ELSE {"subsumed"})
    \cup (IF \E d \in different : isDirectParent(d.predicate) THEN {"unlinked"} ELSE {})
    \cup (IF \E d \in found : d.uncertain = s.certain \/ s.sometimes THEN {"mixed"} ELSE {})
    \cup (IF NoTime \in {s.begin, s.end} \cup UNION {{d.since, d.until} : d \in found}
          THEN {"unbounded"} ELSE {})

\* The documents that overlap with the statement.
readOverlapping(t) ==
    /\ At(t, "time") /\ task[t].next <= Len(task[t].batch)
    /\ LET s == Statement(t)
           found == {d \in docs : Matches(d, [s EXCEPT !.sometimes = TRUE])}
       IN IF HasTime(s) /\ Cardinality(found) > 1
          THEN /\ windows' = windows \cup Oddities(s, found)
               /\ \E first \in found :
                     Set(t, [pc |-> "rewrite", batch |-> task[t].batch, next |-> task[t].next,
                             first |-> first.id, time |-> UnionTime(s, found),
                             others |-> {d.id : d \in found \ {first}}])
          ELSE NextStatement(t) /\ UNCHANGED windows
    /\ UNCHANGED <<docs, nextId, parents, asserted, numRemovals>>

\* Mutant: the interval of the first document is not rewritten.
rewriteFirstNot(t) ==
    /\ At(t, "rewrite")
    /\ task' = [task EXCEPT ![t].pc = "remove"]
    /\ UNCHANGED <<docs, nextId, parents, asserted, numRemovals, windows>>

\* The first of them gets the union of their intervals; the others are removed.
rewriteFirst(t) ==
    /\ At(t, "rewrite")
    /\ docs' = {IF d.id = task[t].first
                THEN [d EXCEPT !.since = task[t].time.since, !.until = task[t].time.until] ELSE d : d \in docs}
    /\ task' = [task EXCEPT ![t].pc = "remove"]
    /\ UNCHANGED <<nextId, parents, asserted, numRemovals, windows>>

removeOther(t) ==
    /\ At(t, "remove")
    /\ IF task[t].others = {} THEN NextStatement(t) /\ UNCHANGED docs
       ELSE \E id \in task[t].others :
                /\ docs' = {d \in docs : d.id # id}
                /\ task' = [task EXCEPT ![t].others = @ \ {id}]
    /\ UNCHANGED <<nextId, parents, asserted, numRemovals, windows>>

EndInsert(t) ==
    /\ At(t, "time") /\ task[t].next > Len(task[t].batch)
    /\ Set(t, Idle)
    /\ UNCHANGED <<docs, nextId, parents, asserted, numRemovals, windows>>

-----------------------------------------------------------------------------

\* The vocabulary and the parents in other documents stay as they are.
removeAll(e) ==
    /\ numRemovals < MaxRemovals
    /\ numRemovals' = numRemovals + 1
    /\ docs' = {d \in docs : ~Matches(d, e)}
    /\ windows' = windows \cup {"removed"}
    /\ UNCHANGED <<nextId, parents, task, asserted>>

insert(t) ==
    \/ (\E b \in Batches : BeginInsert(t, b)) \/ executeTellCB(t)
    \/ loadTriple(t) \/ flush(t)
    \/ readHierarchy(t) \/ writeHierarchy(t) \/ endHierarchy(t)
    \/ readOverlapping(t) \/ rewriteFirst(t) \/ removeOther(t) \/ EndInsert(t)
Next == (\E t \in Threads : insert(t)) \/ (\E e \in Removals : removeAll(e))
Spec == Init /\ [][Next]_vars

-----------------------------------------------------------------------------
(* Properties *)

\* Types, and: no two documents have the same id.
TripleFields == [subject : STRING, predicate : Properties, object : STRING, parents : SUBSET STRING,
                 uncertain : BOOLEAN, agent : SUBSET STRING, occasional : BOOLEAN,
                 since : MaybeTimes, until : MaybeTimes]
Documents == [id : Nat, subject : STRING, predicate : Properties, object : STRING, parents : SUBSET STRING,
              uncertain : BOOLEAN, agent : SUBSET STRING, occasional : BOOLEAN,
              since : MaybeTimes, until : MaybeTimes]
Places == (1 .. 3) \X Nat
Intervals == [since : MaybeTimes, until : MaybeTimes]
LoadTasks == [pc : {"load"}, batch : Seq(Statements), next : Nat \ {0}, pending : Seq(TripleFields)]
HierarchyTasks == [pc : {"hierarchy"}, batch : Seq(Statements), todo : SUBSET Places]
MergeTasks == [pc : {"merge"}, batch : Seq(Statements), todo : SUBSET Places, job : Places,
               update : SUBSET (Nat \X SUBSET STRING)]
TimeTasks == [pc : {"time"}, batch : Seq(Statements), next : Nat \ {0}]
RewriteTasks == [pc : {"rewrite", "remove"}, batch : Seq(Statements), next : Nat \ {0}, first : Nat,
                 time : Intervals, others : SUBSET Nat]
Tasks == {Idle} \cup LoadTasks \cup HierarchyTasks \cup MergeTasks \cup TimeTasks \cup RewriteTasks
TypeOK ==
    /\ docs \subseteq Documents /\ nextId \in Nat
    /\ DOMAIN parents \subseteq STRING /\ \A c \in DOMAIN parents : parents[c] \subseteq STRING
    /\ \A d, e \in docs : d.id = e.id => d = e
    /\ task \in [Threads -> Tasks]
    /\ asserted \in Seq(Seq(Statements)) /\ numRemovals \in Nat

Covers(since, until, i) == since <= i /\ (until = NoTime \/ i <= until)
IsSame(d, s) ==
    <<d.subject, d.predicate, d.object, d.agent>> = <<s.subject, s.predicate, s.object, s.agent>>
Asserted ==
    {s \in UNION {Range(asserted[k]) : k \in DOMAIN asserted} : ~IsAnnotationProperty(s.predicate)}

\* The parents in a document are all classes or properties above it, as the stored
\* subclass and subproperty triples say, in whatever order these were inserted, unless
\* inserts overlapped, or triples were removed, by a merge of the times of different
\* triples as well: a document that is created before the other insert adds a
\* parent, and stored after, misses it.
StoredParents ==
    LET of(c) == {d.object : d \in {e \in docs : e.subject = c /\ isDirectParent(e.predicate)}}
    IN [c \in {d.subject : d \in docs} |-> of(c)]
HierarchyIsIndexed ==
    (IsIdle /\ windows \cap {"overlapped", "removed", "unlinked"} = {}) =>
        \A d \in docs :
            d.parents = Above(StoredParents, {Base(d)})

\* Whatever was asserted to be always true holds in the database, at every instant of
\* its interval ("compute union of time intervals", MongoKnowledgeGraph.cpp).
AssertedHolds ==
    IsIdle =>
        \A s \in Asserted : ~s.sometimes =>
            \A i \in Times : Covers(s.begin, s.end, i) =>
                \E d \in docs : /\ IsSame(d, s) /\ ~d.occasional /\ (s.certain => ~d.uncertain)
                                /\ Covers(d.since, d.until, i)

\* Nothing holds that was not asserted, and no two documents of a statement overlap.
NothingInvented ==
    /\ \A d \in docs : ~d.occasional =>
          \A i \in Times : Covers(d.since, d.until, i) =>
              \E s \in Asserted : /\ IsSame(d, s) /\ ~s.sometimes /\ (~d.uncertain => s.certain)
                                  /\ Covers(s.begin, s.end, i)
    /\ \A d, e \in docs :
          /\ d.id # e.id /\ IsSame(d, e) /\ ~d.occasional /\ ~e.occasional /\ d.uncertain = e.uncertain
          /\ NoTime \notin {d.since, d.until, e.since, e.until}
          => \A i \in Times : ~(Covers(d.since, d.until, i) /\ Covers(e.since, e.until, i))

\* The times of documents are the union of the times asserted, unless inserts
\* overlapped, triples were removed, or the documents that were merged differed: the
\* triple of a subclass or subproperty was among them, belief was merged with
\* knowledge, or an interval was open.
TimesAreUnion ==
    windows = {} => (IsIdle => NothingInvented) /\ AssertedHolds

\* The pipeline of a query gives the join of the documents its expressions match: per
\* choice of documents that agree on the variables, an answer that holds while all of
\* them do, and is uncertain if one of them is.
Join(query) ==
    LET positive == {k \in DOMAIN query : ~query[k].negated}
        variables == UNION {VariablesOf(query[k]) : k \in positive}
        first(v) == Min({k \in positive : v \in VariablesOf(query[k])})
        value(f, v) == IF query[first(v)].subject = v THEN f[first(v)].subject ELSE f[first(v)].object
        agrees(f, k) ==
            /\ IsVariable(query[k].subject) => f[k].subject = value(f, query[k].subject)
            /\ IsVariable(query[k].object) /\ first(query[k].object) # k =>
                  value(f, query[k].object) \in (IF isTaxonomicProperty(query[k].predicate)
                                                THEN f[k].parents ELSE {f[k].object})
        answer(f) == [bindings |-> [v \in variables |-> value(f, v)],
                      since |-> Max({f[k].since : k \in positive}),
                      until |-> Min({Infinity} \cup ({f[k].until : k \in positive} \ {NoTime})),
                      uncertain |-> \E k \in positive : f[k].uncertain]
        instance(e, a) == [e EXCEPT !.subject = IF IsVariable(@) THEN a.bindings[@] ELSE @,
                                    !.object = IF IsVariable(@) THEN a.bindings[@] ELSE @]
        choices == {f \in [positive -> docs] :
                        \A k \in positive : Matches(f[k], query[k]) /\ agrees(f, k)}
    IN {a \in {answer(f) : f \in choices} :
            /\ a.since <= a.until
            /\ \A k \in DOMAIN query \ positive : \A d \in docs : ~Matches(d, instance(query[k], a))}
LookupIsJoin == \A q \in Queries : lookupTriplePaths(docs, q) = Join(q)

\* What a message asks for holds, as far as the statements of one kind (what is
\* known, or what is believed) about its agent say, with predicate p. An interval
\* is dense, so that there is an instant between 1 and 2: instants are halves.
Instants == 1 .. 2 * MaxTime + 1
CoversInstant(since, until, i) == 2 * since <= i /\ (until = NoTime \/ i <= 2 * until)
IsTrue(m, p) ==
    \E certain \in IF m.agent # {} /\ m.epistemic = "K" THEN {TRUE} ELSE BOOLEAN :
        LET l == m.literals[1]
            said == {s \in Asserted : s.certain = certain /\ ~s.sometimes /\
                <<s.subject, s.predicate, s.object, s.agent>> = <<l.subject, p, l.object, m.agent>>}
            asked == {i \in Instants : CoversInstant(ValueOf(m.begin, NoTime), ValueOf(m.end, NoTime), i)}
            isSaid(i) == \E s \in said : CoversInstant(s.begin, s.end, i)
        IN CASE m.temporal = "P" -> \E i \in asked : isSaid(i)
             [] m.temporal = "H" -> \A i \in asked : isSaid(i)
             [] OTHER            -> said # {}

\* A query message about the past is answered if what was asserted implies it, and only
\* then: also if its interval is covered by several statements together, and by
\* statements with a subproperty. (ALL_PAST without both bounds is answered too often:
\* bounds that are not given are not tested; neither is the present.)
AsksAreAnswered ==
    (IsIdle /\ windows = {}) =>
        \A m \in Asks :
            LET predicate == m.literals[1].predicate
                answers == lookupTriplePaths(docs, AskedExpressions(m))
                isPrecise == m.temporal = "P" \/ (m.temporal = "H" /\ {} \notin {m.begin, m.end})
            IN /\ IsTrue(m, predicate) => answers # {}
               /\ answers # {} /\ isPrecise =>
                      \E s \in Asserted :
                          predicate \in Above(StoredParents, {s.predicate}) /\ IsTrue(m, s.predicate)
==============================================================================
