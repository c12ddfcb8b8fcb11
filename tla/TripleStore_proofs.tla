-------------------------- MODULE TripleStore_proofs --------------------------
(***************************************************************************)
(* Proofs about the triples in the database, for any batches of statements *)
(* whose names are those of a class or of a property but not of both, and  *)
(* any number of threads, inserts and removals.                            *)
(*                                                                         *)
(* The hierarchy (HierarchyInv): the parents in a document never leave     *)
(* what can be reached from its base by the stored assertions; and they    *)
(* are closed under an assertion unless an update for it is still to come. *)
(* When no update is left they are all that is above.                      *)
(*                                                                         *)
(* The times (TimesInv): what was asserted is in some document that will   *)
(* not be removed; and if two documents of a triple overlap, there is a    *)
(* statement yet to be looked at that overlaps with both.                  *)
(***************************************************************************)
EXTENDS TripleStore, FiniteSetTheorems, WellFoundedInduction, SequenceTheorems, TLAPS

-----------------------------------------------------------------------------
(* Types, and where tasks, documents and inserts come from                   *)

\* A document, or one that is pending, has names of the right kind.
Pending(t) == IF task[t].pc = "load" THEN Range(task[t].pending) ELSE {}
Written == docs \cup UNION {Pending(t) : t \in Threads}

\* What a task points to exists.
PointsToPlaces(t) ==
    /\ task[t] # Idle => task[t].batch \in Range(asserted)
    /\ At(t, "hierarchy") => task[t].todo \subseteq Jobs(task[t].batch)
    /\ At(t, "merge") => task[t].todo \subseteq Jobs(task[t].batch) /\ task[t].job \in task[t].todo
                         /\ IsNext(task[t].job, task[t].todo)
    /\ task[t].pc \in {"rewrite", "remove"} => task[t].next \in DOMAIN task[t].batch

FromStatement(d, s) ==
    /\ <<d.subject, d.predicate, d.object, d.agent>> = <<s.subject, s.predicate, s.object, s.agent>>
    /\ d.uncertain = ~s.certain /\ d.occasional = s.sometimes
    /\ d.since = s.begin /\ d.until = s.end
SameTriple(d, s) == <<d.subject, d.predicate, d.object>> = <<s.subject, s.predicate, s.object>>

\* An update does not lose the base of a document.
UpdateHoldsBase(t) ==
    At(t, "merge") => \A u \in task[t].update :
        u[1] < nextId /\ \A d \in docs : d.id = u[1] => Base(d) \in u[2]

Basic ==
    /\ \A t \in Threads : PointsToPlaces(t)
    /\ \A t \in Threads : \A x \in Pending(t) :
          \E k \in DOMAIN task[t].batch : k < task[t].next /\ FromStatement(x, task[t].batch[k])
    /\ \A d \in docs : d.id < nextId
    /\ IsFiniteSet(docs) /\ \A t \in Threads : UpdateHoldsBase(t)
    /\ \A d \in Written : IsWellNamed(d) /\ Base(d) \in d.parents

\* One insert at a time.
Alone == \A t, u \in Threads : task[t] # Idle /\ task[u] # Idle => t = u
IsUndisturbed == windows \cap {"overlapped", "removed"} = {}

\* While an insert merges documents, they are those it has found.
Overlapping(t) ==
    {d \in docs : Matches(d, [task[t].batch[task[t].next] EXCEPT !.sometimes = TRUE])}
FoundIsStored ==
    \A t \in Threads :
        LET s == task[t].batch[task[t].next]
        IN At(t, "rewrite") =>
              /\ HasTime(s) /\ Oddities(s, Overlapping(t)) \subseteq windows
              /\ task[t].first \in {d.id : d \in Overlapping(t)}
              /\ task[t].others = {d.id : d \in Overlapping(t)} \ {task[t].first}
              /\ task[t].time = UnionTime(s, Overlapping(t))

Undisturbed == IsUndisturbed => Alone /\ FoundIsStored

-----------------------------------------------------------------------------
(* The hierarchy                                                             *)

IsLinked == windows \cap {"overlapped", "removed", "unlinked"} = {}

\* S holds what the assertions written so far say is above its members.
HoldsAsserted(S) ==
    \A e \in Written : isDirectParent(e.predicate) /\ e.subject \in S => e.object \in S

\* The vocabulary in memory knows the assertions written.
VocabularyIsWritten ==
    /\ \A c \in DOMAIN parents : \A p \in parents[c] :
          \E e \in Written : isDirectParent(e.predicate) /\ e.subject = c /\ e.object = p
    /\ \A e \in Written : isDirectParent(e.predicate) =>
          e.subject \in DOMAIN parents /\ e.object \in parents[e.subject]

\* The parents are above the base of a document.
ParentsAreAbove ==
    \A d \in Written : \A S \in SUBSET STRING :
        Base(d) \in S /\ HoldsAsserted(S) => d.parents \subseteq S

\* An update of d for the assertion e is still to come.
IsToCome(d, e) ==
    \E t \in Threads :
        \/ /\ At(t, "load")
           /\ \E k \in DOMAIN task[t].batch : k < task[t].next /\ SameTriple(e, task[t].batch[k])
        \/ /\ task[t].pc \in {"hierarchy", "merge"}
           /\ \E j \in task[t].todo :
                 (j[1] < 3) = isTaxonomicProperty(d.predicate) /\ SameTriple(e, task[t].batch[j[2]])

ParentsAreClosed ==
    \A d, e \in Written :
        isDirectParent(e.predicate) /\ e.subject \in d.parents => e.object \in d.parents \/ IsToCome(d, e)

\* The statements that were loaded are written.
LoadedIsWritten ==
    \A t \in Threads :
        /\ At(t, "load") => \A k \in DOMAIN task[t].batch :
              k < task[t].next /\ ~IsAnnotationProperty(task[t].batch[k].predicate) =>
                  \E e \in Written : SameTriple(e, task[t].batch[k])
        /\ task[t].pc \in {"hierarchy", "merge"} => \A k \in DOMAIN task[t].batch :
              ~IsAnnotationProperty(task[t].batch[k].predicate) =>
                  \E e \in Written : SameTriple(e, task[t].batch[k])

\* What readHierarchy has computed.
FoundBelow(t, j) ==
    {d \in docs : isTaxonomicProperty(d.predicate) = (j[1] < 3) /\ task[t].batch[j[2]].subject \in d.parents}
UpdateOf(t, j) == {<<d.id, d.parents \cup NewParents(j[1], task[t].batch[j[2]])>> : d \in FoundBelow(t, j)}
UpdateIsComputed ==
    \A t \in Threads : At(t, "merge") =>
        \E j \in task[t].todo : j = task[t].job /\ task[t].update = UpdateOf(t, j)

\* What is removed is one of two documents of the same triple.
RemovedIsKept ==
    \A t \in Threads : At(t, "remove") =>
        /\ task[t].first \notin task[t].others
        /\ \E f \in docs : f.id = task[t].first
              /\ \A d \in docs : d.id \in task[t].others /\ isDirectParent(d.predicate) => SameTriple(d, f)

HierarchyHolds ==
    /\ VocabularyIsWritten /\ ParentsAreAbove /\ ParentsAreClosed
    /\ LoadedIsWritten /\ UpdateIsComputed /\ RemovedIsKept
HierarchyInv == IsLinked => HierarchyHolds

-----------------------------------------------------------------------------
(* The times                                                                 *)

\* A document that will be removed.
IsDoomed(d) == \E t \in Threads : At(t, "remove") /\ d.id \in task[t].others

Says(s, d) == IsSame(d, s) /\ ~s.sometimes /\ (~d.uncertain => s.certain)
DocumentsAreAsserted ==
    \A d \in Written :
        /\ ~IsAnnotationProperty(d.predicate)
        /\ ~d.occasional => \A i \in Times : Covers(d.since, d.until, i) =>
              \E s \in Asserted : Says(s, d) /\ Covers(s.begin, s.end, i)

Holds(d, s, i) == IsSame(d, s) /\ ~d.occasional /\ (s.certain => ~d.uncertain) /\ Covers(d.since, d.until, i)
AssertedIsWritten ==
    \A s \in Asserted : ~s.sometimes => \A i \in Times : Covers(s.begin, s.end, i) =>
        \/ \E t \in Threads : At(t, "load") /\ \E k \in DOMAIN task[t].batch :
              k >= task[t].next /\ task[t].batch[k] = s
        \/ \E t \in Threads : \E x \in Pending(t) : Holds(x, s, i)
        \/ \E d \in docs : ~IsDoomed(d) /\ Holds(d, s, i)

\* The statements that are yet to be compared with the documents.
IsUnread(t, k) ==
    \/ task[t].pc \in {"load", "hierarchy", "merge"}
    \/ task[t].pc \in {"time", "rewrite"} /\ k >= task[t].next
    \/ At(t, "remove") /\ k > task[t].next
IsClosed(d) == d.since # NoTime /\ d.until # NoTime
Overlaps(s, d) ==
    /\ IsSame(d, s) /\ d.uncertain = ~s.certain /\ s.begin # NoTime /\ s.end # NoTime
    /\ d.since <= s.end /\ s.begin <= d.until
OverlapIsUnread ==
    \A d, e \in docs : \A i \in Times :
        /\ d # e /\ IsSame(d, e) /\ d.uncertain = e.uncertain /\ ~d.occasional /\ ~e.occasional
        /\ IsClosed(d) /\ IsClosed(e) /\ ~IsDoomed(d) /\ ~IsDoomed(e)
        /\ Covers(d.since, d.until, i) /\ Covers(e.since, e.until, i)
        => \E t \in Threads : task[t] # Idle /\ \E k \in DOMAIN task[t].batch :
              IsUnread(t, k) /\ Overlaps(task[t].batch[k], d) /\ Overlaps(task[t].batch[k], e)

TimesHold == DocumentsAreAsserted /\ AssertedIsWritten /\ OverlapIsUnread
TimesInv == windows = {} => TimesHold

-----------------------------------------------------------------------------
(* Numbers and sets                                                          *)

\* A set of natural numbers has a least element ...
LEMMA Least ==
    ASSUME NEW T, T \subseteq Nat, T # {}
    PROVE  \E x \in T : \A y \in T : x <= y
<1>1. IsWellFoundedOn(OpToRel(<, Nat), Nat)
  BY NatLessThanWellFounded
<1>2. \E x \in T : \A y \in T : ~(<<y, x>> \in OpToRel(<, Nat))
  BY <1>1, WFMin
<1>3. \A x, y \in Nat : x < y => <<x, y>> \in OpToRel(<, Nat)
  BY DEF OpToRel
<1>4. \E x \in T : \A y \in T : ~(y < x)
  BY <1>2, <1>3, Zenon
<1>5. ASSUME NEW x \in Nat, NEW y \in Nat, ~(y < x) PROVE x <= y
  BY <1>5
<1> QED
  BY <1>4, <1>5, Zenon

\* ... and a greatest one if it is bounded.
LEMMA Greatest ==
    ASSUME NEW T, NEW n \in Nat, T \subseteq 0 .. n, T # {}
    PROVE  \E x \in T : \A y \in T : y <= x
<1> DEFINE U == {n - x : x \in T}
<1>0. \A x \in T : x \in Int /\ 0 <= x /\ x <= n
  OBVIOUS
<1>1. U \subseteq Nat /\ U # {}
  <2>1. ASSUME NEW x \in T PROVE n - x \in Nat
    BY <1>0
  <2> QED
    BY <2>1
<1>2. PICK u \in U : \A v \in U : u <= v
  <2> HIDE DEF U
  <2> QED
    BY <1>1, Least
<1>3. PICK x \in T : u = n - x
  BY <1>2
<1>4. ASSUME NEW y \in T PROVE y <= x
  <2>1. u <= n - y
    BY <1>2
  <2> QED
    BY <1>0, <1>3, <2>1
<1> QED
  BY <1>4

\* The values of a function on a finite set.
LEMMA FiniteValues ==
    ASSUME NEW S, IsFiniteSet(S), NEW f, f = [x \in S |-> f[x]]
    PROVE  IsFiniteSet({f[x] : x \in S})
<1> DEFINE T == {f[x] : x \in S}
<1>1. f \in Surjection(S, T)
  BY DEF Surjection
<1> HIDE DEF T
<1>2. IsFiniteSet(T)
  BY <1>1, FS_Surjection
<1> QED
  BY <1>2 DEF T

\* What is above holds what it starts from, and the parents of its members, ...
LEMMA AboveHolds ==
    ASSUME NEW relation, NEW seen
    PROVE  /\ seen \subseteq Above(relation, seen)
           /\ \A c \in Above(relation, seen) \cap DOMAIN relation : relation[c] \subseteq Above(relation, seen)
<1> DEFINE nodes == seen \cup UNION {relation[c] : c \in DOMAIN relation}
           holds(S) == \A c \in S \cap DOMAIN relation : relation[c] \subseteq S
           Is(S) == seen \subseteq S /\ holds(S)
<1>1. Above(relation, seen) = {x \in nodes : \A S \in SUBSET nodes : Is(S) => x \in S}
  BY Zenon DEF Above
<1>2. seen \subseteq Above(relation, seen)
  BY <1>1
<1>3. ASSUME NEW c \in Above(relation, seen) \cap DOMAIN relation, NEW x \in relation[c]
      PROVE  x \in Above(relation, seen)
  <2>1. x \in nodes
    BY <1>3
  <2>2. ASSUME NEW S \in SUBSET nodes, Is(S) PROVE x \in S
    BY <1>1, <1>3, <2>2
  <2> QED
    BY <1>1, <2>1, <2>2
<1> QED
  BY <1>2, <1>3

\* ... and is least.
LEMMA AboveLeast ==
    ASSUME NEW relation, NEW seen, NEW S, seen \subseteq S,
           \A c \in S \cap DOMAIN relation : relation[c] \subseteq S
    PROVE  Above(relation, seen) \subseteq S
<1> DEFINE nodes == seen \cup UNION {relation[c] : c \in DOMAIN relation}
           holds(T) == \A c \in T \cap DOMAIN relation : relation[c] \subseteq T
           Is(T) == seen \subseteq T /\ holds(T)
<1>1. Above(relation, seen) = {x \in nodes : \A T \in SUBSET nodes : Is(T) => x \in T}
  BY Zenon DEF Above
<1>2. S \cap nodes \in SUBSET nodes
  OBVIOUS
<1>3. Is(S \cap nodes)
  <2>1. seen \subseteq S \cap nodes
    OBVIOUS
  <2>2. ASSUME NEW c \in (S \cap nodes) \cap DOMAIN relation PROVE relation[c] \subseteq S \cap nodes
    OBVIOUS
  <2> QED
    BY <2>1, <2>2
<1> QED
  BY <1>1, <1>2, <1>3


-----------------------------------------------------------------------------
(* Tasks                                                                     *)

\* The fields of a task depend on where it is.
LEMMA TaskIs ==
    ASSUME NEW t \in Threads, task[t] \in Tasks
    PROVE  /\ task[t].pc \in {"idle", "load", "hierarchy", "merge", "time", "rewrite", "remove"}
           /\ task[t] = Idle <=> At(t, "idle")
           /\ At(t, "load") => task[t] \in LoadTasks
           /\ At(t, "hierarchy") => task[t] \in HierarchyTasks
           /\ At(t, "merge") => task[t] \in MergeTasks
           /\ At(t, "time") => task[t] \in TimeTasks
           /\ task[t].pc \in {"rewrite", "remove"} => task[t] \in RewriteTasks
           /\ task[t] # Idle => task[t].batch \in Seq(Statements)
<1> USE DEF At, Idle
<1>1. CASE task[t] = Idle
  BY <1>1
<1>2. CASE task[t] \in LoadTasks
  BY <1>2 DEF LoadTasks
<1>3. CASE task[t] \in HierarchyTasks
  BY <1>3 DEF HierarchyTasks
<1>4. CASE task[t] \in MergeTasks
  BY <1>4 DEF MergeTasks
<1>5. CASE task[t] \in TimeTasks
  BY <1>5 DEF TimeTasks
<1>6. CASE task[t] \in RewriteTasks
  BY <1>6 DEF RewriteTasks
<1> QED
  BY <1>1, <1>2, <1>3, <1>4, <1>5, <1>6 DEF Tasks

\* A step of a thread changes its task only.
LEMMA TaskSet ==
    ASSUME task \in [Threads -> Tasks], NEW t \in Threads, NEW r \in Tasks, Set(t, r)
    PROVE  /\ task' \in [Threads -> Tasks] /\ task'[t] = r
           /\ \A u \in Threads : u # t => task'[u] = task[u]
BY DEF Set

\* What is read from a batch is a statement.
LEMMA BatchIs ==
    ASSUME NEW batch \in Seq(Statements), NEW k \in DOMAIN batch
    PROVE  /\ batch[k] \in Statements /\ k \in Nat /\ k >= 1 /\ k <= Len(batch)
           /\ DOMAIN batch = 1 .. Len(batch) /\ Len(batch) \in Nat
OBVIOUS

-----------------------------------------------------------------------------
(* Types                                                                     *)

\* A document that is created has the right fields.
LEMMA CreatedIs ==
    ASSUME NEW s \in Statements, NEW relation, DOMAIN relation \subseteq STRING,
           \A c \in DOMAIN relation : relation[c] \subseteq STRING
    PROVE  /\ createTripleDocument(s, relation) \in TripleFields
           /\ FromStatement(createTripleDocument(s, relation), s)
           /\ IsWellNamed(createTripleDocument(s, relation))
           /\ Base(createTripleDocument(s, relation)) = Base(s)
           /\ createTripleDocument(s, relation).parents = Above(relation, {Base(s)})
<1> DEFINE d == createTripleDocument(s, relation)
<1>1. s \in [subject : STRING, predicate : Properties, object : STRING, begin : MaybeTimes,
             end : MaybeTimes, certain : BOOLEAN, sometimes : BOOLEAN, agent : SUBSET STRING]
      /\ IsWellNamed(s)
  BY DEF Statements
<1>2. Base(s) \in STRING
  BY <1>1, BatchesAssumption DEF Base
<1>3. Above(relation, {Base(s)}) \subseteq STRING
  BY <1>2, AboveLeast
<1>4. d = [subject |-> s.subject, predicate |-> s.predicate, object |-> s.object,
           parents |-> Above(relation, {Base(s)}),
           uncertain |-> ~s.certain, agent |-> s.agent, occasional |-> s.sometimes,
           since |-> s.begin, until |-> s.end]
  BY DEF createTripleDocument
<1> HIDE DEF d
<1>5. d \in TripleFields
  BY <1>1, <1>3, <1>4 DEF TripleFields
<1>6. FromStatement(d, s)
  BY <1>4 DEF FromStatement
<1>7. IsWellNamed(d)
  BY <1>1, <1>4 DEF IsWellNamed
<1>8. Base(d) = Base(s) /\ d.parents = Above(relation, {Base(s)})
  BY <1>4 DEF Base
<1> QED
  BY <1>5, <1>6, <1>7, <1>8 DEF d

LEMMA InitTyped == Init => TypeOK
<1> SUFFICES ASSUME Init PROVE TypeOK
  OBVIOUS
<1>1. asserted \in Seq(Seq(Statements))
  BY DEF Init
<1>2. task \in [Threads -> Tasks]
  BY DEF Init, Tasks
<1>3. DOMAIN parents = {}
  BY DEF Init, NoParents
<1> QED
  BY <1>1, <1>2, <1>3 DEF Init, TypeOK

LEMMA BeginTyped ==
    ASSUME TypeOK, NEW t \in Threads, NEW batch \in Seq(Statements), BeginInsert(t, batch)
    PROVE  TypeOK'
<1> DEFINE r == [pc |-> "load", batch |-> batch, next |-> 1, pending |-> <<>>]
<1>1. r \in Tasks
  BY DEF Tasks, LoadTasks
<1>2. task' \in [Threads -> Tasks]
  BY <1>1, TaskSet DEF BeginInsert, TypeOK
<1>3. asserted' \in Seq(Seq(Statements))
  BY DEF BeginInsert, TypeOK
<1> QED
  BY <1>2, <1>3 DEF BeginInsert, TypeOK

\* A message tells a batch of statements.
LEMMA InsertsAreTyped == 
    /\ \A b \in Batches : b \in Seq(Statements)
    /\ \A m \in Tells : ToldStatements(m) \in Seq(Statements)
BY BatchesAssumption

LEMMA LoadTyped ==
    ASSUME TypeOK, NEW t \in Threads, loadTriple(t)
    PROVE  TypeOK'
<1> DEFINE s == Statement(t)
           r == [task[t] EXCEPT !.next = @ + 1]
<1>1. task[t] \in LoadTasks /\ task \in [Threads -> Tasks]
  BY TaskIs DEF TypeOK, loadTriple
<1>2. s \in Statements
  <2>1. task[t].batch \in Seq(Statements) /\ task[t].next \in DOMAIN task[t].batch
    BY <1>1 DEF loadTriple, LoadTasks
  <2> QED
    BY <2>1, BatchIs DEF Statement
<1>3. r \in LoadTasks
  BY <1>1 DEF LoadTasks
<1>4. CASE IsAnnotationProperty(s.predicate)
  <2>1. task' \in [Threads -> Tasks]
    BY <1>1, <1>3, <1>4, TaskSet DEF loadTriple, Tasks
  <2> QED
    BY <1>4, <2>1 DEF loadTriple, TypeOK
<1>5. CASE ~IsAnnotationProperty(s.predicate)
  <2> DEFINE x == createTripleDocument(s, parents')
  <2>1. parents' = addDirectParent(s) /\ Set(t, [r EXCEPT !.pending = Append(@, x)])
    BY <1>5 DEF loadTriple
  <2>2. DOMAIN parents' \subseteq STRING /\ \A c \in DOMAIN parents' : parents'[c] \subseteq STRING
    <3>1. s.subject \in STRING /\ s.object \in STRING
      BY <1>2 DEF Statements
    <3> QED
      BY <2>1, <3>1 DEF addDirectParent, TypeOK
  <2>3. x \in TripleFields
    BY <1>2, <2>2, CreatedIs
  <2> HIDE DEF x
  <2>4. [r EXCEPT !.pending = Append(@, x)] \in LoadTasks
    <3>1. task[t].pending \in Seq(TripleFields)
      BY <1>1 DEF LoadTasks
    <3>2. Append(task[t].pending, x) \in Seq(TripleFields)
      BY <2>3, <3>1
    <3>3. r \in LoadTasks /\ r.pending = task[t].pending
      BY <1>1, <1>3 DEF LoadTasks
    <3> HIDE DEF r
    <3> QED
      BY <3>2, <3>3 DEF LoadTasks
  <2>5. task' \in [Threads -> Tasks]
    BY <1>1, <2>1, <2>4, TaskSet DEF Tasks
  <2> QED
    BY <1>5, <2>2, <2>5 DEF loadTriple, TypeOK
<1> QED
  BY <1>4, <1>5

\* The documents that a bulk operation stores.
Stored(t) == {WithId(task[t].pending[k], nextId + k - 1) : k \in DOMAIN task[t].pending}
LEMMA StoredIs ==
    ASSUME TypeOK, NEW t \in Threads, At(t, "load")
    PROVE  /\ Stored(t) \subseteq Documents
           /\ \A d \in Stored(t) : d.id >= nextId /\ d.id < nextId + Len(task[t].pending)
           /\ \A d, e \in Stored(t) : d.id = e.id => d = e
           /\ IsFiniteSet(Stored(t))
           /\ Len(task[t].pending) \in Nat
           /\ \A d \in Stored(t) : \E x \in Pending(t) : d = WithId(x, d.id)
           /\ \A x \in Pending(t) : \E d \in Stored(t) : d = WithId(x, d.id)
           /\ Pending(t) \subseteq TripleFields
<1> DEFINE pending == task[t].pending
           doc(k) == WithId(pending[k], nextId + k - 1)
<1>1. pending \in Seq(TripleFields) /\ nextId \in Nat /\ task[t] \in LoadTasks
  BY TaskIs DEF TypeOK, LoadTasks
<1>2. /\ Len(pending) \in Nat /\ DOMAIN pending = 1 .. Len(pending)
      /\ \A k \in DOMAIN pending : pending[k] \in TripleFields
      /\ Pending(t) = {pending[k] : k \in DOMAIN pending}
  BY <1>1 DEF Pending, Range, At
<1>3. \A k \in DOMAIN pending : nextId + k - 1 \in Nat /\ nextId + k - 1 >= nextId
                                /\ nextId + k - 1 < nextId + Len(pending)
  BY <1>1, <1>2
<1>4. \A k \in DOMAIN pending : doc(k) \in Documents /\ doc(k).id = nextId + k - 1
  BY <1>2, <1>3 DEF WithId, Documents, TripleFields
<1>5. Stored(t) = {doc(k) : k \in DOMAIN pending}
  BY DEF Stored
<1>6. IsFiniteSet(Stored(t))
  <2>1. IsFiniteSet(1 .. Len(pending))
    BY <1>2, FS_Interval
  <2> DEFINE f == [k \in 1 .. Len(pending) |-> doc(k)]
  <2>2. IsFiniteSet({f[k] : k \in 1 .. Len(pending)})
    <3>1. f = [k \in 1 .. Len(pending) |-> f[k]]
      OBVIOUS
    <3> HIDE DEF f
    <3> QED
      BY <2>1, <3>1, FiniteValues
  <2> QED
    BY <1>2, <1>5, <2>2
<1>7. \A k, m \in DOMAIN pending : nextId + k - 1 = nextId + m - 1 => k = m
  BY <1>1, <1>2
<1> HIDE DEF doc
<1>8. \A d, e \in Stored(t) : d.id = e.id => d = e
  BY <1>4, <1>5, <1>7
<1>9. \A k \in DOMAIN pending : doc(k) = WithId(pending[k], doc(k).id)
  BY <1>4 DEF doc
<1> QED
  BY <1>2, <1>3, <1>4, <1>5, <1>6, <1>8, <1>9

\* The union of times: their minimum and maximum, as far as they are given.
Begins(s, found) == ({s.begin} \cup {d.since : d \in found}) \ {NoTime}
Ends(s, found) == ({s.end} \cup {d.until : d \in found}) \ {NoTime}
LEMMA UnionTimeIs ==
    ASSUME NEW s \in Statements, NEW found \in SUBSET Documents
    PROVE  LET u == UnionTime(s, found)
           IN  /\ u \in Intervals
               /\ Begins(s, found) # {} =>
                     u.since \in Begins(s, found) /\ \A y \in Begins(s, found) : u.since <= y
               /\ Ends(s, found) # {} =>
                     u.until \in Ends(s, found) /\ \A y \in Ends(s, found) : u.until >= y
               /\ Begins(s, found) \subseteq Times /\ Ends(s, found) \subseteq Times
<1> DEFINE begins == Begins(s, found)
           ends == Ends(s, found)
           u == UnionTime(s, found)
<1>1. MaxTime \in Nat
  BY BatchesAssumption
<1>2. begins \subseteq Times /\ ends \subseteq Times
  BY DEF Begins, Ends, Statements, Documents, MaybeTimes, NoTime
<1>3. u = [since |-> IF begins = {} THEN NoTime ELSE CHOOSE x \in begins : \A y \in begins : x <= y,
           until |-> IF ends = {} THEN NoTime ELSE CHOOSE x \in ends : \A y \in ends : x >= y]
  BY DEF UnionTime, Begins, Ends
<1>4. Times \subseteq Nat /\ Times \subseteq 0 .. MaxTime
  BY <1>1 DEF Times
<1> HIDE DEF begins, ends, u
<1>5. begins # {} => \E x \in begins : \A y \in begins : x <= y
  BY <1>2, <1>4, Least
<1>6. ends # {} => \E x \in ends : \A y \in ends : x >= y
  <2> SUFFICES ASSUME ends # {} PROVE \E x \in ends : \A y \in ends : x >= y
    OBVIOUS
  <2>1. PICK x \in ends : \A y \in ends : y <= x
    BY <1>1, <1>2, <1>4, Greatest
  <2> QED
    BY <1>2, <1>4, <2>1
<1>7. begins # {} => u.since \in begins /\ \A y \in begins : u.since <= y
  BY <1>3, <1>5
<1>8. ends # {} => u.until \in ends /\ \A y \in ends : u.until >= y
  BY <1>3, <1>6
<1>9. u \in Intervals
  BY <1>2, <1>3, <1>7, <1>8 DEF Intervals, MaybeTimes
<1> QED
  BY <1>2, <1>7, <1>8, <1>9 DEF begins, ends, u

\* Documents that are changed one by one keep their ids.
LEMMA MappedDocuments ==
    ASSUME NEW D \in SUBSET Documents, \A d, e \in D : d.id = e.id => d = e, IsFiniteSet(D),
           NEW W, W = [d \in D |-> W[d]], \A d \in D : W[d] \in Documents /\ W[d].id = d.id
    PROVE  /\ {W[d] : d \in D} \subseteq Documents
           /\ \A d, e \in {W[x] : x \in D} : d.id = e.id => d = e
           /\ IsFiniteSet({W[d] : d \in D})
<1>1. IsFiniteSet({W[d] : d \in D})
  BY FiniteValues
<1>2. ASSUME NEW d \in D, NEW e \in D, W[d].id = W[e].id PROVE W[d] = W[e]
  BY <1>2
<1> QED
  BY <1>1, <1>2

\* What writeHierarchy makes of a document.
Updated(t, d) ==
    LET new == {u[2] : u \in {v \in task[t].update : v[1] = d.id}}
    IN [d EXCEPT !.parents = IF new = {} THEN @ ELSE UNION new]
LEMMA UpdatedIs ==
    ASSUME TypeOK, NEW t \in Threads, At(t, "merge"), NEW d \in docs
    PROVE  /\ Updated(t, d) \in Documents
           /\ Updated(t, d) = [d EXCEPT !.parents = Updated(t, d).parents]
           /\ \A f \in {"id", "subject", "predicate", "object", "uncertain", "agent", "occasional",
                        "since", "until"} : Updated(t, d)[f] = d[f]
<1> DEFINE new == {u[2] : u \in {v \in task[t].update : v[1] = d.id}}
           p == IF new = {} THEN d.parents ELSE UNION new
<1>1. task[t].update \subseteq Nat \X SUBSET STRING
  BY TaskIs DEF TypeOK, MergeTasks
<1>2. d \in Documents
  BY DEF TypeOK
<1>3. p \in SUBSET STRING
  BY <1>1, <1>2 DEF Documents
<1>4. Updated(t, d) = [d EXCEPT !.parents = p]
  BY DEF Updated
<1> HIDE DEF p
<1> QED
  BY <1>2, <1>3, <1>4 DEF Documents

\* What rewriteFirst makes of a document.
Rewritten(t, d) ==
    IF d.id = task[t].first
    THEN [d EXCEPT !.since = task[t].time.since, !.until = task[t].time.until] ELSE d
LEMMA RewrittenIs ==
    ASSUME TypeOK, NEW t \in Threads, At(t, "rewrite"), NEW d \in docs
    PROVE  /\ Rewritten(t, d) \in Documents
           /\ \A f \in {"id", "subject", "predicate", "object", "parents", "uncertain", "agent",
                        "occasional"} : Rewritten(t, d)[f] = d[f]
           /\ d.id # task[t].first => Rewritten(t, d) = d
           /\ d.id = task[t].first => /\ Rewritten(t, d).since = task[t].time.since
                                      /\ Rewritten(t, d).until = task[t].time.until
<1>1. task[t].time \in Intervals
  BY TaskIs DEF TypeOK, RewriteTasks, At
<1>2. d \in Documents
  BY DEF TypeOK
<1>3. task[t].time.since \in MaybeTimes /\ task[t].time.until \in MaybeTimes
  BY <1>1 DEF Intervals
<1> QED
  BY <1>2, <1>3 DEF Documents, Rewritten

\* What the steps that change documents do to them.
LEMMA FlushDoes ==
    ASSUME NEW t \in Threads, flush(t)
    PROVE  docs' = docs \cup Stored(t)
BY DEF flush, Stored
LEMMA WriteDoes ==
    ASSUME NEW t \in Threads, writeHierarchy(t)
    PROVE  docs' = {Updated(t, d) : d \in docs}
BY DEF writeHierarchy, Updated
LEMMA RewriteDoes ==
    ASSUME NEW t \in Threads, rewriteFirst(t)
    PROVE  docs' = {Rewritten(t, d) : d \in docs}
BY DEF rewriteFirst, Rewritten

LEMMA FlushTyped ==
    ASSUME TypeOK, NEW t \in Threads, flush(t), \A d \in docs : d.id < nextId
    PROVE  TypeOK' /\ (\A d \in docs' : d.id < nextId') /\ (IsFiniteSet(docs) => IsFiniteSet(docs'))
<1>1. At(t, "load") /\ task[t] \in LoadTasks /\ task \in [Threads -> Tasks]
      /\ docs \subseteq Documents /\ nextId \in Nat
  BY TaskIs DEF flush, TypeOK
<1>2. docs' = docs \cup Stored(t) /\ nextId' = nextId + Len(task[t].pending)
  BY FlushDoes DEF flush
<1>3. docs' \subseteq Documents /\ nextId' \in Nat
  BY <1>1, <1>2, StoredIs
<1>4. \A d \in docs' : d.id < nextId' /\ d.id \in Nat
  <2>1. \A d \in docs' : d.id \in Nat
    BY <1>3 DEF Documents
  <2> QED
    BY <1>1, <1>2, <2>1, StoredIs
<1>5. \A d, e \in docs' : d.id = e.id => d = e
  <2>1. \A d \in docs : d.id < nextId /\ d.id \in Nat
    BY <1>1 DEF Documents
  <2>2. \A d \in Stored(t) : d.id >= nextId
    BY <1>1, StoredIs
  <2>3. \A d \in docs, e \in Stored(t) : d.id # e.id
    BY <1>1, <1>4, <1>2, <2>1, <2>2
  <2> QED
    BY <1>1, <1>2, <2>3, StoredIs DEF TypeOK
<1>6. task' \in [Threads -> Tasks]
  <2>1. task[t].batch \in Seq(Statements)
    BY <1>1 DEF LoadTasks
  <2>2. Jobs(task[t].batch) \in SUBSET Places
    BY <2>1 DEF Jobs, Places
  <2>3. [pc |-> "hierarchy", batch |-> task[t].batch, todo |-> Jobs(task[t].batch)] \in HierarchyTasks
    BY <2>1, <2>2 DEF HierarchyTasks
  <2>4. [task[t] EXCEPT !.pending = <<>>] \in LoadTasks
    <3>1. <<>> \in Seq(TripleFields)
      OBVIOUS
    <3> QED
      BY <1>1, <3>1 DEF LoadTasks
  <2> QED
    BY <1>1, <2>3, <2>4, TaskSet DEF flush, Tasks
<1>7. IsFiniteSet(docs) => IsFiniteSet(docs')
  BY <1>1, <1>2, StoredIs, FS_Union
<1>8. UNCHANGED <<parents, asserted, numRemovals>>
  BY DEF flush
<1> QED
  BY <1>3, <1>4, <1>5, <1>6, <1>7, <1>8 DEF TypeOK

LEMMA ReadHierarchyTyped ==
    ASSUME TypeOK, NEW t \in Threads, readHierarchy(t), task[t].todo \subseteq Jobs(task[t].batch)
    PROVE  TypeOK'
<1>1. task[t] \in HierarchyTasks /\ task \in [Threads -> Tasks] /\ docs \subseteq Documents
  BY TaskIs DEF readHierarchy, TypeOK
<1>2. PICK j \in task[t].todo :
          LET s == task[t].batch[j[2]]
              found == {d \in docs : /\ isTaxonomicProperty(d.predicate) = (j[1] < 3)
                                     /\ s.subject \in d.parents}
          IN Set(t, [pc |-> "merge", batch |-> task[t].batch, todo |-> task[t].todo, job |-> j,
                     update |-> {<<d.id, d.parents \cup NewParents(j[1], s)>> : d \in found}])
  BY DEF readHierarchy
<1> DEFINE s == task[t].batch[j[2]]
           found == {d \in docs : isTaxonomicProperty(d.predicate) = (j[1] < 3) /\ s.subject \in d.parents}
           update == {<<d.id, d.parents \cup NewParents(j[1], s)>> : d \in found}
<1>3. j \in Places /\ task[t].batch \in Seq(Statements) /\ task[t].todo \in SUBSET Places
  BY <1>1, <1>2 DEF HierarchyTasks
<1>4. \A e, r : ParentsOf(e, r) \subseteq STRING
  BY <1>1 DEF ParentsOf, Documents

<1>5. s \in Statements
  <2>1. j[2] \in DOMAIN task[t].batch
    BY <1>2 DEF Jobs
  <2> QED
    BY <1>3, <2>1, BatchIs
<1>6. NewParents(j[1], s) \in SUBSET STRING
  BY <1>4, <1>5 DEF NewParents, Statements
<1>7. update \subseteq Nat \X SUBSET STRING
  BY <1>1, <1>6 DEF Documents
<1> HIDE DEF update
<1>8. [pc |-> "merge", batch |-> task[t].batch, todo |-> task[t].todo, job |-> j, update |-> update]
      \in MergeTasks
  BY <1>3, <1>7 DEF MergeTasks
<1>9. task' \in [Threads -> Tasks]
  BY <1>1, <1>2, <1>8, TaskSet DEF Tasks, update
<1> QED
  BY <1>9 DEF readHierarchy, TypeOK

LEMMA WriteHierarchyTyped ==
    ASSUME TypeOK, NEW t \in Threads, writeHierarchy(t), IsFiniteSet(docs)
    PROVE  TypeOK' /\ IsFiniteSet(docs')
<1>1. task[t] \in MergeTasks /\ task \in [Threads -> Tasks] /\ docs \subseteq Documents
  BY TaskIs DEF writeHierarchy, TypeOK
<1>2. [pc |-> "hierarchy", batch |-> task[t].batch,
       todo |-> {i \in task[t].todo : ~UpdatesSame(t, i, task[t].job)}] \in HierarchyTasks
  BY <1>1 DEF MergeTasks, HierarchyTasks
<1>3. task' \in [Threads -> Tasks]
  BY <1>1, <1>2, TaskSet DEF writeHierarchy, Tasks
<1> DEFINE W == [d \in docs |-> Updated(t, d)]
<1>4. W = [d \in docs |-> W[d]] /\ docs' = {W[d] : d \in docs}
  BY WriteDoes
<1>5. \A d \in docs : W[d] \in Documents /\ W[d].id = d.id
  BY UpdatedIs DEF writeHierarchy
<1> HIDE DEF W
<1>6. docs' \subseteq Documents /\ IsFiniteSet(docs') /\ \A d, e \in docs' : d.id = e.id => d = e
  <2>1. \A d, e \in docs : d.id = e.id => d = e
    BY DEF TypeOK
  <2> QED
    BY <1>1, <1>4, <1>5, <2>1, MappedDocuments
<1> QED
  BY <1>3, <1>6 DEF writeHierarchy, TypeOK

LEMMA EndHierarchyTyped ==
    ASSUME TypeOK, NEW t \in Threads, endHierarchy(t)
    PROVE  TypeOK'
<1>1. task[t] \in HierarchyTasks /\ task \in [Threads -> Tasks]
  BY TaskIs DEF endHierarchy, TypeOK
<1>2. [pc |-> "time", batch |-> task[t].batch, next |-> 1] \in TimeTasks
  BY <1>1 DEF HierarchyTasks, TimeTasks
<1>3. task' \in [Threads -> Tasks]
  BY <1>1, <1>2, TaskSet DEF endHierarchy, Tasks
<1> QED
  BY <1>3 DEF endHierarchy, TypeOK

\* The next statement is looked at.
LEMMA NextTyped ==
    ASSUME TypeOK, NEW t \in Threads, NextStatement(t), task[t].pc \in {"time", "remove"}
    PROVE  task' \in [Threads -> Tasks]
<1>1. task \in [Threads -> Tasks] /\ task[t] \in TimeTasks \cup RewriteTasks
  BY TaskIs DEF TypeOK, At
<1>2. [pc |-> "time", batch |-> task[t].batch, next |-> task[t].next + 1] \in TimeTasks
  BY <1>1 DEF TimeTasks, RewriteTasks
<1> QED
  BY <1>1, <1>2, TaskSet DEF NextStatement, Tasks

\* What readOverlapping has found.
LEMMA OverlappingRead ==
    ASSUME NEW t \in Threads, readOverlapping(t)
    PROVE  LET s == Statement(t)
           IN  \/ /\ HasTime(s) /\ Cardinality(Overlapping(t)) > 1
                  /\ windows' = windows \cup Oddities(s, Overlapping(t))
                  /\ \E first \in Overlapping(t) :
                        Set(t, [pc |-> "rewrite", batch |-> task[t].batch, next |-> task[t].next,
                                first |-> first.id, time |-> UnionTime(s, Overlapping(t)),
                                others |-> {d.id : d \in Overlapping(t) \ {first}}])
               \/ /\ ~(HasTime(s) /\ Cardinality(Overlapping(t)) > 1)
                  /\ NextStatement(t) /\ windows' = windows
BY DEF readOverlapping, Overlapping, Statement

LEMMA ReadOverlappingTyped ==
    ASSUME TypeOK, NEW t \in Threads, readOverlapping(t)
    PROVE  TypeOK'
<1>1. task[t] \in TimeTasks /\ task \in [Threads -> Tasks] /\ docs \subseteq Documents
  BY TaskIs DEF readOverlapping, TypeOK
<1>2. task[t].batch \in Seq(Statements) /\ task[t].next \in DOMAIN task[t].batch
  BY <1>1 DEF readOverlapping, TimeTasks
<1>3. Statement(t) \in Statements
  BY <1>2, BatchIs DEF Statement
<1>4. Overlapping(t) \in SUBSET Documents
  BY <1>1 DEF Overlapping
<1>5. UnionTime(Statement(t), Overlapping(t)) \in Intervals
  BY <1>3, <1>4, UnionTimeIs
<1>6. task' \in [Threads -> Tasks]
  <2>1. ASSUME NEW first \in Overlapping(t)
        PROVE  [pc |-> "rewrite", batch |-> task[t].batch, next |-> task[t].next,
                first |-> first.id, time |-> UnionTime(Statement(t), Overlapping(t)),
                others |-> {d.id : d \in Overlapping(t) \ {first}}] \in RewriteTasks
    <3>1. first.id \in Nat /\ {d.id : d \in Overlapping(t) \ {first}} \in SUBSET Nat
      BY <1>4 DEF Documents
    <3> QED
      BY <1>1, <1>5, <3>1 DEF TimeTasks, RewriteTasks
  <2>2. CASE NextStatement(t)
    BY <2>2, NextTyped DEF readOverlapping, At
  <2>3. CASE \E first \in Overlapping(t) :
                 Set(t, [pc |-> "rewrite", batch |-> task[t].batch, next |-> task[t].next,
                         first |-> first.id, time |-> UnionTime(Statement(t), Overlapping(t)),
                         others |-> {d.id : d \in Overlapping(t) \ {first}}])
    BY <1>1, <2>1, <2>3, TaskSet DEF Tasks
  <2> QED
    BY <2>2, <2>3, OverlappingRead
<1> QED
  BY <1>6 DEF readOverlapping, TypeOK

LEMMA RewriteTyped ==
    ASSUME TypeOK, NEW t \in Threads, rewriteFirst(t), IsFiniteSet(docs)
    PROVE  TypeOK' /\ IsFiniteSet(docs')
<1>1. task[t] \in RewriteTasks /\ task \in [Threads -> Tasks] /\ docs \subseteq Documents
      /\ At(t, "rewrite")
  BY TaskIs DEF rewriteFirst, TypeOK, At
<1>2. [task[t] EXCEPT !.pc = "remove"] \in RewriteTasks
  BY <1>1 DEF RewriteTasks
<1>3. Set(t, [task[t] EXCEPT !.pc = "remove"])
  BY <1>1 DEF rewriteFirst, Set
<1>4. task' \in [Threads -> Tasks]
  BY <1>1, <1>2, <1>3, TaskSet DEF Tasks
<1> DEFINE W == [d \in docs |-> Rewritten(t, d)]
<1>5. W = [d \in docs |-> W[d]] /\ docs' = {W[d] : d \in docs}
  BY RewriteDoes
<1>6. \A d \in docs : W[d] \in Documents /\ W[d].id = d.id
  BY <1>1, RewrittenIs
<1> HIDE DEF W
<1>7. docs' \subseteq Documents /\ IsFiniteSet(docs') /\ \A d, e \in docs' : d.id = e.id => d = e
  BY <1>1, <1>5, <1>6, MappedDocuments DEF TypeOK
<1> QED
  BY <1>4, <1>7 DEF rewriteFirst, TypeOK

\* removeOther ends, or removes a document.
LEMMA RemoveDoes ==
    ASSUME TypeOK, NEW t \in Threads, removeOther(t)
    PROVE  \/ task[t].others = {} /\ NextStatement(t) /\ docs' = docs
           \/ \E id \in task[t].others :
                 /\ docs' = {d \in docs : d.id # id}
                 /\ Set(t, [task[t] EXCEPT !.others = @ \ {id}])
                 /\ [task[t] EXCEPT !.others = @ \ {id}] \in RewriteTasks
<1>1. task[t] \in RewriteTasks
  BY TaskIs DEF removeOther, TypeOK, At
<1>2. \A id : [task[t] EXCEPT !.others = @ \ {id}] \in RewriteTasks
  BY <1>1 DEF RewriteTasks
<1>3. task \in [Threads -> Tasks]
  BY DEF TypeOK
<1> QED
  BY <1>2, <1>3 DEF removeOther, Set

LEMMA RemoveTyped ==
    ASSUME TypeOK, NEW t \in Threads, removeOther(t)
    PROVE  TypeOK' /\ docs' \subseteq docs
<1>1. task \in [Threads -> Tasks] /\ docs \subseteq Documents
  BY DEF TypeOK
<1>2. docs' \subseteq docs
  BY RemoveDoes
<1>3. task' \in [Threads -> Tasks]
  <2>1. CASE NextStatement(t)
    BY <2>1, NextTyped DEF removeOther, At
  <2> QED
    BY <1>1, <2>1, RemoveDoes, TaskSet DEF Tasks
<1> QED
  BY <1>1, <1>2, <1>3 DEF removeOther, TypeOK

LEMMA EndTyped ==
    ASSUME TypeOK, NEW t \in Threads, EndInsert(t)
    PROVE  TypeOK'
<1>1. task' \in [Threads -> Tasks]
  BY TaskSet DEF EndInsert, TypeOK, Tasks
<1> QED
  BY <1>1 DEF EndInsert, TypeOK

LEMMA RemoveAllTyped ==
    ASSUME TypeOK, NEW e \in Removals, removeAll(e)
    PROVE  TypeOK' /\ docs' \subseteq docs
BY DEF removeAll, TypeOK

-----------------------------------------------------------------------------
(* Where tasks and documents come from                                       *)

LEMMA InitBasic == Init => Basic
<1> SUFFICES ASSUME Init PROVE Basic
  OBVIOUS
<1>1. \A t \in Threads : task[t] = Idle
  BY DEF Init
<1>2. docs = {} /\ Written = {}
  BY <1>1 DEF Init, Written, Pending, Idle
<1>3. \A t \in Threads : PointsToPlaces(t) /\ Pending(t) = {} /\ UpdateHoldsBase(t)
  BY <1>1 DEF PointsToPlaces, Pending, Idle, At, UpdateHoldsBase
<1> QED
  BY <1>2, <1>3, FS_EmptySet DEF Basic

\* A step of a thread that does not load leaves what is pending.
LEMMA PendingSame ==
    ASSUME NEW t \in Threads, task[t].pc # "load", (task[t].pc)' # "load",
           \A u \in Threads : u # t => task'[u] = task[u]
    PROVE  (\A u \in Threads : Pending(u)' = Pending(u)) /\ Pending(t) = {}
BY DEF Pending

LEMMA BasicQuiet ==
    ASSUME Basic, NEW t \in Threads, task[t].pc # "load", (task[t].pc)' # "load",
           \A u \in Threads : u # t => task'[u] = task[u],
           PointsToPlaces(t)', UNCHANGED <<asserted, nextId>>, IsFiniteSet(docs'),
           \A u \in Threads : UpdateHoldsBase(u)',
           \A d \in docs' : d.id < nextId /\ IsWellNamed(d) /\ Base(d) \in d.parents
    PROVE  Basic'
<1>1. (\A u \in Threads : Pending(u)' = Pending(u)) /\ Pending(t) = {}
  BY PendingSame
<1>2. \A u \in Threads : PointsToPlaces(u)'
  BY DEF Basic, PointsToPlaces, At
<1>3. ASSUME NEW u \in Threads, NEW x \in Pending(u)'
      PROVE  \E k \in DOMAIN task'[u].batch : k < task'[u].next /\ FromStatement(x, task'[u].batch[k])
  <2>1. u # t /\ task'[u] = task[u] /\ x \in Pending(u)
    BY <1>1, <1>3
  <2> QED
    BY <2>1 DEF Basic
<1>4. \A d \in Written' : IsWellNamed(d) /\ Base(d) \in d.parents
  BY <1>1 DEF Basic, Written
<1> QED
  BY <1>2, <1>3, <1>4 DEF Basic

LEMMA BeginBasic ==
    ASSUME TypeOK, Basic, NEW t \in Threads, NEW batch \in Seq(Statements), BeginInsert(t, batch)
    PROVE  Basic'
<1>1. task[t] = Idle /\ task \in [Threads -> Tasks] /\ asserted \in Seq(Seq(Statements))
  BY TaskIs DEF TypeOK, BeginInsert
<1>2. /\ task'[t] = [pc |-> "load", batch |-> batch, next |-> 1, pending |-> <<>>]
      /\ \A u \in Threads : u # t => task'[u] = task[u]
  BY <1>1 DEF BeginInsert, Set
<1>3. Range(asserted') = Range(asserted) \cup {batch}
  <2>1. asserted' = Append(asserted, batch)
    BY DEF BeginInsert
  <2>2. DOMAIN asserted' = DOMAIN asserted \cup {Len(asserted) + 1} /\ asserted'[Len(asserted) + 1] = batch
        /\ \A k \in DOMAIN asserted : asserted'[k] = asserted[k]
    BY <1>1, <2>1
  <2> QED
    BY <2>2 DEF Range
<1>4. Pending(t)' = {} /\ Pending(t) = {} /\ \A u \in Threads : Pending(u)' = Pending(u)
  <2>1. Range(<<>>) = {}
    BY DEF Range
  <2>2. Pending(t)' = {} /\ Pending(t) = {}
    BY <1>1, <1>2, <2>1 DEF Pending, Idle
  <2> QED
    BY <1>2, <2>2 DEF Pending
<1>5. \A u \in Threads : PointsToPlaces(u)'
  <2>1. PointsToPlaces(t)'
    BY <1>2, <1>3 DEF PointsToPlaces, At
  <2>2. \A u \in Threads : u # t => PointsToPlaces(u)'
    BY <1>2, <1>3 DEF PointsToPlaces, At, Basic
  <2> QED
    BY <2>1, <2>2
<1>6. ASSUME NEW u \in Threads, NEW x \in Pending(u)'
      PROVE  \E k \in DOMAIN task'[u].batch : k < task'[u].next /\ FromStatement(x, task'[u].batch[k])
  <2>1. u # t /\ task'[u] = task[u] /\ x \in Pending(u)
    BY <1>2, <1>4, <1>6
  <2> QED
    BY <2>1 DEF Basic
<1>7. UNCHANGED <<docs, nextId>> /\ Written' = Written
  BY <1>4 DEF BeginInsert, Written
<1>8. \A u \in Threads : UpdateHoldsBase(u)'
  BY <1>2, <1>7 DEF UpdateHoldsBase, At, Basic
<1> QED
  BY <1>5, <1>6, <1>7, <1>8 DEF Basic

\* What loadTriple does: it adds a document to what is pending.
NewDocument(t) == createTripleDocument(Statement(t), addDirectParent(Statement(t)))
LEMMA LoadDoes ==
    ASSUME TypeOK, NEW t \in Threads, loadTriple(t)
    PROVE  LET s == Statement(t)
           IN  /\ s \in Statements /\ task[t].next \in DOMAIN task[t].batch
               /\ s = task[t].batch[task[t].next]
               /\ task[t] \in LoadTasks /\ At(t, "load")
               /\ \A u \in Threads : u # t => task'[u] = task[u] /\ Pending(u)' = Pending(u)
               /\ (task[t].pc)' = "load" /\ (task[t].batch)' = task[t].batch
               /\ (task[t].next)' = task[t].next + 1
               /\ UNCHANGED <<docs, nextId, asserted, numRemovals, windows>>
               /\ IF IsAnnotationProperty(s.predicate)
                  THEN parents' = parents /\ Pending(t)' = Pending(t) /\ Written' = Written
                  ELSE /\ parents' = addDirectParent(s)
                       /\ NewDocument(t) \in TripleFields
                       /\ FromStatement(NewDocument(t), s) /\ IsWellNamed(NewDocument(t))
                       /\ Base(NewDocument(t)) = Base(s)
                       /\ NewDocument(t).parents = Above(parents', {Base(s)})
                       /\ Pending(t)' = Pending(t) \cup {NewDocument(t)}
                       /\ Written' = Written \cup {NewDocument(t)}
<1> DEFINE s == Statement(t)
           r == [task[t] EXCEPT !.next = @ + 1]
           x == NewDocument(t)
<1>1. task[t] \in LoadTasks /\ task \in [Threads -> Tasks] /\ At(t, "load")
  BY TaskIs DEF TypeOK, loadTriple
<1>2. s \in Statements /\ task[t].next \in DOMAIN task[t].batch
  <2>1. task[t].batch \in Seq(Statements) /\ task[t].next \in DOMAIN task[t].batch
    BY <1>1 DEF loadTriple, LoadTasks
  <2> QED
    BY <2>1, BatchIs DEF Statement
<1>3. UNCHANGED <<docs, nextId, asserted, numRemovals, windows>>
  BY DEF loadTriple
<1>4. CASE IsAnnotationProperty(s.predicate)
  <2>1. task'[t] = r /\ \A u \in Threads : u # t => task'[u] = task[u]
    BY <1>1, <1>4 DEF loadTriple, Set
  <2>2. r.pc = "load" /\ r.batch = task[t].batch /\ r.next = task[t].next + 1 /\ r.pending = task[t].pending
    BY <1>1 DEF LoadTasks
  <2>3. Pending(t)' = Pending(t) /\ \A u \in Threads : u # t => Pending(u)' = Pending(u)
    BY <1>1, <2>1, <2>2 DEF Pending, At
  <2>4. Written' = Written
    BY <1>3, <2>3 DEF Written
  <2> QED
    BY <1>1, <1>2, <1>3, <1>4, <2>1, <2>2, <2>3, <2>4 DEF loadTriple, Statement
<1>5. CASE ~IsAnnotationProperty(s.predicate)
  <2>1. parents' = addDirectParent(s) /\ Set(t, [r EXCEPT !.pending = Append(@, x)])
    BY <1>5 DEF loadTriple, NewDocument
  <2>2. DOMAIN parents' \subseteq STRING /\ \A c \in DOMAIN parents' : parents'[c] \subseteq STRING
    <3>1. s.subject \in STRING /\ s.object \in STRING
      BY <1>2 DEF Statements
    <3> QED
      BY <2>1, <3>1 DEF addDirectParent, TypeOK
  <2>3. /\ x \in TripleFields /\ FromStatement(x, s) /\ IsWellNamed(x) /\ Base(x) = Base(s)
        /\ x.parents = Above(parents', {Base(s)})
    BY <1>2, <2>1, <2>2, CreatedIs DEF NewDocument
  <2> HIDE DEF x
  <2>4. task'[t] = [r EXCEPT !.pending = Append(@, x)] /\ \A u \in Threads : u # t => task'[u] = task[u]
    BY <1>1, <2>1 DEF Set
  <2>5. /\ (task[t].pc)' = "load" /\ (task[t].batch)' = task[t].batch
        /\ (task[t].next)' = task[t].next + 1 /\ (task[t].pending)' = Append(task[t].pending, x)
    BY <1>1, <2>4 DEF LoadTasks
  <2>6. Range(Append(task[t].pending, x)) = Range(task[t].pending) \cup {x}
    <3>1. task[t].pending \in Seq(TripleFields)
      BY <1>1 DEF LoadTasks
    <3> DEFINE q == task[t].pending
    <3>2. /\ DOMAIN Append(q, x) = DOMAIN q \cup {Len(q) + 1} /\ Append(q, x)[Len(q) + 1] = x
          /\ \A k \in DOMAIN q : Append(q, x)[k] = q[k]
      BY <3>1
    <3> QED
      BY <3>2 DEF Range
  <2>7. Pending(t)' = Pending(t) \cup {x} /\ \A u \in Threads : u # t => Pending(u)' = Pending(u)
    BY <1>1, <2>4, <2>5, <2>6 DEF Pending, At
  <2>8. Written' = Written \cup {x}
    BY <1>3, <2>7 DEF Written
  <2> QED
    BY <1>1, <1>2, <1>3, <1>5, <2>1, <2>3, <2>4, <2>5, <2>7, <2>8 DEF Statement, x
<1> QED
  BY <1>4, <1>5

LEMMA LoadBasic ==
    ASSUME TypeOK, Basic, NEW t \in Threads, loadTriple(t)
    PROVE  Basic'
<1> DEFINE s == Statement(t)
           x == NewDocument(t)
<1>1. UNCHANGED <<docs, nextId, asserted>> /\ task[t].next \in Nat
  BY LoadDoes DEF LoadTasks
<1>2. \A u \in Threads : PointsToPlaces(u)'
  <2>1. PointsToPlaces(t)'
    <3>1. task[t] # Idle /\ task[t].batch \in Range(asserted)
      <4>1. At(t, "load")
        BY LoadDoes
      <4> QED
        BY <4>1 DEF PointsToPlaces, Basic, At, Idle
    <3>2. (task[t].pc)' = "load" /\ (task[t].batch)' = task[t].batch /\ asserted' = asserted
      BY <1>1, LoadDoes
    <3> QED
      BY <3>1, <3>2 DEF PointsToPlaces, At
  <2>2. \A u \in Threads : u # t => PointsToPlaces(u)'
    BY <1>1, LoadDoes DEF PointsToPlaces, Basic, At
  <2> QED
    BY <2>1, <2>2
<1>3. ASSUME NEW u \in Threads, NEW y \in Pending(u)'
      PROVE  \E k \in DOMAIN task'[u].batch : k < task'[u].next /\ FromStatement(y, task'[u].batch[k])
  <2>1. CASE y \in Pending(u)
    <3>1. PICK k \in DOMAIN task[u].batch : k < task[u].next /\ FromStatement(y, task[u].batch[k])
      BY <2>1 DEF Basic
    <3>2. k \in Nat /\ (u = t => k < task[t].next + 1)
      <4>1. task[u] \in Tasks /\ At(u, "load")
        BY <2>1 DEF TypeOK, Pending, At
      <4>2. task[u].batch \in Seq(Statements)
        BY <4>1, TaskIs DEF LoadTasks
      <4> QED
        BY <1>1, <3>1, <4>2
    <3> QED
      BY <3>1, <3>2, LoadDoes
  <2>2. CASE y \notin Pending(u)
    <3>1. u = t /\ y = x /\ FromStatement(x, s)
      BY <1>3, <2>2, LoadDoes
    <3>2. /\ task[t].next \in DOMAIN task'[t].batch /\ task[t].next < task'[t].next
          /\ s = task'[t].batch[task[t].next]
      <4>1. /\ task[t].next \in DOMAIN task[t].batch /\ s = task[t].batch[task[t].next]
            /\ task'[t].batch = task[t].batch /\ task'[t].next = task[t].next + 1
        BY LoadDoes
      <4> QED
        BY <1>1, <4>1
    <3> QED
      BY <3>1, <3>2
  <2> QED
    BY <2>1, <2>2
<1>4. \A d \in Written' : IsWellNamed(d) /\ Base(d) \in d.parents
  <2>1. CASE Written' = Written
    BY <2>1 DEF Basic
  <2>2. CASE Written' # Written
    <3>1. Written' = Written \cup {x} /\ IsWellNamed(x) /\ Base(x) = Base(s)
          /\ x.parents = Above(parents', {Base(s)})
      BY <2>2, LoadDoes
    <3>2. Base(s) \in Above(parents', {Base(s)})
      BY AboveHolds
    <3> QED
      BY <3>1, <3>2 DEF Basic
  <2> QED
    BY <2>1, <2>2
<1>5. \A u \in Threads : UpdateHoldsBase(u)'
  <2>1. (task[t].pc)' = "load" /\ \A u \in Threads : u # t => task'[u] = task[u]
    BY LoadDoes
  <2> QED
    BY <1>1, <2>1 DEF UpdateHoldsBase, At, Basic
<1> QED
  BY <1>1, <1>2, <1>3, <1>4, <1>5 DEF Basic

\* What flush does: what was pending is stored, under new ids.
SameContent(d, e) ==
    /\ d.subject = e.subject /\ d.predicate = e.predicate /\ d.object = e.object /\ d.parents = e.parents
    /\ d.uncertain = e.uncertain /\ d.agent = e.agent /\ d.occasional = e.occasional
    /\ d.since = e.since /\ d.until = e.until
LEMMA FlushWrites ==
    ASSUME TypeOK, NEW t \in Threads, flush(t)
    PROVE  /\ At(t, "load") /\ docs' = docs \cup Stored(t) /\ Pending(t)' = {}
           /\ \A u \in Threads : u # t => task'[u] = task[u] /\ Pending(u)' = Pending(u)
           /\ task'[t].batch = task[t].batch /\ task'[t] # Idle
           /\ UNCHANGED <<parents, asserted, numRemovals, windows>>
           /\ \/ task'[t].pc = "load" /\ task'[t].next = task[t].next
              \/ /\ task'[t].pc = "hierarchy" /\ task'[t].todo = Jobs(task[t].batch)
                 /\ task[t].next > Len(task[t].batch)
           /\ \A d \in Stored(t) : \E x \in Pending(t) : SameContent(d, x)
           /\ \A x \in Pending(t) : \E d \in Stored(t) : SameContent(d, x)
           /\ \A d \in Written' : d \in Written \/ d \in Stored(t)
           /\ \A x \in Written : \E d \in Written' : SameContent(d, x)
<1>1. At(t, "load") /\ task[t] \in LoadTasks /\ task \in [Threads -> Tasks]
  BY TaskIs DEF flush, TypeOK
<1>2. docs' = docs \cup Stored(t) /\ UNCHANGED <<parents, asserted, numRemovals, windows>>
  BY FlushDoes DEF flush
<1>3. \A u \in Threads : u # t => task'[u] = task[u] /\ Pending(u)' = Pending(u)
  BY <1>1 DEF flush, Set, Pending
<1>4. /\ task'[t].batch = task[t].batch /\ task'[t] # Idle /\ Pending(t)' = {}
      /\ \/ task'[t].pc = "load" /\ task'[t].next = task[t].next
         \/ /\ task'[t].pc = "hierarchy" /\ task'[t].todo = Jobs(task[t].batch)
            /\ task[t].next > Len(task[t].batch)
  <2>1. CASE task[t].next > Len(task[t].batch)
    <3>1. task'[t] = [pc |-> "hierarchy", batch |-> task[t].batch, todo |-> Jobs(task[t].batch)]
      BY <1>1, <2>1 DEF flush, Set
    <3> QED
      BY <2>1, <3>1 DEF Pending, Idle
  <2>2. CASE ~(task[t].next > Len(task[t].batch))
    <3>1. task'[t] = [task[t] EXCEPT !.pending = <<>>]
      BY <1>1, <2>2 DEF flush, Set
    <3>2. /\ task'[t].pc = "load" /\ task'[t].pending = <<>> /\ task'[t].batch = task[t].batch
          /\ task'[t].next = task[t].next
      BY <1>1, <3>1 DEF LoadTasks
    <3>3. Range(<<>>) = {}
      BY DEF Range
    <3> QED
      BY <3>2, <3>3 DEF Pending, Idle
  <2> QED
    BY <2>1, <2>2
<1>5. /\ \A d \in Stored(t) : \E x \in Pending(t) : SameContent(d, x)
      /\ \A x \in Pending(t) : \E d \in Stored(t) : SameContent(d, x)
  <2>1. \A x \in Pending(t) : \A id : SameContent(WithId(x, id), x)
    BY DEF SameContent, WithId
  <2>2. /\ \A d \in Stored(t) : \E x \in Pending(t) : d = WithId(x, d.id)
        /\ \A x \in Pending(t) : \E d \in Stored(t) : d = WithId(x, d.id)
    BY <1>1, StoredIs
  <2>3. ASSUME NEW d \in Stored(t) PROVE \E x \in Pending(t) : SameContent(d, x)
    <3>1. PICK x \in Pending(t) : d = WithId(x, d.id)
      BY <2>2, <2>3
    <3>2. SameContent(WithId(x, d.id), x)
      BY <2>1
    <3> QED
      BY <3>1, <3>2
  <2>4. ASSUME NEW x \in Pending(t) PROVE \E d \in Stored(t) : SameContent(d, x)
    <3>1. PICK d \in Stored(t) : d = WithId(x, d.id)
      BY <2>2, <2>4
    <3>2. SameContent(WithId(x, d.id), x)
      BY <2>1
    <3> QED
      BY <3>1, <3>2
  <2> QED
    BY <2>3, <2>4
<1>6. \A d \in Written' : d \in Written \/ d \in Stored(t)
  BY <1>2, <1>3, <1>4 DEF Written
<1>7. ASSUME NEW x \in Written PROVE \E d \in Written' : SameContent(d, x)
  <2>1. CASE x \in Pending(t)
    <3>1. PICK d \in Stored(t) : SameContent(d, x)
      BY <1>5, <2>1
    <3> QED
      BY <1>2, <3>1 DEF Written
  <2>2. CASE x \notin Pending(t)
    <3>1. x \in Written'
      BY <1>2, <1>3, <1>7, <2>2 DEF Written
    <3> QED
      BY <3>1 DEF SameContent
  <2> QED
    BY <2>1, <2>2
<1> QED
  BY <1>1, <1>2, <1>3, <1>4, <1>5, <1>6, <1>7

LEMMA FlushBasic ==
    ASSUME TypeOK, Basic, NEW t \in Threads, flush(t)
    PROVE  Basic'
<1>1. \A d \in docs : d.id < nextId
  BY DEF Basic
<1>2. (\A d \in docs' : d.id < nextId') /\ IsFiniteSet(docs')
  BY <1>1, FlushTyped DEF Basic
<1>3. \A u \in Threads : PointsToPlaces(u)'
  <2>1. task[t] # Idle /\ task[t].batch \in Range(asserted)
    BY FlushWrites DEF PointsToPlaces, Basic, At, Idle
  <2>2. PointsToPlaces(t)'
    <3>1. /\ task'[t].batch = task[t].batch /\ asserted' = asserted
          /\ task'[t].pc = "load" \/ (task'[t].pc = "hierarchy" /\ task'[t].todo = Jobs(task[t].batch))
      BY FlushWrites
    <3> QED
      BY <2>1, <3>1 DEF PointsToPlaces, At
  <2>3. \A u \in Threads : u # t => task'[u] = task[u] /\ asserted' = asserted
    BY FlushWrites
  <2> QED
    BY <2>2, <2>3 DEF PointsToPlaces, Basic, At
<1>4. ASSUME NEW u \in Threads, NEW x \in Pending(u)'
      PROVE  \E k \in DOMAIN task'[u].batch : k < task'[u].next /\ FromStatement(x, task'[u].batch[k])
  <2>1. u # t /\ task'[u] = task[u] /\ x \in Pending(u)
    BY <1>4, FlushWrites
  <2> QED
    BY <2>1 DEF Basic
<1>5. ASSUME NEW d \in Written' PROVE IsWellNamed(d) /\ Base(d) \in d.parents
  <2>1. PICK x \in Written : SameContent(d, x)
    <3>1. CASE d \in Written
      BY <3>1 DEF SameContent
    <3>2. CASE d \in Stored(t)
      BY <3>2, FlushWrites DEF Written
    <3> QED
      BY <1>5, <3>1, <3>2, FlushWrites
  <2> QED
    BY <2>1 DEF Basic, SameContent, IsWellNamed, Base
<1>6. ASSUME NEW u \in Threads PROVE UpdateHoldsBase(u)'
  <2>1. CASE u = t
    BY <2>1, FlushWrites DEF UpdateHoldsBase, At
  <2>2. CASE u # t /\ At(u, "merge")
    <3>1. task'[u] = task[u] /\ docs' = docs \cup Stored(t)
      BY <2>2, FlushWrites
    <3>2. task[u].update \subseteq Nat \X SUBSET STRING /\ nextId \in Nat
      BY <2>2, TaskIs DEF TypeOK, MergeTasks
    <3>3. \A d \in Stored(t) : d.id >= nextId /\ d.id \in Nat
      BY FlushWrites, StoredIs DEF Documents
    <3>4. nextId' = nextId + Len(task[t].pending) /\ Len(task[t].pending) \in Nat
      BY FlushWrites, StoredIs DEF flush
    <3>5. ASSUME NEW w \in task[u].update
          PROVE  w[1] < nextId' /\ \A d \in docs' : d.id = w[1] => Base(d) \in w[2]
      <4>1. w[1] \in Nat /\ w[1] < nextId /\ \A d \in docs : d.id = w[1] => Base(d) \in w[2]
        BY <2>2, <3>2 DEF Basic, UpdateHoldsBase
      <4> QED
        BY <3>1, <3>2, <3>3, <3>4, <4>1
    <3> QED
      BY <3>1, <3>5 DEF UpdateHoldsBase
  <2>3. CASE u # t /\ ~At(u, "merge")
    BY <2>3, FlushWrites DEF UpdateHoldsBase, At
  <2> QED
    BY <2>1, <2>2, <2>3
<1> QED
  BY <1>2, <1>3, <1>4, <1>5, <1>6 DEF Basic

\* What readHierarchy does.
LEMMA ReadHierarchyDoes ==
    ASSUME TypeOK, NEW t \in Threads, readHierarchy(t)
    PROVE  /\ At(t, "hierarchy") /\ UNCHANGED <<docs, nextId, parents, asserted, numRemovals, windows>>
           /\ \A u \in Threads : u # t => task'[u] = task[u]
           /\ task'[t].pc = "merge" /\ task'[t].batch = task[t].batch /\ task'[t].todo = task[t].todo
           /\ task'[t].job \in task[t].todo /\ IsNext(task'[t].job, task[t].todo)
           /\ task'[t].update = UpdateOf(t, task'[t].job)
<1>1. task \in [Threads -> Tasks]
  BY DEF TypeOK
<1>2. PICK j \in task[t].todo :
          /\ IsNext(j, task[t].todo)
          /\ Set(t, [pc |-> "merge", batch |-> task[t].batch, todo |-> task[t].todo, job |-> j,
                     update |-> UpdateOf(t, j)])
  BY Zenon DEF readHierarchy, UpdateOf, FoundBelow
<1>3. task'[t] = [pc |-> "merge", batch |-> task[t].batch, todo |-> task[t].todo, job |-> j,
                  update |-> UpdateOf(t, j)] /\ \A u \in Threads : u # t => task'[u] = task[u]
  BY <1>1, <1>2 DEF Set
<1>4. task'[t].job = j /\ task'[t].update = UpdateOf(t, j)
  BY <1>3
<1> QED
  BY <1>2, <1>3, <1>4 DEF readHierarchy

LEMMA ReadHierarchyBasic ==
    ASSUME TypeOK, Basic, NEW t \in Threads, readHierarchy(t)
    PROVE  Basic'
<1>1. task[t].batch \in Range(asserted) /\ task[t].todo \subseteq Jobs(task[t].batch)
  BY ReadHierarchyDoes DEF Basic, PointsToPlaces, At, Idle
<1>2. PointsToPlaces(t)'
  BY <1>1, ReadHierarchyDoes DEF PointsToPlaces, At, IsNext
<1>3. task[t].pc # "load" /\ (task[t].pc)' # "load"
  BY ReadHierarchyDoes DEF At
<1>4. UNCHANGED <<docs, nextId, asserted>> /\ \A u \in Threads : u # t => task'[u] = task[u]
  BY ReadHierarchyDoes
<1>5. IsFiniteSet(docs') /\ \A d \in docs' : d.id < nextId /\ IsWellNamed(d) /\ Base(d) \in d.parents
  BY <1>4 DEF Basic, Written
<1>6. UpdateHoldsBase(t)'
  <2> DEFINE j == task'[t].job
  <2>1. task'[t].update = UpdateOf(t, j)
    BY ReadHierarchyDoes
  <2>2. ASSUME NEW w \in UpdateOf(t, j)
        PROVE  w[1] < nextId /\ \A d \in docs : d.id = w[1] => Base(d) \in w[2]
    <3>1. PICK d \in docs : w = <<d.id, d.parents \cup NewParents(j[1], task[t].batch[j[2]])>>
      BY DEF UpdateOf, FoundBelow
    <3>2. d.id < nextId /\ Base(d) \in d.parents /\ \A e \in docs : e.id = d.id => e = d
      BY <1>5, <1>4 DEF TypeOK
    <3> QED
      BY <3>1, <3>2
  <2> HIDE DEF j
  <2> QED
    BY <1>4, <2>1, <2>2 DEF UpdateHoldsBase
<1>7. \A u \in Threads : UpdateHoldsBase(u)'
  BY <1>4, <1>6 DEF UpdateHoldsBase, At, Basic
<1> QED
  BY <1>2, <1>3, <1>4, <1>5, <1>7, BasicQuiet

\* Documents that are changed keep their base.
LEMMA UpdatesHold ==
    ASSUME Basic, NEW t \in Threads, \A u \in Threads : u # t => task'[u] = task[u],
           ~At(t, "merge")', nextId' = nextId,
           \A d \in docs' : \E e \in docs : d.id = e.id /\ Base(d) = Base(e)
    PROVE  \A u \in Threads : UpdateHoldsBase(u)'
BY DEF Basic, UpdateHoldsBase, At

LEMMA WriteHierarchyDoes ==
    ASSUME TypeOK, NEW t \in Threads, writeHierarchy(t)
    PROVE  /\ At(t, "merge") /\ docs' = {Updated(t, d) : d \in docs}
           /\ UNCHANGED <<nextId, parents, asserted, numRemovals, windows>>
           /\ \A u \in Threads : u # t => task'[u] = task[u]
           /\ task'[t].pc = "hierarchy" /\ task'[t].batch = task[t].batch
           /\ task'[t].todo = {i \in task[t].todo : ~UpdatesSame(t, i, task[t].job)}
<1>1. task \in [Threads -> Tasks]
  BY DEF TypeOK
<1>2. /\ task'[t] = [pc |-> "hierarchy", batch |-> task[t].batch,
                     todo |-> {i \in task[t].todo : ~UpdatesSame(t, i, task[t].job)}]
      /\ \A u \in Threads : u # t => task'[u] = task[u]
  BY <1>1 DEF writeHierarchy, Set
<1>3. /\ task'[t].pc = "hierarchy" /\ task'[t].batch = task[t].batch
      /\ task'[t].todo = {i \in task[t].todo : ~UpdatesSame(t, i, task[t].job)}
  BY <1>2
<1>4. docs' = {Updated(t, d) : d \in docs} /\ UNCHANGED <<nextId, parents, asserted, numRemovals, windows>>
  BY WriteDoes DEF writeHierarchy
<1> QED
  BY <1>2, <1>3, <1>4 DEF writeHierarchy

LEMMA WriteHierarchyBasic ==
    ASSUME TypeOK, Basic, NEW t \in Threads, writeHierarchy(t)
    PROVE  Basic'
<1>1. task[t].batch \in Range(asserted) /\ task[t].todo \subseteq Jobs(task[t].batch)
  BY WriteHierarchyDoes DEF Basic, PointsToPlaces, At, Idle
<1>2. PointsToPlaces(t)'
  BY <1>1, WriteHierarchyDoes DEF PointsToPlaces, At
<1>3. task[t].pc # "load" /\ (task[t].pc)' # "load"
  BY WriteHierarchyDoes DEF At
<1>4. UNCHANGED <<nextId, asserted>> /\ \A u \in Threads : u # t => task'[u] = task[u]
  BY WriteHierarchyDoes
<1>5. ASSUME NEW d \in docs
      PROVE  LET w == Updated(t, d)
             IN  w.id = d.id /\ Base(w) = Base(d) /\ IsWellNamed(w) /\ Base(w) \in w.parents
  <2> DEFINE new == {u[2] : u \in {v \in task[t].update : v[1] = d.id}}
             w == Updated(t, d)
  <2>1. w.id = d.id /\ w.subject = d.subject /\ w.predicate = d.predicate /\ w.object = d.object
    BY UpdatedIs, WriteHierarchyDoes
  <2>2. IsWellNamed(d) /\ Base(d) \in d.parents
    BY DEF Basic, Written
  <2>3. w.parents = IF new = {} THEN d.parents ELSE UNION new
    <3>1. d \in Documents
      BY DEF TypeOK
    <3>2. w = [d EXCEPT !.parents = IF new = {} THEN @ ELSE UNION new]
      BY DEF Updated
    <3> HIDE DEF w, new
    <3> QED
      BY <3>1, <3>2 DEF Documents
  <2>4. \A P \in new : Base(d) \in P
    BY WriteHierarchyDoes DEF Basic, UpdateHoldsBase
  <2>5. Base(d) \in w.parents
    <3> HIDE DEF new
    <3> QED
      BY <2>2, <2>3, <2>4
  <2> QED
    BY <2>1, <2>2, <2>5 DEF Base, IsWellNamed
<1>6. IsFiniteSet(docs') /\ \A d \in docs' : d.id < nextId /\ IsWellNamed(d) /\ Base(d) \in d.parents
  <2>1. IsFiniteSet(docs')
    BY WriteHierarchyTyped DEF Basic
  <2>2. ASSUME NEW d \in docs' PROVE d.id < nextId /\ IsWellNamed(d) /\ Base(d) \in d.parents
    <3>1. PICK e \in docs : d = Updated(t, e)
      BY WriteHierarchyDoes
    <3> QED
      BY <1>5, <3>1 DEF Basic
  <2> QED
    BY <2>1, <2>2
<1>7. \A u \in Threads : UpdateHoldsBase(u)'
  <2>1. \A d \in docs' : \E e \in docs : d.id = e.id /\ Base(d) = Base(e)
    BY <1>5, WriteHierarchyDoes
  <2>2. ~At(t, "merge")'
    BY WriteHierarchyDoes DEF At
  <2> QED
    BY <1>4, <2>1, <2>2, UpdatesHold
<1> QED
  BY <1>2, <1>3, <1>4, <1>6, <1>7, BasicQuiet

LEMMA EndHierarchyDoes ==
    ASSUME TypeOK, NEW t \in Threads, endHierarchy(t)
    PROVE  /\ At(t, "hierarchy") /\ task[t].todo = {}
           /\ UNCHANGED <<docs, nextId, parents, asserted, numRemovals, windows>>
           /\ \A u \in Threads : u # t => task'[u] = task[u]
           /\ task'[t].pc = "time" /\ task'[t].batch = task[t].batch /\ task'[t].next = 1
<1>1. task \in [Threads -> Tasks]
  BY DEF TypeOK
<1>2. /\ task'[t] = [pc |-> "time", batch |-> task[t].batch, next |-> 1]
      /\ \A u \in Threads : u # t => task'[u] = task[u]
  BY <1>1 DEF endHierarchy, Set
<1> QED
  BY <1>2 DEF endHierarchy

LEMMA NextDoes ==
    ASSUME TypeOK, NEW t \in Threads, NextStatement(t)
    PROVE  /\ \A u \in Threads : u # t => task'[u] = task[u]
           /\ task'[t].pc = "time" /\ task'[t].batch = task[t].batch
           /\ task'[t].next = task[t].next + 1
<1>1. task \in [Threads -> Tasks]
  BY DEF TypeOK
<1>2. /\ task'[t] = [pc |-> "time", batch |-> task[t].batch, next |-> task[t].next + 1]
      /\ \A u \in Threads : u # t => task'[u] = task[u]
  BY <1>1 DEF NextStatement, Set
<1> QED
  BY <1>2

LEMMA ReadOverlappingDoes ==
    ASSUME TypeOK, NEW t \in Threads, readOverlapping(t)
    PROVE  /\ At(t, "time") /\ UNCHANGED <<docs, nextId, parents, asserted, numRemovals>>
           /\ \A u \in Threads : u # t => task'[u] = task[u]
           /\ task'[t].batch = task[t].batch /\ task[t].next \in DOMAIN task[t].batch
           /\ \/ /\ HasTime(Statement(t)) /\ Cardinality(Overlapping(t)) > 1
                 /\ windows' = windows \cup Oddities(Statement(t), Overlapping(t))
                 /\ task'[t].pc = "rewrite" /\ task'[t].next = task[t].next
                 /\ task'[t].time = UnionTime(Statement(t), Overlapping(t))
                 /\ \E first \in Overlapping(t) :
                       /\ task'[t].first = first.id
                       /\ task'[t].others = {d.id : d \in Overlapping(t) \ {first}}
              \/ /\ ~(HasTime(Statement(t)) /\ Cardinality(Overlapping(t)) > 1)
                 /\ task'[t].pc = "time" /\ task'[t].next = task[t].next + 1
                 /\ windows' = windows
<1>1. task \in [Threads -> Tasks] /\ task[t] \in TimeTasks
  BY TaskIs DEF TypeOK, readOverlapping
<1>2. task[t].next \in DOMAIN task[t].batch
  BY <1>1 DEF readOverlapping, TimeTasks
<1>3. At(t, "time") /\ UNCHANGED <<docs, nextId, parents, asserted, numRemovals>>
  BY DEF readOverlapping
<1>4. CASE HasTime(Statement(t)) /\ Cardinality(Overlapping(t)) > 1
  <2>1. windows' = windows \cup Oddities(Statement(t), Overlapping(t))
    BY <1>4, OverlappingRead
  <2>2. PICK first \in Overlapping(t) :
            Set(t, [pc |-> "rewrite", batch |-> task[t].batch, next |-> task[t].next,
                    first |-> first.id, time |-> UnionTime(Statement(t), Overlapping(t)),
                    others |-> {d.id : d \in Overlapping(t) \ {first}}])
    BY <1>4, OverlappingRead
  <2> DEFINE others == {d.id : d \in Overlapping(t) \ {first}}
  <2>3. /\ task'[t] = [pc |-> "rewrite", batch |-> task[t].batch, next |-> task[t].next,
                       first |-> first.id, time |-> UnionTime(Statement(t), Overlapping(t)),
                       others |-> others]
        /\ \A u \in Threads : u # t => task'[u] = task[u]
    BY <1>1, <2>2 DEF Set
  <2> HIDE DEF others
  <2>4. /\ task'[t].pc = "rewrite" /\ task'[t].batch = task[t].batch /\ task'[t].next = task[t].next
        /\ task'[t].first = first.id /\ task'[t].others = others
        /\ task'[t].time = UnionTime(Statement(t), Overlapping(t))
    BY <2>3
  <2> QED
    BY <1>2, <1>3, <1>4, <2>1, <2>3, <2>4 DEF others
<1>5. CASE ~(HasTime(Statement(t)) /\ Cardinality(Overlapping(t)) > 1)
  <2>1. NextStatement(t) /\ windows' = windows
    BY <1>5, OverlappingRead
  <2> QED
    BY <1>2, <1>3, <1>5, <2>1, NextDoes
<1> QED
  BY <1>4, <1>5

LEMMA RewriteFirstDoes ==
    ASSUME TypeOK, NEW t \in Threads, rewriteFirst(t)
    PROVE  /\ At(t, "rewrite") /\ UNCHANGED <<nextId, parents, asserted, numRemovals, windows>>
           /\ docs' = {Rewritten(t, d) : d \in docs}
           /\ \A u \in Threads : u # t => task'[u] = task[u]
           /\ task'[t].pc = "remove" /\ task'[t].batch = task[t].batch /\ task'[t].next = task[t].next
           /\ task'[t].first = task[t].first /\ task'[t].others = task[t].others
<1>1. task \in [Threads -> Tasks] /\ task[t] \in RewriteTasks
  BY TaskIs DEF TypeOK, rewriteFirst, At
<1>2. task' = [task EXCEPT ![t].pc = "remove"]
  BY DEF rewriteFirst
<1>3. task'[t] = [task[t] EXCEPT !.pc = "remove"] /\ \A u \in Threads : u # t => task'[u] = task[u]
  BY <1>1, <1>2
<1>4. /\ task'[t].pc = "remove" /\ task'[t].batch = task[t].batch /\ task'[t].next = task[t].next
      /\ task'[t].first = task[t].first /\ task'[t].others = task[t].others
  BY <1>1, <1>3 DEF RewriteTasks
<1> QED
  BY <1>3, <1>4, RewriteDoes DEF rewriteFirst

LEMMA RemoveOtherDoes ==
    ASSUME TypeOK, NEW t \in Threads, removeOther(t)
    PROVE  /\ At(t, "remove") /\ UNCHANGED <<nextId, parents, asserted, numRemovals, windows>>
           /\ \A u \in Threads : u # t => task'[u] = task[u]
           /\ task'[t].batch = task[t].batch
           /\ \/ /\ task[t].others = {} /\ docs' = docs
                 /\ task'[t].pc = "time" /\ task'[t].next = task[t].next + 1
              \/ /\ task'[t].pc = "remove" /\ task'[t].next = task[t].next /\ task'[t].first = task[t].first
                 /\ \E id \in task[t].others :
                       docs' = {d \in docs : d.id # id} /\ task'[t].others = task[t].others \ {id}
<1>1. task \in [Threads -> Tasks] /\ task[t] \in RewriteTasks
  BY TaskIs DEF TypeOK, removeOther, At
<1>2. At(t, "remove") /\ UNCHANGED <<nextId, parents, asserted, numRemovals, windows>>
  BY DEF removeOther
<1>3. CASE task[t].others = {} /\ NextStatement(t) /\ docs' = docs
  BY <1>2, <1>3, NextDoes
<1>4. ASSUME NEW id \in task[t].others, docs' = {d \in docs : d.id # id},
             Set(t, [task[t] EXCEPT !.others = @ \ {id}])
      PROVE  /\ \A u \in Threads : u # t => task'[u] = task[u]
             /\ task'[t].batch = task[t].batch
             /\ task'[t].pc = "remove" /\ task'[t].next = task[t].next /\ task'[t].first = task[t].first
             /\ task'[t].others = task[t].others \ {id}
  <2>1. task'[t] = [task[t] EXCEPT !.others = @ \ {id}] /\ \A u \in Threads : u # t => task'[u] = task[u]
    BY <1>1, <1>4 DEF Set
  <2> QED
    BY <1>1, <1>2, <2>1 DEF RewriteTasks, At
<1> QED
  BY <1>2, <1>3, <1>4, RemoveDoes

LEMMA EndInsertDoes ==
    ASSUME TypeOK, NEW t \in Threads, EndInsert(t)
    PROVE  /\ At(t, "time") /\ task[t].next > Len(task[t].batch)
           /\ UNCHANGED <<docs, nextId, parents, asserted, numRemovals, windows>>
           /\ \A u \in Threads : u # t => task'[u] = task[u]
           /\ task'[t] = Idle
BY DEF EndInsert, Set, TypeOK

\* Steps that remove documents, or change neither their base nor their id.
LEMMA BasicLater ==
    ASSUME TypeOK, Basic, NEW t \in Threads, task[t].pc \notin {"idle", "load"},
           (task[t].pc)' \notin {"load", "merge", "hierarchy"},
           \A u \in Threads : u # t => task'[u] = task[u],
           task'[t] # Idle => task'[t].batch = task[t].batch,
           task'[t].pc \in {"rewrite", "remove"} => task'[t].next \in DOMAIN task[t].batch,
           UNCHANGED <<asserted, nextId>>, IsFiniteSet(docs'),
           \A d \in docs' : \E e \in docs :
              /\ d.id = e.id /\ d.subject = e.subject /\ d.predicate = e.predicate
              /\ d.object = e.object /\ d.parents = e.parents
    PROVE  Basic'
<1>1. task[t] # Idle /\ task[t].batch \in Range(asserted)
  BY DEF Basic, PointsToPlaces, Idle
<1>2. PointsToPlaces(t)'
  BY <1>1 DEF PointsToPlaces, At, Idle
<1>3. \A u \in Threads : UpdateHoldsBase(u)'
  BY UpdatesHold DEF At, Base
<1>4. \A d \in docs' : d.id < nextId /\ IsWellNamed(d) /\ Base(d) \in d.parents
  <2>1. ASSUME NEW d \in docs' PROVE d.id < nextId /\ IsWellNamed(d) /\ Base(d) \in d.parents
    <3>1. PICK e \in docs : /\ d.id = e.id /\ d.subject = e.subject /\ d.predicate = e.predicate
                            /\ d.object = e.object /\ d.parents = e.parents
      OBVIOUS
    <3>2. e.id < nextId /\ IsWellNamed(e) /\ Base(e) \in e.parents
      BY DEF Basic, Written
    <3> QED
      BY <3>1, <3>2 DEF IsWellNamed, Base
  <2> QED
    BY <2>1
<1> QED
  BY <1>2, <1>3, <1>4, BasicQuiet

LEMMA BasicStep ==
    ASSUME TypeOK, Basic, [Next]_vars
    PROVE  TypeOK' /\ Basic'
<1>1. ASSUME NEW t \in Threads, NEW batch \in Seq(Statements), BeginInsert(t, batch)
      PROVE  TypeOK' /\ Basic'
  BY <1>1, BeginTyped, BeginBasic
<1>2. ASSUME NEW t \in Threads, insert(t) PROVE TypeOK' /\ Basic'
  <2>1. CASE (\E b \in Batches : BeginInsert(t, b)) \/ executeTellCB(t)
    BY <1>1, <2>1, InsertsAreTyped DEF executeTellCB
  <2>2. CASE loadTriple(t)
    BY <2>2, LoadTyped, LoadBasic
  <2>3. CASE flush(t)
    BY <2>3, FlushTyped, FlushBasic DEF Basic
  <2>4. CASE readHierarchy(t)
    <3>1. task[t].todo \subseteq Jobs(task[t].batch)
      BY <2>4 DEF Basic, PointsToPlaces, readHierarchy
    <3> QED
      BY <2>4, <3>1, ReadHierarchyTyped, ReadHierarchyBasic
  <2>5. CASE writeHierarchy(t)
    BY <2>5, WriteHierarchyTyped, WriteHierarchyBasic DEF Basic
  <2>6. CASE endHierarchy(t)
    BY <2>6, EndHierarchyTyped, EndHierarchyDoes, BasicLater DEF Basic, At
  <2>7. CASE readOverlapping(t)
    BY <2>7, ReadOverlappingTyped, ReadOverlappingDoes, BasicLater DEF Basic, At
  <2>8. CASE rewriteFirst(t)
    <3>1. At(t, "rewrite") /\ task[t].next \in DOMAIN task[t].batch
      BY <2>8, RewriteFirstDoes DEF Basic, PointsToPlaces, At
    <3>2. \A d \in docs' : \E e \in docs :
              /\ d.id = e.id /\ d.subject = e.subject /\ d.predicate = e.predicate
              /\ d.object = e.object /\ d.parents = e.parents
      BY <2>8, <3>1, RewriteFirstDoes, RewrittenIs
    <3>3. TypeOK' /\ IsFiniteSet(docs')
      BY <2>8, RewriteTyped DEF Basic
    <3> QED
      BY <2>8, <3>1, <3>2, <3>3, RewriteFirstDoes, BasicLater DEF At
  <2>9. CASE removeOther(t)
    <3>1. At(t, "remove") /\ task[t].next \in DOMAIN task[t].batch
      BY <2>9, RemoveOtherDoes DEF Basic, PointsToPlaces, At
    <3>2. docs' \subseteq docs /\ TypeOK' /\ IsFiniteSet(docs')
      BY <2>9, RemoveTyped, FS_Subset DEF Basic
    <3> QED
      BY <2>9, <3>1, <3>2, RemoveOtherDoes, BasicLater DEF At
  <2>10. CASE EndInsert(t)
    BY <2>10, EndTyped, EndInsertDoes, BasicLater DEF Basic, At, Idle
  <2> QED
    BY <1>2, <2>1, <2>2, <2>3, <2>4, <2>5, <2>6, <2>7, <2>8, <2>9, <2>10 DEF insert
<1>3. ASSUME NEW e \in Removals, removeAll(e) PROVE TypeOK' /\ Basic'
  <2>1. docs' \subseteq docs /\ TypeOK' /\ UNCHANGED <<nextId, parents, task, asserted>>
    BY <1>3, RemoveAllTyped DEF removeAll
  <2>2. IsFiniteSet(docs')
    BY <2>1, FS_Subset DEF Basic
  <2>3. \A t \in Threads : Pending(t)' = Pending(t) /\ PointsToPlaces(t)' /\ UpdateHoldsBase(t)'
    BY <2>1 DEF Pending, PointsToPlaces, UpdateHoldsBase, Basic, At
  <2>4. Written' \subseteq Written
    BY <2>1, <2>3 DEF Written
  <2> QED
    BY <2>1, <2>2, <2>3, <2>4 DEF Basic
<1>4. ASSUME UNCHANGED vars PROVE TypeOK' /\ Basic'
  BY <1>4 DEF vars, TypeOK, Basic, PointsToPlaces, UpdateHoldsBase, Written, Pending, At
<1> QED
  BY <1>2, <1>3, <1>4 DEF Next

\* TypeOK: the state has its type, and no two documents have the same id.
THEOREM TypeCorrect == Spec => []TypeOK
<1>1. Init => TypeOK /\ Basic
  BY InitTyped, InitBasic
<1>2. TypeOK /\ Basic /\ [Next]_vars => (TypeOK /\ Basic)'
  BY BasicStep
<1> QED
  BY <1>1, <1>2, PTL DEF Spec

-----------------------------------------------------------------------------
(* One insert at a time                                                      *)

LEMMA WindowsGrow ==
    ASSUME TypeOK, [Next]_vars
    PROVE  windows \subseteq windows'
<1>1. ASSUME NEW t \in Threads, insert(t) PROVE windows \subseteq windows'
  <2>1. ASSUME NEW b, BeginInsert(t, b) PROVE windows \subseteq windows'
    BY <2>1 DEF BeginInsert
  <2>2. CASE readOverlapping(t)
    BY <2>2, ReadOverlappingDoes
  <2> QED
    BY <1>1, <2>1, <2>2 DEF insert, executeTellCB, loadTriple, flush, readHierarchy, writeHierarchy,
                            endHierarchy, rewriteFirst, removeOther, EndInsert
<1> QED
  BY <1>1 DEF Next, removeAll, vars

\* A step of the one thread that inserts.
LEMMA AloneStep ==
    ASSUME Alone, NEW t \in Threads, task[t] # Idle, \A u \in Threads : u # t => task'[u] = task[u]
    PROVE  /\ Alone' /\ \A u \in Threads : u # t => task[u] = Idle /\ task'[u] = Idle
           /\ task'[t].pc # "rewrite" => FoundIsStored'
<1>1. \A u \in Threads : u # t => task[u] = Idle /\ task'[u] = Idle
  BY DEF Alone
<1>2. \A u \in Threads : At(u, "rewrite")' => u = t
  BY <1>1 DEF At, Idle
<1> QED
  BY <1>1, <1>2 DEF Alone, FoundIsStored, At

LEMMA BeginUndisturbed ==
    ASSUME TypeOK, NEW t \in Threads, NEW batch, BeginInsert(t, batch), IsUndisturbed'
    PROVE  IsIdle /\ Alone' /\ FoundIsStored'
<1>1. IsIdle
  BY DEF BeginInsert, IsUndisturbed
<1>2. /\ \A u \in Threads : u # t => task'[u] = Idle
      /\ task'[t] = [pc |-> "load", batch |-> batch, next |-> 1, pending |-> <<>>]
  BY <1>1 DEF BeginInsert, Set, TypeOK, IsIdle
<1> QED
  BY <1>1, <1>2 DEF Alone, FoundIsStored, At, Idle

LEMMA ReadOverlappingUndisturbed ==
    ASSUME TypeOK, Alone, NEW t \in Threads, readOverlapping(t)
    PROVE  Alone' /\ FoundIsStored'
<1>1. task[t] # Idle /\ \A u \in Threads : u # t => task'[u] = task[u]
  BY ReadOverlappingDoes DEF At, Idle
<1>2. Alone' /\ \A u \in Threads : u # t => task'[u] = Idle
  BY <1>1, AloneStep
<1>3. CASE task'[t].pc = "time"
  BY <1>1, <1>3, AloneStep
<1>4. CASE task'[t].pc # "time"
  <2> DEFINE s == Statement(t)
             found == Overlapping(t)
  <2>1. /\ HasTime(s) /\ windows' = windows \cup Oddities(s, found)
        /\ task'[t].pc = "rewrite" /\ task'[t].next = task[t].next /\ task'[t].batch = task[t].batch
        /\ task'[t].time = UnionTime(s, found) /\ docs' = docs
    BY <1>4, ReadOverlappingDoes
  <2>2. PICK first \in found :
            task'[t].first = first.id /\ task'[t].others = {d.id : d \in found \ {first}}
    BY <1>4, ReadOverlappingDoes
  <2>3. task'[t].batch[task'[t].next] = s /\ Overlapping(t)' = found
    BY <2>1 DEF Statement, Overlapping
  <2>4. task'[t].others = {d.id : d \in found} \ {first.id}
    <3>1. \A d \in found : d # first => d.id # first.id
      BY DEF Overlapping, TypeOK
    <3> QED
      BY <2>2, <3>1
  <2>5. FoundIsStored'
    <3> SUFFICES ASSUME NEW u \in Threads, At(u, "rewrite")'
                 PROVE LET r == task'[u].batch[task'[u].next]
                       IN /\ HasTime(r) /\ Oddities(r, Overlapping(u)') \subseteq windows'
                          /\ task'[u].first \in {d.id : d \in Overlapping(u)'}
                          /\ task'[u].others = {d.id : d \in Overlapping(u)'} \ {task'[u].first}
                          /\ task'[u].time = UnionTime(r, Overlapping(u)')
      BY DEF FoundIsStored
    <3>1. u = t
      BY <1>2 DEF At, Idle
    <3> HIDE DEF s, found
    <3> QED
      BY <2>1, <2>2, <2>3, <2>4, <3>1
  <2> QED
    BY <1>2, <2>5
<1> QED
  BY <1>3, <1>4

LEMMA UndisturbedStep ==
    ASSUME TypeOK, Undisturbed, [Next]_vars
    PROVE  Undisturbed'
<1> SUFFICES ASSUME IsUndisturbed' PROVE Alone' /\ FoundIsStored'
  BY DEF Undisturbed
<1>1. Alone /\ FoundIsStored
  BY WindowsGrow DEF Undisturbed, IsUndisturbed
<1>2. ASSUME NEW t \in Threads, insert(t) PROVE Alone' /\ FoundIsStored'
  <2>1. CASE (\E b \in Batches : BeginInsert(t, b)) \/ executeTellCB(t)
    BY <2>1, BeginUndisturbed DEF executeTellCB
  <2>2. ASSUME task[t] # Idle, \A u \in Threads : u # t => task'[u] = task[u], task'[t].pc # "rewrite"
        PROVE  Alone' /\ FoundIsStored'
    BY <1>1, <2>2, AloneStep
  <2>3. CASE loadTriple(t)
    <3>1. At(t, "load") /\ task'[t].pc = "load" /\ \A u \in Threads : u # t => task'[u] = task[u]
      BY <2>3, LoadDoes
    <3> QED
      BY <2>2, <3>1 DEF At, Idle
  <2>4. CASE flush(t)
    BY <2>2, <2>4, FlushWrites DEF At, Idle
  <2>5. CASE readHierarchy(t)
    BY <2>2, <2>5, ReadHierarchyDoes DEF At, Idle
  <2>6. CASE writeHierarchy(t)
    BY <2>2, <2>6, WriteHierarchyDoes DEF At, Idle
  <2>7. CASE endHierarchy(t)
    BY <2>2, <2>7, EndHierarchyDoes DEF At, Idle
  <2>8. CASE readOverlapping(t)
    BY <1>1, <2>8, ReadOverlappingUndisturbed
  <2>9. CASE rewriteFirst(t)
    BY <2>2, <2>9, RewriteFirstDoes DEF At, Idle
  <2>10. CASE removeOther(t)
    BY <2>2, <2>10, RemoveOtherDoes DEF At, Idle
  <2>11. CASE EndInsert(t)
    BY <2>2, <2>11, EndInsertDoes DEF At, Idle
  <2> QED
    BY <1>2, <2>1, <2>3, <2>4, <2>5, <2>6, <2>7, <2>8, <2>9, <2>10, <2>11 DEF insert
<1>3. ASSUME NEW e \in Removals, removeAll(e) PROVE FALSE
  BY <1>3 DEF removeAll, IsUndisturbed
<1>4. ASSUME UNCHANGED vars PROVE Alone' /\ FoundIsStored'
  <2> USE <1>4 DEF vars
  <2>1. Alone'
    BY <1>1 DEF Alone
  <2>2. \A t \in Threads : Overlapping(t)' = Overlapping(t)
    BY DEF Overlapping
  <2> QED
    BY <1>1, <2>1, <2>2 DEF FoundIsStored, At
<1> QED
  BY <1>2, <1>3, <1>4 DEF Next

LEMMA InitUndisturbed == Init => Undisturbed
BY DEF Init, Undisturbed, Alone, FoundIsStored, At, Idle

-----------------------------------------------------------------------------
(* The hierarchy                                                             *)

\* Documents have fields.
LEMMA WrittenIs ==
    ASSUME TypeOK, NEW d \in Written
    PROVE  /\ d.subject \in STRING /\ d.predicate \in Properties /\ d.object \in STRING
           /\ d.parents \subseteq STRING /\ Base(d) \in STRING
<1>1. d \in Documents \cup TripleFields
  <2>1. CASE d \in docs
    BY <2>1 DEF TypeOK
  <2>2. ASSUME NEW t \in Threads, d \in Pending(t) PROVE d \in TripleFields
    <3>1. At(t, "load")
      BY <2>2 DEF Pending, At
    <3> QED
      BY <2>2, <3>1, StoredIs
  <2> QED
    BY <2>1, <2>2 DEF Written
<1>2. /\ d.subject \in STRING /\ d.predicate \in Properties /\ d.object \in STRING
      /\ d.parents \subseteq STRING
  BY <1>1 DEF Documents, TripleFields
<1> QED
  BY <1>2, BatchesAssumption DEF Base

\* The parents of classes are classes, those of properties are properties.
LEMMA KindsAreKept ==
    ASSUME TypeOK, Basic
    PROVE  HoldsAsserted(Properties) /\ HoldsAsserted(STRING \ Properties)
<1>1. ASSUME NEW e \in Written, isDirectParent(e.predicate)
      PROVE  /\ e.subject \in Properties <=> e.predicate = "subPropertyOf"
             /\ e.object \in Properties <=> e.predicate = "subPropertyOf"
             /\ e.object \in STRING
  BY <1>1, WrittenIs DEF Basic, IsWellNamed, isDirectParent
<1> QED
  BY <1>1 DEF HoldsAsserted

LEMMA KindOfParents ==
    ASSUME TypeOK, Basic, ParentsAreAbove, NEW d \in Written
    PROVE  /\ Base(d) \in Properties => d.parents \subseteq Properties
           /\ Base(d) \notin Properties => d.parents \cap Properties = {}
           /\ ~isTaxonomicProperty(d.predicate) => d.parents \subseteq Properties
<1>1. Properties \in SUBSET STRING /\ STRING \ Properties \in SUBSET STRING
  BY BatchesAssumption
<1>2. Base(d) \in Properties => d.parents \subseteq Properties
  BY <1>1, KindsAreKept DEF ParentsAreAbove
<1>3. Base(d) \notin Properties => d.parents \subseteq STRING \ Properties
  BY <1>1, KindsAreKept, WrittenIs DEF ParentsAreAbove
<1>4. ~isTaxonomicProperty(d.predicate) => Base(d) \in Properties
  BY WrittenIs DEF Base
<1> QED
  BY <1>2, <1>3, <1>4

\* Two assertions about the same class, or property, are of the same kind.
LEMMA SameKind ==
    ASSUME TypeOK, Basic, NEW e \in Written, isDirectParent(e.predicate)
    PROVE  /\ e.subject \in Properties <=> e.predicate = "subPropertyOf"
           /\ e.object \in Properties <=> e.predicate = "subPropertyOf"
           /\ e.predicate \in {"subClassOf", "subPropertyOf"} /\ isTaxonomicProperty(e.predicate)
           /\ Base(e) = e.object /\ e.object \in e.parents
BY WrittenIs DEF Basic, IsWellNamed, isDirectParent, isTaxonomicProperty, Base

\* Steps after which the same is written, but perhaps more often or less.
SameParents(d, x) == SameTriple(d, x) /\ d.parents = x.parents
LEMMA HoldsSame ==
    ASSUME \A x \in Written : isDirectParent(x.predicate) => \E d \in Written' : SameTriple(d, x),
           NEW S, HoldsAsserted(S)'
    PROVE  HoldsAsserted(S)
<1> SUFFICES ASSUME NEW e \in Written, isDirectParent(e.predicate), e.subject \in S PROVE e.object \in S
  BY DEF HoldsAsserted
<1>1. PICK d \in Written' : SameTriple(d, e)
  OBVIOUS
<1> QED
  BY <1>1 DEF HoldsAsserted, SameTriple

LEMMA SameWritten ==
    ASSUME VocabularyIsWritten, ParentsAreAbove, parents' = parents,
           \A d \in Written' : \E x \in Written : SameParents(d, x),
           \A x \in Written : isDirectParent(x.predicate) => \E d \in Written' : SameTriple(d, x)
    PROVE  VocabularyIsWritten' /\ ParentsAreAbove'
<1>1. VocabularyIsWritten'
  <2>1. ASSUME NEW c \in DOMAIN parents, NEW p \in parents[c]
        PROVE  \E e \in Written' : isDirectParent(e.predicate) /\ e.subject = c /\ e.object = p
    <3>1. PICK x \in Written : isDirectParent(x.predicate) /\ x.subject = c /\ x.object = p
      BY DEF VocabularyIsWritten
    <3>2. PICK e \in Written' : SameTriple(e, x)
      BY <3>1
    <3> QED
      BY <3>1, <3>2 DEF SameTriple
  <2>2. ASSUME NEW e \in Written', isDirectParent(e.predicate)
        PROVE  e.subject \in DOMAIN parents /\ e.object \in parents[e.subject]
    <3>1. PICK x \in Written : SameParents(e, x)
      OBVIOUS
    <3> QED
      BY <2>2, <3>1 DEF SameParents, SameTriple, VocabularyIsWritten
  <2> QED
    BY <2>1, <2>2 DEF VocabularyIsWritten
<1>2. ASSUME NEW d \in Written', NEW S \in SUBSET STRING, Base(d) \in S, HoldsAsserted(S)'
      PROVE  d.parents \subseteq S
  <2>1. PICK x \in Written : SameParents(d, x)
    OBVIOUS
  <2>2. Base(x) \in S /\ HoldsAsserted(S)
    BY <1>2, <2>1, HoldsSame DEF SameParents, SameTriple, Base
  <2> QED
    BY <2>1, <2>2 DEF ParentsAreAbove, SameParents
<1> QED
  BY <1>1, <1>2 DEF ParentsAreAbove

\* ... and what is to come is still to come.
LEMMA SameClosed ==
    ASSUME ParentsAreClosed,
           \A d \in Written' : \E x \in Written : SameParents(d, x),
           \A d, e \in Written' : \A x, y \in Written :
              /\ SameParents(d, x) /\ SameParents(e, y) /\ isDirectParent(e.predicate)
              /\ e.subject \in d.parents /\ IsToCome(x, y)
              => IsToCome(d, e)'
    PROVE  ParentsAreClosed'
<1> SUFFICES ASSUME NEW d \in Written', NEW e \in Written', isDirectParent(e.predicate),
                    e.subject \in d.parents
             PROVE  e.object \in d.parents \/ IsToCome(d, e)'
  BY DEF ParentsAreClosed
<1>1. PICK x \in Written, y \in Written : SameParents(d, x) /\ SameParents(e, y)
  OBVIOUS
<1>2. y.object \in x.parents \/ IsToCome(x, y)
  BY <1>1 DEF ParentsAreClosed, SameParents, SameTriple
<1> QED
  BY <1>1, <1>2 DEF SameParents, SameTriple

\* When no task loads or updates the hierarchy.
LEMMA NothingToCome ==
    ASSUME \A t \in Threads : task[t].pc \notin {"load", "hierarchy", "merge"}
    PROVE  \A d, e : ~IsToCome(d, e)
BY DEF IsToCome, At

LEMMA BeginHierarchy ==
    ASSUME TypeOK, Basic, HierarchyHolds, NEW t \in Threads, NEW batch \in Seq(Statements),
           BeginInsert(t, batch), IsIdle
    PROVE  HierarchyHolds'
<1>1. /\ \A u \in Threads : task[u] = Idle /\ (u # t => task'[u] = Idle)
      /\ task'[t] = [pc |-> "load", batch |-> batch, next |-> 1, pending |-> <<>>]
  BY DEF BeginInsert, Set, TypeOK, IsIdle
<1>2. UNCHANGED <<docs, parents>>
  BY DEF BeginInsert
<1>3. Written' = Written
  <2>1. Range(<<>>) = {}
    BY DEF Range
  <2>2. Pending(t)' = {} /\ \A u \in Threads : Pending(u) = {}
    BY <1>1, <2>1 DEF Pending, Idle
  <2>3. \A u \in Threads : u # t => Pending(u)' = {}
    BY <1>1 DEF Pending, Idle
  <2> QED
    BY <1>2, <2>2, <2>3 DEF Written
<1>4. VocabularyIsWritten' /\ ParentsAreAbove'
  BY <1>2, <1>3 DEF HierarchyHolds, VocabularyIsWritten, ParentsAreAbove, HoldsAsserted
<1>5. ParentsAreClosed'
  <2>1. \A d, e : ~IsToCome(d, e)
    BY <1>1, NothingToCome DEF Idle
  <2> QED
    BY <1>3, <2>1 DEF HierarchyHolds, ParentsAreClosed
<1>6. LoadedIsWritten'
  <2>1. \A k \in DOMAIN batch : k \in Nat /\ k >= 1
    OBVIOUS
  <2>2. /\ task'[t].pc = "load" /\ task'[t].batch = batch /\ task'[t].next = 1
        /\ \A u \in Threads : u # t => task'[u].pc = "idle"
    BY <1>1 DEF Idle
  <2> QED
    BY <2>1, <2>2 DEF LoadedIsWritten, At
<1>7. UpdateIsComputed' /\ RemovedIsKept'
  BY <1>1 DEF UpdateIsComputed, RemovedIsKept, At, Idle
<1> QED
  BY <1>4, <1>5, <1>6, <1>7 DEF HierarchyHolds

LEMMA LoadHierarchy ==
    ASSUME TypeOK, Basic, Alone, HierarchyHolds, NEW t \in Threads, loadTriple(t)
    PROVE  HierarchyHolds'
<1> DEFINE s == Statement(t)
           x == NewDocument(t)
           n == task[t].next
<1>1. /\ s \in Statements /\ n \in DOMAIN task[t].batch /\ s = task[t].batch[n] /\ n \in Nat
      /\ At(t, "load") /\ task[t].batch \in Seq(Statements)
      /\ task'[t].pc = "load" /\ task'[t].batch = task[t].batch /\ task'[t].next = n + 1
  BY LoadDoes DEF LoadTasks
<1>2. \A u \in Threads : u # t => task'[u] = Idle /\ task[u] = Idle
  <2>1. task[t] # Idle /\ \A u \in Threads : u # t => task'[u] = task[u]
    <3>1. \A u \in Threads : u # t => task'[u] = task[u]
      BY LoadDoes
    <3> QED
      BY <1>1, <3>1 DEF At, Idle
  <2> QED
    BY <2>1, AloneStep
<1>3. UpdateIsComputed' /\ RemovedIsKept'
  BY <1>1, <1>2 DEF UpdateIsComputed, RemovedIsKept, At, Idle
<1>4. \A k \in DOMAIN task[t].batch : k \in Nat /\ (k < n + 1 <=> k < n \/ k = n)
  BY <1>1
<1>5. ASSUME NEW d, NEW e, IsToCome(d, e) PROVE IsToCome(d, e)'
  <2>1. \E k \in DOMAIN task[t].batch : k < n /\ SameTriple(e, task[t].batch[k])
    BY <1>1, <1>2, <1>5 DEF IsToCome, At, Idle
  <2> QED
    BY <1>1, <1>4, <2>1 DEF IsToCome, At
<1>6. CASE IsAnnotationProperty(s.predicate)
  <2>1. parents' = parents /\ Written' = Written
    BY <1>6, LoadDoes
  <2>2. VocabularyIsWritten' /\ ParentsAreAbove'
    BY <2>1 DEF HierarchyHolds, VocabularyIsWritten, ParentsAreAbove, HoldsAsserted
  <2>3. ParentsAreClosed'
    BY <1>5, <2>1 DEF HierarchyHolds, ParentsAreClosed
  <2>4. LoadedIsWritten'
    <3>1. \A k \in DOMAIN task[t].batch : k < n /\ ~IsAnnotationProperty(task[t].batch[k].predicate) =>
              \E e \in Written : SameTriple(e, task[t].batch[k])
      BY <1>1 DEF HierarchyHolds, LoadedIsWritten
    <3> HIDE DEF n
    <3> QED
      BY <1>1, <1>2, <1>4, <1>6, <2>1, <3>1 DEF LoadedIsWritten, At, Idle
  <2> QED
    BY <1>3, <2>2, <2>3, <2>4 DEF HierarchyHolds
<1>7. CASE ~IsAnnotationProperty(s.predicate)
  <2>1. /\ parents' = addDirectParent(s) /\ Written' = Written \cup {x} /\ FromStatement(x, s)
        /\ Base(x) = Base(s) /\ x.parents = Above(parents', {Base(s)})
    BY <1>7, LoadDoes
  <2>2. SameTriple(x, s) /\ x.predicate = s.predicate /\ x.subject = s.subject /\ x.object = s.object
    BY <2>1 DEF FromStatement, SameTriple
  <2> HIDE DEF x, n, s
  <2>3. VocabularyIsWritten'
    <3>1. /\ ~isDirectParent(s.predicate) => parents' = parents
          /\ isDirectParent(s.predicate) =>
                /\ DOMAIN parents' = DOMAIN parents \cup {s.subject}
                /\ \A c \in DOMAIN parents' : parents'[c] =
                      (IF c \in DOMAIN parents THEN parents[c] ELSE {})
                        \cup (IF c = s.subject THEN {s.object} ELSE {})
      BY <2>1 DEF addDirectParent
    <3>2. ASSUME NEW c \in DOMAIN parents', NEW p \in parents'[c]
          PROVE  \E e \in Written' : isDirectParent(e.predicate) /\ e.subject = c /\ e.object = p
      <4>1. CASE c \in DOMAIN parents /\ p \in parents[c]
        BY <2>1, <4>1 DEF HierarchyHolds, VocabularyIsWritten
      <4>2. CASE ~(c \in DOMAIN parents /\ p \in parents[c])
        BY <2>1, <2>2, <3>1, <3>2, <4>2
      <4> QED
        BY <4>1, <4>2
    <3>3. ASSUME NEW e \in Written', isDirectParent(e.predicate)
          PROVE  e.subject \in DOMAIN parents' /\ e.object \in parents'[e.subject]
      <4>1. CASE e = x
        BY <2>2, <3>1, <3>3, <4>1
      <4>2. CASE e \in Written
        BY <3>1, <3>3, <4>2 DEF HierarchyHolds, VocabularyIsWritten
      <4> QED
        BY <2>1, <4>1, <4>2
    <3> QED
      BY <3>2, <3>3 DEF VocabularyIsWritten
  <2>4. ASSUME NEW d \in Written', NEW S \in SUBSET STRING, Base(d) \in S, HoldsAsserted(S)'
        PROVE  d.parents \subseteq S
    <3>1. CASE d \in Written
      <4>1. HoldsAsserted(S)
        BY <2>1, <2>4 DEF HoldsAsserted
      <4> QED
        BY <2>4, <3>1, <4>1 DEF HierarchyHolds, ParentsAreAbove
    <3>2. CASE d = x
      <4>1. \A c \in S \cap DOMAIN parents' : parents'[c] \subseteq S
        BY <2>3, <2>4 DEF VocabularyIsWritten, HoldsAsserted
      <4>2. {Base(s)} \subseteq S
        BY <2>1, <2>4, <3>2
      <4>3. Above(parents', {Base(s)}) \subseteq S
        BY <4>1, <4>2, AboveLeast
      <4> QED
        BY <2>1, <3>2, <4>3
    <3> QED
      BY <2>1, <2>4, <3>1, <3>2
  <2>5. ParentsAreClosed'
    <3> SUFFICES ASSUME NEW d \in Written', NEW e \in Written', isDirectParent(e.predicate),
                        e.subject \in d.parents
                 PROVE  e.object \in d.parents \/ IsToCome(d, e)'
      BY DEF ParentsAreClosed
    <3>1. CASE d = x
      <4>1. e.subject \in DOMAIN parents' /\ e.object \in parents'[e.subject]
        BY <2>3 DEF VocabularyIsWritten
      <4>2. \A c \in d.parents \cap DOMAIN parents' : parents'[c] \subseteq d.parents
        BY <2>1, <3>1, AboveHolds
      <4> QED
        BY <4>1, <4>2
    <3>2. CASE d \in Written /\ e \in Written
      BY <1>5, <3>2 DEF HierarchyHolds, ParentsAreClosed
    <3>3. CASE e = x
      <4>1. n < n + 1 /\ SameTriple(e, task'[t].batch[n])
        BY <1>1, <2>2, <3>3
      <4> QED
        BY <1>1, <4>1 DEF IsToCome, At
    <3> QED
      BY <2>1, <3>1, <3>2, <3>3
  <2>6. LoadedIsWritten'
    <3>1. \A k \in DOMAIN task[t].batch : k < n /\ ~IsAnnotationProperty(task[t].batch[k].predicate) =>
              \E e \in Written : SameTriple(e, task[t].batch[k])
      BY <1>1 DEF HierarchyHolds, LoadedIsWritten, n
    <3>2. \A k \in DOMAIN task[t].batch : k < n + 1 /\ ~IsAnnotationProperty(task[t].batch[k].predicate) =>
              \E e \in Written' : SameTriple(e, task[t].batch[k])
      BY <1>1, <1>4, <2>1, <2>2, <3>1
    <3> QED
      BY <1>1, <1>2, <3>2 DEF LoadedIsWritten, At, Idle
  <2> QED
    BY <1>3, <2>3, <2>4, <2>5, <2>6 DEF HierarchyHolds, ParentsAreAbove
<1> QED
  BY <1>6, <1>7

LEMMA FlushHierarchy ==
    ASSUME TypeOK, Basic, Alone, HierarchyHolds, NEW t \in Threads, flush(t)
    PROVE  HierarchyHolds'
<1> DEFINE batch == task[t].batch
           n == task[t].next
<1>1. /\ At(t, "load") /\ batch \in Seq(Statements) /\ n \in Nat
      /\ task'[t].batch = batch /\ task'[t] # Idle /\ parents' = parents
      /\ \/ task'[t].pc = "load" /\ task'[t].next = n
         \/ task'[t].pc = "hierarchy" /\ task'[t].todo = Jobs(batch) /\ n > Len(batch)
  BY FlushWrites, TaskIs DEF TypeOK, LoadTasks
<1>2. \A u \in Threads : u # t => task'[u] = Idle /\ task[u] = Idle
  <2>1. task[t] # Idle /\ \A u \in Threads : u # t => task'[u] = task[u]
    BY <1>1, FlushWrites DEF At, Idle
  <2> QED
    BY <2>1, AloneStep
<1>3. UpdateIsComputed' /\ RemovedIsKept'
  BY <1>1, <1>2 DEF UpdateIsComputed, RemovedIsKept, At, Idle
<1>4. \A d \in Written' : \E x \in Written : SameParents(d, x)
  <2>1. ASSUME NEW d \in Written' PROVE \E x \in Written : SameParents(d, x)
    <3>1. CASE d \in Written
      BY <3>1 DEF SameParents, SameTriple
    <3>2. CASE d \in Stored(t)
      <4>1. PICK x \in Pending(t) : SameContent(d, x)
        BY <3>2, FlushWrites
      <4> QED
        BY <4>1 DEF SameContent, SameParents, SameTriple, Written
    <3> QED
      BY <3>1, <3>2, FlushWrites
  <2> QED
    BY <2>1
<1>5. \A x \in Written : \E d \in Written' : SameTriple(d, x)
  BY FlushWrites DEF SameContent, SameTriple
<1>6. VocabularyIsWritten' /\ ParentsAreAbove'
  BY <1>1, <1>4, <1>5, SameWritten DEF HierarchyHolds
<1>7. \A k \in DOMAIN batch : k \in Nat /\ k <= Len(batch) /\ Len(batch) \in Nat
  BY <1>1
<1>8. ParentsAreClosed'
  <2>1. ASSUME NEW d \in Written', NEW e \in Written', NEW x \in Written, NEW y \in Written,
               SameParents(d, x), SameParents(e, y), isDirectParent(e.predicate),
               e.subject \in d.parents, IsToCome(x, y)
        PROVE  IsToCome(d, e)'
    <3>1. PICK k \in DOMAIN batch : k < n /\ SameTriple(e, batch[k])
      BY <1>1, <1>2, <2>1 DEF IsToCome, At, Idle, SameParents, SameTriple
    <3>2. CASE task'[t].pc = "load"
      BY <1>1, <3>1, <3>2 DEF IsToCome, At
    <3>3. CASE task'[t].pc = "hierarchy"
      <4>1. /\ y.predicate = e.predicate /\ y.subject \in x.parents /\ isDirectParent(y.predicate)
            /\ batch[k].predicate = e.predicate /\ d.predicate = x.predicate
        BY <2>1, <3>1 DEF SameParents, SameTriple
      <4>2. ~isTaxonomicProperty(x.predicate) => y.predicate = "subPropertyOf"
        BY <4>1, KindOfParents, SameKind DEF HierarchyHolds
      <4>3. PICK r \in 1 .. 3 : /\ Rounds[r] = e.predicate
                                /\ (r < 3) = isTaxonomicProperty(d.predicate)
        <5>1. CASE y.predicate = "subClassOf"
          BY <4>1, <4>2, <5>1 DEF Rounds, isTaxonomicProperty
        <5>2. CASE y.predicate = "subPropertyOf" /\ isTaxonomicProperty(x.predicate)
          BY <4>1, <5>2 DEF Rounds, isTaxonomicProperty
        <5>3. CASE y.predicate = "subPropertyOf" /\ ~isTaxonomicProperty(x.predicate)
          BY <4>1, <5>3 DEF Rounds, isTaxonomicProperty
        <5> QED
          BY <4>1, <5>1, <5>2, <5>3 DEF isDirectParent
      <4>4. <<r, k>> \in Jobs(batch) /\ <<r, k>>[1] = r /\ <<r, k>>[2] = k
        BY <4>1, <4>3 DEF Jobs
      <4>5. task'[t].todo = Jobs(batch) /\ SameTriple(e, task'[t].batch[k])
        BY <1>1, <3>1, <3>3
      <4> HIDE DEF batch
      <4> QED
        BY <3>3, <4>3, <4>4, <4>5 DEF IsToCome
    <3> QED
      BY <1>1, <3>2, <3>3
  <2> QED
    BY <1>4, <2>1, SameClosed DEF HierarchyHolds
<1>9. LoadedIsWritten'
  <2>1. \A k \in DOMAIN batch : k < n /\ ~IsAnnotationProperty(batch[k].predicate) =>
            \E e \in Written' : SameTriple(e, batch[k])
    <3>1. ASSUME NEW k \in DOMAIN batch, k < n, ~IsAnnotationProperty(batch[k].predicate)
          PROVE  \E e \in Written' : SameTriple(e, batch[k])
      <4>1. PICK x \in Written : SameTriple(x, batch[k])
        BY <1>1, <3>1 DEF HierarchyHolds, LoadedIsWritten
      <4>2. PICK e \in Written' : SameTriple(e, x)
        BY <1>5
      <4> QED
        BY <4>1, <4>2 DEF SameTriple
    <3> QED
      BY <3>1
  <2>2. \A u \in Threads : u # t => task'[u].pc = "idle"
    BY <1>2 DEF Idle
  <2> HIDE DEF batch, n
  <2> QED
    BY <1>1, <1>7, <2>1, <2>2 DEF LoadedIsWritten, At
<1> QED
  BY <1>3, <1>6, <1>8, <1>9 DEF HierarchyHolds

\* A task that does not load: what is written is stored.
LEMMA WrittenIsStored ==
    ASSUME NEW t \in Threads, task[t].pc # "load", \A u \in Threads : u # t => task[u] = Idle
    PROVE  Written = docs
BY DEF Written, Pending, Idle

LEMMA ReadHierarchyHierarchy ==
    ASSUME TypeOK, Basic, Alone, HierarchyHolds, NEW t \in Threads, readHierarchy(t)
    PROVE  HierarchyHolds'
<1>1. /\ At(t, "hierarchy") /\ UNCHANGED <<docs, parents>>
      /\ task'[t].pc = "merge" /\ task'[t].batch = task[t].batch /\ task'[t].todo = task[t].todo
      /\ task'[t].update = UpdateOf(t, task'[t].job)
  BY ReadHierarchyDoes
<1>2. \A u \in Threads : u # t => task'[u] = Idle /\ task[u] = Idle
  <2>1. task[t] # Idle /\ \A u \in Threads : u # t => task'[u] = task[u]
    BY <1>1, ReadHierarchyDoes DEF At, Idle
  <2> QED
    BY <2>1, AloneStep
<1>3. Written' = Written
  <2>1. \A u \in Threads : Pending(u)' = Pending(u)
    BY <1>1, <1>2, PendingSame DEF At
  <2> QED
    BY <1>1, <2>1 DEF Written
<1>4. VocabularyIsWritten' /\ ParentsAreAbove'
  BY <1>1, <1>3 DEF HierarchyHolds, VocabularyIsWritten, ParentsAreAbove, HoldsAsserted
<1>5. \A d, e : IsToCome(d, e) => IsToCome(d, e)'
  <2>1. ASSUME NEW d, NEW e, IsToCome(d, e) PROVE IsToCome(d, e)'
    <3>1. \E j \in task[t].todo :
              (j[1] < 3) = isTaxonomicProperty(d.predicate) /\ SameTriple(e, task[t].batch[j[2]])
      BY <1>1, <1>2, <2>1 DEF IsToCome, At, Idle
    <3> QED
      BY <1>1, <3>1 DEF IsToCome
  <2> QED
    BY <2>1
<1>6. ParentsAreClosed'
  BY <1>3, <1>5 DEF HierarchyHolds, ParentsAreClosed
<1>7. LoadedIsWritten'
  BY <1>1, <1>2, <1>3 DEF HierarchyHolds, LoadedIsWritten, At, Idle
<1>8. UpdateIsComputed'
  <2>1. \A u \in Threads : At(u, "merge")' => u = t
    BY <1>2 DEF At, Idle
  <2>2. \A j : UpdateOf(t, j)' = UpdateOf(t, j)
    <3>1. \A r, s : NewParents(r, s)' = NewParents(r, s)
      BY <1>1 DEF NewParents, ParentsOf
    <3> QED
      BY <1>1, <3>1 DEF UpdateOf, FoundBelow
  <2>3. PICK j \in task[t].todo : j = task'[t].job
    BY ReadHierarchyDoes
  <2>4. task'[t].update = UpdateOf(t, j)'
    BY <1>1, <2>2, <2>3
  <2> QED
    BY <1>1, <2>1, <2>3, <2>4 DEF UpdateIsComputed
<1>9. RemovedIsKept'
  BY <1>1, <1>2 DEF RemovedIsKept, At, Idle
<1> QED
  BY <1>4, <1>6, <1>7, <1>8, <1>9 DEF HierarchyHolds

\* What writeHierarchy makes of the documents, for one insert at a time.
LEMMA UpdatedParents ==
    ASSUME TypeOK, NEW t \in Threads, At(t, "merge"), NEW j, task[t].update = UpdateOf(t, j), NEW d \in docs
    PROVE  LET new == NewParents(j[1], task[t].batch[j[2]])
           IN  /\ SameTriple(Updated(t, d), d) /\ Base(Updated(t, d)) = Base(d)
               /\ d \in FoundBelow(t, j) => Updated(t, d).parents = d.parents \cup new
               /\ d \notin FoundBelow(t, j) => Updated(t, d).parents = d.parents
<1> DEFINE new == NewParents(j[1], task[t].batch[j[2]])
           w == Updated(t, d)
           sets == {u[2] : u \in {v \in UpdateOf(t, j) : v[1] = d.id}}
<1>1. w.id = d.id /\ w.subject = d.subject /\ w.predicate = d.predicate /\ w.object = d.object
  BY UpdatedIs
<1>2. w.parents = IF sets = {} THEN d.parents ELSE UNION sets
  <2>1. d \in Documents
    BY DEF TypeOK
  <2>2. w = [d EXCEPT !.parents = IF sets = {} THEN @ ELSE UNION sets]
    BY DEF Updated
  <2> HIDE DEF w, sets
  <2> QED
    BY <2>1, <2>2 DEF Documents
<1>3. \A e \in docs : e.id = d.id => e = d
  BY DEF TypeOK
<1>4. ASSUME d \in FoundBelow(t, j) PROVE sets = {d.parents \cup new}
  <2>1. <<d.id, d.parents \cup new>> \in UpdateOf(t, j)
    BY <1>4 DEF UpdateOf
  <2>2. d.parents \cup new \in sets
    BY <2>1
  <2>3. ASSUME NEW u \in UpdateOf(t, j), u[1] = d.id PROVE u[2] = d.parents \cup new
    <3>1. PICK e \in FoundBelow(t, j) : u = <<e.id, e.parents \cup new>>
      BY <2>3 DEF UpdateOf
    <3> QED
      BY <1>3, <2>3, <3>1 DEF FoundBelow
  <2> QED
    BY <2>2, <2>3
<1>5. ASSUME d \notin FoundBelow(t, j) PROVE sets = {}
  <2>1. ASSUME NEW u \in UpdateOf(t, j), u[1] = d.id PROVE FALSE
    <3>1. PICK e \in FoundBelow(t, j) : u = <<e.id, e.parents \cup new>>
      BY <2>1 DEF UpdateOf
    <3> QED
      BY <1>3, <1>5, <2>1, <3>1 DEF FoundBelow
  <2> QED
    BY <2>1
<1>6. SameTriple(w, d) /\ Base(w) = Base(d)
  BY <1>1 DEF SameTriple, Base
<1> HIDE DEF w, sets, new
<1>7. /\ d \in FoundBelow(t, j) => w.parents = d.parents \cup new
      /\ d \notin FoundBelow(t, j) => w.parents = d.parents
  BY <1>2, <1>4, <1>5
<1> QED
  BY <1>6, <1>7 DEF w, new

\* The new parents are above the child, ...
LEMMA NewParentsAreAbove ==
    ASSUME TypeOK, Basic, HierarchyHolds, NEW s, isDirectParent(s.predicate),
           \E e \in Written : SameTriple(e, s), NEW r \in 1 .. 3,
           NEW S \in SUBSET STRING, s.subject \in S, HoldsAsserted(S)
    PROVE  NewParents(r, s) \subseteq S
<1>1. s.object \in S
  BY DEF HoldsAsserted, SameTriple
<1>2. ASSUME NEW q \in docs, q.subject \in S, isDirectParent(q.predicate) PROVE q.parents \subseteq S
  <2>1. q \in Written
    BY DEF Written
  <2>2. q.object \in S /\ Base(q) = q.object
    BY <1>2, <2>1, SameKind DEF HoldsAsserted
  <2> QED
    BY <1>2, <2>1, <2>2 DEF HierarchyHolds, ParentsAreAbove
<1>3. \A c \in S : ParentsOf(c, s.predicate) \subseteq S
  BY <1>2 DEF ParentsOf
<1> QED
  BY <1>1, <1>3 DEF NewParents

\* ... and are closed, except for what is to come.
LEMMA NewParentsAreClosed ==
    ASSUME TypeOK, Basic, HierarchyHolds, NEW t \in Threads, At(t, "merge"),
           \A u \in Threads : u # t => task[u] = Idle,
           NEW j \in task[t].todo, IsNext(j, task[t].todo),
           NEW e \in Written, isDirectParent(e.predicate),
           e.subject \in NewParents(j[1], task[t].batch[j[2]]),
           j[1] < 3 => \A i \in task[t].todo : i[1] < 3 /\ SameTriple(e, task[t].batch[i[2]]) => i = j
    PROVE  e.object \in NewParents(j[1], task[t].batch[j[2]])
<1> DEFINE batch == task[t].batch
           s == batch[j[2]]
<1>1. j \in Jobs(batch) /\ task[t].todo \subseteq Jobs(batch) /\ batch \in Seq(Statements)
  BY TaskIs DEF Basic, PointsToPlaces, TypeOK, MergeTasks, At
<1>2. j[1] \in 1 .. 3 /\ j[2] \in DOMAIN batch /\ s.predicate = Rounds[j[1]] /\ s \in Statements
  BY <1>1, BatchIs DEF Jobs
<1>3. Written = docs /\ e \in docs
  BY WrittenIsStored DEF At
<1>4. /\ e.subject \in Properties <=> e.predicate = "subPropertyOf"
      /\ e.predicate \in {"subClassOf", "subPropertyOf"} /\ e.object \in e.parents
  BY SameKind
<1>5. /\ s.predicate \in {"subClassOf", "subPropertyOf"} /\ isDirectParent(s.predicate)
      /\ (s.object \in Properties <=> s.predicate = "subPropertyOf")
  BY <1>2 DEF Rounds, Statements, IsWellNamed, isDirectParent
<1> HIDE DEF s
\* A document that is looked up holds what is above, or it is to come.
<1>6. ASSUME NEW q \in docs, q.predicate = s.predicate, e.subject \in q.parents
      PROVE  \/ e.object \in q.parents
             \/ \E i \in task[t].todo : i[1] < 3 /\ SameTriple(e, batch[i[2]])
  <2>1. isTaxonomicProperty(q.predicate)
    BY <1>5, <1>6 DEF isTaxonomicProperty
  <2>2. e.object \in q.parents \/ IsToCome(q, e)
    BY <1>3, <1>6 DEF HierarchyHolds, ParentsAreClosed
  <2>3. ASSUME IsToCome(q, e) PROVE \E i \in task[t].todo : i[1] < 3 /\ SameTriple(e, batch[i[2]])
    <3>1. task[t].pc = "merge" /\ \A u \in Threads : u # t => task[u].pc = "idle"
      BY DEF At, Idle
    <3>2. \E i \in task[t].todo :
              (i[1] < 3) = isTaxonomicProperty(q.predicate) /\ SameTriple(e, batch[i[2]])
      BY <2>3, <3>1 DEF IsToCome, At
    <3> QED
      BY <2>1, <3>2
  <2> QED
    BY <2>2, <2>3
<1>7. CASE j[1] < 3
  <2>1. NewParents(j[1], s) = ParentsOf(s.object, s.predicate) \cup {s.object}
    BY <1>7 DEF NewParents
  <2>2. CASE e.subject = s.object
    <3>1. e.predicate = s.predicate
      BY <1>4, <1>5, <2>2
    <3> QED
      BY <1>3, <1>4, <2>1, <2>2, <3>1 DEF ParentsOf, s
  <2>3. CASE e.subject \in ParentsOf(s.object, s.predicate)
    <3>1. PICK q \in docs : q.subject = s.object /\ q.predicate = s.predicate /\ e.subject \in q.parents
      BY <2>3 DEF ParentsOf
    <3>2. CASE e.object \in q.parents
      BY <2>1, <3>1, <3>2 DEF ParentsOf, s
    <3>3. CASE \E i \in task[t].todo : i[1] < 3 /\ SameTriple(e, batch[i[2]])
      <4>1. SameTriple(e, s)
        BY <1>7, <3>3 DEF s
      <4> QED
        BY <2>1, <4>1 DEF SameTriple, s
    <3> QED
      BY <1>6, <3>1, <3>2, <3>3
  <2> QED
    BY <2>1, <2>2, <2>3 DEF s
<1>8. CASE ~(j[1] < 3)
  <2>1. NewParents(j[1], s) = ParentsOf(s.subject, s.predicate)
    BY <1>8 DEF NewParents
  <2>2. PICK q \in docs : q.subject = s.subject /\ q.predicate = s.predicate /\ e.subject \in q.parents
    BY <2>1 DEF ParentsOf, s
  <2>3. \A i \in task[t].todo : ~(i[1] < 3)
    <3>1. \A i \in task[t].todo : j[1] <= i[1] /\ i[1] \in 1 .. 3
      BY <1>1 DEF IsNext, Jobs
    <3> QED
      BY <1>2, <1>8, <3>1
  <2>4. e.object \in q.parents
    BY <1>6, <2>2, <2>3
  <2> QED
    BY <2>1, <2>2, <2>4 DEF ParentsOf, s
<1> QED
  BY <1>7, <1>8

LEMMA WriteHierarchyHierarchy ==
    ASSUME TypeOK, Basic, Alone, HierarchyHolds, NEW t \in Threads, writeHierarchy(t)
    PROVE  HierarchyHolds'
<1> DEFINE batch == task[t].batch
<1>1. /\ At(t, "merge") /\ docs' = {Updated(t, d) : d \in docs} /\ parents' = parents
      /\ task'[t].pc = "hierarchy" /\ task'[t].batch = batch
      /\ task'[t].todo = {i \in task[t].todo : ~UpdatesSame(t, i, task[t].job)}
  BY WriteHierarchyDoes
<1>2. \A u \in Threads : u # t => task'[u] = Idle /\ task[u] = Idle
  <2>1. task[t] # Idle /\ \A u \in Threads : u # t => task'[u] = task[u]
    BY <1>1, WriteHierarchyDoes DEF At, Idle
  <2> QED
    BY <2>1, AloneStep
<1>3. Written = docs /\ Written' = docs'
  <2>1. Written = docs
    BY <1>1, <1>2, WrittenIsStored DEF At
  <2>2. \A u \in Threads : Pending(u)' = {}
    BY <1>1, <1>2 DEF Pending, Idle
  <2> QED
    BY <2>1, <2>2 DEF Written
<1>4. PICK j \in task[t].todo : j = task[t].job /\ task[t].update = UpdateOf(t, j)
  BY <1>1 DEF HierarchyHolds, UpdateIsComputed
<1> DEFINE s == batch[j[2]]
           new == NewParents(j[1], s)
<1>5. /\ j[1] \in 1 .. 3 /\ j[2] \in DOMAIN batch /\ s.predicate = Rounds[j[1]] /\ isDirectParent(s.predicate)
      /\ s \in Statements /\ ~IsAnnotationProperty(s.predicate) /\ IsNext(j, task[t].todo)
      /\ task[t].todo \subseteq Jobs(batch)
  <2>1. j \in Jobs(batch) /\ task[t].todo \subseteq Jobs(batch) /\ IsNext(j, task[t].todo)
    BY <1>1, <1>4 DEF Basic, PointsToPlaces, At
  <2>2. j[1] \in 1 .. 3 /\ j[2] \in DOMAIN batch /\ s.predicate = Rounds[j[1]]
    BY <2>1 DEF Jobs
  <2>3. s \in Statements
    BY <1>1, <2>2, TaskIs, BatchIs DEF TypeOK, MergeTasks
  <2> QED
    BY <2>1, <2>2, <2>3 DEF Rounds, isDirectParent, IsAnnotationProperty
<1>6. \E e \in Written : SameTriple(e, s)
  BY <1>1, <1>5 DEF HierarchyHolds, LoadedIsWritten, At
<1>7. \A d \in docs : /\ SameTriple(Updated(t, d), d) /\ Base(Updated(t, d)) = Base(d)
                      /\ d \in FoundBelow(t, j) => Updated(t, d).parents = d.parents \cup new
                      /\ d \notin FoundBelow(t, j) => Updated(t, d).parents = d.parents
  BY <1>1, <1>4, UpdatedParents
<1> HIDE DEF new
<1>8. \A d \in docs : \E w \in docs' : SameTriple(w, d)
  BY <1>1, <1>7
<1>9. \A w \in docs' : \E d \in docs : w = Updated(t, d)
  BY <1>1
<1>10. VocabularyIsWritten'
  <2>1. ASSUME NEW c \in DOMAIN parents, NEW p \in parents[c]
        PROVE  \E e \in docs' : isDirectParent(e.predicate) /\ e.subject = c /\ e.object = p
    <3>1. PICK x \in docs : isDirectParent(x.predicate) /\ x.subject = c /\ x.object = p
      BY <1>3 DEF HierarchyHolds, VocabularyIsWritten
    <3> QED
      BY <1>8, <3>1 DEF SameTriple
  <2>2. ASSUME NEW e \in docs', isDirectParent(e.predicate)
        PROVE  e.subject \in DOMAIN parents /\ e.object \in parents[e.subject]
    <3>1. PICK d \in docs : SameTriple(e, d)
      BY <1>7, <1>9
    <3> QED
      BY <1>3, <2>2, <3>1 DEF HierarchyHolds, VocabularyIsWritten, SameTriple
  <2> QED
    BY <1>1, <1>3, <2>1, <2>2 DEF VocabularyIsWritten
<1>11. ASSUME NEW w \in Written', NEW S \in SUBSET STRING, Base(w) \in S, HoldsAsserted(S)'
       PROVE  w.parents \subseteq S
  <2>1. HoldsAsserted(S)
    BY <1>3, <1>8, <1>11, HoldsSame
  <2>2. PICK d \in docs : w = Updated(t, d)
    BY <1>3, <1>9
  <2>3. d.parents \subseteq S
    BY <1>3, <1>7, <1>11, <2>1, <2>2 DEF HierarchyHolds, ParentsAreAbove
  <2>4. CASE d \in FoundBelow(t, j)
    <3>1. s.subject \in S
      BY <2>3, <2>4 DEF FoundBelow
    <3>2. new \subseteq S
      BY <1>5, <1>6, <2>1, <3>1, NewParentsAreAbove DEF new
    <3> QED
      BY <1>7, <2>2, <2>3, <2>4, <3>2
  <2> QED
    BY <1>7, <2>2, <2>3, <2>4
<1>12. ParentsAreClosed'
  <2> SUFFICES ASSUME NEW w \in docs', NEW v \in docs', isDirectParent(v.predicate),
                      v.subject \in w.parents, ~IsToCome(w, v)'
               PROVE  v.object \in w.parents
    BY <1>3 DEF ParentsAreClosed
  <2>1. PICK d \in docs, e \in docs : w = Updated(t, d) /\ v = Updated(t, e)
    BY <1>9
  <2>2. /\ SameTriple(w, d) /\ SameTriple(v, e) /\ isDirectParent(e.predicate) /\ e.subject = v.subject
        /\ e.object = v.object /\ w.predicate = d.predicate
    BY <1>7, <2>1 DEF SameTriple
  \* What is to come is the present update.
  <2>3. ASSUME NEW i \in task[t].todo, (i[1] < 3) = isTaxonomicProperty(d.predicate),
               SameTriple(e, batch[i[2]])
        PROVE  UpdatesSame(t, i, j)
    <3>1. i \notin task'[t].todo
      <4>1. (i[1] < 3) = isTaxonomicProperty(w.predicate) /\ SameTriple(v, batch[i[2]])
        BY <2>2, <2>3 DEF SameTriple
      <4>2. task'[t].pc \in {"hierarchy", "merge"} /\ task'[t].batch = batch
        BY <1>1
      <4> HIDE DEF batch
      <4> QED
        BY <4>1, <4>2 DEF IsToCome
    <3> QED
      BY <1>1, <1>4, <3>1
  <2>4. SameTriple(e, s) \/ (e.subject = s.subject /\ e.predicate = s.predicate /\ j[1] = 3) => e.object \in new
    <3>1. e.object \in e.parents
      BY <1>3, <2>2, SameKind
    <3>2. j[1] < 3 => new = ParentsOf(s.object, s.predicate) \cup {s.object}
      BY DEF NewParents, new
    <3>3. j[1] = 3 => new = ParentsOf(s.subject, s.predicate)
      BY DEF NewParents, new
    <3>4. j[1] < 3 \/ j[1] = 3
      BY <1>5
    <3> QED
      BY <3>1, <3>2, <3>3, <3>4 DEF SameTriple, ParentsOf
  <2>5. CASE e.subject \in d.parents
    <3>1. CASE e.object \in d.parents
      BY <1>7, <2>1, <2>2, <3>1
    <3>2. CASE IsToCome(d, e)
      <4>1. PICK i \in task[t].todo :
                (i[1] < 3) = isTaxonomicProperty(d.predicate) /\ SameTriple(e, batch[i[2]])
        <5>1. task[t].pc = "merge" /\ \A u \in Threads : u # t => task[u].pc = "idle"
          BY <1>1, <1>2 DEF At, Idle
        <5> QED
          BY <3>2, <5>1 DEF IsToCome, At
      <4>2. UpdatesSame(t, i, j)
        BY <2>3, <4>1
      <4>3. /\ i[1] = j[1] /\ e.subject = s.subject /\ e.predicate = s.predicate
            /\ SameTriple(e, s) \/ j[1] = 3
        <5>1. batch[i[2]].predicate = Rounds[i[1]]
          BY <1>5 DEF Jobs
        <5> QED
          BY <1>5, <4>1, <4>2, <5>1 DEF UpdatesSame, SameTriple
      <4>4. d \in FoundBelow(t, j)
        BY <2>5, <4>1, <4>3 DEF FoundBelow
      <4> QED
        BY <1>7, <2>1, <2>2, <2>4, <4>3, <4>4
    <3> QED
      BY <1>3, <2>2, <2>5, <3>1, <3>2 DEF HierarchyHolds, ParentsAreClosed
  <2>6. CASE e.subject \notin d.parents
    <3>1. d \in FoundBelow(t, j) /\ w.parents = d.parents \cup new
      BY <1>7, <2>1, <2>2, <2>6
    <3>2. e.subject \in new
      BY <2>2, <2>6, <3>1
    <3>3. ASSUME j[1] < 3, NEW i \in task[t].todo, i[1] < 3, SameTriple(e, batch[i[2]]) PROVE i = j
      <4>1. isTaxonomicProperty(d.predicate)
        BY <3>1, <3>3 DEF FoundBelow
      <4>2. UpdatesSame(t, i, j)
        BY <2>3, <3>3, <4>1
      <4> QED
        BY <3>3, <4>2 DEF UpdatesSame
    <3>4. e.object \in new
      BY <1>1, <1>2, <1>3, <1>5, <2>2, <3>2, <3>3, NewParentsAreClosed DEF new
    <3> QED
      BY <2>2, <3>1, <3>4
  <2> QED
    BY <2>5, <2>6
<1>13. LoadedIsWritten'
  <2>1. ASSUME NEW k \in DOMAIN batch, ~IsAnnotationProperty(batch[k].predicate)
        PROVE  \E e \in Written' : SameTriple(e, batch[k])
    <3>1. PICK x \in docs : SameTriple(x, batch[k])
      BY <1>1, <1>3, <2>1 DEF HierarchyHolds, LoadedIsWritten, At
    <3> QED
      BY <1>3, <1>8, <3>1 DEF SameTriple
  <2>2. \A u \in Threads : u # t => task'[u].pc = "idle"
    BY <1>2 DEF Idle
  <2> HIDE DEF batch
  <2> QED
    BY <1>1, <2>1, <2>2 DEF LoadedIsWritten, At
<1>14. UpdateIsComputed' /\ RemovedIsKept'
  BY <1>1, <1>2 DEF UpdateIsComputed, RemovedIsKept, At, Idle
<1> QED
  BY <1>10, <1>11, <1>12, <1>13, <1>14 DEF HierarchyHolds, ParentsAreAbove

\* After the hierarchy has been updated nothing is to come.
LEMMA LaterHierarchy ==
    ASSUME HierarchyHolds, NEW t \in Threads, \A u \in Threads : u # t => task'[u] = Idle /\ task[u] = Idle,
           task[t].pc \notin {"load", "merge"}, \A d, e : ~IsToCome(d, e),
           (task[t].pc)' \in {"idle", "time", "rewrite", "remove"}, parents' = parents,
           \A w \in docs' : \E d \in docs : SameParents(w, d),
           \A d \in docs : isDirectParent(d.predicate) => \E w \in docs' : SameTriple(w, d),
           RemovedIsKept'
    PROVE  HierarchyHolds'
<1>1. Written = docs /\ Written' = docs'
  <2>1. \A u \in Threads : Pending(u) = {} /\ Pending(u)' = {}
    BY DEF Pending, Idle
  <2> QED
    BY <2>1 DEF Written
<1>2. VocabularyIsWritten' /\ ParentsAreAbove'
  BY <1>1, SameWritten DEF HierarchyHolds
<1>3. ParentsAreClosed'
  BY <1>1, SameClosed DEF HierarchyHolds
<1>4. UpdateIsComputed' /\ LoadedIsWritten'
  BY DEF UpdateIsComputed, LoadedIsWritten, At, Idle
<1> QED
  BY <1>2, <1>3, <1>4 DEF HierarchyHolds

LEMMA EndHierarchyHierarchy ==
    ASSUME TypeOK, Alone, HierarchyHolds, NEW t \in Threads, endHierarchy(t)
    PROVE  HierarchyHolds'
<1>1. /\ At(t, "hierarchy") /\ task[t].todo = {} /\ UNCHANGED <<docs, parents>>
      /\ task'[t].pc = "time" /\ \A u \in Threads : u # t => task'[u] = task[u]
  BY EndHierarchyDoes
<1>2. \A u \in Threads : u # t => task'[u] = Idle /\ task[u] = Idle
  BY <1>1, AloneStep DEF At, Idle
<1>3. \A d, e : ~IsToCome(d, e)
  BY <1>1, <1>2 DEF IsToCome, At, Idle
<1>4. RemovedIsKept'
  BY <1>1, <1>2 DEF RemovedIsKept, At, Idle
<1>5. \A d \in docs : SameParents(d, d) /\ SameTriple(d, d)
  BY DEF SameParents, SameTriple
<1> QED
  BY <1>1, <1>2, <1>3, <1>4, <1>5, LaterHierarchy DEF At

LEMMA ReadOverlappingHierarchy ==
    ASSUME TypeOK, Alone, HierarchyHolds, NEW t \in Threads, readOverlapping(t)
    PROVE  HierarchyHolds'
<1>1. /\ At(t, "time") /\ UNCHANGED <<docs, parents>>
      /\ task'[t].pc \in {"time", "rewrite"} /\ \A u \in Threads : u # t => task'[u] = task[u]
  BY ReadOverlappingDoes
<1>2. \A u \in Threads : u # t => task'[u] = Idle /\ task[u] = Idle
  BY <1>1, AloneStep DEF At, Idle
<1>3. \A d, e : ~IsToCome(d, e)
  BY <1>1, <1>2, NothingToCome DEF At, Idle
<1>4. RemovedIsKept'
  BY <1>1, <1>2 DEF RemovedIsKept, At, Idle
<1>5. \A d \in docs : SameParents(d, d) /\ SameTriple(d, d)
  BY DEF SameParents, SameTriple
<1> QED
  BY <1>1, <1>2, <1>3, <1>4, <1>5, LaterHierarchy DEF At

\* Of the documents to be merged, those that say what is above are of the same triple.
LEMMA FoundIsSame ==
    ASSUME TypeOK, Basic, FoundIsStored, IsLinked, NEW t \in Threads, At(t, "rewrite")
    PROVE  \E f \in docs :
              /\ f.id = task[t].first /\ task[t].first \notin task[t].others
              /\ task[t].others \subseteq {d.id : d \in Overlapping(t)}
              /\ \A d \in Overlapping(t) : isDirectParent(d.predicate) => SameTriple(d, f)
<1> DEFINE s == task[t].batch[task[t].next]
           found == Overlapping(t)
<1>1. /\ Oddities(s, found) \subseteq windows /\ task[t].first \in {d.id : d \in found}
      /\ task[t].others = {d.id : d \in found} \ {task[t].first}
  BY DEF FoundIsStored
<1>2. s \in Statements
  BY TaskIs, BatchIs DEF Basic, PointsToPlaces, TypeOK, RewriteTasks, At
<1>3. PICK f \in found : f.id = task[t].first
  BY <1>1
<1>4. "unlinked" \notin Oddities(s, found)
  BY <1>1 DEF IsLinked
<1>5. \A d \in found : isDirectParent(d.predicate) => SameTriple(d, s)
  BY <1>4 DEF Oddities, SameTriple
<1>6. ASSUME NEW d \in found, isDirectParent(d.predicate) PROVE SameTriple(d, f)
  <2>1. TripleMatches(d, [s EXCEPT !.sometimes = TRUE]) /\ TripleMatches(f, [s EXCEPT !.sometimes = TRUE])
    BY DEF Overlapping, Matches
  <2>2. [s EXCEPT !.sometimes = TRUE].predicate = s.predicate
    BY <1>2 DEF Statements
  <2>3. SameTriple(d, s) /\ isTaxonomicProperty(s.predicate)
    BY <1>5, <1>6 DEF SameTriple, isDirectParent, isTaxonomicProperty
  <2>4. f.predicate = s.predicate
    BY <2>1, <2>2, <2>3 DEF TripleMatches
  <2>5. SameTriple(f, s)
    BY <1>5, <1>6, <2>3, <2>4 DEF SameTriple
  <2> QED
    BY <2>3, <2>5 DEF SameTriple
<1> QED
  BY <1>1, <1>3, <1>6 DEF Overlapping

LEMMA RewriteFirstHierarchy ==
    ASSUME TypeOK, Basic, Alone, FoundIsStored, IsLinked, HierarchyHolds, NEW t \in Threads, rewriteFirst(t)
    PROVE  HierarchyHolds'
<1>1. /\ At(t, "rewrite") /\ docs' = {Rewritten(t, d) : d \in docs} /\ parents' = parents
      /\ task'[t].pc = "remove" /\ task'[t].first = task[t].first /\ task'[t].others = task[t].others
      /\ \A u \in Threads : u # t => task'[u] = task[u]
  BY RewriteFirstDoes
<1>2. \A u \in Threads : u # t => task'[u] = Idle /\ task[u] = Idle
  BY <1>1, AloneStep DEF At, Idle
<1>3. \A d, e : ~IsToCome(d, e)
  BY <1>1, <1>2, NothingToCome DEF At, Idle
<1>4. \A d \in docs : SameParents(Rewritten(t, d), d) /\ SameTriple(Rewritten(t, d), d)
                      /\ Rewritten(t, d).id = d.id
  BY <1>1, RewrittenIs DEF SameParents, SameTriple
<1>5. RemovedIsKept'
  <2>1. PICK f \in docs :
            /\ f.id = task[t].first /\ task[t].first \notin task[t].others
            /\ task[t].others \subseteq {d.id : d \in Overlapping(t)}
            /\ \A d \in Overlapping(t) : isDirectParent(d.predicate) => SameTriple(d, f)
    BY <1>1, FoundIsSame
  <2> DEFINE g == Rewritten(t, f)
  <2>2. g \in docs' /\ g.id = task[t].first /\ SameTriple(g, f)
    BY <1>1, <1>4, <2>1
  <2>3. ASSUME NEW w \in docs', w.id \in task[t].others, isDirectParent(w.predicate)
        PROVE  SameTriple(w, g)
    <3>1. PICK d \in docs : w = Rewritten(t, d)
      BY <1>1
    <3>2. d.id \in task[t].others /\ SameTriple(w, d) /\ isDirectParent(d.predicate)
      BY <1>4, <2>3, <3>1 DEF SameTriple
    <3>3. d \in Overlapping(t)
      <4>1. PICK c \in Overlapping(t) : c.id = d.id
        BY <2>1, <3>2
      <4> QED
        BY <4>1 DEF TypeOK, Overlapping
    <3>4. SameTriple(d, f)
      BY <2>1, <3>2, <3>3
    <3> QED
      BY <2>2, <3>2, <3>4 DEF SameTriple
  <2> HIDE DEF g
  <2>4. \A u \in Threads : At(u, "remove")' => u = t
    BY <1>2 DEF At, Idle
  <2> QED
    BY <1>1, <2>1, <2>2, <2>3, <2>4 DEF RemovedIsKept
<1>6. /\ \A w \in docs' : \E d \in docs : SameParents(w, d)
      /\ \A d \in docs : \E w \in docs' : SameTriple(w, d)
  BY <1>1, <1>4
<1> QED
  BY <1>1, <1>2, <1>3, <1>5, <1>6, LaterHierarchy DEF At

LEMMA RemoveOtherHierarchy ==
    ASSUME TypeOK, Alone, HierarchyHolds, NEW t \in Threads, removeOther(t)
    PROVE  HierarchyHolds'
<1>1. /\ At(t, "remove") /\ parents' = parents /\ task'[t].pc \in {"time", "remove"}
      /\ \A u \in Threads : u # t => task'[u] = task[u]
  BY RemoveOtherDoes
<1>2. \A u \in Threads : u # t => task'[u] = Idle /\ task[u] = Idle
  BY <1>1, AloneStep DEF At, Idle
<1>3. \A d, e : ~IsToCome(d, e)
  BY <1>1, <1>2, NothingToCome DEF At, Idle
<1>4. \A d \in docs : SameParents(d, d) /\ SameTriple(d, d)
  BY DEF SameParents, SameTriple
<1>5. \A u \in Threads : At(u, "remove")' => u = t
  BY <1>2 DEF At, Idle
<1>6. CASE docs' = docs /\ task'[t].pc = "time"
  <2>1. RemovedIsKept'
    BY <1>5, <1>6 DEF RemovedIsKept, At
  <2> QED
    BY <1>1, <1>2, <1>3, <1>4, <1>6, <2>1, LaterHierarchy DEF At
<1>7. CASE /\ task'[t].first = task[t].first
           /\ \E id \in task[t].others :
                 docs' = {d \in docs : d.id # id} /\ task'[t].others = task[t].others \ {id}
  <2>1. PICK id \in task[t].others :
            docs' = {d \in docs : d.id # id} /\ task'[t].others = task[t].others \ {id}
    BY <1>7
  <2>2. /\ task[t].first \notin task[t].others
        /\ \E f \in docs : f.id = task[t].first
              /\ \A d \in docs : d.id \in task[t].others /\ isDirectParent(d.predicate) => SameTriple(d, f)
    BY <1>1 DEF HierarchyHolds, RemovedIsKept
  <2>3. PICK f \in docs' : f.id = task[t].first
              /\ \A d \in docs : d.id \in task[t].others /\ isDirectParent(d.predicate) => SameTriple(d, f)
    BY <2>1, <2>2
  <2>4. RemovedIsKept'
    BY <1>5, <1>7, <2>1, <2>2, <2>3 DEF RemovedIsKept
  <2>5. /\ \A w \in docs' : \E d \in docs : SameParents(w, d)
        /\ \A d \in docs : isDirectParent(d.predicate) => \E w \in docs' : SameTriple(w, d)
    <3>1. \A w \in docs' : w \in docs
      BY <2>1
    <3>2. ASSUME NEW d \in docs, isDirectParent(d.predicate) PROVE \E w \in docs' : SameTriple(w, d)
      <4>1. CASE d \in docs'
        BY <1>4, <4>1
      <4>2. CASE d \notin docs'
        <5>1. SameTriple(d, f)
          BY <2>1, <2>3, <3>2, <4>2
        <5> QED
          BY <5>1 DEF SameTriple
      <4> QED
        BY <4>1, <4>2
    <3> QED
      BY <1>4, <3>1, <3>2
  <2> QED
    BY <1>1, <1>2, <1>3, <2>4, <2>5, LaterHierarchy DEF At
<1> QED
  BY <1>6, <1>7, RemoveOtherDoes

LEMMA EndInsertHierarchy ==
    ASSUME TypeOK, Alone, HierarchyHolds, NEW t \in Threads, EndInsert(t)
    PROVE  HierarchyHolds'
<1>1. /\ At(t, "time") /\ UNCHANGED <<docs, parents>> /\ task'[t] = Idle
      /\ \A u \in Threads : u # t => task'[u] = task[u]
  BY EndInsertDoes
<1>2. \A u \in Threads : u # t => task'[u] = Idle /\ task[u] = Idle
  BY <1>1, AloneStep DEF At, Idle
<1>3. \A d, e : ~IsToCome(d, e)
  BY <1>1, <1>2, NothingToCome DEF At, Idle
<1>4. RemovedIsKept'
  BY <1>1, <1>2 DEF RemovedIsKept, At, Idle
<1>5. \A d \in docs : SameParents(d, d) /\ SameTriple(d, d)
  BY DEF SameParents, SameTriple
<1>6. (task[t].pc)' = "idle"
  BY <1>1 DEF Idle
<1> QED
  BY <1>1, <1>2, <1>3, <1>4, <1>5, <1>6, LaterHierarchy DEF At

LEMMA HierarchyStep ==
    ASSUME TypeOK, Basic, Undisturbed, HierarchyInv, [Next]_vars
    PROVE  HierarchyInv'
<1> SUFFICES ASSUME IsLinked' PROVE HierarchyHolds'
  BY DEF HierarchyInv
<1>1. IsLinked /\ HierarchyHolds /\ IsUndisturbed /\ IsUndisturbed' /\ Alone /\ FoundIsStored
  BY WindowsGrow DEF HierarchyInv, Undisturbed, IsLinked, IsUndisturbed
<1>2. ASSUME NEW t \in Threads, NEW batch \in Seq(Statements), BeginInsert(t, batch) PROVE HierarchyHolds'
  BY <1>1, <1>2, BeginUndisturbed, BeginHierarchy
<1>3. ASSUME NEW t \in Threads, insert(t) PROVE HierarchyHolds'
  <2>1. CASE (\E b \in Batches : BeginInsert(t, b)) \/ executeTellCB(t)
    BY <1>2, <2>1, InsertsAreTyped DEF executeTellCB
  <2> QED
    BY <1>1, <1>3, <2>1, LoadHierarchy, FlushHierarchy, ReadHierarchyHierarchy, WriteHierarchyHierarchy,
       EndHierarchyHierarchy, ReadOverlappingHierarchy, RewriteFirstHierarchy, RemoveOtherHierarchy,
       EndInsertHierarchy DEF insert
<1>4. ASSUME NEW e \in Removals, removeAll(e) PROVE FALSE
  BY <1>1, <1>4 DEF removeAll, IsUndisturbed
<1>5. ASSUME UNCHANGED vars PROVE HierarchyHolds'
  <2> USE <1>5 DEF vars
  <2>1. Written' = Written
    BY DEF Written, Pending
  <2>2. \A d, e : IsToCome(d, e)' = IsToCome(d, e)
    BY DEF IsToCome, At
  <2>3. VocabularyIsWritten' /\ ParentsAreAbove' /\ ParentsAreClosed' /\ LoadedIsWritten'
    BY <1>1, <2>1, <2>2 DEF HierarchyHolds, VocabularyIsWritten, ParentsAreAbove, HoldsAsserted,
                            ParentsAreClosed, LoadedIsWritten, At
  <2>4. RemovedIsKept'
    BY <1>1 DEF HierarchyHolds, RemovedIsKept, At
  <2>5. UpdateIsComputed'
    <3>1. \A r, s : NewParents(r, s)' = NewParents(r, s)
      BY DEF NewParents, ParentsOf
    <3>2. \A t \in Threads : \A j : UpdateOf(t, j)' = UpdateOf(t, j)
      BY <3>1 DEF UpdateOf, FoundBelow
    <3> QED
      BY <1>1, <3>2 DEF HierarchyHolds, UpdateIsComputed, At
  <2> QED
    BY <2>3, <2>4, <2>5 DEF HierarchyHolds
<1> QED
  BY <1>3, <1>4, <1>5 DEF Next

LEMMA InitHierarchy == Init => HierarchyInv
<1> SUFFICES ASSUME Init PROVE HierarchyHolds
  BY DEF HierarchyInv
<1>1. \A t \in Threads : task[t] = Idle
  BY DEF Init
<1>2. Written = {} /\ DOMAIN parents = {}
  BY <1>1 DEF Init, Written, Pending, Idle, NoParents
<1>3. VocabularyIsWritten /\ ParentsAreAbove /\ ParentsAreClosed
  BY <1>2 DEF VocabularyIsWritten, ParentsAreAbove, ParentsAreClosed
<1> QED
  BY <1>1, <1>3 DEF HierarchyHolds, LoadedIsWritten, UpdateIsComputed, RemovedIsKept, At, Idle

\* When no insert is going on the parents are what is above, as far as it is stored.
LEMMA HierarchyIsComplete ==
    ASSUME TypeOK, Basic, HierarchyInv
    PROVE  HierarchyIsIndexed
<1> SUFFICES ASSUME IsIdle, IsLinked, NEW d \in docs
             PROVE  d.parents = Above(StoredParents, {Base(d)})
  BY DEF HierarchyIsIndexed, IsLinked
<1> DEFINE of(c) == {x.object : x \in {e \in docs : e.subject = c /\ isDirectParent(e.predicate)}}
           A == Above(StoredParents, {Base(d)})
<1>1. Written = docs /\ d \in Written
  BY DEF IsIdle, Written, Pending, Idle
<1>2. HierarchyHolds /\ \A x, y : ~IsToCome(x, y)
  BY NothingToCome DEF HierarchyInv, IsIdle, Idle
<1>3. /\ DOMAIN StoredParents = {x.subject : x \in docs}
      /\ \A c \in DOMAIN StoredParents : StoredParents[c] = of(c)
  BY DEF StoredParents
<1>4. {Base(d)} \subseteq A /\ \A c \in A \cap DOMAIN StoredParents : StoredParents[c] \subseteq A
  BY AboveHolds
<1>5. A \subseteq d.parents
  <2>1. \A c \in d.parents \cap DOMAIN StoredParents : StoredParents[c] \subseteq d.parents
    BY <1>1, <1>2, <1>3 DEF HierarchyHolds, ParentsAreClosed
  <2>2. {Base(d)} \subseteq d.parents
    BY <1>1 DEF Basic
  <2> QED
    BY <2>1, <2>2, AboveLeast
<1>6. d.parents \subseteq A
  <2>1. d.parents \subseteq STRING /\ Base(d) \in STRING
    BY <1>1, WrittenIs
  <2>2. A \in SUBSET STRING
    BY <1>5, <2>1
  <2>3. HoldsAsserted(A)
    <3>1. ASSUME NEW e \in docs, isDirectParent(e.predicate), e.subject \in A PROVE e.object \in A
      <4>1. e.subject \in DOMAIN StoredParents /\ e.object \in of(e.subject)
        BY <1>3, <3>1
      <4> QED
        BY <1>3, <1>4, <3>1, <4>1
    <3> QED
      BY <1>1, <3>1 DEF HoldsAsserted
  <2> HIDE DEF A
  <2> QED
    BY <1>1, <1>2, <1>4, <2>2, <2>3 DEF HierarchyHolds, ParentsAreAbove
<1> QED
  BY <1>5, <1>6

\* HierarchyIsIndexed: the parents in every document are what is above its base, as the
\* stored assertions say, in whatever order they were inserted.
THEOREM HierarchySafe == Spec => []HierarchyIsIndexed
<1> DEFINE Inv == TypeOK /\ Basic /\ Undisturbed /\ HierarchyInv
<1>1. Init => Inv
  BY InitTyped, InitBasic, InitUndisturbed, InitHierarchy
<1>2. Inv /\ [Next]_vars => Inv'
  BY BasicStep, UndisturbedStep, HierarchyStep
<1>3. Inv => HierarchyIsIndexed
  BY HierarchyIsComplete
<1> QED
  BY <1>1, <1>2, <1>3, PTL DEF Spec

-----------------------------------------------------------------------------
(* The times                                                                 *)

\* What is asserted are statements.
LEMMA AssertedIs ==
    ASSUME TypeOK
    PROVE  /\ \A s \in Asserted : s \in Statements /\ ~IsAnnotationProperty(s.predicate)
           /\ \A b \in Range(asserted) : \A k \in DOMAIN b :
                 ~IsAnnotationProperty(b[k].predicate) => b[k] \in Asserted
<1>1. ASSUME NEW k \in DOMAIN asserted PROVE asserted[k] \in Seq(Statements)
  BY DEF TypeOK
<1>2. \A k \in DOMAIN asserted : Range(asserted[k]) \subseteq Statements
  BY <1>1 DEF Range
<1>3. \A s \in Asserted : s \in Statements /\ ~IsAnnotationProperty(s.predicate)
  BY <1>2 DEF Asserted
<1>4. \A b \in Range(asserted) : \A k \in DOMAIN b :
          ~IsAnnotationProperty(b[k].predicate) => b[k] \in Asserted
  BY DEF Asserted, Range
<1> QED
  BY <1>3, <1>4

\* Times are numbers.
LEMMA TimesAre ==
    /\ Times \subseteq Nat /\ NoTime \notin Times /\ NoTime = 0 /\ MaybeTimes \subseteq Nat
    /\ \A s \in Statements : s.begin \in MaybeTimes /\ s.end \in MaybeTimes
    /\ \A d \in Documents \cup TripleFields : d.since \in MaybeTimes /\ d.until \in MaybeTimes
BY BatchesAssumption DEF Times, NoTime, MaybeTimes, Statements, Documents, TripleFields

\* What two documents, or statements, have in common.
SaysSame(d, x) ==
    /\ IsSame(d, x) /\ d.uncertain = x.uncertain /\ d.occasional = x.occasional
    /\ d.since = x.since /\ d.until = x.until
LEMMA SaysSameIs ==
    ASSUME NEW d, NEW x, SaysSame(d, x)
    PROVE  /\ d.predicate = x.predicate
           /\ \A s : Says(s, d) <=> Says(s, x)
           /\ \A s, i : Holds(d, s, i) <=> Holds(x, s, i)
           /\ \A s : Overlaps(s, d) <=> Overlaps(s, x)
BY DEF SaysSame, IsSame, Says, Holds, Overlaps

\* A document that overlaps with a statement of the same triple is found.
LEMMA OverlapsIsFound ==
    ASSUME TypeOK, Basic, NEW s \in Statements, NEW d \in docs, Overlaps(s, d), ~d.occasional
    PROVE  Matches(d, [s EXCEPT !.sometimes = TRUE])
<1> DEFINE e == [s EXCEPT !.sometimes = TRUE]
<1>1. /\ e.subject = s.subject /\ e.predicate = s.predicate /\ e.object = s.object /\ e.begin = s.begin
      /\ e.end = s.end /\ e.certain = s.certain /\ e.agent = s.agent /\ e.sometimes
  BY DEF Statements
<1>2. /\ d.subject = s.subject /\ d.predicate = s.predicate /\ d.object = s.object /\ d.agent = s.agent
      /\ d.uncertain = ~s.certain /\ d.since <= s.end /\ s.begin <= d.until
  BY DEF Overlaps, IsSame
<1>3. d \in Written /\ Base(d) \in d.parents
  BY DEF Basic, Written
<1>4. s.begin \in Nat /\ s.end \in Nat /\ d.since \in Nat /\ d.until \in Nat
  BY TimesAre DEF TypeOK
<1> HIDE DEF e
<1>5. TripleMatches(d, e)
  BY <1>1, <1>2, <1>3 DEF TripleMatches, TermMatches, Base
<1>6. EpistemicMatches(d, e)
  <2>1. s.certain \in BOOLEAN /\ d.uncertain \in BOOLEAN
    BY DEF TypeOK, Statements, Documents
  <2> QED
    BY <1>1, <1>2, <2>1 DEF EpistemicMatches
<1>7. TimeMatches(d, e)
  BY <1>1, <1>2, <1>4 DEF TimeMatches
<1> QED
  BY <1>5, <1>6, <1>7 DEF Matches, e

\* Two of them are more than one.
LEMMA TwoAreFound ==
    ASSUME TypeOK, Basic, NEW t \in Threads, task[t].batch[task[t].next] \in Statements,
           NEW d \in docs, NEW e \in docs, d # e, ~d.occasional, ~e.occasional,
           Overlaps(Statement(t), d), Overlaps(Statement(t), e)
    PROVE  HasTime(Statement(t)) /\ Cardinality(Overlapping(t)) > 1
<1> DEFINE S == Overlapping(t)
<1>1. d \in S /\ e \in S
  BY OverlapsIsFound DEF Overlapping, Statement
<1>2. IsFiniteSet(S)
  BY FS_Subset DEF Basic, Overlapping
<1> HIDE DEF S
<1>3. Cardinality(S) \in Nat /\ Cardinality(S) # 0 /\ Cardinality(S) # 1
  <2>1. Cardinality(S) = 0 => S = {}
    BY <1>2, FS_EmptySet
  <2>2. Cardinality(S) = 1 => \E x : S = {x}
    BY <1>2, FS_Singleton
  <2> QED
    BY <1>1, <1>2, <2>1, <2>2, FS_CardinalityType
<1>4. HasTime(Statement(t))
  BY DEF Overlaps, HasTime
<1> QED
  BY <1>3, <1>4 DEF S

LEMMA BeginTimes ==
    ASSUME TypeOK, Basic, TimesHold, NEW t \in Threads, NEW batch \in Seq(Statements),
           BeginInsert(t, batch), IsIdle
    PROVE  TimesHold'
<1>1. /\ \A u \in Threads : task[u] = Idle /\ (u # t => task'[u] = Idle)
      /\ task'[t] = [pc |-> "load", batch |-> batch, next |-> 1, pending |-> <<>>]
      /\ docs' = docs /\ asserted' = Append(asserted, batch)
  BY DEF BeginInsert, Set, TypeOK, IsIdle
<1>2. task'[t].pc = "load" /\ task'[t].batch = batch /\ task'[t].next = 1 /\ task'[t].pending = <<>>
  BY <1>1
<1>3. Written' = docs /\ Written = docs
  <2>1. Range(<<>>) = {}
    BY DEF Range
  <2>2. \A u \in Threads : Pending(u) = {} /\ Pending(u)' = {}
    BY <1>1, <1>2, <2>1 DEF Pending, Idle
  <2> QED
    BY <1>1, <2>2 DEF Written
<1>4. Asserted' = Asserted \cup {s \in Range(batch) : ~IsAnnotationProperty(s.predicate)}
  <2>1. asserted \in Seq(Seq(Statements))
    BY DEF TypeOK
  <2>2. /\ DOMAIN asserted' = DOMAIN asserted \cup {Len(asserted) + 1}
        /\ asserted'[Len(asserted) + 1] = batch /\ \A k \in DOMAIN asserted : asserted'[k] = asserted[k]
    BY <1>1, <2>1
  <2> QED
    BY <2>2 DEF Asserted
<1>5. DocumentsAreAsserted'
  BY <1>3, <1>4 DEF TimesHold, DocumentsAreAsserted
<1>6. \A d : ~IsDoomed(d) /\ ~IsDoomed(d)'
  BY <1>1, <1>2 DEF IsDoomed, At, Idle
<1>7. AssertedIsWritten'
  <2> SUFFICES ASSUME NEW s \in Asserted', ~s.sometimes, NEW i \in Times, Covers(s.begin, s.end, i)
               PROVE  \/ At(t, "load")' /\ \E k \in DOMAIN task'[t].batch :
                             k >= task'[t].next /\ task'[t].batch[k] = s
                      \/ \E d \in docs' : ~IsDoomed(d)' /\ Holds(d, s, i)
    BY DEF AssertedIsWritten
  <2>1. CASE s \in Asserted
    <3>1. \A u \in Threads : ~At(u, "load") /\ Pending(u) = {}
      BY <1>1 DEF At, Idle, Pending
    <3>2. \E d \in docs : Holds(d, s, i)
      BY <2>1, <3>1 DEF TimesHold, AssertedIsWritten
    <3> QED
      BY <1>1, <1>6, <3>2
  <2>2. CASE s \in Range(batch)
    <3>1. PICK k \in DOMAIN batch : batch[k] = s
      BY <2>2 DEF Range
    <3>2. k \in Nat /\ k >= 1
      OBVIOUS
    <3> QED
      BY <1>2, <3>1, <3>2 DEF At
  <2> QED
    BY <1>4, <2>1, <2>2
<1>8. OverlapIsUnread'
  BY <1>1, <1>6 DEF TimesHold, OverlapIsUnread
<1> QED
  BY <1>5, <1>7, <1>8 DEF TimesHold

LEMMA LoadTimes ==
    ASSUME TypeOK, Basic, Alone, TimesHold, NEW t \in Threads, loadTriple(t)
    PROVE  TimesHold'
<1> DEFINE s == Statement(t)
           x == NewDocument(t)
           n == task[t].next
           batch == task[t].batch
<1>1. /\ s \in Statements /\ n \in DOMAIN batch /\ s = batch[n] /\ n \in Nat
      /\ At(t, "load") /\ batch \in Seq(Statements)
      /\ task'[t].pc = "load" /\ task'[t].batch = batch /\ task'[t].next = n + 1
      /\ docs' = docs /\ asserted' = asserted
  BY LoadDoes DEF LoadTasks
<1>2. \A u \in Threads : u # t => task'[u] = Idle /\ task[u] = Idle
  <2>1. \A u \in Threads : u # t => task'[u] = task[u]
    BY LoadDoes
  <2>2. task[t] # Idle
    BY <1>1 DEF At, Idle
  <2> QED
    BY <2>1, <2>2, AloneStep
<1>3. Asserted' = Asserted
  BY <1>1 DEF Asserted
<1>4. \A d : ~IsDoomed(d) /\ ~IsDoomed(d)'
  BY <1>1, <1>2 DEF IsDoomed, At, Idle
<1>5. /\ IsAnnotationProperty(s.predicate) => Pending(t)' = Pending(t) /\ Written' = Written
      /\ ~IsAnnotationProperty(s.predicate) =>
            /\ Pending(t)' = Pending(t) \cup {x} /\ Written' = Written \cup {x} /\ FromStatement(x, s)
  BY LoadDoes
<1> HIDE DEF x, s, n, batch
<1>6. ASSUME ~IsAnnotationProperty(s.predicate) PROVE s \in Asserted
  <2>1. task[t] # Idle
    BY <1>1 DEF At, Idle
  <2>2. batch \in Range(asserted)
    BY <2>1 DEF Basic, PointsToPlaces, batch
  <2> QED
    BY <1>1, <1>6, <2>2, AssertedIs
<1>7. DocumentsAreAsserted'
  <2>1. ASSUME ~IsAnnotationProperty(s.predicate)
        PROVE  /\ ~IsAnnotationProperty(x.predicate)
               /\ ~x.occasional => \A i \in Times : Covers(x.since, x.until, i) =>
                     \E r \in Asserted : Says(r, x) /\ Covers(r.begin, r.end, i)
    <3>1. /\ x.predicate = s.predicate /\ IsSame(x, s) /\ x.uncertain = ~s.certain
          /\ x.occasional = s.sometimes /\ x.since = s.begin /\ x.until = s.end
      BY <1>5, <2>1 DEF FromStatement, IsSame
    <3>2. ~x.occasional => Says(s, x)
      BY <1>1, <3>1 DEF Says, Statements
    <3> QED
      BY <1>6, <2>1, <3>1, <3>2
  <2> QED
    BY <1>3, <1>5, <2>1 DEF TimesHold, DocumentsAreAsserted
<1>8. AssertedIsWritten'
  <2> SUFFICES ASSUME NEW r \in Asserted, ~r.sometimes, NEW i \in Times, Covers(r.begin, r.end, i)
               PROVE  \/ At(t, "load")' /\ \E k \in DOMAIN task'[t].batch :
                             k >= task'[t].next /\ task'[t].batch[k] = r
                      \/ \E y \in Pending(t)' : Holds(y, r, i)
                      \/ \E d \in docs' : ~IsDoomed(d)' /\ Holds(d, r, i)
    BY <1>3 DEF AssertedIsWritten
  <2>1. \/ \E k \in DOMAIN batch : k >= n /\ batch[k] = r
        \/ \E y \in Pending(t) : Holds(y, r, i)
        \/ \E d \in docs : Holds(d, r, i)
    <3>1. \A u \in Threads : u # t => ~At(u, "load") /\ Pending(u) = {}
      BY <1>2 DEF At, Idle, Pending
    <3> QED
      BY <3>1 DEF TimesHold, AssertedIsWritten, batch, n
  <2>2. CASE \E k \in DOMAIN batch : k >= n /\ batch[k] = r
    <3>1. PICK k \in DOMAIN batch : k >= n /\ batch[k] = r
      BY <2>2
    <3>2. CASE k = n
      <4>1. r = s /\ ~IsAnnotationProperty(s.predicate)
        BY <1>1, <3>1, <3>2, AssertedIs
      <4>2. x \in Pending(t)' /\ FromStatement(x, s)
        BY <1>5, <4>1
      <4>3. Holds(x, r, i)
        BY <1>1, <4>1, <4>2 DEF FromStatement, Holds, IsSame, Statements
      <4> QED
        BY <4>2, <4>3
    <3>3. CASE k # n
      <4>1. k \in Nat /\ k >= n + 1
        BY <1>1, <3>1, <3>3
      <4> QED
        BY <1>1, <3>1, <4>1 DEF At
    <3> QED
      BY <3>2, <3>3
  <2> QED
    BY <1>1, <1>4, <1>5, <2>1, <2>2
<1>9. OverlapIsUnread'
  <2> SUFFICES ASSUME NEW d \in docs, NEW e \in docs, NEW i \in Times,
                      d # e, IsSame(d, e), d.uncertain = e.uncertain, ~d.occasional, ~e.occasional,
                      IsClosed(d), IsClosed(e), Covers(d.since, d.until, i), Covers(e.since, e.until, i)
               PROVE  task'[t] # Idle /\ \E k \in DOMAIN task'[t].batch :
                          IsUnread(t, k)' /\ Overlaps(task'[t].batch[k], d) /\ Overlaps(task'[t].batch[k], e)
    BY <1>1 DEF OverlapIsUnread
  <2>1. PICK k \in DOMAIN batch : Overlaps(batch[k], d) /\ Overlaps(batch[k], e)
    BY <1>2, <1>4 DEF TimesHold, OverlapIsUnread, batch
  <2>2. task'[t] # Idle
    BY <1>1 DEF Idle
  <2> QED
    BY <1>1, <2>1, <2>2 DEF IsUnread
<1> QED
  BY <1>7, <1>8, <1>9 DEF TimesHold

\* A statement overlaps with its document, and with what overlaps with this.
LEMMA OverlapOfStatement ==
    ASSUME TypeOK, NEW s \in Statements, NEW x \in TripleFields, FromStatement(x, s),
           NEW d \in Documents, SaysSame(d, x), IsClosed(d), NEW i \in Times, Covers(d.since, d.until, i),
           NEW e \in Documents, IsSame(d, e), d.uncertain = e.uncertain, IsClosed(e),
           Covers(e.since, e.until, i)
    PROVE  Overlaps(s, d) /\ Overlaps(s, e)
<1>1. /\ IsSame(d, s) /\ d.uncertain = ~s.certain /\ d.since = s.begin /\ d.until = s.end
  BY DEF SaysSame, FromStatement, IsSame
<1>2. IsSame(e, s) /\ e.uncertain = ~s.certain
  BY <1>1 DEF IsSame
<1>3. d.since \in Nat /\ d.until \in Nat /\ e.since \in Nat /\ e.until \in Nat /\ i \in Nat
  BY TimesAre
<1>4. d.since <= i /\ i <= d.until /\ e.since <= i /\ i <= e.until
  BY DEF Covers, IsClosed
<1>5. s.begin # NoTime /\ s.end # NoTime /\ d.since <= d.until /\ e.since <= d.until /\ d.since <= e.until
  BY <1>1, <1>3, <1>4 DEF IsClosed
<1> QED
  BY <1>1, <1>2, <1>5 DEF Overlaps

LEMMA FlushTimes ==
    ASSUME TypeOK, Basic, Alone, TimesHold, NEW t \in Threads, flush(t)
    PROVE  TimesHold'
<1> DEFINE batch == task[t].batch
           n == task[t].next
<1>1. /\ At(t, "load") /\ batch \in Seq(Statements) /\ n \in Nat
      /\ task'[t].batch = batch /\ task'[t] # Idle /\ asserted' = asserted
      /\ docs' = docs \cup Stored(t) /\ Pending(t)' = {}
      /\ \/ task'[t].pc = "load" /\ task'[t].next = n
         \/ task'[t].pc = "hierarchy" /\ n > Len(batch)
  BY FlushWrites, TaskIs DEF TypeOK, LoadTasks
<1>2. \A u \in Threads : u # t => task'[u] = Idle /\ task[u] = Idle
  <2>1. task[t] # Idle /\ \A u \in Threads : u # t => task'[u] = task[u]
    BY <1>1, FlushWrites DEF At, Idle
  <2> QED
    BY <2>1, AloneStep
<1>3. Asserted' = Asserted /\ \A d : ~IsDoomed(d) /\ ~IsDoomed(d)'
  BY <1>1, <1>2 DEF Asserted, IsDoomed, At, Idle
<1>4. /\ \A d \in Stored(t) : \E x \in Pending(t) : SaysSame(d, x)
      /\ \A x \in Pending(t) : \E d \in Stored(t) : SaysSame(d, x)
  BY FlushWrites DEF SameContent, SaysSame, IsSame
<1>5. Stored(t) \subseteq Documents /\ docs \subseteq Documents /\ Pending(t) \subseteq TripleFields
  BY <1>1, StoredIs DEF TypeOK
<1> HIDE DEF batch, n
<1>6. DocumentsAreAsserted'
  <2>1. ASSUME NEW d \in Written' PROVE \E x \in Written : SaysSame(d, x)
    <3>1. CASE d \in Written
      BY <3>1 DEF SaysSame, IsSame
    <3>2. CASE d \in Stored(t)
      BY <1>4, <3>2 DEF Written
    <3> QED
      BY <2>1, <3>1, <3>2, FlushWrites
  <2>2. ASSUME NEW d \in Written'
        PROVE  /\ ~IsAnnotationProperty(d.predicate)
               /\ ~d.occasional => \A i \in Times : Covers(d.since, d.until, i) =>
                     \E s \in Asserted : Says(s, d) /\ Covers(s.begin, s.end, i)
    <3>1. PICK x \in Written : SaysSame(d, x)
      BY <2>1, <2>2
    <3>2. d.predicate = x.predicate /\ \A s : Says(s, d) <=> Says(s, x)
      BY <3>1, SaysSameIs
    <3> QED
      BY <3>1, <3>2 DEF TimesHold, DocumentsAreAsserted, SaysSame
  <2> QED
    BY <1>3, <2>2 DEF DocumentsAreAsserted
<1>7. AssertedIsWritten'
  <2> SUFFICES ASSUME NEW r \in Asserted, ~r.sometimes, NEW i \in Times, Covers(r.begin, r.end, i)
               PROVE  \/ At(t, "load")' /\ \E k \in DOMAIN task'[t].batch :
                             k >= task'[t].next /\ task'[t].batch[k] = r
                      \/ \E d \in docs' : ~IsDoomed(d)' /\ Holds(d, r, i)
    BY <1>3 DEF AssertedIsWritten
  <2>1. \/ \E k \in DOMAIN batch : k >= n /\ batch[k] = r
        \/ \E y \in Pending(t) : Holds(y, r, i)
        \/ \E d \in docs : Holds(d, r, i)
    <3>1. \A u \in Threads : u # t => ~At(u, "load") /\ Pending(u) = {}
      BY <1>2 DEF At, Idle, Pending
    <3> QED
      BY <3>1 DEF TimesHold, AssertedIsWritten, batch, n
  <2>2. CASE \E k \in DOMAIN batch : k >= n /\ batch[k] = r
    <3>1. \A k \in DOMAIN batch : k \in Nat /\ k <= Len(batch) /\ Len(batch) \in Nat
      BY <1>1
    <3>2. task'[t].pc = "load" /\ task'[t].next = n
      BY <1>1, <2>2, <3>1
    <3> QED
      BY <1>1, <2>2, <3>2 DEF At
  <2>3. CASE \E y \in Pending(t) : Holds(y, r, i)
    <3>1. PICK y \in Pending(t) : Holds(y, r, i)
      BY <2>3
    <3>2. PICK d \in Stored(t) : SaysSame(d, y)
      BY <1>4
    <3>3. Holds(d, r, i)
      BY <3>1, <3>2, SaysSameIs
    <3> QED
      BY <1>1, <1>3, <3>3
  <2> QED
    BY <1>1, <1>3, <2>1, <2>2, <2>3
<1>8. OverlapIsUnread'
  <2> SUFFICES ASSUME NEW d \in docs', NEW e \in docs', NEW i \in Times,
                      d # e, IsSame(d, e), d.uncertain = e.uncertain, ~d.occasional, ~e.occasional,
                      IsClosed(d), IsClosed(e), Covers(d.since, d.until, i), Covers(e.since, e.until, i)
               PROVE  \E k \in DOMAIN batch : Overlaps(batch[k], d) /\ Overlaps(batch[k], e)
    <3>1. \A k : IsUnread(t, k)'
      BY <1>1 DEF IsUnread
    <3> QED
      BY <1>1, <3>1 DEF OverlapIsUnread
  <2>1. CASE d \in docs /\ e \in docs
    BY <1>2, <1>3, <2>1 DEF TimesHold, OverlapIsUnread, batch
  <2>2. \A x \in Pending(t) : \E k \in DOMAIN batch : batch[k] \in Statements /\ FromStatement(x, batch[k])
    <3>1. \A k \in DOMAIN batch : batch[k] \in Statements
      BY <1>1
    <3> QED
      BY <3>1 DEF Basic, batch
  <2>3. CASE d \in Stored(t)
    <3>1. PICK x \in Pending(t) : SaysSame(d, x)
      BY <1>4, <2>3
    <3>2. PICK k \in DOMAIN batch : batch[k] \in Statements /\ FromStatement(x, batch[k])
      BY <2>2
    <3>3. d \in Documents /\ e \in Documents /\ x \in TripleFields
      BY <1>1, <1>5
    <3> QED
      BY <3>1, <3>2, <3>3, OverlapOfStatement
  <2>4. CASE e \in Stored(t)
    <3>1. PICK x \in Pending(t) : SaysSame(e, x)
      BY <1>4, <2>4
    <3>2. PICK k \in DOMAIN batch : batch[k] \in Statements /\ FromStatement(x, batch[k])
      BY <2>2
    <3>3. d \in Documents /\ e \in Documents /\ x \in TripleFields
      BY <1>1, <1>5
    <3>4. IsSame(e, d)
      BY DEF IsSame
    <3> QED
      BY <3>1, <3>2, <3>3, <3>4, OverlapOfStatement
  <2> QED
    BY <1>1, <2>1, <2>3, <2>4
<1> QED
  BY <1>6, <1>7, <1>8 DEF TimesHold

\* Steps that leave what documents say.
LEMMA QuietTimes ==
    ASSUME TypeOK, TimesHold, NEW t \in Threads, \A u \in Threads : u # t => task'[u] = Idle /\ task[u] = Idle,
           task[t].pc \notin {"idle", "load", "remove"}, (task[t].pc)' \notin {"load", "remove"},
           task'[t] # Idle => task'[t].batch = task[t].batch, asserted' = asserted,
           NEW W, docs' = {W[d] : d \in docs}, \A d \in docs : SaysSame(W[d], d),
           \A d, e \in docs : \A k \in DOMAIN task[t].batch :
              /\ d # e /\ ~d.occasional /\ ~e.occasional /\ IsUnread(t, k)
              /\ Overlaps(task[t].batch[k], d) /\ Overlaps(task[t].batch[k], e)
              => task'[t] # Idle /\ IsUnread(t, k)'
    PROVE  TimesHold'
<1>1. Asserted' = Asserted /\ \A d : ~IsDoomed(d) /\ ~IsDoomed(d)'
  BY DEF Asserted, IsDoomed, At, Idle
<1>2. Written = docs /\ Written' = docs'
  <2>1. \A u \in Threads : Pending(u) = {} /\ Pending(u)' = {}
    BY DEF Pending, Idle
  <2> QED
    BY <2>1 DEF Written
<1>3. DocumentsAreAsserted'
  <2>1. ASSUME NEW d \in docs
        PROVE  /\ ~IsAnnotationProperty(W[d].predicate)
               /\ ~W[d].occasional => \A i \in Times : Covers(W[d].since, W[d].until, i) =>
                     \E s \in Asserted : Says(s, W[d]) /\ Covers(s.begin, s.end, i)
    <3>1. SaysSame(W[d], d)
      OBVIOUS
    <3>2. W[d].predicate = d.predicate /\ \A s : Says(s, W[d]) <=> Says(s, d)
      BY <3>1, SaysSameIs
    <3> QED
      BY <1>2, <3>1, <3>2 DEF TimesHold, DocumentsAreAsserted, SaysSame
  <2> QED
    BY <1>1, <1>2, <2>1 DEF DocumentsAreAsserted
<1>4. AssertedIsWritten'
  <2> SUFFICES ASSUME NEW r \in Asserted, ~r.sometimes, NEW i \in Times, Covers(r.begin, r.end, i)
               PROVE  \E d \in docs' : Holds(d, r, i)
    BY <1>1 DEF AssertedIsWritten
  <2>1. \A u \in Threads : ~At(u, "load") /\ Pending(u) = {}
    BY DEF At, Idle, Pending
  <2>2. PICK d \in docs : Holds(d, r, i)
    BY <2>1 DEF TimesHold, AssertedIsWritten
  <2>3. Holds(W[d], r, i)
    BY <2>2, SaysSameIs
  <2> QED
    BY <2>3
<1>5. OverlapIsUnread'
  <2> SUFFICES ASSUME NEW d \in docs, NEW e \in docs, NEW i \in Times,
                      W[d] # W[e], IsSame(W[d], W[e]), W[d].uncertain = W[e].uncertain,
                      ~W[d].occasional, ~W[e].occasional,
                      IsClosed(W[d]), IsClosed(W[e]),
                      Covers(W[d].since, W[d].until, i), Covers(W[e].since, W[e].until, i)
               PROVE  task'[t] # Idle /\ \E k \in DOMAIN task'[t].batch :
                          /\ IsUnread(t, k)'
                          /\ Overlaps(task'[t].batch[k], W[d]) /\ Overlaps(task'[t].batch[k], W[e])
    BY DEF OverlapIsUnread
  <2>1. SaysSame(W[d], d) /\ SaysSame(W[e], e)
    OBVIOUS
  <2>2. /\ d # e /\ IsSame(d, e) /\ d.uncertain = e.uncertain /\ ~d.occasional /\ ~e.occasional
        /\ IsClosed(d) /\ IsClosed(e) /\ Covers(d.since, d.until, i) /\ Covers(e.since, e.until, i)
    BY <2>1 DEF SaysSame, IsSame, IsClosed
  <2>3. PICK u \in Threads : task[u] # Idle /\ \E k \in DOMAIN task[u].batch :
            IsUnread(u, k) /\ Overlaps(task[u].batch[k], d) /\ Overlaps(task[u].batch[k], e)
    BY <1>1, <2>2 DEF TimesHold, OverlapIsUnread
  <2>4. u = t
    BY <2>3
  <2>5. PICK k \in DOMAIN task[t].batch :
            IsUnread(t, k) /\ Overlaps(task[t].batch[k], d) /\ Overlaps(task[t].batch[k], e)
    BY <2>3, <2>4
  <2>6. task'[t] # Idle /\ IsUnread(t, k)'
    BY <2>2, <2>5
  <2>7. Overlaps(task[t].batch[k], W[d]) /\ Overlaps(task[t].batch[k], W[e])
    BY <2>1, <2>5, SaysSameIs
  <2> QED
    BY <2>5, <2>6, <2>7
<1> QED
  BY <1>3, <1>4, <1>5 DEF TimesHold

\* Steps that leave the documents.
LEMMA StillTimes ==
    ASSUME TypeOK, TimesHold, NEW t \in Threads, \A u \in Threads : u # t => task'[u] = Idle /\ task[u] = Idle,
           task[t].pc \notin {"idle", "load", "remove"}, (task[t].pc)' \notin {"load", "remove"},
           task'[t] # Idle => task'[t].batch = task[t].batch, asserted' = asserted, docs' = docs,
           \A d, e \in docs : \A k \in DOMAIN task[t].batch :
              /\ d # e /\ ~d.occasional /\ ~e.occasional /\ IsUnread(t, k)
              /\ Overlaps(task[t].batch[k], d) /\ Overlaps(task[t].batch[k], e)
              => task'[t] # Idle /\ IsUnread(t, k)'
    PROVE  TimesHold'
<1> DEFINE W == [d \in docs |-> d]
<1>1. docs' = {W[d] : d \in docs} /\ \A d \in docs : SaysSame(W[d], d)
  BY DEF SaysSame, IsSame
<1> HIDE DEF W
<1> QED
  BY <1>1, QuietTimes

LEMMA ReadHierarchyTimes ==
    ASSUME TypeOK, Alone, TimesHold, NEW t \in Threads, readHierarchy(t)
    PROVE  TimesHold'
<1>1. /\ At(t, "hierarchy") /\ UNCHANGED <<docs, asserted>>
      /\ task'[t].pc = "merge" /\ task'[t].batch = task[t].batch
      /\ \A u \in Threads : u # t => task'[u] = task[u]
  BY ReadHierarchyDoes
<1>2. \A u \in Threads : u # t => task'[u] = Idle /\ task[u] = Idle
  BY <1>1, AloneStep DEF At, Idle
<1>3. task'[t] # Idle /\ \A k : IsUnread(t, k)'
  BY <1>1 DEF IsUnread, Idle
<1> QED
  BY <1>1, <1>2, <1>3, StillTimes DEF At

LEMMA WriteHierarchyTimes ==
    ASSUME TypeOK, Alone, TimesHold, NEW t \in Threads, writeHierarchy(t)
    PROVE  TimesHold'
<1>1. /\ At(t, "merge") /\ docs' = {Updated(t, d) : d \in docs} /\ asserted' = asserted
      /\ task'[t].pc = "hierarchy" /\ task'[t].batch = task[t].batch
      /\ \A u \in Threads : u # t => task'[u] = task[u]
  BY WriteHierarchyDoes
<1>2. \A u \in Threads : u # t => task'[u] = Idle /\ task[u] = Idle
  BY <1>1, AloneStep DEF At, Idle
<1>3. task'[t] # Idle /\ \A k : IsUnread(t, k)'
  BY <1>1 DEF IsUnread, Idle
<1> DEFINE W == [d \in docs |-> Updated(t, d)]
<1>4. docs' = {W[d] : d \in docs} /\ \A d \in docs : SaysSame(W[d], d)
  BY <1>1, UpdatedIs DEF SaysSame, IsSame
<1> HIDE DEF W
<1> QED
  BY <1>1, <1>2, <1>3, <1>4, QuietTimes DEF At

LEMMA EndHierarchyTimes ==
    ASSUME TypeOK, Alone, TimesHold, NEW t \in Threads, endHierarchy(t)
    PROVE  TimesHold'
<1>1. /\ At(t, "hierarchy") /\ UNCHANGED <<docs, asserted>>
      /\ task'[t].pc = "time" /\ task'[t].batch = task[t].batch /\ task'[t].next = 1
      /\ \A u \in Threads : u # t => task'[u] = task[u]
  BY EndHierarchyDoes
<1>2. \A u \in Threads : u # t => task'[u] = Idle /\ task[u] = Idle
  BY <1>1, AloneStep DEF At, Idle
<1>3. task'[t] # Idle /\ \A k \in DOMAIN task[t].batch : IsUnread(t, k)'
  <2>1. task[t].batch \in Seq(Statements)
    BY <1>1, TaskIs DEF TypeOK, HierarchyTasks
  <2>2. \A k \in DOMAIN task[t].batch : k >= 1
    BY <2>1
  <2> QED
    BY <1>1, <2>2 DEF IsUnread, Idle
<1> QED
  BY <1>1, <1>2, <1>3, StillTimes DEF At

LEMMA ReadOverlappingTimes ==
    ASSUME TypeOK, Basic, Alone, TimesHold, NEW t \in Threads, readOverlapping(t)
    PROVE  TimesHold'
<1> DEFINE n == task[t].next
<1>1. /\ At(t, "time") /\ UNCHANGED <<docs, asserted>>
      /\ task'[t].batch = task[t].batch /\ n \in DOMAIN task[t].batch
      /\ \A u \in Threads : u # t => task'[u] = task[u]
      /\ \/ task'[t].pc = "rewrite" /\ task'[t].next = n
         \/ /\ task'[t].pc = "time" /\ task'[t].next = n + 1
            /\ ~(HasTime(Statement(t)) /\ Cardinality(Overlapping(t)) > 1)
  BY ReadOverlappingDoes
<1>2. \A u \in Threads : u # t => task'[u] = Idle /\ task[u] = Idle
  BY <1>1, AloneStep DEF At, Idle
<1>3. task[t].batch \in Seq(Statements) /\ n \in Nat
  BY <1>1, TaskIs DEF TypeOK, TimeTasks
<1>4. task'[t] # Idle
  BY <1>1 DEF Idle
<1>5. ASSUME NEW d \in docs, NEW e \in docs, NEW k \in DOMAIN task[t].batch,
             d # e, ~d.occasional, ~e.occasional, IsUnread(t, k),
             Overlaps(task[t].batch[k], d), Overlaps(task[t].batch[k], e)
      PROVE  IsUnread(t, k)'
  <2>1. k >= n /\ k \in Nat
    BY <1>1, <1>3, <1>5 DEF IsUnread, At
  <2>2. CASE task'[t].pc = "rewrite"
    BY <1>1, <2>1, <2>2 DEF IsUnread
  <2>3. CASE task'[t].pc = "time"
    <3>1. k # n
      <4>1. task[t].batch[n] \in Statements
        BY <1>1, <1>3
      <4> QED
        BY <1>1, <1>5, <2>3, <4>1, TwoAreFound DEF Statement
    <3>2. k >= n + 1
      BY <1>3, <2>1, <3>1
    <3> QED
      BY <1>1, <2>3, <3>2 DEF IsUnread
  <2> QED
    BY <1>1, <2>2, <2>3
<1> HIDE DEF n
<1>6. task[t].pc = "time" /\ (task[t].pc)' \in {"time", "rewrite"}
  BY <1>1 DEF At
<1> QED
  BY <1>1, <1>2, <1>4, <1>5, <1>6, StillTimes

LEMMA EndInsertTimes ==
    ASSUME TypeOK, Alone, TimesHold, NEW t \in Threads, EndInsert(t)
    PROVE  TimesHold'
<1>1. /\ At(t, "time") /\ task[t].next > Len(task[t].batch) /\ UNCHANGED <<docs, asserted>>
      /\ task'[t] = Idle /\ \A u \in Threads : u # t => task'[u] = task[u]
  BY EndInsertDoes
<1>2. \A u \in Threads : u # t => task'[u] = Idle /\ task[u] = Idle
  BY <1>1, AloneStep DEF At, Idle
<1>3. task[t].batch \in Seq(Statements) /\ task[t].next \in Nat
  BY <1>1, TaskIs DEF TypeOK, TimeTasks
<1>4. \A k \in DOMAIN task[t].batch : ~IsUnread(t, k)
  BY <1>1, <1>3 DEF IsUnread, At
<1>5. (task[t].pc)' = "idle"
  BY <1>1 DEF Idle
<1> QED
  BY <1>1, <1>2, <1>4, <1>5, StillTimes DEF At

LEMMA RemoveOtherTimes ==
    ASSUME TypeOK, Alone, TimesHold, NEW t \in Threads, removeOther(t)
    PROVE  TimesHold'
<1> DEFINE batch == task[t].batch
           n == task[t].next
           others == task[t].others
<1>1. /\ At(t, "remove") /\ asserted' = asserted /\ task'[t].batch = batch
      /\ \A u \in Threads : u # t => task'[u] = task[u]
      /\ \/ others = {} /\ docs' = docs /\ task'[t].pc = "time" /\ task'[t].next = n + 1
         \/ /\ task'[t].pc = "remove" /\ task'[t].next = n
            /\ \E id \in others : docs' = {d \in docs : d.id # id} /\ task'[t].others = others \ {id}
  BY RemoveOtherDoes
<1>2. \A u \in Threads : u # t => task'[u] = Idle /\ task[u] = Idle
  BY <1>1, AloneStep DEF At, Idle
<1>3. batch \in Seq(Statements) /\ n \in Nat /\ task'[t] # Idle
  BY <1>1, TaskIs DEF TypeOK, RewriteTasks, At, Idle
<1>4. Asserted' = Asserted
  BY <1>1 DEF Asserted
<1>5. Written = docs /\ Written' = docs'
  <2>1. \A u \in Threads : Pending(u) = {} /\ Pending(u)' = {}
    BY <1>1, <1>2 DEF Pending, Idle, At
  <2> QED
    BY <2>1 DEF Written
<1> HIDE DEF batch, n, others
<1>6. /\ docs' \subseteq docs
      /\ \A d \in docs : ~IsDoomed(d) => d \in docs' /\ ~IsDoomed(d)'
      /\ \A d \in docs' : ~IsDoomed(d)' => ~IsDoomed(d)
  <2>1. \A d : IsDoomed(d) <=> d.id \in others
    BY <1>1, <1>2 DEF IsDoomed, At, Idle, others
  <2>2. CASE others = {} /\ docs' = docs /\ task'[t].pc = "time"
    BY <1>2, <2>1, <2>2 DEF IsDoomed, At, Idle
  <2>3. ASSUME NEW id \in others, docs' = {d \in docs : d.id # id}, task'[t].others = others \ {id},
               task'[t].pc = "remove"
        PROVE  /\ docs' \subseteq docs
               /\ \A d \in docs : ~IsDoomed(d) => d \in docs' /\ ~IsDoomed(d)'
               /\ \A d \in docs' : ~IsDoomed(d)' => ~IsDoomed(d)
    <3>1. \A d : IsDoomed(d)' <=> d.id \in others \ {id}
      BY <1>2, <2>3 DEF IsDoomed, At, Idle
    <3> QED
      BY <2>1, <2>3, <3>1
  <2> QED
    BY <1>1, <2>2, <2>3
<1>7. \A k \in DOMAIN batch : IsUnread(t, k) => IsUnread(t, k)'
  <2>1. \A k \in DOMAIN batch : k \in Nat /\ (k > n => k >= n + 1)
    BY <1>3
  <2>2. \/ task'[t].pc = "remove" /\ task'[t].next = n
        \/ task'[t].pc = "time" /\ task'[t].next = n + 1
    BY <1>1
  <2> QED
    BY <1>1, <2>1, <2>2 DEF IsUnread, At, n
<1>8. DocumentsAreAsserted'
  BY <1>4, <1>5, <1>6 DEF TimesHold, DocumentsAreAsserted
<1>9. AssertedIsWritten'
  <2> SUFFICES ASSUME NEW r \in Asserted, ~r.sometimes, NEW i \in Times, Covers(r.begin, r.end, i)
               PROVE  \E d \in docs' : ~IsDoomed(d)' /\ Holds(d, r, i)
    BY <1>4 DEF AssertedIsWritten
  <2>1. \A u \in Threads : ~At(u, "load") /\ Pending(u) = {}
    BY <1>1, <1>2 DEF At, Idle, Pending
  <2>2. \E d \in docs : ~IsDoomed(d) /\ Holds(d, r, i)
    BY <2>1 DEF TimesHold, AssertedIsWritten
  <2> QED
    BY <1>6, <2>2
<1>10. OverlapIsUnread'
  <2> SUFFICES ASSUME NEW d \in docs', NEW e \in docs', NEW i \in Times,
                      d # e, IsSame(d, e), d.uncertain = e.uncertain, ~d.occasional, ~e.occasional,
                      IsClosed(d), IsClosed(e), ~IsDoomed(d)', ~IsDoomed(e)',
                      Covers(d.since, d.until, i), Covers(e.since, e.until, i)
               PROVE  \E k \in DOMAIN batch :
                          IsUnread(t, k)' /\ Overlaps(batch[k], d) /\ Overlaps(batch[k], e)
    BY <1>1, <1>3 DEF OverlapIsUnread
  <2>1. d \in docs /\ e \in docs /\ ~IsDoomed(d) /\ ~IsDoomed(e)
    BY <1>6
  <2>2. \E k \in DOMAIN batch : IsUnread(t, k) /\ Overlaps(batch[k], d) /\ Overlaps(batch[k], e)
    BY <1>2, <2>1 DEF TimesHold, OverlapIsUnread, batch
  <2> QED
    BY <1>7, <2>2
<1> QED
  BY <1>8, <1>9, <1>10 DEF TimesHold

\* The documents to be merged are of the statement, and their times are bounded.
LEMMA FoundIs ==
    ASSUME TypeOK, Basic, FoundIsStored, windows = {}, DocumentsAreAsserted,
           NEW t \in Threads, At(t, "rewrite")
    PROVE  LET s == Statement(t)
               found == Overlapping(t)
               time == task[t].time
           IN  /\ s \in Statements /\ s.begin \in Times /\ s.end \in Times /\ ~s.sometimes /\ s \in Asserted
               /\ \A d \in found : /\ IsSame(d, s) /\ d.uncertain = ~s.certain /\ ~d.occasional
                                   /\ d.since \in Times /\ d.until \in Times
                                   /\ d.since <= s.end /\ s.begin <= d.until
               /\ task[t].first \in {d.id : d \in found}
               /\ task[t].others = {d.id : d \in found} \ {task[t].first}
               /\ time.since \in Times /\ time.since <= s.begin /\ \A d \in found : time.since <= d.since
               /\ time.since = s.begin \/ \E d \in found : time.since = d.since
               /\ time.until \in Times /\ s.end <= time.until /\ \A d \in found : d.until <= time.until
               /\ time.until = s.end \/ \E d \in found : time.until = d.until
<1> DEFINE s == Statement(t)
           found == Overlapping(t)
           time == task[t].time
           e == [s EXCEPT !.sometimes = TRUE]
<1>1. /\ HasTime(s) /\ Oddities(s, found) = {} /\ task[t].first \in {d.id : d \in found}
      /\ task[t].others = {d.id : d \in found} \ {task[t].first} /\ time = UnionTime(s, found)
  BY DEF FoundIsStored, Statement
<1>2. s \in Statements /\ task[t].next \in DOMAIN task[t].batch
  BY TaskIs, BatchIs DEF Basic, PointsToPlaces, TypeOK, RewriteTasks, At, Statement
<1>3. /\ e.subject = s.subject /\ e.predicate = s.predicate /\ e.object = s.object /\ e.begin = s.begin
      /\ e.end = s.end /\ e.certain = s.certain /\ e.agent = s.agent /\ e.sometimes
  BY <1>2 DEF Statements
<1>4. found = {d \in docs : Matches(d, e)} /\ found \subseteq docs
  BY DEF Overlapping, Statement
<1>5. PICK f \in found : f.id = task[t].first
  BY <1>1
<1> HIDE DEF e, found
<1>6. /\ \A d \in found : SameTriple(d, s)
      /\ \A d \in found : ~(d.uncertain = s.certain \/ s.sometimes)
      /\ NoTime \notin {s.begin, s.end} \cup UNION {{d.since, d.until} : d \in found}
  BY <1>1 DEF Oddities, SameTriple
<1>7. s.begin \in Times /\ s.end \in Times /\ ~s.sometimes
  BY <1>2, <1>5, <1>6, TimesAre DEF MaybeTimes
<1>8. ASSUME NEW d \in found
      PROVE  /\ IsSame(d, s) /\ d.uncertain = ~s.certain /\ ~d.occasional
             /\ d.since \in Times /\ d.until \in Times
             /\ d.since <= s.end /\ s.begin <= d.until
  <2>1. d \in Documents /\ EpistemicMatches(d, e) /\ TimeMatches(d, e)
    BY <1>4 DEF Matches, TypeOK
  <2>2. d.since \in Times /\ d.until \in Times
    BY <1>6, <2>1, TimesAre DEF MaybeTimes
  <2>3. ~d.occasional /\ d.since <= s.end /\ s.begin <= d.until
    <3>1. ~d.occasional /\ d.since <= s.end /\ (d.until = NoTime \/ d.until >= s.begin)
      BY <1>3, <1>7, <2>1, TimesAre DEF TimeMatches
    <3> QED
      BY <1>7, <2>2, <3>1, TimesAre
  <2>4. IsSame(d, s)
    BY <1>3, <1>6, <2>1 DEF EpistemicMatches, IsSame, SameTriple
  <2>5. d.uncertain = ~s.certain
    <3>1. d.uncertain \in BOOLEAN /\ s.certain \in BOOLEAN
      BY <1>2, <2>1 DEF Documents, Statements
    <3> QED
      BY <1>6, <3>1
  <2> QED
    BY <2>2, <2>3, <2>4, <2>5
<1>9. s \in Asserted
  <2>1. ~IsAnnotationProperty(s.predicate)
    <3>1. f \in Written /\ f.predicate = s.predicate
      BY <1>4, <1>6 DEF Written, SameTriple
    <3> QED
      BY <3>1 DEF DocumentsAreAsserted
  <2>2. task[t].batch \in Range(asserted)
    BY DEF Basic, PointsToPlaces, At, Idle
  <2> QED
    BY <1>2, <2>1, <2>2, AssertedIs DEF Statement
<1>10. /\ Begins(s, found) = {s.begin} \cup {d.since : d \in found}
       /\ Ends(s, found) = {s.end} \cup {d.until : d \in found}
  BY <1>7, <1>8, TimesAre DEF Begins, Ends
<1>11. found \in SUBSET Documents
  BY <1>4 DEF TypeOK
<1>12. /\ time.since \in Begins(s, found) /\ \A y \in Begins(s, found) : time.since <= y
       /\ time.until \in Ends(s, found) /\ \A y \in Ends(s, found) : time.until >= y
       /\ Begins(s, found) \subseteq Times /\ Ends(s, found) \subseteq Times
  BY <1>1, <1>2, <1>10, <1>11, UnionTimeIs
<1>13. /\ time.since \in Times /\ time.since <= s.begin /\ \A d \in found : time.since <= d.since
       /\ time.since = s.begin \/ \E d \in found : time.since = d.since
  BY <1>10, <1>12
<1>14. /\ time.until \in Times /\ s.end <= time.until /\ \A d \in found : d.until <= time.until
       /\ time.until = s.end \/ \E d \in found : time.until = d.until
  <2>1. \A y \in Ends(s, found) : y <= time.until
    BY <1>12, TimesAre
  <2> QED
    BY <1>10, <1>12, <2>1
<1> QED
  BY <1>1, <1>2, <1>7, <1>8, <1>9, <1>13, <1>14 DEF found

\* At every instant of the union the statement holds, or one of the documents.
LEMMA UnionIsCovered ==
    ASSUME TypeOK, Basic, FoundIsStored, windows = {}, DocumentsAreAsserted,
           NEW t \in Threads, At(t, "rewrite"), NEW i \in Times, task[t].time.since <= i, i <= task[t].time.until
    PROVE  \/ Statement(t).begin <= i /\ i <= Statement(t).end
           \/ \E d \in Overlapping(t) : d.since <= i /\ i <= d.until
<1> DEFINE s == Statement(t)
           found == Overlapping(t)
<1>1. /\ s.begin \in Times /\ s.end \in Times
      /\ \A d \in found : /\ d.since \in Times /\ d.until \in Times
                          /\ d.since <= s.end /\ s.begin <= d.until
      /\ task[t].time.since = s.begin \/ \E d \in found : task[t].time.since = d.since
      /\ task[t].time.until = s.end \/ \E d \in found : task[t].time.until = d.until
  BY FoundIs
<1> HIDE DEF s, found
<1>2. CASE ~(s.begin <= i)
  <2>1. PICK d \in found : task[t].time.since = d.since
    BY <1>1, <1>2
  <2>2. d.since <= i /\ i <= d.until
    BY <1>1, <1>2, <2>1, TimesAre
  <2> QED
    BY <2>2 DEF found
<1>3. CASE ~(i <= s.end)
  <2>1. PICK d \in found : task[t].time.until = d.until
    BY <1>1, <1>3
  <2>2. s.end \in Nat /\ i \in Nat /\ d.since \in Nat /\ d.since <= s.end /\ s.end < i
    <3>1. s.end \in Nat /\ i \in Nat /\ d.since \in Nat
      BY <1>1, TimesAre
    <3>2. d.since <= s.end
      BY <1>1
    <3> QED
      BY <1>3, <3>1, <3>2
  <2>3. d.since <= i /\ i <= d.until
    BY <2>1, <2>2
  <2> QED
    BY <2>3 DEF found
<1> QED
  BY <1>2, <1>3 DEF s

\* What overlaps with the union overlaps with a statement that is still to be looked at.
LEMMA UnionOverlaps ==
    ASSUME TypeOK, Basic, FoundIsStored, windows = {}, TimesHold,
           NEW t \in Threads, At(t, "rewrite"), \A u \in Threads : u # t => task[u] = Idle,
           NEW g \in Documents, NEW f \in Overlapping(t), IsSame(g, f), g.uncertain = f.uncertain,
           g.since = task[t].time.since, g.until = task[t].time.until,
           NEW e \in docs, e \notin Overlapping(t), IsSame(g, e), g.uncertain = e.uncertain,
           ~e.occasional, IsClosed(e), NEW i \in Times, Covers(g.since, g.until, i), Covers(e.since, e.until, i)
    PROVE  \E k \in DOMAIN task[t].batch :
              k > task[t].next /\ Overlaps(task[t].batch[k], g) /\ Overlaps(task[t].batch[k], e)
<1> DEFINE s == Statement(t)
           found == Overlapping(t)
           batch == task[t].batch
           n == task[t].next
<1>1. /\ s \in Statements /\ s.begin \in Times /\ s.end \in Times
      /\ \A d \in found : /\ IsSame(d, s) /\ d.uncertain = ~s.certain /\ ~d.occasional
                          /\ d.since \in Times /\ d.until \in Times
      /\ g.since \in Times /\ g.until \in Times
      /\ \A d \in found : g.since <= d.since /\ d.until <= g.until
  BY FoundIs DEF TimesHold
<1>2. batch \in Seq(Statements) /\ n \in DOMAIN batch /\ s = batch[n]
  BY TaskIs DEF Basic, PointsToPlaces, TypeOK, RewriteTasks, At, Statement
<1>3. Overlaps(s, e) => FALSE
  BY <1>1, OverlapsIsFound DEF Overlapping, Statement
<1>4. g.since <= i /\ i <= g.until /\ e.since <= i /\ i <= e.until
  BY <1>1, TimesAre DEF Covers, IsClosed
<1>5. i \in Nat /\ s.begin \in Nat /\ s.end \in Nat /\ e.since \in Nat /\ e.until \in Nat
      /\ g.since \in Nat /\ g.until \in Nat
  BY <1>1, TimesAre DEF TypeOK
<1>6. IsSame(e, s) /\ e.uncertain = ~s.certain
  BY <1>1 DEF IsSame
<1>7. ~(s.begin <= i /\ i <= s.end)
  <2> SUFFICES ASSUME s.begin <= i, i <= s.end PROVE FALSE
    OBVIOUS
  <2>1. e.since <= s.end /\ s.begin <= e.until
    BY <1>4, <1>5
  <2>2. s.begin # NoTime /\ s.end # NoTime
    BY <1>1, TimesAre
  <2> QED
    BY <1>3, <1>6, <2>1, <2>2 DEF Overlaps
<1>8. PICK d \in found : d.since <= i /\ i <= d.until
  BY <1>4, <1>7, UnionIsCovered DEF TimesHold
<1>9. d \in docs /\ d.since \in Nat /\ d.until \in Nat
  BY TimesAre DEF TypeOK, Overlapping
<1>10. PICK k \in DOMAIN batch : IsUnread(t, k) /\ Overlaps(batch[k], d) /\ Overlaps(batch[k], e)
  <2>1. /\ d # e /\ IsSame(d, e) /\ d.uncertain = e.uncertain /\ ~d.occasional /\ IsClosed(d)
    BY <1>1, <1>6, TimesAre DEF IsSame, IsClosed
  <2>2. Covers(d.since, d.until, i)
    BY <1>8 DEF Covers
  <2>3. \A x : ~IsDoomed(x)
    BY DEF IsDoomed, At, Idle
  <2>4. PICK u \in Threads : task[u] # Idle /\ \E k \in DOMAIN task[u].batch :
            IsUnread(u, k) /\ Overlaps(task[u].batch[k], d) /\ Overlaps(task[u].batch[k], e)
    BY <1>9, <2>1, <2>2, <2>3 DEF TimesHold, OverlapIsUnread
  <2>5. u = t
    BY <2>4
  <2> QED
    BY <2>4, <2>5
<1>11. k > n
  <2>1. k >= n /\ k \in Nat /\ n \in Nat
    BY <1>2, <1>10 DEF IsUnread, At
  <2>2. k # n
    BY <1>2, <1>3, <1>10
  <2> QED
    BY <2>1, <2>2
<1>12. Overlaps(batch[k], g)
  <2>1. batch[k] \in Statements
    BY <1>2
  <2>2. batch[k].begin \in Nat /\ batch[k].end \in Nat
    BY <2>1, TimesAre
  <2>3. g.since <= d.since /\ d.until <= g.until
    BY <1>1
  <2>4. d.since <= batch[k].end /\ batch[k].begin <= d.until /\ batch[k].begin # NoTime
        /\ batch[k].end # NoTime /\ IsSame(e, batch[k]) /\ e.uncertain = ~batch[k].certain
    BY <1>10 DEF Overlaps
  <2>5. g.since <= batch[k].end /\ batch[k].begin <= g.until
    BY <1>5, <1>9, <2>2, <2>3, <2>4
  <2>6. IsSame(g, batch[k]) /\ g.uncertain = ~batch[k].certain
    BY <2>4 DEF IsSame
  <2> QED
    BY <2>4, <2>5, <2>6 DEF Overlaps
<1> QED
  BY <1>10, <1>11, <1>12

LEMMA RewriteFirstTimes ==
    ASSUME TypeOK, Basic, Alone, FoundIsStored, windows = {}, TimesHold, NEW t \in Threads, rewriteFirst(t)
    PROVE  TimesHold'
<1> DEFINE s == Statement(t)
           found == Overlapping(t)
           time == task[t].time
           batch == task[t].batch
           n == task[t].next
<1>1. /\ At(t, "rewrite") /\ docs' = {Rewritten(t, d) : d \in docs} /\ asserted' = asserted
      /\ task'[t].pc = "remove" /\ task'[t].batch = batch /\ task'[t].next = n
      /\ task'[t].others = task[t].others
      /\ \A u \in Threads : u # t => task'[u] = task[u]
  BY RewriteFirstDoes
<1>2. \A u \in Threads : u # t => task'[u] = Idle /\ task[u] = Idle
  BY <1>1, AloneStep DEF At, Idle
<1>3. /\ s \in Statements /\ s.begin \in Times /\ s.end \in Times /\ ~s.sometimes /\ s \in Asserted
      /\ \A d \in found : /\ IsSame(d, s) /\ d.uncertain = ~s.certain /\ ~d.occasional
                          /\ d.since \in Times /\ d.until \in Times
      /\ task[t].first \in {d.id : d \in found}
      /\ task[t].others = {d.id : d \in found} \ {task[t].first}
      /\ time.since \in Times /\ \A d \in found : time.since <= d.since
      /\ time.until \in Times /\ \A d \in found : d.until <= time.until
  BY <1>1, FoundIs DEF TimesHold
<1>4. PICK f \in found : f.id = task[t].first
  BY <1>3
<1>g. PICK g : g = Rewritten(t, f)
  OBVIOUS
<1>5. /\ found \subseteq docs /\ \A d, e \in docs : d.id = e.id => d = e
  BY DEF Overlapping, TypeOK
<1>6. /\ g \in Documents /\ IsSame(g, f) /\ g.uncertain = f.uncertain /\ g.occasional = f.occasional
      /\ g.since = time.since /\ g.until = time.until /\ g.id = task[t].first /\ g.predicate = f.predicate
  BY <1>1, <1>4, <1>5, <1>g, RewrittenIs DEF IsSame
<1>7. /\ g \in docs' /\ \A w \in docs' : w = g \/ (w \in docs /\ w.id # task[t].first)
      /\ \A d \in docs : d.id # task[t].first => d \in docs'
  <2>1. \A d \in docs : d.id # task[t].first => Rewritten(t, d) = d
    BY <1>1, RewrittenIs
  <2>2. \A d \in docs : d.id = task[t].first => d = f
    BY <1>4, <1>5
  <2> QED
    BY <1>1, <1>4, <1>5, <1>g, <2>1, <2>2
<1>8. Asserted' = Asserted /\ Written = docs /\ Written' = docs'
  <2>1. \A u \in Threads : Pending(u) = {} /\ Pending(u)' = {}
    BY <1>1, <1>2 DEF Pending, Idle, At
  <2> QED
    BY <1>1, <2>1 DEF Written, Asserted
<1> HIDE DEF s, found, time, batch, n
<1>9. /\ \A d : ~IsDoomed(d)
      /\ ~IsDoomed(g)' /\ \A d \in docs : IsDoomed(d)' <=> d \in found /\ d # f
  <2>1. \A d : ~IsDoomed(d)
    BY <1>1, <1>2 DEF IsDoomed, At, Idle
  <2>2. \A d : IsDoomed(d)' <=> d.id \in task[t].others
    BY <1>1, <1>2 DEF IsDoomed, At, Idle
  <2>3. \A d \in docs : d.id \in task[t].others <=> d \in found /\ d # f
    BY <1>3, <1>4, <1>5
  <2>4. g.id \notin task[t].others
    BY <1>3, <1>6
  <2> QED
    BY <2>1, <2>2, <2>3, <2>4
<1>10. DocumentsAreAsserted'
  <2>1. ~IsAnnotationProperty(g.predicate)
    BY <1>4, <1>5, <1>6, <1>8 DEF TimesHold, DocumentsAreAsserted
  <2>2. ASSUME NEW i \in Times, Covers(g.since, g.until, i)
        PROVE  \E r \in Asserted : Says(r, g) /\ Covers(r.begin, r.end, i)
    <3>1. time.since <= i /\ i <= time.until
      BY <1>3, <1>6, <2>2, TimesAre DEF Covers
    <3>2. CASE s.begin <= i /\ i <= s.end
      <4>1. Says(s, g)
        BY <1>3, <1>4, <1>6 DEF Says, IsSame
      <4> QED
        BY <1>3, <3>2, <4>1 DEF Covers
    <3>3. CASE \E d \in found : d.since <= i /\ i <= d.until
      <4>1. PICK d \in found : d.since <= i /\ i <= d.until
        BY <3>3
      <4>2. d \in Written /\ ~d.occasional /\ Covers(d.since, d.until, i)
        BY <1>3, <1>5, <1>8, <4>1 DEF Covers
      <4>3. PICK r \in Asserted : Says(r, d) /\ Covers(r.begin, r.end, i)
        BY <4>2 DEF TimesHold, DocumentsAreAsserted
      <4>4. Says(r, g)
        BY <1>3, <1>4, <1>6, <4>3 DEF Says, IsSame
      <4> QED
        BY <4>3, <4>4
    <3> QED
      BY <1>1, <3>1, <3>2, <3>3, UnionIsCovered DEF TimesHold, s, found, time
  <2>3. ASSUME NEW w \in docs'
        PROVE  /\ ~IsAnnotationProperty(w.predicate)
               /\ ~w.occasional => \A i \in Times : Covers(w.since, w.until, i) =>
                     \E r \in Asserted : Says(r, w) /\ Covers(r.begin, r.end, i)
    <3>1. CASE w = g
      BY <2>1, <2>2, <3>1
    <3>2. CASE w \in docs
      BY <1>8, <3>2 DEF TimesHold, DocumentsAreAsserted
    <3> QED
      BY <1>7, <2>3, <3>1, <3>2
  <2> QED
    BY <1>8, <2>3 DEF DocumentsAreAsserted
<1>11. AssertedIsWritten'
  <2> SUFFICES ASSUME NEW r \in Asserted, ~r.sometimes, NEW i \in Times, Covers(r.begin, r.end, i)
               PROVE  \E d \in docs' : ~IsDoomed(d)' /\ Holds(d, r, i)
    BY <1>8 DEF AssertedIsWritten
  <2>1. \A u \in Threads : ~At(u, "load") /\ Pending(u) = {}
    BY <1>1, <1>2 DEF At, Idle, Pending
  <2>2. PICK d \in docs : Holds(d, r, i)
    BY <2>1 DEF TimesHold, AssertedIsWritten
  <2>3. CASE d \in found
    <3>1. d.since \in Nat /\ d.until \in Nat /\ time.since \in Nat /\ time.until \in Nat /\ i \in Nat
          /\ time.since <= d.since /\ d.until <= time.until /\ d.until # NoTime
      BY <1>3, <2>3, TimesAre
    <3>2. Covers(g.since, g.until, i)
      BY <1>6, <2>2, <3>1 DEF Holds, Covers
    <3>3. IsSame(g, r) /\ ~g.occasional /\ (r.certain => ~g.uncertain)
      BY <1>3, <1>4, <1>6, <2>2, <2>3 DEF Holds, IsSame
    <3>4. Holds(g, r, i)
      BY <3>2, <3>3 DEF Holds
    <3> QED
      BY <1>7, <1>9, <3>4
  <2>4. CASE d \notin found
    <3>1. d.id # task[t].first
      BY <1>4, <1>5, <2>4
    <3> QED
      BY <1>7, <1>9, <2>2, <2>4, <3>1
  <2> QED
    BY <2>3, <2>4
<1>12. \A k \in DOMAIN batch : k > n => IsUnread(t, k)'
  BY <1>1 DEF IsUnread, At, batch, n
\* The union and another document.
<1>13. ASSUME NEW e \in docs, e \notin found, NEW i \in Times, IsSame(g, e), g.uncertain = e.uncertain,
              ~e.occasional, IsClosed(e), Covers(g.since, g.until, i), Covers(e.since, e.until, i)
       PROVE  \E k \in DOMAIN batch : IsUnread(t, k)' /\ Overlaps(batch[k], g) /\ Overlaps(batch[k], e)
  <2>1. \E k \in DOMAIN batch : k > n /\ Overlaps(batch[k], g) /\ Overlaps(batch[k], e)
    BY <1>1, <1>2, <1>4, <1>6, <1>13, UnionOverlaps DEF found, time, batch, n
  <2> QED
    BY <1>12, <2>1
<1>14. OverlapIsUnread'
  <2> SUFFICES ASSUME NEW d \in docs', NEW e \in docs', NEW i \in Times,
                      d # e, IsSame(d, e), d.uncertain = e.uncertain, ~d.occasional, ~e.occasional,
                      IsClosed(d), IsClosed(e), ~IsDoomed(d)', ~IsDoomed(e)',
                      Covers(d.since, d.until, i), Covers(e.since, e.until, i)
               PROVE  \E k \in DOMAIN batch :
                          IsUnread(t, k)' /\ Overlaps(batch[k], d) /\ Overlaps(batch[k], e)
    <3>1. task'[t] # Idle
      BY <1>1 DEF Idle
    <3> QED
      BY <1>1, <3>1 DEF OverlapIsUnread
  <2>1. (d = g \/ (d \in docs /\ d \notin found)) /\ (e = g \/ (e \in docs /\ e \notin found))
    BY <1>4, <1>7, <1>9
  <2>2. CASE d = g
    BY <1>13, <2>1, <2>2
  <2>3. CASE e = g
    <3>1. IsSame(g, d)
      BY <2>3 DEF IsSame
    <3> QED
      BY <1>13, <2>1, <2>3, <3>1
  <2>4. CASE d \in docs /\ e \in docs /\ d \notin found /\ e \notin found
    <3>1. PICK k \in DOMAIN batch : IsUnread(t, k) /\ Overlaps(batch[k], d) /\ Overlaps(batch[k], e)
      BY <1>2, <1>9, <2>4 DEF TimesHold, OverlapIsUnread, batch
    <3>2. batch \in Seq(Statements) /\ n \in DOMAIN batch /\ s = batch[n]
      BY <1>1, TaskIs DEF Basic, PointsToPlaces, TypeOK, RewriteTasks, At, Statement, batch, n, s
    <3>3. k >= n /\ k \in Nat /\ n \in Nat
      BY <1>1, <3>1, <3>2 DEF IsUnread, At, n
    <3>4. k # n
      <4>1. Overlaps(s, d) => d \in found
        BY <1>3, <2>4, OverlapsIsFound DEF found, Overlapping, s, Statement
      <4> QED
        BY <2>4, <3>1, <3>2, <4>1
    <3>5. k > n
      BY <3>3, <3>4
    <3> QED
      BY <1>12, <3>1, <3>5
  <2> QED
    BY <2>1, <2>2, <2>3, <2>4
<1> QED
  BY <1>10, <1>11, <1>14 DEF TimesHold

LEMMA TimesStep ==
    ASSUME TypeOK, Basic, Undisturbed, TimesInv, [Next]_vars
    PROVE  TimesInv'
<1> SUFFICES ASSUME windows' = {} PROVE TimesHold'
  BY DEF TimesInv
<1>1. windows = {} /\ TimesHold /\ IsUndisturbed /\ IsUndisturbed' /\ Alone /\ FoundIsStored
  BY WindowsGrow DEF TimesInv, Undisturbed, IsUndisturbed
<1>2. ASSUME NEW t \in Threads, NEW batch \in Seq(Statements), BeginInsert(t, batch) PROVE TimesHold'
  BY <1>1, <1>2, BeginUndisturbed, BeginTimes
<1>3. ASSUME NEW t \in Threads, insert(t) PROVE TimesHold'
  <2>1. CASE (\E b \in Batches : BeginInsert(t, b)) \/ executeTellCB(t)
    BY <1>2, <2>1, InsertsAreTyped DEF executeTellCB
  <2> QED
    BY <1>1, <1>3, <2>1, LoadTimes, FlushTimes, ReadHierarchyTimes, WriteHierarchyTimes, EndHierarchyTimes,
       ReadOverlappingTimes, RewriteFirstTimes, RemoveOtherTimes, EndInsertTimes DEF insert
<1>4. ASSUME NEW e \in Removals, removeAll(e) PROVE FALSE
  BY <1>4 DEF removeAll
<1>5. ASSUME UNCHANGED vars PROVE TimesHold'
  <2> USE <1>5 DEF vars
  <2>1. Written' = Written /\ Asserted' = Asserted /\ \A t \in Threads : Pending(t)' = Pending(t)
    BY DEF Written, Pending, Asserted
  <2>2. /\ \A d : IsDoomed(d)' = IsDoomed(d)
        /\ \A t \in Threads : \A k : IsUnread(t, k)' = IsUnread(t, k)
    BY DEF IsDoomed, IsUnread, At
  <2>3. DocumentsAreAsserted' /\ AssertedIsWritten'
    BY <1>1, <2>1, <2>2 DEF TimesHold, DocumentsAreAsserted, AssertedIsWritten, At
  <2>4. OverlapIsUnread'
    BY <1>1, <2>2 DEF TimesHold, OverlapIsUnread
  <2> QED
    BY <2>3, <2>4 DEF TimesHold
<1> QED
  BY <1>3, <1>4, <1>5 DEF Next

LEMMA InitTimes == Init => TimesInv
<1> SUFFICES ASSUME Init PROVE TimesHold
  BY DEF TimesInv
<1>1. \A t \in Threads : task[t] = Idle
  BY DEF Init
<1>2. docs = {} /\ Written = {} /\ Asserted = {}
  <2>1. Written = {}
    BY <1>1 DEF Init, Written, Pending, Idle
  <2>2. Asserted = {}
    BY DEF Init, Asserted
  <2> QED
    BY <2>1, <2>2 DEF Init
<1> QED
  BY <1>2 DEF TimesHold, DocumentsAreAsserted, AssertedIsWritten, OverlapIsUnread

LEMMA TimesAreComplete ==
    ASSUME TypeOK, TimesInv
    PROVE  TimesAreUnion
<1> SUFFICES ASSUME windows = {}, IsIdle PROVE NothingInvented /\ AssertedHolds
  BY DEF TimesAreUnion, AssertedHolds
<1>1. TimesHold /\ \A t \in Threads : task[t] = Idle
  BY DEF TimesInv, IsIdle
<1>2. \A d : ~IsDoomed(d)
  BY <1>1 DEF IsDoomed, At, Idle
<1>3. NothingInvented
  <2>1. \A d \in docs : ~d.occasional =>
            \A i \in Times : Covers(d.since, d.until, i) =>
                \E s \in Asserted : /\ IsSame(d, s) /\ ~s.sometimes /\ (~d.uncertain => s.certain)
                                    /\ Covers(s.begin, s.end, i)
    <3>1. docs \subseteq Written
      BY DEF Written
    <3> QED
      BY <1>1, <3>1 DEF TimesHold, DocumentsAreAsserted, Says
  <2>2. ASSUME NEW d \in docs, NEW e \in docs, d.id # e.id, IsSame(d, e), ~d.occasional, ~e.occasional,
               d.uncertain = e.uncertain, NoTime \notin {d.since, d.until, e.since, e.until},
               NEW i \in Times, Covers(d.since, d.until, i), Covers(e.since, e.until, i)
        PROVE  FALSE
    BY <1>1, <1>2, <2>2 DEF TimesHold, OverlapIsUnread, IsClosed
  <2> QED
    BY <2>1, <2>2 DEF NothingInvented
<1>4. AssertedHolds
  <2>1. \A t \in Threads : ~At(t, "load") /\ Pending(t) = {}
    BY <1>1 DEF At, Idle, Pending
  <2>2. \A s \in Asserted : ~s.sometimes => \A i \in Times : Covers(s.begin, s.end, i) =>
            \E d \in docs : Holds(d, s, i)
    BY <1>1, <2>1 DEF TimesHold, AssertedIsWritten
  <2> QED
    BY <2>2 DEF AssertedHolds, Holds
<1> QED
  BY <1>3, <1>4

\* TimesAreUnion: what was asserted to be always true holds in the database at every
\* instant of its interval, and nothing else does; no two documents of a triple overlap.
THEOREM TimesSafe == Spec => []TimesAreUnion
<1> DEFINE Inv == TypeOK /\ Basic /\ Undisturbed /\ TimesInv
<1>1. Init => Inv
  BY InitTyped, InitBasic, InitUndisturbed, InitTimes
<1>2. Inv /\ [Next]_vars => Inv'
  BY BasicStep, UndisturbedStep, TimesStep
<1>3. Inv => TimesAreUnion
  BY TimesAreComplete
<1> QED
  BY <1>1, <1>2, <1>3, PTL DEF Spec

==============================================================================
