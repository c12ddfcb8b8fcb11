---------------------------- MODULE OntologyStore ----------------------------
(***************************************************************************)
(* Loading ontologies into the database (loadFile in                       *)
(* src/mongodb/MongoKnowledgeGraph.cpp), and the hierarchy of imports that *)
(* is kept in memory (src/semweb/ImportHierarchy.cpp).                     *)
(*                                                                         *)
(* An ontology is a file with a version. Its triples go into a graph of    *)
(* the database, in batches; a record of the version is added when all of  *)
(* them are in. Then the ontologies it imports are loaded, recursively. An *)
(* ontology whose recorded version is the current one is not loaded again. *)
(* The hierarchy of imports is updated on the way, and read back from the  *)
(* database when the program is started.                                   *)
(*                                                                         *)
(* The program may stop at any time, parsing may fail half-way, and files  *)
(* change. An ontology, its URI and its graph are one thing here: two URIs *)
(* with the same stem share a graph in the code.                           *)
(***************************************************************************)
EXTENDS Integers, Sequences, SequencesExt, FiniteSets

CONSTANTS
    Ontologies,     \* numbers, in the order of the names of their graphs
    Imports,        \* per ontology and version: what it imports, a sequence
    Sources,        \* the ontologies the configuration names, in this order
    MaxVersion,     \* bound on the versions of a file
    MaxStops        \* bound on how often the program is stopped

Versions == 1 .. MaxVersion

ASSUME OntologiesAssumption ==
    /\ Ontologies \subseteq Nat \ {0} /\ MaxVersion \in Nat \ {0} /\ MaxStops \in Nat
    /\ Imports \in [Ontologies -> [Versions -> Seq(Ontologies)]]
    /\ Sources \in Seq(Ontologies)

VARIABLES
    fileVersion,    \* the version of each file
    triples,        \* the triples of the database: graph, version and batch
    record,         \* per graph: the versions recorded
    directImports,  \* per current graph: directImports_
    imports,        \* per current graph: imports_
    unread,         \* the imports of the database that initialize() has not read yet
    loading,        \* the activations of loadFile, the innermost first
    sources,        \* the sources yet to be loaded
    numStops,       \* how often the program has been stopped
    windows         \* what has happened (history)

database == <<triples, record>>
hierarchy == <<directImports, imports>>
vars == <<fileVersion, database, hierarchy, unread, loading, sources, numStops, windows>>

Batches == {1, 2}
NoImports == [g \in {} |-> {}]
Dangling == 0       \* a pointer to a graph that was removed

Init ==
    /\ fileVersion = [g \in Ontologies |-> 1]
    /\ triples = {} /\ record = [g \in Ontologies |-> {}]
    /\ directImports = NoImports /\ imports = NoImports /\ unread = {}
    /\ loading = <<>> /\ sources = Sources
    /\ numStops = 0 /\ windows = {}

-----------------------------------------------------------------------------
(* ImportHierarchy; h is a pair of directImports_ and imports_ *)

Graphs(h) == DOMAIN h.direct
Current == [direct |-> directImports, all |-> imports]
SetHierarchy(h) == directImports' = h.direct /\ imports' = h.all

\* Mutant: graphs that import the importer are not updated.
addDirectImportOnly(h, importer, imported) ==
    LET known(f, g) == IF g \in DOMAIN f THEN f[g] ELSE {}
        add(f, new) == [g \in DOMAIN f \cup {importer, imported} |->
                            known(f, g) \cup (IF g = importer THEN new ELSE {})]
    IN [direct |-> add(h.direct, {imported}),
        all |-> add(h.all, known(h.all, imported) \cup {imported})]

\* Every graph that imports the importer gets the imports of the imported.
addDirectImport(h, importer, imported) ==
    LET known(f, g) == IF g \in DOMAIN f THEN f[g] ELSE {}
        new == known(h.all, imported) \cup {imported}
        graphs == Graphs(h) \cup {importer, imported}
    IN [direct |-> [g \in graphs |-> known(h.direct, g) \cup (IF g = importer THEN {imported} ELSE {})],
        all |-> [g \in graphs |->
                    known(h.all, g)
                      \cup (IF g = importer \/ importer \in known(h.all, g) THEN new ELSE {})]]

\* Those that import graph a directly import its direct imports instead. The graphs
\* are visited in the order of their names: if a imports itself, those before a
\* get the pointer to it back.
removeCurrentGraph(h, a) ==
    LET direct(g) ==
            (h.direct[g] \ {a})
              \cup (IF a \in h.direct[g] THEN h.direct[a] \ {a} ELSE {})
              \cup (IF g < a /\ a \in h.direct[g] /\ a \in h.direct[a] THEN {Dangling} ELSE {})
    IN [direct |-> [g \in Graphs(h) \ {a} |-> direct(g)],
        all |-> [g \in Graphs(h) \ {a} |-> h.all[g] \ {a}]]

getImports(g) == IF g \in DOMAIN imports THEN imports[g] ELSE {}

\* What initialize() reads: the imports between graphs with a version record, ...
Recorded(g) == record[g] # {}
StoredImports(g) ==
    UNION {Range(Imports[t.graph][t.version]) : t \in {u \in triples : u.graph = g /\ u.batch = 2}}
StoredPairs == {p \in Ontologies \X Ontologies :
                   Recorded(p[1]) /\ Recorded(p[2]) /\ p[2] \in StoredImports(p[1])}

\* ... in whatever order the database returns them.
ReadImport ==
    \E p \in unread :
        /\ SetHierarchy(addDirectImport(Current, p[1], p[2]))
        /\ unread' = unread \ {p}
        /\ UNCHANGED <<fileVersion, database, loading, sources, numStops, windows>>

-----------------------------------------------------------------------------
(* loadFile: the innermost activation takes a step *)

Top == Head(loading)
Graph == Top.graph
At(pc) == loading # <<>> /\ Top.pc = pc
Goes(pc) == loading' = <<[Top EXCEPT !.pc = pc]>> \o Tail(loading)
Returns == loading' = Tail(loading)
Call(g) == [graph |-> g, pc |-> "check", version |-> 0, content |-> 0, next |-> 1]

\* loadConfiguration loads one data source after the other.
LoadSource ==
    /\ unread = {} /\ loading = <<>> /\ sources # <<>>
    /\ loading' = <<Call(Head(sources))>>
    /\ sources' = Tail(sources)
    /\ UNCHANGED <<fileVersion, database, hierarchy, unread, numStops, windows>>

\* Mutant: the old version is not dropped.
CheckVersionKept ==
    /\ At("check")
    /\ IF fileVersion[Graph] \in record[Graph]
       THEN Returns
       ELSE loading' = <<[Top EXCEPT !.pc = "begin", !.version = fileVersion[Graph]]>> \o Tail(loading)
    /\ UNCHANGED <<fileVersion, database, hierarchy, unread, sources, numStops, windows>>

\* getCurrentGraphVersion, getVersionFromURI
CheckVersion ==
    /\ At("check")
    /\ IF fileVersion[Graph] \in record[Graph]
       THEN Returns
       ELSE loading' = <<[Top EXCEPT !.pc = IF Recorded(Graph) THEN "drop" ELSE "begin",
                                     !.version = fileVersion[Graph]]>> \o Tail(loading)
    /\ UNCHANGED <<fileVersion, database, hierarchy, unread, sources, numStops, windows>>

\* The triples with their record are deleted, and the graph leaves the hierarchy
\* (but for graphs named "user", "common" and "test").
DropGraph ==
    /\ At("drop")
    /\ triples' = {t \in triples : t.graph # Graph}
    /\ record' = [record EXCEPT ![Graph] = {}]
    /\ IF Graph \in Graphs(Current)
       THEN SetHierarchy(removeCurrentGraph(Current, Graph)) ELSE UNCHANGED hierarchy
    /\ windows' = windows \cup
          (IF \E g \in Graphs(Current) : Graph \in imports[g] THEN {"importDropped"} ELSE {})
    /\ Goes("begin")
    /\ UNCHANGED <<fileVersion, unread, sources, numStops>>

Stored(g, v, b) == [graph |-> g, version |-> v, batch |-> b]

\* The file is read while it is parsed; a batch goes into the database when it is full ...
BeginParsing ==
    /\ At("begin")
    /\ triples' = triples \cup {Stored(Graph, fileVersion[Graph], 1)}
    /\ loading' = <<[Top EXCEPT !.pc = "parse", !.content = fileVersion[Graph]]>> \o Tail(loading)
    /\ UNCHANGED <<fileVersion, record, hierarchy, unread, sources, numStops, windows>>

\* ... and when the file ends.
EndParsing ==
    /\ At("parse")
    /\ triples' = triples \cup {Stored(Graph, Top.content, 2)}
    /\ Goes("record")
    /\ UNCHANGED <<fileVersion, record, hierarchy, unread, sources, numStops, windows>>

\* What was parsed stays in the database; loadFile returns false, which a
\* recursive call and loadConfiguration ignore.
FailToParse ==
    /\ At("parse")
    /\ Returns
    /\ windows' = windows \cup {"interrupted"}
    /\ UNCHANGED <<fileVersion, database, hierarchy, unread, sources, numStops>>

\* Mutant: the version is not recorded before the imports are loaded.
SetVersionLate ==
    /\ At("record")
    /\ Goes("hierarchy")
    /\ UNCHANGED <<fileVersion, database, hierarchy, unread, sources, numStops, windows>>

\* setCurrentGraphVersion
SetVersion ==
    /\ At("record")
    /\ record' = [record EXCEPT ![Graph] = @ \cup {Top.version}]
    /\ Goes("hierarchy")
    /\ UNCHANGED <<fileVersion, triples, hierarchy, unread, sources, numStops, windows>>

ContentImports == Imports[Graph][Top.content]

\* updateHierarchy, as far as imports are concerned: one after the other is added.
UpdateImport ==
    /\ At("hierarchy") /\ Top.next <= Len(ContentImports)
    /\ SetHierarchy(addDirectImport(Current, Graph, ContentImports[Top.next]))
    /\ loading' = <<[Top EXCEPT !.next = @ + 1]>> \o Tail(loading)
    /\ UNCHANGED <<fileVersion, database, unread, sources, numStops, windows>>

EndUpdate ==
    /\ At("hierarchy") /\ Top.next > Len(ContentImports)
    /\ loading' = <<[Top EXCEPT !.pc = "imports", !.next = 1]>> \o Tail(loading)
    /\ UNCHANGED <<fileVersion, database, hierarchy, unread, sources, numStops, windows>>

\* Mutant: loadFile does not load the imports.
LoadImportSkipped ==
    /\ At("imports") /\ Top.next <= Len(ContentImports)
    /\ loading' = <<[Top EXCEPT !.next = @ + 1]>> \o Tail(loading)
    /\ UNCHANGED <<fileVersion, database, hierarchy, unread, sources, numStops, windows>>

LoadImport ==
    /\ At("imports") /\ Top.next <= Len(ContentImports)
    /\ loading' = <<Call(ContentImports[Top.next]), [Top EXCEPT !.next = @ + 1]>> \o Tail(loading)
    /\ UNCHANGED <<fileVersion, database, hierarchy, unread, sources, numStops, windows>>

LoadReturns ==
    /\ At("imports") /\ Top.next > Len(ContentImports)
    /\ Returns
    /\ UNCHANGED <<fileVersion, database, hierarchy, unread, sources, numStops, windows>>

-----------------------------------------------------------------------------
(* The environment *)

FileChanges(g) ==
    /\ fileVersion[g] < MaxVersion
    /\ fileVersion' = [fileVersion EXCEPT ![g] = @ + 1]
    /\ windows' = windows \cup (IF loading # <<>> THEN {"changedWhileLoading"} ELSE {})
    /\ UNCHANGED <<database, hierarchy, unread, loading, sources, numStops>>

\* The program is stopped or crashes, and is started again.
Restart ==
    /\ numStops < MaxStops
    /\ numStops' = numStops + 1
    /\ windows' = windows \cup (IF loading # <<>> THEN {"interrupted"} ELSE {})
    /\ loading' = <<>> /\ sources' = Sources
    /\ SetHierarchy([direct |-> NoImports, all |-> NoImports])
    /\ unread' = StoredPairs
    /\ UNCHANGED <<fileVersion, database>>

loadFile ==
    \/ CheckVersion \/ DropGraph \/ BeginParsing \/ EndParsing \/ FailToParse
    \/ SetVersion \/ UpdateImport \/ EndUpdate \/ LoadImport \/ LoadReturns
Next == ReadImport \/ LoadSource \/ loadFile \/ Restart \/ \E g \in Ontologies : FileChanges(g)
Spec == Init /\ [][Next]_vars

-----------------------------------------------------------------------------
(* Properties *)

\* A graph with a version record holds all batches of a version that is not older
\* (the file may change after its version was read), and nothing else, unless a
\* load has been interrupted: then the triples it had stored are never dropped.
RecordedIsComplete ==
    \A g \in Ontologies : \A v \in record[g] :
        \E w \in v .. MaxVersion :
            /\ \A b \in Batches : Stored(g, w, b) \in triples
            /\ "interrupted" \notin windows => \A t \in triples : t.graph = g => t.version = w

IsLoaded == unread = {} /\ loading = <<>> /\ sources = <<>>

\* When all sources are loaded, so is everything they import, unless a load was
\* interrupted: an ontology whose own version is recorded is not looked into again.
ImportsAreLoaded ==
    (IsLoaded /\ "interrupted" \notin windows) =>
        \A g \in Ontologies : Recorded(g) => \A i \in StoredImports(g) : Recorded(i)

\* Whenever no load is under way and initialize() has read the database, getImports gives
\* for each graph what the stored imports reach from it: the same before a restart as
\* after it, in whatever order imports were added and read, unless an imported graph was
\* dropped: those that import it forget it although their own import statements are
\* still stored.
StoredReach(g) ==
    {i \in Ontologies : \A S \in SUBSET Ontologies :
        (\A p \in StoredPairs : p[1] \in S \cup {g} => p[2] \in S) => i \in S}
HierarchySurvivesRestart ==
    (unread = {} /\ loading = <<>> /\ windows \cap {"interrupted", "importDropped"} = {}) =>
        \A g \in Ontologies : getImports(g) = StoredReach(g)

\* imports_ is the transitive closure of directImports_ and holds no graph that
\* was removed, cyclic imports included. (directImports_ may: nothing reads it
\* but the functions above.)
ImportedBy(g) == directImports[g] \ {Dangling}
HoldsImports(S, g) == ImportedBy(g) \subseteq S /\ \A i \in S : ImportedBy(i) \subseteq S
ImportsAreClosure ==
    \A g \in DOMAIN imports :
        /\ imports[g] \subseteq DOMAIN imports
        /\ HoldsImports(imports[g], g)
        /\ \A S \in SUBSET imports[g] : HoldsImports(S, g) => S = imports[g]

\* Cyclic imports do not make loadFile recurse without end: an ontology is not
\* loaded while it is being loaded, unless its file has changed since.
NotReentered ==
    "changedWhileLoading" \notin windows =>
        \A i, j \in DOMAIN loading :
            i < j /\ loading[i].graph = loading[j].graph => loading[i].pc = "check"
==============================================================================
