---------------------------- MODULE TripleSelector ----------------------------
(***************************************************************************)
(* How a query is evaluated in the database (src/mongodb/aggregation/):    *)
(* which documents a triple expression matches, and the pipeline that      *)
(* joins the documents matched by a sequence of expressions into answers.  *)
(*                                                                         *)
(* A document has a field "parents": the classes above the object of a     *)
(* taxonomic triple ("o*" in the code), or the properties above the        *)
(* predicate of any other ("p*"). An expression (RDFLiteral) has a         *)
(* constant predicate; no variable occurs twice in it. Confidence values,  *)
(* operators other than equality, and transitive properties are left out.  *)
(***************************************************************************)
EXTENDS Modalities, FiniteSets

CONSTANTS
    QueryVariables,     \* the names that are variables
    MaxTime             \* bound on points in time

Times == 1 .. MaxTime
Infinity == MaxTime + 1

IsVariable(term) == term \in QueryVariables
isTaxonomicProperty(p) == p \in {"subClassOf", "subPropertyOf", "type"}

-----------------------------------------------------------------------------
(* appendTripleSelector; e.certain if knowledge is asked for (not belief),   *)
(* e.sometimes if the triple may hold at some time of the interval           *)

TermMatches(term, value) == IsVariable(term) \/ term = value

TripleMatches(d, e) ==
    /\ TermMatches(e.subject, d.subject)
    /\ IF isTaxonomicProperty(e.predicate)
       THEN d.predicate = e.predicate /\ (IsVariable(e.object) \/ e.object \in d.parents)
       ELSE /\ ~isTaxonomicProperty(d.predicate) /\ e.predicate \in d.parents
            /\ TermMatches(e.object, d.object)

\* A document that does not say is certain, and about the agent itself.
EpistemicMatches(d, e) == (e.certain => ~d.uncertain) /\ d.agent = e.agent

\* Mutant: the bounds of the interval are not swapped.
TimeMatchesAlways(d, e) ==
    /\ ~d.occasional
    /\ e.begin # NoTime => d.since <= e.begin
    /\ e.end # NoTime => d.until = NoTime \/ d.until >= e.end

\* Documents that hold at all times of the interval, or overlap with it; those that
\* hold only occasionally never match. (d.since <= x if d.since is NoTime.)
TimeMatches(d, e) ==
    LET bt == IF e.sometimes THEN e.end ELSE e.begin
        et == IF e.sometimes THEN e.begin ELSE e.end
    IN /\ ~d.occasional
       /\ bt # NoTime => d.since <= bt
       /\ et # NoTime => d.until = NoTime \/ d.until >= et

Matches(d, e) == TripleMatches(d, e) /\ EpistemicMatches(d, e) /\ TimeMatches(d, e)

-----------------------------------------------------------------------------
(* lookupTriplePaths: a fold over the expressions, from a single answer      *)

VariablesOf(e) == {e.subject, e.object} \cap QueryVariables

\* Larger, smaller; undefined values are ignored. v_scope starts as [0, infinity].
MaxOf(a, b) == IF a > b THEN a ELSE b
MinOf(a, b) == IF b # NoTime /\ b < a THEN b ELSE a
FirstAnswer ==
    [bindings |-> [v \in {} |-> "none"], since |-> NoTime, until |-> Infinity, uncertain |-> FALSE]

\* appendMatchVariable: variables known to have a value must have that value, which
\* a negated expression does not give them.
VariablesMatch(d, e, a, known) ==
    LET has(v, values) == v \in DOMAIN a.bindings /\ a.bindings[v] \in values
    IN /\ e.subject \in known => has(e.subject, {d.subject})
       /\ e.object \in known =>
              has(e.object, IF isTaxonomicProperty(e.predicate) THEN d.parents ELSE {d.object})

\* setTripleVariables
Bind(a, d, e, known) ==
    [v \in DOMAIN a.bindings \cup (VariablesOf(e) \ known) |->
        IF v \in DOMAIN a.bindings THEN a.bindings[v] ELSE IF v = e.subject THEN d.subject ELSE d.object]

\* Mutant: the end of the interval is that of the last document.
ExtendKeepsUntil(a, d, e, known) ==
    [bindings |-> Bind(a, d, e, known), since |-> MaxOf(a.since, d.since),
     until |-> MinOf(Infinity, d.until), uncertain |-> a.uncertain \/ d.uncertain]

\* intersectTimeInterval, updateUncertainFlag
Extend(a, d, e, known) ==
    [bindings |-> Bind(a, d, e, known), since |-> MaxOf(a.since, d.since),
     until |-> MinOf(a.until, d.until), uncertain |-> a.uncertain \/ d.uncertain]

\* lookupTriple (not transitive)
lookupTriple(docs, answers, e, known) ==
    LET next(a) == {d \in docs : Matches(d, e) /\ VariablesMatch(d, e, a, known)}
    IN IF e.negated
       THEN {a \in answers : next(a) = {}}
       ELSE {b \in UNION {{Extend(a, d, e, known) : d \in next(a)} : a \in answers} : b.since <= b.until}

lookupTriplePaths(docs, query) ==
    LET step(acc, e) == [answers |-> lookupTriple(docs, acc.answers, e, acc.known),
                         known |-> acc.known \cup VariablesOf(e)]
    IN FoldLeft(step, [answers |-> {FirstAnswer}, known |-> {}], query).answers
==============================================================================
