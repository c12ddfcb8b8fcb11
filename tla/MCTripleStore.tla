---------------------------- MODULE MCTripleStore ----------------------------
(* Statements, queries and removals for checking TripleStore.                *)
EXTENDS TripleStore

Says(s, p, o, begin, end) ==
    [subject |-> s, predicate |-> p, object |-> o, begin |-> begin, end |-> end,
     certain |-> TRUE, sometimes |-> FALSE, agent |-> {}]
Believed(s) == [s EXCEPT !.certain = FALSE]
Sometimes(s) == [s EXCEPT !.sometimes = TRUE]
Query(s, p, o, begin, end) == Says(s, p, o, begin, end) @@ [negated |-> FALSE]
Not(e) == [e EXCEPT !.negated = TRUE]

SomeProperties == {"p", "q", "type", "subClassOf", "subPropertyOf", "comment"}

\* Classes a, b, c and properties p, q, in every order of insertion.
HierarchyBatches == {
    <<Says("a", "subClassOf", "b", 0, 0), Says("b", "subClassOf", "c", 0, 0)>>,
    <<Says("b", "subClassOf", "c", 0, 0)>>,
    <<Says("c", "subClassOf", "a", 0, 0), Says("x", "comment", "y", 1, 2)>>,
    <<Says("x", "type", "a", 0, 0), Says("a", "subClassOf", "c", 1, 2)>>,
    <<Says("x", "type", "a", 0, 0), Says("x", "p", "y", 1, 2), Says("p", "subPropertyOf", "q", 0, 0)>>}

\* One triple at different times and of different modality, and of a subproperty.
TimeBatches == {
    <<Says("x", "q", "y", 1, 2)>>, <<Says("x", "q", "y", 2, 3)>>,
    <<Says("x", "q", "y", 1, 1), Says("x", "q", "y", 3, 3)>>,
    <<Believed(Says("x", "q", "y", 1, 2))>>, <<Sometimes(Says("x", "q", "y", 1, 3))>>,
    <<Says("x", "q", "y", 2, 0)>>, <<Says("y", "q", "z", 1, 1)>>}

AllBatches == HierarchyBatches \cup TimeBatches

\* Messages. Their text is about one triple, with or without operators.
Literal(s, p, o, operators) ==
    [subject |-> s, predicate |-> p, object |-> o, negated |-> FALSE, operators |-> operators]
Message(epistemic, agent, temporal, begin, end, literal) ==
    [epistemic |-> epistemic, agent |-> agent, temporal |-> temporal, begin |-> begin, end |-> end,
     literals |-> <<literal>>]
Op(kind, x, y) == [kind |-> kind, parameters |-> <<x, y>>]
Fred == {"fred"}

\* Told: fred knows that it was so from 1 to 2, from 2 to 3, and believes that it was so
\* from 2 to 3; the operators of the message itself have no effect.
SomeTells == {
    Message("K", {}, "now", {}, {},
            Literal("x", "p", "y", <<[kind |-> "K", parameters |-> <<Fred>>], Op("H", {1}, {2})>>)),
    Message("B", Fred, "P", {}, {},
            Literal("x", "p", "y", <<Op("H", {2}, {3}), [kind |-> "K", parameters |-> <<Fred>>]>>)),
    Message("K", {}, "now", {}, {}, Literal("x", "p", "y", <<Op("B", Fred, {}), Op("H", {2}, {3})>>))}

SomeAsks ==
    {Message(e, a, t, b, f, Literal("x", q, "y", <<>>)) :
        e \in {"K", "B"}, a \in {{}, Fred}, t \in {"now", "H", "P"},
        b \in {{}, {1}, {2}}, f \in {{}, {2}, {3}}, q \in {"p", "q"}}

SomeQueries == {
    <<Query("X", "q", "Y", 2, 3)>>,
    <<Query("X", "q", "Y", 2, 3), Query("Y", "q", "Z", 1, 1)>>,
    <<Sometimes(Query("X", "p", "y", 2, 3)), Not(Query("X", "type", "c", 0, 0))>>,
    <<Query("X", "q", "Y", 0, 0), Believed(Query("X", "q", "y", 1, 0))>>,
    <<Query("a", "subClassOf", "C", 0, 0), Query("X", "type", "C", 0, 0)>>}
SomeRemovals == {Says("b", "subClassOf", "c", 0, 0), Says("X", "q", "y", 2, 2)}
==============================================================================
