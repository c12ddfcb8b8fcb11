----------------------------- MODULE MCQueryPlan -----------------------------
(* Formulas for checking QueryTree and QueryPlan.                            *)
EXTENDS QueryMeaning, TLC

Pred(p) == [type |-> "PREDICATE", name |-> p]
And(s) == [type |-> "CONJUNCTION", parts |-> s]
Or(s) == [type |-> "DISJUNCTION", parts |-> s]
Implies(f, g) == [type |-> "IMPLICATION", parts |-> <<f, g>>]
Not(f) == [type |-> "NEGATION", parts |-> <<f>>]
Modal(k, ps, f) == [type |-> "MODAL", operator |-> [kind |-> k, parameters |-> ps], parts |-> <<f>>]
Fred == <<{"fred"}>>
FredOrSo == <<{"fred"}, {}>>

\* Six predicates: p and q are connected by r; s depends on all of them; t has
\* no variables; only the database has u.
AllVariables ==
    [p |-> {"X"}, q |-> {"Y"}, r |-> {"X", "Y"}, s |-> {"Y", "Z"}, t |-> {}, u |-> {"X"}]
SomeComputable == {"p", "q", "r", "s", "t"}

p == Pred("p")
q == Pred("q")
r == Pred("r")
s == Pred("s")
t == Pred("t")
u == Pred("u")

\* Conjunctions for the dependency graph.
Conjunctions == {And(<<p, r, s>>), And(<<p, q, r>>), And(<<r, p, q, s>>), And(<<t, u, p, Not(q)>>)}

\* Every connective, with and without negation, around a pair of formulas of
\* which one is again composed.
Binary(f, g) == {And(<<f, g>>), Or(<<f, g>>), Implies(f, g)}
Inner == Binary(q, r) \cup {Not(f) : f \in Binary(q, r)}
Composed == UNION {Binary(p, f) \cup Binary(f, p) : f \in Inner}
Negated == {Not(f) : f \in Composed}

\* Connectives on both sides.
Nested == {And(<<Or(<<p, Not(r)>>), Or(<<q, r>>)>>), Or(<<And(<<p, q>>), And(<<Not(r), s>>)>>),
           Implies(And(<<p, q>>), Or(<<r, And(<<p, s>>)>>))}

\* Modal operators inside and around the connectives.
Modals == {Modal("K", Fred, And(<<Modal("B", FredOrSo, p), Modal("P", <<{}, {10}>>, q)>>)),
           Modal("B", FredOrSo, Modal("B", <<{}, {1}>>, Or(<<p, Modal("K", <<{}>>, Not(q))>>))),
           Not(Modal("H", <<{5}, {10}>>, Implies(p, Modal("K", <<{}>>, q))))}

AllQueries ==
    Conjunctions \cup Composed \cup Negated \cup Nested \cup {Not(f) : f \in Nested} \cup Modals

\* Two literals that a third one connects.
OneConjunction == {And(<<p, q, r>>)}

\* Two paths.
TwoPaths == {Or(<<q, r>>)}

\* A formula and its parts.
RECURSIVE PartsOf(_)
PartsOf(f) ==
    {f} \cup IF f.type = "PREDICATE" THEN {} ELSE UNION {PartsOf(f.parts[k]) : k \in DOMAIN f.parts}
AllFormulas == UNION {PartsOf(f) : f \in AllQueries}
==============================================================================
