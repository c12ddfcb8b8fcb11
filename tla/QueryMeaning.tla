----------------------------- MODULE QueryMeaning -----------------------------
(***************************************************************************)
(* What formulas and paths mean, and that the parser (QueryParser.tla) and *)
(* the query tree (QueryTree.tla) preserve it: for the properties only.    *)
(***************************************************************************)
EXTENDS QueryPlan, QueryParser

\* A valuation is the set of labelled predicates that hold.

RECURSIVE Atoms(_, _)
Atoms(f, operators) ==
    CASE f.type = "PREDICATE" -> {<<f.name, Label(operators)>>}
      [] f.type = "MODAL"     -> Atoms(f.parts[1], Add(operators, f.operator))
      [] OTHER                -> UNION {Atoms(f.parts[k], operators) : k \in DOMAIN f.parts}

RECURSIVE Holds(_, _, _)
Holds(f, operators, valuation) ==
    LET part(k) == Holds(f.parts[k], operators, valuation)
    IN CASE f.type = "PREDICATE"   -> <<f.name, Label(operators)>> \in valuation
         [] f.type = "CONJUNCTION" -> \A k \in DOMAIN f.parts : part(k)
         [] f.type = "DISJUNCTION" -> \E k \in DOMAIN f.parts : part(k)
         [] f.type = "IMPLICATION" -> part(1) => part(2)
         [] f.type = "NEGATION"    -> ~part(1)
         [] f.type = "MODAL"       -> Holds(f.parts[1], Add(operators, f.operator), valuation)

Satisfies(valuation, path) ==
    \A l \in Range(path) : (<<l.name, l.label>> \in valuation) # l.isNegated

\* The text of a query, written with as few or as many brackets, and with options in one
\* or the other form, is read as what was meant, whatever is tried first.
ReadsAsWritten ==
    Len(nodes) = 1 =>
        \A t \in Texts(formula) :
            /\ parse(t) # {}
            /\ \A f \in parse(t) : \A v \in SUBSET Atoms(formula, <<>>) :
                  Holds(f, <<>>, v) <=> Holds(formula, <<>>, v)

\* The paths are the disjunctive normal form of the formula, labels of literals
\* included, in whatever order nodes of the same priority are expanded (QueryTree.h,
\* "a path in a query tree"); each leaf gives one path. (What follows leaves the tree.)
PathsAreDNF ==
    IsExpanded /\ current = 0 =>
        /\ \A v \in SUBSET Atoms(formula, <<>>) :
              Holds(formula, <<>>, v) <=> \E p \in Range(paths) : Satisfies(v, p)
        /\ Len(paths) = Cardinality(getLeafs(1))
==============================================================================
