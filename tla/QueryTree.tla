------------------------------ MODULE QueryTree ------------------------------
(***************************************************************************)
(* The query tree (src/queries/QueryTree.cpp): a formula is expanded, node *)
(* by node, into the paths of its disjunctive normal form. A node that is  *)
(* expanded adds its parts below every leaf under it, as a chain (all of   *)
(* them hold) or as branches (one of them holds). Open nodes wait in a     *)
(* priority queue; nodes of the same priority are ordered by their         *)
(* addresses, that is in any order.                                        *)
(*                                                                         *)
(* The modal operators above a predicate are its label; iterations of      *)
(* operators are reduced (Modalities.tla).                                 *)
(***************************************************************************)
EXTENDS Modalities, FiniteSetsExt

CONSTANTS
    Formulas,           \* formulas, with their parts
    Queries             \* those that are asked

ASSUME FormulaAssumption ==
    /\ Queries \subseteq Formulas
    /\ \A f \in Formulas : f.type = "PREDICATE" \/ f.parts \in Seq(Formulas)

VARIABLES
    formula,            \* the query; never changes
    nodes,              \* the nodes in the order of their creation
    paths               \* paths_

treeVars == <<formula, nodes, paths>>

NoParent == 0
Root(f) == [parent |-> NoParent, formula |-> f, isNegated |-> FALSE, isOpen |-> TRUE,
            modalOperators |-> <<>>]

TreeInit ==
    /\ formula \in Queries
    /\ nodes = <<Root(formula)>>
    /\ paths = <<>>

-----------------------------------------------------------------------------
(* Expansion *)

Open == {n \in DOMAIN nodes : nodes[n].isOpen}

\* The parts of n become a chain; otherwise they become branches.
IsChain(n) ==
    LET f == nodes[n].formula
    IN \/ f.type = "CONJUNCTION" /\ ~nodes[n].isNegated
       \/ f.type \in {"DISJUNCTION", "IMPLICATION"} /\ nodes[n].isNegated
       \/ f.type \in {"NEGATION", "MODAL"}

priority(n) == IF IsChain(n) \/ nodes[n].formula.type = "PREDICATE" THEN 1 ELSE 0

\* n is m or a node below it.
IsUnder(n, m) ==
    LET isUnder[k \in NoParent .. Len(nodes)] == k = m \/ (k # NoParent /\ isUnder[nodes[k].parent])
    IN isUnder[n]

getLeafs(n) ==
    {m \in DOMAIN nodes : IsUnder(m, n) /\ \A k \in DOMAIN nodes : nodes[k].parent # m}

\* From a leaf up to the root.
Branch(n) == {m \in DOMAIN nodes : IsUnder(n, m)}

LiteralOf(n) ==
    [name |-> nodes[n].formula.name, isNegated |-> nodes[n].isNegated,
     label |-> Label(nodes[n].modalOperators)]
\* In any order: the literals of a path are sorted before they are evaluated.
constructPath(n) ==
    LET predicates == SetToSeq({m \in Branch(n) : nodes[m].formula.type = "PREDICATE"})
    IN [k \in DOMAIN predicates |-> LiteralOf(predicates[k])]

\* Mutant: the antecedent of an implication keeps its sign.
flipsNegationOnly(f, k) == f.type = "NEGATION"

flips(f, k) == f.type = "NEGATION" \/ (f.type = "IMPLICATION" /\ k = 1)

\* The part k of n, as a node below parent.
Child(n, k, parent) ==
    LET f == nodes[n].formula
    IN [parent |-> parent, formula |-> f.parts[k],
        isNegated |-> nodes[n].isNegated # flips(f, k), isOpen |-> TRUE,
        modalOperators |-> IF f.type = "MODAL" THEN Add(nodes[n].modalOperators, f.operator)
                                               ELSE nodes[n].modalOperators]

\* The nodes added below all leafs under n, the parts for one leaf after the other.
AllChildren(n) ==
    LET leafs == SetToSeq(getLeafs(n))
        numParts == Len(nodes[n].formula.parts)
        part(i) == ((i - 1) % numParts) + 1
        leafOf(i) == leafs[((i - 1) \div numParts) + 1]
    IN [i \in 1 .. Len(leafs) * numParts |->
            Child(n, part(i), IF IsChain(n) /\ part(i) > 1 THEN Len(nodes) + i - 1 ELSE leafOf(i))]

Close(n) == [nodes EXCEPT ![n].isOpen = FALSE]

\* No node from the leaf up to the root is open, once n was closed.
hasCompletePath(leaf, n) == Branch(leaf) \cap Open \subseteq {n}

CompletePaths(n) ==
    LET leafs == SetToSeq({leaf \in getLeafs(n) : hasCompletePath(leaf, n)})
    IN [i \in DOMAIN leafs |-> constructPath(leafs[i])]

\* A predicate completes the paths to leafs below it. Any other node adds its parts.
expandNextNode ==
    \E n \in Open :
        /\ \A m \in Open : priority(m) <= priority(n)
        /\ IF nodes[n].formula.type = "PREDICATE"
           THEN /\ paths' = paths \o CompletePaths(n)
                /\ nodes' = Close(n)
           ELSE /\ nodes' = Close(n) \o AllChildren(n)
                /\ UNCHANGED paths
        /\ UNCHANGED formula

\* All paths have been found.
IsExpanded == Open = {}
==============================================================================
