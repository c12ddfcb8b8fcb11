-------------------------------- MODULE Terms --------------------------------
(***************************************************************************)
(* Terms, unification and substitutions (src/terms/): a term is a          *)
(* variable, a constant or a predicate with arguments.                     *)
(***************************************************************************)
EXTENDS Integers, Sequences, SequencesExt, FiniteSets

CONSTANT None       \* no unifier, no substitution

Var(name) == [type |-> "VARIABLE", name |-> name]
Const(value) == [type |-> "CONSTANT", value |-> value]
Pred(functor, arguments) == [type |-> "PREDICATE", functor |-> functor, arguments |-> arguments]

RECURSIVE getVariables(_)
getVariables(t) ==
    CASE t.type = "VARIABLE"  -> {t.name}
      [] t.type = "CONSTANT"  -> {}
      [] t.type = "PREDICATE" -> UNION {getVariables(t.arguments[k]) : k \in DOMAIN t.arguments}
isGround(t) == getVariables(t) = {}

EmptySubstitution == [v \in {} |-> Const("none")]

\* map::insert: a variable that is mapped already keeps its value.
set(mapping, v, t) ==
    [w \in DOMAIN mapping \cup {v} |-> IF w \in DOMAIN mapping THEN mapping[w] ELSE t]

\* Replaces variables once: what they are replaced with is not looked into.
RECURSIVE applySubstitution(_, _)
applySubstitution(t, mapping) ==
    CASE t.type = "VARIABLE"  -> IF t.name \in DOMAIN mapping THEN mapping[t.name] ELSE t
      [] t.type = "CONSTANT"  -> t
      [] t.type = "PREDICATE" ->
            Pred(t.functor, [k \in DOMAIN t.arguments |-> applySubstitution(t.arguments[k], mapping)])

-----------------------------------------------------------------------------
(* Unifier *)

\* With occurs check, which fails for a variable and itself, too.
unifyVariable(mapping, v, t) == IF v \in getVariables(t) THEN None ELSE set(mapping, v, t)

\* Mutant: the arguments that follow one that cannot be unified are unified.
RECURSIVE unifyLastArgument(_, _, _)
unifyLastArgument(mapping, t0, t1) ==
    IF t1.type = "VARIABLE" THEN unifyVariable(mapping, t1.name, t0)
    ELSE IF t0.type = "VARIABLE" THEN unifyVariable(mapping, t0.name, t1)
    ELSE IF t0.type = "PREDICATE" /\ t1.type = "PREDICATE"
    THEN FoldLeft(LAMBDA m, k : unifyLastArgument(IF m = None THEN mapping ELSE m,
                                                  t0.arguments[k], t1.arguments[k]),
                  mapping, [k \in DOMAIN t0.arguments |-> k])
    ELSE IF t0 = t1 THEN mapping ELSE None

RECURSIVE unify(_, _, _)
unify(mapping, t0, t1) ==
    IF t1.type = "VARIABLE" THEN unifyVariable(mapping, t1.name, t0)
    ELSE IF t0.type = "VARIABLE" THEN unifyVariable(mapping, t0.name, t1)
    ELSE IF /\ t0.type = "PREDICATE" /\ t1.type = "PREDICATE"
            /\ t0.functor = t1.functor /\ Len(t0.arguments) = Len(t1.arguments)
    THEN FoldLeft(LAMBDA m, k : IF m = None THEN m ELSE unify(m, t0.arguments[k], t1.arguments[k]),
                  mapping, [k \in DOMAIN t0.arguments |-> k])
    ELSE IF t0 = t1 THEN mapping ELSE None

\* An instance of both terms.
apply(mapping, t0, t1) ==
    IF DOMAIN mapping = {} \/ isGround(t0) \/ t1.type = "VARIABLE" THEN t0
    ELSE IF isGround(t1) \/ t0.type = "VARIABLE" THEN t1
    ELSE IF Cardinality(getVariables(t0)) < Cardinality(getVariables(t1))
    THEN applySubstitution(t0, mapping) ELSE applySubstitution(t1, mapping)

\* The instance of t0 and t1, or None.
Unified(t0, t1) ==
    LET mapping == unify(EmptySubstitution, t0, t1)
    IN IF mapping = None THEN None ELSE apply(mapping, t0, t1)

-----------------------------------------------------------------------------
(* Substitution::unifyWith *)

unifyWith(substitution, other) ==
    LET value(v) ==
            IF v \notin DOMAIN substitution THEN other[v]
            ELSE IF v \notin DOMAIN other THEN substitution[v]
            ELSE Unified(substitution[v], other[v])
        variables == DOMAIN substitution \cup DOMAIN other
    IN IF \E v \in variables : value(v) = None THEN None ELSE [v \in variables |-> value(v)]

-----------------------------------------------------------------------------
(* What terms mean: the ground terms, of a given set, that are instances    *)

\* The extension of binding that makes t the ground term g, or None.
RECURSIVE Match(_, _, _)
Match(binding, t, g) ==
    IF binding = None THEN None
    ELSE CASE t.type = "VARIABLE" ->
                IF t.name \in DOMAIN binding /\ binding[t.name] # g THEN None ELSE set(binding, t.name, g)
           [] t.type = "CONSTANT" -> IF t = g THEN binding ELSE None
           [] t.type = "PREDICATE" ->
                IF g.type = "PREDICATE" /\ t.functor = g.functor /\ Len(t.arguments) = Len(g.arguments)
                THEN FoldLeft(LAMBDA b, k : Match(b, t.arguments[k], g.arguments[k]),
                              binding, [k \in DOMAIN t.arguments |-> k])
                ELSE None
Instances(t, groundTerms) == {g \in groundTerms : Match(EmptySubstitution, t, g) # None}

RECURSIVE Occurrences(_, _)
Occurrences(v, t) ==
    CASE t.type = "VARIABLE"  -> IF t.name = v THEN 1 ELSE 0
      [] t.type = "CONSTANT"  -> 0
      [] t.type = "PREDICATE" ->
            FoldLeft(LAMBDA n, s : n + Occurrences(v, s), 0, t.arguments)

\* No variable occurs twice, in one of the terms or in both.
IsLinear(t0, t1) ==
    /\ getVariables(t0) \cap getVariables(t1) = {}
    /\ \A t \in {t0, t1} : \A v \in getVariables(t) : Occurrences(v, t) = 1
==============================================================================
