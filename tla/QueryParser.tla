----------------------------- MODULE QueryParser -----------------------------
(***************************************************************************)
(* The query language (src/queries/QueryParser.cpp): a query text is read  *)
(* with a grammar whose alternatives are tried in order, the first one     *)
(* that matches is taken and never reconsidered. A text is a sequence of   *)
(* tokens here; predicates, with their arguments, are tokens.              *)
(*                                                                         *)
(* A rule yields {[formula, next]}, the formula it read and the position   *)
(* after it, or {} if it does not match. An exception that is thrown for   *)
(* unknown options is {}, too: no rule but that of the modal operator can  *)
(* match in its place.                                                     *)
(***************************************************************************)
EXTENDS Integers, Sequences, SequencesExt, FiniteSetsExt

OrElse(first, second) == IF first # {} THEN first ELSE second

-----------------------------------------------------------------------------
(* Modal operators and their options: [key, type, value]; no key: ""        *)

Agent == [type |-> "STRING", keys |-> <<"agent", "a">>]
Confidence == [type |-> "DOUBLE", keys |-> <<"confidence", "c">>]
Begin == [type |-> "DOUBLE", keys |-> <<"begin", "since">>]
End == [type |-> "DOUBLE", keys |-> <<"end", "until">>]
Parameters ==
    [K |-> <<Agent>>, B |-> <<Agent, Confidence>>, H |-> <<Begin, End>>, P |-> <<Begin, End>>]

\* An option gives the first parameter of its type, and key if it has one, that has no value.
readOption(kind, values, o) ==
    LET free == {k \in DOMAIN values :
                    /\ values[k] = {}
                    /\ o.type = Parameters[kind][k].type
                    /\ o.key \in Range(Parameters[kind][k].keys) \cup {""}}
    IN IF free = {} THEN <<>> ELSE [values EXCEPT ![Min(free)] = {o.value}]

\* createK, createB, createP, createH: there is no operator if an option is not recognized.
createOperator(kind, options) ==
    LET values == FoldLeft(LAMBDA v, o : readOption(kind, v, o),
                           [k \in DOMAIN Parameters[kind] |-> {}], options)
    IN IF values = <<>> THEN {}
       ELSE {[kind |-> kind, parameters |->
                [k \in DOMAIN values |-> IF Parameters[kind][k] = Agent THEN values[k] \ {"self"}
                                                                        ELSE values[k]]]}

-----------------------------------------------------------------------------
(* Connectives: operator&, operator| and operator~                          *)

PartsAs(f, type) == IF f.type = type THEN f.parts ELSE <<f>>
Flat(type, f, g) == [type |-> type, parts |-> PartsAs(f, type) \o PartsAs(g, type)]
Negate(f) == IF f.type = "NEGATION" THEN f.parts[1] ELSE [type |-> "NEGATION", parts |-> <<f>>]

-----------------------------------------------------------------------------
(* The grammar                                                              *)

IsSymbol(t, i, symbol) == i <= Len(t) /\ t[i].symbol = symbol

RECURSIVE brackets(_, _), unary(_, _), conjunction(_, _), disjunction(_, _), implication(_, _)

queryFormula(t, i) == OrElse(implication(t, i), brackets(t, i))
brackets(t, i) ==
    IF ~IsSymbol(t, i, "(") THEN {}
    ELSE {[f EXCEPT !.next = @ + 1] :
             f \in {g \in queryFormula(t, i + 1) : IsSymbol(t, g.next, ")")}}

operand(t, i) == OrElse(unary(t, i), brackets(t, i))

predicate(t, i) ==
    IF IsSymbol(t, i, "predicate") THEN {[formula |-> t[i].predicate, next |-> i + 1]} ELSE {}
negation(t, i) ==
    IF ~IsSymbol(t, i, "~") THEN {}
    ELSE {[f EXCEPT !.formula = Negate(f.formula)] : f \in operand(t, i + 1)}
modalFormula(t, i) ==
    IF ~IsSymbol(t, i, "modal") THEN {}
    ELSE {[f EXCEPT !.formula = [type |-> "MODAL", operator |-> o, parts |-> <<f.formula>>]] :
             f \in operand(t, i + 1), o \in createOperator(t[i].kind, t[i].options)}
unary(t, i) == OrElse(modalFormula(t, i), OrElse(negation(t, i), predicate(t, i)))

\* Two operands around a symbol; the rule for the second one starts after the symbol.
Infix(t, lefts, symbol, Right(_), Combined(_, _)) ==
    UNION {{[formula |-> Combined(l.formula, r.formula), next |-> r.next] :
                r \in Right(l.next + 1)} :
               l \in {m \in lefts : IsSymbol(t, m.next, symbol)}}

\* Mutant: the alternatives for the second operand are swapped.
conjunctionBracketsFirst(t, i) ==
    OrElse(Infix(t, operand(t, i), ",", LAMBDA k : OrElse(brackets(t, k), conjunction(t, k)),
                 LAMBDA f, g : Flat("CONJUNCTION", f, g)),
           unary(t, i))

conjunction(t, i) ==
    OrElse(Infix(t, operand(t, i), ",", LAMBDA k : OrElse(conjunction(t, k), brackets(t, k)),
                 LAMBDA f, g : Flat("CONJUNCTION", f, g)),
           unary(t, i))
disjunction(t, i) ==
    OrElse(Infix(t, OrElse(conjunction(t, i), brackets(t, i)), ";",
                 LAMBDA k : OrElse(disjunction(t, k), brackets(t, k)),
                 LAMBDA f, g : Flat("DISJUNCTION", f, g)),
           conjunction(t, i))
implication(t, i) ==
    OrElse(Infix(t, OrElse(disjunction(t, i), brackets(t, i)), "->",
                 LAMBDA k : OrElse(implication(t, k), brackets(t, k)),
                 LAMBDA f, g : [type |-> "IMPLICATION", parts |-> <<f, g>>]),
           disjunction(t, i))

\* The formula of a text that is matched to its end.
parse(t) ==
    {f.formula : f \in {g \in queryFormula(t, 1) : g.next = Len(t) + 1}}

-----------------------------------------------------------------------------
(* How formulas are written, for the properties of the parser               *)

Symbol(s) == <<[symbol |-> s]>>
Precedence == [IMPLICATION |-> 0, DISJUNCTION |-> 1, CONJUNCTION |-> 2,
               NEGATION |-> 3, MODAL |-> 3, PREDICATE |-> 3]

\* The options of an operator: in order and with keys where they are needed, or in
\* reverse order, all with keys, and with the agent that is meant if none is given.
Options(o, isVerbose) ==
    LET parameters == Parameters[o.kind]
        value(k) == IF isVerbose /\ parameters[k] = Agent THEN OrElse(o.parameters[k], {"self"})
                                                          ELSE o.parameters[k]
        given == SelectSeq([k \in DOMAIN parameters |-> k], LAMBDA k : value(k) # {})
        needsKey(k) ==
            \/ isVerbose
            \/ \E j \in 1 .. k - 1 : value(j) = {} /\ parameters[j].type = parameters[k].type
        option(k) == [key |-> IF needsKey(k) THEN parameters[k].keys[2] ELSE "",
                      type |-> parameters[k].type, value |-> CHOOSE v \in value(k) : TRUE]
        options == [n \in DOMAIN given |-> option(given[n])]
    IN IF isVerbose THEN Reverse(options) ELSE options

\* With the brackets that are needed, or with brackets around every part.
RECURSIVE Written(_, _, _)
Written(f, least, isVerbose) ==
    LET part(k, p) == Written(f.parts[k], IF isVerbose THEN 4 ELSE p, isVerbose)
        joined(symbol, p) ==
            FoldLeft(LAMBDA t, k : t \o Symbol(symbol) \o part(k, p), part(1, p),
                     [k \in 1 .. Len(f.parts) - 1 |-> k + 1])
        text == CASE f.type = "PREDICATE"   -> <<[symbol |-> "predicate", predicate |-> f]>>
                  [] f.type = "NEGATION"    -> Symbol("~") \o part(1, 3)
                  [] f.type = "MODAL"       ->
                        <<[symbol |-> "modal", kind |-> f.operator.kind,
                           options |-> Options(f.operator, isVerbose)]>> \o part(1, 3)
                  [] f.type = "CONJUNCTION" -> joined(",", 3)
                  [] f.type = "DISJUNCTION" -> joined(";", 2)
                  [] f.type = "IMPLICATION" -> part(1, 1) \o Symbol("->") \o part(2, 0)
    IN IF Precedence[f.type] < least THEN Symbol("(") \o text \o Symbol(")") ELSE text
Texts(f) == {Written(f, 0, FALSE), Written(f, 0, TRUE)}
==============================================================================
