-------------------------- MODULE AnswerCombination --------------------------
(***************************************************************************)
(* What AnswerCombiner combines (src/queries/AnswerCombiner.cpp,           *)
(* src/queries/Answer.cpp): answers of several channels are kept, and each *)
(* new one is combined with all combinations of answers from the other     *)
(* channels. When answers are delivered is the subject of Pipeline.tla.    *)
(*                                                                         *)
(* A push holds the lock of the combiner until all combinations were       *)
(* pushed, so it is one step. Combinations are made in one object that is  *)
(* changed and rolled back.                                                *)
(***************************************************************************)
EXTENDS Terms, TLC

CONSTANTS
    Offers,         \* per channel: the answers that may be pushed
    NumPushes,      \* bound on pushes
    GroundTerms     \* the ground terms that are considered as instances

VARIABLES
    buffer,         \* per channel: the answers pushed
    output          \* the combinations pushed

vars == <<buffer, output>>
Channels == DOMAIN Offers
LastChannel == Cardinality(Channels)

Init == buffer = [c \in Channels |-> <<>>] /\ output = <<>>

NoInterval == <<>>

\* Mutant: the doubts of the other answer are dropped.
combineKeepsCertain(answer, other) ==
    LET substitution == unifyWith(answer.substitution, other.substitution)
    IN IF substitution = None THEN None
       ELSE [answer EXCEPT !.substitution = substitution,
                           !.predicates = @ \o other.predicates]

\* Answer::combine. The result of intersectWith is dropped: an answer that has an
\* interval keeps it.
combine(answer, other) ==
    LET substitution == unifyWith(answer.substitution, other.substitution)
    IN IF substitution = None THEN None
       ELSE [substitution |-> substitution,
             isUncertain |-> answer.isUncertain \/ other.isUncertain,
             timeInterval |-> IF answer.timeInterval = NoInterval THEN other.timeInterval
                                                                  ELSE answer.timeInterval,
             predicates |-> answer.predicates \o other.predicates]

\* Mutant: the substitution is not restored.
rollBackNothing(changed, before) == changed

\* changes.rollBack(): only the substitution is restored.
rollBack(changed, before) == [changed EXCEPT !.substitution = before.substitution]

\* acc: combinedResult and what was pushed; the channels from c on remain to be combined.
RECURSIVE genCombinations(_, _, _)
genCombinations(pushed, c, acc) ==
    IF c > LastChannel THEN [acc EXCEPT !.output = Append(@, acc.result)]
    ELSE IF c = pushed THEN genCombinations(pushed, c + 1, acc)
    ELSE LET tryOne(a, msg) ==
                LET combined == combine(a.result, msg)
                    after == genCombinations(pushed, c + 1, [a EXCEPT !.result = combined])
                IN IF combined = None THEN a
                   ELSE [after EXCEPT !.result = rollBack(after.result, a.result)]
         IN FoldLeft(tryOne, acc, buffer[c])

\* A combination needs an answer from each channel.
push(c) ==
    /\ FoldLeft(LAMBDA n, d : n + Len(buffer[d]), 0, [d \in Channels |-> d]) < NumPushes
    /\ \E msg \in Offers[c] :
          /\ buffer' = [buffer EXCEPT ![c] = Append(@, msg)]
          /\ output' = IF \E d \in Channels \ {c} : buffer[d] = <<>> THEN output
                       ELSE genCombinations(c, 1, [result |-> msg, output |-> output]).output

Next == \E c \in Channels : push(c)
Spec == Init /\ [][Next]_vars

-----------------------------------------------------------------------------
(* Properties *)

Variables == UNION {DOMAIN m.substitution : m \in UNION {Offers[c] : c \in Channels}}
Values(v) == {m.substitution[v] : m \in {n \in UNION {Range(buffer[c]) : c \in Channels} :
                                            v \in DOMAIN n.substitution}}

\* The unifier of two terms is most general: its instances are those of both terms, and
\* it does not exist if there are none; unless a variable occurs twice: the second
\* value of a variable is ignored, and a variable does not unify with itself.
UnifierIsMostGeneral ==
    \A v \in Variables : \A t0, t1 \in Values(v) :
        IsLinear(t0, t1) =>
            LET common == Instances(t0, GroundTerms) \cap Instances(t1, GroundTerms)
            IN IF Unified(t0, t1) = None THEN common = {}
               ELSE common # {} /\ Instances(Unified(t0, t1), GroundTerms) = common

\* "A substitution that unifies some terms" (Unifier.h:16): it gives both the same instance.
UnifierUnifies ==
    \A v \in Variables : \A t0, t1 \in Values(v) :
        LET mapping == unify(EmptySubstitution, t0, t1)
        IN mapping # None => applySubstitution(t0, mapping) = applySubstitution(t1, mapping)

\* A choice of one answer per channel, and what it says of the variables.
ChoicesOfParts == {f \in [Channels -> UNION {DOMAIN buffer[c] : c \in Channels}] :
                \A c \in Channels : f[c] \in DOMAIN buffer[c]}
Parts(f) == {buffer[c][f[c]] : c \in Channels}
Meaning(answers) ==
    [v \in UNION {DOMAIN m.substitution : m \in answers} |->
        {g \in GroundTerms : \A m \in answers :
            v \in DOMAIN m.substitution => g \in Instances(m.substitution[v], GroundTerms)}]

Joins == {f \in ChoicesOfParts : LET m == Meaning(Parts(f)) IN \A v \in DOMAIN m : m[v] # {}}

\* Every choice of one answer per channel that agrees on the variables is pushed once,
\* as one answer with the values they agree on, and no other choice is, although all
\* are made in one object.
CombinesEachOnce ==
    LET joins == Joins
    IN /\ Len(output) = Cardinality(joins)
       /\ {Meaning({output[k]}) : k \in DOMAIN output} = {Meaning(Parts(f)) : f \in joins}

\* The parts a combination may have been made of.
MadeOf(o, f) ==
    /\ \A m \in Parts(f) : Range(m.predicates) \subseteq Range(o.predicates)
    /\ Meaning({o}) = Meaning(Parts(f))

\* A combination is uncertain if one of its parts is, and names the predicates of all
\* parts. (It may be uncertain, and name predicates, because of parts of combinations
\* pushed before: these are not rolled back.)
KeepsDoubts ==
    \A k \in DOMAIN output : \E f \in ChoicesOfParts :
        (output[k].isUncertain \/ \A m \in Parts(f) : ~m.isUncertain) /\ MadeOf(output[k], f)

\* A combination holds during its interval ("an optional time interval of this answer
\* being true", Answer.h): its parts do.
HoldsDuringInterval ==
    \A k \in DOMAIN output : \E f \in ChoicesOfParts :
        /\ MadeOf(output[k], f)
        /\ \A m \in Parts(f) : m.timeInterval # NoInterval =>
              /\ output[k].timeInterval # NoInterval
              /\ m.timeInterval[1] <= output[k].timeInterval[1]
              /\ output[k].timeInterval[2] <= m.timeInterval[2]
==============================================================================
