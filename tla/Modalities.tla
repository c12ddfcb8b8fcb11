------------------------------ MODULE Modalities ------------------------------
(***************************************************************************)
(* Modal operators (src/modalities/), how the fields of a ROS message      *)
(* become operators (src/ros/ROSInterface.cpp), and how the operators of a *)
(* literal become fields of a triple expression or of a statement          *)
(* (src/semweb/RDFLiteral.cpp).                                            *)
(*                                                                         *)
(* An operator is [kind, parameters]: K (knows) and B (believes) with an   *)
(* agent, B with a confidence, H (always in the past) and P (at some time  *)
(* in the past) with the begin and end of an interval. A parameter is a    *)
(* set of at most one value. Confidence is left out of statements.         *)
(***************************************************************************)
EXTENDS Integers, Sequences, SequencesExt, FiniteSetsExt

IsEpistemic(o) == o.kind \in {"K", "B"}

\* What two operators in a row are reduced to: every modality is transitive and
\* none euclidean, "knows that believes" is "believes", and conversely, for one agent.
Reduces(a, b) ==
    \/ a.kind = b.kind
    \/ IsEpistemic(a) /\ IsEpistemic(b) /\ a.parameters[1] = b.parameters[1]
ReducedTo(a, b) == IF a.kind = b.kind THEN a ELSE b

\* ModalIteration::operator+=: o is reduced with the operator before it, what comes out
\* with the one before that, and so on, until an operator is kept.
Add(iteration, o) ==
    LET reduced[k \in 1 .. Len(iteration) + 1] ==
            IF k > Len(iteration) THEN o ELSE ReducedTo(iteration[k], reduced[k + 1])
        kept == {k \in DOMAIN iteration : ~Reduces(iteration[k], reduced[k + 1])}
        numKept == Max({0} \cup kept)
    IN Append(SubSeq(iteration, 1, numKept), reduced[numKept + 1])

\* ModalityLabel: of each kind of modality only the last operator.
LastOf(iteration, epistemic) ==
    LET same == SelectSeq(iteration, LAMBDA o : IsEpistemic(o) = epistemic)
    IN IF same = <<>> THEN same ELSE <<Last(same)>>
Label(iteration) == <<LastOf(iteration, TRUE), LastOf(iteration, FALSE)>>

-----------------------------------------------------------------------------
(* A message has an epistemic operator ("K" or "B"), an agent, a temporal    *)
(* operator ("H", "P", or "now"), a begin and an end, and literals, which    *)
(* come with the operators in the text of the query.                         *)

\* Without an agent there is no epistemic operator. The temporal one is the outer one.
EpistemicOperator(m) ==
    IF m.agent = {} THEN <<>>
    ELSE <<[kind |-> m.epistemic, parameters |-> IF m.epistemic = "B" THEN <<m.agent, {}>> ELSE <<m.agent>>]>>
TemporalOperator(m) ==
    IF m.temporal = "now" THEN <<>> ELSE <<[kind |-> m.temporal, parameters |-> <<m.begin, m.end>>]>>
applyModality(m) ==
    [k \in DOMAIN m.literals |->
        [m.literals[k] EXCEPT !.operators = TemporalOperator(m) \o EpistemicOperator(m) \o @]]

-----------------------------------------------------------------------------
(* RDFLiteral: the operators are those around the literal in the formula.    *)

NoTime == 0             \* the field is undefined
ValueOf(parameter, default) == IF parameter = {} THEN default ELSE CHOOSE v \in parameter : TRUE

HasOperator(label, i, kind) == label[i] # <<>> /\ label[i][1].kind = kind
AgentOf(label) == IF label[1] = <<>> THEN {} ELSE label[1][1].parameters[1]
TimeOf(label, k) == IF label[2] = <<>> THEN NoTime ELSE ValueOf(label[2][1].parameters[k], NoTime)

LabelOf(l) == Label(FoldLeft(Add, <<>>, l.operators))
RDFLiteral(l, label) ==
    [subject |-> l.subject, predicate |-> l.predicate, object |-> l.object, negated |-> l.negated,
     certain |-> HasOperator(label, 1, "K"), agent |-> AgentOf(label),
     sometimes |-> HasOperator(label, 2, "P"), begin |-> TimeOf(label, 1), end |-> TimeOf(label, 2)]
fromLiteral(l) == RDFLiteral(l, LabelOf(l))

\* Of a positive literal without variables; knowledge if no operator says otherwise.
toStatementData(l) ==
    LET e == fromLiteral(l)
    IN [subject |-> e.subject, predicate |-> e.predicate, object |-> e.object,
        certain |-> ~HasOperator(LabelOf(l), 1, "B"), agent |-> e.agent,
        sometimes |-> e.sometimes, begin |-> e.begin, end |-> e.end]

\* executeTellCB applies the operators of the message, but then takes the formula without them.
ToldStatements(m) == [k \in DOMAIN m.literals |-> toStatementData(m.literals[k])]
AskedExpressions(m) == [k \in DOMAIN m.literals |-> fromLiteral(applyModality(m)[k])]
==============================================================================
