------------------------- MODULE MCAnswerCombination -------------------------
(* Three channels that agree, or not, on the values of variables V and W.    *)
EXTENDS AnswerCombination

a == Const("a")
b == Const("b")
p(s, t) == Pred("p", <<s, t>>)
f(t) == Pred("f", <<t>>)

Constants == {a, b}
Simple == Constants \cup {f(c) : c \in Constants}
AllGround == Simple \cup {f(t) : t \in Simple} \cup {p(s, t) : s, t \in Simple}

Answer(id, substitution, isUncertain, timeInterval) ==
    [substitution |-> substitution, isUncertain |-> isUncertain, timeInterval |-> timeInterval,
     predicates |-> <<id>>]
SomeOffers == <<
    {Answer(1, "V" :> p(Var("X"), a), FALSE, <<1, 2>>),
     Answer(2, "V" :> f(Var("X")), FALSE, <<>>),
     Answer(3, "W" :> p(Var("X"), Var("X")), TRUE, <<1, 3>>)},
    {Answer(4, "V" :> p(b, Var("Y")), TRUE, <<2, 3>>),
     Answer(5, "V" :> Var("Y"), FALSE, <<>>),
     Answer(6, "V" :> p(a, b) @@ "W" :> f(a), FALSE, <<2, 3>>)},
    {Answer(7, "V" :> p(f(Var("Z")), Var("U")), FALSE, <<1, 1>>),
     Answer(8, "W" :> f(Var("Z")), FALSE, <<>>),
     Answer(9, "V" :> f(Var("Z")), TRUE, <<2, 2>>)}>>

\* Two values of which one has a variable twice.
TwiceX == <<
    {Answer(1, "V" :> p(Var("X"), Var("X")), FALSE, <<>>)},
    {Answer(2, "V" :> p(a, b), FALSE, <<>>)}>>
==============================================================================
