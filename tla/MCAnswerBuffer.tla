--------------------------- MODULE MCAnswerBuffer ---------------------------
(* The subscribers of AnswerBuffer for checking.                             *)
EXTENDS AnswerBuffer

CONSTANTS s1, s2
OneSubscriber == <<s1>>
TwoSubscribers == <<s1, s2>>
=============================================================================
