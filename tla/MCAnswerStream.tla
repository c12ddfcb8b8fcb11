--------------------------- MODULE MCAnswerStream ---------------------------
(* Model values and symmetry for checking AnswerStream.                      *)
EXTENDS AnswerStream, TLC

SafetySymmetry == Permutations(Channels)
=============================================================================
