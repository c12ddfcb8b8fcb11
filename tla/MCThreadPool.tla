---------------------------- MODULE MCThreadPool ----------------------------
(* Model values and symmetry for checking ThreadPool.                        *)
EXTENDS ThreadPool, TLC

\* The goals are interchangeable, and so are the workers as long as either
\* all or none of them may fail; used for safety runs only.
SafetySymmetry == Permutations(Goals) \cup Permutations(Workers)
=============================================================================
