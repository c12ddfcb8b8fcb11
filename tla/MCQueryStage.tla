---------------------------- MODULE MCQueryStage ----------------------------
(* The assumptions of QueryStage are evaluated here; {Feeder, NoOne} are     *)
(* model values.                                                             *)
EXTENDS QueryStage
=============================================================================
