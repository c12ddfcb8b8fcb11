--------------------------- MODULE MCOntologyStore ---------------------------
(* Three ontologies in a cycle of imports: 1 imports 2, and 2 and 3 import   *)
(* each other until the second version of 2 imports 1 instead, and that of 3 *)
(* nothing.                                                                  *)
EXTENDS OntologyStore

SomeImports == << <<<<2>>, <<2>>>>, <<<<3>>, <<1>>>>, <<<<2>>, <<>>>> >>
SourceOrder == <<3, 1>>
==============================================================================
