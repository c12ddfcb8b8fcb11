------------------------ MODULE OntologyStore_proofs -------------------------
(***************************************************************************)
(* What is recorded is complete, what it imports is loaded, loading does   *)
(* not recurse without end, imports_ is the transitive closure of          *)
(* directImports_, and a restart restores it: for any ontologies, any      *)
(* imports between them, any number of versions and any number of stops.   *)
(***************************************************************************)
EXTENDS OntologyStore, SequenceTheorems, TLAPS

ActivationPC == {"check", "drop", "begin", "parse", "record", "hierarchy", "imports"}
Activations == [graph : Ontologies, pc : ActivationPC, version : 0 .. MaxVersion,
                content : 0 .. MaxVersion, next : Nat \ {0}]
Triples == [graph : Ontologies, version : Versions, batch : Batches]

TypeOK ==
    /\ fileVersion \in [Ontologies -> Versions]
    /\ triples \subseteq Triples /\ record \in [Ontologies -> SUBSET Versions]
    /\ loading \in Seq(Activations) /\ sources \in Seq(Ontologies)
    /\ unread \subseteq Ontologies \X Ontologies

\* Where the ontology of an activation is not loaded yet, and where it is.
LoadingPC == {"check", "drop", "begin", "parse", "record"}
LoadedPC == {"hierarchy", "imports"}

\* An activation waits for the one above it only to load an import, and its
\* version was read before its content.
Stacked ==
    \A k \in DOMAIN loading : LET a == loading[k] IN
        /\ k > 1 => a.pc = "imports"
        /\ a.pc # "check" => a.version \in Versions
        /\ a.pc \notin {"check", "drop", "begin"} => a.content \in Versions /\ a.version <= a.content
        /\ a.version <= fileVersion[a.graph]

\* Only the innermost activation has stored triples without a record.
Parsed ==
    /\ loading # <<>> =>
          /\ Top.pc \in {"begin", "parse", "record"} => ~Recorded(Graph)
          /\ Top.pc \in {"parse", "record"} => Stored(Graph, Top.content, 1) \in triples
          /\ Top.pc = "record" => Stored(Graph, Top.content, 2) \in triples
    /\ "interrupted" \notin windows =>
          \A t \in triples :
              \/ Recorded(t.graph)
              \/ /\ loading # <<>> /\ Top.graph = t.graph
                 /\ Top.pc \in {"parse", "record"} /\ Top.content = t.version

RecordInv == TypeOK /\ Stacked /\ Parsed /\ RecordedIsComplete

\* Activation a loads import i of graph g, or will.
Provides(a, g, i) ==
    \/ a.graph = i /\ a.pc \in LoadingPC
    \/ /\ a.graph = g /\ a.pc \in LoadedPC
       /\ \E n \in DOMAIN Imports[g][a.content] :
             Imports[g][a.content][n] = i /\ (a.pc = "hierarchy" \/ a.next <= n)
Pending(g, i) == \E k \in DOMAIN loading : Provides(loading[k], g, i)

LoadedInv ==
    "interrupted" \notin windows =>
        \A g \in Ontologies : Recorded(g) => \A i \in StoredImports(g) : Recorded(i) \/ Pending(g, i)

\* An activation that waits has recorded the version its file still has.
Steady ==
    \A k \in DOMAIN loading : LET a == loading[k] IN
        /\ a.pc # "check" => a.version = fileVersion[a.graph]
        /\ a.pc \in LoadedPC => fileVersion[a.graph] \in record[a.graph]
Apart ==
    \A i, j \in DOMAIN loading :
        i < j /\ loading[i].graph = loading[j].graph => loading[i].pc = "check"
ReentryInv == "changedWhileLoading" \notin windows => Steady /\ Apart

\* For each graph, all holds the least set that holds its imports and those of the
\* set's own elements.
ImportsIn(direct, g) == direct[g] \ {Dangling}
Holds(direct, S, g) == ImportsIn(direct, g) \subseteq S /\ \A i \in S : ImportsIn(direct, i) \subseteq S
IsHierarchy(direct, all) ==
    /\ DOMAIN direct = DOMAIN all /\ DOMAIN all \subseteq Ontologies
    /\ \A g \in DOMAIN all :
        /\ direct[g] \subseteq Ontologies \cup {Dangling}
        /\ all[g] \subseteq DOMAIN all
        /\ Holds(direct, all[g], g)
        /\ \A S \in SUBSET all[g] : Holds(direct, S, g) => S = all[g]
HierarchyInv == IsHierarchy(directImports, imports)

\* The innermost activation will add the import of i by g.
IsToAdd(g, i) ==
    /\ loading # <<>> /\ Top.graph = g
    /\ Top.pc \in {"record", "hierarchy"}
    /\ \E n \in DOMAIN ContentImports : Top.next <= n /\ ContentImports[n] = i

\* A stored import is known, or still to be read, or to be added.
KnownImports(g) == IF g \in DOMAIN directImports THEN ImportsIn(directImports, g) ELSE {}
PairsHold ==
    /\ loading # <<>> => unread = {} /\ (Top.pc \in LoadingPC => Top.next = 1)
    /\ \A g, i \in Ontologies :
          i \in StoredImports(g) <=> i \in KnownImports(g) \/ <<g, i>> \in unread \/ IsToAdd(g, i)
PairsInv == windows \cap {"interrupted", "importDropped"} = {} => PairsHold

-----------------------------------------------------------------------------
(* The stack of activations *)

\* What the assumption says of the constants.
LEMMA Facts ==
    /\ Ontologies \subseteq Nat \ {0} /\ MaxVersion \in Nat /\ Versions = 1 .. MaxVersion
    /\ Versions \subseteq Nat \ {0} /\ 1 \in Versions
    /\ \A g \in Ontologies, v \in Versions : Imports[g][v] \in Seq(Ontologies)
BY OntologiesAssumption DEF Versions

\* Another element on top; what is below stays.
LEMMA Replaced ==
    ASSUME NEW S, NEW s \in Seq(S), s # <<>>, NEW e \in S
    PROVE  LET t == <<e>> \o Tail(s) IN
           /\ t \in Seq(S) /\ t # <<>> /\ Head(t) = e /\ t[1] = e /\ 1 \in DOMAIN s /\ DOMAIN t = DOMAIN s
           /\ Head(s) = s[1] /\ \A k \in DOMAIN s : k \in Nat \ {0} /\ (k > 1 => t[k] = s[k])
<1> DEFINE t == <<e>> \o Tail(s)
           u == Tail(s)
<1>1. /\ Len(s) \in Nat /\ Len(s) >= 1 /\ DOMAIN s = 1 .. Len(s) /\ Head(s) = s[1]
      /\ u \in Seq(S) /\ Len(u) = Len(s) - 1 /\ \A k \in 1 .. Len(u) : u[k] = s[k + 1]
  BY HeadTailProperties, EmptySeq, LenProperties
<1>2. <<e>> \in Seq(S) /\ Len(<<e>>) = 1 /\ <<e>>[1] = e
  OBVIOUS
<1>3. t = <<e>> \o u
  OBVIOUS
<1> HIDE DEF t, u
<1>4. /\ t \in Seq(S) /\ Len(t) = Len(<<e>>) + Len(u)
      /\ \A k \in 1 .. Len(<<e>>) + Len(u) : t[k] = IF k <= Len(<<e>>) THEN <<e>>[k] ELSE u[k - Len(<<e>>)]
  BY <1>1, <1>2, <1>3, ConcatProperties
<1>5. Len(t) = Len(s) /\ DOMAIN t = 1 .. Len(s) /\ t[1] = e
  BY <1>1, <1>2, <1>4, LenProperties
<1>6. \A k \in 1 .. Len(s) : k > 1 => t[k] = s[k]
  <2> SUFFICES ASSUME NEW k \in 1 .. Len(s), k > 1 PROVE t[k] = s[k]
    OBVIOUS
  <2>1. t[k] = u[k - 1]
    BY <1>1, <1>2, <1>4
  <2>2. k - 1 \in 1 .. Len(u) /\ (k - 1) + 1 = k
    BY <1>1
  <2>3. u[k - 1] = s[(k - 1) + 1]
    BY <1>1, <2>2
  <2> QED
    BY <2>1, <2>2, <2>3
<1>7. t # <<>> /\ Head(t) = t[1]
  BY <1>1, <1>4, <1>5, HeadTailProperties, EmptySeq
<1> QED
  BY <1>1, <1>4, <1>5, <1>6, <1>7 DEF t

\* The top is removed.
LEMMA Popped ==
    ASSUME NEW S, NEW s \in Seq(S), s # <<>>
    PROVE  /\ Tail(s) \in Seq(S) /\ Head(s) = s[1] /\ 1 \in DOMAIN s
           /\ \A k \in DOMAIN Tail(s) : k \in Nat \ {0} /\ k + 1 \in DOMAIN s /\ Tail(s)[k] = s[k + 1]
           /\ \A k \in DOMAIN s : k \in Nat \ {0}
                 /\ (k > 1 => k - 1 \in DOMAIN Tail(s) /\ Tail(s)[k - 1] = s[k])
           /\ Tail(s) # <<>> => Head(Tail(s)) = s[2] /\ 2 \in DOMAIN s
<1>1. /\ Len(s) \in Nat /\ Len(s) >= 1 /\ DOMAIN s = 1 .. Len(s) /\ Head(s) = s[1]
      /\ Tail(s) \in Seq(S) /\ Len(Tail(s)) = Len(s) - 1 /\ \A k \in 1 .. Len(Tail(s)) : Tail(s)[k] = s[k + 1]
  BY HeadTailProperties, EmptySeq, LenProperties
<1>2. DOMAIN Tail(s) = 1 .. Len(s) - 1
  BY <1>1, LenProperties
<1>3. Tail(s) # <<>> => Head(Tail(s)) = Tail(s)[1] /\ Len(Tail(s)) >= 1
  BY <1>1, HeadTailProperties, EmptySeq, LenProperties
<1>4. \A k \in 1 .. Len(s) - 1 : k \in Nat \ {0} /\ k + 1 \in 1 .. Len(s) /\ Tail(s)[k] = s[k + 1]
  BY <1>1
<1>5. \A k \in 1 .. Len(s) : k > 1 => k - 1 \in 1 .. Len(s) - 1 /\ Tail(s)[k - 1] = s[k]
  <2> SUFFICES ASSUME NEW k \in 1 .. Len(s), k > 1
               PROVE  k - 1 \in 1 .. Len(s) - 1 /\ Tail(s)[k - 1] = s[k]
    OBVIOUS
  <2>1. k - 1 \in 1 .. Len(s) - 1 /\ (k - 1) + 1 = k
    BY <1>1
  <2>2. Tail(s)[k - 1] = s[(k - 1) + 1]
    BY <1>4, <2>1
  <2> QED
    BY <2>1, <2>2
<1>6. Tail(s) # <<>> => Head(Tail(s)) = s[2] /\ 2 \in 1 .. Len(s)
  <2>1. Len(Tail(s)) >= 1 => 1 \in 1 .. Len(s) - 1 /\ 1 + 1 = 2
    BY <1>1
  <2> QED
    BY <1>1, <1>3, <1>4, <2>1
<1>7. \A k \in 1 .. Len(s) : k \in Nat \ {0}
  BY <1>1
<1>8. 1 \in 1 .. Len(s)
  BY <1>1
<1> QED
  BY <1>1, <1>2, <1>4, <1>5, <1>6, <1>7, <1>8

\* A second element comes on top.
LEMMA Piled ==
    ASSUME NEW S, NEW s \in Seq(S), s # <<>>, NEW d \in S, NEW e \in S
    PROVE  LET t == <<d, e>> \o Tail(s) IN
           /\ t \in Seq(S) /\ t # <<>> /\ Head(t) = d /\ t[1] = d /\ t[2] = e
           /\ \A k \in DOMAIN t : k \in Nat \ {0} /\ (k > 2 => k - 1 \in DOMAIN s /\ t[k] = s[k - 1])
           /\ \A k \in DOMAIN s : k \in Nat \ {0} /\ k + 1 \in DOMAIN t /\ (k > 1 => t[k + 1] = s[k])
           /\ 1 \in DOMAIN t /\ 2 \in DOMAIN t /\ Head(s) = s[1] /\ 1 \in DOMAIN s
<1> DEFINE t == <<d, e>> \o Tail(s)
           u == Tail(s)
<1>1. /\ Len(s) \in Nat /\ Len(s) >= 1 /\ DOMAIN s = 1 .. Len(s) /\ Head(s) = s[1]
      /\ u \in Seq(S) /\ Len(u) = Len(s) - 1 /\ \A k \in 1 .. Len(u) : u[k] = s[k + 1]
  BY HeadTailProperties, EmptySeq, LenProperties
<1>2. <<d, e>> \in Seq(S) /\ Len(<<d, e>>) = 2 /\ <<d, e>>[1] = d /\ <<d, e>>[2] = e
  OBVIOUS
<1>3. t = <<d, e>> \o u
  OBVIOUS
<1> HIDE DEF t, u
<1>4. /\ t \in Seq(S) /\ Len(t) = Len(<<d, e>>) + Len(u)
      /\ \A k \in 1 .. Len(<<d, e>>) + Len(u) :
            t[k] = IF k <= Len(<<d, e>>) THEN <<d, e>>[k] ELSE u[k - Len(<<d, e>>)]
  BY <1>1, <1>2, <1>3, ConcatProperties
<1>5. Len(t) = Len(s) + 1 /\ DOMAIN t = 1 .. Len(s) + 1 /\ t[1] = d /\ t[2] = e
  BY <1>1, <1>2, <1>4, LenProperties
<1>6. \A k \in 1 .. Len(s) + 1 : k > 2 => t[k] = s[k - 1]
  <2> SUFFICES ASSUME NEW k \in 1 .. Len(s) + 1, k > 2 PROVE t[k] = s[k - 1]
    OBVIOUS
  <2>1. t[k] = u[k - 2]
    BY <1>1, <1>2, <1>4
  <2>2. k - 2 \in 1 .. Len(u) /\ (k - 2) + 1 = k - 1
    BY <1>1
  <2>3. u[k - 2] = s[(k - 2) + 1]
    BY <1>1, <2>2
  <2> QED
    BY <2>1, <2>2, <2>3
<1>7. t # <<>> /\ Head(t) = t[1]
  BY <1>1, <1>4, <1>5, HeadTailProperties, EmptySeq
<1>8. \A k \in 1 .. Len(s) : k > 1 => t[k + 1] = s[k]
  <2> SUFFICES ASSUME NEW k \in 1 .. Len(s), k > 1 PROVE t[k + 1] = s[k]
    OBVIOUS
  <2>1. k + 1 \in 1 .. Len(s) + 1 /\ k + 1 > 2 /\ (k + 1) - 1 = k
    BY <1>1
  <2>2. t[k + 1] = s[(k + 1) - 1]
    BY <1>6, <2>1
  <2> QED
    BY <2>1, <2>2
<1>9. \A k \in 1 .. Len(s) + 1 : k \in Nat \ {0} /\ (k > 2 => k - 1 \in 1 .. Len(s))
  BY <1>1
<1>10. /\ \A k \in 1 .. Len(s) : k \in Nat \ {0} /\ k + 1 \in 1 .. Len(s) + 1
       /\ 1 \in 1 .. Len(s) + 1 /\ 2 \in 1 .. Len(s) + 1 /\ 1 \in 1 .. Len(s)
  BY <1>1
<1> QED
  BY <1>1, <1>4, <1>5, <1>6, <1>7, <1>8, <1>9, <1>10 DEF t

-----------------------------------------------------------------------------
(* The steps of the innermost activation *)

Activation(g, pc, version, content, next) ==
    [graph |-> g, pc |-> pc, version |-> version, content |-> content, next |-> next]

\* The innermost activation gets these values.
Becomes(pc, version, content, next) ==
    loading' = <<Activation(Graph, pc, version, content, next)>> \o Tail(loading)

\* An activation in which one or two fields are changed.
LEMMA Changed ==
    ASSUME NEW a \in Activations
    PROVE  /\ a.graph \in Ontologies /\ a.pc \in ActivationPC /\ a.version \in 0 .. MaxVersion
           /\ a.content \in 0 .. MaxVersion /\ a.next \in Nat \ {0}
           /\ \A p \in ActivationPC, v \in 0 .. MaxVersion :
                 [a EXCEPT !.pc = p, !.version = v] = Activation(a.graph, p, v, a.content, a.next)
           /\ \A p \in ActivationPC, c \in 0 .. MaxVersion :
                 [a EXCEPT !.pc = p, !.content = c] = Activation(a.graph, p, a.version, c, a.next)
           /\ \A p \in ActivationPC, n \in Nat \ {0} :
                 [a EXCEPT !.pc = p, !.next = n] = Activation(a.graph, p, a.version, a.content, n)
           /\ \A p \in ActivationPC :
                 [a EXCEPT !.pc = p] = Activation(a.graph, p, a.version, a.content, a.next)
           /\ \A n \in Nat \ {0} :
                 [a EXCEPT !.next = n] = Activation(a.graph, a.pc, a.version, a.content, n)
<1>1. /\ a.graph \in Ontologies /\ a.pc \in ActivationPC /\ a.version \in 0 .. MaxVersion
      /\ a.content \in 0 .. MaxVersion /\ a.next \in Nat \ {0}
  BY DEF Activations
<1>2. ASSUME NEW b \in Activations PROVE b = Activation(b.graph, b.pc, b.version, b.content, b.next)
  BY DEF Activations, Activation
<1>3. ASSUME NEW p \in ActivationPC, NEW v \in 0 .. MaxVersion
      PROVE  [a EXCEPT !.pc = p, !.version = v] = Activation(a.graph, p, v, a.content, a.next)
  <2> DEFINE b == [a EXCEPT !.pc = p, !.version = v]
  <2>1. b \in Activations /\ b.graph = a.graph /\ b.pc = p /\ b.version = v /\ b.content = a.content
        /\ b.next = a.next
    BY DEF Activations
  <2> HIDE DEF b
  <2>2. b = Activation(a.graph, p, v, a.content, a.next)
    BY <1>2, <2>1
  <2> QED
    BY <2>2 DEF b
<1>4. ASSUME NEW p \in ActivationPC, NEW c \in 0 .. MaxVersion
      PROVE  [a EXCEPT !.pc = p, !.content = c] = Activation(a.graph, p, a.version, c, a.next)
  <2> DEFINE b == [a EXCEPT !.pc = p, !.content = c]
  <2>1. b \in Activations /\ b.graph = a.graph /\ b.pc = p /\ b.version = a.version /\ b.content = c
        /\ b.next = a.next
    BY DEF Activations
  <2> HIDE DEF b
  <2>2. b = Activation(a.graph, p, a.version, c, a.next)
    BY <1>2, <2>1
  <2> QED
    BY <2>2 DEF b
<1>5. ASSUME NEW p \in ActivationPC, NEW n \in Nat \ {0}
      PROVE  [a EXCEPT !.pc = p, !.next = n] = Activation(a.graph, p, a.version, a.content, n)
  <2> DEFINE b == [a EXCEPT !.pc = p, !.next = n]
  <2>1. b \in Activations /\ b.graph = a.graph /\ b.pc = p /\ b.version = a.version
        /\ b.content = a.content /\ b.next = n
    BY DEF Activations
  <2> HIDE DEF b
  <2>2. b = Activation(a.graph, p, a.version, a.content, n)
    BY <1>2, <2>1
  <2> QED
    BY <2>2 DEF b
<1>6. ASSUME NEW p \in ActivationPC
      PROVE  [a EXCEPT !.pc = p] = Activation(a.graph, p, a.version, a.content, a.next)
  BY DEF Activations, Activation
<1>7. ASSUME NEW n \in Nat \ {0}
      PROVE  [a EXCEPT !.next = n] = Activation(a.graph, a.pc, a.version, a.content, n)
  BY DEF Activations, Activation
<1> QED
  BY <1>1, <1>3, <1>4, <1>5, <1>6, <1>7

\* The types of the fields of the innermost activation.
LEMMA TopFacts ==
    ASSUME TypeOK, loading # <<>>
    PROVE  /\ Top \in Activations /\ Top = loading[1] /\ 1 \in DOMAIN loading
           /\ Graph \in Ontologies /\ Top.pc \in ActivationPC /\ Top.version \in 0 .. MaxVersion
           /\ Top.content \in 0 .. MaxVersion /\ Top.next \in Nat \ {0}
           /\ Top.graph = Graph /\ fileVersion[Graph] \in Versions
           /\ \A k \in DOMAIN loading : k \in Nat \ {0} /\ loading[k] \in Activations
<1>1. loading \in Seq(Activations) /\ loading # <<>>
  BY DEF TypeOK
<1>2. Top \in Activations /\ Top = loading[1] /\ 1 \in DOMAIN loading
      /\ \A k \in DOMAIN loading : k \in Nat \ {0} /\ loading[k] \in Activations
  BY <1>1, Popped, LenProperties, HeadTailProperties DEF Top
<1> QED
  BY <1>2, Changed DEF Graph, TypeOK

\* What each step makes of the activations.
LEMMA Effects ==
    ASSUME TypeOK
    PROVE  LET v == Top.version
               c == Top.content
               n == Top.next
           IN
           /\ CheckVersion => IF fileVersion[Graph] \in record[Graph]
                              THEN loading' = Tail(loading)
                              ELSE Becomes(IF Recorded(Graph) THEN "drop" ELSE "begin",
                                           fileVersion[Graph], c, n)
           /\ DropGraph => Becomes("begin", v, c, n)
           /\ BeginParsing => Becomes("parse", v, fileVersion[Graph], n)
           /\ EndParsing => Becomes("record", v, c, n)
           /\ SetVersion => Becomes("hierarchy", v, c, n)
           /\ UpdateImport => Becomes("hierarchy", v, c, n + 1)
           /\ EndUpdate => Becomes("imports", v, c, 1)
           /\ LoadImport => loading' = <<Activation(ContentImports[n], "check", 0, 0, 1),
                                         Activation(Graph, "imports", v, c, n + 1)>> \o Tail(loading)
<1> DEFINE v == Top.version
           c == Top.content
           n == Top.next
           new(pc, version, content, next) == Activation(Graph, pc, version, content, next)
<1>0. ASSUME loading # <<>>
      PROVE  /\ \A p \in ActivationPC :
                    /\ [Top EXCEPT !.pc = p] = new(p, v, c, n)
                    /\ [Top EXCEPT !.pc = p, !.version = fileVersion[Graph]]
                          = new(p, fileVersion[Graph], c, n)
                    /\ [Top EXCEPT !.pc = p, !.content = fileVersion[Graph]] = new(p, v, fileVersion[Graph], n)
                    /\ [Top EXCEPT !.pc = p, !.next = 1] = new(p, v, c, 1)
             /\ [Top EXCEPT !.next = n + 1] = new(Top.pc, v, c, n + 1)
  <2>1. /\ Top \in Activations /\ Top.graph = Graph /\ fileVersion[Graph] \in 0 .. MaxVersion
        /\ n + 1 \in Nat \ {0} /\ 1 \in Nat \ {0}
    BY <1>0, TopFacts, Facts
  <2>2. PICK a \in Activations : a = Top
    BY <2>1
  <2>3. /\ \A p \in ActivationPC, w \in 0 .. MaxVersion :
              [a EXCEPT !.pc = p, !.version = w] = Activation(a.graph, p, w, a.content, a.next)
        /\ \A p \in ActivationPC, w \in 0 .. MaxVersion :
              [a EXCEPT !.pc = p, !.content = w] = Activation(a.graph, p, a.version, w, a.next)
        /\ \A p \in ActivationPC, m \in Nat \ {0} :
              [a EXCEPT !.pc = p, !.next = m] = Activation(a.graph, p, a.version, a.content, m)
        /\ \A p \in ActivationPC :
              [a EXCEPT !.pc = p] = Activation(a.graph, p, a.version, a.content, a.next)
        /\ \A m \in Nat \ {0} :
              [a EXCEPT !.next = m] = Activation(a.graph, a.pc, a.version, a.content, m)
    BY Changed
  <2>4. \A p \in ActivationPC :
           /\ [a EXCEPT !.pc = p] = new(p, v, c, n)
           /\ [a EXCEPT !.pc = p, !.version = fileVersion[Graph]] = new(p, fileVersion[Graph], c, n)
    BY ONLY <2>1, <2>2, <2>3
  <2>5. \A p \in ActivationPC :
           [a EXCEPT !.pc = p, !.content = fileVersion[Graph]] = new(p, v, fileVersion[Graph], n)
    BY ONLY <2>1, <2>2, <2>3
  <2>7. \A p \in ActivationPC : [a EXCEPT !.pc = p, !.next = 1] = new(p, v, c, 1)
    BY ONLY <2>1, <2>2, <2>3
  <2>6. [a EXCEPT !.next = n + 1] = new(Top.pc, v, c, n + 1)
    BY ONLY <2>1, <2>2, <2>3
  <2> QED
    BY ONLY <2>2, <2>4, <2>5, <2>6, <2>7
<1> USE DEF ActivationPC, At, Becomes
<1>1. ASSUME CheckVersion
      PROVE  IF fileVersion[Graph] \in record[Graph]
             THEN loading' = Tail(loading)
             ELSE Becomes(IF Recorded(Graph) THEN "drop" ELSE "begin", fileVersion[Graph], c, n)
  <2>1. CASE fileVersion[Graph] \in record[Graph]
    BY <1>1, <2>1 DEF CheckVersion, Returns
  <2>2. CASE fileVersion[Graph] \notin record[Graph]
    <3> DEFINE p == IF Recorded(Graph) THEN "drop" ELSE "begin"
    <3>1. /\ loading # <<>>
          /\ loading' = <<[Top EXCEPT !.pc = p, !.version = fileVersion[Graph]]>> \o Tail(loading)
      BY <1>1, <2>2 DEF CheckVersion
    <3>2. p \in ActivationPC
      OBVIOUS
    <3> HIDE DEF p
    <3>3. [Top EXCEPT !.pc = p, !.version = fileVersion[Graph]] = new(p, fileVersion[Graph], c, n)
      BY <1>0, <3>1, <3>2
    <3> QED
      BY <2>2, <3>1, <3>3 DEF p
  <2> QED
    BY <2>1, <2>2
<1>2. ASSUME DropGraph PROVE Becomes("begin", v, c, n)
  <2>1. loading # <<>> /\ loading' = <<[Top EXCEPT !.pc = "begin"]>> \o Tail(loading)
    BY <1>2 DEF DropGraph, Goes
  <2> QED
    BY <1>0, <2>1
<1>3. ASSUME BeginParsing PROVE Becomes("parse", v, fileVersion[Graph], n)
  <2>1. /\ loading # <<>>
        /\ loading' = <<[Top EXCEPT !.pc = "parse", !.content = fileVersion[Graph]]>> \o Tail(loading)
    BY <1>3 DEF BeginParsing
  <2> QED
    BY <1>0, <2>1
<1>4. ASSUME EndParsing PROVE Becomes("record", v, c, n)
  <2>1. loading # <<>> /\ loading' = <<[Top EXCEPT !.pc = "record"]>> \o Tail(loading)
    BY <1>4 DEF EndParsing, Goes
  <2> QED
    BY <1>0, <2>1
<1>5. ASSUME SetVersion PROVE Becomes("hierarchy", v, c, n)
  <2>1. loading # <<>> /\ loading' = <<[Top EXCEPT !.pc = "hierarchy"]>> \o Tail(loading)
    BY <1>5 DEF SetVersion, Goes
  <2> QED
    BY <1>0, <2>1
<1>6. ASSUME UpdateImport PROVE Becomes("hierarchy", v, c, n + 1)
  <2>1. loading # <<>> /\ Top.pc = "hierarchy" /\ loading' = <<[Top EXCEPT !.next = n + 1]>> \o Tail(loading)
    BY <1>6 DEF UpdateImport
  <2> QED
    BY <1>0, <2>1
<1>7. ASSUME EndUpdate PROVE Becomes("imports", v, c, 1)
  <2>1. loading # <<>> /\ loading' = <<[Top EXCEPT !.pc = "imports", !.next = 1]>> \o Tail(loading)
    BY <1>7 DEF EndUpdate
  <2> QED
    BY <1>0, <2>1
<1>8. ASSUME LoadImport
      PROVE  loading' = <<Activation(ContentImports[n], "check", 0, 0, 1), new("imports", v, c, n + 1)>>
                            \o Tail(loading)
  <2>1. /\ loading # <<>> /\ Top.pc = "imports"
        /\ loading' = <<Call(ContentImports[n]), [Top EXCEPT !.next = n + 1]>> \o Tail(loading)
    BY <1>8 DEF LoadImport
  <2>2. Call(ContentImports[n]) = Activation(ContentImports[n], "check", 0, 0, 1)
    BY DEF Call, Activation
  <2> QED
    BY <1>0, <2>1, <2>2
<1> QED
  BY <1>1, <1>2, <1>3, <1>4, <1>5, <1>6, <1>7, <1>8

\* The innermost activation after such a step, and those below it.
LEMMA BecomesTop ==
    ASSUME TypeOK, loading # <<>>, NEW pc \in ActivationPC, NEW version \in 0 .. MaxVersion,
           NEW content \in 0 .. MaxVersion, NEW next \in Nat \ {0}, Becomes(pc, version, content, next)
    PROVE  /\ loading' \in Seq(Activations) /\ loading' # <<>> /\ DOMAIN loading' = DOMAIN loading
           /\ Top' = loading'[1] /\ 1 \in DOMAIN loading
           /\ Graph' = Graph /\ Top'.graph = Graph /\ Top'.pc = pc /\ Top'.version = version
           /\ Top'.content = content /\ Top'.next = next
           /\ \A k \in DOMAIN loading : k \in Nat \ {0} /\ (k > 1 => loading'[k] = loading[k])
<1> DEFINE r == Activation(Graph, pc, version, content, next)
<1>1. r \in Activations /\ r.graph = Graph /\ r.pc = pc /\ r.version = version /\ r.content = content
      /\ r.next = next
  BY TopFacts DEF Activation, Activations
<1>2. loading' = <<r>> \o Tail(loading) /\ loading \in Seq(Activations)
  BY DEF Becomes, TypeOK
<1> HIDE DEF r
<1>3. /\ loading' \in Seq(Activations) /\ loading' # <<>> /\ DOMAIN loading' = DOMAIN loading
      /\ Head(loading') = r /\ loading'[1] = r /\ 1 \in DOMAIN loading
      /\ \A k \in DOMAIN loading : k \in Nat \ {0} /\ (k > 1 => loading'[k] = loading[k])
  BY <1>1, <1>2, Replaced
<1> QED
  BY <1>1, <1>3 DEF Top, Graph

\* The activations after the call for an import.
LEMMA LoadImportTop ==
    ASSUME TypeOK, Stacked, LoadImport
    PROVE  LET n == Top.next IN
           /\ loading' \in Seq(Activations) /\ loading' # <<>> /\ Top' = loading'[1]
           /\ n \in DOMAIN ContentImports /\ ContentImports[n] \in Ontologies
           /\ Top' = Activation(ContentImports[n], "check", 0, 0, 1)
           /\ loading'[2] = Activation(Graph, "imports", Top.version, Top.content, n + 1)
           /\ \A k \in DOMAIN loading' : k \in Nat \ {0}
                 /\ (k > 2 => k - 1 \in DOMAIN loading /\ loading'[k] = loading[k - 1])
           /\ \A k \in DOMAIN loading : k \in Nat \ {0} /\ k + 1 \in DOMAIN loading'
                 /\ (k > 1 => loading'[k + 1] = loading[k])
           /\ 1 \in DOMAIN loading' /\ 2 \in DOMAIN loading'
<1> DEFINE n == Top.next
           d == Activation(ContentImports[n], "check", 0, 0, 1)
           e == Activation(Graph, "imports", Top.version, Top.content, n + 1)
<1>1. loading # <<>> /\ Top.pc = "imports" /\ n <= Len(ContentImports)
  BY DEF LoadImport, At
<1>2. n \in Nat \ {0} /\ Top \in Activations /\ Top = loading[1] /\ 1 \in DOMAIN loading
  BY <1>1, TopFacts
<1>3. Top.content \in Versions
  BY <1>1, <1>2 DEF Stacked
<1>4. ContentImports \in Seq(Ontologies)
  BY <1>1, <1>3, Facts, TopFacts DEF ContentImports
<1>5. n \in DOMAIN ContentImports /\ ContentImports[n] \in Ontologies
  BY <1>1, <1>2, <1>4, LenProperties
<1>6. d \in Activations
  BY <1>5, Facts DEF Activations, Activation, ActivationPC
<1>7. e \in Activations
  BY <1>1, TopFacts DEF Activations, Activation
<1>8. loading' = <<d, e>> \o Tail(loading) /\ loading \in Seq(Activations)
  BY Effects DEF TypeOK
<1> HIDE DEF d, e
<1>9. LET t == <<d, e>> \o Tail(loading) IN
      /\ t \in Seq(Activations) /\ t # <<>> /\ Head(t) = d /\ t[1] = d /\ t[2] = e
      /\ \A k \in DOMAIN t : k \in Nat \ {0} /\ (k > 2 => k - 1 \in DOMAIN loading /\ t[k] = loading[k - 1])
      /\ \A k \in DOMAIN loading : k \in Nat \ {0} /\ k + 1 \in DOMAIN t /\ (k > 1 => t[k + 1] = loading[k])
      /\ 1 \in DOMAIN t /\ 2 \in DOMAIN t
  BY ONLY <1>1, <1>6, <1>7, <1>8, Piled
<1> HIDE DEF n
<1> QED
  BY <1>5, <1>8, <1>9 DEF Top, n, d, e

-----------------------------------------------------------------------------
(* Types and the stack *)

\* The stack stays in order when the innermost activation goes on, ...
LEMMA StackedBecomes ==
    ASSUME TypeOK, Stacked, loading # <<>>, fileVersion' = fileVersion,
           NEW pc \in ActivationPC, NEW version \in 0 .. MaxVersion, NEW content \in 0 .. MaxVersion,
           NEW next \in Nat \ {0}, Becomes(pc, version, content, next),
           pc # "check" => version \in Versions,
           pc \notin {"check", "drop", "begin"} => content \in Versions /\ version <= content,
           version <= fileVersion[Graph]
    PROVE  loading' \in Seq(Activations) /\ Stacked'
<1>1. /\ loading' \in Seq(Activations) /\ DOMAIN loading' = DOMAIN loading
      /\ loading'[1].graph = Graph /\ loading'[1].pc = pc /\ loading'[1].version = version
      /\ loading'[1].content = content
      /\ \A k \in DOMAIN loading : k \in Nat \ {0} /\ (k > 1 => loading'[k] = loading[k])
  BY BecomesTop
<1>2. \A k \in DOMAIN loading : k = 1 \/ (k > 1 /\ loading'[k] = loading[k])
  BY <1>1
<1> QED
  BY <1>1, <1>2 DEF Stacked

\* ... when it returns ...
LEMMA StackedPopped ==
    ASSUME TypeOK, Stacked, loading # <<>>, fileVersion' = fileVersion, loading' = Tail(loading)
    PROVE  /\ loading' \in Seq(Activations) /\ Stacked'
           /\ \A k \in DOMAIN loading' : k \in Nat \ {0} /\ k + 1 \in DOMAIN loading
                 /\ loading'[k] = loading[k + 1] /\ loading'[k].pc = "imports"
           /\ \A k \in DOMAIN loading : k = 1
                 \/ (k \in Nat /\ k > 1 /\ k - 1 \in DOMAIN loading' /\ loading'[k - 1] = loading[k])
           /\ loading' # <<>> => Top' = loading[2] /\ 2 \in DOMAIN loading /\ Top'.pc = "imports"
<1>1. loading \in Seq(Activations)
  BY DEF TypeOK
<1>2. /\ loading' \in Seq(Activations)
      /\ \A k \in DOMAIN loading' : k \in Nat \ {0} /\ k + 1 \in DOMAIN loading /\ loading'[k] = loading[k + 1]
      /\ \A k \in DOMAIN loading : k \in Nat \ {0}
            /\ (k > 1 => k - 1 \in DOMAIN loading' /\ loading'[k - 1] = loading[k])
      /\ loading' # <<>> => Head(loading') = loading[2] /\ 2 \in DOMAIN loading
  BY <1>1, Popped
<1>3. \A k \in DOMAIN loading' : loading[k + 1].pc = "imports"
  BY <1>2 DEF Stacked
<1>4. loading' # <<>> => Top' = loading[2] /\ 2 \in DOMAIN loading /\ Top'.pc = "imports"
  <2>1. 2 \in DOMAIN loading => loading[2].pc = "imports"
    BY DEF Stacked
  <2> QED
    BY <1>2, <2>1 DEF Top
<1>5. Stacked'
  BY <1>2, <1>3 DEF Stacked
<1> QED
  BY <1>2, <1>3, <1>4, <1>5

\* ... and when it loads an import.
LEMMA StackedImport ==
    ASSUME TypeOK, Stacked, LoadImport
    PROVE  loading' \in Seq(Activations) /\ Stacked'
<1> DEFINE n == Top.next
<1>1. /\ loading' \in Seq(Activations) /\ Top' = loading'[1]
      /\ ContentImports[n] \in Ontologies
      /\ Top' = Activation(ContentImports[n], "check", 0, 0, 1)
      /\ loading'[2] = Activation(Graph, "imports", Top.version, Top.content, n + 1)
      /\ \A k \in DOMAIN loading' : k \in Nat \ {0}
            /\ (k > 2 => k - 1 \in DOMAIN loading /\ loading'[k] = loading[k - 1])
  BY LoadImportTop
<1>2. loading # <<>> /\ Top.pc = "imports" /\ fileVersion' = fileVersion
  BY DEF LoadImport, At
<1>3. Top = loading[1] /\ 1 \in DOMAIN loading /\ Top.graph = Graph
  BY <1>2, TopFacts
<1>4. Top.version \in Versions /\ Top.content \in Versions /\ Top.version <= Top.content
      /\ Top.version <= fileVersion[Graph]
  BY <1>2, <1>3 DEF Stacked
<1>5. fileVersion[ContentImports[n]] \in Versions
  BY <1>1 DEF TypeOK
<1> HIDE DEF n
<1>6. ASSUME NEW k \in DOMAIN loading'
      PROVE  LET a == loading'[k] IN
             /\ k > 1 => a.pc = "imports"
             /\ a.pc # "check" => a.version \in Versions
             /\ a.pc \notin {"check", "drop", "begin"} => a.content \in Versions /\ a.version <= a.content
             /\ a.version <= fileVersion'[a.graph]
  <2>1. CASE k = 1
    <3>1. loading'[k].graph = ContentImports[Top.next] /\ loading'[k].pc = "check" /\ loading'[k].version = 0
      <4>1. \A g : LET d == Activation(g, "check", 0, 0, 1) IN d.graph = g /\ d.pc = "check" /\ d.version = 0
        BY DEF Activation
      <4>2. loading'[1] = Activation(ContentImports[n], "check", 0, 0, 1)
        BY <1>1
      <4>3. loading'[k] = Activation(ContentImports[Top.next], "check", 0, 0, 1)
        BY <2>1, <4>2 DEF n
      <4> QED
        BY <4>1, <4>3
    <3>2. 0 <= fileVersion'[ContentImports[Top.next]]
      BY <1>2, <1>5, Facts DEF n
    <3> QED
      BY <2>1, <3>1, <3>2
  <2>2. CASE k = 2
    BY <1>1, <1>2, <1>4, <2>2 DEF Activation
  <2>3. CASE k > 2
    <3>1. k - 1 \in DOMAIN loading /\ k - 1 > 1 /\ loading'[k] = loading[k - 1]
      BY <1>1, <2>3
    <3> QED
      BY <1>2, <3>1 DEF Stacked
  <2> QED
    BY <1>1, <2>1, <2>2, <2>3
<1> QED
  BY <1>1, <1>6 DEF Stacked

\* The stack of activations stays in order, and the content of a file is never older
\* than the version that was read for it.
LEMMA StackedStep ==
    ASSUME TypeOK, Stacked, [Next]_vars
    PROVE  loading' \in Seq(Activations) /\ Stacked'
<1> DEFINE v == Top.version
           c == Top.content
           n == Top.next
<1>0. ASSUME loading # <<>>
      PROVE  /\ v \in 0 .. MaxVersion /\ c \in 0 .. MaxVersion /\ n \in Nat \ {0} /\ n + 1 \in Nat \ {0}
             /\ fileVersion[Graph] \in Versions /\ fileVersion[Graph] \in 0 .. MaxVersion
             /\ Top.pc # "check" => v \in Versions
             /\ Top.pc \notin {"check", "drop", "begin"} => c \in Versions /\ v <= c
             /\ v <= fileVersion[Graph]
  <2>1. Top = loading[1] /\ 1 \in DOMAIN loading /\ Top.graph = Graph
    BY <1>0, TopFacts
  <2>2. /\ v \in 0 .. MaxVersion /\ c \in 0 .. MaxVersion /\ n \in Nat \ {0} /\ n + 1 \in Nat \ {0}
        /\ fileVersion[Graph] \in Versions /\ fileVersion[Graph] \in 0 .. MaxVersion
    BY <1>0, TopFacts, Facts
  <2> QED
    BY <2>1, <2>2 DEF Stacked
<1> USE DEF ActivationPC
<1>1. CASE CheckVersion
  <2>1. loading # <<>> /\ fileVersion' = fileVersion
    BY <1>1 DEF CheckVersion, At
  <2>2. CASE fileVersion[Graph] \in record[Graph]
    BY <1>1, <2>1, <2>2, Effects, StackedPopped
  <2>3. CASE fileVersion[Graph] \notin record[Graph]
    <3>1. PICK p \in {"drop", "begin"} : Becomes(p, fileVersion[Graph], c, n)
      BY <1>1, <2>3, Effects
    <3>2. fileVersion[Graph] <= fileVersion[Graph]
      BY <1>0, <2>1, Facts
    <3> HIDE DEF v, c, n
    <3> QED
      BY <1>0, <2>1, <3>1, <3>2, StackedBecomes
  <2> QED
    BY <2>2, <2>3
<1>2. CASE DropGraph
  <2>1. Becomes("begin", v, c, n) /\ loading # <<>> /\ Top.pc = "drop" /\ fileVersion' = fileVersion
    BY <1>2, Effects DEF DropGraph, At
  <2> HIDE DEF v, c, n
  <2> QED
    BY <1>0, <2>1, StackedBecomes
<1>3. CASE BeginParsing
  <2>1. /\ Becomes("parse", v, fileVersion[Graph], n) /\ loading # <<>> /\ Top.pc = "begin"
        /\ fileVersion' = fileVersion
    BY <1>3, Effects DEF BeginParsing, At
  <2> HIDE DEF v, c, n
  <2> QED
    BY <1>0, <2>1, StackedBecomes
<1>4. CASE EndParsing
  <2>1. Becomes("record", v, c, n) /\ loading # <<>> /\ Top.pc = "parse" /\ fileVersion' = fileVersion
    BY <1>4, Effects DEF EndParsing, At
  <2> HIDE DEF v, c, n
  <2> QED
    BY <1>0, <2>1, StackedBecomes
<1>5. CASE SetVersion
  <2>1. Becomes("hierarchy", v, c, n) /\ loading # <<>> /\ Top.pc = "record" /\ fileVersion' = fileVersion
    BY <1>5, Effects DEF SetVersion, At
  <2> HIDE DEF v, c, n
  <2> QED
    BY <1>0, <2>1, StackedBecomes
<1>6. CASE UpdateImport
  <2>1. /\ Becomes("hierarchy", v, c, n + 1) /\ loading # <<>> /\ Top.pc = "hierarchy"
        /\ fileVersion' = fileVersion
    BY <1>6, Effects DEF UpdateImport, At
  <2> HIDE DEF v, c, n
  <2> QED
    BY <1>0, <2>1, StackedBecomes
<1>7. CASE EndUpdate
  <2>1. Becomes("imports", v, c, 1) /\ loading # <<>> /\ Top.pc = "hierarchy" /\ fileVersion' = fileVersion
    BY <1>7, Effects DEF EndUpdate, At
  <2> HIDE DEF v, c, n
  <2> QED
    BY <1>0, <2>1, StackedBecomes
<1>8. CASE LoadImport
  BY <1>8, StackedImport
<1>9. CASE FailToParse \/ LoadReturns
  <2>1. loading # <<>> /\ loading' = Tail(loading) /\ fileVersion' = fileVersion
    BY <1>9 DEF FailToParse, LoadReturns, At, Returns
  <2> QED
    BY <2>1, StackedPopped
<1>10. CASE LoadSource
  <2>1. /\ loading' = <<Call(Head(sources))>> /\ sources # <<>> /\ sources \in Seq(Ontologies)
        /\ fileVersion' = fileVersion
    BY <1>10 DEF LoadSource, TypeOK
  <2>2. Head(sources) \in Ontologies
    BY <2>1, HeadTailProperties
  <2>3. Call(Head(sources)) \in Activations
    BY <2>2, Facts DEF Call, Activations
  <2>4. fileVersion[Head(sources)] \in Versions
    BY <2>2 DEF TypeOK
  <2>5. /\ loading' \in Seq(Activations) /\ loading'[1] = Call(Head(sources))
        /\ \A k \in DOMAIN loading' : k = 1
    BY <2>1, <2>3
  <2>6. /\ loading'[1].graph = Head(sources) /\ loading'[1].pc = "check" /\ loading'[1].version = 0
    BY <2>5 DEF Call
  <2>7. 0 <= fileVersion[Head(sources)]
    BY <2>4, Facts
  <2> QED
    BY <2>1, <2>5, <2>6, <2>7 DEF Stacked
<1>11. CASE Restart
  <2>1. loading' = <<>>
    BY <1>11 DEF Restart
  <2> QED
    BY <2>1 DEF Stacked
<1>12. ASSUME NEW g \in Ontologies, FileChanges(g) PROVE loading' \in Seq(Activations) /\ Stacked'
  <2>1. loading' = loading /\ fileVersion' = [fileVersion EXCEPT ![g] = fileVersion[g] + 1]
    BY <1>12 DEF FileChanges
  <2>2. loading \in Seq(Activations) /\ \A k \in DOMAIN loading : loading[k] \in Activations
    BY LenProperties DEF TypeOK
  <2>3. \A h \in Ontologies : \A w \in 0 .. MaxVersion : w <= fileVersion[h] => w <= fileVersion'[h]
    BY <2>1, Facts DEF TypeOK
  <2> QED
    BY <2>1, <2>2, <2>3, Changed DEF Stacked
<1>13. CASE ReadImport
  BY <1>13 DEF ReadImport, Stacked, TypeOK
<1>14. CASE UNCHANGED vars
  BY <1>14 DEF vars, Stacked, TypeOK
<1> QED
  BY <1>1, <1>2, <1>3, <1>4, <1>5, <1>6, <1>7, <1>8, <1>9, <1>10, <1>11, <1>12, <1>13, <1>14
     DEF Next, loadFile

\* What the steps do to the database and the files.
LEMMA Frame ==
    ASSUME [Next]_vars
    PROVE  /\ triples' = triples \/ DropGraph \/ BeginParsing \/ EndParsing
           /\ record' = record \/ DropGraph \/ SetVersion
           /\ fileVersion' = fileVersion \/ \E g \in Ontologies : FileChanges(g)
           /\ sources' = sources \/ Restart \/ LoadSource
           /\ unread' = unread \/ Restart \/ ReadImport
           /\ UNCHANGED hierarchy \/ ReadImport \/ UpdateImport \/ DropGraph \/ Restart
           /\ loading' = loading \/ loadFile \/ LoadSource \/ Restart
           /\ windows \subseteq windows'
BY DEF Next, loadFile, CheckVersion, DropGraph, BeginParsing, EndParsing, FailToParse, SetVersion,
       UpdateImport, EndUpdate, LoadImport, LoadReturns, LoadSource, Restart, FileChanges, ReadImport,
       vars, database, hierarchy

\* Types are kept, with the stack in order.
LEMMA TypeStep == ASSUME TypeOK, Stacked, [Next]_vars PROVE TypeOK' /\ Stacked'
<1>1. loading' \in Seq(Activations) /\ Stacked'
  BY StackedStep
<1>2. fileVersion' \in [Ontologies -> Versions]
  <2>1. ASSUME NEW g \in Ontologies, FileChanges(g) PROVE fileVersion' \in [Ontologies -> Versions]
    <3>1. fileVersion[g] + 1 \in Versions /\ fileVersion' = [fileVersion EXCEPT ![g] = fileVersion[g] + 1]
      BY <2>1, Facts DEF FileChanges, TypeOK
    <3> QED
      BY <3>1 DEF TypeOK
  <2> QED
    BY <2>1, Frame DEF TypeOK
<1>3. triples' \subseteq Triples
  <2>1. ASSUME loading # <<>>
        PROVE  /\ Stored(Graph, fileVersion[Graph], 1) \in Triples
               /\ Top.pc = "parse" => Stored(Graph, Top.content, 2) \in Triples
    <3>1. Graph \in Ontologies /\ fileVersion[Graph] \in Versions /\ Top = loading[1] /\ 1 \in DOMAIN loading
      BY <2>1, TopFacts
    <3>2. Top.pc = "parse" => Top.content \in Versions
      BY <3>1 DEF Stacked
    <3> QED
      BY <3>1, <3>2 DEF Stored, Triples, Batches
  <2>2. CASE DropGraph
    BY <2>2 DEF DropGraph, TypeOK
  <2>3. CASE BeginParsing
    BY <2>1, <2>3 DEF BeginParsing, At, TypeOK
  <2>4. CASE EndParsing
    BY <2>1, <2>4 DEF EndParsing, At, TypeOK
  <2> QED
    BY <2>2, <2>3, <2>4, Frame DEF TypeOK
<1>4. record' \in [Ontologies -> SUBSET Versions]
  <2>1. CASE DropGraph
    BY <2>1, TopFacts DEF DropGraph, At, TypeOK
  <2>2. CASE SetVersion
    <3>1. /\ loading # <<>> /\ Top.pc = "record"
          /\ record' = [record EXCEPT ![Graph] = record[Graph] \cup {Top.version}]
      BY <2>2 DEF SetVersion, At
    <3>2. Graph \in Ontologies /\ Top = loading[1] /\ 1 \in DOMAIN loading
      BY <3>1, TopFacts
    <3>3. Top.version \in Versions
      BY <3>1, <3>2 DEF Stacked
    <3> QED
      BY <3>1, <3>2, <3>3 DEF TypeOK
  <2> QED
    BY <2>1, <2>2, Frame DEF TypeOK
<1>5. sources' \in Seq(Ontologies)
  <2>1. CASE LoadSource
    BY <2>1, HeadTailProperties DEF LoadSource, TypeOK
  <2> QED
    BY <2>1, Frame, OntologiesAssumption DEF Restart, TypeOK
<1>6. unread' \subseteq Ontologies \X Ontologies
  BY Frame DEF Restart, ReadImport, StoredPairs, TypeOK
<1> QED
  BY <1>1, <1>2, <1>3, <1>4, <1>5, <1>6 DEF TypeOK

-----------------------------------------------------------------------------
(* What is recorded is complete *)

\* A version that is recorded is that of all triples of the graph, ...
Complete(g, v) ==
    \E w \in v .. MaxVersion :
        /\ \A b \in Batches : Stored(g, w, b) \in triples
        /\ "interrupted" \notin windows => \A t \in triples : t.graph = g => t.version = w

\* ... and stays so while they stay.
LEMMA StaysComplete ==
    ASSUME TypeOK, NEW g \in Ontologies, NEW v \in Versions, Complete(g, v), windows \subseteq windows',
           \A t \in triples : t.graph = g => t \in triples',
           \A t \in triples' : t.graph = g => t \in triples
    PROVE  Complete(g, v)'
<1>1. PICK w \in v .. MaxVersion :
         /\ \A b \in Batches : Stored(g, w, b) \in triples
         /\ "interrupted" \notin windows => \A t \in triples : t.graph = g => t.version = w
  BY DEF Complete
<1>2. \A b \in Batches : Stored(g, w, b) \in triples'
  BY <1>1 DEF Stored
<1>3. "interrupted" \notin windows' => \A t \in triples' : t.graph = g => t.version = w
  BY <1>1
<1> QED
  BY <1>2, <1>3 DEF Complete

\* Every step keeps what is recorded complete.
LEMMA CompleteStep == ASSUME RecordInv, [Next]_vars PROVE RecordedIsComplete'
<1>0. TypeOK /\ Stacked /\ Parsed /\ \A g \in Ontologies : \A v \in record[g] : Complete(g, v)
  BY DEF RecordInv, RecordedIsComplete, Complete
<1>1. windows \subseteq windows' /\ TypeOK'
  BY <1>0, Frame, TypeStep
<1> SUFFICES ASSUME NEW g \in Ontologies, NEW v \in record'[g] PROVE Complete(g, v)'
  BY DEF RecordedIsComplete, Complete, Stored, Batches
<1>2. v \in Versions
  BY <1>1 DEF TypeOK
<1>3. CASE DropGraph
  <2>1. /\ loading # <<>> /\ triples' = {t \in triples : t.graph # Graph}
        /\ record' = [record EXCEPT ![Graph] = {}]
    BY <1>3 DEF DropGraph, At
  <2>2. g # Graph /\ v \in record[g]
    BY <1>0, <2>1, TopFacts DEF TypeOK
  <2>3. \A t \in triples : t.graph = g => t \in triples'
    BY <2>1, <2>2
  <2> QED
    BY <1>0, <1>1, <1>2, <2>1, <2>2, <2>3, StaysComplete
<1>4. CASE BeginParsing \/ EndParsing
  <2>1. /\ loading # <<>> /\ Top.pc \in {"begin", "parse"} /\ record' = record
        /\ \E w \in Versions, b \in Batches : triples' = triples \cup {Stored(Graph, w, b)}
    <3>1. loading # <<>> /\ Top.pc \in {"begin", "parse"} /\ record' = record
      BY <1>4 DEF BeginParsing, EndParsing, At
    <3>2. fileVersion[Graph] \in Versions /\ (Top.pc = "parse" => Top.content \in Versions)
      BY <1>0, <3>1, TopFacts DEF Stacked
    <3> QED
      BY <1>4, <3>1, <3>2 DEF BeginParsing, EndParsing, Batches, At
  <2>2. g # Graph
    BY <1>0, <2>1 DEF Parsed, Recorded
  <2>3. \A t \in triples' : t.graph = g => t \in triples
    BY <2>1, <2>2 DEF Stored
  <2>4. \A t \in triples : t \in triples'
    BY <2>1
  <2> QED
    BY <1>0, <1>1, <1>2, <2>1, <2>3, <2>4, StaysComplete
<1>5. CASE SetVersion
  <2>1. /\ loading # <<>> /\ Top.pc = "record" /\ UNCHANGED <<triples, windows>>
        /\ record' = [record EXCEPT ![Graph] = record[Graph] \cup {Top.version}]
    BY <1>5 DEF SetVersion, At
  <2>2. Graph \in Ontologies /\ Top = loading[1] /\ 1 \in DOMAIN loading /\ Top.graph = Graph
    BY <1>0, <2>1, TopFacts
  <2>3. CASE g # Graph
    <3>1. v \in record[g]
      BY <1>0, <2>1, <2>2, <2>3 DEF TypeOK
    <3> QED
      BY <1>0, <1>1, <1>2, <2>1, <3>1, StaysComplete
  <2>4. CASE g = Graph
    <3>1. v = Top.version /\ ~Recorded(g)
      BY <1>0, <2>1, <2>2, <2>4 DEF TypeOK, Parsed, Recorded
    <3>2. Top.content \in v .. MaxVersion
      BY <1>0, <2>1, <2>2, <3>1, Facts DEF Stacked
    <3>3. \A b \in Batches : Stored(g, Top.content, b) \in triples'
      BY <1>0, <2>1, <2>4 DEF Parsed, Batches
    <3>4. "interrupted" \notin windows' => \A t \in triples' : t.graph = g => t.version = Top.content
      BY <1>0, <2>1, <3>1 DEF Parsed
    <3> QED
      BY <3>2, <3>3, <3>4 DEF Complete
  <2> QED
    BY <2>3, <2>4
<1>6. CASE triples' = triples /\ record' = record
  BY <1>0, <1>1, <1>2, <1>6, StaysComplete
<1> QED
  BY <1>3, <1>4, <1>5, <1>6, Frame

\* The pc of the innermost activation after a step of it that does not parse.
LEMMA QuietTop ==
    ASSUME TypeOK, Stacked, loading # <<>>,
           \/ CheckVersion /\ fileVersion[Graph] \in record[Graph]
           \/ FailToParse \/ UpdateImport \/ EndUpdate \/ LoadImport \/ LoadReturns
    PROVE  loading' # <<>> => Top'.pc \in {"check", "hierarchy", "imports"}
<1> USE DEF ActivationPC
<1>1. CASE UpdateImport \/ EndUpdate
  <2>1. PICK p \in {"hierarchy", "imports"}, m \in Nat \ {0} : Becomes(p, Top.version, Top.content, m)
    <3>1. 1 \in Nat \ {0} /\ Top.next + 1 \in Nat \ {0}
      BY TopFacts
    <3> QED
      BY <1>1, <3>1, Effects
  <2>2. Top.version \in 0 .. MaxVersion /\ Top.content \in 0 .. MaxVersion
    BY TopFacts
  <2> QED
    BY <2>1, <2>2, BecomesTop
<1>2. CASE LoadImport
  <2>1. \A g : Activation(g, "check", 0, 0, 1).pc = "check"
    BY DEF Activation
  <2> QED
    BY <1>2, <2>1, LoadImportTop
<1>3. CASE (CheckVersion /\ fileVersion[Graph] \in record[Graph]) \/ FailToParse \/ LoadReturns
  <2>1. loading' = Tail(loading) /\ fileVersion' = fileVersion
    BY <1>3, Effects DEF CheckVersion, FailToParse, LoadReturns, Returns
  <2> QED
    BY <2>1, StackedPopped
<1> QED
  BY <1>1, <1>2, <1>3

\* Every step keeps the triples without a record those of the innermost activation.
LEMMA ParsedStep == ASSUME TypeOK, Stacked, Parsed, [Next]_vars PROVE Parsed'
<1> DEFINE v == Top.version
           c == Top.content
           n == Top.next
           Known(t) == \/ Recorded(t.graph)
                       \/ /\ loading # <<>> /\ Top.graph = t.graph
                          /\ Top.pc \in {"parse", "record"} /\ Top.content = t.version
<1> USE DEF ActivationPC
<1>0. ASSUME loading # <<>>
      PROVE  /\ v \in 0 .. MaxVersion /\ c \in 0 .. MaxVersion /\ n \in Nat \ {0}
             /\ Graph \in Ontologies /\ fileVersion[Graph] \in 0 .. MaxVersion /\ Top.graph = Graph
  BY <1>0, TopFacts, Facts
<1>1. ASSUME record' = record, triples' = triples, windows \subseteq windows',
             loading' # <<>> => Top'.pc \in {"check", "drop", "hierarchy", "imports"}
                                \/ (Top'.pc = "begin" /\ ~Recorded(Top'.graph)),
             loading # <<>> => Top.pc \notin {"parse", "record"} \/ "interrupted" \in windows'
      PROVE  Parsed'
  <2>1. ASSUME "interrupted" \notin windows', NEW t \in triples' PROVE Recorded(t.graph)'
    BY <1>1, <2>1 DEF Parsed, Recorded
  <2> QED
    BY <1>1, <2>1 DEF Parsed, Recorded, Graph
<1>2. CASE CheckVersion
  <2>1. /\ loading # <<>> /\ Top.pc = "check" /\ UNCHANGED <<record, triples, windows>>
    BY <1>2 DEF CheckVersion, At, database
  <2>2. CASE fileVersion[Graph] \in record[Graph]
    BY <1>1, <1>2, <2>1, <2>2, QuietTop
  <2>3. CASE fileVersion[Graph] \notin record[Graph]
    <3>1. Becomes(IF Recorded(Graph) THEN "drop" ELSE "begin", fileVersion[Graph], c, n)
      BY <1>2, <2>3, Effects
    <3> HIDE DEF c, n
    <3>2. Top'.graph = Graph /\ Top'.pc = IF Recorded(Graph) THEN "drop" ELSE "begin"
      BY <1>0, <2>1, <3>1, BecomesTop
    <3> QED
      BY <1>1, <2>1, <3>2
  <2> QED
    BY <2>2, <2>3
<1>3. CASE DropGraph
  <2>1. /\ loading # <<>> /\ Top.pc = "drop" /\ triples' = {t \in triples : t.graph # Graph}
        /\ record' = [record EXCEPT ![Graph] = {}] /\ windows \subseteq windows'
        /\ Becomes("begin", v, c, n)
    BY <1>3, Effects DEF DropGraph, At
  <2> HIDE DEF v, c, n
  <2>2. loading' # <<>> /\ Graph' = Graph /\ Top'.pc = "begin"
    BY <1>0, <2>1, BecomesTop
  <2>3. ~Recorded(Graph)' /\ \A g \in Ontologies \ {Graph} : Recorded(g) => Recorded(g)'
    BY <1>0, <2>1, <2>2 DEF TypeOK, Recorded
  <2>4. ASSUME "interrupted" \notin windows', NEW t \in triples' PROVE Recorded(t.graph)'
    <3>1. t \in triples /\ t.graph # Graph /\ t.graph \in Ontologies
      BY <2>1, <2>4 DEF TypeOK, Triples
    <3>2. Recorded(t.graph)
      BY <2>1, <2>4, <3>1 DEF Parsed
    <3> QED
      BY <2>3, <3>1, <3>2
  <2> QED
    BY <2>2, <2>3, <2>4 DEF Parsed
<1>4. CASE BeginParsing
  <2> DEFINE w == fileVersion[Graph]
  <2>1. /\ loading # <<>> /\ Top.pc = "begin" /\ triples' = triples \cup {Stored(Graph, w, 1)}
        /\ UNCHANGED <<record, windows>> /\ Becomes("parse", v, w, n)
    BY <1>4, Effects DEF BeginParsing, At
  <2>2. w \in 0 .. MaxVersion
    BY <1>0, <2>1
  <2> HIDE DEF v, n, w
  <2>3. loading' # <<>> /\ Graph' = Graph /\ Top'.graph = Graph /\ Top'.pc = "parse" /\ Top'.content = w
    BY <1>0, <2>1, <2>2, BecomesTop
  <2>4. ~Recorded(Graph)' /\ Stored(Graph', Top'.content, 1) \in triples'
    BY <2>1, <2>3 DEF Parsed, Recorded
  <2>5. ASSUME "interrupted" \notin windows', NEW t \in triples'
        PROVE  Recorded(t.graph)' \/ (Top'.graph = t.graph /\ Top'.content = t.version)
    <3>1. CASE t \in triples
      BY <2>1, <2>5, <3>1 DEF Parsed, Recorded
    <3>2. CASE t = Stored(Graph, w, 1)
      BY <2>3, <3>2 DEF Stored
    <3> QED
      BY <2>1, <3>1, <3>2
  <2> QED
    BY <2>3, <2>4, <2>5 DEF Parsed, Stored
<1>5. CASE EndParsing
  <2>1. /\ loading # <<>> /\ Top.pc = "parse" /\ triples' = triples \cup {Stored(Graph, c, 2)}
        /\ UNCHANGED <<record, windows>> /\ Becomes("record", v, c, n)
    BY <1>5, Effects DEF EndParsing, At
  <2>2. Stored(Graph, c, 1) \in triples /\ ~Recorded(Graph)
    BY <2>1 DEF Parsed
  <2>3. ASSUME "interrupted" \notin windows, NEW t \in triples
        PROVE  Recorded(t.graph) \/ (Graph = t.graph /\ c = t.version)
    BY <1>0, <2>1, <2>3 DEF Parsed
  <2> HIDE DEF v, c, n
  <2>4. loading' # <<>> /\ Graph' = Graph /\ Top'.graph = Graph /\ Top'.pc = "record" /\ Top'.content = c
    BY <1>0, <2>1, BecomesTop
  <2>5. /\ ~Recorded(Graph)' /\ Stored(Graph', Top'.content, 1) \in triples'
        /\ Stored(Graph', Top'.content, 2) \in triples'
    BY <2>1, <2>2, <2>4 DEF Recorded
  <2>6. ASSUME "interrupted" \notin windows', NEW t \in triples'
        PROVE  Recorded(t.graph)' \/ (Top'.graph = t.graph /\ Top'.content = t.version)
    <3>1. CASE t \in triples
      BY <2>1, <2>3, <2>4, <2>6, <3>1 DEF Recorded
    <3>2. CASE t = Stored(Graph, c, 2)
      BY <2>4, <3>2 DEF Stored
    <3> QED
      BY <2>1, <3>1, <3>2
  <2> QED
    BY <2>4, <2>5, <2>6 DEF Parsed, Stored
<1>6. CASE SetVersion
  <2>1. /\ loading # <<>> /\ Top.pc = "record" /\ UNCHANGED <<triples, windows>>
        /\ record' = [record EXCEPT ![Graph] = record[Graph] \cup {v}] /\ Becomes("hierarchy", v, c, n)
    BY <1>6, Effects DEF SetVersion, At
  <2>2. ASSUME "interrupted" \notin windows', NEW t \in triples' PROVE Recorded(t.graph)'
    <3>1. t.graph \in Ontologies /\ (Recorded(t.graph) \/ t.graph = Graph)
      BY <1>0, <2>1, <2>2 DEF Parsed, TypeOK, Triples
    <3> QED
      BY <1>0, <2>1, <3>1 DEF Recorded, TypeOK
  <2> HIDE DEF v, c, n
  <2>3. Top'.pc = "hierarchy"
    BY <1>0, <2>1, BecomesTop
  <2> QED
    BY <2>2, <2>3 DEF Parsed
<1>7. CASE FailToParse \/ UpdateImport \/ EndUpdate \/ LoadImport \/ LoadReturns
  <2>1. /\ loading # <<>> /\ UNCHANGED <<record, triples>> /\ windows \subseteq windows'
        /\ Top.pc \in {"hierarchy", "imports"} \/ "interrupted" \in windows'
    BY <1>7 DEF FailToParse, UpdateImport, EndUpdate, LoadImport, LoadReturns, At, database
  <2> QED
    BY <1>1, <1>7, <2>1, QuietTop
<1>8. CASE LoadSource
  <2>1. loading = <<>> /\ loading' = <<Call(Head(sources))>> /\ UNCHANGED <<record, triples, windows>>
    BY <1>8 DEF LoadSource, database
  <2>2. Top'.pc = "check"
    BY <2>1 DEF Top, Call
  <2> QED
    BY <1>1, <2>1, <2>2
<1>9. CASE Restart
  <2>1. /\ loading' = <<>> /\ UNCHANGED <<record, triples>> /\ windows \subseteq windows'
        /\ loading # <<>> => "interrupted" \in windows'
    BY <1>9 DEF Restart, database
  <2> QED
    BY <1>1, <2>1
<1>10. ASSUME record' = record, triples' = triples, loading' = loading, windows \subseteq windows'
       PROVE  Parsed'
  <2>1. Top' = Top /\ Graph' = Graph /\ \A g : Recorded(g)' <=> Recorded(g)
    BY <1>10 DEF Top, Graph, Recorded
  <2> QED
    BY <1>10, <2>1 DEF Parsed
<1>11. ASSUME NEW g \in Ontologies, FileChanges(g) PROVE Parsed'
  BY <1>10, <1>11 DEF FileChanges, database
<1>12. CASE ReadImport \/ UNCHANGED vars
  BY <1>10, <1>12 DEF ReadImport, vars, database
<1> QED
  BY <1>2, <1>3, <1>4, <1>5, <1>6, <1>7, <1>8, <1>9, <1>11, <1>12 DEF Next, loadFile

\* The invariant behind RecordedIsComplete is kept ...
LEMMA RecordStep == RecordInv /\ [Next]_vars => RecordInv'
BY TypeStep, ParsedStep, CompleteStep DEF RecordInv

\* ... and holds at the start.
LEMMA InitRecord == Init => RecordInv
<1> SUFFICES ASSUME Init PROVE RecordInv
  OBVIOUS
<1>1. \A g \in Ontologies : record[g] = {}
  BY DEF Init
<1>2. TypeOK
  BY Facts, OntologiesAssumption DEF Init, TypeOK
<1>3. Stacked /\ Parsed
  BY DEF Init, Stacked, Parsed
<1>4. RecordedIsComplete
  BY <1>1 DEF RecordedIsComplete
<1> QED
  BY <1>2, <1>3, <1>4 DEF RecordInv

\* The variables have their types, the activations of loadFile and what initialize() has
\* yet to read included.
THEOREM TypeCorrect == Spec => []TypeOK
<1>1. RecordInv => TypeOK
  BY DEF RecordInv
<1> QED
  BY InitRecord, RecordStep, <1>1, PTL DEF Spec

\* A graph with a version record holds all batches of a version that is not older, and
\* nothing else unless a load was interrupted: wherever the program is stopped, however
\* often, and whatever changes in the files meanwhile.
THEOREM RecordSafe == Spec => []RecordedIsComplete
<1>1. RecordInv => RecordedIsComplete
  BY DEF RecordInv
<1> QED
  BY InitRecord, RecordStep, <1>1, PTL DEF Spec

-----------------------------------------------------------------------------
(* What is imported is loaded *)

\* The stored imports of a graph depend on its own triples.
LEMMA SameImports ==
    ASSUME NEW g, \A t : t.graph = g => (t \in triples <=> t \in triples')
    PROVE  StoredImports(g)' = StoredImports(g)
<1>1. {u \in triples : u.graph = g /\ u.batch = 2} = {u \in triples' : u.graph = g /\ u.batch = 2}
  OBVIOUS
<1> QED
  BY <1>1 DEF StoredImports

\* A stored import is an import statement of a version that is stored.
LEMMA ImportsOf ==
    ASSUME TypeOK, NEW g \in Ontologies, NEW i \in StoredImports(g)
    PROVE  /\ i \in Ontologies
           /\ \E t \in triples : /\ t.graph = g /\ t.version \in Versions
                                 /\ \E n \in DOMAIN Imports[g][t.version] : Imports[g][t.version][n] = i
<1>1. PICK t \in triples : t.graph = g /\ i \in Range(Imports[t.graph][t.version])
  BY DEF StoredImports
<1>2. t.version \in Versions
  BY DEF TypeOK, Triples
<1>3. PICK n \in DOMAIN Imports[g][t.version] : Imports[g][t.version][n] = i
  BY <1>1 DEF Range
<1>4. Imports[g][t.version] \in Seq(Ontologies)
  BY <1>2, Facts
<1>5. i \in Ontologies
  BY <1>3, <1>4, LenProperties
<1> QED
  BY <1>1, <1>2, <1>3, <1>5

\* A step of the innermost activation that leaves it on the stack.
LEMMA StaysPending ==
    ASSUME TypeOK, loading # <<>>, NEW g, NEW i,
           NEW pc \in ActivationPC, NEW version \in 0 .. MaxVersion, NEW content \in 0 .. MaxVersion,
           NEW next \in Nat \ {0}, Becomes(pc, version, content, next),
           Provides(Top, g, i) => Provides(Top', g, i), Pending(g, i)
    PROVE  Pending(g, i)'
<1>1. /\ DOMAIN loading' = DOMAIN loading /\ Top' = loading'[1] /\ 1 \in DOMAIN loading
      /\ \A k \in DOMAIN loading : k \in Nat \ {0} /\ (k > 1 => loading'[k] = loading[k])
  BY BecomesTop
<1>2. PICK k \in DOMAIN loading : Provides(loading[k], g, i)
  BY DEF Pending
<1>3. k = 1 \/ k > 1
  BY <1>1
<1>4. Top = loading[1]
  BY TopFacts
<1>5. Provides(loading'[k], g, i)
  BY <1>1, <1>2, <1>3, <1>4
<1> QED
  BY <1>1, <1>5 DEF Pending, Provides

\* A step with which it returns.
LEMMA PoppedPending ==
    ASSUME TypeOK, Stacked, loading # <<>>, fileVersion' = fileVersion, loading' = Tail(loading),
           NEW g, NEW i, ~Provides(Top, g, i), Pending(g, i)
    PROVE  Pending(g, i)'
<1>1. PICK k \in DOMAIN loading : Provides(loading[k], g, i)
  BY DEF Pending
<1>2. k # 1
  BY <1>1, TopFacts
<1>3. k - 1 \in DOMAIN loading' /\ loading'[k - 1] = loading[k]
  BY <1>2, StackedPopped
<1> QED
  BY <1>1, <1>3 DEF Pending, Provides

\* Every import of a recorded graph is recorded, or an activation loads it or will: the
\* record of a version is the only one that adds imports, and its activation has them.
LEMMA LoadedStep == ASSUME RecordInv, LoadedInv, [Next]_vars PROVE LoadedInv'
<1> DEFINE v == Top.version
           c == Top.content
           n == Top.next
<1>0. TypeOK /\ Stacked /\ Parsed
  BY DEF RecordInv
<1> SUFFICES ASSUME "interrupted" \notin windows', NEW g \in Ontologies, Recorded(g)',
                    NEW i \in StoredImports(g)'
             PROVE  Recorded(i)' \/ Pending(g, i)'
  BY DEF LoadedInv
<1>1. "interrupted" \notin windows
  BY Frame
<1>2. TypeOK' /\ Stacked'
  BY <1>0, TypeStep
<1>3. i \in Ontologies
  <2>1. PICK t \in triples' : t.graph = g /\ i \in Range(Imports[t.graph][t.version])
    BY DEF StoredImports
  <2>2. t.version \in Versions
    BY <1>2 DEF TypeOK, Triples
  <2>3. Imports[g][t.version] \in Seq(Ontologies)
    BY <2>2, Facts
  <2> QED
    BY <2>1, <2>3, LenProperties DEF Range
<1>4. Recorded(g) /\ i \in StoredImports(g) => Recorded(i) \/ Pending(g, i)
  BY <1>1 DEF LoadedInv
<1>5. ASSUME loading # <<>>
      PROVE  /\ v \in 0 .. MaxVersion /\ c \in 0 .. MaxVersion /\ n \in Nat \ {0}
             /\ Graph \in Ontologies /\ fileVersion[Graph] \in 0 .. MaxVersion /\ Top.graph = Graph
             /\ Top = loading[1] /\ 1 \in DOMAIN loading
  BY <1>0, <1>5, TopFacts, Facts
<1>6. ASSUME UNCHANGED database PROVE Recorded(i) \/ Pending(g, i)
  <2>1. UNCHANGED <<triples, record>>
    BY <1>6 DEF database
  <2> QED
    BY <1>4, <2>1 DEF Recorded, StoredImports
<1>7. Recorded(i) /\ record'[i] = record[i] => Recorded(i)'
  BY DEF Recorded
<1> USE DEF ActivationPC
<1>8. CASE CheckVersion
  <2>1. loading # <<>> /\ Top.pc = "check" /\ UNCHANGED <<database, fileVersion>> /\ record' = record
    BY <1>8 DEF CheckVersion, At, database
  <2>2. CASE fileVersion[Graph] \in record[Graph]
    <3>1. loading' = Tail(loading)
      BY <1>0, <1>8, <2>2, Effects
    <3>2. Provides(Top, g, i) => Recorded(i)
      BY <1>5, <2>1, <2>2 DEF Provides, LoadedPC, Recorded
    <3> QED
      BY <1>0, <1>6, <1>7, <2>1, <3>1, <3>2, PoppedPending
  <2>3. CASE fileVersion[Graph] \notin record[Graph]
    <3>1. PICK p \in {"drop", "begin"} : Becomes(p, fileVersion[Graph], c, n)
      BY <1>0, <1>8, <2>3, Effects
    <3>2. Top'.graph = Graph /\ Top'.pc = p
      <4> HIDE DEF c, n
      <4> QED
        BY <1>0, <1>5, <2>1, <3>1, BecomesTop
    <3>3. Provides(Top, g, i) => Provides(Top', g, i)
      BY <1>5, <2>1, <3>2 DEF Provides, LoadedPC, LoadingPC
    <3>4. Pending(g, i) => Pending(g, i)'
      <4> HIDE DEF c, n
      <4> QED
        BY <1>0, <1>5, <2>1, <3>1, <3>3, StaysPending
    <3> QED
      BY <1>6, <1>7, <2>1, <3>4
  <2> QED
    BY <2>2, <2>3
<1>9. CASE DropGraph
  <2>1. /\ loading # <<>> /\ Top.pc = "drop" /\ triples' = {t \in triples : t.graph # Graph}
        /\ record' = [record EXCEPT ![Graph] = {}] /\ Becomes("begin", v, c, n)
    BY <1>0, <1>9, Effects DEF DropGraph, At
  <2>2. g # Graph /\ Recorded(g)
    BY <1>0, <1>5, <2>1 DEF Recorded, TypeOK
  <2>3. StoredImports(g)' = StoredImports(g)
    BY <2>1, <2>2, SameImports
  <2>4. Top'.graph = Graph /\ Top'.pc = "begin" /\ Top' = loading'[1] /\ 1 \in DOMAIN loading'
    <3> HIDE DEF v, c, n
    <3> QED
      BY <1>0, <1>5, <2>1, BecomesTop
  <2>5. CASE i = Graph
    BY <2>4, <2>5 DEF Pending, Provides, LoadingPC
  <2>6. CASE i # Graph
    <3>1. record'[i] = record[i]
      BY <1>0, <1>3, <2>1, <2>6 DEF TypeOK
    <3>2. ~Provides(Top, g, i)
      BY <1>5, <2>1, <2>6 DEF Provides, LoadedPC
    <3>3. Pending(g, i) => Pending(g, i)'
      <4> HIDE DEF v, c, n
      <4> QED
        BY <1>0, <1>5, <2>1, <3>2, StaysPending
    <3> QED
      BY <1>4, <1>7, <2>2, <2>3, <3>1, <3>3
  <2> QED
    BY <2>5, <2>6
<1>10. CASE BeginParsing \/ EndParsing
  <2>1. PICK p \in {"parse", "record"}, w \in 0 .. MaxVersion : Becomes(p, v, w, n)
    <3>1. loading # <<>>
      BY <1>10 DEF BeginParsing, EndParsing, At
    <3> QED
      BY <1>0, <1>5, <1>10, <3>1, Effects
  <2>2. /\ loading # <<>> /\ Top.pc \in {"begin", "parse"} /\ record' = record
        /\ \E w2, b : triples' = triples \cup {Stored(Graph, w2, b)}
    BY <1>10 DEF BeginParsing, EndParsing, At
  <2>3. g # Graph /\ Recorded(g)
    BY <1>0, <2>2 DEF Parsed, Recorded
  <2>4. StoredImports(g)' = StoredImports(g)
    <3>1. \A t : t.graph = g => (t \in triples <=> t \in triples')
      BY <2>2, <2>3 DEF Stored
    <3> QED
      BY <3>1, SameImports
  <2>5. Top'.graph = Graph /\ Top'.pc = p
    <3> HIDE DEF v, n
    <3> QED
      BY <1>0, <1>5, <2>1, <2>2, BecomesTop
  <2>6. Provides(Top, g, i) => Provides(Top', g, i)
    BY <1>5, <2>2, <2>5 DEF Provides, LoadedPC, LoadingPC
  <2>7. Pending(g, i) => Pending(g, i)'
    <3> HIDE DEF v, n
    <3> QED
      BY <1>0, <1>5, <2>1, <2>2, <2>6, StaysPending
  <2> QED
    BY <1>4, <1>7, <2>2, <2>3, <2>4, <2>7
<1>11. CASE SetVersion
  <2>1. /\ loading # <<>> /\ Top.pc = "record" /\ triples' = triples
        /\ record' = [record EXCEPT ![Graph] = record[Graph] \cup {v}] /\ Becomes("hierarchy", v, c, n)
    BY <1>0, <1>11, Effects DEF SetVersion, At
  <2>2. record'[Graph] # {} /\ \A h \in Ontologies \ {Graph} : record'[h] = record[h]
    <3>1. v \in record'[Graph]
      BY <1>0, <1>5, <2>1 DEF TypeOK
    <3>2. \A h \in Ontologies \ {Graph} : record'[h] = record[h]
      BY <1>0, <2>1 DEF TypeOK
    <3> QED
      BY <3>1, <3>2
  <2>3. /\ Top'.graph = Graph /\ Top'.pc = "hierarchy" /\ Top'.content = c
        /\ Top' = loading'[1] /\ 1 \in DOMAIN loading'
    <3> HIDE DEF v, c, n
    <3> QED
      BY <1>0, <1>5, <2>1, BecomesTop
  <2>4. i \in StoredImports(g)
    BY <2>1 DEF StoredImports
  <2>5. CASE g = Graph
    <3>1. PICK t \in triples : /\ t.graph = g /\ t.version \in Versions
                               /\ \E m \in DOMAIN Imports[g][t.version] : Imports[g][t.version][m] = i
      BY <1>0, <2>4, ImportsOf
    <3>2. t.version = c
      BY <1>0, <1>1, <2>1, <2>5, <3>1 DEF Parsed
    <3>3. Provides(Top', g, i)
      BY <2>3, <2>5, <3>1, <3>2 DEF Provides, LoadedPC
    <3> QED
      BY <2>3, <3>3 DEF Pending, Provides
  <2>6. CASE g # Graph /\ i # Graph
    <3>1. Recorded(g) /\ record'[i] = record[i]
      BY <1>3, <2>2, <2>6 DEF Recorded
    <3>2. ~Provides(Top, g, i)
      BY <1>5, <2>1, <2>6 DEF Provides, LoadedPC
    <3>3. Pending(g, i) => Pending(g, i)'
      <4> HIDE DEF v, c, n
      <4> QED
        BY <1>0, <1>5, <2>1, <3>2, StaysPending
    <3> QED
      BY <1>4, <1>7, <2>4, <3>1, <3>3
  <2>7. CASE i = Graph
    BY <2>2, <2>7 DEF Recorded
  <2> QED
    BY <2>5, <2>6, <2>7
<1>12. CASE UpdateImport \/ EndUpdate
  <2>1. /\ loading # <<>> /\ Top.pc = "hierarchy" /\ UNCHANGED database /\ record' = record
    BY <1>12 DEF UpdateImport, EndUpdate, At, database
  <2>2. Becomes("hierarchy", v, c, n + 1) \/ Becomes("imports", v, c, 1)
    BY <1>0, <1>12, Effects
  <2>3. n + 1 \in Nat \ {0} /\ 1 \in Nat \ {0}
    BY <1>5, <2>1
  <2>4. /\ Top'.graph = Graph /\ Top'.content = c
        /\ Top'.pc = "hierarchy" \/ (Top'.pc = "imports" /\ Top'.next = 1)
    <3> DEFINE m == n + 1
    <3>1. m \in Nat \ {0} /\ (Becomes("hierarchy", v, c, m) \/ Becomes("imports", v, c, 1))
      BY <2>2, <2>3
    <3> HIDE DEF v, c, n, m
    <3> QED
      BY <1>0, <1>5, <2>1, <2>3, <3>1, BecomesTop
  <2>5. ASSUME Provides(Top, g, i) PROVE Provides(Top', g, i)
    <3>1. g = Graph
      BY <1>5, <2>1, <2>5 DEF Provides, LoadingPC
    <3>2. PICK m \in DOMAIN Imports[g][c] : Imports[g][c][m] = i
      BY <2>1, <2>5 DEF Provides, LoadingPC
    <3>3. c \in Versions
      BY <1>0, <1>5, <2>1 DEF Stacked
    <3>4. 1 <= m
      BY <3>3, <3>2, Facts, LenProperties
    <3> QED
      BY <2>4, <3>1, <3>2, <3>4 DEF Provides, LoadedPC
  <2>6. Pending(g, i) => Pending(g, i)'
    <3> DEFINE m == n + 1
    <3>1. m \in Nat \ {0} /\ (Becomes("hierarchy", v, c, m) \/ Becomes("imports", v, c, 1))
      BY <2>2, <2>3
    <3> HIDE DEF v, c, n, m
    <3> QED
      BY <1>0, <1>5, <2>1, <2>3, <2>5, <3>1, StaysPending
  <2> QED
    BY <1>6, <1>7, <2>1, <2>6
<1>13. CASE LoadImport
  <2>1. loading # <<>> /\ Top.pc = "imports" /\ UNCHANGED database /\ record' = record
    BY <1>13 DEF LoadImport, At, database
  <2>2. /\ Top' = loading'[1] /\ n \in DOMAIN ContentImports
        /\ loading'[1] = Activation(ContentImports[n], "check", 0, 0, 1)
        /\ loading'[2] = Activation(Graph, "imports", v, c, n + 1)
        /\ \A k \in DOMAIN loading : k \in Nat \ {0} /\ k + 1 \in DOMAIN loading'
              /\ (k > 1 => loading'[k + 1] = loading[k])
        /\ 1 \in DOMAIN loading' /\ 2 \in DOMAIN loading'
    BY <1>0, <1>13, LoadImportTop
  <2>3. ASSUME NEW k \in DOMAIN loading, Provides(loading[k], g, i) PROVE Pending(g, i)'
    <3>1. CASE k > 1
      <4>1. k + 1 \in DOMAIN loading' /\ loading'[k + 1] = loading[k]
        BY <2>2, <3>1
      <4> QED
        BY <2>3, <4>1 DEF Pending, Provides
    <3>2. CASE k = 1
      <4>1. PICK m \in DOMAIN Imports[g][c] : Imports[g][c][m] = i /\ n <= m /\ g = Graph
        BY <1>5, <2>1, <2>3, <3>2 DEF Provides, LoadingPC
      <4>2. m \in Nat
        <5>1. c \in Versions
          BY <1>0, <1>5, <2>1 DEF Stacked
        <5> QED
          BY <5>1, <4>1, Facts, LenProperties
      <4>3. CASE m = n
        <5>1. loading'[1].graph = i /\ loading'[1].pc = "check"
          BY <2>2, <4>1, <4>3 DEF Activation, ContentImports
        <5> QED
          BY <2>2, <5>1 DEF Pending, Provides, LoadingPC
      <4>4. CASE m # n
        <5>1. n + 1 <= m
          BY <1>5, <2>1, <4>1, <4>2, <4>4
        <5>2. /\ loading'[2].graph = g /\ loading'[2].pc = "imports" /\ loading'[2].content = c
              /\ loading'[2].next = n + 1
          BY <2>2, <4>1 DEF Activation
        <5>3. Provides(loading'[2], g, i)
          BY <4>1, <5>1, <5>2 DEF Provides, LoadedPC
        <5> QED
          BY <2>2, <5>3 DEF Pending, Provides
      <4> QED
        BY <4>3, <4>4
    <3> QED
      BY <2>2, <3>1, <3>2
  <2>4. Pending(g, i) => Pending(g, i)'
    BY <2>3 DEF Pending
  <2> QED
    BY <1>6, <1>7, <2>1, <2>4
<1>14. CASE LoadReturns
  <2>1. /\ loading # <<>> /\ Top.pc = "imports" /\ n > Len(ContentImports) /\ loading' = Tail(loading)
        /\ UNCHANGED <<database, fileVersion>> /\ record' = record
    BY <1>14 DEF LoadReturns, At, Returns, database
  <2>2. ~Provides(Top, g, i)
    <3>1. c \in Versions
      BY <1>0, <1>5, <2>1 DEF Stacked
    <3>2. ContentImports \in Seq(Ontologies)
      BY <1>5, <2>1, <3>1, Facts DEF ContentImports
    <3>3. \A m \in DOMAIN ContentImports : ~(n <= m)
      BY <1>5, <2>1, <3>2, LenProperties
    <3> QED
      BY <1>5, <2>1, <3>3 DEF Provides, LoadingPC, ContentImports
  <2> QED
    BY <1>0, <1>6, <1>7, <2>1, <2>2, PoppedPending
<1>15. CASE FailToParse
  BY <1>15 DEF FailToParse
<1>16. CASE LoadSource \/ Restart
  <2>1. UNCHANGED database /\ record' = record /\ loading = <<>>
    BY <1>16 DEF LoadSource, Restart, database
  <2>2. ~Pending(g, i)
    BY <2>1 DEF Pending
  <2> QED
    BY <1>6, <1>7, <2>1, <2>2
<1>17. ASSUME UNCHANGED <<database, loading>> PROVE Recorded(i)' \/ Pending(g, i)'
  BY <1>6, <1>17 DEF Pending, Provides, Recorded, database
<1>18. ASSUME NEW h \in Ontologies, FileChanges(h) PROVE Recorded(i)' \/ Pending(g, i)'
  BY <1>17, <1>18 DEF FileChanges
<1>19. CASE ReadImport \/ UNCHANGED vars
  BY <1>17, <1>19 DEF ReadImport, vars
<1> QED
  BY <1>8, <1>9, <1>10, <1>11, <1>12, <1>13, <1>14, <1>15, <1>16, <1>18, <1>19 DEF Next, loadFile

\* When all sources are loaded, so is everything they import, unless a load was interrupted.
THEOREM LoadedSafe == Spec => []ImportsAreLoaded
<1>1. LoadedInv => ImportsAreLoaded
  BY DEF LoadedInv, ImportsAreLoaded, IsLoaded, Pending
<1>2. Init => LoadedInv
  BY DEF Init, LoadedInv, Recorded
<1>3. RecordInv /\ LoadedInv /\ [Next]_vars => LoadedInv'
  BY LoadedStep
<1> QED
  BY InitRecord, RecordStep, <1>1, <1>2, <1>3, PTL DEF Spec

-----------------------------------------------------------------------------
(* Loading does not recurse without end *)

\* The innermost activation goes on, and no other one is of its graph.
LEMMA ApartBecomes ==
    ASSUME TypeOK, Stacked, Steady, Apart, loading # <<>>, fileVersion' = fileVersion,
           NEW pc \in ActivationPC, NEW content \in 0 .. MaxVersion, NEW next \in Nat \ {0},
           Becomes(pc, fileVersion[Graph], content, next),
           pc \in LoadedPC => fileVersion[Graph] \in record'[Graph],
           \A h \in Ontologies \ {Graph} : record'[h] = record[h],
           \A k \in DOMAIN loading : k > 1 => loading[k].graph # Graph
    PROVE  Steady' /\ Apart'
<1>0. fileVersion[Graph] \in 0 .. MaxVersion
  BY TopFacts, Facts
<1>1. /\ DOMAIN loading' = DOMAIN loading
      /\ loading'[1].graph = Graph /\ loading'[1].pc = pc /\ loading'[1].version = fileVersion[Graph]
      /\ \A k \in DOMAIN loading : k \in Nat \ {0} /\ (k > 1 => loading'[k] = loading[k])
  BY <1>0, BecomesTop
<1>2. \A k \in DOMAIN loading : k = 1 \/ (k > 1 /\ loading'[k] = loading[k])
  BY <1>1
<1>3. \A k \in DOMAIN loading : loading[k].graph \in Ontologies
  BY TopFacts, Changed
<1>4. Steady'
  BY <1>1, <1>2, <1>3 DEF Steady
<1>5. Apart'
  <2> SUFFICES ASSUME NEW i \in DOMAIN loading, NEW j \in DOMAIN loading, i < j,
                      loading'[i].graph = loading'[j].graph
               PROVE  loading'[i].pc = "check"
    BY <1>1 DEF Apart
  <2>1. i \in Nat \ {0} /\ j \in Nat \ {0} /\ j > 1 /\ loading'[j] = loading[j]
    BY <1>1
  <2>2. i # 1
    BY <1>1, <2>1
  <2>3. loading'[i] = loading[i]
    BY <1>2, <2>2
  <2>4. \A k \in DOMAIN loading : k > 1 => loading[k].pc = "imports"
    BY DEF Stacked
  <2> QED
    BY <1>1, <2>1, <2>3, <2>4 DEF Apart
<1> QED
  BY <1>4, <1>5

\* It returns.
LEMMA ApartPopped ==
    ASSUME TypeOK, Stacked, Steady, Apart, loading # <<>>, fileVersion' = fileVersion, record' = record,
           loading' = Tail(loading)
    PROVE  Steady' /\ Apart'
<1>1. \A k \in DOMAIN loading' : k \in Nat \ {0} /\ k + 1 \in DOMAIN loading /\ loading'[k] = loading[k + 1]
  BY StackedPopped
<1>2. Steady'
  BY <1>1 DEF Steady
<1>3. Apart'
  <2> SUFFICES ASSUME NEW i \in DOMAIN loading', NEW j \in DOMAIN loading', i < j,
                      loading'[i].graph = loading'[j].graph
               PROVE  loading'[i].pc = "check"
    BY DEF Apart
  <2>1. i + 1 < j + 1
    BY <1>1
  <2> QED
    BY <1>1, <2>1 DEF Apart
<1> QED
  BY <1>2, <1>3

\* It loads an import.
LEMMA ApartImport ==
    ASSUME TypeOK, Stacked, Steady, Apart, LoadImport
    PROVE  Steady' /\ Apart'
<1> DEFINE n == Top.next
<1>1. /\ Top' = loading'[1]
      /\ Top' = Activation(ContentImports[n], "check", 0, 0, 1)
      /\ loading'[2] = Activation(Graph, "imports", Top.version, Top.content, n + 1)
      /\ \A k \in DOMAIN loading' : k \in Nat \ {0}
            /\ (k > 2 => k - 1 \in DOMAIN loading /\ loading'[k] = loading[k - 1])
  BY LoadImportTop
<1>2. /\ loading # <<>> /\ Top.pc = "imports" /\ fileVersion' = fileVersion /\ record' = record
  BY DEF LoadImport, At, database
<1>3. Top = loading[1] /\ 1 \in DOMAIN loading /\ Top.graph = Graph
  BY <1>2, TopFacts
<1>4. /\ loading'[1].pc = "check"
      /\ loading'[2].graph = Graph /\ loading'[2].pc = "imports" /\ loading'[2].version = Top.version
  BY <1>1 DEF Activation
<1>5. \A k \in DOMAIN loading' : \/ k = 1
                                 \/ /\ k > 1 /\ k - 1 \in DOMAIN loading
                                    /\ loading'[k].graph = loading[k - 1].graph
                                    /\ loading'[k].pc = loading[k - 1].pc
                                    /\ loading'[k].version = loading[k - 1].version
  <2> SUFFICES ASSUME NEW k \in DOMAIN loading', k # 1
               PROVE  /\ k > 1 /\ k - 1 \in DOMAIN loading
                      /\ loading'[k].graph = loading[k - 1].graph
                      /\ loading'[k].pc = loading[k - 1].pc
                      /\ loading'[k].version = loading[k - 1].version
    OBVIOUS
  <2>1. CASE k = 2
    <3>1. k - 1 = 1
      BY <2>1
    <3> QED
      BY <1>2, <1>3, <1>4, <2>1, <3>1
  <2>2. CASE k > 2
    BY <1>1, <2>2
  <2>3. k = 2 \/ k > 2
    BY <1>1
  <2> QED
    BY <2>1, <2>2, <2>3
<1>6. Steady'
  BY <1>2, <1>4, <1>5 DEF Steady, LoadedPC
<1>7. Apart'
  <2> SUFFICES ASSUME NEW i \in DOMAIN loading', NEW j \in DOMAIN loading', i < j,
                      loading'[i].graph = loading'[j].graph
               PROVE  loading'[i].pc = "check"
    BY DEF Apart
  <2>1. CASE i = 1
    BY <1>4, <2>1
  <2>2. CASE i # 1
    <3>1. j # 1
      BY <1>1, <1>5, <2>2
    <3>2. i - 1 < j - 1
      BY <1>1
    <3> QED
      BY <1>5, <2>2, <3>1, <3>2 DEF Apart
  <2> QED
    BY <2>1, <2>2
<1> QED
  BY <1>6, <1>7

\* Every step keeps the activations of a graph apart: the ones that wait have recorded the
\* version of the file, so a call for their graph returns.
LEMMA ReentryStep == ASSUME RecordInv, ReentryInv, [Next]_vars PROVE ReentryInv'
<1> DEFINE v == Top.version
           c == Top.content
           n == Top.next
           Others == \A h \in Ontologies \ {Graph} : record'[h] = record[h]
<1>0. TypeOK /\ Stacked
  BY DEF RecordInv
<1> SUFFICES ASSUME "changedWhileLoading" \notin windows' PROVE Steady' /\ Apart'
  BY DEF ReentryInv
<1>1. Steady /\ Apart
  BY Frame DEF ReentryInv
<1>2. ASSUME loading # <<>>
      PROVE  /\ v \in 0 .. MaxVersion /\ c \in 0 .. MaxVersion /\ n \in Nat \ {0} /\ n + 1 \in Nat \ {0}
             /\ Graph \in Ontologies /\ fileVersion[Graph] \in 0 .. MaxVersion
             /\ Top = loading[1] /\ 1 \in DOMAIN loading /\ Top.graph = Graph
             /\ \A k \in DOMAIN loading : k > 1 => loading[k].pc = "imports"
             /\ \A k \in DOMAIN loading : k \in Nat \ {0}
  <2>1. /\ v \in 0 .. MaxVersion /\ c \in 0 .. MaxVersion /\ n \in Nat \ {0} /\ n + 1 \in Nat \ {0}
        /\ Graph \in Ontologies /\ fileVersion[Graph] \in 0 .. MaxVersion
    BY <1>0, <1>2, TopFacts, Facts
  <2> QED
    BY <1>0, <1>2, <2>1, TopFacts DEF Stacked
<1>3. ASSUME loading # <<>>, Top.pc # "check"
      PROVE  /\ v = fileVersion[Graph] /\ \A k \in DOMAIN loading : k > 1 => loading[k].graph # Graph
             /\ Top.pc \in LoadedPC => fileVersion[Graph] \in record[Graph]
  BY <1>1, <1>2, <1>3 DEF Steady, Apart
<1> USE DEF ActivationPC
<1>4. CASE CheckVersion
  <2>1. loading # <<>> /\ fileVersion' = fileVersion /\ record' = record
    BY <1>4 DEF CheckVersion, At, database
  <2>2. CASE fileVersion[Graph] \in record[Graph]
    BY <1>0, <1>1, <1>4, <2>1, <2>2, Effects, ApartPopped
  <2>3. CASE fileVersion[Graph] \notin record[Graph]
    <3>1. PICK p \in {"drop", "begin"} : Becomes(p, fileVersion[Graph], c, n)
      BY <1>0, <1>4, <2>3, Effects
    <3>2. \A k \in DOMAIN loading : k > 1 => loading[k].graph # Graph
      BY <1>1, <1>2, <2>1, <2>3 DEF Steady, LoadedPC
    <3>3. p \notin LoadedPC /\ p \in ActivationPC
      BY DEF LoadedPC
    <3> HIDE DEF c, n
    <3> QED
      BY <1>0, <1>1, <1>2, <2>1, <3>1, <3>2, <3>3, ApartBecomes
  <2> QED
    BY <2>2, <2>3
<1>5. CASE DropGraph
  <2>1. Becomes("begin", v, c, n) /\ loading # <<>> /\ Top.pc = "drop" /\ fileVersion' = fileVersion
        /\ record' = [record EXCEPT ![Graph] = {}]
    BY <1>0, <1>5, Effects DEF DropGraph, At
  <2>2. Others /\ "begin" \notin LoadedPC
    BY <1>0, <2>1 DEF TypeOK, LoadedPC
  <2>3. v = fileVersion[Graph]
    BY <1>3, <2>1
  <2> HIDE DEF v, c, n
  <2> QED
    BY <1>0, <1>1, <1>2, <1>3, <2>1, <2>2, <2>3, ApartBecomes
<1>6. CASE BeginParsing \/ EndParsing
  <2>1. /\ loading # <<>> /\ Top.pc \in {"begin", "parse"} /\ fileVersion' = fileVersion /\ record' = record
    BY <1>6 DEF BeginParsing, EndParsing, At
  <2>2. PICK p \in {"parse", "record"}, w \in 0 .. MaxVersion : Becomes(p, v, w, n)
    BY <1>0, <1>2, <1>6, <2>1, Effects
  <2>3. Others /\ p \notin LoadedPC /\ p \in ActivationPC
    BY <2>1 DEF LoadedPC
  <2>4. v = fileVersion[Graph]
    BY <1>3, <2>1
  <2> HIDE DEF v, n
  <2> QED
    BY <1>0, <1>1, <1>2, <1>3, <2>1, <2>2, <2>3, <2>4, ApartBecomes
<1>7. CASE SetVersion
  <2>1. Becomes("hierarchy", v, c, n) /\ loading # <<>> /\ Top.pc = "record" /\ fileVersion' = fileVersion
        /\ record' = [record EXCEPT ![Graph] = record[Graph] \cup {v}]
    BY <1>0, <1>7, Effects DEF SetVersion, At
  <2>2. Others
    BY <1>0, <2>1 DEF TypeOK
  <2>3. v = fileVersion[Graph]
    BY <1>3, <2>1
  <2>4. v \in record'[Graph]
    BY <1>0, <1>2, <2>1 DEF TypeOK
  <2> HIDE DEF v, c, n
  <2> QED
    BY <1>0, <1>1, <1>2, <1>3, <2>1, <2>2, <2>3, <2>4, ApartBecomes
<1>8. CASE UpdateImport \/ EndUpdate
  <2>1. /\ loading # <<>> /\ Top.pc = "hierarchy" /\ fileVersion' = fileVersion /\ record' = record
    BY <1>8 DEF UpdateImport, EndUpdate, At, database
  <2>2. PICK p \in {"hierarchy", "imports"}, m \in Nat \ {0} : Becomes(p, v, c, m)
    <3>1. 1 \in Nat \ {0}
      OBVIOUS
    <3> QED
      BY <1>0, <1>2, <1>8, <2>1, <3>1, Effects
  <2>3. Others /\ Top.pc \in LoadedPC
    BY <2>1 DEF LoadedPC
  <2>4. v = fileVersion[Graph]
    BY <1>3, <2>1
  <2> HIDE DEF v, c
  <2> QED
    BY <1>0, <1>1, <1>2, <1>3, <2>1, <2>2, <2>3, <2>4, ApartBecomes
<1>9. CASE LoadImport
  BY <1>0, <1>1, <1>9, ApartImport
<1>10. CASE FailToParse \/ LoadReturns
  <2>1. loading # <<>> /\ loading' = Tail(loading) /\ fileVersion' = fileVersion /\ record' = record
    BY <1>10 DEF FailToParse, LoadReturns, At, Returns, database
  <2> QED
    BY <1>0, <1>1, <2>1, ApartPopped
<1>11. CASE LoadSource
  <2>1. loading' = <<Call(Head(sources))>>
    BY <1>11 DEF LoadSource
  <2>2. /\ loading'[1] = Call(Head(sources)) /\ \A k \in DOMAIN loading' : k = 1
    BY <2>1
  <2>3. loading'[1].pc = "check" /\ \A k \in DOMAIN loading' : k = 1
    BY <2>2 DEF Call
  <2> QED
    BY <2>3 DEF Steady, Apart, LoadedPC
<1>12. ASSUME loading' = <<>> PROVE Steady' /\ Apart'
  BY <1>12 DEF Steady, Apart
<1>13. CASE Restart
  BY <1>12, <1>13 DEF Restart
<1>14. ASSUME NEW g \in Ontologies, FileChanges(g) PROVE Steady' /\ Apart'
  BY <1>12, <1>14 DEF FileChanges
<1>15. CASE ReadImport \/ UNCHANGED vars
  <2>1. UNCHANGED <<loading, record, fileVersion>>
    BY <1>15 DEF ReadImport, vars, database
  <2> QED
    BY <1>1, <2>1 DEF Steady, Apart
<1> QED
  BY <1>4, <1>5, <1>6, <1>7, <1>8, <1>9, <1>10, <1>11, <1>13, <1>14, <1>15 DEF Next, loadFile

\* Cyclic imports do not make loadFile recurse without end: no activation is of the graph
\* of one below it and past the check of the version, unless a file has changed meanwhile.
THEOREM ReentrySafe == Spec => []NotReentered
<1>1. ReentryInv => NotReentered
  BY DEF ReentryInv, NotReentered, Apart
<1>2. Init => ReentryInv
  BY DEF Init, ReentryInv, Steady, Apart
<1>3. RecordInv /\ ReentryInv /\ [Next]_vars => ReentryInv'
  BY ReentryStep
<1> QED
  BY InitRecord, RecordStep, <1>1, <1>2, <1>3, PTL DEF Spec

-----------------------------------------------------------------------------
(* The hierarchy of imports *)

\* A graph without imports is added.
LEMMA HierarchyExtended ==
    ASSUME NEW direct, NEW all, IsHierarchy(direct, all),
           NEW G \in SUBSET Ontologies, DOMAIN all \subseteq G
    PROVE  IsHierarchy([g \in G |-> IF g \in DOMAIN direct THEN direct[g] ELSE {}],
                       [g \in G |-> IF g \in DOMAIN all THEN all[g] ELSE {}])
<1> DEFINE d == [g \in G |-> IF g \in DOMAIN direct THEN direct[g] ELSE {}]
           a == [g \in G |-> IF g \in DOMAIN all THEN all[g] ELSE {}]
<1>1. /\ DOMAIN d = G /\ DOMAIN a = G
      /\ \A g \in DOMAIN all : d[g] = direct[g] /\ a[g] = all[g]
      /\ \A g \in G \ DOMAIN all : d[g] = {} /\ a[g] = {}
  BY DEF IsHierarchy
<1> HIDE DEF d, a
<1> SUFFICES ASSUME NEW g \in G
             PROVE  /\ d[g] \subseteq Ontologies \cup {Dangling} /\ a[g] \subseteq G /\ Holds(d, a[g], g)
                    /\ \A S \in SUBSET a[g] : Holds(d, S, g) => S = a[g]
  BY <1>1 DEF IsHierarchy, d, a
<1>2. CASE g \in DOMAIN all
  <2>1. \A S \in SUBSET all[g] : Holds(d, S, g) <=> Holds(direct, S, g)
    BY <1>1, <1>2 DEF IsHierarchy, Holds, ImportsIn
  <2> QED
    BY <1>1, <1>2, <2>1 DEF IsHierarchy
<1>3. CASE g \notin DOMAIN all
  BY <1>1, <1>3 DEF Holds, ImportsIn
<1> QED
  BY <1>2, <1>3

\* An import is added: whatever reaches the importer reaches what the imported reaches.
\* d and a are the hierarchy direct and all with the import of j by i.
IsAdded(direct, all, i, j, d, a) ==
    /\ i \in DOMAIN all /\ j \in DOMAIN all /\ DOMAIN d = DOMAIN all /\ DOMAIN a = DOMAIN all
    /\ \A g \in DOMAIN all :
          /\ d[g] = direct[g] \cup (IF g = i THEN {j} ELSE {})
          /\ a[g] = all[g] \cup (IF g = i \/ i \in all[g] THEN all[j] \cup {j} ELSE {})

LEMMA HierarchyAdded ==
    ASSUME NEW direct, NEW all, IsHierarchy(direct, all), NEW i, NEW j, NEW d, NEW a,
           IsAdded(direct, all, i, j, d, a)
    PROVE  IsHierarchy(d, a)
<1> USE DEF IsAdded
<1> DEFINE N(g) == ImportsIn(direct, g)
           M(g) == ImportsIn(d, g)
<1>0. j \in Ontologies /\ j # Dangling /\ DOMAIN all \subseteq Ontologies
  BY Facts DEF IsHierarchy, Dangling
<1>1. \A g \in DOMAIN all : M(g) = N(g) \cup (IF g = i THEN {j} ELSE {})
  BY <1>0 DEF ImportsIn
<1>2. \A g \in DOMAIN all : /\ all[g] \subseteq DOMAIN all /\ N(g) \subseteq all[g]
                            /\ \A k \in all[g] : N(k) \subseteq all[g]
  BY DEF IsHierarchy, Holds
<1>3. \A g \in DOMAIN all : \A S \in SUBSET all[g] :
         N(g) \subseteq S /\ (\A k \in S : N(k) \subseteq S) => S = all[g]
  BY DEF IsHierarchy, Holds
<1>4. \A g \in DOMAIN all : d[g] \subseteq Ontologies \cup {Dangling} /\ a[g] \subseteq DOMAIN all
  BY <1>0, <1>2 DEF IsHierarchy
<1> HIDE DEF N, M
<1>5. ASSUME NEW g \in DOMAIN all PROVE M(g) \subseteq a[g] /\ \A k \in a[g] : M(k) \subseteq a[g]
  <2>1. M(g) \subseteq a[g]
    BY <1>1, <1>2
  <2>2. ASSUME NEW k \in all[g] PROVE M(k) \subseteq a[g]
    BY <1>1, <1>2
  <2>3. ASSUME NEW k \in a[g], k \notin all[g] PROVE M(k) \subseteq a[g]
    <3>1. (g = i \/ i \in all[g]) /\ k \in all[j] \cup {j} /\ a[g] = all[g] \cup all[j] \cup {j}
      BY <2>3
    <3>2. N(k) \subseteq all[j] /\ k \in DOMAIN all
      BY <1>2, <3>1
    <3> QED
      BY <1>1, <3>1, <3>2
  <2> QED
    BY <2>1, <2>2, <2>3
<1>6. ASSUME NEW g \in DOMAIN all, NEW S \in SUBSET a[g], M(g) \subseteq S, \A k \in S : M(k) \subseteq S
      PROVE  S = a[g]
  <2>0. \A k \in S : k \in DOMAIN all /\ N(k) \subseteq S
    BY <1>1, <1>4, <1>6
  <2>1. all[g] \subseteq S
    <3> DEFINE T == S \cap all[g]
    <3>1. N(g) \subseteq T /\ \A k \in T : N(k) \subseteq T
      BY <1>1, <1>2, <1>6, <2>0
    <3>2. T \in SUBSET all[g]
      OBVIOUS
    <3>3. T = all[g]
      <4> HIDE DEF T
      <4> QED
        BY <1>3, <3>1, <3>2
    <3> QED
      BY <3>3
  <2>2. ASSUME g = i \/ i \in all[g] PROVE all[j] \cup {j} \subseteq S
    <3>1. j \in S
      BY <1>1, <1>6, <2>1, <2>2
    <3> DEFINE T == S \cap all[j]
    <3>2. N(j) \subseteq T /\ \A k \in T : N(k) \subseteq T
      BY <1>2, <2>0, <3>1
    <3>3. T \in SUBSET all[j]
      OBVIOUS
    <3>4. T = all[j]
      <4> HIDE DEF T
      <4> QED
        BY <1>3, <3>2, <3>3
    <3> QED
      BY <3>1, <3>4
  <2> QED
    BY <2>1, <2>2
<1> QED
  BY <1>0, <1>4, <1>5, <1>6 DEF IsHierarchy, Holds, M

\* A graph is removed: those that imported it import what it imported.
LEMMA HierarchyRemoved ==
    ASSUME NEW direct, NEW all, IsHierarchy(direct, all), NEW r \in DOMAIN all,
           NEW d, NEW a, DOMAIN d = DOMAIN all \ {r}, DOMAIN a = DOMAIN all \ {r},
           \A g \in DOMAIN all \ {r} :
              /\ a[g] = all[g] \ {r}
              /\ d[g] \ {Dangling} = ((direct[g] \ {r}) \cup (IF r \in direct[g] THEN direct[r] \ {r} ELSE {}))
                                        \ {Dangling}
    PROVE  IsHierarchy(d, a)
<1> DEFINE N(g) == ImportsIn(direct, g)
           M(g) == ImportsIn(d, g)
<1>0. r \in Ontologies /\ r # Dangling /\ DOMAIN all \subseteq Ontologies
  BY Facts DEF IsHierarchy, Dangling
<1>1. \A g \in DOMAIN all \ {r} : M(g) = (N(g) \ {r}) \cup (IF r \in N(g) THEN N(r) \ {r} ELSE {})
  BY <1>0 DEF ImportsIn
<1>2. \A g \in DOMAIN all : /\ all[g] \subseteq DOMAIN all /\ N(g) \subseteq all[g]
                            /\ \A k \in all[g] : N(k) \subseteq all[g]
  BY DEF IsHierarchy, Holds
<1>3. \A g \in DOMAIN all : \A S \in SUBSET all[g] :
         N(g) \subseteq S /\ (\A k \in S : N(k) \subseteq S) => S = all[g]
  BY DEF IsHierarchy, Holds
<1>4. \A g \in DOMAIN a : d[g] \subseteq Ontologies \cup {Dangling} /\ a[g] \subseteq DOMAIN a
  <2> SUFFICES ASSUME NEW g \in DOMAIN a
               PROVE  d[g] \ {Dangling} \subseteq Ontologies /\ a[g] \subseteq DOMAIN a
    OBVIOUS
  <2>1. direct[g] \subseteq Ontologies \cup {Dangling} /\ direct[r] \subseteq Ontologies \cup {Dangling}
    BY DEF IsHierarchy
  <2> QED
    BY <1>2, <2>1
<1> HIDE DEF N, M
<1>5. ASSUME NEW g \in DOMAIN a PROVE M(g) \subseteq a[g] /\ \A k \in a[g] : M(k) \subseteq a[g]
  <2>1. M(g) \subseteq a[g]
    BY <1>1, <1>2
  <2>2. ASSUME NEW k \in a[g] PROVE M(k) \subseteq a[g]
    <3>1. k \in all[g] /\ k \in DOMAIN all \ {r} /\ g \in DOMAIN all
      BY <1>2
    <3>2. N(k) \subseteq all[g] /\ (r \in N(k) => N(r) \subseteq all[g])
      BY <1>2, <3>1
    <3> QED
      BY <1>1, <3>1, <3>2
  <2> QED
    BY <2>1, <2>2
<1>6. ASSUME NEW g \in DOMAIN a, NEW S \in SUBSET a[g], M(g) \subseteq S, \A k \in S : M(k) \subseteq S
      PROVE  S = a[g]
  <2> DEFINE Via == r \in N(g) \/ \E k \in S : r \in N(k)
             T == S \cup (IF Via THEN {r} ELSE {})
  <2>0. /\ g \in DOMAIN all \ {r} /\ S \subseteq all[g] /\ r \notin S
        /\ \A k \in S : k \in DOMAIN all \ {r}
    BY <1>2, <1>6
  <2>1. \A k \in S \cup {g} :
           N(k) \subseteq all[g] /\ N(k) \ {r} \subseteq S /\ (r \in N(k) => N(r) \ {r} \subseteq S)
    BY <1>1, <1>2, <1>6, <2>0
  <2>2. T \in SUBSET all[g]
    BY <2>0, <2>1
  <2>3. N(g) \subseteq T
    BY <2>1
  <2>4. ASSUME NEW k \in T PROVE N(k) \subseteq T
    <3>1. CASE k \in S
      BY <2>1, <3>1
    <3>2. CASE k = r /\ Via
      BY <2>1, <3>2
    <3> QED
      BY <2>4, <3>1, <3>2
  <2>5. T = all[g]
    <3> HIDE DEF T
    <3> QED
      BY <1>3, <2>0, <2>2, <2>3, <2>4
  <2> QED
    BY <2>0, <2>5
<1> QED
  BY <1>0, <1>4, <1>5, <1>6 DEF IsHierarchy, Holds, M

\* addDirectImport keeps the closure, ...
LEMMA addDirectImportKeeps ==
    ASSUME HierarchyInv, NEW i \in Ontologies, NEW j \in Ontologies,
           SetHierarchy(addDirectImport(Current, i, j))
    PROVE  HierarchyInv'
<1> DEFINE G == DOMAIN imports \cup {i, j}
           before == [g \in G |-> IF g \in DOMAIN directImports THEN directImports[g] ELSE {}]
           reached == [g \in G |-> IF g \in DOMAIN imports THEN imports[g] ELSE {}]
<1>1. DOMAIN imports = DOMAIN directImports /\ G \subseteq Ontologies /\ DOMAIN imports \subseteq G
  BY DEF HierarchyInv, IsHierarchy
<1>2. IsHierarchy(before, reached)
  <2> HIDE DEF G
  <2> QED
    BY <1>1, HierarchyExtended DEF HierarchyInv
<1>3. IsAdded(before, reached, i, j, directImports', imports')
  BY <1>1 DEF IsAdded, SetHierarchy, addDirectImport, Current, Graphs
<1> HIDE DEF G, before, reached
<1>4. IsHierarchy(directImports', imports')
  BY <1>2, <1>3, HierarchyAdded
<1> QED
  BY <1>4 DEF HierarchyInv, IsHierarchy, Holds, ImportsIn

\* ... and so does removeCurrentGraph.
LEMMA removeCurrentGraphKeeps ==
    ASSUME HierarchyInv, NEW r \in Graphs(Current), SetHierarchy(removeCurrentGraph(Current, r))
    PROVE  HierarchyInv'
<1>1. DOMAIN imports = DOMAIN directImports /\ r \in DOMAIN imports
  BY DEF HierarchyInv, IsHierarchy, Graphs, Current
<1>2. /\ DOMAIN directImports' = DOMAIN imports \ {r} /\ DOMAIN imports' = DOMAIN imports \ {r}
      /\ \A g \in DOMAIN imports \ {r} :
            /\ imports'[g] = imports[g] \ {r}
            /\ directImports'[g] \ {Dangling} =
                  ((directImports[g] \ {r})
                      \cup (IF r \in directImports[g] THEN directImports[r] \ {r} ELSE {})) \ {Dangling}
  BY <1>1 DEF SetHierarchy, removeCurrentGraph, Current, Graphs
<1>3. IsHierarchy(directImports', imports')
  BY <1>1, <1>2, HierarchyRemoved DEF HierarchyInv
<1> QED
  BY <1>3 DEF HierarchyInv, IsHierarchy, Holds, ImportsIn

\* Every step that changes the hierarchy is one of the two, or a restart.
LEMMA HierarchyStep == ASSUME RecordInv, HierarchyInv, [Next]_vars PROVE HierarchyInv'
<1>0. TypeOK /\ Stacked
  BY DEF RecordInv
<1>1. CASE UNCHANGED hierarchy
  BY <1>1 DEF hierarchy, HierarchyInv, IsHierarchy, Holds, ImportsIn
<1>2. CASE ReadImport
  <2>1. PICK p \in unread : SetHierarchy(addDirectImport(Current, p[1], p[2]))
    BY <1>2 DEF ReadImport
  <2>2. p[1] \in Ontologies /\ p[2] \in Ontologies
    BY <1>0 DEF TypeOK
  <2> QED
    BY <2>1, <2>2, addDirectImportKeeps
<1>3. CASE UpdateImport
  <2>1. /\ loading # <<>> /\ Top.pc = "hierarchy" /\ Top.next <= Len(ContentImports)
        /\ SetHierarchy(addDirectImport(Current, Graph, ContentImports[Top.next]))
    BY <1>3 DEF UpdateImport, At
  <2>2. Graph \in Ontologies /\ Top.next \in Nat \ {0} /\ Top.content \in Versions
    BY <1>0, <2>1, TopFacts DEF Stacked
  <2>3. ContentImports[Top.next] \in Ontologies
    <3>1. ContentImports \in Seq(Ontologies)
      BY <2>2, Facts DEF ContentImports
    <3> QED
      BY <2>1, <2>2, <3>1, LenProperties
  <2> QED
    BY <2>1, <2>2, <2>3, addDirectImportKeeps
<1>4. CASE DropGraph
  BY <1>1, <1>4, removeCurrentGraphKeeps DEF DropGraph
<1>5. CASE Restart
  <2>1. directImports' = NoImports /\ imports' = NoImports
    BY <1>5 DEF Restart, SetHierarchy
  <2> QED
    BY <2>1 DEF HierarchyInv, IsHierarchy, NoImports
<1> QED
  BY <1>1, <1>2, <1>3, <1>4, <1>5, Frame

\* imports_ is the transitive closure of directImports_, cyclic imports included: after any
\* additions and removals of graphs, while ontologies are loaded and after a restart.
THEOREM ClosureSafe == Spec => []ImportsAreClosure
<1>1. HierarchyInv => ImportsAreClosure
  BY DEF HierarchyInv, IsHierarchy, Holds, ImportsIn, ImportsAreClosure, HoldsImports, ImportedBy
<1>2. Init => HierarchyInv
  BY DEF Init, HierarchyInv, IsHierarchy, NoImports
<1>3. RecordInv /\ HierarchyInv /\ [Next]_vars => HierarchyInv'
  BY HierarchyStep
<1> QED
  BY InitRecord, RecordStep, <1>1, <1>2, <1>3, PTL DEF Spec

-----------------------------------------------------------------------------
(* A restart restores the hierarchy *)

\* What is known of the direct imports after one is added.
LEMMA KnownAdded ==
    ASSUME HierarchyInv, NEW i \in Ontologies, NEW j \in Ontologies,
           SetHierarchy(addDirectImport(Current, i, j)), NEW g \in Ontologies
    PROVE  KnownImports(g)' = KnownImports(g) \cup (IF g = i THEN {j} ELSE {})
<1>1. j # Dangling
  BY Facts DEF Dangling
<1>2. /\ DOMAIN directImports' = DOMAIN directImports \cup {i, j}
      /\ \A k \in DOMAIN directImports' :
            directImports'[k] = (IF k \in DOMAIN directImports THEN directImports[k] ELSE {})
                                   \cup (IF k = i THEN {j} ELSE {})
  BY DEF SetHierarchy, addDirectImport, Current, Graphs
<1> QED
  BY <1>1, <1>2 DEF KnownImports, ImportsIn

\* A graph that no other imports is removed: the others know what they knew.
LEMMA KnownRemoved ==
    ASSUME HierarchyInv, NEW r \in Graphs(Current), SetHierarchy(removeCurrentGraph(Current, r)),
           \A g \in Graphs(Current) : r \notin imports[g], NEW g \in Ontologies
    PROVE  KnownImports(g)' = IF g = r THEN {} ELSE KnownImports(g)
<1>1. DOMAIN imports = DOMAIN directImports /\ DOMAIN imports = Graphs(Current) /\ r # Dangling
  BY Facts DEF HierarchyInv, IsHierarchy, Graphs, Current, Dangling
<1>2. \A k \in DOMAIN imports : r \notin directImports[k]
  BY <1>1 DEF HierarchyInv, IsHierarchy, Holds, ImportsIn
<1>3. /\ DOMAIN directImports' = DOMAIN imports \ {r}
      /\ \A k \in DOMAIN imports \ {r} : directImports'[k] = directImports[k]
  BY <1>1, <1>2 DEF SetHierarchy, removeCurrentGraph, Current, Graphs
<1> QED
  BY <1>1, <1>3 DEF KnownImports, ImportsIn

\* A graph that is not in the hierarchy knows no imports.
LEMMA KnownOnly ==
    ASSUME HierarchyInv, NEW g, KnownImports(g) # {}
    PROVE  g \in Graphs(Current)
BY DEF KnownImports, Graphs, Current

\* When no load is under way, all stored imports are between recorded graphs.
LEMMA StoredIsRecorded ==
    ASSUME RecordInv, LoadedInv, loading = <<>>, "interrupted" \notin windows,
           NEW g \in Ontologies, NEW i \in Ontologies
    PROVE  i \in StoredImports(g) <=> <<g, i>> \in StoredPairs
<1>1. ASSUME i \in StoredImports(g) PROVE Recorded(g) /\ Recorded(i)
  <2>1. PICK t \in triples : t.graph = g
    BY <1>1 DEF StoredImports
  <2>2. Recorded(g)
    BY <2>1 DEF RecordInv, Parsed
  <2>3. ~Pending(g, i)
    BY DEF Pending
  <2> QED
    BY <1>1, <2>2, <2>3 DEF LoadedInv
<1> QED
  BY <1>1 DEF StoredPairs
\* Each stored import is known, to be read or to be added, and no others are.
LEMMA PairsStep ==
    ASSUME RecordInv, LoadedInv, HierarchyInv, PairsInv, [Next]_vars
    PROVE  PairsInv'
<1> DEFINE v == Top.version
           c == Top.content
           n == Top.next
<1>0. TypeOK /\ Stacked /\ Parsed /\ TypeOK' /\ Stacked'
  BY TypeStep DEF RecordInv
<1> SUFFICES ASSUME windows' \cap {"interrupted", "importDropped"} = {} PROVE PairsHold'
  BY DEF PairsInv
<1>1. PairsHold /\ windows \cap {"interrupted", "importDropped"} = {}
  BY Frame DEF PairsInv
<1>2. ASSUME loading # <<>>
      PROVE  /\ v \in 0 .. MaxVersion /\ c \in 0 .. MaxVersion /\ n \in Nat \ {0}
             /\ Graph \in Ontologies /\ fileVersion[Graph] \in 0 .. MaxVersion /\ Top.graph = Graph
             /\ Top = loading[1] /\ 1 \in DOMAIN loading /\ unread = {}
             /\ Top.pc \in {"parse", "record", "hierarchy", "imports"} =>
                   c \in Versions /\ ContentImports = Imports[Graph][c] /\ ContentImports \in Seq(Ontologies)
             /\ Top.pc \in LoadingPC => n = 1
  <2>1. Top.pc \in {"parse", "record", "hierarchy", "imports"} => c \in Versions
    BY <1>0, <1>2, TopFacts DEF Stacked
  <2>2. Top.pc \in {"parse", "record", "hierarchy", "imports"} =>
            ContentImports = Imports[Graph][c] /\ ContentImports \in Seq(Ontologies)
    BY <1>0, <1>2, <2>1, Facts, TopFacts DEF ContentImports
  <2>3. Top.pc \in LoadingPC => n = 1
    BY <1>1, <1>2 DEF PairsHold
  <2> QED
    BY <1>0, <1>1, <1>2, <2>1, <2>2, <2>3, TopFacts, Facts DEF PairsHold
<1>3. \A g, i \in Ontologies :
         i \in StoredImports(g) <=> i \in KnownImports(g) \/ <<g, i>> \in unread \/ IsToAdd(g, i)
  BY <1>1 DEF PairsHold
\* A step that changes no more than the activations.
<1>4. ASSUME UNCHANGED <<triples, hierarchy, unread>>,
             loading' # <<>> => unread = {} /\ (Top'.pc \in LoadingPC => Top'.next = 1),
             \A g, i \in Ontologies : IsToAdd(g, i)' <=> IsToAdd(g, i)
      PROVE  PairsHold'
  <2>1. \A g \in Ontologies : StoredImports(g)' = StoredImports(g) /\ KnownImports(g)' = KnownImports(g)
    BY <1>4 DEF StoredImports, KnownImports, ImportsIn, hierarchy
  <2> QED
    BY <1>3, <1>4, <2>1 DEF PairsHold
<1>5. ASSUME UNCHANGED <<triples, hierarchy, unread>>, loading # <<>> => Top.pc \notin {"record", "hierarchy"},
             loading' # <<>> => /\ unread = {} /\ Top'.pc \notin {"record", "hierarchy"}
                                /\ (Top'.pc \in LoadingPC => Top'.next = 1)
      PROVE  PairsHold'
  <2>1. \A g, i \in Ontologies : ~IsToAdd(g, i) /\ ~IsToAdd(g, i)'
    BY <1>5 DEF IsToAdd
  <2> QED
    BY <1>4, <1>5, <2>1
\* A step of the innermost activation that leaves it on the stack.
<1>6. ASSUME loading # <<>>, NEW pc \in ActivationPC, NEW version \in 0 .. MaxVersion,
             NEW content \in 0 .. MaxVersion, NEW next \in Nat \ {0}, Becomes(pc, version, content, next)
      PROVE  /\ loading' # <<>> /\ Top'.graph = Graph /\ Top'.pc = pc /\ Top'.next = next
             /\ Graph' = Graph /\ Top'.content = content
             /\ \A g, i : IsToAdd(g, i)' <=> /\ g = Graph /\ pc \in {"record", "hierarchy"}
                                             /\ \E k \in DOMAIN Imports[Graph][content] :
                                                   next <= k /\ Imports[Graph][content][k] = i
  <2>1. /\ loading' # <<>> /\ Top'.graph = Graph /\ Top'.pc = pc /\ Top'.next = next
        /\ Graph' = Graph /\ Top'.content = content
    BY <1>0, <1>6, BecomesTop
  <2> QED
    BY <2>1 DEF IsToAdd, ContentImports
\* It returns.
<1>7. ASSUME loading # <<>>, loading' = Tail(loading), UNCHANGED <<triples, hierarchy, unread, fileVersion>>,
             Top.pc \notin {"record", "hierarchy"}
      PROVE  PairsHold'
  <2>1. loading' # <<>> => Top'.pc = "imports"
    BY <1>0, <1>7, StackedPopped
  <2> QED
    BY <1>2, <1>5, <1>7, <2>1 DEF LoadingPC
<1> USE DEF ActivationPC
<1>8. CASE CheckVersion
  <2>1. loading # <<>> /\ Top.pc = "check" /\ UNCHANGED <<triples, hierarchy, unread, fileVersion>>
    BY <1>8 DEF CheckVersion, At, database
  <2>2. CASE fileVersion[Graph] \in record[Graph]
    <3>1. loading' = Tail(loading)
      BY <1>0, <1>8, <2>2, Effects
    <3> QED
      BY <1>7, <2>1, <3>1
  <2>3. CASE fileVersion[Graph] \notin record[Graph]
    <3>1. PICK p \in {"drop", "begin"} : Becomes(p, fileVersion[Graph], c, n)
      BY <1>0, <1>8, <2>3, Effects
    <3>2. n = 1
      BY <1>2, <2>1 DEF LoadingPC
    <3>3. loading' # <<>> /\ Top'.pc = p /\ Top'.next = n
      <4> HIDE DEF c, n
      <4> QED
        BY <1>2, <1>6, <2>1, <3>1
    <3> QED
      BY <1>2, <1>5, <2>1, <3>2, <3>3
  <2> QED
    BY <2>2, <2>3
<1>9. CASE DropGraph
  <2>1. /\ loading # <<>> /\ Top.pc = "drop" /\ triples' = {t \in triples : t.graph # Graph}
        /\ Becomes("begin", v, c, n) /\ unread' = unread
        /\ \A g \in Graphs(Current) : Graph \notin imports[g]
        /\ IF Graph \in Graphs(Current) THEN SetHierarchy(removeCurrentGraph(Current, Graph))
                                        ELSE UNCHANGED hierarchy
    BY <1>0, <1>9, Effects DEF DropGraph, At
  <2>2. /\ loading' # <<>> /\ Top'.pc = "begin" /\ Top'.next = n /\ n = 1
        /\ \A g, i : ~IsToAdd(g, i) /\ ~IsToAdd(g, i)'
    <3>1. n = 1
      BY <1>2, <2>1 DEF LoadingPC
    <3>2. loading' # <<>> /\ Top'.pc = "begin" /\ Top'.next = n
      <4> HIDE DEF v, c, n
      <4> QED
        BY <1>2, <1>6, <2>1
    <3> QED
      BY <2>1, <3>1, <3>2 DEF IsToAdd
  <2>3. \A g \in Ontologies : KnownImports(g)' = IF g = Graph THEN {} ELSE KnownImports(g)
    <3>1. CASE Graph \in Graphs(Current)
      BY <2>1, <3>1, KnownRemoved
    <3>2. CASE Graph \notin Graphs(Current)
      <4>1. \A g : KnownImports(g)' = KnownImports(g)
        BY <2>1, <3>2 DEF KnownImports, ImportsIn, hierarchy
      <4> QED
        BY <3>2, <4>1, KnownOnly
    <3> QED
      BY <3>1, <3>2
  <2>4. ASSUME NEW g \in Ontologies, g = Graph PROVE StoredImports(g)' = {}
    <3>1. {u \in triples' : u.graph = g /\ u.batch = 2} = {}
      BY <2>1, <2>4
    <3> QED
      BY <3>1 DEF StoredImports
  <2>5. \A g \in Ontologies \ {Graph} : StoredImports(g)' = StoredImports(g)
    BY <2>1, SameImports
  <2>6. \A g, i \in Ontologies : i \in StoredImports(g)' <=> i \in KnownImports(g)'
    BY <1>2, <1>3, <2>1, <2>2, <2>3, <2>4, <2>5
  <2> QED
    BY <1>2, <2>1, <2>2, <2>6 DEF PairsHold
<1>10. CASE BeginParsing
  <2>1. /\ loading # <<>> /\ Top.pc = "begin" /\ Becomes("parse", v, fileVersion[Graph], n)
        /\ triples' = triples \cup {Stored(Graph, fileVersion[Graph], 1)} /\ UNCHANGED <<hierarchy, unread>>
    BY <1>0, <1>10, Effects DEF BeginParsing, At
  <2>2. /\ loading' # <<>> /\ Top'.pc = "parse" /\ Top'.next = n /\ n = 1
        /\ \A g, i : ~IsToAdd(g, i) /\ ~IsToAdd(g, i)'
    <3>1. n = 1
      BY <1>2, <2>1 DEF LoadingPC
    <3>2. loading' # <<>> /\ Top'.pc = "parse" /\ Top'.next = n
      <4> HIDE DEF v, n
      <4> QED
        BY <1>2, <1>6, <2>1
    <3> QED
      BY <2>1, <3>1, <3>2 DEF IsToAdd
  <2>3. \A g : StoredImports(g)' = StoredImports(g) /\ KnownImports(g)' = KnownImports(g)
    <3>1. \A g : {u \in triples' : u.graph = g /\ u.batch = 2} = {u \in triples : u.graph = g /\ u.batch = 2}
      BY <2>1 DEF Stored
    <3> QED
      BY <2>1, <3>1 DEF StoredImports, KnownImports, ImportsIn, hierarchy
  <2> QED
    BY <1>2, <1>3, <2>1, <2>2, <2>3 DEF PairsHold
<1>11. CASE EndParsing
  <2>1. /\ loading # <<>> /\ Top.pc = "parse" /\ Becomes("record", v, c, n)
        /\ triples' = triples \cup {Stored(Graph, c, 2)} /\ UNCHANGED <<hierarchy, unread>>
    BY <1>0, <1>11, Effects DEF EndParsing, At
  <2>2. /\ loading' # <<>> /\ Top'.pc = "record" /\ Top'.next = n /\ n = 1
        /\ \A g, i : IsToAdd(g, i)' <=> g = Graph /\ \E k \in DOMAIN Imports[Graph][c] :
                                                         n <= k /\ Imports[Graph][c][k] = i
    <3>1. n = 1
      BY <1>2, <2>1 DEF LoadingPC
    <3>2. /\ loading' # <<>> /\ Top'.pc = "record" /\ Top'.next = n
          /\ \A g, i : IsToAdd(g, i)' <=> g = Graph /\ \E k \in DOMAIN Imports[Graph][c] :
                                                         n <= k /\ Imports[Graph][c][k] = i
      <4> HIDE DEF v, c, n
      <4> QED
        BY <1>2, <1>6, <2>1
    <3> QED
      BY <3>1, <3>2
  <2>3. \A g : KnownImports(g)' = KnownImports(g)
    BY <2>1 DEF KnownImports, ImportsIn, hierarchy
  <2>4. \A g \in Ontologies \ {Graph} : StoredImports(g)' = StoredImports(g)
    <3>1. \A g \in Ontologies \ {Graph} : \A t : t.graph = g => (t \in triples <=> t \in triples')
      BY <2>1 DEF Stored
    <3> QED
      BY <3>1, SameImports
  <2>5. ASSUME NEW g \in Ontologies, g = Graph, NEW i
        PROVE  i \in StoredImports(g)' <=> i \in StoredImports(g) \/ i \in Range(Imports[g][c])
    <3>1. {u \in triples' : u.graph = g /\ u.batch = 2}
             = {u \in triples : u.graph = g /\ u.batch = 2} \cup {Stored(g, c, 2)}
      BY <2>1, <2>5 DEF Stored
    <3>2. Stored(g, c, 2).graph = g /\ Stored(g, c, 2).version = c
      BY DEF Stored
    <3> HIDE DEF c
    <3> QED
      BY <3>1, <3>2 DEF StoredImports
  <2>6. \A i : i \in Range(Imports[Graph][c]) <=> \E k \in DOMAIN Imports[Graph][c] : n <= k /\ Imports[Graph][c][k] = i
    <3>1. Imports[Graph][c] \in Seq(Ontologies)
      BY <1>2, <2>1
    <3>2. \A k \in DOMAIN Imports[Graph][c] : 1 <= k
      BY <3>1, LenProperties
    <3> QED
      BY <2>2, <3>2 DEF Range
  <2>7. \A g, i : ~IsToAdd(g, i)
    BY <2>1 DEF IsToAdd
  <2>8. \A g, i \in Ontologies : i \in StoredImports(g)' <=> i \in StoredImports(g) \/ IsToAdd(g, i)'
    <3> HIDE DEF c, n
    <3> QED
      BY <2>2, <2>4, <2>5, <2>6
  <2>9. \A g, i \in Ontologies : i \in StoredImports(g)' <=> i \in KnownImports(g)' \/ IsToAdd(g, i)'
    BY <1>2, <1>3, <2>1, <2>3, <2>7, <2>8
  <2> QED
    BY <1>2, <2>1, <2>2, <2>9 DEF PairsHold
<1>12. CASE FailToParse
  BY <1>12 DEF FailToParse
<1>13. CASE SetVersion
  <2>1. /\ loading # <<>> /\ Top.pc = "record" /\ Becomes("hierarchy", v, c, n)
        /\ UNCHANGED <<triples, hierarchy, unread>>
    BY <1>0, <1>13, Effects DEF SetVersion, At
  <2>2. /\ loading' # <<>> /\ Top'.pc = "hierarchy"
        /\ \A g, i : IsToAdd(g, i)' <=> g = Graph /\ \E k \in DOMAIN Imports[Graph][c] :
                                                         n <= k /\ Imports[Graph][c][k] = i
    <3> HIDE DEF v, c, n
    <3> QED
      BY <1>2, <1>6, <2>1
  <2>3. \A g, i : IsToAdd(g, i) <=> g = Graph /\ \E k \in DOMAIN Imports[Graph][c] :
                                                         n <= k /\ Imports[Graph][c][k] = i
    BY <1>2, <2>1 DEF IsToAdd, ContentImports
  <2> QED
    BY <1>2, <1>4, <2>1, <2>2, <2>3 DEF LoadingPC
<1>14. CASE UpdateImport
  <2>1. /\ loading # <<>> /\ Top.pc = "hierarchy" /\ Becomes("hierarchy", v, c, n + 1)
        /\ n <= Len(ContentImports) /\ UNCHANGED <<triples, unread>>
        /\ SetHierarchy(addDirectImport(Current, Graph, ContentImports[n]))
    BY <1>0, <1>14, Effects DEF UpdateImport, At, database
  <2>2. n \in DOMAIN ContentImports /\ ContentImports[n] \in Ontologies /\ n \in Nat \ {0} /\ n + 1 \in Nat \ {0}
    <3>1. ContentImports \in Seq(Ontologies) /\ n \in Nat \ {0}
      BY <1>2, <2>1
    <3> QED
      BY <2>1, <3>1, LenProperties
  <2>3. /\ loading' # <<>> /\ Top'.pc = "hierarchy"
        /\ \A g, i : IsToAdd(g, i)' <=> g = Graph /\ \E k \in DOMAIN Imports[Graph][c] :
                                                         n + 1 <= k /\ Imports[Graph][c][k] = i
    <3> DEFINE m == n + 1
    <3>1. m \in Nat \ {0} /\ Becomes("hierarchy", v, c, m)
      BY <2>1, <2>2
    <3>2. /\ loading' # <<>> /\ Top'.pc = "hierarchy"
          /\ \A g, i : IsToAdd(g, i)' <=> g = Graph /\ \E k \in DOMAIN Imports[Graph][c] :
                                                         m <= k /\ Imports[Graph][c][k] = i
      <4> HIDE DEF v, c, n, m
      <4> QED
        BY <1>2, <1>6, <2>1, <3>1
    <3> QED
      BY <3>2
  <2>4. \A g, i : IsToAdd(g, i) <=> g = Graph /\ \E k \in DOMAIN Imports[Graph][c] :
                                                         n <= k /\ Imports[Graph][c][k] = i
    BY <1>2, <2>1 DEF IsToAdd, ContentImports
  <2>5. \A g, i : IsToAdd(g, i) <=> IsToAdd(g, i)' \/ (g = Graph /\ i = ContentImports[n])
    <3>1. \A k \in DOMAIN Imports[Graph][c] : n <= k <=> k = n \/ n + 1 <= k
      <4>1. \A k \in DOMAIN Imports[Graph][c] : k \in Nat
        BY <1>2, <2>1, LenProperties
      <4> QED
        BY <2>2, <4>1
    <3>2. ContentImports = Imports[Graph][c]
      BY <1>2, <2>1
    <3> HIDE DEF n, c
    <3> QED
      BY <2>2, <2>3, <2>4, <3>1, <3>2
  <2>6. \A g \in Ontologies : /\ StoredImports(g)' = StoredImports(g)
                              /\ KnownImports(g)' = KnownImports(g)
                                    \cup (IF g = Graph THEN {ContentImports[n]} ELSE {})
    <3>1. Graph \in Ontologies
      BY <1>2, <2>1
    <3>2. \A g \in Ontologies :
             KnownImports(g)' = KnownImports(g) \cup (IF g = Graph THEN {ContentImports[n]} ELSE {})
      BY <2>1, <2>2, <3>1, KnownAdded
    <3> QED
      BY <2>1, <3>2 DEF StoredImports
  <2>7. \A g, i \in Ontologies : i \in KnownImports(g)' \/ IsToAdd(g, i)' <=> i \in KnownImports(g) \/ IsToAdd(g, i)
    BY <2>5, <2>6
  <2>8. loading' # <<>> => unread' = {} /\ (Top'.pc \in LoadingPC => Top'.next = 1)
    BY <1>2, <2>1, <2>3 DEF LoadingPC
  <2> QED
    BY <1>3, <2>1, <2>6, <2>7, <2>8 DEF PairsHold
<1>15. CASE EndUpdate
  <2>1. /\ loading # <<>> /\ Top.pc = "hierarchy" /\ Becomes("imports", v, c, 1)
        /\ n > Len(ContentImports) /\ UNCHANGED <<triples, hierarchy, unread>>
    BY <1>0, <1>15, Effects DEF EndUpdate, At, database
  <2>2. /\ loading' # <<>> /\ Top'.pc = "imports" /\ \A g, i : ~IsToAdd(g, i)'
    <3>1. 1 \in Nat \ {0}
      OBVIOUS
    <3> HIDE DEF v, c, n
    <3> QED
      BY <1>2, <1>6, <2>1, <3>1
  <2>3. \A k \in DOMAIN ContentImports : ~(n <= k)
    <3>1. ContentImports \in Seq(Ontologies) /\ n \in Nat
      BY <1>2, <2>1
    <3> QED
      BY <2>1, <3>1, LenProperties
  <2>4. \A g, i : ~IsToAdd(g, i)
    BY <2>3 DEF IsToAdd
  <2> QED
    BY <1>2, <1>4, <2>1, <2>2, <2>4 DEF LoadingPC
<1>16. CASE LoadImport
  <2>1. loading # <<>> /\ Top.pc = "imports" /\ UNCHANGED <<triples, hierarchy, unread>>
    BY <1>16 DEF LoadImport, At, database
  <2>2. loading' # <<>> /\ Top'.pc = "check" /\ Top'.next = 1
    <3>1. loading' # <<>> /\ Top' = Activation(ContentImports[n], "check", 0, 0, 1)
      BY <1>0, <1>16, LoadImportTop
    <3> QED
      BY <3>1 DEF Activation
  <2> QED
    BY <1>2, <1>5, <2>1, <2>2
<1>17. CASE LoadReturns
  <2>1. /\ loading # <<>> /\ Top.pc = "imports" /\ loading' = Tail(loading)
        /\ UNCHANGED <<triples, hierarchy, unread, fileVersion>>
    BY <1>17 DEF LoadReturns, At, Returns, database
  <2> QED
    BY <1>7, <2>1
<1>18. CASE LoadSource
  <2>1. /\ loading = <<>> /\ unread = {} /\ UNCHANGED <<triples, hierarchy, unread>>
        /\ loading' = <<Call(Head(sources))>>
    BY <1>18 DEF LoadSource, database
  <2>2. loading' # <<>> /\ Top' = Call(Head(sources))
    BY <2>1 DEF Top
  <2>3. Top'.pc = "check" /\ Top'.next = 1
    BY <2>2 DEF Call
  <2> QED
    BY <1>5, <2>1, <2>2, <2>3
<1>19. CASE Restart
  <2>1. /\ loading = <<>> /\ loading' = <<>> /\ unread' = StoredPairs /\ triples' = triples
        /\ directImports' = NoImports
    BY <1>19 DEF Restart, SetHierarchy, database
  <2>2. \A g, i \in Ontologies : i \in StoredImports(g) <=> <<g, i>> \in StoredPairs
    BY <1>1, <2>1, StoredIsRecorded
  <2>3. \A g, i : ~IsToAdd(g, i)' /\ KnownImports(g)' = {} /\ StoredImports(g)' = StoredImports(g)
    BY <2>1 DEF IsToAdd, KnownImports, NoImports, StoredImports
  <2> QED
    BY <2>1, <2>2, <2>3 DEF PairsHold
<1>20. CASE ReadImport
  <2>1. PICK p \in unread : /\ SetHierarchy(addDirectImport(Current, p[1], p[2]))
                            /\ unread' = unread \ {p} /\ UNCHANGED <<triples, loading>>
    BY <1>20 DEF ReadImport, database
  <2>2. loading = <<>> /\ p[1] \in Ontologies /\ p[2] \in Ontologies /\ p = <<p[1], p[2]>>
    BY <1>0, <1>1 DEF PairsHold, TypeOK
  <2>3. \A g, i : ~IsToAdd(g, i) /\ ~IsToAdd(g, i)' /\ StoredImports(g)' = StoredImports(g)
    BY <2>1, <2>2 DEF IsToAdd, StoredImports
  <2>4. \A g \in Ontologies : KnownImports(g)' = KnownImports(g) \cup (IF g = p[1] THEN {p[2]} ELSE {})
    BY <2>1, <2>2, KnownAdded
  <2>5. \A g, i \in Ontologies : <<g, i>> \in unread <=> <<g, i>> \in unread' \/ (g = p[1] /\ i = p[2])
    BY <2>1, <2>2
  <2> QED
    BY <1>3, <2>1, <2>2, <2>3, <2>4, <2>5 DEF PairsHold
<1>21. ASSUME UNCHANGED <<triples, hierarchy, unread, loading>> PROVE PairsHold'
  <2>1. \A g, i \in Ontologies : IsToAdd(g, i)' <=> IsToAdd(g, i)
    BY <1>21 DEF IsToAdd, Top, ContentImports, Graph
  <2>2. loading' # <<>> => unread = {} /\ (Top'.pc \in LoadingPC => Top'.next = 1)
    BY <1>1, <1>21 DEF PairsHold, Top
  <2> QED
    BY <1>4, <1>21, <2>1, <2>2
<1>22. ASSUME NEW g \in Ontologies, FileChanges(g) PROVE PairsHold'
  BY <1>21, <1>22 DEF FileChanges, database
<1>23. CASE UNCHANGED vars
  BY <1>21, <1>23 DEF vars, database
<1> QED
  BY <1>8, <1>9, <1>10, <1>11, <1>12, <1>13, <1>14, <1>15, <1>16, <1>17, <1>18, <1>19, <1>20, <1>22, <1>23
     DEF Next, loadFile

\* When nothing is to be read or added, what is known is what is stored, so that its
\* closure is what the stored imports reach.
LEMMA ReachIsClosure ==
    ASSUME TypeOK, HierarchyInv, RecordInv, LoadedInv, PairsHold, unread = {}, loading = <<>>,
           "interrupted" \notin windows, NEW g \in Ontologies
    PROVE  getImports(g) = StoredReach(g)
<1>1. \A k, i \in Ontologies : i \in KnownImports(k) <=> <<k, i>> \in StoredPairs
  <2>1. \A k, i : ~IsToAdd(k, i)
    BY DEF IsToAdd
  <2>2. \A k, i \in Ontologies : i \in StoredImports(k) <=> <<k, i>> \in StoredPairs
    BY StoredIsRecorded
  <2> QED
    BY <2>1, <2>2 DEF PairsHold
<1>2. \A p \in StoredPairs : p[1] \in Ontologies /\ p[2] \in Ontologies /\ p = <<p[1], p[2]>>
  BY DEF StoredPairs
<1>3. /\ DOMAIN imports = DOMAIN directImports /\ DOMAIN imports \subseteq Ontologies
      /\ \A k \in DOMAIN imports : imports[k] \subseteq DOMAIN imports /\ Holds(directImports, imports[k], k)
            /\ \A S \in SUBSET imports[k] : Holds(directImports, S, k) => S = imports[k]
      /\ \A k \in DOMAIN imports : KnownImports(k) = ImportsIn(directImports, k)
            /\ KnownImports(k) \subseteq Ontologies
  BY DEF HierarchyInv, IsHierarchy, KnownImports, ImportsIn
<1>4. \A S \in SUBSET Ontologies :
         (\A p \in StoredPairs : p[1] \in S \cup {g} => p[2] \in S)
            <=> \A k \in S \cup {g} : \A i \in Ontologies : i \in KnownImports(k) => i \in S
  <2> SUFFICES ASSUME NEW S \in SUBSET Ontologies
               PROVE  (\A p \in StoredPairs : p[1] \in S \cup {g} => p[2] \in S)
                         <=> \A k \in S \cup {g} : \A i \in Ontologies : i \in KnownImports(k) => i \in S
    OBVIOUS
  <2>1. ASSUME \A p \in StoredPairs : p[1] \in S \cup {g} => p[2] \in S,
               NEW k \in S \cup {g}, NEW i \in Ontologies, i \in KnownImports(k)
        PROVE  i \in S
    <3>1. k \in Ontologies
      OBVIOUS
    <3>2. <<k, i>> \in StoredPairs
      BY <1>1, <2>1, <3>1
    <3> QED
      BY <2>1, <3>2
  <2>2. ASSUME \A k \in S \cup {g} : \A i \in Ontologies : i \in KnownImports(k) => i \in S,
               NEW p \in StoredPairs, p[1] \in S \cup {g}
        PROVE  p[2] \in S
    <3>1. p[2] \in KnownImports(p[1]) /\ p[2] \in Ontologies
      BY <1>1, <1>2
    <3> QED
      BY <2>2, <3>1
  <2> QED
    BY <2>1, <2>2
<1>5. CASE g \in DOMAIN imports
  <2>1. ASSUME NEW i \in imports[g], NEW S \in SUBSET Ontologies,
               \A k \in S \cup {g} : \A j \in Ontologies : j \in KnownImports(k) => j \in S
        PROVE  i \in S
    <3>1. imports[g] \subseteq DOMAIN imports
      BY <1>3, <1>5
    <3>2. Holds(directImports, S \cap imports[g], g)
      BY <1>3, <1>5, <2>1, <3>1 DEF Holds
    <3>3. S \cap imports[g] = imports[g]
      BY <1>3, <1>5, <3>2
    <3> QED
      BY <3>3
  <2>2. imports[g] \in SUBSET Ontologies
    BY <1>3, <1>5
  <2>3. \A k \in imports[g] \cup {g} : \A j \in Ontologies : j \in KnownImports(k) => j \in imports[g]
    BY <1>3, <1>5 DEF Holds
  <2> QED
    BY <1>4, <1>5, <2>1, <2>2, <2>3 DEF getImports, StoredReach
<1>6. CASE g \notin DOMAIN imports
  <2>1. KnownImports(g) = {}
    BY <1>3, <1>6 DEF KnownImports
  <2>2. \A k \in {} \cup {g} : \A i \in Ontologies : i \in KnownImports(k) => i \in {}
    BY <2>1
  <2>3. \A p \in StoredPairs : p[1] \in {} \cup {g} => p[2] \in {}
    BY <1>1, <1>2, <2>1
  <2> QED
    BY <1>6, <2>3 DEF getImports, StoredReach
<1> QED
  BY <1>5, <1>6

\* A restart restores the hierarchy of imports: whenever no load is under way, getImports
\* gives what the stored imports reach, unless a load was interrupted or an imported graph
\* was dropped.
THEOREM RestartSafe == Spec => []HierarchySurvivesRestart
<1> DEFINE Inv == RecordInv /\ LoadedInv /\ HierarchyInv /\ PairsInv
<1>1. Inv => HierarchySurvivesRestart
  BY ReachIsClosure DEF HierarchySurvivesRestart, PairsInv, RecordInv
<1>2. Init => Inv
  <2> SUFFICES ASSUME Init PROVE LoadedInv /\ HierarchyInv /\ PairsHold
    BY InitRecord DEF PairsInv
  <2>1. LoadedInv /\ HierarchyInv
    BY DEF Init, LoadedInv, Recorded, HierarchyInv, IsHierarchy, NoImports
  <2>2. \A g, i : ~IsToAdd(g, i) /\ StoredImports(g) = {} /\ KnownImports(g) = {} /\ unread = {}
    BY DEF Init, IsToAdd, StoredImports, KnownImports, NoImports
  <2>3. loading = <<>>
    BY DEF Init
  <2> QED
    BY <2>1, <2>2, <2>3 DEF PairsHold
<1>3. Inv /\ [Next]_vars => Inv'
  BY RecordStep, LoadedStep, HierarchyStep, PairsStep
<1> QED
  BY <1>1, <1>2, <1>3, PTL DEF Spec
=============================================================================
