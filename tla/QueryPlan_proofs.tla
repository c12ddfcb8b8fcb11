-------------------------- MODULE QueryPlan_proofs --------------------------
(***************************************************************************)
(* What a planned path promises, for any formulas, predicates and          *)
(* variables: EOS is output after the answers of all paths that were       *)
(* connected while one before them was running, each literal of a sequence *)
(* but the first gets bindings from one before, and unless groups were     *)
(* merged, each literal is evaluated once, together with exactly the       *)
(* literals it is connected to.                                            *)
(*                                                                         *)
(* The three follow from QueryPlanInv, which is inductive. A group of the  *)
(* dependency graph is connected: no part of it contains all of its own    *)
(* neighbors. The visit of a group leaves a literal only when all of its   *)
(* neighbors are in the sequence, so in the end the sequence is such a     *)
(* part unless it is all of the group.                                     *)
(*                                                                         *)
(* The lemmas: sequences, the query tree, the insertion of a literal, the  *)
(* visit of a group, and every action.                                     *)
(***************************************************************************)
EXTENDS QueryPlan, SequenceTheorems, FiniteSetTheorems, TLAPS

\* The literals of the path, by their positions.
Literals == DOMAIN neighbors

\* The tree and the paths it has given are finite.
TreeInv ==
    /\ nodes \in Seq(Range(nodes))
    /\ \A n \in DOMAIN nodes : "formula" \in DOMAIN nodes[n] /\ nodes[n].formula \in Formulas
    /\ paths \in Seq(Range(paths))
    /\ \A k \in DOMAIN paths : IsFiniteSet(DOMAIN paths[k])

Typed ==
    /\ current \in 0 .. Len(paths)
    /\ status \in {"expand", "next", "insert", "returned", "thrown"}
    /\ status = "expand" => current = 0
    /\ status = "insert" => current > 0
    /\ status = "returned" => current = Len(paths)
    /\ IsFiniteSet(Literals)
    /\ current > 0 => Literals = DOMAIN Path
    /\ current = 0 => Literals = {} /\ groups = {}
    /\ neighbors \in [Literals -> SUBSET Literals]
    /\ unsorted \in Seq(Literals) /\ stack \in Seq(Literals) /\ edbOnly \subseteq Literals
    /\ merged \in BOOLEAN /\ isOpened \in BOOLEAN
    /\ IsFiniteSet(groups) /\ \A g \in groups : g.members \in Seq(Literals)
    /\ sequences = [g \in DOMAIN sequences |-> sequences[g]] /\ DOMAIN sequences \subseteq groups
    /\ \A g \in DOMAIN sequences : sequences[g] \in Seq(Literals) /\ sequences[g] # <<>>
    /\ stack # <<>> => status = "insert" /\ group \in DOMAIN sequences
    /\ unsorted # <<>> => status = "insert"
    /\ unsorted # <<>> => DOMAIN sequences = {}

\* A thread has erased the last channel, and so EOS is output or will be.
HasRunEmpty == eosSent \/ ~isOpened \/ \E q \in DOMAIN eos : eos[q] \in {"push", "close"}

\* The paths submitted so far were connected. Those that came in time are in channels_ until
\* their EOS takes them out, with all of their answers output; once channels_ has run
\* empty they all have ended.
ChannelInv ==
    /\ status \in {"expand", "next", "returned"} => DOMAIN eos = 1 .. current
    /\ status = "insert" => DOMAIN eos = 1 .. current - 1
    /\ channels \subseteq DOMAIN eos /\ inTime \subseteq DOMAIN eos
    /\ \A p \in inTime : p \in channels <=> eos[p] \in {"answers", "erase"}
    /\ \A p \in inTime : eos[p] # "answers" => p \in answered
    /\ HasRunEmpty => DOMAIN eos # {} /\ \A p \in inTime : p \notin channels

\* Neighbors share a variable, and are visited from one that is in the sequence.
NeighborInv ==
    /\ \A l \in Literals : \A m \in neighbors[l] : Vars(m) \cap Vars(l) # {}
    /\ stack # <<>> => Range(stack) \subseteq Range(Sequence)

\* The literals that were inserted into the graph.
Inserted == AllComputable \ Range(unsorted)
Members == UNION {Range(g.members) : g \in groups}

\* A set of literals that no neighbor leads out of.
IsClosed(S) == \A l \in S : neighbors[l] \subseteq S

\* While no groups are merged, the groups are the connected parts of the literals
\* inserted.
GroupInv ==
    ~merged =>
        /\ IsInjective(unsorted)
        /\ current > 0 => Range(unsorted) \subseteq AllComputable /\ Members = Inserted
        /\ \A g \in groups :
              /\ g.variables = UNION {Vars(m) : m \in Range(g.members)}
              /\ \A l \in Range(g.members) :
                    neighbors[l] = {m \in Range(g.members) : m # l /\ Vars(m) \cap Vars(l) # {}}
              /\ \A S \in SUBSET Range(g.members) : S # {} /\ IsClosed(S) => S = Range(g.members)
        /\ \A g, h \in groups : g # h => g.variables \cap h.variables = {} /\ Range(g.members) \cap Range(h.members) = {}

\* While no groups are merged, a sequence has literals of its group, each once, and in the end
\* all of them: those that are not on the stack have no neighbors that are not in the sequence.
SequenceInv ==
    ~merged =>
        \A g \in DOMAIN sequences :
            /\ IsInjective(sequences[g])
            /\ Range(sequences[g]) \subseteq Range(g.members)
            /\ \A l \in Range(sequences[g]) :
                  (g = group => l \notin Range(stack)) => neighbors[l] \subseteq Range(sequences[g])

QueryPlanInv ==
    /\ TreeInv /\ Typed /\ ChannelInv /\ NeighborInv /\ EachStepIsBound
    /\ GroupInv /\ SequenceInv

-----------------------------------------------------------------------------
(* Sequences and sets                                                        *)

\* A list that is written by its members is a sequence.
LEMMA Listed ==
    ASSUME NEW n \in Nat, NEW S, NEW f(_), \A k \in 1 .. n : f(k) \in S
    PROVE  LET q == [k \in 1 .. n |-> f(k)] IN q \in Seq(S) /\ Len(q) = n
OBVIOUS

\* A sequence is one of its own members.
LEMMA OwnRange ==
    ASSUME NEW S, NEW s \in Seq(S)
    PROVE  s \in Seq(Range(s)) /\ Range(s) \subseteq S
<1>1. DOMAIN s = 1 .. Len(s) /\ Len(s) \in Nat /\ \A k \in DOMAIN s : s[k] \in S
  OBVIOUS
<1>2. s = [k \in 1 .. Len(s) |-> s[k]] /\ \A k \in 1 .. Len(s) : s[k] \in Range(s)
  BY <1>1 DEF Range
<1> DEFINE f(k) == s[k]
<1>3. [k \in 1 .. Len(s) |-> f(k)] \in Seq(Range(s))
  <2>1. \A k \in 1 .. Len(s) : f(k) \in Range(s)
    BY <1>2
  <2> HIDE DEF f
  <2> QED BY <1>1, <2>1, Listed
<1> QED BY <1>1, <1>2, <1>3 DEF Range

\* SetToSeq and SetToSeqs list a finite set.
LEMMA SetToSeqLists ==
    ASSUME NEW S, IsFiniteSet(S)
    PROVE  /\ SetToSeq(S) \in Seq(S)
           /\ DOMAIN SetToSeq(S) = 1 .. Len(SetToSeq(S)) /\ Len(SetToSeq(S)) \in Nat
<1>1. Cardinality(S) \in Nat /\ ExistsBijection(1 .. Cardinality(S), S)
  BY FS_CardinalityType
<1>2. \E f \in [1 .. Cardinality(S) -> S] : IsInjective(f)
  BY <1>1 DEF ExistsBijection, Bijection, Injection
<1>3. SetToSeq(S) \in [1 .. Cardinality(S) -> S]
  BY <1>2 DEF SetToSeq
<1> QED BY <1>1, <1>3

LEMMA SetToSeqsList ==
    ASSUME NEW S, IsFiniteSet(S), NEW s \in SetToSeqs(S)
    PROVE  s \in Seq(S) /\ IsInjective(s) /\ Range(s) = S
<1>1. Cardinality(S) \in Nat
  BY FS_CardinalityType
<1>2. s \in [1 .. Cardinality(S) -> S] /\ \A i, j \in 1 .. Cardinality(S) : i # j => s[i] # s[j]
  BY DEF SetToSeqs
<1>3. s \in Injection(1 .. Cardinality(S), S) /\ IsInjective(s)
  BY <1>2 DEF Injection, IsInjective
<1>4. Cardinality(1 .. Cardinality(S)) = Cardinality(S)
  BY <1>1, FS_Interval
<1>5. s \in Surjection(1 .. Cardinality(S), S)
  BY <1>3, <1>4, FS_Injection
<1>6. Range(s) = S
  BY <1>2, <1>5 DEF Surjection, Range
<1> QED BY <1>1, <1>2, <1>3, <1>6

\* Members of a sequence that is extended.
LEMMA Appended ==
    ASSUME NEW S, NEW s \in Seq(S), NEW x
    PROVE  /\ Range(Append(s, x)) = Range(s) \cup {x}
           /\ IsInjective(s) /\ x \notin Range(s) => IsInjective(Append(s, x))
<1>1. /\ DOMAIN s = 1 .. Len(s) /\ Len(s) \in Nat
      /\ DOMAIN Append(s, x) = 1 .. Len(s) + 1
      /\ \A k \in 1 .. Len(s) : Append(s, x)[k] = s[k]
      /\ Append(s, x)[Len(s) + 1] = x
  OBVIOUS
<1>2. \A k \in DOMAIN Append(s, x) : k \in DOMAIN s \/ k = Len(s) + 1
  BY <1>1
<1> HIDE DEF Range
<1>3. ASSUME NEW y PROVE y \in Range(Append(s, x)) <=> y \in Range(s) \cup {x}
  <2>1. y \in Range(Append(s, x)) <=> \E k \in 1 .. Len(s) + 1 : y = Append(s, x)[k]
    BY <1>1 DEF Range
  <2>2. y \in Range(s) <=> \E k \in 1 .. Len(s) : y = s[k]
    BY <1>1 DEF Range
  <2> QED BY <1>1, <2>1, <2>2
<1>4. ASSUME IsInjective(s), x \notin Range(s) PROVE IsInjective(Append(s, x))
  BY <1>1, <1>2, <1>4 DEF IsInjective, Range
<1> QED BY <1>3, <1>4

\* A sequence without its head.
LEMMA Tailed ==
    ASSUME NEW S, NEW s \in Seq(S), s # <<>>
    PROVE  /\ Head(s) \in Range(s) /\ Range(s) = {Head(s)} \cup Range(Tail(s))
           /\ Tail(s) \in Seq(S)
           /\ IsInjective(s) => IsInjective(Tail(s)) /\ Head(s) \notin Range(Tail(s))
<1>1. /\ DOMAIN s = 1 .. Len(s) /\ Len(s) \in Nat /\ Len(s) > 0
      /\ DOMAIN Tail(s) = 1 .. Len(s) - 1
      /\ \A k \in 1 .. Len(s) - 1 : Tail(s)[k] = s[k + 1]
      /\ Head(s) = s[1] /\ Tail(s) \in Seq(S)
  OBVIOUS
<1>2. \A k \in 1 .. Len(s) : (k = 1) \/ (k - 1 \in 1 .. Len(s) - 1 /\ s[k] = Tail(s)[k - 1])
  BY <1>1
<1>3. ASSUME NEW y PROVE y \in Range(s) <=> y \in {Head(s)} \cup Range(Tail(s))
  <2>1. y \in Range(s) <=> \E k \in 1 .. Len(s) : y = s[k]
    BY <1>1 DEF Range
  <2>2. y \in Range(Tail(s)) <=> \E k \in 1 .. Len(s) - 1 : y = Tail(s)[k]
    BY <1>1 DEF Range
  <2>3. \A k \in 1 .. Len(s) - 1 : k + 1 \in 1 .. Len(s)
    BY <1>1
  <2> QED BY <1>1, <1>2, <2>1, <2>2, <2>3
<1>4. ASSUME IsInjective(s) PROVE IsInjective(Tail(s)) /\ Head(s) \notin Range(Tail(s))
  <2>1. \A j, k \in 1 .. Len(s) : s[j] = s[k] => j = k
    BY <1>1, <1>4 DEF IsInjective
  <2>2. \A j, k \in 1 .. Len(s) - 1 : Tail(s)[j] = Tail(s)[k] => j = k
    BY <1>1, <2>1
  <2>3. IsInjective(Tail(s))
    BY <1>1, <2>2 DEF IsInjective
  <2>4. \A k \in 1 .. Len(s) - 1 : Tail(s)[k] # Head(s)
    BY <1>1, <2>1
  <2>5. Head(s) \notin Range(Tail(s))
    BY <1>1, <2>4 DEF Range
  <2> QED BY <2>3, <2>5
<1> QED BY <1>1, <1>3, <1>4

-----------------------------------------------------------------------------
(* The query tree                                                            *)

\* The nodes that are added have formulas, too.
LEMMA ChildrenListed ==
    ASSUME TreeInv, NEW n \in DOMAIN nodes, nodes[n].formula.type # "PREDICATE"
    PROVE  LET new == AllChildren(n)
           IN /\ new \in Seq(Range(new))
              /\ \A i \in DOMAIN new : "formula" \in DOMAIN new[i] /\ new[i].formula \in Formulas
<1> DEFINE leafs == SetToSeq(getLeafs(n))
           parts == nodes[n].formula.parts
           numParts == Len(parts)
           part(i) == ((i - 1) % numParts) + 1
           leafOf(i) == leafs[((i - 1) \div numParts) + 1]
           f(i) == Child(n, part(i), IF IsChain(n) /\ part(i) > 1 THEN Len(nodes) + i - 1 ELSE leafOf(i))
<1>1. parts \in Seq(Formulas)
  BY FormulaAssumption DEF TreeInv
<1>2. numParts \in Nat /\ \A k \in 1 .. numParts : parts[k] \in Formulas
  BY <1>1
<1>3. IsFiniteSet(DOMAIN nodes)
  <2>1. DOMAIN nodes = 1 .. Len(nodes) /\ Len(nodes) \in Nat
    BY DEF TreeInv
  <2> QED BY <2>1, FS_Interval
<1>4. IsFiniteSet(getLeafs(n))
  BY <1>3, FS_Subset DEF getLeafs
<1>5. Len(leafs) \in Nat
  BY <1>4, SetToSeqLists
<1>6. AllChildren(n) = [i \in 1 .. Len(leafs) * numParts |-> f(i)]
  BY DEF AllChildren
<1>7. Len(leafs) * numParts \in Nat
  <2> HIDE DEF leafs, numParts
  <2> QED BY <1>2, <1>5
<1>8. ASSUME NEW i \in 1 .. Len(leafs) * numParts
      PROVE  "formula" \in DOMAIN f(i) /\ f(i).formula \in Formulas
  <2>1. numParts > 0
    <3> HIDE DEF leafs, numParts
    <3> QED BY <1>2, <1>5, <1>8
  <2>2. part(i) \in 1 .. numParts
    <3>1. i - 1 \in Int
      BY <1>7
    <3>2. (i - 1) % numParts \in 0 .. numParts - 1
      <4> HIDE DEF leafs, numParts
      <4> QED BY <1>2, <2>1, <3>1
    <3> QED
      <4> HIDE DEF leafs, numParts
      <4> QED BY <1>2, <3>2
  <2>3. \A k, p : "formula" \in DOMAIN Child(n, k, p) /\ Child(n, k, p).formula = parts[k]
    BY DEF Child
  <2> HIDE DEF part, leafs, parts
  <2> QED BY <1>2, <2>2, <2>3
<1> HIDE DEF f, leafs, parts, numParts
<1>9. AllChildren(n) \in Seq({f(i) : i \in 1 .. Len(leafs) * numParts})
  BY <1>6, <1>7, Listed
<1>10. DOMAIN AllChildren(n) = 1 .. Len(leafs) * numParts
  BY <1>6
<1> QED BY <1>6, <1>8, <1>9, <1>10, OwnRange

\* So do nodes that are concatenated.
LEMMA Concatenated ==
    ASSUME NEW s, NEW t, s \in Seq(Range(s)), t \in Seq(Range(t))
    PROVE  /\ s \o t \in Seq(Range(s \o t))
           /\ \A k \in DOMAIN (s \o t) :
                 \/ k \in DOMAIN s /\ (s \o t)[k] = s[k]
                 \/ \E i \in DOMAIN t : (s \o t)[k] = t[i]
<1> DEFINE S == Range(s) \cup Range(t)
<1>1. s \in Seq(S) /\ t \in Seq(S)
  <2>1. \A A, B : A \subseteq B => Seq(A) \subseteq Seq(B)
    OBVIOUS
  <2> QED BY <2>1
<1> HIDE DEF S
<1>2. s \o t \in Seq(S)
  BY <1>1
<1>3. s \o t \in Seq(Range(s \o t))
  BY <1>2, OwnRange
<1>4. /\ DOMAIN s = 1 .. Len(s) /\ DOMAIN t = 1 .. Len(t) /\ Len(s) \in Nat /\ Len(t) \in Nat
      /\ DOMAIN (s \o t) = 1 .. Len(s) + Len(t)
      /\ \A k \in 1 .. Len(s) + Len(t) : (s \o t)[k] = IF k <= Len(s) THEN s[k] ELSE t[k - Len(s)]
  BY <1>1
<1>5. ASSUME NEW k \in DOMAIN (s \o t)
      PROVE  (k \in DOMAIN s /\ (s \o t)[k] = s[k]) \/ \E i \in DOMAIN t : (s \o t)[k] = t[i]
  <2>1. CASE k <= Len(s)
    BY <1>4, <2>1
  <2>2. CASE ~(k <= Len(s))
    BY <1>4, <2>2
  <2> QED BY <2>1, <2>2
<1> QED BY <1>3, <1>5

\* The paths a predicate completes are finite.
LEMMA PathsListed ==
    ASSUME TreeInv, NEW n \in DOMAIN nodes
    PROVE  LET new == CompletePaths(n)
           IN new \in Seq(Range(new)) /\ \A i \in DOMAIN new : IsFiniteSet(DOMAIN new[i])
<1> DEFINE S == {leaf \in getLeafs(n) : hasCompletePath(leaf, n)}
           leafs == SetToSeq(S)
           f(i) == constructPath(leafs[i])
<1>1. IsFiniteSet(DOMAIN nodes)
  <2>1. DOMAIN nodes = 1 .. Len(nodes) /\ Len(nodes) \in Nat
    BY DEF TreeInv
  <2> QED BY <2>1, FS_Interval
<1>2. IsFiniteSet(S)
  BY <1>1, FS_Subset DEF getLeafs
<1>3. DOMAIN leafs = 1 .. Len(leafs) /\ Len(leafs) \in Nat
  BY <1>2, SetToSeqLists
<1>4. CompletePaths(n) = [i \in 1 .. Len(leafs) |-> f(i)]
  BY <1>3 DEF CompletePaths
<1>5. ASSUME NEW m PROVE IsFiniteSet(DOMAIN constructPath(m))
  <2> DEFINE P == {k \in Branch(m) : nodes[k].formula.type = "PREDICATE"}
  <2>1. IsFiniteSet(P)
    BY <1>1, FS_Subset DEF Branch
  <2>2. DOMAIN constructPath(m) = DOMAIN SetToSeq(P)
    BY DEF constructPath
  <2> QED BY <2>1, <2>2, SetToSeqLists, FS_Interval
<1>6. \A i : IsFiniteSet(DOMAIN f(i))
  BY <1>5
<1> HIDE DEF f, leafs
<1>7. CompletePaths(n) \in Seq({f(i) : i \in 1 .. Len(leafs)})
  BY <1>3, <1>4, Listed
<1> QED BY <1>4, <1>6, <1>7, OwnRange

\* A step of the expansion.
LEMMA TreeStep ==
    ASSUME TreeInv, expandNextNode
    PROVE  TreeInv'
<1>1. PICK n \in Open :
         IF nodes[n].formula.type = "PREDICATE"
         THEN paths' = paths \o CompletePaths(n) /\ nodes' = Close(n)
         ELSE nodes' = Close(n) \o AllChildren(n) /\ UNCHANGED paths
  BY DEF expandNextNode
<1>2. n \in DOMAIN nodes
  BY DEF Open
<1>3. /\ Close(n) \in Seq(Range(Close(n))) /\ DOMAIN Close(n) = DOMAIN nodes
      /\ \A m \in DOMAIN nodes : "formula" \in DOMAIN Close(n)[m] /\ Close(n)[m].formula \in Formulas
  <2>1. DOMAIN Close(n) = DOMAIN nodes
    BY DEF Close
  <2>2. \A m \in DOMAIN nodes : "formula" \in DOMAIN Close(n)[m] /\ Close(n)[m].formula = nodes[m].formula
    <3>1. ASSUME NEW m \in DOMAIN nodes, m # n PROVE Close(n)[m] = nodes[m]
      BY <3>1 DEF Close
    <3>2. Close(n)[n] = [nodes[n] EXCEPT !.isOpen = FALSE]
      BY <1>2 DEF Close
    <3>3. \A r : "formula" \in DOMAIN r =>
            "formula" \in DOMAIN [r EXCEPT !.isOpen = FALSE] /\ [r EXCEPT !.isOpen = FALSE].formula = r.formula
      OBVIOUS
    <3>4. "formula" \in DOMAIN nodes[n]
      BY <1>2 DEF TreeInv
    <3> QED BY <3>1, <3>2, <3>3, <3>4 DEF TreeInv
  <2>3. Close(n) = [m \in 1 .. Len(nodes) |-> Close(n)[m]] /\ Len(nodes) \in Nat
    <3>1. DOMAIN nodes = 1 .. Len(nodes) /\ Len(nodes) \in Nat
      BY DEF TreeInv
    <3>2. Close(n) = [m \in DOMAIN nodes |-> Close(n)[m]]
      BY DEF Close
    <3> QED BY <3>1, <3>2
  <2> DEFINE f(m) == Close(n)[m]
  <2>4. [m \in 1 .. Len(nodes) |-> f(m)] \in Seq({f(m) : m \in 1 .. Len(nodes)})
    <3> HIDE DEF f
    <3> QED BY <2>3, Listed
  <2>5. Close(n) \in Seq({f(m) : m \in 1 .. Len(nodes)})
    BY <2>3, <2>4
  <2> HIDE DEF f
  <2> QED BY <2>1, <2>2, <2>5, OwnRange DEF TreeInv
<1>4. CASE nodes[n].formula.type = "PREDICATE"
  <2>1. paths' = paths \o CompletePaths(n) /\ nodes' = Close(n)
    BY <1>1, <1>4
  <2>2. paths' \in Seq(Range(paths')) /\ \A k \in DOMAIN paths' : IsFiniteSet(DOMAIN paths'[k])
    BY <1>2, <2>1, PathsListed, Concatenated DEF TreeInv
  <2> QED BY <1>3, <2>1, <2>2 DEF TreeInv
<1>5. CASE nodes[n].formula.type # "PREDICATE"
  <2>1. nodes' = Close(n) \o AllChildren(n) /\ paths' = paths
    BY <1>1, <1>5
  <2>2. nodes' \in Seq(Range(nodes'))
    BY <1>2, <1>3, <1>5, <2>1, ChildrenListed, Concatenated
  <2>3. \A k \in DOMAIN nodes' : "formula" \in DOMAIN nodes'[k] /\ nodes'[k].formula \in Formulas
    BY <1>2, <1>3, <1>5, <2>1, ChildrenListed, Concatenated
  <2> QED BY <2>1, <2>2, <2>3 DEF TreeInv
<1> QED BY <1>4, <1>5

-----------------------------------------------------------------------------
(* Steps that leave the plan as it is                                        *)

\* The literals of a path stay the same until the next path.
LEMMA SamePath ==
    ASSUME paths' = paths, current' = current
    PROVE  /\ Path' = Path /\ AllComputable' = AllComputable
           /\ \A l : Vars(l)' = Vars(l)
BY DEF Path, AllComputable, Vars

LEMMA SameGroups ==
    ASSUME GroupInv, paths' = paths, current' = current, unsorted' = unsorted, groups' = groups,
           neighbors' = neighbors, merged' = merged
    PROVE  GroupInv'
<1>1. Inserted' = Inserted /\ Members' = Members /\ \A S : IsClosed(S)' <=> IsClosed(S)
  BY SamePath DEF Inserted, Members, IsClosed
<1> QED BY <1>1, SamePath DEF GroupInv

LEMMA SamePlan ==
    ASSUME QueryPlanInv, UNCHANGED <<treeVars, current, planVars>>
    PROVE  TreeInv' /\ NeighborInv' /\ EachStepIsBound' /\ GroupInv' /\ SequenceInv'
<1>1. /\ nodes' = nodes /\ paths' = paths /\ current' = current
      /\ unsorted' = unsorted /\ edbOnly' = edbOnly /\ groups' = groups /\ neighbors' = neighbors
      /\ sequences' = sequences /\ group' = group /\ stack' = stack /\ merged' = merged
  BY DEF treeVars, planVars
<1>2. TreeInv'
  BY <1>1 DEF QueryPlanInv, TreeInv
<1>3. NeighborInv'
  BY <1>1, SamePath DEF QueryPlanInv, NeighborInv, Literals, Sequence
<1>4. EachStepIsBound'
  BY <1>1, SamePath DEF QueryPlanInv, EachStepIsBound
<1>5. GroupInv'
  BY <1>1, SameGroups DEF QueryPlanInv
<1>6. SequenceInv'
  BY <1>1 DEF QueryPlanInv, SequenceInv
<1> QED BY <1>2, <1>3, <1>4, <1>5, <1>6

\* Before the first path nothing is planned.
LEMMA InitHolds ==
    ASSUME Init
    PROVE  QueryPlanInv
<1>1. /\ nodes = <<Root(formula)>> /\ formula \in Formulas /\ paths = <<>>
      /\ current = 0 /\ unsorted = <<>> /\ edbOnly = {} /\ groups = {} /\ neighbors = <<>>
      /\ DOMAIN sequences = {} /\ stack = <<>> /\ merged = FALSE /\ status = "expand"
      /\ channels = {} /\ DOMAIN eos = {} /\ isOpened = TRUE /\ inTime = {} /\ eosSent = FALSE
  BY FormulaAssumption DEF Init, TreeInit, NoSequences, NoChannels
<1>2. TreeInv
  <2>1. nodes \in Seq({Root(formula)}) /\ paths \in Seq({})
    BY <1>1
  <2>2. \A n \in DOMAIN nodes : nodes[n] = Root(formula)
    BY <1>1
  <2>3. "formula" \in DOMAIN Root(formula) /\ Root(formula).formula \in Formulas
    BY <1>1 DEF Root
  <2>4. DOMAIN paths = {}
    BY <1>1
  <2> QED BY <2>1, <2>2, <2>3, <2>4, OwnRange DEF TreeInv
<1>3. Literals = {} /\ neighbors \in [{} -> SUBSET {}]
  BY <1>1 DEF Literals
<1>4. Typed
  <2>1. Len(paths) = 0 /\ current \in 0 .. 0
    BY <1>1
  <2>2. unsorted \in Seq(Literals) /\ stack \in Seq(Literals) /\ edbOnly \subseteq Literals
    BY <1>1
  <2>3. IsFiniteSet(Literals) /\ IsFiniteSet(groups)
    BY <1>1, <1>3, FS_EmptySet
  <2>4. neighbors \in [Literals -> SUBSET Literals]
    BY <1>3
  <2>5. merged \in BOOLEAN /\ isOpened \in BOOLEAN
    BY <1>1
  <2>6. current \in 0 .. Len(paths) /\ ~(current > 0)
    BY <1>1, <2>1
  <2>7. sequences = [g \in DOMAIN sequences |-> sequences[g]]
    BY DEF Init, NoSequences
  <2> QED BY ONLY <1>1, <1>3, <2>2, <2>3, <2>4, <2>5, <2>6, <2>7, Zenon DEF Typed
<1>5. ChannelInv
  BY <1>1 DEF ChannelInv, HasRunEmpty
<1>6. NeighborInv /\ EachStepIsBound /\ SequenceInv
  BY <1>1, <1>3 DEF NeighborInv, EachStepIsBound, SequenceInv
<1>7. GroupInv
  BY <1>1 DEF GroupInv, IsInjective
<1> QED BY <1>2, <1>4, <1>5, <1>6, <1>7 DEF QueryPlanInv

LEMMA ExpandHolds ==
    ASSUME QueryPlanInv, Expand
    PROVE  QueryPlanInv'
<1>1. /\ current' = current
      /\ unsorted' = unsorted /\ edbOnly' = edbOnly /\ groups' = groups /\ neighbors' = neighbors
      /\ sequences' = sequences /\ group' = group /\ stack' = stack /\ merged' = merged
      /\ channels' = channels /\ isOpened' = isOpened /\ eos' = eos
      /\ inTime' = inTime /\ answered' = answered /\ eosSent' = eosSent
      /\ status = "expand" /\ status' \in {"expand", "next"}
  BY DEF Expand, planVars, outVars
<1>2. TreeInv'
  <2>1. (nodes' = nodes /\ paths' = paths) \/ expandNextNode
    BY DEF Expand, treeVars
  <2>2. CASE nodes' = nodes /\ paths' = paths
    BY <2>2 DEF QueryPlanInv, TreeInv
  <2>3. CASE expandNextNode
    BY <2>3, TreeStep DEF QueryPlanInv
  <2> QED BY <2>1, <2>2, <2>3
<1>3. /\ current = 0 /\ Literals = {} /\ groups = {} /\ DOMAIN sequences = {} /\ stack = <<>>
      /\ Literals' = {}
  BY <1>1 DEF QueryPlanInv, Typed, Literals
<1>4. Typed'
  <2>1. Len(paths') \in Nat
    BY <1>2 DEF TreeInv
  <2>2. /\ IsFiniteSet(Literals') /\ neighbors' \in [Literals' -> SUBSET Literals']
        /\ unsorted' \in Seq(Literals') /\ stack' \in Seq(Literals') /\ edbOnly' \subseteq Literals'
        /\ merged' \in BOOLEAN /\ isOpened' \in BOOLEAN /\ IsFiniteSet(groups')
        /\ unsorted' = <<>>
    BY <1>1, <1>3 DEF QueryPlanInv, Typed
  <2> QED BY <1>1, <1>3, <2>1, <2>2 DEF Typed
<1>5. ChannelInv'
  BY <1>1, <1>3 DEF QueryPlanInv, ChannelInv, HasRunEmpty
<1>6. NeighborInv' /\ EachStepIsBound' /\ SequenceInv'
  BY <1>1, <1>3 DEF NeighborInv, EachStepIsBound, SequenceInv
<1>7. GroupInv'
  BY <1>1, <1>3 DEF QueryPlanInv, GroupInv
<1> QED BY <1>2, <1>4, <1>5, <1>6, <1>7 DEF QueryPlanInv

\* The literals of the next path.
LEMMA BeginPathHolds ==
    ASSUME QueryPlanInv, BeginPath
    PROVE  QueryPlanInv'
<1> DEFINE C == {l \in Positive : IsComputable(l)}
           next == current + 1
<1>1. /\ nodes' = nodes /\ paths' = paths /\ current' = next
      /\ current < Len(paths) /\ status = "next" /\ status' = "insert"
      /\ edbOnly' = {l \in Positive : ~IsComputable(l)} /\ unsorted' \in SetToSeqs(C)
      /\ groups' = {} /\ DOMAIN sequences' = {} /\ stack' = <<>> /\ merged' = FALSE
      /\ neighbors' = [l \in DOMAIN paths[next] |-> {}]
      /\ channels' = channels /\ isOpened' = isOpened /\ eos' = eos
      /\ inTime' = inTime /\ answered' = answered /\ eosSent' = eosSent
  BY DEF BeginPath, treeVars, outVars, SortedOrders, NoSequences
<1>2. current \in Nat /\ next \in 1 .. Len(paths) /\ Len(paths) \in Nat /\ next \in DOMAIN paths
  BY <1>1 DEF QueryPlanInv, Typed, TreeInv
<1>3. IsFiniteSet(DOMAIN paths[next])
  BY <1>2 DEF QueryPlanInv, TreeInv
<1>4. C \subseteq DOMAIN paths[next] /\ IsFiniteSet(C)
  <2>1. C \subseteq DOMAIN paths[next]
    BY DEF Positive
  <2> HIDE DEF C
  <2> QED BY <1>3, <2>1, FS_Subset
<1>5. unsorted' \in Seq(C) /\ IsInjective(unsorted') /\ Range(unsorted') = C
  <2> HIDE DEF C
  <2> QED BY <1>1, <1>4, SetToSeqsList
<1>6. Literals' = DOMAIN paths[next] /\ Path' = paths[next] /\ AllComputable' = C
  BY <1>1 DEF Literals, Path, AllComputable, Positive, IsComputable
<1>7. TreeInv'
  BY <1>1 DEF QueryPlanInv, TreeInv
<1>8. Typed'
  <2>1. unsorted' \in Seq(Literals')
    <3>1. \A A, B : A \subseteq B => Seq(A) \subseteq Seq(B)
      OBVIOUS
    <3> HIDE DEF C
    <3> QED BY <1>4, <1>5, <1>6, <3>1
  <2>2. neighbors' \in [Literals' -> SUBSET Literals'] /\ edbOnly' \subseteq Literals'
    BY <1>1, <1>6 DEF Positive
  <2>3. isOpened' \in BOOLEAN
    BY <1>1 DEF QueryPlanInv, Typed
  <2>4. IsFiniteSet(Literals') /\ IsFiniteSet(groups') /\ stack' \in Seq(Literals')
    <3> HIDE DEF C
    <3> QED BY <1>1, <1>3, <1>6, FS_EmptySet
  <2>5. merged' \in BOOLEAN
    BY <1>1
  <2>6. current' \in 0 .. Len(paths') /\ current' > 0 /\ current' # 0
    BY <1>1, <1>2
  <2>7. sequences' = [g \in DOMAIN sequences' |-> sequences'[g]]
    BY DEF BeginPath, NoSequences
  <2> HIDE DEF C
  <2> QED BY ONLY <1>1, <1>6, <2>1, <2>2, <2>3, <2>4, <2>5, <2>6, <2>7, Zenon DEF Typed
<1>9. ChannelInv'
  BY <1>1, <1>2 DEF QueryPlanInv, ChannelInv, HasRunEmpty
<1>10. NeighborInv' /\ EachStepIsBound' /\ SequenceInv'
  <2>1. NeighborInv'
    BY <1>1 DEF NeighborInv, Literals
  <2> QED BY <1>1, <2>1 DEF EachStepIsBound, SequenceInv
<1>11. GroupInv'
  <2>1. Inserted' = {} /\ Members' = {}
    BY <1>1, <1>5, <1>6 DEF Inserted, Members
  <2> QED BY <1>1, <1>5, <1>6, <2>1 DEF GroupInv
<1> QED BY <1>7, <1>8, <1>9, <1>10, <1>11 DEF QueryPlanInv

-----------------------------------------------------------------------------
(* The insertion of a literal                                                *)

\* The group that a literal joins: none, one, or several that are merged.
LEMMA Joined ==
    ASSUME Typed, NEW l
    PROVE  /\ JoinedMembers(l) \in Seq(Literals)
           /\ Cardinality(Dependencies(l)) \in Nat
           /\ \/ Cardinality(Dependencies(l)) > 1
              \/ Dependencies(l) = {} /\ JoinedMembers(l) = <<>> /\ JoinedVariables(l) = {}
              \/ \E g \in groups : /\ Dependencies(l) = {g}
                                   /\ JoinedMembers(l) = g.members /\ JoinedVariables(l) = g.variables
<1> DEFINE D == Dependencies(l)
<1>1. D \subseteq groups /\ IsFiniteSet(groups)
  BY DEF Dependencies, Typed
<1> HIDE DEF D
<1>2. IsFiniteSet(D) /\ Cardinality(D) \in Nat
  BY <1>1, FS_Subset, FS_CardinalityType
<1>3. CASE Cardinality(D) = 0
  <2>1. D = {}
    BY <1>2, <1>3, FS_EmptySet
  <2>2. JoinedMembers(l) = <<>> /\ JoinedVariables(l) = {}
    BY <1>3, <2>1 DEF JoinedMembers, JoinedVariables, D
  <2> QED BY <1>2, <2>1, <2>2 DEF D
<1>4. CASE Cardinality(D) = 1
  <2>1. PICK g : D = {g}
    BY <1>2, <1>4, FS_Singleton
  <2>2. (CHOOSE h \in D : TRUE) = g
    BY <2>1
  <2>3. JoinedMembers(l) = g.members
    BY <1>4, <2>2 DEF JoinedMembers, D
  <2>4. JoinedVariables(l) = g.variables
    BY <2>1 DEF JoinedVariables, D
  <2> QED BY <1>1, <1>2, <2>1, <2>3, <2>4 DEF D, Typed
<1>5. CASE Cardinality(D) > 1
  <2>1. JoinedMembers(l) = <<>>
    BY <1>2, <1>5 DEF JoinedMembers, D
  <2> QED BY <1>2, <1>5, <2>1 DEF D
<1> QED BY <1>2, <1>3, <1>4, <1>5

\* What an insertion does.
LEMMA Insertion ==
    ASSUME QueryPlanInv, InsertLiteral
    PROVE  LET l == Head(unsorted)
               joined == [variables |-> JoinedVariables(l) \cup Vars(l), members |-> Append(JoinedMembers(l), l)]
           IN /\ l \in Literals /\ unsorted \in Seq(Literals) /\ unsorted # <<>> /\ unsorted' = Tail(unsorted)
              /\ groups' = (groups \ Dependencies(l)) \cup {joined}
              /\ neighbors' = [m \in DOMAIN neighbors |->
                                  IF m = l THEN Near(l) ELSE
                                  neighbors[m] \cup (IF m \in Near(l) THEN {l} ELSE {})]
              /\ merged' = (merged \/ Cardinality(Dependencies(l)) > 1)
              /\ Near(l) = {m \in Range(JoinedMembers(l)) : Vars(m) \cap Vars(l) # {}}
              /\ Near(l) \subseteq Literals /\ Literals' = Literals
              /\ nodes' = nodes /\ paths' = paths /\ current' = current /\ status' = status
              /\ edbOnly' = edbOnly /\ sequences' = sequences /\ group' = group /\ stack' = stack
              /\ channels' = channels /\ isOpened' = isOpened /\ eos' = eos
      /\ inTime' = inTime /\ answered' = answered /\ eosSent' = eosSent
              /\ status = "insert" /\ current > 0 /\ DOMAIN sequences = {} /\ stack = <<>>
              /\ \A m : Vars(m)' = Vars(m)
<1>1. Typed
  BY DEF QueryPlanInv
<1>2. unsorted \in Seq(Literals) /\ unsorted # <<>>
  BY <1>1 DEF InsertLiteral, Typed
<1>3. Head(unsorted) \in Literals
  BY <1>2
<1>4. JoinedMembers(Head(unsorted)) \in Seq(Literals)
  BY <1>1, Joined
<1>5. Near(Head(unsorted)) \subseteq Literals
  BY <1>4, OwnRange DEF Near
<1>6. nodes' = nodes /\ paths' = paths /\ current' = current
  BY DEF InsertLiteral, treeVars
<1>7. \A m : Vars(m)' = Vars(m)
  BY <1>6, SamePath
<1>8. DOMAIN sequences = {} /\ stack = <<>>
  BY <1>1, <1>2 DEF Typed
<1> QED BY <1>1, <1>2, <1>3, <1>5, <1>6, <1>7, <1>8 DEF InsertLiteral, outVars, Near, Literals, Typed

\* An insertion that merges no groups leaves connected groups.
LEMMA GroupsHold ==
    ASSUME QueryPlanInv, InsertLiteral
    PROVE  GroupInv'
<1> DEFINE l == Head(unsorted)
           D == Dependencies(l)
           J == Range(JoinedMembers(l))
           joined == [variables |-> JoinedVariables(l) \cup Vars(l), members |-> Append(JoinedMembers(l), l)]
<1> SUFFICES ASSUME ~merged'
             PROVE  GroupInv'
  BY DEF GroupInv
<1>1. /\ l \in Literals /\ unsorted \in Seq(Literals) /\ unsorted # <<>> /\ unsorted' = Tail(unsorted)
      /\ groups' = (groups \ D) \cup {joined}
      /\ neighbors' = [m \in Literals |->
                          IF m = l THEN Near(l) ELSE neighbors[m] \cup (IF m \in Near(l) THEN {l} ELSE {})]
      /\ merged' = (merged \/ Cardinality(D) > 1)
      /\ Near(l) = {m \in J : Vars(m) \cap Vars(l) # {}}
      /\ current > 0 /\ \A m : Vars(m)' = Vars(m)
  BY Insertion DEF Literals
<1>2. current' = current /\ AllComputable' = AllComputable
  BY Insertion, SamePath
<1>3. ~merged /\ ~(Cardinality(D) > 1)
  BY <1>1
<1>4. /\ IsInjective(unsorted) /\ Range(unsorted) \subseteq AllComputable /\ Members = Inserted
      /\ \A g \in groups :
            /\ g.variables = UNION {Vars(m) : m \in Range(g.members)}
            /\ \A k \in Range(g.members) :
                  neighbors[k] = {m \in Range(g.members) : m # k /\ Vars(m) \cap Vars(k) # {}}
            /\ \A S \in SUBSET Range(g.members) : S # {} /\ IsClosed(S) => S = Range(g.members)
      /\ \A g, h \in groups : g # h => g.variables \cap h.variables = {} /\ Range(g.members) \cap Range(h.members) = {}
  BY <1>1, <1>3 DEF QueryPlanInv, GroupInv
<1>5. /\ JoinedMembers(l) \in Seq(Literals)
      /\ \/ D = {} /\ JoinedMembers(l) = <<>> /\ JoinedVariables(l) = {}
         \/ \E g \in groups : D = {g} /\ JoinedMembers(l) = g.members /\ JoinedVariables(l) = g.variables
  BY <1>3, Joined DEF QueryPlanInv
<1>6. /\ Range(unsorted) = {l} \cup Range(unsorted') /\ IsInjective(unsorted') /\ l \notin Range(unsorted')
  BY <1>1, <1>4, Tailed
<1>7. joined.variables = JoinedVariables(l) \cup Vars(l) /\ Range(joined.members) = J \cup {l}
  BY <1>5, Appended
<1>8. \A g \in groups : Range(g.members) \subseteq Literals
  BY OwnRange DEF QueryPlanInv, Typed
<1>9. D = {g \in groups : g.variables \cap Vars(l) # {}}
  BY DEF Dependencies
<1> HIDE DEF D, joined, l
<1>10. l \notin Members /\ \A g \in groups : l \notin Range(g.members)
  BY <1>4, <1>6 DEF Inserted, Members
<1>11. J \subseteq Literals /\ l \notin J /\ \A g \in groups \ D : Range(g.members) \cap J = {}
  <2>1. CASE D = {} /\ JoinedMembers(l) = <<>>
    <3>1. J = {}
      BY <2>1 DEF Range
    <3> QED BY <3>1
  <2>2. CASE \E g \in groups : D = {g} /\ JoinedMembers(l) = g.members
    BY <1>4, <1>8, <1>10, <2>2
  <2> QED BY <1>5, <2>1, <2>2
<1> HIDE DEF J
\* What the group that is joined was.
<1>12. /\ JoinedVariables(l) = UNION {Vars(m) : m \in J}
       /\ \A k \in J : neighbors[k] = {m \in J : m # k /\ Vars(m) \cap Vars(k) # {}}
       /\ \A S \in SUBSET J : S # {} /\ IsClosed(S) => S = J
       /\ J # {} => Near(l) # {}
       /\ \A g \in groups \ D : g.variables \cap (JoinedVariables(l) \cup Vars(l)) = {}
  <2>1. CASE D = {} /\ JoinedMembers(l) = <<>> /\ JoinedVariables(l) = {}
    <3>1. J = {}
      BY <2>1 DEF J, Range
    <3> QED BY <1>9, <2>1, <3>1
  <2>2. CASE \E g \in groups : D = {g} /\ JoinedMembers(l) = g.members /\ JoinedVariables(l) = g.variables
    <3>1. PICK h \in groups : D = {h} /\ JoinedMembers(l) = h.members /\ JoinedVariables(l) = h.variables
      BY <2>2
    <3>2. J = Range(h.members)
      BY <3>1 DEF J
    <3>3. h.variables \cap Vars(l) # {}
      BY <1>9, <3>1
    <3>4. Near(l) # {}
      BY <1>1, <1>4, <3>2, <3>3
    <3>5. \A g \in groups \ D : g.variables \cap Vars(l) = {} /\ g.variables \cap h.variables = {}
      BY <1>4, <1>9, <3>1
    <3> QED BY <1>4, <3>1, <3>2, <3>4, <3>5
  <2> QED BY <1>5, <2>1, <2>2
\* Neighbors of members of the other groups, and of this one.
<1>13. \A g \in groups \ D : \A k \in Range(g.members) : neighbors'[k] = neighbors[k]
  <2> SUFFICES ASSUME NEW g \in groups \ D, NEW k \in Range(g.members)
               PROVE  neighbors'[k] = neighbors[k]
    OBVIOUS
  <2>1. k \in Literals /\ k # l /\ k \notin Near(l)
    BY <1>1, <1>8, <1>10, <1>11
  <2> QED BY <1>1, <2>1
<1>14. /\ neighbors'[l] = Near(l) /\ l \in Literals
       /\ \A k \in J : k # l /\ neighbors'[k] = neighbors[k] \cup (IF k \in Near(l) THEN {l} ELSE {})
  BY <1>1, <1>11
<1>15. \A k \in Range(joined.members) :
         neighbors'[k] = {m \in Range(joined.members) : m # k /\ Vars(m) \cap Vars(k) # {}}
  <2>1. neighbors'[l] = {m \in J \cup {l} : m # l /\ Vars(m) \cap Vars(l) # {}}
    BY <1>1, <1>11, <1>14
  <2>2. ASSUME NEW k \in J PROVE neighbors'[k] = {m \in J \cup {l} : m # k /\ Vars(m) \cap Vars(k) # {}}
    <3>1. k # l /\ neighbors[k] = {m \in J : m # k /\ Vars(m) \cap Vars(k) # {}}
      BY <1>12, <1>14
    <3>2. k \in Near(l) <=> Vars(l) \cap Vars(k) # {}
      BY <1>1
    <3> QED BY <1>14, <3>1, <3>2
  <2> QED BY <1>7, <2>1, <2>2
<1>16. ASSUME NEW S \in SUBSET Range(joined.members), S # {}, IsClosed(S)'
       PROVE  S = Range(joined.members)
  <2>1. \A k \in S : neighbors'[k] \subseteq S
    BY <1>16 DEF IsClosed
  <2> DEFINE T == S \ {l}
  <2>2. T \subseteq J /\ IsClosed(T)
    <3>1. T \subseteq J
      BY <1>7
    <3>2. ASSUME NEW k \in T PROVE neighbors[k] \subseteq T
      <4>1. k \in J /\ neighbors[k] \subseteq neighbors'[k] /\ neighbors'[k] \subseteq S
        BY <1>14, <2>1, <3>1
      <4>2. l \notin neighbors[k]
        BY <1>11, <1>12, <4>1
      <4> QED BY <4>1, <4>2
    <3> QED BY <3>1, <3>2 DEF IsClosed
  <2>3. CASE T = {}
    <3>1. S = {l}
      BY <1>16, <2>3
    <3>2. Near(l) \subseteq {l}
      BY <1>14, <2>1, <3>1
    <3>3. Near(l) = {}
      BY <1>1, <1>11, <3>2
    <3> QED BY <1>7, <1>12, <3>1, <3>3
  <2>4. CASE T # {}
    <3>1. T = J
      BY <1>12, <2>2, <2>4
    <3>2. PICK k \in Near(l) : k \in J
      BY <1>1, <1>12, <2>4, <3>1
    <3>3. l \in neighbors'[k] /\ k \in S
      BY <1>14, <3>1, <3>2
    <3> QED BY <1>7, <2>1, <3>1, <3>3
  <2> QED BY <2>3, <2>4
\* All groups.
<1>17. ASSUME NEW g \in groups'
       PROVE  /\ g.variables = UNION {Vars(m) : m \in Range(g.members)}
              /\ \A k \in Range(g.members) :
                    neighbors'[k] = {m \in Range(g.members) : m # k /\ Vars(m) \cap Vars(k) # {}}
              /\ \A S \in SUBSET Range(g.members) : S # {} /\ IsClosed(S)' => S = Range(g.members)
  <2>1. CASE g \in groups \ D
    <3>1. \A S \in SUBSET Range(g.members) : IsClosed(S)' => IsClosed(S)
      BY <1>13, <2>1 DEF IsClosed
    <3> QED BY <1>4, <1>13, <2>1, <3>1
  <2>2. CASE g = joined
    <3>1. joined.variables = UNION {Vars(m) : m \in J \cup {l}}
      BY <1>7, <1>12
    <3>2. \A S \in SUBSET Range(joined.members) : S # {} /\ IsClosed(S)' => S = Range(joined.members)
      BY <1>16
    <3>3. joined.variables = UNION {Vars(m) : m \in Range(joined.members)}
      BY <1>7, <3>1
    <3> QED BY <1>15, <2>2, <3>2, <3>3
  <2> QED BY <1>1, <2>1, <2>2
<1>18. ASSUME NEW g \in groups', NEW h \in groups', g # h
       PROVE  g.variables \cap h.variables = {} /\ Range(g.members) \cap Range(h.members) = {}
  <2>1. \A f \in groups \ D : f.variables \cap joined.variables = {} /\ Range(f.members) \cap Range(joined.members) = {}
    BY <1>7, <1>10, <1>11, <1>12
  <2>2. CASE g = joined
    <3>1. h \in groups \ D
      BY <1>1, <1>18, <2>2
    <3> QED BY <2>1, <2>2, <3>1
  <2>3. CASE h = joined
    <3>1. g \in groups \ D
      BY <1>1, <1>18, <2>3
    <3> QED BY <2>1, <2>3, <3>1
  <2>4. CASE g # joined /\ h # joined
    BY <1>1, <1>4, <1>18, <2>4
  <2> QED BY <2>2, <2>3, <2>4
<1>19. Members' = Members \cup {l}
  <2>1. Members = J \cup UNION {Range(g.members) : g \in groups \ D}
    <3>1. CASE D = {} /\ J = {}
      BY <3>1 DEF Members
    <3>2. CASE \E g \in groups : D = {g} /\ J = Range(g.members)
      BY <3>2 DEF Members
    <3>3. JoinedMembers(l) = <<>> => J = {}
      BY DEF J, Range
    <3> QED BY <1>5, <3>1, <3>2, <3>3 DEF J
  <2>2. Members' = UNION {Range(g.members) : g \in groups'}
    BY DEF Members
  <2>3. Members' = Range(joined.members) \cup UNION {Range(g.members) : g \in groups \ D}
    BY <1>1, <2>2
  <2> QED BY <1>7, <2>1, <2>3
<1>20. Range(unsorted') \subseteq AllComputable' /\ Members' = Inserted'
  <2>1. l \in AllComputable
    BY <1>4, <1>6
  <2>2. Inserted = AllComputable \ Range(unsorted) /\ Inserted' = AllComputable' \ Range(unsorted')
    BY DEF Inserted
  <2> QED BY <1>2, <1>4, <1>6, <1>19, <2>1, <2>2
<1>21. \A g \in groups' :
         /\ g.variables = UNION {Vars(m)' : m \in Range(g.members)}
         /\ \A k \in Range(g.members) :
               neighbors'[k] = {m \in Range(g.members) : m # k /\ Vars(m)' \cap Vars(k)' # {}}
         /\ \A S \in SUBSET Range(g.members) : S # {} /\ IsClosed(S)' => S = Range(g.members)
  <2> SUFFICES ASSUME NEW g \in groups'
               PROVE  /\ g.variables = UNION {Vars(m)' : m \in Range(g.members)}
                      /\ \A k \in Range(g.members) :
                            neighbors'[k] = {m \in Range(g.members) : m # k /\ Vars(m)' \cap Vars(k)' # {}}
                      /\ \A S \in SUBSET Range(g.members) : S # {} /\ IsClosed(S)' => S = Range(g.members)
    OBVIOUS
  <2>1. \A m : Vars(m)' = Vars(m)
    BY <1>1
  <2>2. {Vars(m)' : m \in Range(g.members)} = {Vars(m) : m \in Range(g.members)}
    BY <2>1
  <2>3. ASSUME NEW k \in Range(g.members)
        PROVE  neighbors'[k] = {m \in Range(g.members) : m # k /\ Vars(m)' \cap Vars(k)' # {}}
    <3>1. {m \in Range(g.members) : m # k /\ Vars(m)' \cap Vars(k)' # {}}
            = {m \in Range(g.members) : m # k /\ Vars(m) \cap Vars(k) # {}}
      BY <2>1
    <3> QED BY <1>17, <3>1
  <2> QED BY <1>17, <2>2, <2>3
<1> QED BY <1>6, <1>18, <1>20, <1>21 DEF GroupInv

LEMMA InsertHolds ==
    ASSUME QueryPlanInv, InsertLiteral
    PROVE  QueryPlanInv'
<1> DEFINE l == Head(unsorted)
           joined == [variables |-> JoinedVariables(l) \cup Vars(l), members |-> Append(JoinedMembers(l), l)]
<1>1. /\ l \in Literals /\ unsorted \in Seq(Literals) /\ unsorted # <<>> /\ unsorted' = Tail(unsorted)
      /\ groups' = (groups \ Dependencies(l)) \cup {joined}
      /\ neighbors' = [m \in Literals |->
                          IF m = l THEN Near(l) ELSE neighbors[m] \cup (IF m \in Near(l) THEN {l} ELSE {})]
      /\ merged' = (merged \/ Cardinality(Dependencies(l)) > 1)
      /\ Near(l) = {m \in Range(JoinedMembers(l)) : Vars(m) \cap Vars(l) # {}}
      /\ Near(l) \subseteq Literals /\ Literals' = Literals
      /\ nodes' = nodes /\ paths' = paths /\ current' = current /\ status' = status
      /\ edbOnly' = edbOnly /\ sequences' = sequences /\ group' = group /\ stack' = stack
      /\ channels' = channels /\ isOpened' = isOpened /\ eos' = eos
      /\ inTime' = inTime /\ answered' = answered /\ eosSent' = eosSent
      /\ status = "insert" /\ current > 0 /\ DOMAIN sequences = {} /\ stack = <<>>
      /\ \A m : Vars(m)' = Vars(m)
  BY Insertion DEF Literals
<1>2. Typed /\ NeighborInv
  BY DEF QueryPlanInv
<1>3. TreeInv' /\ ChannelInv'
  BY <1>1 DEF QueryPlanInv, TreeInv, ChannelInv, HasRunEmpty
<1>4. JoinedMembers(l) \in Seq(Literals)
  BY <1>2, Joined
<1>5. joined.members = Append(JoinedMembers(l), l) /\ joined.members \in Seq(Literals)
  <2> HIDE DEF l
  <2> QED BY <1>1, <1>4
<1> HIDE DEF l, joined
<1>6. Typed'
  <2>1. IsFiniteSet(groups') /\ \A g \in groups' : g.members \in Seq(Literals)
    <3>1. IsFiniteSet(groups \ Dependencies(l))
      BY <1>2, FS_Subset DEF Typed
    <3> QED BY <1>1, <1>2, <1>5, <3>1, FS_AddElement DEF Typed
  <2>2. neighbors' \in [Literals -> SUBSET Literals]
    BY <1>1, <1>2 DEF Typed
  <2>3. unsorted' \in Seq(Literals)
    BY <1>1
  <2>4. merged' \in BOOLEAN
    BY <1>1
  <2>5. Path' = Path
    BY <1>1, SamePath
  <2>6. current \in Nat /\ current # 0
    BY <1>1, <1>2 DEF Typed, QueryPlanInv, TreeInv
  <2> QED BY <1>1, <1>2, <2>1, <2>2, <2>3, <2>4, <2>5, <2>6 DEF Typed
<1>7. NeighborInv'
  <2>1. \A k \in Literals : \A m \in neighbors[k] : Vars(m) \cap Vars(k) # {}
    BY <1>2 DEF NeighborInv
  <2>2. ASSUME NEW k \in Literals, NEW m \in neighbors'[k] PROVE Vars(m) \cap Vars(k) # {}
    <3>1. CASE k = l
      BY <1>1, <2>2, <3>1
    <3>2. CASE k # l /\ m \in neighbors[k]
      BY <2>1, <3>2
    <3>3. CASE k # l /\ k \in Near(l) /\ m = l
      BY <1>1, <3>3
    <3> QED BY <1>1, <2>2, <3>1, <3>2, <3>3
  <2>3. \A k \in Literals' : \A m \in neighbors'[k] : Vars(m)' \cap Vars(k)' # {}
    BY <1>1, <2>2
  <2> QED BY <1>1, <2>3 DEF NeighborInv
<1>8. EachStepIsBound' /\ SequenceInv'
  BY <1>1 DEF EachStepIsBound, SequenceInv
<1>9. GroupInv'
  BY GroupsHold
<1> QED BY <1>3, <1>6, <1>7, <1>8, <1>9 DEF QueryPlanInv

-----------------------------------------------------------------------------
(* The visit of a group                                                      *)

\* The sequence of one group is written.
LEMMA TakenAt ==
    ASSUME NEW g, NEW s
    PROVE  /\ DOMAIN Taken(g, s) = DOMAIN sequences \cup {g} /\ Taken(g, s)[g] = s
           /\ \A h \in DOMAIN sequences : h # g => Taken(g, s)[h] = sequences[h]
BY DEF Taken

\* A step of the visit leaves the tree, the graph and the streams.
LEMMA Visiting ==
    ASSUME QueryPlanInv, UNCHANGED <<treeVars, current, unsorted, edbOnly, groups, neighbors, merged, status, outVars>>,
           status = "insert", unsorted = <<>>,
           NEW g \in groups, NEW s \in Seq(Literals), s # <<>>, group' = g,
           sequences' = Taken(g, s), stack' \in Seq(Literals), Range(stack') \subseteq Range(s),
           \A i \in 2 .. Len(s) : \E j \in 1 .. i - 1 : Vars(s[i]) \cap Vars(s[j]) # {},
           ~merged =>
              /\ IsInjective(s) /\ Range(s) \subseteq Range(g.members)
              /\ \A l \in Range(s) : l \notin Range(stack') => neighbors[l] \subseteq Range(s)
              /\ \A h \in DOMAIN sequences : h # g /\ h = group => Range(stack) = {}
    PROVE  QueryPlanInv'
<1>1. /\ nodes' = nodes /\ paths' = paths /\ current' = current
      /\ unsorted' = unsorted /\ edbOnly' = edbOnly /\ groups' = groups /\ neighbors' = neighbors
      /\ merged' = merged /\ status' = status
      /\ channels' = channels /\ isOpened' = isOpened /\ eos' = eos
      /\ inTime' = inTime /\ answered' = answered /\ eosSent' = eosSent /\ Literals' = Literals
  BY DEF treeVars, outVars, Literals
<1>2. Path' = Path /\ AllComputable' = AllComputable /\ \A l : Vars(l)' = Vars(l)
  BY <1>1, SamePath
<1>3. /\ DOMAIN sequences' = DOMAIN sequences \cup {g} /\ sequences'[g] = s
      /\ \A h \in DOMAIN sequences : h # g => sequences'[h] = sequences[h]
      /\ sequences' = [h \in DOMAIN sequences' |-> sequences'[h]]
  <2>1. sequences' = Taken(g, s)
    OBVIOUS
  <2>2. sequences' = [h \in DOMAIN sequences \cup {g} |-> IF h = g THEN s ELSE sequences[h]]
    BY ONLY <2>1 DEF Taken
  <2> QED BY ONLY <2>2
<1>4. TreeInv' /\ ChannelInv'
  BY <1>1 DEF QueryPlanInv, TreeInv, ChannelInv, HasRunEmpty
<1>5. Typed'
  <2>1. Typed
    BY DEF QueryPlanInv
  <2>2. DOMAIN sequences' \subseteq groups' /\ \A h \in DOMAIN sequences' : sequences'[h] \in Seq(Literals) /\ sequences'[h] # <<>>
    BY <1>1, <1>3, <2>1 DEF Typed
  <2>3. group' \in DOMAIN sequences' /\ stack' \in Seq(Literals)
    BY <1>3
  <2>4. status = "insert" /\ unsorted = <<>>
    OBVIOUS
  <2> QED BY ONLY <1>1, <1>2, <1>3, <2>1, <2>2, <2>3, <2>4 DEF Typed
<1>6. NeighborInv'
  <2>1. Sequence' = s
    BY <1>3 DEF Sequence
  <2> QED BY <1>1, <1>2, <2>1 DEF QueryPlanInv, NeighborInv
<1>7. EachStepIsBound'
  <2>1. ASSUME NEW h \in DOMAIN sequences', NEW q, q = sequences'[h], NEW i \in 2 .. Len(q)
        PROVE  \E j \in 1 .. i - 1 : Vars(q[i]) \cap Vars(q[j]) # {}
    <3>1. CASE h = g
      <4>1. q = s
        BY <1>3, <2>1, <3>1
      <4>2. \A k \in 2 .. Len(s) : \E j \in 1 .. k - 1 : Vars(s[k]) \cap Vars(s[j]) # {}
        OBVIOUS
      <4> QED BY <4>1, <4>2
    <3>2. CASE h # g
      <4>1. h \in DOMAIN sequences /\ q = sequences[h]
        BY <1>3, <2>1, <3>2
      <4> QED BY <4>1 DEF QueryPlanInv, EachStepIsBound
    <3> QED BY <3>1, <3>2
  <2>2. ASSUME NEW h \in DOMAIN sequences', NEW q, q = sequences'[h], NEW i \in 2 .. Len(q)
        PROVE  \E j \in 1 .. i - 1 : Vars(q[i])' \cap Vars(q[j])' # {}
    BY <1>2, <2>1, <2>2
  <2> QED BY <2>2 DEF EachStepIsBound
<1>8. GroupInv'
  BY <1>1, SameGroups DEF QueryPlanInv
<1>9. SequenceInv'
  <2>1. ASSUME ~merged, NEW h \in DOMAIN sequences'
        PROVE  /\ IsInjective(sequences'[h]) /\ Range(sequences'[h]) \subseteq Range(h.members)
               /\ \A l \in Range(sequences'[h]) :
                     (h = group' => l \notin Range(stack')) => neighbors[l] \subseteq Range(sequences'[h])
    <3>1. CASE h = g
      BY <1>3, <2>1, <3>1
    <3>2. CASE h # g
      <4>1. h \in DOMAIN sequences /\ sequences'[h] = sequences[h]
        BY <1>3, <3>2
      <4>2. h = group => Range(stack) = {}
        BY <2>1, <3>2, <4>1
      <4> QED BY <2>1, <4>1, <4>2 DEF QueryPlanInv, SequenceInv
    <3> QED BY <3>1, <3>2
  <2> QED BY <1>1, <2>1 DEF SequenceInv
<1> QED BY <1>4, <1>5, <1>6, <1>7, <1>8, <1>9 DEF QueryPlanInv

LEMMA BeginSequenceHolds ==
    ASSUME QueryPlanInv, BeginSequence
    PROVE  QueryPlanInv'
<1>1. PICK g \in groups \ DOMAIN sequences : \E first \in Range(g.members) :
          sequences' = Taken(g, <<first>>) /\ group' = g /\ stack' = <<first>>
  BY DEF BeginSequence
<1>2. PICK first \in Range(g.members) : sequences' = Taken(g, <<first>>) /\ group' = g /\ stack' = <<first>>
  BY <1>1
<1>3. first \in Literals
  BY <1>1, <1>2, OwnRange DEF QueryPlanInv, Typed
<1> DEFINE s == <<first>>
<1>4. /\ s \in Seq(Literals) /\ s # <<>> /\ Len(s) = 1 /\ DOMAIN s = {1} /\ s[1] = first
  BY <1>3
<1>5. Range(s) = {first} /\ IsInjective(s)
  BY <1>4 DEF Range, IsInjective
<1>6. Range(stack) = {}
  BY DEF BeginSequence, Range
<1>7. /\ UNCHANGED <<treeVars, current, unsorted, edbOnly, groups, neighbors, merged, status, outVars>>
      /\ status = "insert" /\ unsorted = <<>>
  BY DEF BeginSequence
<1>8. \A i \in 2 .. Len(s) : \E j \in 1 .. i - 1 : Vars(s[i]) \cap Vars(s[j]) # {}
  BY <1>4
<1>9. sequences' = Taken(g, s) /\ stack' = s
  BY <1>2
<1> HIDE DEF s
<1> QED BY <1>1, <1>2, <1>4, <1>5, <1>6, <1>7, <1>8, <1>9, Visiting

LEMMA VisitHolds ==
    ASSUME QueryPlanInv, Visit
    PROVE  QueryPlanInv'
<1>1. /\ Typed /\ stack # <<>> /\ status = "insert" /\ unsorted = <<>> /\ group \in DOMAIN sequences
      /\ group \in groups /\ Sequence \in Seq(Literals) /\ Sequence # <<>> /\ stack \in Seq(Literals)
      /\ Range(stack) \subseteq Range(Sequence) /\ neighbors \in [Literals -> SUBSET Literals]
  BY DEF Visit, QueryPlanInv, Typed, NeighborInv, Sequence
<1>2. /\ UNCHANGED <<treeVars, current, unsorted, edbOnly, groups, neighbors, merged, status, outVars>>
      /\ group' = group
  BY DEF Visit
<1>3. \A i \in 2 .. Len(Sequence) : \E j \in 1 .. i - 1 : Vars(Sequence[i]) \cap Vars(Sequence[j]) # {}
  BY <1>1 DEF QueryPlanInv, EachStepIsBound, Sequence
<1>4. ~merged => /\ IsInjective(Sequence) /\ Range(Sequence) \subseteq Range(group.members)
                 /\ \A l \in Range(Sequence) : l \notin Range(stack) => neighbors[l] \subseteq Range(Sequence)
                 /\ \A l \in Range(group.members) : neighbors[l] \subseteq Range(group.members)
  BY <1>1 DEF QueryPlanInv, SequenceInv, GroupInv, Sequence
<1> DEFINE top == Head(stack)
<1>5. /\ top \in Range(stack) /\ Range(stack) = {top} \cup Range(Tail(stack)) /\ Tail(stack) \in Seq(Literals)
  BY <1>1, Tailed
<1>6. top \in Range(Sequence) /\ top \in Literals
  BY <1>1, <1>5, OwnRange
<1>7. CASE Unvisited = {}
  <2>1. stack' = Tail(stack) /\ sequences' = sequences
    BY <1>7 DEF Visit
  <2>2. sequences = Taken(group, Sequence)
    <3>1. sequences = [h \in DOMAIN sequences |-> sequences[h]]
      BY <1>1 DEF Typed
    <3> QED BY <1>1, <3>1 DEF Taken, Sequence
  <2>3. neighbors[top] \subseteq Range(Sequence)
    BY <1>7 DEF Unvisited
  <2>4. \A l \in Range(Sequence) : l \notin Range(stack') => l = top \/ l \notin Range(stack)
    BY <1>5, <2>1
  <2>5. Range(stack') \subseteq Range(Sequence) /\ stack' \in Seq(Literals)
    BY <1>1, <1>5, <2>1
  <2> HIDE DEF top
  <2> QED BY <1>1, <1>2, <1>3, <1>4, <2>1, <2>2, <2>3, <2>4, <2>5, Visiting
<1>8. CASE Unvisited # {}
  <2>1. PICK l \in Unvisited : stack' = <<l>> \o stack /\ sequences' = Taken(group, Append(Sequence, l))
    BY <1>8 DEF Visit
  <2> DEFINE s == Append(Sequence, l)
  <2>2. l \in neighbors[top] /\ l \notin Range(Sequence) /\ l \in Literals
    BY <1>1, <1>6 DEF Unvisited
  <2>3. Vars(l) \cap Vars(top) # {}
    BY <1>6, <2>2 DEF QueryPlanInv, NeighborInv
  <2>4. /\ s \in Seq(Literals) /\ s # <<>> /\ Len(s) = Len(Sequence) + 1 /\ Len(Sequence) \in Nat
        /\ \A i \in 1 .. Len(Sequence) : s[i] = Sequence[i]
        /\ s[Len(Sequence) + 1] = l /\ DOMAIN Sequence = 1 .. Len(Sequence)
    BY <1>1, <2>2
  <2>5. Range(s) = Range(Sequence) \cup {l} /\ (IsInjective(Sequence) => IsInjective(s))
    BY <1>1, <2>2, Appended
  <2>6. stack' \in Seq(Literals) /\ Range(stack') = {l} \cup Range(stack)
    <3>1. <<l>> \o stack \in Seq(Literals) /\ <<l>> \o stack # <<>>
      BY <1>1, <2>2
    <3>2. Head(<<l>> \o stack) = l /\ Tail(<<l>> \o stack) = stack
      BY <1>1, <2>2
    <3> QED BY <2>1, <3>1, <3>2, Tailed
  <2>7. PICK k \in 1 .. Len(Sequence) : Sequence[k] = top
    BY <1>6, <2>4 DEF Range
  <2> HIDE DEF s, top
  <2>8. ASSUME NEW i \in 2 .. Len(s) PROVE \E j \in 1 .. i - 1 : Vars(s[i]) \cap Vars(s[j]) # {}
    <3>1. CASE i = Len(Sequence) + 1
      <4>1. k \in 1 .. i - 1 /\ s[i] = l /\ s[k] = top
        BY <2>4, <2>7, <3>1
      <4> QED BY <2>3, <4>1
    <3>2. CASE i # Len(Sequence) + 1
      <4>1. i \in 2 .. Len(Sequence)
        BY <2>4, <3>2
      <4>2. PICK j \in 1 .. i - 1 : Vars(Sequence[i]) \cap Vars(Sequence[j]) # {}
        BY <1>3, <4>1
      <4>3. s[i] = Sequence[i] /\ s[j] = Sequence[j]
        BY <2>4, <4>1
      <4> QED BY <4>2, <4>3
    <3> QED BY <3>1, <3>2
  <2>9. ~merged => Range(s) \subseteq Range(group.members)
    BY <1>4, <1>6, <2>2, <2>5
  <2>10. ~merged => \A m \in Range(s) : m \notin Range(stack') => neighbors[m] \subseteq Range(s)
    BY <1>4, <2>5, <2>6
  <2>11. Range(stack') \subseteq Range(s)
    BY <1>1, <2>5, <2>6
  <2>12. sequences' = Taken(group, s)
    BY <2>1 DEF s
  <2> QED BY <1>1, <1>2, <1>4, <2>4, <2>5, <2>6, <2>8, <2>9, <2>10, <2>11, <2>12, Visiting
<1> QED BY <1>7, <1>8

-----------------------------------------------------------------------------
(* The streams of the paths                                                  *)

\* A path is connected or refused.
LEMMA ConnectHolds ==
    ASSUME QueryPlanInv, Connect
    PROVE  QueryPlanInv'
<1>1. /\ UNCHANGED <<treeVars, current, planVars>> /\ status = "insert" /\ stack = <<>> /\ unsorted = <<>>
      /\ isOpened' = isOpened /\ answered' = answered /\ eosSent' = eosSent
  BY DEF Connect, IsPlanned
<1>2. current \in Nat /\ current > 0 /\ current' = current /\ DOMAIN eos = 1 .. current - 1
  BY <1>1 DEF QueryPlanInv, Typed, TreeInv, ChannelInv
<1>3. CASE status' = "thrown" /\ UNCHANGED <<channels, eos, inTime>>
  <2>1. Typed'
    BY <1>1, <1>3 DEF QueryPlanInv, Typed, treeVars, planVars, Literals, Path
  <2>2. ChannelInv'
    BY <1>1, <1>3 DEF QueryPlanInv, ChannelInv, HasRunEmpty
  <2> QED BY <1>1, <2>1, <2>2, SamePlan DEF QueryPlanInv
<1>4. CASE /\ status' = "next" /\ channels' = channels \cup {current}
           /\ eos' = [p \in DOMAIN eos \cup {current} |-> IF p = current THEN "answers" ELSE eos[p]]
           /\ inTime' = inTime \cup (IF IsUnbroken THEN {current} ELSE {})
  <2>1. Typed'
    BY <1>1, <1>4 DEF QueryPlanInv, Typed, treeVars, planVars, Literals, Path
  <2>2. DOMAIN eos' = 1 .. current' /\ current \notin DOMAIN eos /\ DOMAIN eos' = DOMAIN eos \cup {current}
    BY <1>2, <1>4
  <2>3. eos'[current] = "answers" /\ \A p \in DOMAIN eos : eos'[p] = eos[p]
    BY <1>4, <2>2
  <2>4. HasRunEmpty' <=> HasRunEmpty
    BY <1>1, <2>2, <2>3 DEF HasRunEmpty
  <2>5. IsUnbroken => ~HasRunEmpty
    BY DEF QueryPlanInv, ChannelInv, IsUnbroken
  <2>6. /\ channels \subseteq DOMAIN eos /\ inTime \subseteq DOMAIN eos
        /\ \A p \in inTime : p \in channels <=> eos[p] \in {"answers", "erase"}
        /\ \A p \in inTime : eos[p] # "answers" => p \in answered
        /\ HasRunEmpty => \A p \in inTime : p \notin channels
    BY DEF QueryPlanInv, ChannelInv
  <2>7. channels' \subseteq DOMAIN eos' /\ inTime' \subseteq DOMAIN eos'
    BY <1>4, <2>2, <2>6
  <2>8. \A p \in inTime' : (p \in channels' <=> eos'[p] \in {"answers", "erase"})
                           /\ (eos'[p] # "answers" => p \in answered')
    BY <1>1, <1>4, <2>2, <2>3, <2>6
  <2>9. HasRunEmpty' => DOMAIN eos' # {} /\ \A p \in inTime' : p \notin channels'
    BY <1>4, <2>2, <2>4, <2>5, <2>6
  <2>10. ChannelInv'
    BY <1>4, <2>2, <2>7, <2>8, <2>9 DEF ChannelInv
  <2> QED BY <1>1, <2>1, <2>10, SamePlan DEF QueryPlanInv
<1> QED BY <1>3, <1>4 DEF Connect

\* A step of the EOS of a path leaves the plan.
LEMMA Proceeding ==
    ASSUME QueryPlanInv, NEW p \in DOMAIN eos, NEW from, NEW to, Proceeds(p, from, to),
           isOpened' \in BOOLEAN, ChannelInv'
    PROVE  QueryPlanInv'
<1>1. UNCHANGED <<treeVars, current, planVars>> /\ status' = status
  BY DEF Proceeds
<1>2. Typed'
  BY <1>1 DEF QueryPlanInv, Typed, treeVars, planVars, Literals, Path
<1> QED BY <1>1, <1>2, SamePlan DEF QueryPlanInv

\* A path ends: one that came in time finds the stream open, and when it has taken the last
\* channel out all others that came in time have ended.
LEMMA EndPathHolds ==
    ASSUME QueryPlanInv, NEW p \in DOMAIN eos, EndPath(p)
    PROVE  QueryPlanInv'
<1>1. /\ ChannelInv /\ isOpened \in BOOLEAN
      /\ channels \subseteq DOMAIN eos /\ inTime \subseteq DOMAIN eos
      /\ \A q \in inTime : q \in channels <=> eos[q] \in {"answers", "erase"}
      /\ \A q \in inTime : eos[q] # "answers" => q \in answered
      /\ HasRunEmpty => \A q \in inTime : q \notin channels
  BY DEF QueryPlanInv, Typed, ChannelInv
<1>2. ASSUME NEW from, NEW to, Proceeds(p, from, to)
      PROVE  /\ eos[p] = from /\ DOMAIN eos' = DOMAIN eos /\ eos'[p] = to
             /\ \A q \in DOMAIN eos : q # p => eos'[q] = eos[q]
             /\ inTime' = inTime /\ current' = current /\ status' = status
  BY <1>2 DEF Proceeds
<1>3. CASE TestStream(p)
  <2> DEFINE to == IF isOpened THEN "erase" ELSE "push"
  <2>1. /\ Proceeds(p, "answers", to) /\ UNCHANGED <<channels, isOpened, eosSent>>
        /\ answered' = answered \cup (IF isOpened /\ ~eosSent THEN {p} ELSE {})
    BY <1>3 DEF TestStream
  <2> HIDE DEF to
  <2>2. /\ eos[p] = "answers" /\ DOMAIN eos' = DOMAIN eos /\ eos'[p] = to
        /\ \A q \in DOMAIN eos : q # p => eos'[q] = eos[q]
        /\ inTime' = inTime /\ current' = current /\ status' = status
    BY <1>2, <2>1
  <2>3. HasRunEmpty' <=> HasRunEmpty
    <3>1. to \in {"push", "close"} => ~isOpened
      BY DEF to
    <3> QED BY <2>1, <2>2, <3>1 DEF HasRunEmpty
  <2>4. p \in inTime => ~HasRunEmpty
    BY <1>1, <2>2
  <2>5. p \in inTime => to = "erase" /\ p \in answered'
    BY <2>1, <2>4 DEF to, HasRunEmpty
  <2>6. \A q \in inTime : (q \in channels <=> eos'[q] \in {"answers", "erase"})
                         /\ (eos'[q] # "answers" => q \in answered')
    BY <1>1, <2>1, <2>2, <2>5
  <2>7. ChannelInv'
    BY <1>1, <2>1, <2>2, <2>3, <2>6 DEF ChannelInv
  <2> QED BY <1>1, <2>1, <2>7, Proceeding
<1>4. CASE Erase(p)
  <2> DEFINE to == IF channels \subseteq {p} THEN "push" ELSE "done"
  <2>1. /\ Proceeds(p, "erase", to) /\ channels' = channels \ {p}
        /\ UNCHANGED <<isOpened, answered, eosSent>>
    BY <1>4 DEF Erase
  <2> HIDE DEF to
  <2>2. /\ eos[p] = "erase" /\ DOMAIN eos' = DOMAIN eos /\ eos'[p] = to
        /\ \A q \in DOMAIN eos : q # p => eos'[q] = eos[q]
        /\ inTime' = inTime /\ current' = current /\ status' = status
    BY <1>2, <2>1
  <2>3. to \in {"push", "done"} /\ (to = "push" => channels' = {})
    BY <2>1 DEF to
  <2>4. HasRunEmpty' => HasRunEmpty \/ channels' = {}
    BY <2>1, <2>2, <2>3 DEF HasRunEmpty
  <2>5. \A q \in inTime : (q \in channels' <=> eos'[q] \in {"answers", "erase"})
                         /\ (eos'[q] # "answers" => q \in answered)
    BY <1>1, <2>1, <2>2, <2>3
  <2>6. HasRunEmpty' => \A q \in inTime : q \notin channels'
    BY <1>1, <2>1, <2>4
  <2>7. channels' \subseteq DOMAIN eos' /\ DOMAIN eos' # {}
    BY <1>1, <2>1, <2>2
  <2>8. ChannelInv'
    BY <1>1, <2>1, <2>2, <2>5, <2>6, <2>7 DEF ChannelInv
  <2> QED BY <1>1, <2>1, <2>8, Proceeding
<1>5. CASE PushEos(p) \/ CloseStream(p)
  <2>1. PICK from \in {"push", "close"}, to \in {"close", "done"} :
            Proceeds(p, from, to) /\ UNCHANGED <<channels, answered>> /\ isOpened' \in BOOLEAN
    BY <1>1, <1>5 DEF PushEos, CloseStream
  <2>2. /\ eos[p] = from /\ DOMAIN eos' = DOMAIN eos /\ eos'[p] = to
        /\ \A q \in DOMAIN eos : q # p => eos'[q] = eos[q]
        /\ inTime' = inTime /\ current' = current /\ status' = status
    BY <1>2, <2>1
  <2>3. HasRunEmpty
    BY <2>1, <2>2 DEF HasRunEmpty
  <2>4. \A q \in inTime : (q \in channels <=> eos'[q] \in {"answers", "erase"})
                         /\ (eos'[q] # "answers" => q \in answered)
    BY <1>1, <2>1, <2>2
  <2>5. ChannelInv'
    BY <1>1, <2>1, <2>2, <2>3, <2>4 DEF ChannelInv
  <2> QED BY <1>1, <2>1, <2>5, Proceeding
<1> QED BY <1>3, <1>4, <1>5 DEF EndPath

\* The stream is returned.
LEMMA ReturnHolds ==
    ASSUME QueryPlanInv, Return
    PROVE  QueryPlanInv'
<1>1. /\ UNCHANGED <<treeVars, current, planVars, outVars>>
      /\ status = "next" /\ status' = "returned" /\ current = Len(paths)
  BY DEF Return
<1>2. Typed'
  BY <1>1 DEF QueryPlanInv, Typed, treeVars, planVars, outVars, Literals, Path
<1>3. ChannelInv'
  BY <1>1 DEF QueryPlanInv, ChannelInv, HasRunEmpty, outVars
<1> QED BY <1>1, <1>2, <1>3, SamePlan DEF QueryPlanInv

-----------------------------------------------------------------------------
(* The theorems                                                              *)

\* The invariant: the state has its types, channels_ has the paths that came in time until
\* they have ended, groups of the dependency graph are connected, and what the visit of a
\* group has left is in the sequence with all of its neighbors.
THEOREM QueryPlanInvariant == Spec => []QueryPlanInv
<1>1. Init => QueryPlanInv
  BY InitHolds
<1>2. QueryPlanInv /\ [Next]_vars => QueryPlanInv'
  <2> SUFFICES ASSUME QueryPlanInv, [Next]_vars
               PROVE  QueryPlanInv'
    OBVIOUS
  <2>1. CASE Expand
    BY <2>1, ExpandHolds
  <2>2. CASE BeginPath
    BY <2>2, BeginPathHolds
  <2>3. CASE InsertLiteral
    BY <2>3, InsertHolds
  <2>4. CASE BeginSequence
    BY <2>4, BeginSequenceHolds
  <2>5. CASE Visit
    BY <2>5, VisitHolds
  <2>6. CASE Connect
    BY <2>6, ConnectHolds
  <2>7. CASE Return
    BY <2>7, ReturnHolds
  <2>8. CASE \E p \in DOMAIN eos : EndPath(p)
    BY <2>8, EndPathHolds
  <2>9. CASE UNCHANGED vars
    <3>1. UNCHANGED <<treeVars, current, planVars>> /\ status' = status /\ UNCHANGED outVars
      BY <2>9 DEF vars
    <3>2. Typed'
      BY <3>1 DEF QueryPlanInv, Typed, treeVars, planVars, outVars, Literals, Path
    <3>3. ChannelInv'
      BY <3>1 DEF QueryPlanInv, ChannelInv, HasRunEmpty, outVars
    <3> QED BY <3>1, <3>2, <3>3, SamePlan DEF QueryPlanInv
  <2> QED BY <2>1, <2>2, <2>3, <2>4, <2>5, <2>6, <2>7, <2>8, <2>9 DEF Next, Submit
<1> QED BY <1>1, <1>2, PTL DEF Spec

\* EOS is output after all answers of every path that was connected while there was one that
\* had not ended: such a path is in channels_ with the other one when that is erased
\* (AnswerStream.cpp:67), and the stream is closed only when channels_ is empty.
THEOREM StreamHasAllPaths == Spec => []EosAfterAllPaths
<1>1. QueryPlanInv => EosAfterAllPaths
  BY DEF QueryPlanInv, ChannelInv, HasRunEmpty, EosAfterAllPaths
<1> QED BY <1>1, QueryPlanInvariant, PTL

\* Every step of a sequence but the first gets bindings from a step before: the visit goes
\* from literals in the sequence to their neighbors, groups that were merged included.
THEOREM StepsAreBound == Spec => []EachStepIsBound
<1>1. QueryPlanInv => EachStepIsBound
  BY DEF QueryPlanInv
<1> QED BY <1>1, QueryPlanInvariant, PTL

\* Unless groups were merged, the sequences of a path that is planned have each of its
\* computable literals once, and two sequences share no variable: a visit ends only when
\* no neighbor leads out of its sequence, which then is all of a connected group.
THEOREM LiteralsAreEvaluatedOnce == Spec => []EachEvaluatedOnceUnlessMerged
<1>1. QueryPlanInv => EachEvaluatedOnceUnlessMerged
  <2> SUFFICES ASSUME QueryPlanInv, current > 0, IsPlanned, ~merged
               PROVE  /\ Sequenced = AllComputable
                      /\ \A g \in groups : IsInjective(sequences[g])
                      /\ \A g, h \in groups : g # h =>
                            \A a \in Range(sequences[g]), b \in Range(sequences[h]) : Vars(a) \cap Vars(b) = {}
    BY DEF EachEvaluatedOnceUnlessMerged
  <2>1. DOMAIN sequences = groups /\ Range(stack) = {} /\ Range(unsorted) = {}
    BY DEF IsPlanned, Range
  <2>2. Members = AllComputable
    BY <2>1 DEF QueryPlanInv, GroupInv, Inserted
  <2>3. ASSUME NEW g \in groups
        PROVE  IsInjective(sequences[g]) /\ Range(sequences[g]) = Range(g.members)
    <3>1. /\ IsInjective(sequences[g]) /\ Range(sequences[g]) \subseteq Range(g.members)
          /\ \A l \in Range(sequences[g]) : neighbors[l] \subseteq Range(sequences[g])
      BY <2>1 DEF QueryPlanInv, SequenceInv
    <3>2. Range(sequences[g]) # {}
      <4>1. sequences[g] \in Seq(Literals) /\ sequences[g] # <<>>
        BY <2>1 DEF QueryPlanInv, Typed
      <4> QED BY <4>1, Tailed
    <3>3. IsClosed(Range(sequences[g]))
      BY <3>1 DEF IsClosed
    <3> QED BY <3>1, <3>2, <3>3 DEF QueryPlanInv, GroupInv
  <2>4. Sequenced = AllComputable
    BY <2>1, <2>2, <2>3 DEF Sequenced, Members
  <2>5. ASSUME NEW g \in groups, NEW h \in groups, g # h,
               NEW a \in Range(sequences[g]), NEW b \in Range(sequences[h])
        PROVE  Vars(a) \cap Vars(b) = {}
    <3>1. Vars(a) \subseteq g.variables /\ Vars(b) \subseteq h.variables
      BY <2>3 DEF QueryPlanInv, GroupInv
    <3>2. g.variables \cap h.variables = {}
      BY <2>5 DEF QueryPlanInv, GroupInv
    <3> QED BY <3>1, <3>2
  <2> QED BY <2>3, <2>4, <2>5
<1> QED BY <1>1, QueryPlanInvariant, PTL
=============================================================================
