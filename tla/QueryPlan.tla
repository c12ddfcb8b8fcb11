------------------------------ MODULE QueryPlan ------------------------------
(***************************************************************************)
(* From a formula to running queries (src/KnowledgeBase.cpp): submitQuery  *)
(* expands the formula into paths (QueryTree.tla) and submits a query for  *)
(* each of them, one after the other. For a path it sorts the positive     *)
(* literals, hands those that no reasoner can evaluate to the database,    *)
(* inserts the others into a dependency graph                              *)
(* (src/queries/DependencyGraph.cpp), and computes for each group of the   *)
(* graph the order in which its literals are evaluated.                    *)
(*                                                                         *)
(* The output of a path is connected to the common output stream as soon   *)
(* as its query was submitted, and may end at any time from then on, while *)
(* later paths are still to be submitted. When it does, its EOS takes the  *)
(* steps of AnswerStream::push: the channel is erased under a mutex, and   *)
(* what follows is not. How the query of one path is evaluated is the      *)
(* subject of Pipeline.tla.                                                *)
(*                                                                         *)
(* Literals of a path are named by their position in it.                   *)
(***************************************************************************)
EXTENDS QueryTree

CONSTANTS
    Variables,          \* per predicate: the variables in it
    Computable          \* the predicates that some reasoner can evaluate

VARIABLES
    current,            \* the path that is being submitted; 0 before the first one
    unsorted,           \* the computable literals yet to be inserted, sorted
    edbOnly,            \* the literals of the query to the database
    groups,             \* groups_ of the dependency graph: variables and members
    neighbors,          \* per literal: neighbors_
    sequences,          \* per group that was taken: the order of evaluation
    group,              \* the group that was taken last
    stack,              \* the literals whose neighbors are being visited
    merged,             \* an insertion has merged groups (history)
    status,             \* of submitQuery
    channels,           \* channels_ of the output stream, by the paths that push to them
    isOpened,           \* isOpened_ of the output stream
    eos,                \* per path that was connected: what it has still to push
    inTime,             \* the paths connected before channels_ was empty again (history)
    answered,           \* those whose answers are all output before EOS (history)
    eosSent             \* EOS is output (history)

planVars == <<unsorted, edbOnly, groups, neighbors, sequences, group, stack, merged>>
outVars == <<channels, isOpened, eos, inTime, answered, eosSent>>
vars == <<treeVars, current, planVars, status, outVars>>

NoGroup == [variables |-> {}, members |-> <<>>]
NoChannels == [p \in {} |-> "done"]
NoSequences == [g \in {} |-> <<>>]

Init ==
    /\ TreeInit
    /\ current = 0
    /\ unsorted = <<>> /\ edbOnly = {} /\ groups = {} /\ neighbors = <<>>
    /\ sequences = NoSequences /\ group = NoGroup /\ stack = <<>> /\ merged = FALSE
    /\ status = "expand"
    /\ channels = {} /\ isOpened = TRUE /\ eos = NoChannels
    /\ inTime = {} /\ answered = {} /\ eosSent = FALSE

Path == paths[current]
Vars(l) == Variables[Path[l].name]
numVariables(l) == Cardinality(Vars(l))

Expand ==
    /\ status = "expand"
    /\ IF IsExpanded THEN status' = "next" /\ UNCHANGED treeVars
                     ELSE expandNextNode /\ UNCHANGED status
    /\ UNCHANGED <<current, planVars, outVars>>

-----------------------------------------------------------------------------
(* Splitting a path *)

Positive == {l \in DOMAIN paths[current + 1] : ~paths[current + 1][l].isNegated}
IsComputable(l) == paths[current + 1][l].name \in Computable

\* std::sort with EDBComparator, which puts a literal before another one only if it has at
\* least as many variables and the lower address: addresses may be any, and so may the order.
SortedOrders(literals) == SetToSeqs(literals)

\* Negated literals are not evaluated ("todo: submitQuery negations").
BeginPath ==
    /\ status = "next" /\ current < Len(paths)
    /\ current' = current + 1
    /\ edbOnly' = {l \in Positive : ~IsComputable(l)}
    /\ unsorted' \in SortedOrders({l \in Positive : IsComputable(l)})
    /\ groups' = {} /\ sequences' = NoSequences /\ group' = NoGroup
    /\ stack' = <<>> /\ merged' = FALSE
    /\ neighbors' = [l \in DOMAIN paths[current + 1] |-> {}]
    /\ status' = "insert"
    /\ UNCHANGED <<treeVars, outVars>>

-----------------------------------------------------------------------------
(* DependencyGraph::insert *)

Dependencies(l) == {g \in groups : g.variables \cap Vars(l) # {}}

\* The members of the group that l joins, before it does. Merging groups keeps their
\* variables only: operator+= inserts the members of the other group at the other
\* group's end.
JoinedMembers(l) ==
    IF Cardinality(Dependencies(l)) = 1
    THEN (CHOOSE g \in Dependencies(l) : TRUE).members ELSE <<>>
JoinedVariables(l) == UNION {g.variables : g \in Dependencies(l)}
Near(l) == {m \in Range(JoinedMembers(l)) : Vars(m) \cap Vars(l) # {}}

\* Mutant: the literal's own variables are not added to the group.
InsertWithoutVariables ==
    /\ status = "insert" /\ unsorted # <<>>
    /\ LET l == Head(unsorted)
           joined == [variables |-> IF JoinedVariables(l) = {} THEN Vars(l) ELSE JoinedVariables(l),
                      members |-> Append(JoinedMembers(l), l)]
       IN /\ groups' = (groups \ Dependencies(l)) \cup {joined}
          /\ neighbors' = [m \in DOMAIN neighbors |->
                              IF m = l THEN Near(l) ELSE
                              neighbors[m] \cup (IF m \in Near(l) THEN {l} ELSE {})]
          /\ merged' = (merged \/ Cardinality(Dependencies(l)) > 1)
    /\ unsorted' = Tail(unsorted)
    /\ UNCHANGED <<treeVars, current, edbOnly, sequences, group, stack, status, outVars>>

\* Neighbours are the members that share a variable. (The order of groups has no meaning.)
InsertLiteral ==
    /\ status = "insert" /\ unsorted # <<>>
    /\ LET l == Head(unsorted)
           joined == [variables |-> JoinedVariables(l) \cup Vars(l),
                      members |-> Append(JoinedMembers(l), l)]
       IN /\ groups' = (groups \ Dependencies(l)) \cup {joined}
          /\ neighbors' = [m \in DOMAIN neighbors |->
                              IF m = l THEN Near(l) ELSE
                              neighbors[m] \cup (IF m \in Near(l) THEN {l} ELSE {})]
          /\ merged' = (merged \/ Cardinality(Dependencies(l)) > 1)
    /\ unsorted' = Tail(unsorted)
    /\ UNCHANGED <<treeVars, current, edbOnly, sequences, group, stack, status, outVars>>

-----------------------------------------------------------------------------
(* createComputationSequence *)

numNeighbors(l) == Cardinality(neighbors[l])

\* The first of the members with the fewest neighbors.
IsFirst(l, members) ==
    \E i \in DOMAIN members :
        /\ l = members[i]
        /\ \A j \in DOMAIN members : numNeighbors(l) <= numNeighbors(members[j])
        /\ \A j \in 1 .. i - 1 : numNeighbors(l) < numNeighbors(members[j])

Taken(g, sequence) == [h \in DOMAIN sequences \cup {g} |-> IF h = g THEN sequence ELSE sequences[h]]

\* The next group, and the first literal in its sequence.
BeginSequence ==
    /\ status = "insert" /\ unsorted = <<>> /\ stack = <<>>
    /\ \E g \in groups \ DOMAIN sequences : \E first \in Range(g.members) :
           /\ IsFirst(first, g.members)
           /\ sequences' = Taken(g, <<first>>)
           /\ group' = g
           /\ stack' = <<first>>
    /\ UNCHANGED <<treeVars, current, unsorted, edbOnly, groups, neighbors, merged, status>>
    /\ UNCHANGED outVars

Sequence == sequences[group]
IsBefore(a, b) ==      \* CompareNodes, up to addresses
    \/ numVariables(a) < numVariables(b)
    \/ numVariables(a) = numVariables(b) /\ numNeighbors(a) < numNeighbors(b)

\* Mutant: all members of the group count as neighbors.
UnvisitedMembers == Range(group.members) \ Range(Sequence)

Unvisited == neighbors[Head(stack)] \ Range(Sequence)

\* A neighbor of the literal on top that was not visited is next; among several,
\* one that none is before.
Visit ==
    /\ stack # <<>>
    /\ IF Unvisited = {}
       THEN stack' = Tail(stack) /\ UNCHANGED sequences
       ELSE \E l \in Unvisited :
                /\ \A m \in Unvisited : ~IsBefore(m, l)
                /\ stack' = <<l>> \o stack
                /\ sequences' = Taken(group, Append(Sequence, l))
    /\ UNCHANGED <<treeVars, current, unsorted, edbOnly, groups, neighbors, group, merged, status>>
    /\ UNCHANGED outVars

-----------------------------------------------------------------------------
(* Connecting the paths *)

IsPlanned ==
    status = "insert" /\ unsorted = <<>> /\ stack = <<>> /\ DOMAIN sequences = groups

\* Since the first path was connected, there was always one that had not ended.
IsUnbroken == inTime = DOMAIN eos /\ (channels # {} \/ inTime = {})

\* pathOutput >> outStream: under the mutex a channel is created, unless the stream is closed.
Connect ==
    /\ IsPlanned
    /\ IF isOpened
       THEN /\ channels' = channels \cup {current}
            /\ eos' = [p \in DOMAIN eos \cup {current} |-> IF p = current THEN "answers" ELSE eos[p]]
            /\ inTime' = inTime \cup (IF IsUnbroken THEN {current} ELSE {})
            /\ status' = "next"
       ELSE UNCHANGED <<channels, eos, inTime>> /\ status' = "thrown"
    /\ UNCHANGED <<treeVars, current, planVars, isOpened, answered, eosSent>>

Proceeds(p, from, to) ==
    /\ eos[p] = from /\ eos' = [eos EXCEPT ![p] = to]
    /\ UNCHANGED <<treeVars, current, planVars, status, inTime>>

\* The test of isOpened() for the last answer, which a closed stream drops, and the one for
\* EOS, which it does not. (An answer that comes well before EOS is the less likely to
\* come too late: the stream is not opened again.)
TestStream(p) ==
    /\ Proceeds(p, "answers", IF isOpened THEN "erase" ELSE "push")
    /\ answered' = answered \cup (IF isOpened /\ ~eosSent THEN {p} ELSE {})
    /\ UNCHANGED <<channels, isOpened, eosSent>>

\* Mutant: EOS of any path ends the stream.
EraseAlwaysPush(p) ==
    /\ Proceeds(p, "erase", "push")
    /\ channels' = channels \ {p}
    /\ UNCHANGED <<isOpened, answered, eosSent>>

\* Under the mutex. A stream without channels gets EOS and is closed.
Erase(p) ==
    /\ Proceeds(p, "erase", IF channels \subseteq {p} THEN "push" ELSE "done")
    /\ channels' = channels \ {p}
    /\ UNCHANGED <<isOpened, answered, eosSent>>

\* Without it: the next path may be connected before, between and after these two.
PushEos(p) ==
    /\ Proceeds(p, "push", "close")
    /\ eosSent' = TRUE
    /\ UNCHANGED <<channels, isOpened, answered>>

CloseStream(p) ==
    /\ Proceeds(p, "close", "done")
    /\ isOpened' = FALSE
    /\ UNCHANGED <<channels, answered, eosSent>>

EndPath(p) ==
    TestStream(p) \/ Erase(p) \/ PushEos(p) \/ CloseStream(p)

\* The caller gets the stream.
Return ==
    /\ status = "next" /\ current = Len(paths)
    /\ status' = "returned"
    /\ UNCHANGED <<treeVars, current, planVars, outVars>>

Submit == Expand \/ BeginPath \/ InsertLiteral \/ BeginSequence \/ Visit \/ Connect \/ Return
Next == Submit \/ \E p \in DOMAIN eos : EndPath(p)
Spec == Init /\ [][Next]_vars

-----------------------------------------------------------------------------
(* Properties *)

\* Two computable literals of a path are evaluated in the same sequence if and
\* only if they are connected by shared variables, and each literal once, unless
\* groups were merged. Then the members of the merged groups are not evaluated.
Sequenced == UNION {Range(sequences[g]) : g \in DOMAIN sequences}
AllComputable ==
    {l \in DOMAIN Path : ~Path[l].isNegated /\ Path[l].name \in Computable}
EachEvaluatedOnceUnlessMerged ==
    (current > 0 /\ IsPlanned /\ ~merged) =>
        /\ Sequenced = AllComputable
        /\ \A g \in groups : IsInjective(sequences[g])
        /\ \A g, h \in groups : g # h =>
              \A a \in Range(sequences[g]), b \in Range(sequences[h]) : Vars(a) \cap Vars(b) = {}

\* Within a sequence, each literal but the first shares a variable with one that
\* is evaluated before it: a step gets bindings from the steps before.
EachStepIsBound ==
    \A g \in DOMAIN sequences : \A i \in 2 .. Len(sequences[g]) :
        \E j \in 1 .. i - 1 : Vars(sequences[g][i]) \cap Vars(sequences[g][j]) # {}

\* "merge multiple groups into one" (DependencyGraph.cpp:67): the literals that were
\* inserted are members of the groups.
GroupsHaveAllMembers ==
    (current > 0 /\ IsPlanned) => AllComputable \subseteq UNION {Range(g.members) : g \in groups}

\* EOS comes after all answers of every path that was connected while there was one
\* before it that had not ended. (A path that comes when the others have ended is
\* refused, or cut off by their EOS.)
EosAfterAllPaths == eosSent => inTime \subseteq answered

\* "The call is non-blocking and returns a stream of answers" (KnowledgeBase.h:101).
ReturnsStream == status # "thrown"
==============================================================================
