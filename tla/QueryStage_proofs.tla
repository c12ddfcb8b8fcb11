------------------------- MODULE QueryStage_proofs --------------------------
(***************************************************************************)
(* A stage loses no answer and sends one EOS, for any number of partial    *)
(* results and answers, apart from the two races that windows records. The *)
(* argument is where a query is: its worker is inside push with an answer  *)
(* only as long as graphQueries_ has the query.                            *)
(***************************************************************************)
EXTENDS QueryStage, SequenceTheorems, TLAPS

\* Where the worker of an active query is while it is inside push.
AnswerPC == {"answer", "testOutput", "send"}
WorkPC == AnswerPC \cup {"close", "closing", "erase", "stuck", "undefined"}

\* A worker is inside push only as long as its query is active, and a query
\* that was not submitted has left no trace.
Tracked ==
    \A q \in Queries :
        /\ pc[q] \in WorkPC \/ (pc[q] = "idle" /\ isConnected[q]) => IsActive(q)
        /\ isConnected[q] => pc[q] # "absent"
        /\ pc[q] = "absent" => ~IsActive(q) /\ numSent[q] = 0
        /\ q > numFed \/ (q = numFed /\ pc[Feeder] = "submit") => pc[q] = "absent"
        /\ pc[q] \in AnswerPC => numSent[q] > 0

\* The feeder has passed the end of the input exactly when isAwaitingInput_ is reset.
Fed ==
    /\ pc[Feeder] \in {"idle", "submit", "testActive", "finished"} \cup EosPC
    /\ pc[Feeder] = "submit" => numFed \in Queries
    /\ isAwaitingInput <=> pc[Feeder] \in {"idle", "submit"}
    /\ ~isAwaitingInput => numFed = NumInputs

\* EOS goes out after isQueryOpened_ was reset, which waits for the end of the input.
Closed ==
    /\ (\E t \in Threads : pc[t] \in EosPC) => ~isQueryOpened
    /\ EOS \in Range(output) => ~isQueryOpened
    /\ ~isOutputOpened => ~isQueryOpened
    /\ ~isQueryOpened => ~isAwaitingInput

StageInv == TypeOK /\ Tracked /\ Fed /\ Closed

\* Unless a query was overtaken: no query is active once EOS goes out, and every
\* answer is out, or on its way by a worker inside push.
CompleteInv ==
    "overtaken" \notin windows =>
        /\ ~isQueryOpened => graphQueries = <<>>
        /\ \A q \in Queries : \A k \in 1 .. numSent[q] :
              <<q, k>> \in Range(output) \/ (k = numSent[q] /\ pc[q] \in AnswerPC)
        /\ EOS \in Range(output) => output[Len(output)] = EOS

\* Unless two threads were at it simultaneously: one sends EOS, and then the channel
\* to the next stage is closed before another one tests it.
OneEosInv ==
    "simultaneous" \notin windows =>
        /\ \A t, u \in Threads : pc[t] \in EosPC /\ pc[u] \in EosPC => t = u
        /\ \A t \in Threads : pc[t] = "deliverEos" => isOutputOpened /\ EOS \notin Range(output)
        /\ EOS \in Range(output) /\ isOutputOpened => \E t \in Threads : pc[t] = "shut"
        /\ \A i, j \in DOMAIN output : output[i] = EOS /\ output[j] = EOS => i = j

-----------------------------------------------------------------------------
(* Sequences *)

\* An element that is appended or put in front comes to the range.
LEMMA Appended ==
    ASSUME NEW S, NEW s \in Seq(S), NEW e \in S
    PROVE  /\ Append(s, e) \in Seq(S) /\ Range(Append(s, e)) = Range(s) \cup {e}
           /\ DOMAIN s = 1 .. Len(s) /\ DOMAIN Append(s, e) = 1 .. Len(s) + 1 /\ Len(s) \in Nat
           /\ Len(Append(s, e)) = Len(s) + 1 /\ Append(s, e)[Len(s) + 1] = e
           /\ \A i \in 1 .. Len(s) : Append(s, e)[i] = s[i]
<1>1. /\ Append(s, e) \in Seq(S) /\ Len(Append(s, e)) = Len(s) + 1 /\ Append(s, e)[Len(s) + 1] = e
      /\ \A i \in 1 .. Len(s) : Append(s, e)[i] = s[i]
      /\ DOMAIN s = 1 .. Len(s) /\ DOMAIN Append(s, e) = 1 .. Len(s) + 1 /\ Len(s) \in Nat
  BY AppendProperties, LenProperties
<1>2. \A i \in 1 .. Len(s) + 1 : i \in 1 .. Len(s) \/ i = Len(s) + 1
  BY <1>1
<1>3. \A i \in 1 .. Len(s) : i \in 1 .. Len(s) + 1
  BY <1>1
<1>4. Len(s) + 1 \in 1 .. Len(s) + 1
  BY <1>1
<1>5. Range(Append(s, e)) \subseteq Range(s) \cup {e}
  BY <1>1, <1>2 DEF Range
<1>6. Range(s) \cup {e} \subseteq Range(Append(s, e))
  <2>1. e \in Range(Append(s, e))
    BY <1>1, <1>4 DEF Range
  <2>2. ASSUME NEW r \in Range(s) PROVE r \in Range(Append(s, e))
    <3>1. PICK i \in 1 .. Len(s) : r = s[i]
      BY <1>1 DEF Range
    <3>2. r = Append(s, e)[i] /\ i \in DOMAIN Append(s, e)
      BY <1>1, <1>3, <3>1
    <3> QED
      BY <3>2 DEF Range
  <2> QED
    BY <2>1, <2>2
<1> QED
  BY <1>1, <1>5, <1>6

LEMMA Prepended ==
    ASSUME NEW S, NEW s \in Seq(S), NEW e \in S
    PROVE  /\ <<e>> \o s \in Seq(S) /\ Range(<<e>> \o s) = Range(s) \cup {e}
           /\ IsInjective(s) /\ e \notin Range(s) => IsInjective(<<e>> \o s)
<1> DEFINE t == <<e>> \o s
<1>1. /\ t \in Seq(S) /\ Len(s) \in Nat /\ DOMAIN s = 1 .. Len(s) /\ DOMAIN t = 1 .. Len(s) + 1
      /\ t[1] = e /\ \A i \in 2 .. Len(s) + 1 : t[i] = s[i - 1]
  <2>1. <<e>> \in Seq(S) /\ Len(<<e>>) = 1 /\ <<e>>[1] = e
    OBVIOUS
  <2>2. Len(s) \in Nat /\ DOMAIN s = 1 .. Len(s)
    BY LenProperties
  <2>3. /\ t \in Seq(S) /\ Len(t) = Len(<<e>>) + Len(s)
        /\ \A i \in 1 .. Len(<<e>>) + Len(s) : t[i] = IF i <= Len(<<e>>) THEN <<e>>[i] ELSE s[i - Len(<<e>>)]
    BY <2>1, ConcatProperties
  <2>4. DOMAIN t = 1 .. Len(t)
    BY <2>3, LenProperties
  <2> HIDE DEF t
  <2>5. DOMAIN t = 1 .. Len(s) + 1
    BY <2>1, <2>2, <2>3, <2>4
  <2>6. t[1] = e /\ \A i \in 2 .. Len(s) + 1 : t[i] = s[i - 1]
    BY <2>1, <2>2, <2>3
  <2> QED
    BY <2>2, <2>3, <2>5, <2>6
<1> HIDE DEF t
<1>2. \A i \in 1 .. Len(s) + 1 : i = 1 \/ (i \in 2 .. Len(s) + 1 /\ i - 1 \in 1 .. Len(s))
  BY <1>1
<1>3. \A i \in 1 .. Len(s) : i + 1 \in 2 .. Len(s) + 1 /\ i + 1 \in 1 .. Len(s) + 1 /\ (i + 1) - 1 = i
  BY <1>1
<1>4. 1 \in DOMAIN t /\ (\A i \in 1 .. Len(s) : i + 1 \in DOMAIN t /\ t[i + 1] = s[i])
  BY <1>1, <1>3
<1>5. Range(t) \subseteq Range(s) \cup {e}
  BY <1>1, <1>2 DEF Range
<1>6. Range(s) \cup {e} \subseteq Range(t)
  BY <1>1, <1>4 DEF Range
<1>7. ASSUME IsInjective(s), e \notin Range(s) PROVE IsInjective(t)
  <2>1. \A i \in 2 .. Len(s) + 1 : i - 1 \in 1 .. Len(s) /\ s[i - 1] \in Range(s)
    BY <1>1 DEF Range
  <2>2. \A i, j \in 2 .. Len(s) + 1 : s[i - 1] = s[j - 1] => i = j
    <3> SUFFICES ASSUME NEW i \in 2 .. Len(s) + 1, NEW j \in 2 .. Len(s) + 1, s[i - 1] = s[j - 1]
                 PROVE  i = j
      OBVIOUS
    <3>1. i - 1 = j - 1
      BY <1>1, <1>7, <2>1 DEF IsInjective
    <3> QED
      BY <3>1
  <2>3. \A i, j \in DOMAIN t : t[i] = t[j] => i = j
    BY <1>1, <1>2, <1>7, <2>1, <2>2
  <2> QED
    BY <2>3 DEF IsInjective
<1> QED
  BY <1>1, <1>5, <1>6, <1>7 DEF t

\* What is removed at a place leaves everything else.
LEMMA Removed ==
    ASSUME NEW S, NEW s \in Seq(S), NEW i \in DOMAIN s
    PROVE  /\ RemoveAt(s, i) \in Seq(S)
           /\ Range(RemoveAt(s, i)) \subseteq Range(s)
           /\ \A r \in Range(s) : r # s[i] => r \in Range(RemoveAt(s, i))
           /\ IsInjective(s) => IsInjective(RemoveAt(s, i))
<1> DEFINE a == SubSeq(s, 1, i - 1)
           b == SubSeq(s, i + 1, Len(s))
           t == a \o b
           n == Len(s)
<1>1. n \in Nat /\ DOMAIN s = 1 .. n /\ i \in 1 .. n
  BY LenProperties
<1>2. a \in Seq(S) /\ Len(a) = i - 1 /\ \A j \in 1 .. i - 1 : a[j] = s[j]
  BY <1>1
<1>3. b \in Seq(S) /\ Len(b) = n - i /\ \A j \in 1 .. n - i : b[j] = s[i + j]
  <2>1. b \in Seq(S) /\ Len(b) = n - i
    BY <1>1
  <2>2. \A j \in 1 .. n - i : b[j] = s[i + j]
    BY <1>1
  <2> QED
    BY <2>1, <2>2
<1> HIDE DEF a, b, n
<1>4. t \in Seq(S) /\ Len(t) = n - 1
      /\ \A j \in 1 .. n - 1 : t[j] = IF j < i THEN s[j] ELSE s[j + 1]
  <2>1. /\ t \in Seq(S) /\ Len(t) = Len(a) + Len(b)
        /\ \A j \in 1 .. Len(a) + Len(b) : t[j] = IF j <= Len(a) THEN a[j] ELSE b[j - Len(a)]
    BY <1>2, <1>3, ConcatProperties
  <2> HIDE DEF t
  <2>2. \A j \in 1 .. n - 1 : t[j] = IF j < i THEN s[j] ELSE s[j + 1]
    <3> SUFFICES ASSUME NEW j \in 1 .. n - 1 PROVE t[j] = IF j < i THEN s[j] ELSE s[j + 1]
      OBVIOUS
    <3>1. CASE j < i
      BY <1>1, <1>2, <1>3, <2>1, <3>1
    <3>2. CASE ~(j < i)
      <4>1. j - (i - 1) \in 1 .. n - i /\ i + (j - (i - 1)) = j + 1
        BY <1>1, <3>2
      <4>2. t[j] = b[j - (i - 1)]
        <5>1. ~(j <= Len(a)) /\ j \in 1 .. Len(a) + Len(b)
          BY <1>1, <1>2, <1>3, <3>2
        <5> QED
          BY <1>2, <2>1, <5>1
      <4>3. b[j - (i - 1)] = s[j + 1]
        BY <1>3, <4>1
      <4> QED
        BY <3>2, <4>2, <4>3
    <3> QED
      BY <3>1, <3>2
  <2> QED
    BY <1>1, <1>2, <1>3, <2>1, <2>2
<1>5. DOMAIN t = 1 .. n - 1
  BY <1>4, LenProperties
<1>6. t = RemoveAt(s, i)
  BY DEF RemoveAt, a, b
<1> HIDE DEF t
<1>7. Range(t) \subseteq Range(s)
  <2>1. \A j \in 1 .. n - 1 : j \in 1 .. n /\ j + 1 \in 1 .. n
    BY <1>1
  <2> QED
    BY <1>1, <1>4, <1>5, <2>1 DEF Range
<1>8. ASSUME NEW r \in Range(s), r # s[i] PROVE r \in Range(t)
  <2>1. PICK j \in 1 .. n : r = s[j]
    BY <1>1 DEF Range
  <2>2. CASE j < i
    <3>1. j \in 1 .. n - 1
      BY <1>1, <2>2
    <3> QED
      BY <1>4, <1>5, <2>1, <2>2, <3>1 DEF Range
  <2>3. CASE j > i
    <3>1. j - 1 \in 1 .. n - 1 /\ ~(j - 1 < i) /\ (j - 1) + 1 = j
      BY <1>1, <2>3
    <3>2. t[j - 1] = s[j]
      BY <1>4, <3>1
    <3> QED
      BY <1>5, <2>1, <3>1, <3>2 DEF Range
  <2> QED
    BY <1>1, <1>8, <2>1, <2>2, <2>3
<1>9. ASSUME IsInjective(s) PROVE IsInjective(t)
  <2> SUFFICES ASSUME NEW j \in 1 .. n - 1, NEW k \in 1 .. n - 1, t[j] = t[k] PROVE j = k
    BY <1>5 DEF IsInjective
  <2> DEFINE up(m) == IF m < i THEN m ELSE m + 1
  <2>1. up(j) \in 1 .. n /\ up(k) \in 1 .. n /\ t[j] = s[up(j)] /\ t[k] = s[up(k)]
    BY <1>1, <1>4
  <2>2. up(j) = up(k)
    <3> HIDE DEF up
    <3> QED
      BY <1>1, <1>9, <2>1 DEF IsInjective
  <2> QED
    BY <1>1, <2>2
<1> QED
  BY <1>4, <1>6, <1>7, <1>8, <1>9

LEMMA Tailed ==
    ASSUME NEW S, NEW s \in Seq(S), s # <<>>
    PROVE  /\ Head(s) \in Range(s) /\ Head(s) \in S /\ Tail(s) \in Seq(S)
           /\ Range(Tail(s)) \subseteq Range(s)
           /\ \A r \in Range(s) : r # Head(s) => r \in Range(Tail(s))
           /\ IsInjective(s) => IsInjective(Tail(s))
<1>1. 1 \in DOMAIN s /\ Head(s) = s[1] /\ s[1] \in S /\ Len(s) \in Nat /\ Len(s) >= 1
  BY LenProperties, EmptySeq, HeadTailProperties
<1>2. Tail(s) = RemoveAt(s, 1)
  <2> DEFINE b == SubSeq(s, 2, Len(s))
  <2>1. b \in Seq(S) /\ Len(b) = Len(s) - 1 /\ \A j \in 1 .. Len(s) - 1 : b[j] = s[j + 1]
    BY <1>1
  <2>2. Tail(s) \in Seq(S) /\ Len(Tail(s)) = Len(s) - 1 /\ \A j \in 1 .. Len(s) - 1 : Tail(s)[j] = s[j + 1]
    BY <1>1, HeadTailProperties
  <2>3. SubSeq(s, 1, 0) = <<>>
    BY <1>1
  <2> HIDE DEF b
  <2>4. Tail(s) = b
    BY <2>1, <2>2, SeqEqual
  <2>5. <<>> \o b = b
    BY <2>1, ConcatEmptySeq
  <2> QED
    BY <2>3, <2>4, <2>5 DEF RemoveAt, b
<1>3. s[1] \in Range(s)
  BY <1>1 DEF Range
<1> QED
  BY <1>1, <1>2, <1>3, Removed

-----------------------------------------------------------------------------
(* Where the queries are *)

LEMMA Facts ==
    /\ Feeder \notin Queries /\ NoOne \notin Queries /\ Feeder \in Threads
    /\ NumInputs \in Nat /\ NumAnswers \in Nat
    /\ \A q \in Queries : q \in Nat /\ q \in Threads /\ q # Feeder /\ q # NoOne
    /\ \A t \in Threads : t \in Queries \/ t = Feeder
BY StageAssumption DEF Queries, Threads

\* A thread moves alone.
LEMMA Moves ==
    ASSUME TypeOK, NEW t \in Threads, NEW p, pc' = [pc EXCEPT ![t] = p]
    PROVE  /\ pc'[t] = p /\ \A u \in Threads \ {t} : pc'[u] = pc[u]
           /\ \A q \in Queries \ {t} : pc'[q] = pc[q]
           /\ p \in ThreadPC => pc' \in [Threads -> ThreadPC]
BY Facts DEF TypeOK

\* Where a worker holds no lock.
OutPC == {"absent", "idle", "finished"}

LockPlace ==
    /\ pushLock \in [Queries -> Queries \cup {NoOne}]
    /\ \A q \in Queries : pushLock[q] = IF pc[q] \in OutPC THEN NoOne ELSE q

\* pushLock_ after a step of a worker that keeps, takes or leaves it.
LEMMA Locks ==
    ASSUME TypeOK, NEW q \in Queries, NEW p \in ThreadPC, pc' = [pc EXCEPT ![q] = p],
           \/ pushLock' = pushLock /\ (pc[q] \in OutPC <=> p \in OutPC)
           \/ pushLock' = [pushLock EXCEPT ![q] = q] /\ p \notin OutPC
           \/ pushLock' = [pushLock EXCEPT ![q] = NoOne] /\ p \in OutPC
    PROVE  LockPlace'
<1>1. pc'[q] = p /\ \A r \in Queries \ {q} : pc'[r] = pc[r]
  BY Facts, Moves
<1>2. LockPlace
  BY DEF TypeOK, LockPlace, OutPC
<1>3. CASE pushLock' = pushLock /\ (pc[q] \in OutPC <=> p \in OutPC)
  BY <1>1, <1>2, <1>3 DEF LockPlace
<1>4. CASE pushLock' = [pushLock EXCEPT ![q] = q] /\ p \notin OutPC
  BY <1>1, <1>2, <1>4 DEF LockPlace
<1>5. CASE pushLock' = [pushLock EXCEPT ![q] = NoOne] /\ p \in OutPC
  BY <1>1, <1>2, <1>5 DEF LockPlace
<1> QED
  BY <1>3, <1>4, <1>5

LEMMA InitStage == Init => StageInv
<1> SUFFICES ASSUME Init PROVE StageInv
  OBVIOUS
<1> USE Facts
<1>0. \A q \in Queries : pc[q] = "absent"
  BY DEF Init
<1>1. <<>> \in Seq(Queries) /\ <<>> \in Seq(Messages) /\ Range(<<>>) = {} /\ IsInjective(<<>>)
  BY DEF Range, IsInjective
<1>2. TypeOK
  <2>1. pc \in [Threads -> ThreadPC]
    BY DEF Init, ThreadPC
  <2>2. numSent \in [Queries -> 0 .. NumAnswers] /\ numFed \in 0 .. NumInputs
    BY DEF Init
  <2>3. pushLock \in [Queries -> Queries \cup {NoOne}] /\ isConnected \in [Queries -> BOOLEAN]
    BY DEF Init
  <2> QED
    BY <1>0, <1>1, <2>1, <2>2, <2>3 DEF Init, TypeOK
<1>3. Tracked
  BY <1>0, <1>1 DEF Init, Tracked, WorkPC, AnswerPC, IsActive
<1>4. Fed
  BY DEF Init, Fed
<1>5. Closed
  BY <1>0, <1>1 DEF Init, Closed, EosPC
<1> QED
  BY <1>2, <1>3, <1>4, <1>5 DEF StageInv

LEMMA InitComplete == Init => CompleteInv /\ OneEosInv
<1> SUFFICES ASSUME Init PROVE CompleteInv /\ OneEosInv
  OBVIOUS
<1>1. Range(<<>>) = {} /\ DOMAIN <<>> = {}
  BY DEF Range
<1>2. \A t \in Threads : pc[t] \notin EosPC
  BY Facts DEF Init, EosPC
<1>3. \A q \in Queries : 1 .. numSent[q] = {}
  BY DEF Init
<1> QED
  BY <1>1, <1>2, <1>3 DEF Init, CompleteInv, OneEosInv, EosPC

\* The ways of a worker through push.
Edge(a, b) ==
    \/ a = "idle" /\ b \in {"answer", "erase"}
    \/ a = "answer" /\ b \in {"testOutput", "idle"}
    \/ a = "testOutput" /\ b \in {"send", "close", "idle"}
    \/ a = "send" /\ b \in {"close", "idle"}
    \/ a = "close" /\ b \in {"closing", "idle"}
    \/ a = "closing" /\ b \in {"stuck", "undefined"}
    \/ a = "erase" /\ b = "testEmpty"
    \/ a = "testEmpty" /\ b \in {"testInput", "finished"}
    \/ a = "testInput" /\ b \in {"eos", "finished"}
    \/ a = "eos" /\ b \in {"deliverEos", "finished"}
    \/ a = "deliverEos" /\ b = "shut"
    \/ a = "shut" /\ b = "finished"

Worker(q) == BeginAnswer(q) \/ BeginEos(q) \/ PushTransformed(q)

\* A worker moves along an edge, holding its pushLock_ while it is inside push.
LEMMA WorkerMoves ==
    ASSUME TypeOK, NEW q \in Queries, Worker(q)
    PROVE  LockPlace' /\ \E p \in ThreadPC : Edge(pc[q], p) /\ pc' = [pc EXCEPT ![q] = p]
<1> USE Facts DEF queryVars, Unlocked
<1> DEFINE Moved(p) ==
        /\ p \in ThreadPC /\ Edge(pc[q], p) /\ pc' = [pc EXCEPT ![q] = p]
        /\ \/ pushLock' = pushLock /\ (pc[q] \in OutPC <=> p \in OutPC)
           \/ pushLock' = [pushLock EXCEPT ![q] = q] /\ p \notin OutPC
           \/ pushLock' = [pushLock EXCEPT ![q] = NoOne] /\ p \in OutPC
<1>1. \E p : Moved(p)
  <2> USE DEF Edge, ThreadPC, OutPC, Goes
  <2>1. CASE BeginAnswer(q)
    <3>1. Moved("answer")
      BY <2>1 DEF BeginAnswer, Lock
    <3> HIDE DEF Moved
    <3> QED
      BY <3>1
  <2>2. CASE BeginEos(q)
    <3>1. Moved("erase")
      BY <2>2 DEF BeginEos, Lock
    <3> HIDE DEF Moved
    <3> QED
      BY <3>1
  <2>3. CASE TestOpened(q)
    BY <2>3 DEF TestOpened
  <2>4. CASE TestChannel(q)
    <3>1. CASE isOutputOpened
      <4>1. Moved("send")
        BY <2>4, <3>1 DEF TestChannel, LeavesAnswer
      <4> HIDE DEF Moved
      <4> QED
        BY <4>1
    <3>2. CASE ~isOutputOpened /\ isOneSolution
      <4>1. Moved("close")
        BY <2>4, <3>2 DEF TestChannel, LeavesAnswer
      <4> HIDE DEF Moved
      <4> QED
        BY <4>1
    <3>3. CASE ~isOutputOpened /\ ~isOneSolution
      <4>1. Moved("idle")
        BY <2>4, <3>3 DEF TestChannel, LeavesAnswer
      <4> HIDE DEF Moved
      <4> QED
        BY <4>1
    <3> QED
      BY <3>1, <3>2, <3>3
  <2>5. CASE PushAnswer(q)
    <3>1. CASE isOneSolution
      <4>1. Moved("close")
        BY <2>5, <3>1 DEF PushAnswer, LeavesAnswer
      <4> HIDE DEF Moved
      <4> QED
        BY <4>1
    <3>2. CASE ~isOneSolution
      <4>1. Moved("idle")
        BY <2>5, <3>2 DEF PushAnswer, LeavesAnswer
      <4> HIDE DEF Moved
      <4> QED
        BY <4>1
    <3> QED
      BY <3>1, <3>2
  <2>6. CASE EraseQuery(q)
    <3>1. Moved("testEmpty")
      BY <2>6 DEF EraseQuery
    <3> HIDE DEF Moved
    <3> QED
      BY <3>1
  <2>7. CASE TestEmpty(q)
    BY <2>7 DEF TestEmpty, LeavesEos
  <2>8. CASE TestInput(q)
    BY <2>8 DEF TestInput, LeavesEos
  <2>9. CASE TestOutput(q)
    BY <2>9 DEF TestOutput, Finish
  <2>10. CASE DeliverEos(q)
    <3>1. Moved("shut")
      BY <2>10 DEF DeliverEos
    <3> HIDE DEF Moved
    <3> QED
      BY <3>1
  <2>11. CASE ShutOutput(q)
    BY <2>11 DEF ShutOutput, Finish
  <2>12. CASE CloseBegins(q)
    <3>1. CASE hasStopRequest
      <4>1. Moved("idle")
        BY <2>12, <3>1 DEF CloseBegins
      <4> HIDE DEF Moved
      <4> QED
        BY <4>1
    <3>2. CASE ~hasStopRequest
      <4>1. Moved("closing")
        BY <2>12, <3>2 DEF CloseBegins
      <4> HIDE DEF Moved
      <4> QED
        BY <4>1
    <3> QED
      BY <3>1, <3>2
  <2>13. CASE CloseOwnQuery(q)
    <3>1. Moved("stuck")
      BY <2>13 DEF CloseOwnQuery
    <3> HIDE DEF Moved
    <3> QED
      BY <3>1
  <2>14. CASE CloseOtherQuery(q)
    <3>1. Moved("undefined")
      BY <2>14 DEF CloseOtherQuery
    <3> HIDE DEF Moved
    <3> QED
      BY <3>1
  <2> QED
    BY <2>1, <2>2, <2>3, <2>4, <2>5, <2>6, <2>7, <2>8, <2>9, <2>10, <2>11, <2>12, <2>13, <2>14
       DEF Worker, PushTransformed, PushEos
<1> QED
  BY <1>1, Locks

\* What a step of a worker leaves alone, by the action that does not.
LEMMA WorkerFrame ==
    ASSUME TypeOK, NEW q \in Queries, Worker(q)
    PROVE  /\ UNCHANGED <<isOneSolution, isAwaitingInput, isStreamOpened, numFed>>
           /\ \/ UNCHANGED <<graphQueries, isConnected, numSent>>
              \/ BeginAnswer(q) \/ BeginEos(q) \/ EraseQuery(q) \/ CloseOtherQuery(q)
           /\ (UNCHANGED <<isQueryOpened, windows>> /\ pc[q] # "testInput") \/ TestInput(q)
           /\ output' = output \/ PushAnswer(q) \/ DeliverEos(q)
           /\ isOutputOpened' = isOutputOpened \/ ShutOutput(q)
           /\ hasStopRequest' \in {hasStopRequest, TRUE}
           /\ pc[q] = "idle" => BeginAnswer(q) \/ BeginEos(q)
<1> USE DEF Goes, stageVars, outputVars, queryVars
<1>1. CASE BeginAnswer(q)
  BY <1>1 DEF BeginAnswer, Lock
<1>2. CASE BeginEos(q)
  BY <1>2 DEF BeginEos, Lock
<1>3. CASE TestOpened(q)
  BY <1>3 DEF TestOpened
<1>4. CASE TestChannel(q)
  BY <1>4 DEF TestChannel
<1>5. CASE PushAnswer(q)
  BY <1>5 DEF PushAnswer
<1>6. CASE EraseQuery(q)
  BY <1>6 DEF EraseQuery
<1>7. CASE TestEmpty(q)
  BY <1>7 DEF TestEmpty
<1>8. CASE TestInput(q)
  BY <1>8 DEF TestInput
<1>9. CASE TestOutput(q)
  BY <1>9 DEF TestOutput
<1>10. CASE DeliverEos(q)
  BY <1>10 DEF DeliverEos
<1>11. CASE ShutOutput(q)
  BY <1>11 DEF ShutOutput, Finish
<1>12. CASE CloseBegins(q)
  BY <1>12 DEF CloseBegins
<1>13. CASE CloseOwnQuery(q)
  BY <1>13 DEF CloseOwnQuery
<1>14. CASE CloseOtherQuery(q)
  BY <1>14 DEF CloseOtherQuery
<1> QED
  BY <1>1, <1>2, <1>3, <1>4, <1>5, <1>6, <1>7, <1>8, <1>9, <1>10, <1>11, <1>12, <1>13, <1>14
     DEF Worker, PushTransformed, PushEos

\* graphQueries_ without query h.
Without(h) ==
    /\ graphQueries' \in Seq(Queries) /\ IsInjective(graphQueries')
    /\ \A r \in Queries : IsActive(r)' => IsActive(r)
    /\ \A r \in Queries : r # h /\ IsActive(r) => IsActive(r)'

LEMMA Erased ==
    ASSUME TypeOK, NEW q \in Queries
    PROVE  /\ EraseQuery(q) => Without(q)
           /\ CloseOtherQuery(q) => Without(Head(graphQueries)) /\ Head(graphQueries) \in Queries
<1>1. ASSUME EraseQuery(q) PROVE Without(q)
  <2>1. PICK i \in DOMAIN graphQueries : graphQueries[i] = q /\ graphQueries' = RemoveAt(graphQueries, i)
    BY <1>1 DEF EraseQuery
  <2> QED
    BY <2>1, Removed DEF Without, IsActive, TypeOK
<1>2. ASSUME CloseOtherQuery(q) PROVE Without(Head(graphQueries)) /\ Head(graphQueries) \in Queries
  <2>1. graphQueries # <<>> /\ graphQueries' = Tail(graphQueries)
    BY <1>2 DEF CloseOtherQuery
  <2> QED
    BY <2>1, Tailed DEF Without, IsActive, TypeOK
<1> QED
  BY <1>1, <1>2

LEMMA WorkerType == ASSUME StageInv, NEW q \in Queries, Worker(q) PROVE TypeOK'
<1> USE Facts
<1>0. TypeOK /\ Tracked
  BY DEF StageInv
<1>1. LockPlace' /\ pc' \in [Threads -> ThreadPC]
  BY <1>0, WorkerMoves, Moves
<1>2. graphQueries' \in Seq(Queries) /\ IsInjective(graphQueries')
  BY <1>0, WorkerFrame, Erased DEF BeginAnswer, BeginEos, stageVars, TypeOK, Without
<1>3. numSent' \in [Queries -> 0 .. NumAnswers]
  <2>1. CASE BeginAnswer(q)
    <3>1. numSent[q] + 1 \in 0 .. NumAnswers
      BY <1>0, <2>1 DEF BeginAnswer, TypeOK
    <3>2. numSent' = [numSent EXCEPT ![q] = numSent[q] + 1]
      BY <2>1 DEF BeginAnswer
    <3> QED
      BY <1>0, <3>1, <3>2 DEF TypeOK
  <2> QED
    BY <1>0, <2>1, WorkerFrame DEF BeginEos, EraseQuery, CloseOtherQuery, queryVars, TypeOK
<1>4. isConnected' \in [Queries -> BOOLEAN]
  BY <1>0, WorkerFrame, Erased DEF BeginAnswer, BeginEos, EraseQuery, CloseOtherQuery, queryVars, TypeOK
<1>5. output' \in Seq(Messages)
  <2>1. EOS \in Messages
    BY DEF Messages
  <2>2. CASE DeliverEos(q)
    BY <1>0, <2>1, <2>2, Appended DEF DeliverEos, TypeOK
  <2>3. CASE PushAnswer(q)
    <3>1. <<q, numSent[q]>> \in Messages
      <4>1. pc[q] = "send"
        BY <2>3 DEF PushAnswer
      <4>2. numSent[q] \in 1 .. NumAnswers
        BY <1>0, <4>1 DEF Tracked, AnswerPC, TypeOK
      <4> QED
        BY <4>2 DEF Messages
    <3> QED
      BY <1>0, <2>3, <3>1, Appended DEF PushAnswer, TypeOK
  <2> QED
    BY <1>0, <2>2, <2>3, WorkerFrame DEF TypeOK
<1>6. /\ isOneSolution' \in BOOLEAN /\ isQueryOpened' \in BOOLEAN /\ isAwaitingInput' \in BOOLEAN
      /\ hasStopRequest' \in BOOLEAN /\ isStreamOpened' \in BOOLEAN /\ isOutputOpened' \in BOOLEAN
  <2>1. isQueryOpened' \in BOOLEAN
    BY <1>0, WorkerFrame DEF TypeOK, TestInput
  <2>2. isOutputOpened' \in BOOLEAN
    BY <1>0, WorkerFrame DEF TypeOK, ShutOutput
  <2> QED
    BY <1>0, <2>1, <2>2, WorkerFrame DEF TypeOK
<1>7. windows' \subseteq {"overtaken", "simultaneous"} /\ numFed' = numFed
  <2>1. windows \subseteq {"overtaken", "simultaneous"}
    BY <1>0 DEF TypeOK
  <2>2. TestInput(q) => windows' \subseteq {"overtaken", "simultaneous"}
    BY <2>1 DEF TestInput, NoteEosBy
  <2> QED
    BY <1>0, <2>1, <2>2, WorkerFrame
<1> QED
  BY <1>0, <1>1, <1>2, <1>3, <1>4, <1>5, <1>6, <1>7 DEF TypeOK, LockPlace, OutPC

\* The next stage receives the answer that the worker took to push.
LEMMA Pushed ==
    ASSUME TypeOK, Tracked, NEW q \in Queries, PushAnswer(q)
    PROVE  /\ <<q, numSent[q]>> \in Messages /\ <<q, numSent[q]>> # EOS
           /\ pc[q] = "send" /\ output' = Append(output, <<q, numSent[q]>>)
           /\ Range(output') = Range(output) \cup {<<q, numSent[q]>>}
<1>1. pc[q] = "send" /\ output' = Append(output, <<q, numSent[q]>>)
  BY DEF PushAnswer
<1>2. numSent[q] \in 1 .. NumAnswers
  BY <1>1, Facts DEF Tracked, AnswerPC, TypeOK
<1>3. <<q, numSent[q]>> \in Messages
  BY <1>2 DEF Messages
<1>4. output \in Seq(Messages)
  BY DEF TypeOK
<1>5. Range(Append(output, <<q, numSent[q]>>)) = Range(output) \cup {<<q, numSent[q]>>}
  BY <1>3, <1>4, Appended
<1> QED
  BY <1>1, <1>3, <1>5 DEF EOS

LEMMA WorkerStage == ASSUME StageInv, NEW q \in Queries, Worker(q) PROVE StageInv'
<1> USE Facts
<1>0. TypeOK /\ Tracked /\ Fed /\ Closed
  BY DEF StageInv
<1>1. PICK p \in ThreadPC : Edge(pc[q], p) /\ pc' = [pc EXCEPT ![q] = p]
  BY <1>0, WorkerMoves
<1>2. pc'[q] = p /\ pc'[Feeder] = pc[Feeder] /\ \A u \in Threads \ {q} : pc'[u] = pc[u]
  BY <1>0, <1>1, Moves
<1>3. \A r \in Queries \ {q} : pc'[r] = pc[r]
  BY <1>2
<1>4. UNCHANGED <<isAwaitingInput, numFed>>
  BY <1>0, WorkerFrame
<1>5. Fed'
  BY <1>0, <1>2, <1>4 DEF Fed
<1>6. Closed'
  <2>1. (isQueryOpened' = isQueryOpened /\ pc[q] # "testInput") \/ (~isQueryOpened' /\ ~isAwaitingInput)
        \/ (isQueryOpened' = isQueryOpened /\ p # "eos")
    <3>1. ASSUME TestInput(q), isAwaitingInput PROVE isQueryOpened' = isQueryOpened /\ p # "eos"
      BY <1>1, <1>2, <3>1 DEF TestInput, LeavesEos, Goes
    <3>2. ASSUME TestInput(q), ~isAwaitingInput PROVE ~isQueryOpened'
      BY <3>2 DEF TestInput
    <3> QED
      BY <1>0, <3>1, <3>2, WorkerFrame
  <2>2. \A t \in Threads : pc'[t] \in EosPC => ~isQueryOpened'
    BY <1>0, <1>1, <1>2, <2>1 DEF Closed, EosPC, Edge
  <2>3. ~isQueryOpened => ~isQueryOpened'
    BY <2>1
  <2>4. EOS \in Range(output') => EOS \in Range(output) \/ pc[q] \in EosPC
    <3>1. CASE PushAnswer(q)
      BY <1>0, <3>1, Pushed
    <3>2. CASE DeliverEos(q)
      BY <3>2 DEF DeliverEos, Goes, EosPC
    <3> QED
      BY <1>0, <3>1, <3>2, WorkerFrame
  <2>5. ~isOutputOpened' => ~isOutputOpened \/ pc[q] \in EosPC
    BY <1>0, WorkerFrame DEF ShutOutput, Finish, Goes, EosPC
  <2> QED
    BY <1>0, <1>4, <2>1, <2>2, <2>3, <2>4, <2>5 DEF Closed
<1>7. Tracked'
  <2>1. \A r \in Queries : (pc'[r] = "absent" <=> pc[r] = "absent")
    BY <1>1, <1>2, <1>3 DEF Edge
  <2>2. \A r \in Queries : IsActive(r)' => IsActive(r)
    BY <1>0, WorkerFrame, Erased DEF BeginAnswer, BeginEos, stageVars, Without, IsActive
  <2>3. \A r \in Queries : isConnected'[r] => isConnected[r]
    <3>1. isConnected' = isConnected \/ BeginAnswer(q) \/ BeginEos(q) \/ EraseQuery(q) \/ CloseOtherQuery(q)
      BY <1>0, WorkerFrame
    <3>2. BeginAnswer(q) => \A r \in Queries : isConnected'[r] => isConnected[r]
      BY DEF BeginAnswer
    <3>3. BeginEos(q) => \A r \in Queries : isConnected'[r] => isConnected[r]
      BY DEF BeginEos, queryVars
    <3>4. EraseQuery(q) => isConnected' = isConnected
      BY DEF EraseQuery, queryVars
    <3>5. CloseOtherQuery(q) => isConnected' = [isConnected EXCEPT ![Head(graphQueries)] = FALSE]
      BY DEF CloseOtherQuery
    <3>6. isConnected \in [Queries -> BOOLEAN]
      BY <1>0 DEF TypeOK
    <3> QED
      BY ONLY <3>1, <3>2, <3>3, <3>4, <3>5, <3>6
  <2>4. \A r \in Queries :
           numSent'[r] = numSent[r] \/ (r = q /\ BeginAnswer(q) /\ numSent'[r] = numSent[r] + 1)
    <3>1. CASE BeginAnswer(q)
      <4>1. numSent' = [numSent EXCEPT ![q] = numSent[q] + 1] /\ numSent \in [Queries -> 0 .. NumAnswers]
        BY <1>0, <3>1 DEF BeginAnswer, TypeOK
      <4> QED
        BY <3>1, <4>1
    <3> QED
      BY <1>0, <3>1, WorkerFrame DEF BeginEos, EraseQuery, CloseOtherQuery, queryVars
  <2>5. BeginAnswer(q) => pc[q] = "idle" /\ isConnected[q] /\ p = "answer"
    BY <1>0, <1>2 DEF BeginAnswer, Lock, Goes, TypeOK
  <2>6. BeginEos(q) => pc[q] = "idle" /\ isConnected[q] /\ p = "erase"
    BY <1>0, <1>2 DEF BeginEos, Lock, Goes, TypeOK
  <2>7. pc[q] = "idle" => isConnected[q]
    BY <1>0, <2>5, <2>6, WorkerFrame
  <2>8. p \in WorkPC \/ (p = "idle" /\ isConnected'[q]) => IsActive(q)
    BY <1>0, <1>1, <2>7, <2>3 DEF Tracked, WorkPC, AnswerPC, Edge
  <2>9. ASSUME NEW r \in Queries, pc'[r] \in WorkPC \/ (pc'[r] = "idle" /\ isConnected'[r])
        PROVE  IsActive(r)'
    <3>1. IsActive(r)
      BY <1>0, <1>2, <1>3, <2>3, <2>8, <2>9 DEF Tracked
    <3>2. CASE EraseQuery(q)
      <4>1. p = "testEmpty"
        BY <1>0, <1>2, <3>2 DEF EraseQuery, Goes, TypeOK
      <4>2. r # q
        BY <1>2, <2>9, <4>1 DEF WorkPC, AnswerPC
      <4> QED
        BY <1>0, <3>1, <3>2, <4>2, Erased DEF Without
    <3>3. CASE CloseOtherQuery(q)
      <4> DEFINE h == Head(graphQueries)
      <4>1. h \in Queries /\ h # q /\ pushLock[h] = NoOne /\ isConnected' = [isConnected EXCEPT ![h] = FALSE]
        BY <1>0, <3>3, Erased DEF CloseOtherQuery
      <4> HIDE DEF h
      <4>2. pc[h] \in {"absent", "idle", "finished"} /\ ~isConnected'[h]
        BY <1>0, <4>1 DEF TypeOK
      <4>3. r # h
        BY <1>3, <2>9, <4>1, <4>2 DEF WorkPC, AnswerPC
      <4> QED
        BY <1>0, <3>1, <3>3, <4>3, Erased DEF Without, h
    <3> QED
      BY <1>0, <3>1, <3>2, <3>3, WorkerFrame DEF BeginAnswer, BeginEos, stageVars, IsActive
  <2>10. \A r \in Queries : isConnected'[r] => pc'[r] # "absent"
    BY <1>0, <2>1, <2>3 DEF Tracked
  <2>11. \A r \in Queries : pc'[r] = "absent" => ~IsActive(r)' /\ numSent'[r] = 0
    BY <1>0, <2>1, <2>2, <2>4, <2>5 DEF Tracked
  <2>12. \A r \in Queries : r > numFed' \/ (r = numFed' /\ pc'[Feeder] = "submit") => pc'[r] = "absent"
    BY <1>0, <1>2, <1>4, <2>1 DEF Tracked
  <2>13. \A r \in Queries : pc'[r] \in AnswerPC => numSent'[r] > 0
    <3> SUFFICES ASSUME NEW r \in Queries, pc'[r] \in AnswerPC PROVE numSent'[r] > 0
      OBVIOUS
    <3>1. numSent[r] \in Nat
      BY <1>0 DEF TypeOK
    <3>2. pc[r] \in AnswerPC \/ (r = q /\ pc[q] = "idle")
      BY <1>1, <1>2, <1>3 DEF AnswerPC, Edge
    <3>3. pc[r] \in AnswerPC => numSent[r] > 0
      BY <1>0 DEF Tracked
    <3>4. r = q /\ pc[q] = "idle" => BeginAnswer(q)
      BY <1>0, <1>2, <2>6, WorkerFrame DEF AnswerPC
    <3>5. BeginAnswer(q) => numSent'[q] = numSent[q] + 1
      BY <1>0 DEF BeginAnswer, TypeOK
    <3> QED
      BY <2>4, <3>1, <3>2, <3>3, <3>4, <3>5
  <2> QED
    BY <2>9, <2>10, <2>11, <2>12, <2>13 DEF Tracked
<1>8. TypeOK'
  BY WorkerType
<1> QED
  BY <1>5, <1>6, <1>7, <1>8 DEF StageInv

LEMMA SubmitStage == ASSUME StageInv, SubmitQuery PROVE StageInv'
<1> USE Facts DEF stageVars, outputVars, queryVars
<1>0. TypeOK /\ Tracked /\ Fed /\ Closed
  BY DEF StageInv
<1> DEFINE q == numFed
<1>1. /\ pc[Feeder] = "submit" /\ pc' = [pc EXCEPT ![Feeder] = "idle", ![q] = "idle"]
      /\ graphQueries' = <<q>> \o graphQueries /\ isConnected' = [isConnected EXCEPT ![q] = TRUE]
      /\ UNCHANGED <<isOneSolution, isQueryOpened, isAwaitingInput, hasStopRequest, isStreamOpened,
                     outputVars, pushLock, numSent, numFed, windows>>
  BY DEF SubmitQuery
<1>2. q \in Queries /\ pc[q] = "absent" /\ ~IsActive(q) /\ numSent[q] = 0
  BY <1>0, <1>1 DEF Fed, Tracked
<1>3. /\ pc' \in [Threads -> ThreadPC] /\ pc'[Feeder] = "idle" /\ pc'[q] = "idle"
      /\ \A r \in Queries \ {q} : pc'[r] = pc[r]
  BY <1>0, <1>1, <1>2 DEF TypeOK, ThreadPC
<1>4. /\ graphQueries' \in Seq(Queries) /\ IsInjective(graphQueries')
      /\ \A r \in Queries : IsActive(r)' <=> IsActive(r) \/ r = q
  <2>1. graphQueries \in Seq(Queries) /\ IsInjective(graphQueries) /\ q \notin Range(graphQueries)
    BY <1>0, <1>2 DEF TypeOK, IsActive
  <2> HIDE DEF q
  <2>2. graphQueries' \in Seq(Queries) /\ IsInjective(graphQueries')
        /\ Range(graphQueries') = Range(graphQueries) \cup {q}
    BY <1>1, <1>2, <2>1, Prepended
  <2> QED
    BY <2>2 DEF IsActive
<1>5. isConnected' \in [Queries -> BOOLEAN] /\ \A r \in Queries \ {q} : isConnected'[r] = isConnected[r]
  BY <1>0, <1>1, <1>2 DEF TypeOK
<1> HIDE DEF q
<1>6. TypeOK'
  <2>1. \A r \in Queries : pushLock'[r] = IF pc'[r] \in {"absent", "idle", "finished"} THEN NoOne ELSE r
    BY <1>0, <1>1, <1>2, <1>3 DEF TypeOK
  <2> QED
    BY <1>0, <1>1, <1>3, <1>4, <1>5, <2>1 DEF TypeOK
<1>7. Tracked'
  <2>1. \A r \in Queries : pc'[r] \in WorkPC \/ (pc'[r] = "idle" /\ isConnected'[r]) => IsActive(r)'
    BY <1>0, <1>3, <1>4, <1>5 DEF Tracked
  <2>2. \A r \in Queries : isConnected'[r] => pc'[r] # "absent"
    BY <1>0, <1>3, <1>5 DEF Tracked
  <2>3. \A r \in Queries : pc'[r] = "absent" => ~IsActive(r)' /\ numSent'[r] = 0
    BY <1>0, <1>1, <1>3, <1>4 DEF Tracked
  <2>4. \A r \in Queries : r > numFed' => pc'[r] = "absent"
    BY <1>0, <1>1, <1>3 DEF Tracked, q
  <2>5. \A r \in Queries : pc'[r] \in AnswerPC => numSent'[r] > 0
    BY <1>0, <1>1, <1>3 DEF Tracked, AnswerPC
  <2> QED
    BY <1>3, <2>1, <2>2, <2>3, <2>4, <2>5 DEF Tracked
<1>8. Fed'
  BY <1>0, <1>1, <1>3 DEF Fed
<1>9. Closed'
  <2>1. \A t \in Threads : pc'[t] \in EosPC => pc[t] \in EosPC
    BY <1>3 DEF EosPC
  <2> QED
    BY <1>0, <1>1, <2>1 DEF Closed
<1> QED
  BY <1>6, <1>7, <1>8, <1>9 DEF StageInv

\* The other steps of the feeder.
LEMMA FeederStage ==
    ASSUME StageInv, FeedAnswer \/ FeedEos \/ TestActive \/ PushEos(Feeder)
    PROVE  StageInv'
<1> USE Facts DEF stageVars, outputVars, queryVars
<1>0. TypeOK /\ Tracked /\ Fed /\ Closed
  BY DEF StageInv
<1>1. /\ UNCHANGED <<isOneSolution, hasStopRequest, isStreamOpened, graphQueries, queryVars>>
      /\ output' = output \/ DeliverEos(Feeder)
      /\ isOutputOpened' = isOutputOpened \/ ShutOutput(Feeder)
      /\ isQueryOpened' = isQueryOpened \/ TestActive
      /\ (isAwaitingInput' = isAwaitingInput /\ pc[Feeder] # "idle") \/ FeedEos \/ FeedAnswer
      /\ numFed' = numFed \/ FeedAnswer
      /\ windows' = windows \/ TestActive
  BY DEF FeedAnswer, FeedEos, TestActive, PushEos, TestOutput, DeliverEos, ShutOutput, Finish, Goes
<1> DEFINE Steps(p) ==
        /\ p \in ThreadPC /\ pc' = [pc EXCEPT ![Feeder] = p]
        /\ \/ pc[Feeder] = "idle" /\ p \in {"submit", "idle", "testActive"}
           \/ pc[Feeder] = "testActive" /\ p \in {"eos", "finished"}
           \/ pc[Feeder] = "eos" /\ p \in {"deliverEos", "finished"}
           \/ pc[Feeder] = "deliverEos" /\ p = "shut"
           \/ pc[Feeder] = "shut" /\ p = "finished"
<1>2. \E p : Steps(p)
  <2> USE DEF Goes, ThreadPC
  <2>1. CASE FeedAnswer
    <3>1. Steps("submit") \/ Steps("idle")
      BY <2>1 DEF FeedAnswer
    <3> QED
      BY <3>1
  <2>2. CASE FeedEos
    <3>1. Steps("testActive")
      BY <2>2 DEF FeedEos
    <3> QED
      BY <3>1
  <2>3. CASE TestActive
    <3>1. Steps("eos") \/ Steps("finished")
      BY <2>3 DEF TestActive
    <3> QED
      BY <3>1
  <2>4. CASE PushEos(Feeder)
    <3>1. Steps("deliverEos") \/ Steps("finished") \/ Steps("shut")
      BY <2>4 DEF PushEos, TestOutput, DeliverEos, ShutOutput, Finish
    <3> QED
      BY <3>1
  <2> QED
    BY <2>1, <2>2, <2>3, <2>4
<1>3. PICK p : Steps(p)
  BY <1>2
<1>4. pc' \in [Threads -> ThreadPC] /\ pc'[Feeder] = p /\ \A r \in Queries : pc'[r] = pc[r]
  BY <1>0, <1>3, Moves
<1>5. /\ FeedAnswer => numFed < NumInputs /\ numFed' = numFed + 1 /\ isAwaitingInput' = isAwaitingInput
                       /\ pc[Feeder] = "idle" /\ p \in {"submit", "idle"}
      /\ FeedEos => numFed = NumInputs /\ ~isAwaitingInput' /\ pc[Feeder] = "idle" /\ p = "testActive"
      /\ TestActive => pc[Feeder] = "testActive"
  <2> USE DEF Goes
  <2>1. FeedAnswer => p \in {"submit", "idle"}
    BY <1>0, <1>4 DEF FeedAnswer, TypeOK
  <2>2. FeedEos => p = "testActive"
    BY <1>0, <1>4 DEF FeedEos, TypeOK
  <2> QED
    BY <2>1, <2>2 DEF FeedAnswer, FeedEos, TestActive
<1>6. Fed'
  <2>1. CASE FeedAnswer
    BY <1>0, <1>4, <1>5, <2>1 DEF Fed, TypeOK, Queries
  <2>2. CASE FeedEos
    BY <1>0, <1>1, <1>4, <1>5, <2>2 DEF Fed
  <2>3. CASE ~FeedAnswer /\ ~FeedEos
    BY <1>0, <1>1, <1>3, <1>4, <2>3 DEF Fed, EosPC
  <2> QED
    BY <2>1, <2>2, <2>3
<1>7. Closed'
  <2>1. /\ isQueryOpened' \in BOOLEAN /\ isQueryOpened' => isQueryOpened
        /\ isQueryOpened' = isQueryOpened \/ pc[Feeder] = "testActive"
    BY <1>0, <1>1, <1>5 DEF TestActive, TypeOK
  <2>2. pc[Feeder] = "testActive" /\ p = "eos" => TestActive
    BY <1>0, <1>4 DEF FeedAnswer, FeedEos, PushEos, TestOutput, DeliverEos, ShutOutput, Finish, Goes
  <2>3. p = "eos" => ~isQueryOpened'
    BY <1>0, <1>3, <1>4, <2>2 DEF TestActive, Goes, TypeOK
  <2>4. \A t \in Threads : pc'[t] \in EosPC => pc[t] \in EosPC \/ (t = Feeder /\ p = "eos")
    BY <1>3, <1>4 DEF EosPC
  <2>5. EOS \in Range(output') => EOS \in Range(output) \/ pc[Feeder] \in EosPC
    BY <1>1 DEF DeliverEos, Goes, EosPC
  <2>6. ~isOutputOpened' => ~isOutputOpened \/ pc[Feeder] \in EosPC
    BY <1>1 DEF ShutOutput, Finish, Goes, EosPC
  <2>7. ~isAwaitingInput => ~isAwaitingInput'
    BY <1>0, <1>1, <1>5
  <2>8. pc[Feeder] = "testActive" => ~isAwaitingInput
    BY <1>0 DEF Fed
  <2> QED
    BY <1>0, <2>1, <2>3, <2>4, <2>5, <2>6, <2>7, <2>8 DEF Closed
<1>8. Tracked'
  <2>1. \A r \in Queries : IsActive(r)' = IsActive(r)
    BY <1>1 DEF IsActive
  <2>2. \A r \in Queries : r > numFed' \/ (r = numFed' /\ p = "submit") => r > numFed
    BY <1>0, <1>1, <1>3, <1>5 DEF TypeOK, Fed
  <2> QED
    BY <1>0, <1>1, <1>4, <2>1, <2>2 DEF Tracked
<1>9. TypeOK'
  <2>1. output' \in Seq(Messages)
    <3>1. EOS \in Messages
      BY DEF Messages
    <3>2. output \in Seq(Messages)
      BY <1>0 DEF TypeOK
    <3>3. Append(output, EOS) \in Seq(Messages)
      BY <3>1, <3>2, Appended
    <3> QED
      BY <1>1, <3>2, <3>3 DEF DeliverEos
  <2>2. isOutputOpened' \in BOOLEAN
    BY <1>0, <1>1 DEF ShutOutput, TypeOK
  <2>3. isQueryOpened' \in BOOLEAN
    BY <1>0, <1>1 DEF TestActive, TypeOK
  <2>4. isAwaitingInput' \in BOOLEAN
    <3>1. isAwaitingInput \in BOOLEAN
      BY <1>0 DEF TypeOK
    <3> QED
      BY <1>1, <1>5, <3>1 DEF FeedEos
  <2>5. numFed' \in 0 .. NumInputs
    BY <1>0, <1>1, <1>5 DEF TypeOK
  <2>6. windows' \subseteq {"overtaken", "simultaneous"}
    BY <1>0, <1>1 DEF TestActive, NoteEosBy, TypeOK
  <2>7. \A r \in Queries : pushLock'[r] = IF pc'[r] \in {"absent", "idle", "finished"} THEN NoOne ELSE r
    BY <1>0, <1>1, <1>4 DEF TypeOK
  <2> QED
    BY <1>0, <1>1, <1>4, <2>1, <2>2, <2>3, <2>4, <2>5, <2>6, <2>7 DEF TypeOK
<1> QED
  BY <1>6, <1>7, <1>8, <1>9 DEF StageInv

LEMMA TeardownStage == ASSUME StageInv, Teardown PROVE StageInv'
<1> USE Facts DEF stageVars, outputVars, queryVars
<1>0. TypeOK /\ Tracked /\ Fed /\ Closed
  BY DEF StageInv
<1>1. /\ UNCHANGED <<isOneSolution, isQueryOpened, isAwaitingInput, outputVars, queryVars, pc, numFed,
                     windows>>
      /\ hasStopRequest' = TRUE /\ graphQueries' = <<>> /\ isStreamOpened' = FALSE
      /\ \A q \in Queries : pc[q] \in {"absent", "finished"}
  BY DEF Teardown
<1>2. <<>> \in Seq(Queries) /\ IsInjective(<<>>) /\ \A q \in Queries : ~IsActive(q)'
  BY <1>1 DEF IsActive, Range, IsInjective
<1>3. TypeOK'
  BY <1>0, <1>1, <1>2 DEF TypeOK
<1>4. Tracked'
  BY <1>0, <1>1, <1>2 DEF Tracked, WorkPC, AnswerPC
<1>5. Fed' /\ Closed'
  BY <1>0, <1>1 DEF Fed, Closed
<1> QED
  BY <1>3, <1>4, <1>5 DEF StageInv

LEMMA StageStutter == ASSUME StageInv, UNCHANGED vars PROVE StageInv'
BY DEF StageInv, TypeOK, Tracked, Fed, Closed, IsActive, vars, stageVars, outputVars, queryVars

LEMMA StageStep == StageInv /\ [Next]_vars => StageInv'
<1> SUFFICES ASSUME StageInv, [Next]_vars PROVE StageInv'
  OBVIOUS
<1>1. CASE Feed
  BY <1>1, SubmitStage, FeederStage DEF Feed
<1>2. CASE Teardown
  BY <1>2, TeardownStage
<1>3. ASSUME NEW q \in Queries, BeginAnswer(q) \/ BeginEos(q) \/ PushTransformed(q) PROVE StageInv'
  BY <1>3, WorkerStage DEF Worker
<1>4. CASE UNCHANGED vars
  BY <1>4, StageStutter
<1> QED
  BY <1>1, <1>2, <1>3, <1>4 DEF Next

\* The types, and a worker holds its pushLock_ exactly while it is in push.
THEOREM TypeCorrect == Spec => []TypeOK
<1>1. StageInv => TypeOK
  BY DEF StageInv
<1> QED
  BY InitStage, StageStep, <1>1, PTL DEF Spec

-----------------------------------------------------------------------------
(* One EOS *)

\* The steps by what they do to the broadcast of EOS: nothing, begin it, ...
Quiet ==
    /\ \A t \in Threads : pc[t] \in EosPC \/ pc'[t] \in EosPC => pc'[t] = pc[t]
    /\ isOutputOpened' = isOutputOpened
    /\ output' = output \/ \E m \in Messages \ {EOS} : output' = Append(output, m)
    /\ windows' = windows

Begins(t) ==
    /\ pc[t] \notin EosPC /\ pc' = [pc EXCEPT ![t] = "eos"]
    /\ UNCHANGED outputVars /\ NoteEosBy(t)

\* ... or go on with it.
EosMove == Quiet \/ \E t \in Threads : Begins(t) \/ PushEos(t)

LEMMA WorkerEosMove == ASSUME StageInv, NEW q \in Queries, Worker(q) PROVE EosMove
<1> USE Facts DEF Goes
<1>0. TypeOK /\ Tracked
  BY DEF StageInv
<1>1. CASE PushEos(q)
  BY <1>1 DEF EosMove
<1>2. CASE TestInput(q) /\ ~isAwaitingInput
  <2>1. Begins(q)
    BY <1>2 DEF TestInput, Begins, EosPC
  <2> QED
    BY <2>1 DEF EosMove
<1>3. CASE ~PushEos(q) /\ ~(TestInput(q) /\ ~isAwaitingInput)
  <2>1. PICK p \in ThreadPC : Edge(pc[q], p) /\ pc' = [pc EXCEPT ![q] = p]
    BY <1>0, WorkerMoves
  <2>2. pc'[q] = p /\ \A u \in Threads \ {q} : pc'[u] = pc[u]
    BY <1>0, <2>1, Moves
  <2>3. pc[q] \notin EosPC
    BY <1>3 DEF Worker, PushTransformed, BeginAnswer, BeginEos, Lock, TestOpened, TestChannel, PushAnswer,
                EraseQuery, TestEmpty, TestInput, CloseBegins, CloseOwnQuery, CloseOtherQuery, EosPC
  <2>4. p # "eos" /\ windows' = windows
    <3>1. CASE pc[q] = "testInput"
      <4>1. TestInput(q) /\ isAwaitingInput
        BY <1>0, <1>3, <3>1, WorkerFrame
      <4> QED
        BY <1>0, <2>2, <4>1 DEF TestInput, LeavesEos, TypeOK
    <3>2. CASE pc[q] # "testInput"
      BY <1>0, <2>1, <3>2, WorkerFrame DEF Edge, TestInput
    <3> QED
      BY <3>1, <3>2
  <2>5. p \notin EosPC
    BY <2>1, <2>3, <2>4 DEF Edge, EosPC
  <2>6. output' = output \/ \E m \in Messages \ {EOS} : output' = Append(output, m)
    <3>1. CASE PushAnswer(q)
      <4>1. <<q, numSent[q]>> \in Messages \ {EOS} /\ output' = Append(output, <<q, numSent[q]>>)
        BY <1>0, <3>1, Pushed
      <4> QED
        BY <4>1
    <3> QED
      BY <1>0, <1>3, <3>1, WorkerFrame DEF PushEos
  <2>7. isOutputOpened' = isOutputOpened
    BY <1>0, <1>3, WorkerFrame DEF PushEos
  <2> QED
    BY <2>2, <2>3, <2>4, <2>5, <2>6, <2>7 DEF EosMove, Quiet
<1> QED
  BY <1>1, <1>2, <1>3

LEMMA FeedEosMove == ASSUME StageInv, Feed PROVE EosMove
<1> USE Facts DEF Goes, stageVars, outputVars, queryVars
<1>0. TypeOK /\ Tracked /\ Fed
  BY DEF StageInv
<1>1. CASE FeedAnswer \/ FeedEos
  <2>1. PICK p \in {"submit", "idle", "testActive"} : pc' = [pc EXCEPT ![Feeder] = p]
    BY <1>1 DEF FeedAnswer, FeedEos
  <2>2. pc[Feeder] = "idle" /\ UNCHANGED <<isOutputOpened, output, windows>>
    BY <1>1 DEF FeedAnswer, FeedEos
  <2>3. pc'[Feeder] = p /\ \A u \in Threads \ {Feeder} : pc'[u] = pc[u]
    BY <1>0, <2>1, Moves
  <2> QED
    BY <2>2, <2>3 DEF EosMove, Quiet, EosPC
<1>2. CASE SubmitQuery
  <2>1. /\ pc' = [pc EXCEPT ![Feeder] = "idle", ![numFed] = "idle"] /\ pc[Feeder] = "submit"
        /\ UNCHANGED <<isOutputOpened, output, windows>>
    BY <1>2 DEF SubmitQuery
  <2>2. numFed \in Queries /\ pc[numFed] = "absent"
    BY <1>0, <2>1 DEF Fed, Tracked
  <2>3. pc'[Feeder] = "idle" /\ pc'[numFed] = "idle" /\ \A u \in Threads \ {Feeder, numFed} : pc'[u] = pc[u]
    BY <1>0, <2>1, <2>2 DEF TypeOK
  <2> QED
    BY <2>1, <2>2, <2>3 DEF EosMove, Quiet, EosPC
<1>3. CASE TestActive
  <2>1. CASE graphQueries = <<>> /\ ~hasStopRequest
    <3>1. Begins(Feeder)
      BY <1>3, <2>1 DEF TestActive, Begins, EosPC
    <3> QED
      BY <3>1 DEF EosMove
  <2>2. CASE ~(graphQueries = <<>> /\ ~hasStopRequest)
    <3>1. pc' = [pc EXCEPT ![Feeder] = "finished"] /\ pc[Feeder] = "testActive"
          /\ UNCHANGED <<isOutputOpened, output, windows>>
      BY <1>3, <2>2 DEF TestActive
    <3>2. pc'[Feeder] = "finished" /\ \A u \in Threads \ {Feeder} : pc'[u] = pc[u]
      BY <1>0, <3>1, Moves
    <3> QED
      BY <3>1, <3>2 DEF EosMove, Quiet, EosPC
  <2> QED
    BY <2>1, <2>2
<1>4. CASE PushEos(Feeder)
  BY <1>4 DEF EosMove
<1> QED
  BY <1>1, <1>2, <1>3, <1>4 DEF Feed

LEMMA OneEosStep == ASSUME TypeOK, OneEosInv, EosMove PROVE OneEosInv'
<1> USE Facts
<1> SUFFICES ASSUME "simultaneous" \notin windows'
             PROVE  /\ \A t, u \in Threads : pc'[t] \in EosPC /\ pc'[u] \in EosPC => t = u
                    /\ \A t \in Threads : pc'[t] = "deliverEos" => isOutputOpened' /\ EOS \notin Range(output')
                    /\ EOS \in Range(output') /\ isOutputOpened' => \E t \in Threads : pc'[t] = "shut"
                    /\ \A i, j \in DOMAIN output' : output'[i] = EOS /\ output'[j] = EOS => i = j
  BY DEF OneEosInv, EOS
<1>1. "simultaneous" \notin windows
  BY DEF EosMove, Quiet, Begins, NoteEosBy, PushEos, TestOutput, DeliverEos, ShutOutput
<1>2. /\ \A t, u \in Threads : pc[t] \in EosPC /\ pc[u] \in EosPC => t = u
      /\ \A t \in Threads : pc[t] = "deliverEos" => isOutputOpened /\ EOS \notin Range(output)
      /\ EOS \in Range(output) /\ isOutputOpened => \E t \in Threads : pc[t] = "shut"
      /\ \A i, j \in DOMAIN output : output[i] = EOS /\ output[j] = EOS => i = j
  BY <1>1 DEF OneEosInv
<1>3. output \in Seq(Messages) /\ EOS \in Messages /\ DOMAIN output = 1 .. Len(output) /\ Len(output) \in Nat
  BY LenProperties DEF TypeOK, Messages
<1>4. EosPC = {"eos", "deliverEos", "shut"}
  BY DEF EosPC
<1>5. CASE Quiet
  <2>1. \A t \in Threads : pc[t] \in EosPC \/ pc'[t] \in EosPC => pc'[t] = pc[t]
    BY <1>5 DEF Quiet
  <2>2. EOS \in Range(output') <=> EOS \in Range(output)
    <3>1. CASE output' = output
      BY <3>1
    <3>2. ASSUME NEW m \in Messages \ {EOS}, output' = Append(output, m)
          PROVE  EOS \in Range(output') <=> EOS \in Range(output)
      <4>1. Range(Append(output, m)) = Range(output) \cup {m}
        BY <1>3, <3>2, Appended
      <4> QED
        BY <3>2, <4>1
    <3> QED
      BY <1>5, <3>1, <3>2 DEF Quiet
  <2>3. \A i, j \in DOMAIN output' : output'[i] = EOS /\ output'[j] = EOS => i = j
    <3>1. CASE output' = output
      BY <1>2, <3>1
    <3>2. ASSUME NEW m \in Messages \ {EOS}, output' = Append(output, m)
          PROVE  \A i, j \in DOMAIN output' : output'[i] = EOS /\ output'[j] = EOS => i = j
      <4>1. /\ DOMAIN output' = 1 .. Len(output) + 1 /\ output'[Len(output) + 1] = m
            /\ \A i \in 1 .. Len(output) : output'[i] = output[i]
        BY <1>3, <3>2, Appended
      <4>2. \A i \in DOMAIN output' : output'[i] = EOS => i \in DOMAIN output /\ output[i] = EOS
        BY <1>3, <3>2, <4>1
      <4> QED
        BY <1>2, <4>2
    <3> QED
      BY <1>5, <3>1, <3>2 DEF Quiet
  <2> QED
    BY <1>2, <1>4, <1>5, <2>1, <2>2, <2>3 DEF Quiet
<1>6. ASSUME NEW t \in Threads, Begins(t)
      PROVE  /\ \A s, u \in Threads : pc'[s] \in EosPC /\ pc'[u] \in EosPC => s = u
             /\ \A u \in Threads : pc'[u] = "deliverEos" => isOutputOpened' /\ EOS \notin Range(output')
             /\ EOS \in Range(output') /\ isOutputOpened' => \E u \in Threads : pc'[u] = "shut"
             /\ \A i, j \in DOMAIN output' : output'[i] = EOS /\ output'[j] = EOS => i = j
  <2>1. pc'[t] = "eos" /\ pc[t] \notin EosPC /\ \A u \in Threads \ {t} : pc'[u] = pc[u]
    BY <1>6, Moves DEF Begins
  <2>2. \A u \in Threads \ {t} : pc[u] \notin EosPC
    BY <1>6 DEF Begins, NoteEosBy
  <2>3. UNCHANGED <<output, isOutputOpened>>
    BY <1>6 DEF Begins, outputVars
  <2> QED
    BY <1>2, <1>4, <2>1, <2>2, <2>3
<1>7. ASSUME NEW t \in Threads, PushEos(t)
      PROVE  /\ \A s, u \in Threads : pc'[s] \in EosPC /\ pc'[u] \in EosPC => s = u
             /\ \A u \in Threads : pc'[u] = "deliverEos" => isOutputOpened' /\ EOS \notin Range(output')
             /\ EOS \in Range(output') /\ isOutputOpened' => \E u \in Threads : pc'[u] = "shut"
             /\ \A i, j \in DOMAIN output' : output'[i] = EOS /\ output'[j] = EOS => i = j
  <2> USE DEF Goes, outputVars
  <2>1. CASE TestOutput(t)
    <3>1. PICK p \in {"deliverEos", "finished"} :
             pc' = [pc EXCEPT ![t] = p] /\ (p = "deliverEos" => isOutputOpened)
      BY <2>1 DEF TestOutput, Finish
    <3>2. pc'[t] = p /\ \A u \in Threads \ {t} : pc'[u] = pc[u]
      BY <3>1, Moves
    <3>3. pc[t] = "eos" /\ UNCHANGED <<output, isOutputOpened>>
      BY <2>1 DEF TestOutput
    <3>4. \A u \in Threads \ {t} : pc[u] \notin EosPC
      BY <1>2, <1>4, <3>3
    <3>5. isOutputOpened => EOS \notin Range(output)
      BY <1>2, <1>4, <3>3, <3>4
    <3> QED
      BY <1>2, <1>4, <3>1, <3>2, <3>3, <3>4, <3>5
  <2>2. CASE DeliverEos(t)
    <3>1. /\ pc[t] = "deliverEos" /\ pc' = [pc EXCEPT ![t] = "shut"]
          /\ output' = Append(output, EOS) /\ isOutputOpened' = isOutputOpened
      BY <2>2 DEF DeliverEos
    <3>2. pc'[t] = "shut" /\ \A u \in Threads \ {t} : pc'[u] = pc[u]
      BY <3>1, Moves
    <3>3. EOS \notin Range(output)
      BY <1>2, <3>1
    <3>4. \A u \in Threads \ {t} : pc[u] \notin EosPC
      BY <1>2, <1>4, <3>1
    <3>5. /\ DOMAIN output' = 1 .. Len(output) + 1
          /\ \A i \in 1 .. Len(output) : output'[i] = output[i] /\ output[i] # EOS
      <4>1. /\ DOMAIN Append(output, EOS) = 1 .. Len(output) + 1
            /\ \A i \in 1 .. Len(output) : Append(output, EOS)[i] = output[i]
        BY <1>3, Appended
      <4> QED
        BY <1>3, <3>1, <3>3, <4>1 DEF Range
    <3>6. \A i, j \in DOMAIN output' : output'[i] = EOS /\ output'[j] = EOS => i = j
      BY <1>3, <3>5
    <3> QED
      BY <1>4, <3>2, <3>4, <3>6
  <2>3. CASE ShutOutput(t)
    <3>1. pc[t] = "shut" /\ pc' = [pc EXCEPT ![t] = "finished"] /\ output' = output /\ isOutputOpened' = FALSE
      BY <2>3 DEF ShutOutput, Finish
    <3>2. pc'[t] = "finished" /\ \A u \in Threads \ {t} : pc'[u] = pc[u]
      BY <3>1, Moves
    <3>3. \A u \in Threads \ {t} : pc[u] \notin EosPC
      BY <1>2, <1>4, <3>1
    <3> QED
      BY <1>2, <1>4, <3>1, <3>2, <3>3
  <2> QED
    BY <1>7, <2>1, <2>2, <2>3 DEF PushEos
<1> QED
  BY <1>5, <1>6, <1>7 DEF EosMove

LEMMA EosMoves == ASSUME StageInv, [Next]_vars PROVE EosMove
<1>1. CASE Feed
  BY <1>1, FeedEosMove
<1>2. CASE Teardown
  BY <1>2 DEF Teardown, EosMove, Quiet, outputVars
<1>3. ASSUME NEW q \in Queries, BeginAnswer(q) \/ BeginEos(q) \/ PushTransformed(q) PROVE EosMove
  BY <1>3, WorkerEosMove DEF Worker
<1>4. CASE UNCHANGED vars
  BY <1>4 DEF EosMove, Quiet, vars, outputVars
<1> QED
  BY <1>1, <1>2, <1>3, <1>4 DEF Next

\* The next stage receives one EOS, unless two threads broadcast it at the same time.
THEOREM OneEosSafe == Spec => []OneEosUnlessSimultaneous
<1>1. StageInv /\ OneEosInv /\ [Next]_vars => OneEosInv'
  BY EosMoves, OneEosStep DEF StageInv
<1>2. OneEosInv => OneEosUnlessSimultaneous
  BY DEF OneEosInv, OneEosUnlessSimultaneous
<1>3. Init => StageInv /\ OneEosInv
  BY InitStage, InitComplete
<1> QED
  BY StageStep, <1>1, <1>2, <1>3, PTL DEF Spec

-----------------------------------------------------------------------------
(* Every answer before EOS *)

\* The query of a worker that is about to drop or to push an answer is active: nothing has ended.
LEMMA NotEnded ==
    ASSUME StageInv, CompleteInv, "overtaken" \notin windows, NEW q \in Queries, pc[q] \in WorkPC
    PROVE  isQueryOpened /\ isOutputOpened /\ EOS \notin Range(output)
<1>1. IsActive(q)
  BY DEF StageInv, Tracked
<1>2. graphQueries # <<>>
  BY <1>1 DEF IsActive, Range
<1> QED
  BY <1>2 DEF StageInv, Closed, CompleteInv

\* No query is active once isQueryOpened_ is reset.
LEMMA EndedStep ==
    ASSUME StageInv, CompleteInv, [Next]_vars, "overtaken" \notin windows'
    PROVE  "overtaken" \notin windows /\ (~isQueryOpened' => graphQueries' = <<>>)
<1> USE Facts DEF stageVars, outputVars, queryVars, Goes
<1>0. TypeOK /\ Fed /\ Closed
  BY DEF StageInv
<1>1. "overtaken" \notin windows
  BY EosMoves DEF EosMove, Quiet, Begins, NoteEosBy, PushEos, TestOutput, DeliverEos, ShutOutput
<1>2. ~isQueryOpened => graphQueries = <<>>
  BY <1>1 DEF CompleteInv
<1>3. CASE Feed
  <2>1. CASE SubmitQuery
    <3>1. pc[Feeder] = "submit" /\ isQueryOpened' = isQueryOpened
      BY <2>1 DEF SubmitQuery
    <3>2. isAwaitingInput \in BOOLEAN /\ isQueryOpened \in BOOLEAN
      BY <1>0 DEF TypeOK
    <3>3. isAwaitingInput
      BY <1>0, <3>1, <3>2 DEF Fed
    <3> QED
      BY <1>0, <1>1, <3>1, <3>2, <3>3 DEF Closed
  <2>2. CASE TestActive
    BY <1>1, <1>2, <2>2 DEF TestActive
  <2>3. CASE FeedAnswer \/ FeedEos \/ PushEos(Feeder)
    BY <1>2, <2>3 DEF FeedAnswer, FeedEos, PushEos, TestOutput, DeliverEos, ShutOutput
  <2> QED
    BY <1>3, <2>1, <2>2, <2>3 DEF Feed
<1>4. CASE Teardown
  BY <1>4 DEF Teardown
<1>5. ASSUME NEW q \in Queries, Worker(q), ~isQueryOpened' PROVE graphQueries' = <<>>
  <2>1. CASE TestInput(q)
    BY <1>0, <1>2, <1>5, <2>1 DEF TestInput, NoteEosBy, TypeOK
  <2>2. CASE EraseQuery(q) \/ CloseOtherQuery(q)
    <3>1. graphQueries # <<>> /\ isQueryOpened' = isQueryOpened
      BY <2>2 DEF EraseQuery, CloseOtherQuery
    <3> QED
      BY <1>2, <1>5, <3>1
  <2> QED
    BY <1>0, <1>2, <1>5, <2>1, <2>2, WorkerFrame DEF BeginAnswer, BeginEos
<1>6. CASE UNCHANGED vars
  BY <1>2, <1>6 DEF vars
<1> QED
  BY <1>1, <1>3, <1>4, <1>5, <1>6 DEF Next, Worker

\* Where the answer <<q, k>> is that the query's worker took to push.
Kept(q, k) == <<q, k>> \in Range(output) \/ (k = numSent[q] /\ pc[q] \in AnswerPC)

LEMMA WorkerKeeps ==
    ASSUME StageInv, CompleteInv, "overtaken" \notin windows, NEW q \in Queries, Worker(q),
           NEW r \in Queries, NEW k \in 1 .. numSent'[r]
    PROVE  Kept(r, k)'
<1> USE Facts
<1>0. TypeOK /\ Tracked
  BY DEF StageInv
<1>1. PICK p \in ThreadPC : Edge(pc[q], p) /\ pc' = [pc EXCEPT ![q] = p]
  BY <1>0, WorkerMoves
<1>2. pc'[q] = p /\ \A u \in Queries \ {q} : pc'[u] = pc[u]
  BY <1>0, <1>1, Moves
<1>3. \A j \in 1 .. numSent[r] : Kept(r, j)
  BY DEF CompleteInv, Kept
<1>4. Range(output) \subseteq Range(output')
  <2>1. EOS \in Messages /\ output \in Seq(Messages)
    BY <1>0 DEF Messages, TypeOK
  <2>2. CASE PushAnswer(q)
    BY <1>0, <2>2, Pushed
  <2>3. CASE DeliverEos(q)
    <3>1. Range(Append(output, EOS)) = Range(output) \cup {EOS}
      BY <2>1, Appended
    <3> QED
      BY <2>3, <3>1 DEF DeliverEos
  <2> QED
    BY <1>0, <2>2, <2>3, WorkerFrame
<1>5. CASE BeginAnswer(q)
  <2>1. pc[q] = "idle" /\ p = "answer"
    BY <1>0, <1>2, <1>5 DEF BeginAnswer, Lock, Goes, TypeOK
  <2>2. numSent'[q] = numSent[q] + 1 /\ (r # q => numSent'[r] = numSent[r]) /\ numSent[q] \in Nat
    BY <1>0, <1>5 DEF BeginAnswer, TypeOK
  <2>3. CASE r = q /\ k = numSent'[q]
    BY <1>2, <2>1, <2>3 DEF Kept, AnswerPC
  <2>4. CASE r = q /\ k # numSent'[q]
    <3>1. k \in 1 .. numSent[q]
      BY <2>2, <2>4
    <3>2. <<r, k>> \in Range(output)
      BY <1>3, <2>1, <2>4, <3>1 DEF Kept, AnswerPC
    <3> QED
      BY <1>4, <3>2 DEF Kept
  <2>5. CASE r # q
    BY <1>2, <1>3, <1>4, <2>2, <2>5 DEF Kept
  <2> QED
    BY <2>3, <2>4, <2>5
<1>6. CASE ~BeginAnswer(q)
  <2>1. numSent' = numSent
    BY <1>0, <1>6, WorkerFrame DEF BeginEos, EraseQuery, CloseOtherQuery, queryVars
  <2>2. Kept(r, k)
    BY <1>3, <2>1
  <2>3. CASE r # q \/ <<r, k>> \in Range(output) \/ p \in AnswerPC
    BY <1>2, <1>4, <2>1, <2>2, <2>3 DEF Kept
  <2>4. CASE r = q /\ <<r, k>> \notin Range(output) /\ p \notin AnswerPC
    <3>1. pc[q] \in AnswerPC /\ k = numSent[q]
      BY <2>2, <2>4 DEF Kept
    <3>2. isQueryOpened /\ isOutputOpened
      BY <3>1, NotEnded DEF WorkPC
    <3>3. pc[q] = "send"
      <4>1. ~TestOpened(q)
        BY <1>0, <1>2, <2>4, <3>2 DEF TestOpened, Goes, AnswerPC, TypeOK
      <4>2. ~TestChannel(q)
        BY <1>0, <1>2, <2>4, <3>2 DEF TestChannel, Goes, AnswerPC, TypeOK
      <4>3. pc[q] \in {"answer", "testOutput"} => TestOpened(q) \/ TestChannel(q)
        BY <1>6 DEF Worker, PushTransformed, BeginEos, Lock, PushEos, TestOutput, DeliverEos, ShutOutput,
                    Finish, PushAnswer, EraseQuery, TestEmpty, TestInput, CloseBegins, CloseOwnQuery,
                    CloseOtherQuery, Goes
      <4> QED
        BY <3>1, <4>1, <4>2, <4>3 DEF AnswerPC
    <3>4. PushAnswer(q)
      BY <1>6, <3>3 DEF Worker, PushTransformed, BeginEos, Lock, PushEos, TestOutput, DeliverEos, ShutOutput,
                        Finish, TestOpened, TestChannel, EraseQuery, TestEmpty, TestInput, CloseBegins,
                        CloseOwnQuery, CloseOtherQuery, Goes
    <3>5. <<q, numSent[q]>> \in Range(output')
      BY <1>0, <3>4, Pushed
    <3> QED
      BY <2>4, <3>1, <3>5 DEF Kept
  <2> QED
    BY <2>3, <2>4
<1> QED
  BY <1>5, <1>6

\* EOS is the last message.
LEMMA LastStep ==
    ASSUME StageInv, CompleteInv, "overtaken" \notin windows, [Next]_vars, EOS \in Range(output')
    PROVE  output'[Len(output')] = EOS
<1> USE Facts
<1>0. TypeOK /\ Tracked /\ output \in Seq(Messages) /\ EOS \in Messages
  BY DEF StageInv, TypeOK, Messages
<1>1. EOS \in Range(output) => output[Len(output)] = EOS
  BY DEF CompleteInv
<1>2. ASSUME NEW t \in Threads, DeliverEos(t) PROVE output'[Len(output')] = EOS
  <2>1. Len(Append(output, EOS)) = Len(output) + 1 /\ Append(output, EOS)[Len(output) + 1] = EOS
    BY <1>0, Appended
  <2> QED
    BY <1>2, <2>1 DEF DeliverEos
<1>3. ASSUME NEW q \in Queries, PushAnswer(q) PROVE FALSE
  <2>1. pc[q] = "send" /\ Range(output') = Range(output) \cup {<<q, numSent[q]>>} /\ <<q, numSent[q]>> # EOS
    BY <1>0, <1>3, Pushed
  <2>2. EOS \notin Range(output)
    BY <2>1, NotEnded DEF WorkPC, AnswerPC
  <2> QED
    BY <2>1, <2>2
<1>4. CASE Feed
  <2>1. output' = output \/ DeliverEos(Feeder)
    BY <1>4 DEF Feed, FeedAnswer, SubmitQuery, FeedEos, TestActive, PushEos, TestOutput, ShutOutput, outputVars
  <2> QED
    BY <1>1, <1>2, <2>1
<1>5. CASE Teardown
  BY <1>1, <1>5 DEF Teardown, outputVars
<1>6. ASSUME NEW q \in Queries, Worker(q) PROVE output'[Len(output')] = EOS
  BY <1>0, <1>1, <1>2, <1>3, <1>6, WorkerFrame
<1>7. CASE UNCHANGED vars
  BY <1>1, <1>7 DEF vars, outputVars
<1> QED
  BY <1>4, <1>5, <1>6, <1>7 DEF Next, Worker

LEMMA CompleteStep == StageInv /\ CompleteInv /\ [Next]_vars => CompleteInv'
<1> SUFFICES ASSUME StageInv, CompleteInv, [Next]_vars, "overtaken" \notin windows'
             PROVE  /\ ~isQueryOpened' => graphQueries' = <<>>
                    /\ \A q \in Queries : \A k \in 1 .. numSent'[q] : Kept(q, k)'
                    /\ EOS \in Range(output') => output'[Len(output')] = EOS
  BY DEF CompleteInv, Kept, EOS, AnswerPC
<1> USE Facts
<1>1. "overtaken" \notin windows /\ (~isQueryOpened' => graphQueries' = <<>>)
  BY EndedStep
<1>2. EOS \in Range(output') => output'[Len(output')] = EOS
  BY <1>1, LastStep
<1>3. ASSUME NEW q \in Queries, NEW k \in 1 .. numSent'[q] PROVE Kept(q, k)'
  <2>1. TypeOK /\ Tracked /\ Fed /\ output \in Seq(Messages) /\ EOS \in Messages
    BY DEF StageInv, TypeOK, Messages
  <2>2. \A j \in 1 .. numSent[q] : Kept(q, j)
    BY <1>1 DEF CompleteInv, Kept
  <2>3. ASSUME NEW r \in Queries, Worker(r) PROVE Kept(q, k)'
    BY <1>1, <2>3, WorkerKeeps
  <2>4. ASSUME numSent' = numSent, pc'[q] = pc[q] \/ pc[q] \notin AnswerPC,
               Range(output) \subseteq Range(output')
        PROVE  Kept(q, k)'
    BY <2>2, <2>4 DEF Kept
  <2>5. CASE Feed
    <3>1. numSent' = numSent
      BY <2>5 DEF Feed, FeedAnswer, SubmitQuery, FeedEos, TestActive, PushEos, TestOutput, DeliverEos,
                  ShutOutput, queryVars
    <3>2. pc'[q] = pc[q] \/ pc[q] \notin AnswerPC
      <4>1. CASE SubmitQuery
        <5>1. numFed \in Queries /\ pc[numFed] = "absent"
          BY <2>1, <4>1 DEF SubmitQuery, Fed, Tracked
        <5> QED
          BY <2>1, <4>1, <5>1 DEF SubmitQuery, AnswerPC, TypeOK
      <4>2. CASE ~SubmitQuery
        BY <2>1, <2>5, <4>2 DEF Feed, FeedAnswer, FeedEos, TestActive, PushEos, TestOutput, DeliverEos,
                  ShutOutput, Finish, Goes, TypeOK
      <4> QED
        BY <4>1, <4>2
    <3>3. Range(output) \subseteq Range(output')
      <4>1. Range(Append(output, EOS)) = Range(output) \cup {EOS}
        BY <2>1, Appended
      <4>2. output' = output \/ output' = Append(output, EOS)
        BY <2>5 DEF Feed, FeedAnswer, SubmitQuery, FeedEos, TestActive, PushEos, TestOutput, DeliverEos,
                    ShutOutput, outputVars
      <4> QED
        BY <4>1, <4>2
    <3> QED
      BY <2>4, <3>1, <3>2, <3>3
  <2>6. CASE Teardown
    BY <2>4, <2>6 DEF Teardown, outputVars, queryVars
  <2>7. CASE UNCHANGED vars
    BY <2>4, <2>7 DEF vars, outputVars, queryVars
  <2> QED
    BY <2>3, <2>5, <2>6, <2>7 DEF Next, Worker
<1> QED
  BY <1>1, <1>2, <1>3

\* Unless a query was overtaken, EOS goes out when the input has ended and no query is
\* active, and every answer of every query has gone out before.
THEOREM CompleteSafe == Spec => []CompleteUnlessOvertaken
<1>1. StageInv /\ CompleteInv => CompleteUnlessOvertaken
  <2> SUFFICES ASSUME StageInv, CompleteInv, EOS \in Range(output), "overtaken" \notin windows
               PROVE  /\ numFed = NumInputs /\ graphQueries = <<>>
                      /\ \A q \in Queries : \A k \in 1 .. numSent[q] : <<q, k>> \in Range(output)
                      /\ output[Len(output)] = EOS
    BY DEF CompleteUnlessOvertaken
  <2>1. numFed = NumInputs /\ graphQueries = <<>> /\ output[Len(output)] = EOS
    BY DEF StageInv, Closed, Fed, CompleteInv
  <2>2. \A q \in Queries : pc[q] \notin AnswerPC
    BY NotEnded DEF WorkPC
  <2> QED
    BY <2>1, <2>2 DEF CompleteInv
<1>2. Init => StageInv /\ CompleteInv
  BY InitStage, InitComplete
<1> QED
  BY StageStep, CompleteStep, <1>1, <1>2, PTL DEF Spec
=============================================================================
