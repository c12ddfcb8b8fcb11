------------------------ MODULE AnswerStream_proofs -------------------------
(***************************************************************************)
(* A stream in use never touches an erased element of channels_ nor a null *)
(* stream_, for any channels, created at any time. When all its channels are connected      *)
(* before the first message, it implements AnswerStreamContract: no answer *)
(* is lost or comes after EOS, and EOS comes once.                         *)
(***************************************************************************)
EXTENDS AnswerStream, SequenceTheorems, TLAPS

\* Where a producer may be that uses its channel: channels_ still has it.
InputPC == {"idle", "answer", "enqueue", "eos", "erase"}
EndPC == {"pushEos", "closeStream"}
UsePC == InputPC \cup EndPC \cup {"absent", "refused", "closeChannel", "resetStream", "finished"}

\* A channel is erased by its own producer only, which then closes it and does
\* not come back: the flag of the channel says which channels are in channels_.
Owned ==
    /\ ~deadlocked
    /\ pc[Closer] = "idle"
    /\ \A c \in Channels :
          /\ pc[c] \in UsePC
          /\ target[c] = c
          /\ isHeld[c] <=> pc[c] \notin {"absent", "refused"}
          /\ isChannelOpened[c] <=> pc[c] \notin {"absent", "refused", "resetStream", "finished"}
          /\ isStreamSet[c] <=> pc[c] \notin {"absent", "refused", "finished"}
          /\ pc[c] \in InputPC => c \in channels
          /\ pc[c] \in {"answer", "enqueue"} => numSent[c] > 0

OwnedInv == TypeOK /\ Owned

\* Per channel: how many of its answers are output.
delivered == [c \in Channels |-> IF pc[c] \in {"answer", "enqueue"} THEN numSent[c] - 1 ELSE numSent[c]]

HasEos == \E i \in 1 .. Len(Output) : Output[i] = EOS

\* As long as there is an input channel the stream is open and EOS is not sent. The
\* producer that has erased the last one, and no other, sends it.
Ended ==
    /\ \A c \in Channels : pc[c] \notin {"absent", "refused"}
    /\ \A c \in channels : pc[c] \in InputPC
    /\ channels # {} => isOpened
    /\ (\E c \in Channels : pc[c] \in EndPC) => channels = {}
    /\ HasEos => channels = {}
    /\ \A c, d \in Channels : pc[c] \in EndPC /\ pc[d] \in EndPC => c = d
    /\ (\E c \in Channels : pc[c] = "pushEos") => ~HasEos
    /\ \A i \in 1 .. Len(Output) : Output[i] = EOS => i = Len(Output)

\* What counts as delivered is in the output.
Delivered == \A c \in Channels : \A k \in 1 .. delivered[c] :
                \E j \in 1 .. Len(Output) : Output[j] = <<c, k>>

EndedInv == OwnedInv /\ Ended /\ Delivered

-----------------------------------------------------------------------------
(* The output *)

LEMMA Distinct == EOS \in Messages /\ (\A a \in Answers : a \in Messages /\ a # EOS)
<1>1. \A c, k : <<c, k>> # <<>>
  OBVIOUS
<1> QED
  BY <1>1 DEF EOS, Messages, Answers

LEMMA OutputTyped == ASSUME TypeOK PROVE Output \in Seq(Messages) /\ Len(Output) \in Nat
<1> DEFINE M == Messages
<1>1. received \in Seq(M) /\ queue \in Seq(M)
  BY DEF TypeOK
<1> HIDE DEF M
<1>2. received \o queue \in Seq(M)
  BY <1>1, ConcatProperties
<1> QED
  BY <1>2, LenProperties DEF Output, M

\* A message that is appended to the queue is appended to the output.
LEMMA OutputAppends ==
    ASSUME TypeOK, NEW m \in Messages, queue' = Append(queue, m), received' = received
    PROVE  /\ queue' \in Seq(Messages)
           /\ Output' = Append(Output, m) /\ Len(Output') = Len(Output) + 1
           /\ Output'[Len(Output) + 1] = m
           /\ \A i \in 1 .. Len(Output) : Output'[i] = Output[i]
           /\ \A i \in 1 .. Len(Output') : i \in 1 .. Len(Output) \/ i = Len(Output) + 1
<1> DEFINE M == Messages
<1>1. received \in Seq(M) /\ queue \in Seq(M) /\ m \in M
  BY DEF TypeOK
<1> HIDE DEF M
<1>2. Append(queue, m) = queue \o <<m>> /\ <<m>> \in Seq(M) /\ Append(queue, m) \in Seq(M)
  BY <1>1, AppendProperties, AppendIsConcat
<1>3. Output' = Output \o <<m>>
  BY <1>1, <1>2, ConcatAssociative DEF Output
<1>4. Output \in Seq(M) /\ Len(Output) \in Nat
  BY OutputTyped DEF M
<1>5. Output' = Append(Output, m)
  BY <1>1, <1>3, <1>4, AppendIsConcat
<1>6. /\ Len(Append(Output, m)) = Len(Output) + 1
      /\ Append(Output, m)[Len(Output) + 1] = m
      /\ \A i \in 1 .. Len(Output) : Append(Output, m)[i] = Output[i]
  BY <1>1, <1>4, AppendProperties
<1>7. \A i \in 1 .. Len(Output) + 1 : i \in 1 .. Len(Output) \/ i = Len(Output) + 1
  BY <1>4
<1> QED
  BY <1>2, <1>5, <1>6, <1>7 DEF M

\* Reading moves a message, the output stays as it was.
LEMMA OutputMoves ==
    ASSUME TypeOK, PopFront
    PROVE  /\ queue' \in Seq(Messages) /\ received' \in Seq(Messages)
           /\ Output' = Output /\ Len(received') = Len(received) + 1 /\ Len(received) < Len(Output)
<1> DEFINE M == Messages
           m == Head(queue)
<1>1. received \in Seq(M) /\ queue \in Seq(M) /\ queue # <<>>
  BY DEF TypeOK, PopFront
<1>2. received' = Append(received, m) /\ queue' = Tail(queue)
  BY DEF PopFront
<1> HIDE DEF M
<1>3. m \in M /\ Tail(queue) \in Seq(M) /\ queue = <<m>> \o Tail(queue) /\ Len(queue) > 0 /\ Len(queue) \in Nat
  <2>1. m \in M /\ Tail(queue) \in Seq(M) /\ Len(queue) \in Nat /\ Len(queue) # 0
    BY <1>1, HeadTailProperties, EmptySeq, LenProperties
  <2>2. queue = <<m>> \o Tail(queue)
    BY <1>1, HeadTailProperties
  <2> QED
    BY <2>1, <2>2
<1> HIDE DEF m
<1>4. Append(received, m) \in Seq(M) /\ Append(received, m) = received \o <<m>> /\ <<m>> \in Seq(M)
      /\ Len(Append(received, m)) = Len(received) + 1
  BY <1>1, <1>3, AppendProperties, AppendIsConcat
<1>5. Output' = Output
  BY <1>1, <1>2, <1>3, <1>4, ConcatAssociative DEF Output
<1>6. Len(Output) = Len(received) + Len(queue) /\ Len(received) \in Nat
  BY <1>1, ConcatProperties, LenProperties DEF Output
<1> QED
  BY <1>2, <1>3, <1>4, <1>5, <1>6 DEF M

-----------------------------------------------------------------------------
(* Channels are erased once *)

\* A producer is not the closer, and moves alone.
LEMMA Moves ==
    ASSUME ChannelsAssumption, TypeOK, NEW c \in Channels, NEW p, pc' = [pc EXCEPT ![c] = p]
    PROVE  /\ c \in Threads /\ c # Closer /\ pc'[c] = p
           /\ \A d \in Channels \ {c} : pc'[d] = pc[d]
           /\ Closer \in Threads /\ pc'[Closer] = pc[Closer]
           /\ p \in ThreadPC => pc' \in [Threads -> ThreadPC]
BY DEF ChannelsAssumption, Threads, TypeOK

LEMMA InitOwned == Init => OwnedInv
<1> SUFFICES ASSUME Init PROVE OwnedInv
  OBVIOUS
<1> USE ChannelsAssumption DEF ChannelsAssumption
<1>1. <<>> \in Seq(Messages)
  OBVIOUS
<1>2. TypeOK
  <2>1. pc \in [Threads -> ThreadPC]
    BY DEF Init, ThreadPC
  <2>2. target \in [Threads -> Channels \cup {"none"}]
    BY DEF Init
  <2>3. numSent \in [Channels -> 0 .. NumAnswers]
    BY DEF Init
  <2>4. /\ isChannelOpened \in [Channels -> BOOLEAN] /\ isHeld \in [Channels -> BOOLEAN]
        /\ isStreamSet \in [Channels -> BOOLEAN]
    BY DEF Init
  <2> QED
    BY <1>1, <2>1, <2>2, <2>3, <2>4 DEF Init, TypeOK
<1>3. Owned
  BY DEF Init, Owned, Threads, UsePC, InputPC, EndPC
<1> QED
  BY <1>2, <1>3 DEF OwnedInv

\* A producer that has not ended its channel finds stream_ set.
LEMMA StreamIsSet ==
    ASSUME OwnedInv, NEW c \in Channels, NEW from \in {"answer", "eos"}, NEW to,
           UsesStream(c, from, to)
    PROVE  pc[c] = from /\ pc' = [pc EXCEPT ![c] = to]
BY DEF OwnedInv, Owned, UsesStream, Goes

\* It is the only one to reset it, as every other thread works on a channel of its own.
LEMMA ResetAlone ==
    ASSUME ChannelsAssumption, OwnedInv, NEW c \in Channels, ResetStream(c)
    PROVE  pc[c] = "resetStream" /\ pc' = [pc EXCEPT ![c] = "finished"]
<1>1. c # Closer /\ ~IsResetTwice(c)
  BY DEF ChannelsAssumption, OwnedInv, Owned, IsResetTwice, Threads
<1> QED
  BY <1>1 DEF ResetStream, Goes

LEMMA KeepsOwned == OwnedInv /\ UseNext => OwnedInv'
<1> SUFFICES ASSUME OwnedInv, UseNext PROVE OwnedInv'
  OBVIOUS
<1> USE ChannelsAssumption DEF OwnedInv, Owned, UsePC, InputPC, EndPC
<1>0. TypeOK /\ Owned
  OBVIOUS
<1>1. CASE PopFront
  <2>1. TypeOK'
    BY <1>1, OutputMoves DEF PopFront, TypeOK, streamVars, threadVars
  <2> QED
    BY <1>1, <2>1 DEF PopFront, streamVars, threadVars
<1>2. ASSUME NEW c \in Channels, Create(c) PROVE OwnedInv'
  <2>1. pc[c] = "absent" /\ pc' = [pc EXCEPT ![c] = "idle"]
    BY <1>2 DEF Create, Goes
  <2>2. TypeOK'
    <3>1. pc' \in [Threads -> ThreadPC]
      <4>1. "idle" \in ThreadPC
        BY DEF ThreadPC
      <4> QED
        BY ONLY <1>0, <2>1, <4>1, c \in Channels, ChannelsAssumption, Moves
    <3>2. /\ isChannelOpened' \in [Channels -> BOOLEAN] /\ isHeld' \in [Channels -> BOOLEAN]
          /\ isStreamSet' \in [Channels -> BOOLEAN]
      BY <1>2 DEF Create, TypeOK
    <3> QED
      BY <1>2, <3>1, <3>2 DEF Create, TypeOK, consumerVars
  <2>3. \A d \in Channels \ {c} : /\ pc'[d] = pc[d] /\ isHeld'[d] = isHeld[d]
                                /\ isChannelOpened'[d] = isChannelOpened[d]
                                /\ isStreamSet'[d] = isStreamSet[d]
    <3>1. \A d \in Channels \ {c} : /\ isHeld'[d] = isHeld[d] /\ isChannelOpened'[d] = isChannelOpened[d]
                                  /\ isStreamSet'[d] = isStreamSet[d]
      BY <1>2 DEF Create, TypeOK
    <3> QED
      BY <2>1, <3>1, Moves
  <2>4. /\ isHeld'[c] /\ isChannelOpened'[c] /\ isStreamSet'[c] /\ channels' = channels \cup {c}
        /\ pc'[c] = "idle" /\ pc'[Closer] = pc[Closer]
    <3>1. isHeld'[c] /\ isChannelOpened'[c] /\ isStreamSet'[c] /\ channels' = channels \cup {c}
      BY <1>2 DEF Create, TypeOK
    <3> QED
      BY <2>1, <3>1, Moves
  <2> QED
    BY <1>2, <2>2, <2>3, <2>4 DEF Create
<1>3. ASSUME NEW c \in Channels, CreateRefused(c) PROVE OwnedInv'
  <2>1. pc[c] = "absent" /\ pc' = [pc EXCEPT ![c] = "refused"]
    BY <1>3 DEF CreateRefused, Goes
  <2>2. TypeOK'
    BY <1>3, <2>1, Moves DEF CreateRefused, TypeOK, ThreadPC, consumerVars, streamVars
  <2> QED
    BY <1>3, <2>1, <2>2, Moves DEF CreateRefused, streamVars, Threads
<1>4. ASSUME NEW c \in Channels, PushAnswer(c) PROVE OwnedInv'
  <2>1. pc[c] = "idle" /\ pc' = [pc EXCEPT ![c] = "answer"]
    BY <1>4 DEF PushAnswer, Goes
  <2>2. TypeOK'
    <3>1. numSent' \in [Channels -> 0 .. NumAnswers]
      BY <1>4 DEF PushAnswer, TypeOK, ChannelsAssumption
    <3> QED
      BY <1>4, <2>1, <3>1, Moves DEF PushAnswer, TypeOK, ThreadPC, consumerVars, streamVars
  <2> QED
    <3>1. (\A d \in Channels \ {c} : pc'[d] = pc[d]) /\ pc'[c] = "answer" /\ pc'[Closer] = "idle"
      BY <2>1, Moves
    <3>2. \A d \in Channels : numSent'[d] = IF d = c THEN numSent[d] + 1 ELSE numSent[d]
      BY <1>4 DEF PushAnswer, TypeOK
    <3>3. UNCHANGED <<channels, isHeld, isChannelOpened, isStreamSet, deadlocked, target>>
      BY <1>4 DEF PushAnswer, streamVars
    <3>4. numSent[c] \in Nat
      BY DEF TypeOK, ChannelsAssumption
    <3> QED
      BY <2>1, <2>2, <3>1, <3>2, <3>3, <3>4
<1>5. ASSUME NEW c \in Channels, TestStream(c) PROVE OwnedInv'
  <2>1. PICK p \in {"enqueue", "idle"} : pc[c] = "answer" /\ pc' = [pc EXCEPT ![c] = p]
    BY <1>0, <1>5, StreamIsSet DEF TestStream
  <2>2. TypeOK'
    BY <1>5, <2>1, Moves DEF TestStream, TypeOK, ThreadPC, consumerVars, streamVars
  <2> QED
    BY <1>5, <2>1, <2>2, Moves DEF TestStream, streamVars, Threads
<1>6. ASSUME NEW c \in Channels, Enqueue(c) PROVE OwnedInv'
  <2>1. pc[c] = "enqueue" /\ pc' = [pc EXCEPT ![c] = "idle"]
    BY <1>6 DEF Enqueue, Goes
  <2>2. TypeOK'
    <3>1. <<c, numSent[c]>> \in Messages
      BY <2>1 DEF TypeOK, Messages, Answers, ChannelsAssumption
    <3>2. queue' \in Seq(Messages)
      BY <1>6, <3>1, OutputAppends DEF Enqueue
    <3> QED
      BY <1>6, <2>1, <3>2, Moves DEF Enqueue, TypeOK, ThreadPC, streamVars
  <2> QED
    BY <1>6, <2>1, <2>2, Moves DEF Enqueue, streamVars, Threads
<1>7. ASSUME NEW c \in Channels, PushEos(c) PROVE OwnedInv'
  <2>1. /\ pc[c] \in {"idle", "finished"} /\ (isChannelOpened[c] <=> pc[c] = "idle")
        /\ UNCHANGED <<streamVars, consumerVars, target, numSent, visited>>
    BY <1>7 DEF PushEos
  <2>2. CASE pc[c] = "idle"
    <3>1. pc' = [pc EXCEPT ![c] = "eos"]
      BY <1>7, <2>1, <2>2 DEF PushEos
    <3>2. TypeOK'
      BY <2>1, <3>1, Moves DEF TypeOK, ThreadPC, consumerVars, streamVars
    <3> QED
      BY <2>1, <2>2, <3>1, <3>2, Moves DEF streamVars
  <2>3. CASE pc[c] = "finished"
    <3>1. pc' = [pc EXCEPT ![c] = "finished"]
      BY <1>7, <2>1, <2>3 DEF PushEos
    <3>2. TypeOK'
      BY <2>1, <3>1, Moves DEF TypeOK, ThreadPC, consumerVars, streamVars
    <3> QED
      BY <2>1, <2>3, <3>1, <3>2, Moves DEF streamVars
  <2> QED
    BY <2>1, <2>2, <2>3
<1>8. ASSUME NEW c \in Channels, TestStreamForEos(c) PROVE OwnedInv'
  <2>1. PICK p \in {"erase", "pushEos"} : pc[c] = "eos" /\ pc' = [pc EXCEPT ![c] = p]
    BY <1>0, <1>8, StreamIsSet DEF TestStreamForEos
  <2>2. TypeOK'
    BY <1>8, <2>1, Moves DEF TestStreamForEos, TypeOK, ThreadPC, consumerVars, streamVars
  <2> QED
    BY <1>8, <2>1, <2>2, Moves DEF TestStreamForEos, streamVars, Threads
<1>9. ASSUME NEW c \in Channels, Erase(c) PROVE OwnedInv'
  <2>1. target[c] = c /\ c \in channels /\ pc[c] = "erase"
    BY <1>9 DEF Erase, Goes
  <2>2. PICK p \in {"pushEos", "closeChannel"} : pc' = [pc EXCEPT ![c] = p]
    BY <1>9, <2>1 DEF Erase, Goes
  <2>3. channels' = channels \ {c} /\ UNCHANGED <<isOpened, isChannelOpened, isStreamSet, isHeld, deadlocked, consumerVars,
                   target, numSent, visited>>
    BY <1>9, <2>1 DEF Erase
  <2>4. TypeOK'
    BY <2>2, <2>3, Moves DEF TypeOK, ThreadPC, consumerVars
  <2> QED
    <3>1. \A d \in Channels \ {c} : pc'[d] = pc[d] /\ (d \in channels => d \in channels')
      BY <2>2, <2>3, Moves
    <3>2. pc'[c] = p /\ pc'[Closer] = "idle"
      BY <2>2, Moves
    <3> QED
      BY <2>1, <2>2, <2>3, <2>4, <3>1, <3>2
<1>10. ASSUME NEW c \in Channels, EraseLastReference(c) PROVE OwnedInv'
  BY <1>10 DEF EraseLastReference, Goes
<1>11. ASSUME NEW c \in Channels, EnqueueEos(c) PROVE OwnedInv'
  <2>1. pc[c] = "pushEos" /\ pc' = [pc EXCEPT ![c] = "closeStream"]
    BY <1>11 DEF EnqueueEos, Goes
  <2>2. TypeOK'
    <3>1. queue' \in Seq(Messages)
      BY <1>11, Distinct, OutputAppends DEF EnqueueEos
    <3> QED
      BY <1>11, <2>1, <3>1, Moves DEF EnqueueEos, TypeOK, ThreadPC, streamVars
  <2> QED
    BY <1>11, <2>1, <2>2, Moves DEF EnqueueEos, streamVars, Threads
<1>12. ASSUME NEW c \in Channels, CloseStream(c) PROVE OwnedInv'
  <2>1. pc[c] = "closeStream" /\ pc' = [pc EXCEPT ![c] = "closeChannel"]
    BY <1>12 DEF CloseStream, Goes
  <2>2. TypeOK'
    BY <1>12, <2>1, Moves DEF CloseStream, TypeOK, ThreadPC, consumerVars
  <2> QED
    BY <1>12, <2>1, <2>2, Moves DEF CloseStream, Threads
<1>13. ASSUME NEW c \in Channels, CloseChannel(c) PROVE OwnedInv'
  <2>1. pc[c] = "closeChannel" /\ pc' = [pc EXCEPT ![c] = "resetStream"]
    BY <1>13 DEF CloseChannel, Goes
  <2>2. TypeOK'
    BY <1>13, <2>1, Moves DEF CloseChannel, TypeOK, ThreadPC, consumerVars
  <2>3. \A d \in Channels : isChannelOpened'[d] = IF d = c THEN FALSE ELSE isChannelOpened[d]
    BY <1>13 DEF CloseChannel, TypeOK
  <2> QED
    <3>1. (\A d \in Channels \ {c} : pc'[d] = pc[d]) /\ pc'[c] = "resetStream" /\ pc'[Closer] = "idle"
      BY <2>1, Moves
    <3>2. UNCHANGED <<channels, isStreamSet, isHeld, deadlocked, target, numSent>>
      BY <1>13 DEF CloseChannel
    <3>3. ~isChannelOpened'[c] /\ isStreamSet'[c] /\ isHeld'[c]
      BY <2>1, <2>3, <3>2
    <3> QED
      BY <2>2, <2>3, <3>1, <3>2, <3>3
<1>14. ASSUME NEW c \in Channels, ResetStream(c) PROVE OwnedInv'
  <2>1. pc[c] = "resetStream" /\ pc' = [pc EXCEPT ![c] = "finished"]
    BY <1>14, ResetAlone
  <2>2. TypeOK'
    BY <1>14, <2>1, Moves DEF ResetStream, TypeOK, ThreadPC, consumerVars
  <2>3. \A d \in Channels : isStreamSet'[d] = IF d = c THEN FALSE ELSE isStreamSet[d]
    BY <1>14 DEF ResetStream, TypeOK
  <2> QED
    <3>1. (\A d \in Channels \ {c} : pc'[d] = pc[d]) /\ pc'[c] = "finished" /\ pc'[Closer] = "idle"
      BY <2>1, Moves
    <3>2. UNCHANGED <<channels, isChannelOpened, isHeld, deadlocked, target, numSent>>
      BY <1>14 DEF ResetStream
    <3>3. ~isChannelOpened'[c] /\ ~isStreamSet'[c] /\ isHeld'[c]
      BY <2>1, <2>3, <3>2
    <3> QED
      BY <2>2, <2>3, <3>1, <3>2, <3>3
<1> QED
  BY <1>1, <1>2, <1>3, <1>4, <1>5, <1>6, <1>7, <1>8, <1>9, <1>10, <1>11, <1>12, <1>13, <1>14
     DEF UseNext, Connect, Produce, SendEos

LEMMA OwnedInvariance == UseSpec => []OwnedInv
<1>1. OwnedInv /\ UNCHANGED vars => OwnedInv'
  <2> SUFFICES ASSUME OwnedInv, UNCHANGED vars PROVE OwnedInv'
    OBVIOUS
  <2>1. TypeOK'
    BY DEF OwnedInv, TypeOK, vars, streamVars, consumerVars, threadVars
  <2>2. Owned'
    BY DEF OwnedInv, Owned, vars, streamVars, consumerVars, threadVars
  <2> QED
    BY <2>1, <2>2 DEF OwnedInv
<1> QED
  BY <1>1, InitOwned, KeepsOwned, PTL DEF UseSpec

\* The types of a stream in use.
THEOREM TypeCorrect == UseSpec => []TypeOK
BY OwnedInvariance, PTL DEF OwnedInv

\* A stream in use never erases an element of channels_ twice, nor follows an erased
\* one, nor does it push to a null stream_: the iterator and the pointer of a Channel are
\* used by its producer alone (AnswerStream.cpp:69, 117, 131).
THEOREM IteratorSafe == UseSpec => []NoDanglingIterator
<1>1. OwnedInv => NoDanglingIterator
  BY DEF OwnedInv, Owned, UsePC, InputPC, EndPC, NoDanglingIterator, Threads
<1> QED
  BY <1>1, OwnedInvariance, PTL

-----------------------------------------------------------------------------
(* All answers come before EOS *)

LEMMA InitEnded == Init /\ Connected = Channels => EndedInv
<1> SUFFICES ASSUME Init, Connected = Channels PROVE EndedInv
  OBVIOUS
<1>1. OwnedInv
  BY InitOwned
<1>2. \A c \in Channels : pc[c] = "idle"
  BY DEF Init, Threads
<1>3. Len(Output) = 0
  BY DEF Init, Output
<1>4. Ended
  BY <1>2, <1>3 DEF Init, Ended, InputPC, EndPC, HasEos
<1>5. Delivered
  BY <1>2 DEF Init, Delivered, delivered
<1> QED
  BY <1>1, <1>4, <1>5 DEF EndedInv

\* How many answers count as delivered changes with the answer that is under way.
LEMMA DeliveredIs ==
    ASSUME ChannelsAssumption, TypeOK, NEW c \in Channels, NEW p, pc' = [pc EXCEPT ![c] = p],
           numSent' = numSent, p \in {"answer", "enqueue"} <=> pc[c] \in {"answer", "enqueue"}
    PROVE  delivered' = delivered
<1>1. (\A d \in Channels \ {c} : pc'[d] = pc[d]) /\ pc'[c] = p
  BY Moves
<1> QED
  BY <1>1 DEF delivered

\* A step of the producer c that sends nothing and erases nothing.
Silent(c, p) ==
    /\ pc' = [pc EXCEPT ![c] = p]
    /\ \/ pc[c] \in InputPC /\ p \in InputPC
       \/ pc[c] \notin InputPC \cup EndPC /\ p \notin InputPC \cup EndPC
    /\ p \notin {"absent", "refused"}
    /\ delivered' = delivered
    /\ UNCHANGED <<channels, isOpened, queue, received>>

\* What each step of a stream in use does to the output, when all channels are
\* connected beforehand.
LEMMA Steps ==
    ASSUME EndedInv, UseNext
    PROVE  \/ PopFront
           \/ \E c \in Channels : \/ \E p : Silent(c, p)
                                 \/ Enqueue(c) \/ Erase(c) \/ EnqueueEos(c) \/ CloseStream(c)
<1>0. TypeOK /\ Owned /\ Ended /\ ChannelsAssumption
  BY ChannelsAssumption DEF EndedInv, OwnedInv
<1> USE DEF InputPC, EndPC
<1>1. ASSUME NEW c \in Channels, Create(c) \/ CreateRefused(c) PROVE FALSE
  BY <1>0, <1>1 DEF Create, CreateRefused, Goes, Ended
<1>2. ASSUME NEW c \in Channels, PushAnswer(c) PROVE Silent(c, "answer")
  <2>1. pc[c] = "idle" /\ pc' = [pc EXCEPT ![c] = "answer"]
    BY <1>0, <1>2 DEF PushAnswer, Goes, Owned
  <2>2. (\A d \in Channels \ {c} : pc'[d] = pc[d]) /\ pc'[c] = "answer"
    BY <1>0, <2>1, Moves
  <2>3. /\ numSent'[c] = numSent[c] + 1 /\ numSent[c] \in Nat
        /\ \A d \in Channels \ {c} : numSent'[d] = numSent[d]
    BY <1>0, <1>2 DEF PushAnswer, TypeOK, ChannelsAssumption
  <2>4. delivered' = delivered
    <3>1. numSent'[c] - 1 = numSent[c]
      BY <2>3
    <3> QED
      BY <2>1, <2>2, <2>3, <3>1 DEF delivered
  <2> QED
    BY <1>2, <2>1, <2>4 DEF Silent, PushAnswer, streamVars, consumerVars
<1>3. ASSUME NEW c \in Channels, TestStream(c) PROVE Silent(c, "enqueue")
  <2>1. pc[c] = "answer" /\ pc' = [pc EXCEPT ![c] = "enqueue"]
    BY <1>0, <1>3, StreamIsSet DEF TestStream, Owned, Ended, OwnedInv
  <2> QED
    BY <1>0, <1>3, <2>1, DeliveredIs DEF Silent, TestStream, streamVars, consumerVars
<1>4. ASSUME NEW c \in Channels, PushEos(c) PROVE \E p : Silent(c, p)
  <2>1. /\ pc[c] \in {"idle", "finished"} /\ (isChannelOpened[c] <=> pc[c] = "idle")
        /\ UNCHANGED <<channels, isOpened, queue, received, numSent>>
    BY <1>0, <1>4 DEF PushEos, Owned, streamVars, consumerVars
  <2>2. CASE pc[c] = "idle"
    <3>1. pc' = [pc EXCEPT ![c] = "eos"]
      BY <1>4, <2>1, <2>2 DEF PushEos
    <3>2. Silent(c, "eos")
      BY <1>0, <2>1, <2>2, <3>1, DeliveredIs DEF Silent
    <3> QED
      BY <3>2
  <2>3. CASE pc[c] = "finished"
    <3>1. pc' = [pc EXCEPT ![c] = "finished"]
      BY <1>4, <2>1, <2>3 DEF PushEos
    <3>2. Silent(c, "finished")
      BY <1>0, <2>1, <2>3, <3>1, DeliveredIs DEF Silent
    <3> QED
      BY <3>2
  <2> QED
    BY <2>1, <2>2, <2>3
<1>5. ASSUME NEW c \in Channels, TestStreamForEos(c) PROVE Silent(c, "erase")
  <2>1. pc[c] = "eos" /\ pc' = [pc EXCEPT ![c] = "erase"]
    BY <1>0, <1>5, StreamIsSet DEF TestStreamForEos, Owned, Ended, OwnedInv
  <2> QED
    BY <1>0, <1>5, <2>1, DeliveredIs DEF Silent, TestStreamForEos, streamVars, consumerVars
<1>6. ASSUME NEW c \in Channels, EraseLastReference(c) PROVE FALSE
  BY <1>0, <1>6 DEF EraseLastReference, Goes, Owned
<1>7. ASSUME NEW c \in Channels, CloseChannel(c) PROVE Silent(c, "resetStream")
  <2>1. pc[c] = "closeChannel" /\ pc' = [pc EXCEPT ![c] = "resetStream"]
    BY <1>7 DEF CloseChannel, Goes
  <2> QED
    BY <1>0, <1>7, <2>1, DeliveredIs DEF Silent, CloseChannel, consumerVars
<1>8. ASSUME NEW c \in Channels, ResetStream(c) PROVE Silent(c, "finished")
  <2>1. pc[c] = "resetStream" /\ pc' = [pc EXCEPT ![c] = "finished"]
    BY <1>0, <1>8, ResetAlone DEF OwnedInv
  <2> QED
    BY <1>0, <1>8, <2>1, DeliveredIs DEF Silent, ResetStream, consumerVars
<1> QED
  BY <1>1, <1>2, <1>3, <1>4, <1>5, <1>6, <1>7, <1>8 DEF UseNext, Connect, Produce, SendEos

\* Enqueue outputs the next answer of the channel.
LEMMA EnqueueDelivers ==
    ASSUME EndedInv, NEW c \in Channels, Enqueue(c)
    PROVE  /\ c \in channels /\ ~HasEos
           /\ pc[c] = "enqueue" /\ pc' = [pc EXCEPT ![c] = "idle"]
           /\ delivered[c] \in Nat /\ delivered[c] < NumAnswers
           /\ delivered' = [delivered EXCEPT ![c] = @ + 1]
           /\ Output' = Append(Output, <<c, delivered[c] + 1>>)
           /\ <<c, delivered[c] + 1>> \in Messages /\ <<c, delivered[c] + 1>> # EOS
           /\ queue' = Append(queue, <<c, delivered[c] + 1>>) /\ received' = received
           /\ UNCHANGED <<channels, isOpened>>
<1>0. TypeOK /\ Owned /\ Ended /\ ChannelsAssumption
  BY ChannelsAssumption DEF EndedInv, OwnedInv
<1>1. pc[c] = "enqueue" /\ pc' = [pc EXCEPT ![c] = "idle"] /\ numSent' = numSent
      /\ queue' = Append(queue, <<c, numSent[c]>>) /\ received' = received
      /\ UNCHANGED <<channels, isOpened>>
  BY DEF Enqueue, Goes, streamVars
<1>2. numSent[c] \in Nat /\ numSent[c] > 0 /\ numSent[c] <= NumAnswers /\ NumAnswers \in Nat
  BY <1>0, <1>1 DEF Owned, TypeOK, ChannelsAssumption
<1>3. (\A d \in Channels \ {c} : pc'[d] = pc[d]) /\ pc'[c] = "idle"
  BY <1>0, <1>1, Moves
<1>4. delivered[c] = numSent[c] - 1
  BY <1>1 DEF delivered
<1>5. delivered'[c] = numSent[c] /\ \A d \in Channels \ {c} : delivered'[d] = delivered[d]
  BY <1>1, <1>3 DEF delivered
<1>6. delivered' = [delivered EXCEPT ![c] = @ + 1]
  <2>1. numSent[c] = delivered[c] + 1
    BY <1>2, <1>4
  <2>2. delivered = [d \in Channels |-> delivered[d]] /\ delivered' = [d \in Channels |-> delivered'[d]]
    BY DEF delivered
  <2> HIDE DEF delivered
  <2> QED
    BY <1>5, <2>1, <2>2
<1>7. <<c, numSent[c]>> \in Messages /\ <<c, numSent[c]>> # EOS
  BY <1>2, Distinct DEF Answers
<1>8. Output' = Append(Output, <<c, numSent[c]>>)
  BY <1>0, <1>1, <1>7, OutputAppends
<1>9. c \in channels /\ ~HasEos
  BY <1>0, <1>1 DEF Owned, Ended, InputPC
<1>10. delivered[c] + 1 = numSent[c] /\ delivered[c] \in Nat /\ delivered[c] < NumAnswers
  BY <1>2, <1>4
<1> QED
  BY <1>1, <1>6, <1>7, <1>8, <1>9, <1>10

\* Erase takes an input channel out; the last one has EOS still to send.
LEMMA EraseLeaves ==
    ASSUME EndedInv, NEW c \in Channels, Erase(c)
    PROVE  /\ c \in channels /\ channels' = channels \ {c} /\ pc[c] = "erase"
           /\ pc' = [pc EXCEPT ![c] = IF channels = {c} THEN "pushEos" ELSE "closeChannel"]
           /\ delivered' = delivered /\ UNCHANGED <<isOpened, queue, received>>
<1>0. TypeOK /\ Owned /\ Ended /\ ChannelsAssumption
  BY ChannelsAssumption DEF EndedInv, OwnedInv
<1>1. target[c] = c /\ c \in channels /\ pc[c] = "erase"
  BY <1>0 DEF Erase, Owned, Ended, InputPC
<1>2. channels' = channels \ {c} /\ UNCHANGED <<isOpened, queue, received, numSent>>
  BY <1>1 DEF Erase, consumerVars
<1> DEFINE p == IF channels = {c} THEN "pushEos" ELSE "closeChannel"
<1>3. pc' = [pc EXCEPT ![c] = p]
  <2>1. CASE channels = {c}
    BY <1>1, <2>1 DEF Erase, Goes
  <2>2. CASE channels # {c}
    BY <1>1, <2>2 DEF Erase, Goes
  <2> QED
    BY <2>1, <2>2
<1>4. p \notin {"answer", "enqueue"}
  OBVIOUS
<1> HIDE DEF p
<1>5. delivered' = delivered
  BY <1>0, <1>1, <1>2, <1>3, <1>4, DeliveredIs
<1> QED
  BY <1>1, <1>2, <1>3, <1>5 DEF p

\* EnqueueEos outputs the only EOS.
LEMMA EnqueueEosEnds ==
    ASSUME EndedInv, NEW c \in Channels, EnqueueEos(c)
    PROVE  /\ channels = {} /\ ~HasEos
           /\ pc[c] = "pushEos" /\ pc' = [pc EXCEPT ![c] = "closeStream"]
           /\ Output' = Append(Output, EOS) /\ queue' = Append(queue, EOS)
           /\ delivered' = delivered /\ UNCHANGED <<channels, isOpened, received>>
<1>0. TypeOK /\ Owned /\ Ended /\ ChannelsAssumption
  BY ChannelsAssumption DEF EndedInv, OwnedInv
<1>1. pc[c] = "pushEos" /\ pc' = [pc EXCEPT ![c] = "closeStream"] /\ queue' = Append(queue, EOS)
      /\ UNCHANGED <<channels, isOpened, received, numSent>>
  BY DEF EnqueueEos, Goes, streamVars
<1>2. Output' = Append(Output, EOS)
  BY <1>0, <1>1, Distinct, OutputAppends
<1>3. channels = {} /\ ~HasEos
  BY <1>0, <1>1 DEF Ended, EndPC
<1>4. delivered' = delivered
  BY <1>0, <1>1, DeliveredIs
<1> QED
  BY <1>1, <1>2, <1>3, <1>4

LEMMA KeepsEnded == EndedInv /\ UseNext => EndedInv'
<1> SUFFICES ASSUME EndedInv, UseNext PROVE EndedInv'
  OBVIOUS
<1>0. TypeOK /\ Owned /\ Ended /\ Delivered /\ OwnedInv' /\ ChannelsAssumption
  BY KeepsOwned, ChannelsAssumption DEF EndedInv, OwnedInv
<1> SUFFICES Ended' /\ Delivered'
  BY <1>0 DEF EndedInv
<1> USE DEF InputPC, EndPC
<1>1. CASE PopFront
  <2>1. Output' = Output /\ delivered' = delivered
    BY <1>0, <1>1, OutputMoves DEF PopFront, threadVars, delivered
  <2>2. Ended'
    BY <1>0, <1>1, <2>1 DEF PopFront, Ended, HasEos, streamVars, threadVars
  <2> QED
    BY <1>0, <2>1, <2>2 DEF Delivered
<1>2. ASSUME NEW c \in Channels, NEW p, Silent(c, p) PROVE Ended' /\ Delivered'
  <2>1. (\A d \in Channels \ {c} : pc'[d] = pc[d]) /\ pc'[c] = p
    BY <1>0, <1>2, Moves DEF Silent
  <2>2. Output' = Output /\ UNCHANGED <<channels, isOpened>> /\ delivered' = delivered
    BY <1>2 DEF Silent, Output
  <2>3. p \notin {"absent", "refused"} /\ (p \in EndPC <=> pc[c] \in EndPC) /\ (p \in InputPC <=> pc[c] \in InputPC)
        /\ p \notin EndPC
    BY <1>2 DEF Silent
  <2> HIDE DEF EndPC, InputPC
  <2>4. ASSUME NEW d \in Channels
        PROVE  /\ pc'[d] \in EndPC <=> pc[d] \in EndPC
               /\ pc'[d] \in InputPC <=> pc[d] \in InputPC
               /\ pc'[d] = "pushEos" => pc[d] = "pushEos"
               /\ pc'[d] \notin {"absent", "refused"}
    <3>1. CASE d = c
      <4>1. p # "pushEos"
        BY <2>3 DEF EndPC
      <4> QED
        BY <2>1, <2>3, <3>1, <4>1
    <3>2. CASE d # c
      BY <1>0, <2>1, <3>2 DEF Ended
    <3> QED
      BY <3>1, <3>2
  <2>5. HasEos' <=> HasEos
    BY <2>2 DEF HasEos
  <2>6. \A d \in channels : d \in Channels
    BY <1>0 DEF TypeOK
  <2>7. /\ \A d \in channels' : pc'[d] \in InputPC
        /\ channels' # {} => isOpened'
        /\ (\E d \in Channels : pc'[d] \in EndPC) => channels' = {}
        /\ HasEos' => channels' = {}
        /\ \A d, e \in Channels : pc'[d] \in EndPC /\ pc'[e] \in EndPC => d = e
        /\ (\E d \in Channels : pc'[d] = "pushEos") => ~HasEos'
    BY <1>0, <2>2, <2>4, <2>5, <2>6 DEF Ended
  <2>8. \A i \in 1 .. Len(Output') : Output'[i] = EOS => i = Len(Output')
    BY <1>0, <2>2 DEF Ended
  <2>9. Ended'
    BY <2>4, <2>7, <2>8 DEF Ended
  <2> QED
    BY <1>0, <2>2, <2>9 DEF Delivered
<1>3. ASSUME NEW c \in Channels, Enqueue(c) PROVE Ended' /\ Delivered'
  <2> DEFINE m == <<c, delivered[c] + 1>>
  <2>1. /\ c \in channels /\ ~HasEos /\ pc[c] = "enqueue" /\ pc' = [pc EXCEPT ![c] = "idle"]
        /\ delivered[c] \in Nat /\ delivered' = [delivered EXCEPT ![c] = @ + 1]
        /\ m \in Messages /\ m # EOS /\ queue' = Append(queue, m)
        /\ UNCHANGED <<received, channels, isOpened>>
    BY <1>3, EnqueueDelivers
  <2>2. (\A d \in Channels \ {c} : pc'[d] = pc[d]) /\ pc'[c] = "idle"
    BY <1>0, <2>1, Moves
  <2> HIDE DEF m
  <2>3. /\ Len(Output') = Len(Output) + 1 /\ Output'[Len(Output) + 1] = m /\ Len(Output) \in Nat
        /\ \A i \in 1 .. Len(Output) : Output'[i] = Output[i]
        /\ \A i \in 1 .. Len(Output') : i \in 1 .. Len(Output) \/ i = Len(Output) + 1
    BY <1>0, <2>1, OutputAppends, OutputTyped
  <2>4. \A i \in 1 .. Len(Output') : Output'[i] # EOS
    BY <2>1, <2>3 DEF HasEos
  <2>5. Ended'
    BY <1>0, <2>1, <2>2, <2>4 DEF Ended, HasEos
  <2>6. ASSUME NEW d \in Channels, NEW k \in 1 .. delivered'[d]
        PROVE  \E j \in 1 .. Len(Output') : Output'[j] = <<d, k>>
    <3>1. CASE k \in 1 .. delivered[d]
      <4>1. PICK j \in 1 .. Len(Output) : Output[j] = <<d, k>>
        BY <1>0, <3>1 DEF Delivered
      <4> QED
        BY <2>3, <4>1
    <3>2. CASE d = c /\ k = delivered[c] + 1
      BY <2>3, <3>2 DEF m
    <3>3. k \in 1 .. delivered[d] \/ (d = c /\ k = delivered[c] + 1)
      <4>1. CASE d = c
        <5>1. delivered'[c] = delivered[c] + 1
          BY <2>1 DEF delivered
        <5> QED
          BY <2>1, <2>6, <4>1, <5>1
      <4>2. CASE d # c
        <5>1. delivered'[d] = delivered[d]
          BY <2>1, <4>2 DEF delivered
        <5> QED
          BY <2>6, <5>1
      <4> QED
        BY <4>1, <4>2
    <3> QED
      BY <3>1, <3>2, <3>3
  <2> QED
    BY <2>5, <2>6 DEF Delivered
<1>4. ASSUME NEW c \in Channels, Erase(c) PROVE Ended' /\ Delivered'
  <2> DEFINE p == IF channels = {c} THEN "pushEos" ELSE "closeChannel"
  <2>1. c \in channels /\ channels' = channels \ {c} /\ pc' = [pc EXCEPT ![c] = p]
        /\ delivered' = delivered /\ UNCHANGED <<isOpened, queue, received>>
    BY <1>4, EraseLeaves
  <2>2. (\A d \in Channels \ {c} : pc'[d] = pc[d]) /\ pc'[c] = p
    BY <1>0, <2>1, Moves
  <2>3. Output' = Output
    BY <2>1 DEF Output
  <2>4. \A d \in Channels : pc[d] \notin EndPC
    BY <1>0, <2>1 DEF Ended
  <2>5. ~HasEos
    BY <1>0, <2>1 DEF Ended
  <2>6. pc'[c] \in EndPC => channels' = {}
    BY <2>1, <2>2
  <2>7. Ended'
    BY <1>0, <2>1, <2>2, <2>3, <2>4, <2>5, <2>6 DEF Ended, HasEos
  <2> QED
    BY <1>0, <2>1, <2>3, <2>7 DEF Delivered
<1>5. ASSUME NEW c \in Channels, EnqueueEos(c) PROVE Ended' /\ Delivered'
  <2>1. /\ channels = {} /\ ~HasEos /\ pc[c] = "pushEos" /\ pc' = [pc EXCEPT ![c] = "closeStream"]
        /\ queue' = Append(queue, EOS)
        /\ delivered' = delivered /\ UNCHANGED <<channels, isOpened, received>>
    BY <1>5, EnqueueEosEnds
  <2>2. (\A d \in Channels \ {c} : pc'[d] = pc[d]) /\ pc'[c] = "closeStream"
    BY <1>0, <2>1, Moves
  <2>3. /\ Len(Output') = Len(Output) + 1 /\ Len(Output) \in Nat
        /\ \A i \in 1 .. Len(Output) : Output'[i] = Output[i]
        /\ \A i \in 1 .. Len(Output') : i \in 1 .. Len(Output) \/ i = Len(Output) + 1
    BY <1>0, <2>1, Distinct, OutputAppends, OutputTyped
  <2>4. \A i \in 1 .. Len(Output') : Output'[i] = EOS => i = Len(Output')
    BY <2>1, <2>3 DEF HasEos
  <2>5. \A d \in Channels : pc'[d] # "pushEos"
    BY <1>0, <2>1, <2>2 DEF Ended
  <2>6. Ended'
    BY <1>0, <2>1, <2>2, <2>4, <2>5 DEF Ended
  <2>7. ASSUME NEW d \in Channels, NEW k \in 1 .. delivered'[d]
        PROVE  \E j \in 1 .. Len(Output') : Output'[j] = <<d, k>>
    <3>1. PICK j \in 1 .. Len(Output) : Output[j] = <<d, k>>
      BY <1>0, <2>1 DEF Delivered
    <3> QED
      BY <2>3, <3>1
  <2> QED
    BY <2>6, <2>7 DEF Delivered
<1>6. ASSUME NEW c \in Channels, CloseStream(c) PROVE Ended' /\ Delivered'
  <2>1. pc[c] = "closeStream" /\ pc' = [pc EXCEPT ![c] = "closeChannel"]
        /\ UNCHANGED <<channels, queue, received, numSent>>
    BY <1>6 DEF CloseStream, Goes, consumerVars
  <2>2. (\A d \in Channels \ {c} : pc'[d] = pc[d]) /\ pc'[c] = "closeChannel"
    BY <1>0, <2>1, Moves
  <2>3. Output' = Output /\ delivered' = delivered /\ channels = {}
    BY <1>0, <2>1, DeliveredIs DEF Output, Ended
  <2>4. Ended'
    BY <1>0, <2>1, <2>2, <2>3 DEF Ended, HasEos
  <2> QED
    BY <1>0, <2>3, <2>4 DEF Delivered
<1> QED
  BY <1>1, <1>2, <1>3, <1>4, <1>5, <1>6, Steps

LEMMA EndedInvariance == ASSUME Connected = Channels PROVE UseSpec => []EndedInv
<1>1. EndedInv /\ UNCHANGED vars => EndedInv'
  <2> SUFFICES ASSUME EndedInv, UNCHANGED vars PROVE EndedInv'
    OBVIOUS
  <2> USE DEF vars, streamVars, consumerVars, threadVars
  <2>1. OwnedInv'
    BY DEF EndedInv, OwnedInv, TypeOK, Owned
  <2>2. Output' = Output /\ delivered' = delivered
    BY DEF Output, delivered
  <2>3. Ended' /\ Delivered'
    BY <2>2 DEF EndedInv, Ended, HasEos, Delivered
  <2> QED
    BY <2>1, <2>3 DEF EndedInv
<1>2. Init => EndedInv
  BY InitEnded
<1> QED
  BY <1>1, <1>2, KeepsEnded, PTL DEF UseSpec

\* When all channels are connected before the first message: EOS is the last message of
\* the stream, and every answer that a channel was given comes before it
\* (AnswerStream.cpp:94, the last channel that is erased sends EOS).
THEOREM CompleteSafe == ASSUME Connected = Channels PROVE UseSpec => []CompleteAtEos
<1>1. EndedInv => CompleteAtEos
  <2> SUFFICES ASSUME EndedInv, NEW i \in 1 .. Len(Output), Output[i] = EOS
               PROVE  /\ i = Len(Output)
                      /\ \A c \in Channels : \A k \in 1 .. numSent[c] :
                            \E j \in 1 .. i - 1 : Output[j] = <<c, k>>
    BY DEF CompleteAtEos
  <2>0. TypeOK /\ Owned /\ Ended /\ Delivered
    BY DEF EndedInv, OwnedInv
  <2>1. i = Len(Output) /\ channels = {} /\ Len(Output) \in Nat
    BY <2>0, OutputTyped DEF Ended, HasEos
  <2> SUFFICES ASSUME NEW c \in Channels, NEW k \in 1 .. numSent[c]
               PROVE  \E j \in 1 .. i - 1 : Output[j] = <<c, k>>
    BY <2>1
  <2>2. delivered[c] = numSent[c]
    BY <2>0, <2>1 DEF Owned, InputPC, delivered
  <2>3. PICK j \in 1 .. Len(Output) : Output[j] = <<c, k>>
    BY <2>0, <2>2 DEF Delivered
  <2>4. <<c, k>> # EOS
    BY DEF EOS
  <2>5. j # i
    BY <2>3, <2>4
  <2> QED
    BY <2>1, <2>3, <2>5
<1>2. UseSpec => []EndedInv
  BY EndedInvariance
<1> QED
  BY <1>1, <1>2, PTL

-----------------------------------------------------------------------------
(* The stream implements its contract *)

LEMMA ContractInit == ASSUME Connected = Channels, Init PROVE Contract!Init
<1>1. \A c \in Channels : pc[c] = "idle" /\ numSent[c] = 0
  BY DEF Init, Threads
<1>2. delivered = [c \in Channels |-> 0]
  BY <1>1 DEF delivered
<1> QED
  BY <1>2 DEF Init, Contract!Init, Output, delivered

LEMMA ContractStep == ASSUME EndedInv, UseNext PROVE [Contract!Next]_(Contract!vars)
<1>0. TypeOK /\ Owned /\ Ended /\ ChannelsAssumption
  BY ChannelsAssumption DEF EndedInv, OwnedInv
<1> USE DEF Contract!Next, Contract!vars
<1>1. CASE PopFront
  <2>1. Output' = Output /\ Len(received') = Len(received) + 1 /\ Len(received) < Len(Output)
    BY <1>0, <1>1, OutputMoves
  <2>2. UNCHANGED <<channels, delivered>>
    BY <1>1 DEF PopFront, streamVars, threadVars, delivered
  <2>3. Contract!Read
    BY <2>1, <2>2 DEF Contract!Read, delivered
  <2> QED
    BY <2>3
<1>2. ASSUME NEW c \in Channels, NEW p, Silent(c, p) PROVE UNCHANGED Contract!vars
  BY <1>2 DEF Silent, Output, delivered
<1>3. ASSUME NEW c \in Channels, Enqueue(c) PROVE Contract!Deliver(c)
  <2>1. /\ c \in channels /\ delivered[c] < NumAnswers
        /\ delivered' = [delivered EXCEPT ![c] = @ + 1]
        /\ Output' = Append(Output, <<c, delivered[c] + 1>>)
        /\ UNCHANGED <<channels, received>>
    BY <1>3, EnqueueDelivers
  <2> QED
    BY <2>1 DEF Contract!Deliver, delivered
<1>4. ASSUME NEW c \in Channels, Erase(c) PROVE Contract!Leave(c)
  <2>1. c \in channels /\ channels' = channels \ {c} /\ delivered' = delivered
        /\ UNCHANGED <<queue, received>>
    BY <1>4, EraseLeaves
  <2> QED
    BY <2>1 DEF Contract!Leave, delivered, Output
<1>5. ASSUME NEW c \in Channels, EnqueueEos(c) PROVE Contract!End
  <2>1. channels = {} /\ ~HasEos /\ Output' = Append(Output, EOS) /\ delivered' = delivered
        /\ UNCHANGED <<channels, received>>
    BY <1>5, EnqueueEosEnds
  <2>2. ~Contract!HasEnded
    <3>1. Output \in Seq(Messages) /\ Len(Output) \in Nat
      BY <1>0, OutputTyped
    <3>2. Output # <<>> => Len(Output) \in 1 .. Len(Output)
      BY <3>1, EmptySeq
    <3> QED
      BY <2>1, <3>2 DEF HasEos, Contract!HasEnded
  <2> QED
    BY <2>1, <2>2 DEF Contract!End, delivered
<1>6. ASSUME NEW c \in Channels, CloseStream(c) PROVE UNCHANGED Contract!vars
  <2>1. pc[c] = "closeStream" /\ pc' = [pc EXCEPT ![c] = "closeChannel"]
        /\ UNCHANGED <<channels, queue, received, numSent>>
    BY <1>6 DEF CloseStream, Goes, consumerVars
  <2>2. delivered' = delivered
    BY <1>0, <2>1, DeliveredIs
  <2> QED
    BY <2>1, <2>2 DEF Output, delivered
<1> QED
  BY <1>1, <1>2, <1>3, <1>4, <1>5, <1>6, Steps

\* When all channels are connected before the first message, the stream gives its reader
\* what the contract promises: the answers of every channel in order and without loss,
\* EOS once every channel has ended, and nothing after it. (That EOS does come is
\* ImplementsContract, which TLC checks.)
THEOREM ContractSafe == ASSUME Connected = Channels PROVE UseSpec => Contract!Spec
<1>1. Init => Contract!Init
  BY ContractInit
<1>2. EndedInv /\ [UseNext]_vars => [Contract!Next]_(Contract!vars)
  <2>1. ASSUME UNCHANGED vars PROVE UNCHANGED Contract!vars
    BY <2>1 DEF vars, streamVars, consumerVars, threadVars, Contract!vars, Output
  <2> QED
    BY <2>1, ContractStep
<1>3. UseSpec => []EndedInv
  BY EndedInvariance
<1> QED
  BY <1>1, <1>2, <1>3, PTL DEF UseSpec, Contract!Spec
=============================================================================
