------------------------ MODULE AnswerBuffer_proofs -------------------------
(***************************************************************************)
(* Two facts about AnswerBuffer, for any number of subscribers and answers: *)
(* no subscriber gets a message twice, however push and stopBuffering      *)
(* interleave, and without an overlap every subscriber gets all messages   *)
(* in order. Both rest on where a message may be: in the buffer, or in the *)
(* inboxes that the broadcast of a thread has passed.                      *)
(***************************************************************************)
EXTENDS AnswerBuffer, SequenceTheorems, TLAPS

N == Len(Subscribers)
BroadcastPC == {"test", "deliver", "shut"}
Broadcasts(t) == pc[t] \in BroadcastPC
Inbox(i) == inbox[Subscribers[i]]

\* The broadcast of thread t has still to give its message to subscriber i.
Pending(t, i) ==
    /\ Broadcasts(t)
    /\ i > position[t] \/ (i = position[t] /\ pc[t] # "shut")

\* The types, with what is known of the threads' places.
Typed ==
    /\ isBuffering \in BOOLEAN /\ hasRaced \in BOOLEAN
    /\ buffer \in Seq(Messages)
    /\ subscribers \in Seq(Range(Subscribers)) /\ Len(subscribers) <= N
    /\ \A i \in 1 .. Len(subscribers) : subscribers[i] = Subscribers[i]
    /\ isChannelOpened \in [Range(Subscribers) -> BOOLEAN]
    /\ inbox \in [Range(Subscribers) -> Seq(Messages)]
    /\ pc \in [Threads -> ThreadPC]
    /\ message \in [Threads -> Messages \cup {Nothing}]
    /\ position \in [Threads -> 0 .. N + 1]
    /\ numSent \in 0 .. EOS /\ numFlushed \in 0 .. EOS

\* Nothing is broadcast before stopBuffering, which comes after the last subscriber.
Placed ==
    /\ isBuffering <=> pc[Connector] = "idle"
    /\ ~isBuffering => Len(subscribers) = N
    /\ pc[Producer] \in {"idle", "append"} \cup BroadcastPC
    /\ pc[Connector] # "append"
    /\ Broadcasts(Producer) => ~isBuffering
    /\ \A t \in Threads :
          /\ message[t] # Nothing <=> Broadcasts(t)
          /\ Broadcasts(t) => position[t] >= 1
          /\ pc[t] \in {"deliver", "shut"} => position[t] <= N
          /\ pc[t] = "shut" => message[t] = EOS

\* Until it is cleared the buffer holds the first messages, in order. The
\* connector broadcasts one of them, the producer a later one.
Numbered ==
    /\ numFlushed <= numSent
    /\ isBuffering => numFlushed = 0
    /\ pc[Connector] # "done" =>
          /\ \A i \in 1 .. Len(buffer) : buffer[i] = i
          /\ numFlushed <= Len(buffer) /\ Len(buffer) <= numSent
          /\ pc[Producer] = "append" => Len(buffer) = numSent - 1
          /\ isBuffering /\ pc[Producer] = "idle" => Len(buffer) = numSent
          /\ Broadcasts(Producer) => Len(buffer) < numSent
    /\ pc[Producer] = "append" => numFlushed < numSent
    /\ Broadcasts(Connector) => message[Connector] = numFlushed
    /\ Broadcasts(Producer) => message[Producer] = numSent /\ numFlushed < numSent

\* What subscriber i has, has been flushed, or the producer has broadcast it
\* and it is not in the buffer.
Received(i) ==
    /\ isBuffering => Inbox(i) = <<>>
    /\ \A j \in 1 .. Len(Inbox(i)) :
          /\ Inbox(i)[j] <= numSent
          /\ Inbox(i)[j] > numFlushed =>
                /\ pc[Producer] # "append"
                /\ pc[Connector] # "done" => Inbox(i)[j] > Len(buffer)
          /\ \A t \in Threads : Pending(t, i) => Inbox(i)[j] # message[t]
          /\ \A k \in 1 .. Len(Inbox(i)) : Inbox(i)[j] = Inbox(i)[k] => j = k

UniqueInv == Typed /\ Placed /\ Numbered /\ \A i \in 1 .. N : Received(i)

\* How many messages subscriber i has, unless there was a race.
Reached(i) ==
    IF pc[Connector] # "done"
    THEN IF Pending(Connector, i) THEN numFlushed - 1 ELSE numFlushed
    ELSE IF Pending(Producer, i) \/ pc[Producer] = "append" THEN numSent - 1 ELSE numSent

\* Subscriber i has the first messages, and its channel is open until EOS.
InOrder(i) ==
    /\ Len(Inbox(i)) = Reached(i)
    /\ \A j \in 1 .. Len(Inbox(i)) : Inbox(i)[j] = j
    /\ ~isChannelOpened[Subscribers[i]] => Len(Inbox(i)) = EOS

\* Without a race the producer broadcasts after the flush, which took the whole buffer.
OrderInv ==
    ~hasRaced =>
        /\ Broadcasts(Producer) => pc[Connector] = "done"
        /\ pc[Connector] # "done" /\ pc[Producer] = "idle" => Len(buffer) = numSent
        /\ pc[Connector] = "clear" => numFlushed = Len(buffer)
        /\ \A i \in 1 .. N : InOrder(i)

-----------------------------------------------------------------------------
(* The operators *)

\* A subscriber is known by its place in the order.
LEMMA Indexed ==
    /\ N \in Nat /\ N > 0
    /\ \A i \in 1 .. N : Subscribers[i] \in Range(Subscribers)
    /\ \A i, j \in 1 .. N : Subscribers[i] = Subscribers[j] => i = j
    /\ \A s \in Range(Subscribers) : \E i \in 1 .. N : s = Subscribers[i]
<1> DEFINE S == Range(Subscribers)
<1>1. Subscribers \in Seq(S)
  BY BufferAssumption
<1>2. N \in Nat /\ DOMAIN Subscribers = 1 .. N
  BY <1>1, LenProperties DEF N
<1> HIDE DEF S
<1>3. \A i \in 1 .. N : Subscribers[i] \in Range(Subscribers)
  BY <1>2 DEF Range
<1>4. \A i, j \in 1 .. N : Subscribers[i] = Subscribers[j] => i = j
  BY <1>2, BufferAssumption DEF IsInjective
<1>5. \A s \in Range(Subscribers) : \E i \in 1 .. N : s = Subscribers[i]
  BY <1>2 DEF Range
<1> QED
  BY <1>2, <1>3, <1>4, <1>5, BufferAssumption DEF N

\* The messages are the numbers from 1 to EOS, and EOS is the last.
LEMMA Numbers ==
    /\ NumAnswers \in Nat /\ EOS \in Nat /\ EOS >= 1
    /\ Messages = 1 .. EOS
    /\ Nothing \notin Messages
    /\ Producer \in Threads /\ Connector \in Threads /\ Producer # Connector
    /\ \A t \in Threads : t = Producer \/ t = Connector
BY BufferAssumption DEF EOS, Messages, Nothing, Threads

\* A thread that broadcasts has all subscribers before it, and the channel it has
\* reached is the one of its position.
LEMMA AtPosition ==
    ASSUME Typed, Placed, NEW t \in Threads, Broadcasts(t)
    PROVE  /\ ~isBuffering /\ Len(subscribers) = N
           /\ position[t] \in 1 .. N + 1
           /\ \A i \in 1 .. N : subscribers[i] = Subscribers[i]
           /\ message[t] \in Messages
<1>1. ~isBuffering
  BY Numbers DEF Placed, Broadcasts, BroadcastPC
<1>2. Len(subscribers) = N
  BY <1>1 DEF Placed
<1>3. position[t] \in 1 .. N + 1
  BY Indexed DEF Typed, Placed
<1>4. message[t] \in Messages
  BY DEF Typed, Placed
<1> QED
  BY <1>1, <1>2, <1>3, <1>4 DEF Typed

\* Deliver appends the message at one position.
LEMMA DeliverAppends ==
    ASSUME Typed, Placed, NEW t \in Threads, Deliver(t)
    PROVE  /\ position[t] \in 1 .. N /\ message[t] \in Messages
           /\ inbox' \in [Range(Subscribers) -> Seq(Messages)]
           /\ \A i \in 1 .. N : Inbox(i)' = IF i = position[t]
                                          THEN Append(Inbox(i), message[t]) ELSE Inbox(i)
<1>1. Broadcasts(t) /\ pc[t] = "deliver"
  BY DEF Deliver, Goes, Broadcasts, BroadcastPC
<1>2. position[t] \in 1 .. N /\ message[t] \in Messages
      /\ subscribers[position[t]] = Subscribers[position[t]]
  BY <1>1, AtPosition, Indexed DEF Placed
<1>3. inbox' = [inbox EXCEPT ![Subscribers[position[t]]] = Append(@, message[t])]
  BY <1>2 DEF Deliver
<1>4. Append(inbox[Subscribers[position[t]]], message[t]) \in Seq(Messages)
  BY <1>2, Indexed, AppendProperties DEF Typed
<1>5. inbox' \in [Range(Subscribers) -> Seq(Messages)]
  BY <1>2, <1>3, <1>4 DEF Typed
<1>6. ASSUME NEW i \in 1 .. N
      PROVE  Inbox(i)' = IF i = position[t] THEN Append(Inbox(i), message[t]) ELSE Inbox(i)
  <2>1. Subscribers[i] \in Range(Subscribers)
        /\ (Subscribers[i] = Subscribers[position[t]] <=> i = position[t])
    BY <1>2, Indexed
  <2> QED
    BY <1>3, <2>1 DEF Inbox, Typed
<1> QED
  BY <1>2, <1>5, <1>6

\* Every subscriber has an inbox.
LEMMA Inboxes == ASSUME Typed, NEW i \in 1 .. N PROVE Inbox(i) \in Seq(Messages)
BY Indexed DEF Typed, Inbox

\* What Append changes, and what it leaves.
LEMMA Appended ==
    ASSUME NEW S, NEW q \in Seq(S), NEW e \in S
    PROVE  /\ Append(q, e) \in Seq(S) /\ Len(q) \in Nat /\ Len(Append(q, e)) = Len(q) + 1
           /\ \A i \in 1 .. Len(q) : Append(q, e)[i] = q[i]
           /\ Append(q, e)[Len(q) + 1] = e
           /\ \A i \in 1 .. Len(q) + 1 : i \in 1 .. Len(q) \/ i = Len(q) + 1
<1>1. Len(q) \in Nat
  BY LenProperties
<1> QED
  BY <1>1, AppendProperties

\* A broadcast that has not passed the last subscriber may advance.
LEMMA Advances ==
    ASSUME NEW f \in [Threads -> 0 .. N + 1], NEW t \in Threads, f[t] <= N
    PROVE  [f EXCEPT ![t] = @ + 1] \in [Threads -> 0 .. N + 1]
<1>1. f[t] + 1 \in 0 .. N + 1
  BY Indexed
<1> QED
  BY <1>1

\* A broadcast starts at the first subscriber, with a message.
LEMMA Starts ==
    ASSUME Typed, NEW t \in Threads, NEW m \in Messages, StartBroadcast(t, m)
    PROVE  /\ message' \in [Threads -> Messages \cup {Nothing}] /\ position' \in [Threads -> 0 .. N + 1]
           /\ message'[t] = m /\ position'[t] = 1
           /\ \A u \in Threads \ {t} : message'[u] = message[u] /\ position'[u] = position[u]
<1>1. 1 \in 0 .. N + 1
  BY Indexed
<1>2. position \in [Threads -> 0 .. N + 1] /\ message \in [Threads -> Messages \cup {Nothing}]
  BY DEF Typed
<1>3. message' = [message EXCEPT ![t] = m] /\ position' = [position EXCEPT ![t] = 1]
  BY DEF StartBroadcast
<1> QED
  BY ONLY <1>1, <1>2, <1>3, t \in Threads, m \in Messages

-----------------------------------------------------------------------------
(* No message comes twice *)

LEMMA InitUnique == Init => UniqueInv
<1> SUFFICES ASSUME Init PROVE UniqueInv
  OBVIOUS
<1>1. Typed
  <2>1. <<>> \in Seq(Messages) /\ <<>> \in Seq(Range(Subscribers)) /\ Len(<<>>) = 0
    OBVIOUS
  <2>2. inbox \in [Range(Subscribers) -> Seq(Messages)]
    BY <2>1 DEF Init
  <2>3. position \in [Threads -> 0 .. N + 1]
    BY Indexed DEF Init
  <2>4. numSent \in 0 .. EOS /\ numFlushed \in 0 .. EOS
    BY Numbers DEF Init
  <2>5. pc \in [Threads -> ThreadPC] /\ message \in [Threads -> Messages \cup {Nothing}]
        /\ isChannelOpened \in [Range(Subscribers) -> BOOLEAN]
        /\ isBuffering \in BOOLEAN /\ hasRaced \in BOOLEAN
    BY DEF Init, ThreadPC
  <2>6. buffer = <<>> /\ subscribers = <<>>
    BY DEF Init
  <2> QED
    BY <2>1, <2>2, <2>3, <2>4, <2>5, <2>6, Indexed DEF Typed
<1>2. Placed
  BY Indexed, Numbers DEF Init, Placed, Broadcasts, BroadcastPC
<1>3. Numbered
  BY Indexed, Numbers DEF Init, Numbered, Broadcasts, BroadcastPC
<1>4. \A i \in 1 .. N : Received(i)
  BY Indexed DEF Init, Received, Inbox
<1> QED
  BY <1>1, <1>2, <1>3, <1>4 DEF UniqueInv

LEMMA KeepsTyped == UniqueInv /\ Next => Typed'
<1> SUFFICES ASSUME UniqueInv, Next PROVE Typed'
  OBVIOUS
<1> USE DEF UniqueInv, Typed, ThreadPC
<1>1. CASE Push
  <2>1. numSent + 1 \in Messages
    BY <1>1, Numbers DEF Push
  <2> QED
    <3>1. numSent' \in 0 .. EOS
      BY <1>1, <2>1, Numbers DEF Push
    <3>2. position' \in [Threads -> 0 .. N + 1] /\ message' \in [Threads -> Messages \cup {Nothing}]
      <4>1. CASE isBuffering
        BY <1>1, <4>1 DEF Push
      <4>2. CASE ~isBuffering
        BY <1>1, <2>1, <4>2, Numbers, Starts DEF Push
      <4> QED
        BY <4>1, <4>2
    <3>3. hasRaced' \in BOOLEAN
      BY <1>1 DEF Push
    <3> QED
      BY <1>1, <3>1, <3>2, <3>3 DEF Push
<1>2. CASE AppendToBuffer
  <2>1. numSent \in Messages
    BY <1>2, Numbers DEF AppendToBuffer, Goes, Numbered
  <2>2. buffer' \in Seq(Messages)
    BY <1>2, <2>1, AppendProperties DEF AppendToBuffer
  <2> QED
    BY <1>2, <2>2, Numbers DEF AppendToBuffer, Goes, broadcastVars
<1>3. CASE AddSubscriber
  <2> DEFINE s == Subscribers[Len(subscribers) + 1]
  <2>1. s \in Range(Subscribers) /\ Len(subscribers) \in Nat /\ Len(subscribers) + 1 <= N
    BY <1>3, Indexed DEF AddSubscriber, N
  <2>2. subscribers' = Append(subscribers, s)
    BY <1>3 DEF AddSubscriber
  <2> HIDE DEF s
  <2>3. /\ subscribers' \in Seq(Range(Subscribers)) /\ Len(subscribers') = Len(subscribers) + 1
        /\ \A i \in 1 .. Len(subscribers) : subscribers'[i] = subscribers[i]
        /\ subscribers'[Len(subscribers) + 1] = s
        /\ \A i \in 1 .. Len(subscribers') : i \in 1 .. Len(subscribers) \/ i = Len(subscribers) + 1
    BY <2>1, <2>2, Appended
  <2>4. \A i \in 1 .. Len(subscribers') : subscribers'[i] = Subscribers[i]
    BY <2>3 DEF s
  <2>5. Len(subscribers') <= N /\ subscribers' \in Seq(Range(Subscribers))
    BY <2>1, <2>3
  <2> QED
    BY <1>3, <2>4, <2>5 DEF AddSubscriber, broadcastVars
<1>4. CASE StopBuffering
  BY <1>4, Numbers DEF StopBuffering, Goes, broadcastVars
<1>5. CASE FlushNext
  <2>1. buffer[numFlushed + 1] \in Messages /\ numFlushed + 1 \in 0 .. EOS
    BY <1>5, Numbers DEF FlushNext, Goes, Numbered, StartBroadcast
  <2>2. position' \in [Threads -> 0 .. N + 1] /\ message' \in [Threads -> Messages \cup {Nothing}]
    BY <1>5, <2>1, Numbers, Starts DEF FlushNext
  <2> QED
    BY <1>5, <2>1, <2>2, Numbers DEF FlushNext, Goes
<1>6. CASE FlushEnds
  BY <1>6, Numbers DEF FlushEnds, Goes, broadcastVars
<1>7. CASE ClearBuffer
  BY <1>7, Numbers DEF ClearBuffer, Goes, broadcastVars
<1>8. ASSUME NEW t \in Threads, TestChannel(t) PROVE Typed'
  <2>1. position[t] \in 1 .. N + 1 /\ Len(subscribers) = N
    BY <1>8, AtPosition DEF TestChannel, Broadcasts, BroadcastPC
  <2> QED
    <3>1. position' \in [Threads -> 0 .. N + 1]
      <4>1. CASE position[t] <= N
        <5>1. position' = [position EXCEPT ![t] = @ + 1] \/ position' = position
          BY <1>8 DEF TestChannel
        <5>2. [position EXCEPT ![t] = @ + 1] \in [Threads -> 0 .. N + 1]
          BY <4>1, Advances
        <5> QED
          BY <5>1, <5>2
      <4>2. CASE position[t] > Len(subscribers)
        BY <1>8, <4>2 DEF TestChannel
      <4> QED
        BY <2>1, <4>1, <4>2, Indexed
    <3>2. pc' \in [Threads -> ThreadPC] /\ message' \in [Threads -> Messages \cup {Nothing}]
      BY <1>8 DEF TestChannel, Goes
    <3> QED
      BY <1>8, <3>1, <3>2 DEF TestChannel
<1>9. ASSUME NEW t \in Threads, Deliver(t) PROVE Typed'
  <2>1. position' \in [Threads -> 0 .. N + 1]
    <3>1. position[t] <= N
      BY <1>9, DeliverAppends, Indexed
    <3>2. position' = [position EXCEPT ![t] = @ + 1] \/ position' = position
      BY <1>9 DEF Deliver
    <3>3. position \in [Threads -> 0 .. N + 1]
      OBVIOUS
    <3>4. [position EXCEPT ![t] = @ + 1] \in [Threads -> 0 .. N + 1]
      BY ONLY <3>1, <3>3, t \in Threads, Advances
    <3> QED
      BY ONLY <3>2, <3>3, <3>4
  <2>2. pc' \in [Threads -> ThreadPC]
    BY <1>9 DEF Deliver, Goes
  <2> QED
    BY <1>9, <2>1, <2>2, DeliverAppends DEF Deliver
<1>10. ASSUME NEW t \in Threads, ShutChannel(t) PROVE Typed'
  <2>1. position[t] \in 1 .. N
    BY <1>10, AtPosition DEF ShutChannel, Goes, Broadcasts, BroadcastPC, Placed
  <2> QED
    <3>1. position' \in [Threads -> 0 .. N + 1]
      BY <1>10, <2>1, Indexed, Advances DEF ShutChannel
    <3>2. pc' \in [Threads -> ThreadPC] /\ isChannelOpened' \in [Range(Subscribers) -> BOOLEAN]
      BY <1>10 DEF ShutChannel, Goes
    <3> QED
      BY <1>10, <3>1, <3>2 DEF ShutChannel
<1> QED
  BY <1>1, <1>2, <1>3, <1>4, <1>5, <1>6, <1>7, <1>8, <1>9, <1>10, Numbers
     DEF Next, ProducerNext, ConnectorNext, Broadcast

LEMMA KeepsPlaced == UniqueInv /\ Next => Placed'
<1> SUFFICES ASSUME UniqueInv, Next PROVE Placed'
  OBVIOUS
<1> USE DEF UniqueInv, Placed, Broadcasts, BroadcastPC
<1>0. Typed /\ Len(subscribers) \in Nat
  BY DEF Typed
<1>1. CASE Push
  <2>1. numSent + 1 \in Messages
    BY <1>0, <1>1, Numbers DEF Push, Typed
  <2>2. CASE isBuffering
    BY <1>0, <1>1, <2>2, Numbers DEF Push, Typed
  <2>3. CASE ~isBuffering
    <3>1. StartBroadcast(Producer, numSent + 1) /\ pc' = [pc EXCEPT ![Producer] = "test"]
          /\ UNCHANGED <<isBuffering, subscribers>>
      BY <1>1, <2>3 DEF Push
    <3>2. pc'[Producer] = "test" /\ pc'[Connector] = pc[Connector]
      BY <1>0, <3>1, Numbers DEF Typed
    <3>3. /\ message'[Producer] = numSent + 1 /\ position'[Producer] = 1
          /\ message'[Connector] = message[Connector] /\ position'[Connector] = position[Connector]
      BY <1>0, <2>1, <3>1, Numbers, Starts
    <3>4. numSent + 1 # Nothing
      BY <2>1, Numbers
    <3> QED
      BY <2>3, <3>1, <3>2, <3>3, <3>4, Numbers
  <2> QED
    BY <2>2, <2>3
<1>2. CASE AppendToBuffer
  BY <1>0, <1>2, Numbers DEF AppendToBuffer, Goes, broadcastVars, Typed
<1>3. CASE AddSubscriber
  BY <1>0, <1>3, Numbers DEF AddSubscriber, broadcastVars, Typed
<1>4. CASE StopBuffering
  BY <1>0, <1>4, Numbers DEF StopBuffering, Goes, broadcastVars, Typed, N
<1>5. CASE FlushNext
  <2>1. buffer[numFlushed + 1] \in Messages
    BY <1>0, <1>5, Numbers DEF FlushNext, Goes, Numbered, Typed
  <2> DEFINE m == buffer[numFlushed + 1]
  <2>2. /\ StartBroadcast(Connector, m) /\ pc[Connector] = "flush"
        /\ pc' = [pc EXCEPT ![Connector] = "test"] /\ UNCHANGED <<isBuffering, subscribers>>
    BY <1>5 DEF FlushNext, Goes
  <2>3. pc'[Connector] = "test" /\ pc'[Producer] = pc[Producer]
    BY <1>0, <2>2, Numbers DEF Typed
  <2> HIDE DEF m
  <2>4. /\ message'[Connector] = m /\ position'[Connector] = 1
        /\ message'[Producer] = message[Producer] /\ position'[Producer] = position[Producer]
    BY <1>0, <2>1, <2>2, Numbers, Starts DEF m
  <2>5. m # Nothing
    BY <2>1, Numbers DEF m
  <2> QED
    BY <2>2, <2>3, <2>4, <2>5, Numbers
<1>6. CASE FlushEnds
  BY <1>0, <1>6, Numbers DEF FlushEnds, Goes, broadcastVars, Typed
<1>7. CASE ClearBuffer
  BY <1>0, <1>7, Numbers DEF ClearBuffer, Goes, broadcastVars, Typed
<1>8. ASSUME NEW t \in Threads, TestChannel(t) PROVE Placed'
  <2>1. position[t] \in 1 .. N + 1 /\ Len(subscribers) = N /\ ~isBuffering
    BY <1>0, <1>8, AtPosition DEF TestChannel
  <2>2. /\ pc'[t] \in {"idle", "flush", "test", "deliver"}
        /\ pc'[t] = "idle" => t = Producer
        /\ pc'[t] = "flush" => t = Connector
        /\ message'[t] # Nothing <=> Broadcasts(t)'
        /\ Broadcasts(t)' => position'[t] >= 1
        /\ pc'[t] = "deliver" => position'[t] <= N
    BY <1>0, <1>8, <2>1, Numbers DEF TestChannel, Goes, Typed
  <2>3. \A u \in Threads \ {t} : pc'[u] = pc[u] /\ message'[u] = message[u] /\ position'[u] = position[u]
    BY <1>0, <1>8 DEF TestChannel, Goes, Typed
  <2> QED
    BY <1>0, <1>8, <2>1, <2>2, <2>3, Numbers DEF TestChannel
<1>9. ASSUME NEW t \in Threads, Deliver(t) PROVE Placed'
  <2>1. position[t] \in 1 .. N /\ ~isBuffering /\ message[t] \in Messages
    BY <1>0, <1>9, DeliverAppends, AtPosition DEF Deliver, Goes
  <2>2. /\ pc'[t] \in {"test", "shut"}
        /\ pc'[t] = "shut" => message[t] = EOS /\ position'[t] <= N
        /\ position'[t] >= 1 /\ message[t] # Nothing
    BY <1>0, <1>9, <2>1, Numbers DEF Deliver, Goes, Typed
  <2>3. \A u \in Threads \ {t} : pc'[u] = pc[u] /\ position'[u] = position[u]
    BY <1>0, <1>9 DEF Deliver, Goes, Typed
  <2> QED
    BY <1>0, <1>9, <2>1, <2>2, <2>3, Numbers DEF Deliver
<1>10. ASSUME NEW t \in Threads, ShutChannel(t) PROVE Placed'
  <2>1. position[t] \in 1 .. N /\ ~isBuffering
    BY <1>0, <1>10, AtPosition DEF ShutChannel, Goes
  <2> QED
    BY <1>0, <1>10, <2>1, Indexed, Numbers DEF ShutChannel, Goes, Typed
<1> QED
  BY <1>1, <1>2, <1>3, <1>4, <1>5, <1>6, <1>7, <1>8, <1>9, <1>10, Numbers
     DEF Next, ProducerNext, ConnectorNext, Broadcast

LEMMA KeepsNumbered == UniqueInv /\ Next => Numbered'
<1> SUFFICES ASSUME UniqueInv, Next PROVE Numbered'
  OBVIOUS
<1> USE DEF UniqueInv, Numbered, Broadcasts, BroadcastPC
<1>0. /\ Typed /\ Placed /\ Len(buffer) \in Nat /\ numSent \in Nat /\ numFlushed \in Nat
  BY Numbers DEF Typed
<1>1. CASE Push
  BY <1>0, <1>1, Numbers DEF Push, StartBroadcast, Typed, Placed
<1>2. CASE AppendToBuffer
  <2>1. /\ Len(buffer') = Len(buffer) + 1
        /\ \A i \in 1 .. Len(buffer) : buffer'[i] = buffer[i]
        /\ buffer'[Len(buffer) + 1] = numSent
    <3>1. numSent \in Messages
      BY <1>0, <1>2, Numbers DEF AppendToBuffer, Goes, Typed
    <3> QED
      BY <1>0, <1>2, <3>1, AppendProperties DEF AppendToBuffer, Typed
  <2>2. \A i \in 1 .. Len(buffer') : i \in 1 .. Len(buffer) \/ i = Len(buffer) + 1
    BY <2>1, <1>0
  <2>3. /\ pc[Producer] = "append" /\ pc'[Producer] = "idle" /\ pc'[Connector] = pc[Connector]
        /\ UNCHANGED <<isBuffering, message, numSent, numFlushed>>
    BY <1>0, <1>2, Numbers DEF AppendToBuffer, Goes, broadcastVars, Typed
  <2>4. pc[Connector] # "done" => \A i \in 1 .. Len(buffer') : buffer'[i] = i
    BY <1>0, <2>1, <2>2, <2>3
  <2> QED
    BY <1>0, <2>1, <2>3, <2>4
<1>3. CASE AddSubscriber
  BY <1>0, <1>3 DEF AddSubscriber, broadcastVars
<1>4. CASE StopBuffering
  BY <1>0, <1>4, Numbers DEF StopBuffering, Goes, broadcastVars, Typed, Placed
<1>5. CASE FlushNext
  <2>1. buffer[numFlushed + 1] = numFlushed + 1
    BY <1>0, <1>5 DEF FlushNext, Goes
  <2> QED
    BY <1>0, <1>5, <2>1, Numbers DEF FlushNext, Goes, StartBroadcast, Typed, Placed
<1>6. CASE FlushEnds
  BY <1>0, <1>6, Numbers DEF FlushEnds, Goes, broadcastVars, Typed
<1>7. CASE ClearBuffer
  BY <1>0, <1>7, Numbers DEF ClearBuffer, Goes, broadcastVars, Typed
<1>8. ASSUME NEW t \in Threads, TestChannel(t) PROVE Numbered'
  <2>1. /\ UNCHANGED <<isBuffering, buffer, numSent, numFlushed>> /\ pc[t] = "test"
        /\ \/ UNCHANGED <<pc, message>>
           \/ pc' = [pc EXCEPT ![t] = "deliver"] /\ UNCHANGED message
           \/ /\ pc' = [pc EXCEPT ![t] = IF t = Producer THEN "idle" ELSE "flush"]
              /\ message' = [message EXCEPT ![t] = Nothing]
    BY <1>8 DEF TestChannel, Goes
  <2>2. /\ \A u \in Threads \ {t} : pc'[u] = pc[u] /\ message'[u] = message[u]
        /\ \/ pc'[t] \in BroadcastPC /\ message'[t] = message[t]
           \/ t = Producer /\ pc'[t] = "idle"
           \/ t = Connector /\ pc'[t] = "flush"
    BY <1>0, <2>1, Numbers DEF Typed
  <2>3. isBuffering => pc[Producer] \in {"idle", "append"} /\ pc[Connector] = "idle"
    BY DEF Placed
  <2> QED
    BY <1>0, <2>1, <2>2, <2>3, Numbers
<1>9. ASSUME NEW t \in Threads, Deliver(t) PROVE Numbered'
  BY <1>0, <1>9, Numbers DEF Deliver, Goes, Typed
<1>10. ASSUME NEW t \in Threads, ShutChannel(t) PROVE Numbered'
  BY <1>0, <1>10, Numbers DEF ShutChannel, Goes, Typed
<1> QED
  BY <1>1, <1>2, <1>3, <1>4, <1>5, <1>6, <1>7, <1>8, <1>9, <1>10, Numbers
     DEF Next, ProducerNext, ConnectorNext, Broadcast

LEMMA KeepsReceived == UniqueInv /\ Next => \A i \in 1 .. N : Received(i)'
<1> SUFFICES ASSUME UniqueInv, Next, NEW i \in 1 .. N PROVE Received(i)'
  OBVIOUS
<1> USE DEF Received, Pending, Broadcasts, BroadcastPC
<1>0. /\ Typed /\ Placed /\ Numbered /\ Received(i)
      /\ Len(buffer) \in Nat /\ numSent \in Nat /\ numFlushed \in Nat
      /\ Inbox(i) \in Seq(Messages) /\ Len(Inbox(i)) \in Nat
      /\ \A j \in 1 .. Len(Inbox(i)) : Inbox(i)[j] \in Nat
  <2>1. Typed /\ Placed /\ Numbered /\ Received(i)
    BY DEF UniqueInv
  <2>2. Inbox(i) \in Seq(Messages) /\ Len(Inbox(i)) \in Nat
        /\ \A j \in 1 .. Len(Inbox(i)) : Inbox(i)[j] \in Messages
    BY <2>1, Inboxes
  <2> QED
    BY <2>1, <2>2, Numbers DEF Typed
<1>1. CASE Push
  <2>1. Inbox(i)' = Inbox(i)
    BY <1>1 DEF Push, Inbox
  <2>2. CASE isBuffering
    BY <1>0, <1>1, <2>1, <2>2 DEF Push
  <2>3. CASE ~isBuffering
    <3>1. /\ numSent' = numSent + 1 /\ UNCHANGED <<isBuffering, buffer, numFlushed>>
          /\ pc'[Producer] = "test" /\ pc'[Connector] = pc[Connector]
          /\ message'[Producer] = numSent + 1 /\ message'[Connector] = message[Connector]
          /\ position'[Connector] = position[Connector] /\ pc[Producer] = "idle"
      BY <1>0, <1>1, <2>3, Numbers DEF Push, StartBroadcast, Typed
    <3>2. Pending(Connector, i)' => Pending(Connector, i)
      BY <3>1
    <3>3. \A j \in 1 .. Len(Inbox(i)) :
             /\ Inbox(i)[j] <= numSent
             /\ Inbox(i)[j] > numFlushed /\ pc[Connector] # "done" => Inbox(i)[j] > Len(buffer)
             /\ Pending(Connector, i)' => Inbox(i)[j] # message'[Connector]
      BY <1>0, <3>1, <3>2, Numbers
    <3>4. ASSUME NEW j \in 1 .. Len(Inbox(i)), NEW u \in Threads, Pending(u, i)'
          PROVE  Inbox(i)[j] # message'[u]
      <4>1. Inbox(i)[j] \in Nat /\ Inbox(i)[j] <= numSent
        BY <1>0, <3>3
      <4>2. u = Producer \/ u = Connector
        BY Numbers
      <4> QED
        BY <1>0, <3>1, <3>3, <3>4, <4>1, <4>2
    <3>5. \A j \in 1 .. Len(Inbox(i)) : Inbox(i)[j] <= numSent'
      BY <1>0, <3>1, <3>3
    <3>6. pc'[Producer] # "append" /\ (pc'[Connector] = "done" <=> pc[Connector] = "done")
      BY <3>1
    <3>7. \A j, k \in 1 .. Len(Inbox(i)) : Inbox(i)[j] = Inbox(i)[k] => j = k
      BY <1>0
    <3>8. ~isBuffering' /\ UNCHANGED <<numFlushed, buffer>>
      BY <2>3, <3>1
    <3>9. \A j \in 1 .. Len(Inbox(i)) :
             Inbox(i)[j] > numFlushed /\ pc[Connector] # "done" => Inbox(i)[j] > Len(buffer)
      BY <3>3
    <3> HIDE DEF Pending
    <3> QED
      BY ONLY <2>1, <3>4, <3>5, <3>6, <3>7, <3>8, <3>9 DEF Received
  <2> QED
    BY <2>2, <2>3
<1>2. CASE AppendToBuffer
  <2>1. Inbox(i)' = Inbox(i)
    BY <1>2 DEF AppendToBuffer, Inbox, broadcastVars
  <2> QED
    <3>1. /\ pc[Producer] = "append" /\ pc'[Producer] = "idle" /\ pc'[Connector] = pc[Connector]
          /\ UNCHANGED <<isBuffering, message, position, numSent, numFlushed>>
      BY <1>0, <1>2, Numbers DEF AppendToBuffer, Goes, broadcastVars, Typed
    <3>2. \A u \in Threads : Pending(u, i)' => Pending(u, i)
      BY <3>1, Numbers
    <3>3. \A j \in 1 .. Len(Inbox(i)) : ~(Inbox(i)[j] > numFlushed)
      BY <1>0, <3>1
    <3> QED
      BY <1>0, <2>1, <3>1, <3>2, <3>3
<1>3. CASE AddSubscriber
  <2>1. Inbox(i)' = Inbox(i)
    BY <1>3 DEF AddSubscriber, Inbox, broadcastVars
  <2> QED
    BY <1>0, <1>3, <2>1 DEF AddSubscriber, broadcastVars
<1>4. CASE StopBuffering
  <2>1. Inbox(i)' = Inbox(i) /\ Inbox(i) = <<>> /\ isBuffering /\ ~isBuffering'
    BY <1>0, <1>4 DEF StopBuffering, Inbox, broadcastVars, Goes, Placed
  <2> QED
    BY <2>1
<1>5. CASE FlushNext
  <2>1. Inbox(i)' = Inbox(i)
    BY <1>5 DEF FlushNext, Inbox
  <2>2. buffer[numFlushed + 1] = numFlushed + 1 /\ pc[Connector] = "flush"
    BY <1>0, <1>5 DEF FlushNext, Goes, Numbered
  <2> QED
    <3>1. /\ numFlushed' = numFlushed + 1 /\ numFlushed < Len(buffer)
          /\ pc'[Connector] = "test" /\ pc'[Producer] = pc[Producer]
          /\ message'[Connector] = numFlushed + 1 /\ message'[Producer] = message[Producer]
          /\ position'[Producer] = position[Producer]
          /\ UNCHANGED <<isBuffering, buffer, numSent>>
      BY <1>0, <1>5, <2>2, Numbers DEF FlushNext, Goes, StartBroadcast, Typed
    <3>2. Pending(Producer, i)' => Pending(Producer, i)
      BY <3>1
    <3>3. \A j \in 1 .. Len(Inbox(i)) : Inbox(i)[j] # numFlushed + 1
      BY <1>0, <2>2, <3>1
    <3>4. \A j \in 1 .. Len(Inbox(i)), u \in Threads : Pending(u, i)' => Inbox(i)[j] # message'[u]
      <4>1. \A j \in 1 .. Len(Inbox(i)) : Pending(Producer, i) => Inbox(i)[j] # message[Producer]
        BY <1>0, Numbers
      <4> QED
        BY <3>1, <3>2, <3>3, <4>1, Numbers
    <3>5. \A j \in 1 .. Len(Inbox(i)) : Inbox(i)[j] > numFlushed' => Inbox(i)[j] > numFlushed
      BY <1>0, <3>1
    <3>6. \A j \in 1 .. Len(Inbox(i)) :
             /\ Inbox(i)[j] <= numSent'
             /\ Inbox(i)[j] > numFlushed' =>
                   /\ pc'[Producer] # "append"
                   /\ pc'[Connector] # "done" => Inbox(i)[j] > Len(buffer')
             /\ \A k \in 1 .. Len(Inbox(i)) : Inbox(i)[j] = Inbox(i)[k] => j = k
      BY <1>0, <2>2, <3>1, <3>5
    <3>7. isBuffering' => Inbox(i) = <<>>
      BY <1>0, <3>1
    <3> QED
      BY <2>1, <3>4, <3>6, <3>7
<1>6. CASE FlushEnds
  <2>1. Inbox(i)' = Inbox(i)
    BY <1>6 DEF FlushEnds, Inbox, broadcastVars
  <2> QED
    BY <1>0, <1>6, <2>1, Numbers DEF FlushEnds, Goes, broadcastVars, Typed
<1>7. CASE ClearBuffer
  <2>1. Inbox(i)' = Inbox(i)
    BY <1>7 DEF ClearBuffer, Inbox, broadcastVars
  <2> QED
    BY <1>0, <1>7, <2>1, Numbers DEF ClearBuffer, Goes, broadcastVars, Typed
<1>8. ASSUME NEW t \in Threads, TestChannel(t) PROVE Received(i)'
  <2>1. Inbox(i)' = Inbox(i)
    BY <1>8 DEF TestChannel, Inbox
  <2>2. \A u \in Threads : Pending(u, i)' => Pending(u, i) /\ message'[u] = message[u]
    <3>1. \A u \in Threads \ {t} : Pending(u, i)' => Pending(u, i) /\ message'[u] = message[u]
      BY <1>0, <1>8 DEF TestChannel, Goes, Typed
    <3>2. position[t] \in Nat /\ position'[t] \in {position[t], position[t] + 1} /\ pc[t] = "test"
          /\ (Broadcasts(t)' => message'[t] = message[t])
      BY <1>0, <1>8, Indexed, Numbers DEF TestChannel, Goes, Typed
    <3>3. Pending(t, i)' => Pending(t, i) /\ message'[t] = message[t]
      BY <3>2, Indexed
    <3> QED
      BY <3>1, <3>3
  <2>3. (pc'[Connector] = "done" <=> pc[Connector] = "done") /\ (pc'[Producer] = "append" <=> pc[Producer] = "append")
    BY <1>0, <1>8, Numbers DEF TestChannel, Goes, Typed
  <2> QED
    BY <1>0, <1>8, <2>1, <2>2, <2>3 DEF TestChannel
<1>9. ASSUME NEW t \in Threads, Deliver(t) PROVE Received(i)'
  <2> DEFINE m == message[t]
  <2>1. /\ Inbox(i)' = IF i = position[t] THEN Append(Inbox(i), m) ELSE Inbox(i)
        /\ m \in Messages /\ position[t] \in 1 .. N /\ ~isBuffering /\ Broadcasts(t)
    BY <1>0, <1>9, DeliverAppends, AtPosition DEF Deliver, Goes
  <2>2. /\ \A u \in Threads : Pending(u, i)' => Pending(u, i) /\ (i = position[t] => u # t)
        /\ (pc'[Connector] = "done" <=> pc[Connector] = "done")
        /\ (pc'[Producer] = "append" <=> pc[Producer] = "append")
    BY <1>0, <1>9, <2>1, Numbers, Indexed DEF Deliver, Goes, Typed
  <2>3. UNCHANGED <<isBuffering, buffer, message, numSent, numFlushed>>
    BY <1>9 DEF Deliver
  <2>4. CASE i # position[t]
    BY <1>0, <2>1, <2>2, <2>3, <2>4
  <2>5. CASE i = position[t]
    <3>1. Pending(t, i)
      BY <1>9, <2>1, <2>5 DEF Deliver, Goes
    <3>2. \A j \in 1 .. Len(Inbox(i)) : Inbox(i)[j] # m
      BY <1>0, <3>1
    <3>12. \/ t = Connector /\ m = numFlushed
          \/ /\ t = Producer /\ m = numSent /\ pc[Producer] # "append"
             /\ pc[Connector] # "done" => numSent > Len(buffer)
      <4>1. CASE t = Connector
        BY <1>0, <2>1, <4>1 DEF Numbered
      <4>2. CASE t = Producer
        BY <1>0, <2>1, <4>2 DEF Numbered
      <4> QED
        BY <4>1, <4>2, Numbers
    <3>3. m \in Nat /\ m <= numSent
      BY <1>0, <3>12 DEF Numbered
    <3>4. m > numFlushed => /\ pc[Producer] # "append"
                            /\ pc[Connector] # "done" => m > Len(buffer)
      BY <1>0, <3>12
    <3>5. \A u \in Threads : Pending(u, i)' => m # message[u]
      <4> SUFFICES ASSUME NEW u \in Threads, Pending(u, i)' PROVE m # message[u]
        OBVIOUS
      <4>1. u # t /\ Broadcasts(u) /\ Broadcasts(t)
        BY <2>1, <2>2, <2>5
      <4>2. message[Connector] = numFlushed /\ message[Producer] = numSent /\ numFlushed < numSent
        BY <1>0, <4>1, Numbers DEF Numbered
      <4>3. message[u] # message[t]
        <5>1. (u = Producer /\ t = Connector) \/ (u = Connector /\ t = Producer)
          BY <4>1, Numbers
        <5>2. message[Connector] # message[Producer]
          BY <1>0, <4>2
        <5> QED
          BY <5>1, <5>2
      <4> QED
        BY <4>3
    <3> DEFINE q == Inbox(i)
    <3>6. /\ Len(Append(q, m)) = Len(q) + 1
          /\ \A j \in 1 .. Len(q) : Append(q, m)[j] = q[j]
          /\ Append(q, m)[Len(q) + 1] = m
          /\ \A j \in 1 .. Len(q) + 1 : j \in 1 .. Len(q) \/ j = Len(q) + 1
      BY <1>0, <2>1, Appended
    <3>7. Inbox(i)' = Append(q, m)
      BY <2>1, <2>5
    <3> HIDE DEF q, m
    <3>8. /\ \A j \in 1 .. Len(q) :
                /\ q[j] <= numSent
                /\ q[j] > numFlushed => /\ pc[Producer] # "append"
                                        /\ pc[Connector] # "done" => q[j] > Len(buffer)
                /\ \A u \in Threads : Pending(u, i) => q[j] # message[u]
                /\ \A k \in 1 .. Len(q) : q[j] = q[k] => j = k
      BY <1>0 DEF q
    <3>9. \A j \in 1 .. Len(q) : q[j] # m
      BY <3>2 DEF q
    <3>10. \A j, k \in 1 .. Len(q) + 1 : Append(q, m)[j] = Append(q, m)[k] => j = k
      BY <3>6, <3>8, <3>9
    <3>11. \A j \in 1 .. Len(q) + 1 :
                /\ Append(q, m)[j] <= numSent
                /\ Append(q, m)[j] > numFlushed =>
                       /\ pc[Producer] # "append"
                       /\ pc[Connector] # "done" => Append(q, m)[j] > Len(buffer)
                /\ \A u \in Threads : Pending(u, i)' => Append(q, m)[j] # message[u]
      BY <2>2, <3>3, <3>4, <3>5, <3>6, <3>8
    <3> QED
      BY <2>1, <2>2, <2>3, <3>6, <3>7, <3>10, <3>11
  <2> QED
    BY <2>4, <2>5
<1>10. ASSUME NEW t \in Threads, ShutChannel(t) PROVE Received(i)'
  <2>1. Inbox(i)' = Inbox(i)
    BY <1>10 DEF ShutChannel, Inbox
  <2>2. /\ \A u \in Threads : Pending(u, i)' => Pending(u, i)
        /\ (pc'[Connector] = "done" <=> pc[Connector] = "done")
        /\ (pc'[Producer] = "append" <=> pc[Producer] = "append")
    <3>1. /\ pc[t] = "shut" /\ pc' = [pc EXCEPT ![t] = "test"]
          /\ position' = [position EXCEPT ![t] = @ + 1]
      BY <1>10 DEF ShutChannel, Goes
    <3>2. pc'[t] = "test" /\ position'[t] = position[t] + 1 /\ position[t] \in Int /\ i \in Int
          /\ \A u \in Threads \ {t} : pc'[u] = pc[u] /\ position'[u] = position[u]
      BY <1>0, <3>1, Indexed DEF Typed
    <3> QED
      BY <3>1, <3>2, Numbers
  <2> QED
    BY <1>0, <1>10, <2>1, <2>2 DEF ShutChannel
<1> QED
  BY <1>1, <1>2, <1>3, <1>4, <1>5, <1>6, <1>7, <1>8, <1>9, <1>10, Numbers
     DEF Next, ProducerNext, ConnectorNext, Broadcast

LEMMA UniqueInvariance == Spec => []UniqueInv
<1>1. UniqueInv /\ [Next]_vars => UniqueInv'
  <2> SUFFICES ASSUME UniqueInv, [Next]_vars PROVE UniqueInv'
    OBVIOUS
  <2>1. CASE Next
    BY <2>1, KeepsTyped, KeepsPlaced, KeepsNumbered, KeepsReceived DEF UniqueInv
  <2>2. CASE UNCHANGED vars
    BY <2>2 DEF vars, UniqueInv, Typed, Placed, Numbered, Received, Inbox, Pending, Broadcasts
  <2> QED
    BY <2>1, <2>2
<1> QED
  BY <1>1, InitUnique, PTL DEF Spec

\* The types of the buffer: subscribers_ is a prefix of the receivers, buffering ends
\* exactly when stopBuffering begins, and a thread has a message while it broadcasts.
THEOREM TypeCorrect == Spec => []TypeOK
<1>1. UniqueInv => TypeOK
  <2> SUFFICES ASSUME UniqueInv PROVE TypeOK
    OBVIOUS
  <2>1. Typed /\ Placed
    BY DEF UniqueInv
  <2>2. IsPrefix(subscribers, Subscribers)
    <3>1. Len(subscribers) \in Nat /\ Len(subscribers) <= N /\ N = Len(Subscribers)
      BY <2>1 DEF Typed, N
    <3>2. subscribers = SubSeq(subscribers, 1, Len(subscribers))
      BY <2>1, <3>1 DEF Typed
    <3>3. SubSeq(Subscribers, 1, Len(subscribers)) = SubSeq(subscribers, 1, Len(subscribers))
      BY <2>1, <3>1 DEF Typed
    <3> QED
      BY <3>1, <3>2, <3>3 DEF IsPrefix
  <2>3. \A t \in Threads : message[t] # Nothing <=> pc[t] \in {"test", "deliver", "shut"}
    BY <2>1 DEF Placed, Broadcasts, BroadcastPC
  <2> QED
    BY <2>1, <2>2, <2>3 DEF TypeOK, Typed, Placed, N
<1> QED
  BY <1>1, UniqueInvariance, PTL

\* However push and stopBuffering interleave, no subscriber gets a message twice: the
\* flush and the producer never have the same message to broadcast (AnswerBuffer.cpp:17).
THEOREM UniqueSafe == Spec => []NoDuplicates
<1>1. UniqueInv => NoDuplicates
  <2> SUFFICES ASSUME UniqueInv, NEW s \in Range(Subscribers) PROVE IsInjective(inbox[s])
    BY DEF NoDuplicates
  <2>1. PICK i \in 1 .. N : s = Subscribers[i]
    BY Indexed
  <2>2. Received(i) /\ Inbox(i) = inbox[s] /\ Inbox(i) \in Seq(Messages)
    BY <2>1, Inboxes DEF UniqueInv, Inbox
  <2>3. DOMAIN inbox[s] = 1 .. Len(inbox[s])
    BY <2>2, LenProperties
  <2> QED
    BY <2>2, <2>3 DEF Received, IsInjective
<1> QED
  BY <1>1, UniqueInvariance, PTL

-----------------------------------------------------------------------------
(* Without a race the order is kept *)

LEMMA InitOrder == Init => OrderInv
<1> SUFFICES ASSUME Init PROVE OrderInv
  OBVIOUS
<1>1. \A i \in 1 .. N : Inbox(i) = <<>> /\ isChannelOpened[Subscribers[i]]
  BY Indexed DEF Init, Inbox
<1>2. \A i \in 1 .. N : Reached(i) = 0
  BY Numbers DEF Init, Reached, Pending, Broadcasts, BroadcastPC
<1>3. pc[Producer] = "idle" /\ pc[Connector] = "idle" /\ Len(buffer) = 0 /\ numSent = 0
  BY Numbers DEF Init
<1> QED
  BY <1>1, <1>2, <1>3 DEF OrderInv, InOrder, Broadcasts, BroadcastPC

\* A subscriber whose inbox and channel are left as they are stays in order when
\* what it should have is the same.
LEMMA OrderStays ==
    ASSUME NEW i, InOrder(i), Inbox(i)' = Inbox(i), Reached(i)' = Reached(i),
           isChannelOpened' = isChannelOpened
    PROVE  InOrder(i)'
BY DEF InOrder

LEMMA KeepsOrder == UniqueInv /\ OrderInv /\ Next => OrderInv'
<1> SUFFICES ASSUME UniqueInv, OrderInv, Next, ~hasRaced' PROVE OrderInv'
  BY DEF OrderInv
<1> USE DEF Broadcasts, BroadcastPC
<1>0. /\ Typed /\ Placed /\ Numbered
      /\ Len(buffer) \in Nat /\ numSent \in Nat /\ numFlushed \in Nat
      /\ \A i \in 1 .. N : Inbox(i) \in Seq(Messages) /\ Len(Inbox(i)) \in Nat
  BY Numbers, Inboxes DEF UniqueInv, Typed
<1>a. ~hasRaced
  BY DEF Next, ProducerNext, ConnectorNext, Broadcast, Push, AppendToBuffer, TestChannel, Deliver,
         ShutChannel, AddSubscriber, StopBuffering, FlushNext, FlushEnds, ClearBuffer
<1>b. /\ Broadcasts(Producer) => pc[Connector] = "done"
      /\ pc[Connector] # "done" /\ pc[Producer] = "idle" => Len(buffer) = numSent
      /\ pc[Connector] = "clear" => numFlushed = Len(buffer)
      /\ \A i \in 1 .. N : InOrder(i)
  BY <1>a DEF OrderInv
<1>1. CASE Push
  <2>1. \A i \in 1 .. N : Inbox(i)' = Inbox(i)
    BY <1>1 DEF Push, Inbox
  <2>2. CASE isBuffering
    <3>1. /\ pc'[Producer] = "append" /\ pc[Producer] = "idle" /\ pc'[Connector] = pc[Connector]
          /\ pc[Connector] = "idle"
          /\ UNCHANGED <<position, buffer, numFlushed, isChannelOpened>>
      BY <1>0, <1>1, <2>2, Numbers DEF Push, Typed, Placed
    <3>2. \A i \in 1 .. N : Reached(i)' = Reached(i)
      BY <3>1 DEF Reached, Pending
    <3> QED
      BY <1>b, <2>1, <3>1, <3>2, OrderStays DEF OrderInv
  <2>3. CASE ~isBuffering
    <3>1. /\ pc'[Producer] = "test" /\ pc[Producer] = "idle" /\ pc'[Connector] = pc[Connector]
          /\ position'[Producer] = 1 /\ numSent' = numSent + 1 /\ isChannelOpened' = isChannelOpened
      BY <1>0, <1>1, <2>3, Numbers DEF Push, StartBroadcast, Typed
    <3>2. pc[Connector] = "done"
      BY <1>0, <1>1, <2>3, Numbers DEF Push, IsFlushing, Placed, Typed, ThreadPC
    <3>3. \A i \in 1 .. N : Reached(i) = numSent /\ Reached(i)' = numSent
      BY <1>0, <3>1, <3>2, Indexed DEF Reached, Pending
    <3> QED
      BY <1>b, <2>1, <3>1, <3>2, <3>3, OrderStays DEF OrderInv
  <2> QED
    BY <2>2, <2>3
<1>2. CASE AppendToBuffer
  <2>1. \A i \in 1 .. N : Inbox(i)' = Inbox(i)
    BY <1>2 DEF AppendToBuffer, Inbox, broadcastVars
  <2>2. /\ pc[Producer] = "append" /\ pc'[Producer] = "idle" /\ pc'[Connector] = pc[Connector]
        /\ pc[Connector] = "idle"
        /\ UNCHANGED <<position, numSent, numFlushed, isChannelOpened>>
    BY <1>0, <1>2, Numbers DEF AppendToBuffer, Goes, broadcastVars, Typed, Placed
  <2>3. Len(buffer') = Len(buffer) + 1 /\ Len(buffer) = numSent - 1
    <3>1. numSent \in Messages
      BY <1>0, <2>2, Numbers DEF Numbered, Typed
    <3> QED
      BY <1>0, <1>2, <2>2, <3>1, Appended DEF AppendToBuffer, Typed, Numbered
  <2>4. \A i \in 1 .. N : Reached(i)' = Reached(i)
    BY <2>2 DEF Reached, Pending
  <2> QED
    BY <1>0, <1>b, <2>1, <2>2, <2>3, <2>4, OrderStays DEF OrderInv
<1>3. CASE AddSubscriber
  <2>1. \A i \in 1 .. N : Inbox(i)' = Inbox(i) /\ Reached(i)' = Reached(i)
    BY <1>3 DEF AddSubscriber, Inbox, broadcastVars, Reached, Pending
  <2> QED
    BY <1>3, <1>b, <2>1, OrderStays DEF AddSubscriber, broadcastVars, OrderInv
<1>4. CASE StopBuffering
  <2>1. \A i \in 1 .. N : Inbox(i)' = Inbox(i)
    BY <1>4 DEF StopBuffering, Inbox, broadcastVars
  <2>2. /\ pc[Connector] = "idle" /\ pc'[Connector] = "flush" /\ pc'[Producer] = pc[Producer]
        /\ UNCHANGED <<position, numSent, numFlushed, isChannelOpened, buffer>>
    BY <1>0, <1>4, Numbers DEF StopBuffering, Goes, broadcastVars, Typed
  <2>3. \A i \in 1 .. N : Reached(i)' = Reached(i)
    BY <2>2 DEF Reached, Pending
  <2> QED
    BY <1>b, <2>1, <2>2, <2>3, OrderStays DEF OrderInv
<1>5. CASE FlushNext
  <2>1. \A i \in 1 .. N : Inbox(i)' = Inbox(i)
    BY <1>5 DEF FlushNext, Inbox
  <2>2. /\ pc[Connector] = "flush" /\ pc'[Connector] = "test" /\ pc'[Producer] = pc[Producer]
        /\ position'[Connector] = 1 /\ numFlushed' = numFlushed + 1
        /\ UNCHANGED <<numSent, isChannelOpened, buffer>>
    BY <1>0, <1>5, Numbers DEF FlushNext, Goes, StartBroadcast, Typed
  <2>3. \A i \in 1 .. N : Reached(i) = numFlushed /\ Reached(i)' = numFlushed
    BY <1>0, <2>2, Indexed DEF Reached, Pending
  <2> QED
    BY <1>b, <2>1, <2>2, <2>3, OrderStays DEF OrderInv
<1>6. CASE FlushEnds
  <2>1. \A i \in 1 .. N : Inbox(i)' = Inbox(i)
    BY <1>6 DEF FlushEnds, Inbox, broadcastVars
  <2>2. /\ pc[Connector] = "flush" /\ pc'[Connector] = "clear" /\ pc'[Producer] = pc[Producer]
        /\ numFlushed = Len(buffer)
        /\ UNCHANGED <<position, numSent, numFlushed, isChannelOpened, buffer>>
    BY <1>0, <1>6, Numbers DEF FlushEnds, Goes, broadcastVars, Typed
  <2>3. \A i \in 1 .. N : Reached(i)' = Reached(i)
    BY <2>2 DEF Reached, Pending
  <2> QED
    BY <1>b, <2>1, <2>2, <2>3, OrderStays DEF OrderInv
<1>7. CASE ClearBuffer
  <2>1. \A i \in 1 .. N : Inbox(i)' = Inbox(i)
    BY <1>7 DEF ClearBuffer, Inbox, broadcastVars
  <2>2. /\ pc[Connector] = "clear" /\ pc'[Connector] = "done" /\ pc'[Producer] = pc[Producer]
        /\ UNCHANGED <<position, numSent, numFlushed, isChannelOpened>>
    BY <1>0, <1>7, Numbers DEF ClearBuffer, Goes, broadcastVars, Typed
  <2>3. /\ pc[Producer] \in {"idle", "append"} /\ numFlushed = Len(buffer)
        /\ Len(buffer) = IF pc[Producer] = "append" THEN numSent - 1 ELSE numSent
    BY <1>0, <1>b, <2>2 DEF Placed, Numbered
  <2>4. \A i \in 1 .. N : Reached(i)' = Reached(i)
    BY <2>2, <2>3 DEF Reached, Pending
  <2> QED
    BY <1>b, <2>1, <2>2, <2>3, <2>4, OrderStays DEF OrderInv
\* The thread that broadcasts is the connector, or the producer after the flush.
<1>c. ASSUME NEW t \in Threads, Broadcasts(t)
      PROVE  /\ t = Connector => pc[Connector] # "done" /\ ~Broadcasts(Producer)
                                  /\ message[t] = numFlushed
             /\ t = Producer => pc[Connector] = "done" /\ message[t] = numSent
             /\ \A i \in 1 .. N : Reached(i) = IF Pending(t, i) THEN message[t] - 1 ELSE message[t]
  <2>1. t = Connector => pc[Connector] # "done" /\ ~Broadcasts(Producer) /\ message[t] = numFlushed
    BY <1>0, <1>b, <1>c, Numbers DEF Numbered
  <2>2. t = Producer => pc[Connector] = "done" /\ message[t] = numSent /\ pc[Producer] # "append"
    BY <1>0, <1>b, <1>c, Numbers DEF Numbered
  <2> QED
    BY <2>1, <2>2, Numbers DEF Reached
<1>8. ASSUME NEW t \in Threads, TestChannel(t) PROVE OrderInv'
  <2>0. Broadcasts(t) /\ pc[t] = "test"
    BY <1>8 DEF TestChannel
  <2>1. \A i \in 1 .. N : Inbox(i)' = Inbox(i)
    BY <1>8 DEF TestChannel, Inbox
  <2>2. UNCHANGED <<isChannelOpened, buffer, numSent, numFlushed>>
        /\ \A u \in Threads \ {t} : pc'[u] = pc[u] /\ position'[u] = position[u]
    BY <1>0, <1>8 DEF TestChannel, Goes, Typed
  <2>3. position[t] \in 1 .. N + 1 /\ Len(subscribers) = N /\ message[t] \in Messages
        /\ \A i \in 1 .. N : subscribers[i] = Subscribers[i]
    BY <1>0, <2>0, AtPosition
  <2>4. CASE position[t] > Len(subscribers)
    <3>1. pc'[t] = IF t = Producer THEN "idle" ELSE "flush"
      BY <1>0, <1>8, <2>4 DEF TestChannel, Goes, Typed
    <3>2. \A i \in 1 .. N : ~Pending(t, i)
      BY <2>3, <2>4, Indexed DEF Pending
    <3>3. \A i \in 1 .. N : Reached(i)' = Reached(i)
      BY <1>c, <2>0, <2>2, <3>1, <3>2, Numbers DEF Reached, Pending
    <3> QED
      BY <1>b, <1>c, <2>0, <2>1, <2>2, <3>1, <3>3, OrderStays, Numbers DEF OrderInv
  <2>5. CASE position[t] <= Len(subscribers)
    <3>1. isChannelOpened[Subscribers[position[t]]]
      <4>1. position[t] \in 1 .. N /\ Pending(t, position[t])
        BY <2>0, <2>3, <2>5, Indexed DEF Pending
      <4>2. Len(Inbox(position[t])) = message[t] - 1
        BY <1>b, <1>c, <2>0, <4>1 DEF InOrder
      <4>3. Len(Inbox(position[t])) # EOS
        BY <2>3, <4>2, Numbers
      <4> QED
        BY <1>b, <4>1, <4>3 DEF InOrder
    <3>2. pc'[t] = "deliver" /\ position' = position
      <4>1. isChannelOpened[subscribers[position[t]]] /\ ~(position[t] > Len(subscribers))
        BY <2>3, <2>5, <3>1, Indexed
      <4> QED
        BY <1>0, <1>8, <4>1 DEF TestChannel, Goes, Typed
    <3>3. \A i \in 1 .. N : Reached(i)' = Reached(i)
      BY <1>c, <2>0, <2>2, <3>2, Numbers DEF Reached, Pending
    <3> QED
      BY <1>b, <1>c, <2>0, <2>1, <2>2, <3>2, <3>3, OrderStays, Numbers DEF OrderInv
  <2> QED
    BY <2>3, <2>4, <2>5, Indexed
<1>9. ASSUME NEW t \in Threads, Deliver(t) PROVE OrderInv'
  <2> DEFINE m == message[t]
             p == position[t]
  <2>0. Broadcasts(t) /\ pc[t] = "deliver" /\ p \in 1 .. N /\ m \in Messages
    BY <1>0, <1>9, DeliverAppends DEF Deliver, Goes
  <2>1. UNCHANGED <<isChannelOpened, buffer, message, numSent, numFlushed>>
        /\ (\A u \in Threads \ {t} : pc'[u] = pc[u] /\ position'[u] = position[u])
        /\ (\/ pc'[t] = "shut" /\ position'[t] = p
            \/ pc'[t] = "test" /\ position'[t] = p + 1)
    BY <1>0, <1>9, <2>0 DEF Deliver, Goes, Typed
  <2>2. ASSUME NEW i \in 1 .. N PROVE (Pending(t, i) <=> i >= p) /\ (Pending(t, i)' <=> i > p)
    <3>1. i \in Int /\ p \in Int
      BY <2>0, Indexed
    <3>2. Pending(t, i) <=> i >= p
      BY <2>0, <3>1 DEF Pending
    <3>3. Pending(t, i)' <=> i > p
      BY <2>1, <3>1 DEF Pending
    <3> QED
      BY <3>2, <3>3
  <2>3. ASSUME NEW i \in 1 .. N PROVE Reached(i)' = IF i > p THEN m - 1 ELSE m
    <3>1. CASE t = Connector
      <4>1. pc'[Connector] # "done" /\ m = numFlushed
        BY <1>c, <2>0, <2>1, <3>1
      <4> QED
        BY <2>1, <2>2, <3>1, <4>1 DEF Reached
    <3>2. CASE t = Producer
      <4>1. pc'[Connector] = "done" /\ m = numSent /\ pc'[Producer] # "append"
        BY <1>c, <2>0, <2>1, <3>2, Numbers
      <4> QED
        BY <2>1, <2>2, <3>2, <4>1 DEF Reached
    <3> QED
      BY <3>1, <3>2, Numbers
  <2>4. \A i \in 1 .. N : Reached(i) = IF i >= p THEN m - 1 ELSE m
    BY <1>c, <2>0, <2>2
  <2>5. ASSUME NEW i \in 1 .. N PROVE InOrder(i)'
    <3>1. CASE i # p
      <4>1. Inbox(i)' = Inbox(i) /\ Reached(i)' = Reached(i)
        <5>1. Inbox(i)' = Inbox(i)
          BY <1>0, <1>9, <3>1, DeliverAppends
        <5>2. i > p <=> i >= p
          BY <2>0, <3>1, Indexed
        <5> QED
          BY <2>3, <2>4, <5>1, <5>2
      <4> QED
        BY <1>b, <2>1, <4>1, OrderStays
    <3>2. CASE i = p
      <4> DEFINE q == Inbox(i)
      <4>1. Inbox(i)' = Append(q, m) /\ q \in Seq(Messages) /\ Len(q) = m - 1 /\ Reached(i)' = m
            /\ \A j \in 1 .. Len(q) : q[j] = j
        <5>1. Inbox(i)' = Append(q, m)
          BY <1>0, <1>9, <3>2, DeliverAppends
        <5>2. q \in Seq(Messages)
          BY <1>0, Inboxes
        <5>3. InOrder(i) /\ i \in Int /\ p \in Int
          BY <1>b, <2>0, Indexed
        <5>4. Reached(i) = m - 1 /\ Reached(i)' = m
          BY <2>3, <2>4, <3>2, <5>3
        <5> QED
          BY <5>1, <5>2, <5>3, <5>4 DEF InOrder
      <4> HIDE DEF q, m
      <4>2. /\ Len(Append(q, m)) = Len(q) + 1
            /\ \A j \in 1 .. Len(q) : Append(q, m)[j] = q[j]
            /\ Append(q, m)[Len(q) + 1] = m
            /\ \A j \in 1 .. Len(q) + 1 : j \in 1 .. Len(q) \/ j = Len(q) + 1
        BY <2>0, <4>1, Appended
      <4>3. Len(q) # EOS /\ Len(q) + 1 = m
        BY <2>0, <4>1, Numbers
      <4>4. isChannelOpened[Subscribers[i]]
        BY <1>b, <4>3 DEF InOrder, q
      <4>5. \A j \in 1 .. Len(q) + 1 : Append(q, m)[j] = j
        BY <4>1, <4>2, <4>3
      <4> QED
        BY <2>1, <4>1, <4>2, <4>3, <4>4, <4>5 DEF InOrder
    <3> QED
      BY <3>1, <3>2
  <2> QED
    BY <1>b, <1>c, <2>0, <2>1, <2>5, Numbers DEF OrderInv
<1>10. ASSUME NEW t \in Threads, ShutChannel(t) PROVE OrderInv'
  <2> DEFINE p == position[t]
  <2>0. Broadcasts(t) /\ pc[t] = "shut" /\ p \in 1 .. N /\ message[t] = EOS
        /\ subscribers[p] = Subscribers[p]
    <3>1. Broadcasts(t) /\ pc[t] = "shut"
      BY <1>10 DEF ShutChannel, Goes
    <3> QED
      BY <1>0, <3>1, AtPosition, Indexed DEF Placed
  <2>1. \A i \in 1 .. N : Inbox(i)' = Inbox(i)
    BY <1>10 DEF ShutChannel, Inbox
  <2>2. UNCHANGED <<buffer, message, numSent, numFlushed>>
        /\ (\A u \in Threads \ {t} : pc'[u] = pc[u] /\ position'[u] = position[u])
        /\ pc'[t] = "test" /\ position'[t] = p + 1
    BY <1>0, <1>10, <2>0 DEF ShutChannel, Goes, Typed
  <2>3. ASSUME NEW i \in 1 .. N PROVE (Pending(t, i) <=> i > p) /\ (Pending(t, i)' <=> i > p)
    <3>1. i \in Int /\ p \in Int
      BY <2>0, Indexed
    <3>2. Pending(t, i) <=> i > p
      BY <2>0, <3>1 DEF Pending
    <3>3. Pending(t, i)' <=> i > p
      BY <2>2, <3>1 DEF Pending
    <3> QED
      BY <3>2, <3>3
  <2>4. ASSUME NEW i \in 1 .. N PROVE Reached(i)' = Reached(i)
    <3>1. CASE t = Connector
      BY <1>c, <2>0, <2>2, <2>3, <3>1, Numbers DEF Reached
    <3>2. CASE t = Producer
      <4>1. pc'[Connector] = pc[Connector] /\ pc'[Producer] # "append" /\ pc[Producer] # "append"
            /\ pc[Connector] = "done"
        BY <1>c, <2>0, <2>2, <3>2, Numbers
      <4> QED
        BY <2>2, <2>3, <3>2, <4>1 DEF Reached
    <3> QED
      BY <3>1, <3>2, Numbers
  <2>5. Reached(p) = EOS
    BY <1>c, <2>0, <2>3
  <2>6. ASSUME NEW i \in 1 .. N PROVE InOrder(i)'
    <3>1. isChannelOpened'[Subscribers[i]] = IF i = p THEN FALSE ELSE isChannelOpened[Subscribers[i]]
      BY <1>0, <1>10, <2>0, Indexed DEF ShutChannel, Typed
    <3> QED
      BY <1>b, <2>1, <2>4, <2>5, <3>1 DEF InOrder
  <2> QED
    BY <1>b, <1>c, <2>0, <2>2, <2>6, Numbers DEF OrderInv
<1> QED
  BY <1>1, <1>2, <1>3, <1>4, <1>5, <1>6, <1>7, <1>8, <1>9, <1>10, Numbers
     DEF Next, ProducerNext, ConnectorNext, Broadcast

LEMMA OrderInvariance == Spec => []OrderInv
<1>1. UniqueInv /\ OrderInv /\ [Next]_vars => OrderInv'
  <2>1. ASSUME OrderInv, UNCHANGED vars PROVE OrderInv'
    BY <2>1 DEF vars, OrderInv, InOrder, Reached, Inbox, Pending, Broadcasts
  <2> QED
    BY <2>1, KeepsOrder
<1> QED
  BY <1>1, InitOrder, UniqueInvariance, PTL DEF Spec

\* Without an overlap of push and stopBuffering every subscriber gets the messages in
\* order, and has all of them at the end: the windows that set hasRaced are all that
\* can go wrong (AnswerBuffer.cpp:17, :30).
THEOREM InOrderSafe == Spec => []InOrderUnlessRaced
<1>1. UniqueInv /\ OrderInv => InOrderUnlessRaced
  <2> SUFFICES ASSUME UniqueInv, OrderInv, ~hasRaced, NEW s \in Range(Subscribers)
               PROVE  /\ IsPrefix(inbox[s], AllMessages)
                      /\ IsDone => inbox[s] = AllMessages
    BY DEF InOrderUnlessRaced
  <2>1. PICK i \in 1 .. N : s = Subscribers[i]
    BY Indexed
  <2> DEFINE q == inbox[s]
  <2>2. InOrder(i) /\ Inbox(i) = q /\ q \in Seq(Messages) /\ Len(q) \in Nat /\ Typed /\ Numbered
    BY <2>1, Inboxes DEF UniqueInv, OrderInv, Inbox
  <2> HIDE DEF q
  <2>3. Len(q) <= EOS /\ \A j \in 1 .. Len(q) : q[j] = j
    <3>1. Len(q) = Reached(i) /\ \A j \in 1 .. Len(q) : q[j] = j
      BY <2>2 DEF InOrder
    <3>2. numSent \in 0 .. EOS /\ numFlushed \in 0 .. EOS /\ EOS \in Nat
      BY <2>2, Numbers DEF Typed
    <3>3. Reached(i) <= EOS
      BY <3>2 DEF Reached
    <3> QED
      BY <3>1, <3>3
  <2>4. AllMessages \in Seq(Messages) /\ Len(AllMessages) = EOS /\ \A j \in 1 .. EOS : AllMessages[j] = j
    BY Numbers DEF AllMessages
  <2> HIDE DEF q
  <2>5. SubSeq(q, 1, Len(q)) = SubSeq(AllMessages, 1, Len(q))
    BY <2>2, <2>3, <2>4, Numbers
  <2>6. IsPrefix(q, AllMessages)
    BY <2>3, <2>4, <2>5 DEF IsPrefix
  <2>7. ASSUME IsDone PROVE q = AllMessages
    <3>1. Len(q) = EOS
      BY <2>2, <2>7 DEF IsDone, InOrder, Reached, Pending, Broadcasts, BroadcastPC
    <3> QED
      BY <2>2, <2>3, <2>4, <3>1, SeqEqual
  <2> QED
    BY <2>6, <2>7 DEF q
<1> QED
  BY <1>1, UniqueInvariance, OrderInvariance, PTL
=============================================================================
