---------------------------- MODULE AnswerBuffer ----------------------------
(***************************************************************************)
(* An AnswerBuffer keeps the answers of a query until the receivers are    *)
(* connected, then hands them on and becomes a plain broadcaster           *)
(* (src/queries/AnswerBuffer.cpp, src/queries/AnswerBroadcaster.cpp).      *)
(*                                                                         *)
(* Two threads use it: the worker that evaluates the query pushes answers  *)
(* and EOS (the Producer), and the thread that submitted the query adds    *)
(* the subscribers and calls stopBuffering (the Connector). Nothing        *)
(* protects isBuffering_ and buffer_ together.                             *)
(*                                                                         *)
(* A subscriber is the channel of a stream further down: it takes messages *)
(* until it has taken EOS. What happens behind it is AnswerStream.tla.     *)
(* That concurrent accesses may also damage the std::list itself is left   *)
(* out: every message below is lost or reordered by intact lists.          *)
(***************************************************************************)
EXTENDS Integers, Sequences, SequencesExt

CONSTANTS
    Subscribers,    \* a sequence: the channels, in the order they are added
    NumAnswers,     \* the answers of the query
    Producer, Connector

ASSUME BufferAssumption ==
    /\ Subscribers \in Seq(Range(Subscribers))
    /\ IsInjective(Subscribers) /\ Len(Subscribers) > 0
    /\ NumAnswers \in Nat
    /\ Producer # Connector

\* The answers are numbered; EOS is the number that follows.
EOS == NumAnswers + 1
Messages == 1 .. EOS
AllMessages == [i \in Messages |-> i]
Threads == {Producer, Connector}
Nothing == 0

VARIABLES
    isBuffering,    \* isBuffering_
    buffer,         \* buffer_
    subscribers,    \* subscribers_: a prefix of Subscribers
    isChannelOpened,\* per subscriber: isOpened_ of the channel
    inbox,          \* per subscriber: what has been pushed on (history)
    pc,             \* per thread: where it stands
    message,        \* per thread: the message it is broadcasting
    position,       \* per thread: the subscriber the broadcast has reached
    numSent,        \* the number of messages the producer has begun to push
    numFlushed,     \* the position of stopBuffering's loop in buffer_
    hasRaced        \* push and stopBuffering have overlapped (history)

vars == <<isBuffering, buffer, subscribers, isChannelOpened, inbox, pc, message,
          position, numSent, numFlushed, hasRaced>>
broadcastVars == <<isChannelOpened, inbox, message, position>>

ThreadPC == {"idle", "append", "test", "deliver", "shut", "flush", "clear", "done"}

Init ==
    /\ isBuffering = TRUE /\ buffer = <<>> /\ subscribers = <<>>
    /\ isChannelOpened = [s \in Range(Subscribers) |-> TRUE]
    /\ inbox = [s \in Range(Subscribers) |-> <<>>]
    /\ pc = [t \in Threads |-> "idle"]
    /\ message = [t \in Threads |-> Nothing] /\ position = [t \in Threads |-> 0]
    /\ numSent = 0 /\ numFlushed = 0
    /\ hasRaced = FALSE

Goes(t, from, to) == pc[t] = from /\ pc' = [pc EXCEPT ![t] = to]

-----------------------------------------------------------------------------
(* AnswerBroadcaster::push: the message goes to one subscriber after the other *)

StartBroadcast(t, m) ==
    /\ message' = [message EXCEPT ![t] = m]
    /\ position' = [position EXCEPT ![t] = 1]

\* Channel::push tests the channel ...
TestChannel(t) ==
    /\ pc[t] = "test"
    /\ IF position[t] > Len(subscribers)
       THEN /\ Goes(t, "test", IF t = Producer THEN "idle" ELSE "flush")
            /\ message' = [message EXCEPT ![t] = Nothing]
            /\ UNCHANGED position
       ELSE IF isChannelOpened[subscribers[position[t]]]
       THEN Goes(t, "test", "deliver") /\ UNCHANGED <<message, position>>
       ELSE /\ position' = [position EXCEPT ![t] = @ + 1]
            /\ UNCHANGED <<pc, message>>
    /\ UNCHANGED <<isBuffering, buffer, subscribers, isChannelOpened, inbox,
                   numSent, numFlushed, hasRaced>>

\* ... the stream behind it takes the message ...
Deliver(t) ==
    /\ Goes(t, "deliver", IF message[t] = EOS THEN "shut" ELSE "test")
    /\ inbox' = [inbox EXCEPT ![subscribers[position[t]]] = Append(@, message[t])]
    /\ position' = [position EXCEPT ![t] = IF message[t] = EOS THEN @ ELSE @ + 1]
    /\ UNCHANGED <<isBuffering, buffer, subscribers, isChannelOpened, message,
                   numSent, numFlushed, hasRaced>>

\* ... and EOS closes the channel.
ShutChannel(t) ==
    /\ Goes(t, "shut", "test")
    /\ isChannelOpened' = [isChannelOpened EXCEPT ![subscribers[position[t]]] = FALSE]
    /\ position' = [position EXCEPT ![t] = @ + 1]
    /\ UNCHANGED <<isBuffering, buffer, subscribers, inbox, message, numSent,
                   numFlushed, hasRaced>>

-----------------------------------------------------------------------------
(* The producer: AnswerBuffer::push *)

IsFlushing == pc[Connector] \in {"test", "deliver", "shut", "flush", "clear"}

\* Reads isBuffering_. Broadcasting while the flush is under way is a race.
Push ==
    /\ pc[Producer] = "idle" /\ numSent < EOS
    /\ numSent' = numSent + 1
    /\ IF isBuffering
       THEN /\ pc' = [pc EXCEPT ![Producer] = "append"]
            /\ UNCHANGED <<message, position, hasRaced>>
       ELSE /\ StartBroadcast(Producer, numSent + 1)
            /\ pc' = [pc EXCEPT ![Producer] = "test"]
            /\ hasRaced' = (hasRaced \/ IsFlushing)
    /\ UNCHANGED <<isBuffering, buffer, subscribers, isChannelOpened, inbox,
                   numFlushed>>

\* buffer_.push_back. After isBuffering_ was reset this is a race.
AppendToBuffer ==
    /\ Goes(Producer, "append", "idle")
    /\ buffer' = Append(buffer, numSent)
    /\ hasRaced' = (hasRaced \/ ~isBuffering)
    /\ UNCHANGED <<isBuffering, subscribers, broadcastVars, numSent, numFlushed>>

-----------------------------------------------------------------------------
(* The connector: addSubscriber for each receiver, then stopBuffering *)

AddSubscriber ==
    /\ pc[Connector] = "idle" /\ Len(subscribers) < Len(Subscribers)
    /\ subscribers' = Append(subscribers, Subscribers[Len(subscribers) + 1])
    /\ UNCHANGED <<isBuffering, buffer, broadcastVars, pc, numSent, numFlushed, hasRaced>>

\* Mutant: buffering stops before the last subscriber is added.
StopBufferingEarly ==
    /\ subscribers # <<>>
    /\ Goes(Connector, "idle", "flush")
    /\ isBuffering' = FALSE
    /\ UNCHANGED <<buffer, subscribers, broadcastVars, numSent, numFlushed, hasRaced>>

StopBuffering ==
    /\ Len(subscribers) = Len(Subscribers)
    /\ Goes(Connector, "idle", "flush")
    /\ isBuffering' = FALSE
    /\ UNCHANGED <<buffer, subscribers, broadcastVars, numSent, numFlushed, hasRaced>>

\* Mutant: the loop runs again after it has ended.
FlushRepeated ==
    /\ pc[Connector] \in {"flush", "clear"} /\ buffer # <<>>
    /\ \E i \in 1 .. Len(buffer) : StartBroadcast(Connector, buffer[i])
    /\ pc' = [pc EXCEPT ![Connector] = "test"]
    /\ UNCHANGED <<isBuffering, buffer, subscribers, isChannelOpened, inbox,
                   numSent, numFlushed, hasRaced>>

\* The loop over buffer_ broadcasts the next element ...
FlushNext ==
    /\ numFlushed < Len(buffer)
    /\ Goes(Connector, "flush", "test")
    /\ numFlushed' = numFlushed + 1
    /\ StartBroadcast(Connector, buffer[numFlushed + 1])
    /\ UNCHANGED <<isBuffering, buffer, subscribers, isChannelOpened, inbox,
                   numSent, hasRaced>>

\* ... or has reached the end ...
FlushEnds ==
    /\ numFlushed = Len(buffer)
    /\ Goes(Connector, "flush", "clear")
    /\ UNCHANGED <<isBuffering, buffer, subscribers, broadcastVars, numSent,
                   numFlushed, hasRaced>>

\* ... and buffer_.clear() forgets what is in the list by now.
ClearBuffer ==
    /\ Goes(Connector, "clear", "done")
    /\ buffer' = <<>>
    /\ UNCHANGED <<isBuffering, subscribers, broadcastVars, numSent, numFlushed,
                   hasRaced>>

-----------------------------------------------------------------------------
Broadcast(t) == TestChannel(t) \/ Deliver(t) \/ ShutChannel(t)
ProducerNext == Push \/ AppendToBuffer \/ Broadcast(Producer)
ConnectorNext ==
    \/ AddSubscriber \/ StopBuffering \/ FlushNext \/ FlushEnds \/ ClearBuffer
    \/ Broadcast(Connector)
Next == ProducerNext \/ ConnectorNext

Spec == Init /\ [][Next]_vars

-----------------------------------------------------------------------------
(* Safety *)

\* Types, and: buffering ends exactly when stopBuffering begins, and a thread
\* has a message exactly while it broadcasts.
TypeOK ==
    /\ isBuffering \in BOOLEAN /\ hasRaced \in BOOLEAN
    /\ isBuffering <=> pc[Connector] = "idle"
    /\ buffer \in Seq(Messages)
    /\ IsPrefix(subscribers, Subscribers)
    /\ isChannelOpened \in [Range(Subscribers) -> BOOLEAN]
    /\ inbox \in [Range(Subscribers) -> Seq(Messages)]
    /\ pc \in [Threads -> ThreadPC]
    /\ message \in [Threads -> Messages \cup {Nothing}]
    /\ \A t \in Threads : message[t] # Nothing <=> pc[t] \in {"test", "deliver", "shut"}
    /\ position \in [Threads -> 0 .. Len(Subscribers) + 1]
    /\ numSent \in 0 .. EOS /\ numFlushed \in 0 .. EOS

IsDone ==
    /\ pc[Connector] = "done"
    /\ pc[Producer] = "idle" /\ numSent = EOS

\* However push and stopBuffering interleave, no subscriber gets a message twice.
NoDuplicates == \A s \in Range(Subscribers) : IsInjective(inbox[s])

\* Without an overlap every subscriber gets all messages in order. So the two
\* windows that set hasRaced are all that can go wrong.
InOrderUnlessRaced ==
    ~hasRaced => \A s \in Range(Subscribers) :
                    /\ IsPrefix(inbox[s], AllMessages)
                    /\ IsDone => inbox[s] = AllMessages

\* "the messages are buffered before to avoid them being lost before the
\* transformer is connected." (QueryStage.cpp:163)
NothingLost == IsDone => \A s \in Range(Subscribers) : inbox[s] = AllMessages
=============================================================================
