---------------------------- MODULE AnswerStream ----------------------------
(***************************************************************************)
(* A stream of query answers that ends in an answer queue                  *)
(* (src/queries/AnswerStream.cpp, src/queries/AnswerQueue.cpp).            *)
(*                                                                         *)
(* Each producer thread owns one Channel of the stream and pushes its      *)
(* answers, in order, and then the end-of-stream message (EOS). One        *)
(* consumer reads the queue up to the first EOS, as the action server and  *)
(* the terminal do. A further thread may close() the stream.               *)
(*                                                                         *)
(* Channel::push, AnswerStream::push and AnswerStream::close test flags,   *)
(* change channels_ under channel_mutex_ and change flags again without    *)
(* it: each test and each change is a step of its own. Two threads that    *)
(* use one channel may both be past its test when one of them resets the   *)
(* flag and the pointer stream_; the other then uses a null pointer.       *)
(***************************************************************************)
EXTENDS Integers, Sequences, FiniteSets

CONSTANTS
    Channels,       \* the channels that may be created
    Connected,      \* those that exist before the first message is pushed
    NumAnswers,     \* how many answers each channel has at most
    Closer          \* the thread that may close the stream

ASSUME ChannelsAssumption ==
    /\ Connected \subseteq Channels
    /\ NumAnswers \in Nat
    /\ Closer \notin Channels

\* The messages of the stream: <<c, i>> is answer number i of channel c, and EOS
\* is the message without an answer.
Answers == Channels \X (1 .. NumAnswers)
EOS == <<>>
Messages == Answers \cup {EOS}
Threads == Channels \cup {Closer}

VARIABLES
    channels,       \* channels_, the input channels
    isOpened,       \* isOpened_ of the stream
    isChannelOpened,\* per channel: isOpened_ of the channel
    isStreamSet,    \* per channel: stream_ of the channel is not null
    isHeld,         \* per channel: someone but channels_ has a reference
    deadlocked,     \* a thread waits for channel_mutex_ while holding it
    queue,          \* queue_
    pc,             \* per thread: where it stands
    target,         \* per thread: the channel it works on
    numSent,        \* per channel: the number of answers it was given
    visited,        \* the channels the loop of close() has reached
    received        \* what the consumer has read (history)

streamVars == <<channels, isOpened, isChannelOpened, isStreamSet, isHeld, deadlocked>>
consumerVars == <<queue, received>>
threadVars == <<pc, target, numSent, visited>>
vars == <<streamVars, consumerVars, threadVars>>

ThreadPC == {"absent", "refused", "idle", "answer", "enqueue", "eos", "erase",
             "pushEos", "closeStream", "closeChannel", "resetStream", "finished",
             "abandoned", "next", "clear", "stuck", "undefined"}

\* Everything the stream has output so far.
Output == received \o queue

Init ==
    /\ channels = Connected
    /\ isOpened = TRUE
    /\ isChannelOpened = [c \in Channels |-> c \in Connected]
    /\ isStreamSet = [c \in Channels |-> c \in Connected]
    /\ isHeld = [c \in Channels |-> c \in Connected]
    /\ deadlocked = FALSE
    /\ queue = <<>> /\ received = <<>>
    /\ pc = [t \in Threads |-> IF t \in Connected \cup {Closer} THEN "idle" ELSE "absent"]
    /\ target = [t \in Threads |-> IF t \in Channels THEN t ELSE "none"]
    /\ numSent = [c \in Channels |-> 0]
    /\ visited = {}

Goes(t, from, to) == pc[t] = from /\ pc' = [pc EXCEPT ![t] = to]

\* stream_->push(...): a null pointer is undefined. The pointer is read before what it
\* points to, so another thread may have reset it in between. (The stream itself
\* stays: its reader has a reference.)
UsesStream(t, from, to) ==
    \/ Goes(t, from, to)
    \/ Goes(t, from, "undefined") /\ ~isStreamSet[target[t]]

-----------------------------------------------------------------------------
(* Channel::create, under channel_mutex_ *)

Create(c) ==
    /\ isOpened /\ ~deadlocked
    /\ Goes(c, "absent", "idle")
    /\ channels' = channels \cup {c}
    /\ isChannelOpened' = [isChannelOpened EXCEPT ![c] = TRUE]
    /\ isStreamSet' = [isStreamSet EXCEPT ![c] = TRUE]
    /\ isHeld' = [isHeld EXCEPT ![c] = TRUE]
    /\ UNCHANGED <<isOpened, deadlocked, consumerVars, target, numSent, visited>>

\* QueryError: "cannot create a channel of a closed stream"
CreateRefused(c) ==
    /\ ~isOpened /\ ~deadlocked
    /\ Goes(c, "absent", "refused")
    /\ UNCHANGED <<streamVars, consumerVars, target, numSent, visited>>

-----------------------------------------------------------------------------
(* Channel::push of an answer *)

\* The channel is tested first; an answer for a closed channel is dropped.
PushAnswer(c) ==
    /\ numSent[c] < NumAnswers
    /\ Goes(c, "idle", IF isChannelOpened[c] THEN "answer" ELSE "idle")
    /\ numSent' = [numSent EXCEPT ![c] = @ + 1]
    /\ UNCHANGED <<streamVars, consumerVars, target, visited>>

\* Then the stream is tested; an answer for a closed stream is dropped.
TestStream(c) ==
    /\ UsesStream(c, "answer", IF isOpened THEN "enqueue" ELSE "idle")
    /\ UNCHANGED <<streamVars, consumerVars, target, numSent, visited>>

\* pushToQueue, under queue_mutex_; waking the consumer is implicit, since
\* its wait predicate is tested under the same mutex.
Enqueue(c) ==
    /\ Goes(c, "enqueue", "idle")
    /\ queue' = Append(queue, <<c, numSent[c]>>)
    /\ UNCHANGED <<streamVars, received, target, numSent, visited>>

-----------------------------------------------------------------------------
(* EOS: a producer's push(eos) or close(), or the closer's channel->close() *)

\* Mutant: the flag of the channel is not tested.
PushEosUntested(c) ==
    /\ pc[c] \in {"idle", "finished"}
    /\ pc' = [pc EXCEPT ![c] = "eos"]
    /\ UNCHANGED <<streamVars, consumerVars, target, numSent, visited>>

\* A runner may push EOS and have its channel closed once more by its exception
\* handler; nothing happens on a channel that is closed already.
PushEos(c) ==
    /\ pc[c] \in {"idle", "finished"}
    /\ pc' = [pc EXCEPT ![c] = IF isChannelOpened[c] THEN "eos" ELSE "finished"]
    /\ UNCHANGED <<streamVars, consumerVars, target, numSent, visited>>

\* A stream that is closed already gets its EOS without further questions.
TestStreamForEos(t) ==
    /\ UsesStream(t, "eos", IF isOpened THEN "erase" ELSE "pushEos")
    /\ UNCHANGED <<streamVars, consumerVars, target, numSent, visited>>

\* Mutant: EOS of any channel ends the stream.
EraseAlwaysPush(t) ==
    /\ ~deadlocked
    /\ Goes(t, "erase", "pushEos")
    /\ channels' = channels \ {target[t]}
    /\ UNCHANGED <<isOpened, isChannelOpened, isStreamSet, isHeld, deadlocked, consumerVars,
                   target, numSent, visited>>

\* Mutant: the list is tested before the channel is erased from it.
EraseTestFirst(t) ==
    /\ ~deadlocked
    /\ Goes(t, "erase", IF channels = {} THEN "pushEos" ELSE "closeChannel")
    /\ channels' = channels \ {target[t]}
    /\ UNCHANGED <<isOpened, isChannelOpened, isStreamSet, isHeld, deadlocked, consumerVars,
                   target, numSent, visited>>

\* Under channel_mutex_: erase the channel from channels_. The last channel
\* has to send EOS. Erasing an iterator for the second time is undefined.
Erase(t) ==
    LET c == target[t] IN
    /\ pc[t] = "erase" /\ ~deadlocked /\ isHeld[c]
    /\ Goes(t, "erase", CASE c \notin channels -> "undefined"
                          [] c \in channels /\ channels = {c} -> "pushEos"
                          [] OTHER -> "closeChannel")
    /\ channels' = channels \ {c}
    /\ UNCHANGED <<isOpened, isChannelOpened, isStreamSet, isHeld, deadlocked, consumerVars,
                   target, numSent, visited>>

\* When channels_ has the last reference, the channel is destroyed while the
\* mutex is held: ~Channel closes it, which locks the mutex again.
EraseLastReference(t) ==
    /\ Goes(t, "erase", "stuck")
    /\ ~deadlocked /\ ~isHeld[target[t]]
    /\ deadlocked' = TRUE
    /\ UNCHANGED <<channels, isOpened, isChannelOpened, isStreamSet, isHeld, consumerVars,
                   target, numSent, visited>>

EnqueueEos(t) ==
    /\ Goes(t, "pushEos", "closeStream")
    /\ queue' = Append(queue, EOS)
    /\ UNCHANGED <<streamVars, received, target, numSent, visited>>

CloseStream(t) ==
    /\ Goes(t, "closeStream", "closeChannel")
    /\ isOpened' = FALSE
    /\ UNCHANGED <<channels, isChannelOpened, isStreamSet, isHeld, deadlocked, consumerVars,
                   target, numSent, visited>>

\* isOpened_ = false on the channel, and stream_ = {} after it.
CloseChannel(t) ==
    /\ Goes(t, "closeChannel", "resetStream")
    /\ isChannelOpened' = [isChannelOpened EXCEPT ![target[t]] = FALSE]
    /\ UNCHANGED <<channels, isOpened, isStreamSet, isHeld, deadlocked, consumerVars,
                   target, numSent, visited>>

\* Another thread is about to reset the same pointer.
IsResetTwice(t) ==
    \E u \in Threads \ {t} : pc[u] = "resetStream" /\ target[u] = target[t]

\* Two threads that reset one pointer may drop its reference twice, which is undefined.
\* So is advancing the closer's iterator, whose list node was erased, and writing to the
\* channel, which its producer may have let go of: it may or may not work.
ResetStream(t) ==
    /\ \/ Goes(t, "resetStream", IF t = Closer THEN "next" ELSE "finished")
       \/ Goes(t, "resetStream", "undefined") /\ (t = Closer \/ IsResetTwice(t))
    /\ isStreamSet' = [isStreamSet EXCEPT ![target[t]] = FALSE]
    /\ UNCHANGED <<channels, isOpened, isChannelOpened, isHeld, deadlocked, consumerVars,
                   target, numSent, visited>>

\* An exception unwinds the producer (evaluateQuery): its reference is
\* gone, and the one in channels_ is the last one. (Once the channel is not
\* in channels_ any more it is closed by its destructor: PushEos.)
Abandon(c) ==
    /\ c \in channels
    /\ Goes(c, "idle", "abandoned")
    /\ isHeld' = [isHeld EXCEPT ![c] = FALSE]
    /\ UNCHANGED <<channels, isOpened, isChannelOpened, isStreamSet, deadlocked,
                   consumerVars, target, numSent, visited>>

-----------------------------------------------------------------------------
(* AnswerStream::close *)

CloseBegins ==
    /\ Goes(Closer, "idle", "next")
    /\ visited' = {}
    /\ UNCHANGED <<streamVars, consumerVars, target, numSent>>

\* channel->close() on the next element, which is read without the mutex.
CloseNext(c) ==
    /\ c \in channels \ visited
    /\ Goes(Closer, "next", IF isChannelOpened[c] THEN "eos" ELSE "next")
    /\ visited' = visited \cup {c}
    /\ target' = [target EXCEPT ![Closer] = c]
    /\ UNCHANGED <<streamVars, consumerVars, numSent>>

CloseLoopEnds ==
    /\ channels \subseteq visited
    /\ Goes(Closer, "next", "clear")
    /\ UNCHANGED <<streamVars, consumerVars, target, numSent, visited>>

\* A channel that is destroyed by channels_.clear() while it is open.
DestroyedByClear == {c \in channels : ~isHeld[c] /\ isChannelOpened[c]}

\* channels_.clear() and isOpened_ = false under channel_mutex_.
CloseEnds ==
    /\ ~deadlocked /\ DestroyedByClear = {}
    /\ Goes(Closer, "clear", "finished")
    /\ channels' = {}
    /\ isOpened' = FALSE
    /\ UNCHANGED <<isChannelOpened, isStreamSet, isHeld, deadlocked, consumerVars, target,
                   numSent, visited>>

\* ~Channel closes the channel, which locks the mutex for the second time.
CloseLastReference ==
    /\ ~deadlocked /\ DestroyedByClear # {}
    /\ Goes(Closer, "clear", "stuck")
    /\ deadlocked' = TRUE
    /\ UNCHANGED <<channels, isOpened, isChannelOpened, isStreamSet, isHeld, consumerVars,
                   target, numSent, visited>>

-----------------------------------------------------------------------------
(* The consumer: AnswerQueue::pop_front until EOS *)

Done == received # <<>> /\ received[Len(received)] = EOS

\* front() waits for an element, pop() removes it. The two lock the queue one
\* after the other, and there is one consumer: no one else removes elements.
PopFront ==
    /\ ~Done /\ queue # <<>>
    /\ received' = Append(received, Head(queue))
    /\ queue' = Tail(queue)
    /\ UNCHANGED <<streamVars, threadVars>>

-----------------------------------------------------------------------------
SendEos(t) ==
    \/ TestStreamForEos(t) \/ Erase(t) \/ EraseLastReference(t)
    \/ EnqueueEos(t) \/ CloseStream(t) \/ CloseChannel(t) \/ ResetStream(t)

Produce(c) == PushAnswer(c) \/ TestStream(c) \/ Enqueue(c) \/ PushEos(c) \/ SendEos(c)

Connect(c) == Create(c) \/ CreateRefused(c)

Close ==
    \/ CloseBegins \/ CloseLoopEnds \/ CloseEnds \/ CloseLastReference
    \/ SendEos(Closer)
    \/ \E c \in Channels : CloseNext(c)

\* Streams in use: channels are connected and closed by their producers.
UseNext == PopFront \/ \E c \in Channels : Connect(c) \/ Produce(c)

\* Also, producers fail and another thread closes the stream at any time.
Next == UseNext \/ Close \/ \E c \in Channels : Abandon(c)

\* A producer fails, and the exception handler that its worker runs next
\* closes the stream (KnowledgeGraph::submitQuery).
FailNext ==
    \/ UseNext
    \/ \E c \in Channels : Abandon(c)
    \/ Close /\ \E c \in Channels : pc[c] = "abandoned"

\* Every thread that can take a step does; a producer that is not abandoned
\* ends its channel sooner or later, having pushed as much as it likes.
ProducerFairness ==
    \A c \in Channels : /\ WF_vars(TestStream(c)) /\ WF_vars(Enqueue(c))
                        /\ WF_vars(SendEos(c)) /\ SF_vars(PushEos(c))

UseSpec == Init /\ [][UseNext]_vars /\ ProducerFairness /\ WF_vars(PopFront)
CloseFairness ==
    /\ WF_vars(SendEos(Closer))
    /\ WF_vars(\E c \in Channels : CloseNext(c))
    /\ WF_vars(CloseLoopEnds) /\ WF_vars(CloseEnds) /\ WF_vars(CloseLastReference)
Spec == Init /\ [][Next]_vars /\ ProducerFairness /\ CloseFairness /\ WF_vars(PopFront)
FailSpec == Init /\ [][FailNext]_vars /\ ProducerFairness /\ CloseFairness /\ WF_vars(PopFront)

-----------------------------------------------------------------------------
(* Safety *)

\* Types. Only messages of the stream are in the queue and are read from it.
TypeOK ==
    /\ channels \subseteq Channels
    /\ isOpened \in BOOLEAN /\ deadlocked \in BOOLEAN
    /\ isChannelOpened \in [Channels -> BOOLEAN]
    /\ isStreamSet \in [Channels -> BOOLEAN]
    /\ isHeld \in [Channels -> BOOLEAN]
    /\ queue \in Seq(Messages) /\ received \in Seq(Messages)
    /\ pc \in [Threads -> ThreadPC]
    /\ target \in [Threads -> Channels \cup {"none"}]
    /\ numSent \in [Channels -> 0 .. NumAnswers]
    /\ visited \subseteq Channels

\* EOS is the last message that is output, and every answer of every channel has
\* been output before it.
CompleteAtEos ==
    \A i \in 1 .. Len(Output) : Output[i] = EOS =>
        /\ i = Len(Output)
        /\ \A c \in Channels : \A k \in 1 .. numSent[c] :
               \E j \in 1 .. i - 1 : Output[j] = <<c, k>>

\* No iterator of channels_ is used after its element was erased, and no stream_
\* after it was reset.
NoDanglingIterator == \A t \in Threads : pc[t] # "undefined"

\* "prevent channels from being created while processing EOS message"
\* (AnswerStream.cpp:65): from the erase that leaves no channel until the stream is closed.
NoChannelDuringEos ==
    [][(\E t \in Threads : pc[t] \in {"pushEos", "closeStream"}) => channels' \subseteq channels]_vars

-----------------------------------------------------------------------------
(* Liveness *)

\* "a stream auto-closes once it has received EOS messages from all of its
\* input channels" (AnswerStream.h:54): the consumer gets its EOS.
AutoCloses ==
    (\A c \in Channels : pc[c] \in {"finished", "refused"}) ~> (Done /\ ~isOpened)

Fails == \E t \in Threads : pc[t] = "undefined"

\* "The end of the stream is indicated by an EOS message" (KnowledgeGraph.h:139),
\* "close the stream. This will push an EOS message" (AnswerStream.h:50).
ClosePushesEos == pc[Closer] = "next" ~> (Done \/ Fails)

\* The same, as far as it is true. What keeps EOS from coming is that close() waits for
\* itself, or that a thread uses what another one, or close() itself, has let go of: the
\* loop's iterator, the iterator of a channel, or its stream_.
ClosePushesEosOrFails == pc[Closer] = "next" ~> (Done \/ Fails \/ deadlocked)

-----------------------------------------------------------------------------
(* Streams whose channels are all connected beforehand implement the contract. *)

Contract == INSTANCE AnswerStreamContract WITH
    live <- channels,
    delivered <- [c \in Channels |->
                    IF pc[c] \in {"answer", "enqueue"} THEN numSent[c] - 1 ELSE numSent[c]],
    output <- Output,
    numRead <- Len(received)

ImplementsContract == Contract!FairSpec
=============================================================================
