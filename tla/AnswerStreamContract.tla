------------------------ MODULE AnswerStreamContract ------------------------
(***************************************************************************)
(* What a stream with a fixed set of input channels promises its reader    *)
(* (the class comments of AnswerStream.h): the answers of every channel,   *)
(* in order and without loss, then the end-of-stream message once every    *)
(* channel has ended, and nothing after it.                                *)
(***************************************************************************)
EXTENDS Integers, Sequences

CONSTANTS Channels, NumAnswers, EOS

VARIABLES
    live,       \* the channels that have not ended
    delivered,  \* per channel: how many answers have been output
    output,     \* everything that was output
    numRead     \* how much of it has been read

vars == <<live, delivered, output, numRead>>

HasEnded == output # <<>> /\ output[Len(output)] = EOS

Init ==
    /\ live = Channels
    /\ delivered = [c \in Channels |-> 0]
    /\ output = <<>> /\ numRead = 0

Deliver(c) ==
    /\ c \in live /\ delivered[c] < NumAnswers
    /\ delivered' = [delivered EXCEPT ![c] = @ + 1]
    /\ output' = Append(output, <<c, delivered[c] + 1>>)
    /\ UNCHANGED <<live, numRead>>

Leave(c) ==
    /\ c \in live
    /\ live' = live \ {c}
    /\ UNCHANGED <<delivered, output, numRead>>

End ==
    /\ live = {} /\ ~HasEnded
    /\ output' = Append(output, EOS)
    /\ UNCHANGED <<live, delivered, numRead>>

Read ==
    /\ numRead < Len(output)
    /\ numRead' = numRead + 1
    /\ UNCHANGED <<live, delivered, output>>

Next == End \/ Read \/ \E c \in Channels : Deliver(c) \/ Leave(c)

Spec == Init /\ [][Next]_vars
FairSpec == Spec /\ WF_vars(End) /\ WF_vars(Read) /\ \A c \in Channels : WF_vars(Leave(c))
=============================================================================
