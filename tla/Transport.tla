------------------------------- MODULE Transport -------------------------------
(***************************************************************************)
(* The QUIC connection between one sender and one receiver, as the code    *)
(* uses it (transport.rs):                                                 *)
(*   dgrams   media datagrams in flight.  QUIC may lose or reorder a       *)
(*            datagram and never delivers it twice, so a set will do.      *)
(*   toRecv   stream-finish packets on their way to the receiver           *)
(*   toSend   feedback on its way to the sender, FIFO, its inbox included  *)
(*   sLimit   the sender's max_datagram_size() - DATA_PREFIX_SIZE          *)
(*   rLimit   the receiver's; each end discovers its own path MTU          *)
(*   lost     history: the datagrams the network dropped                   *)
(***************************************************************************)
EXTENDS Naturals, Sequences

CONSTANTS
    MaxStreamId,    \* u32::MAX
    Reorder,        \* may datagrams overtake each other?
    SenderLimits,   \* values of max_datagram_size() - DATA_PREFIX_SIZE
    ReceiverLimits  \* at the two ends

ASSUME TransportAssumption ==
    /\ MaxStreamId \in Nat
    /\ Reorder \in BOOLEAN
    /\ SenderLimits \subseteq Nat \ {0}
    /\ ReceiverLimits \subseteq Nat \ {0}

VARIABLES dgrams, toRecv, toSend, sLimit, rLimit, lost

netVars == <<dgrams, toRecv, toSend, sLimit, rLimit, lost>>

StreamIds == 1..MaxStreamId

\* A media datagram: the plaintext header, and call, the send that made it.
\* Audio packets use only kind, call and stream.
Datagram == [kind : {"data", "audio"}, call : Nat, stream : StreamIds,
             index : Nat, seq : Nat, size : Nat, pkt : Nat]

\* Datagrams leave in the order of their calls and sequence ids.
SentBefore(d, e) == d.call < e.call \/ (d.call = e.call /\ d.seq < e.seq)

Deliverable(d) ==
    /\ d \in dgrams
    /\ Reorder \/ \A e \in dgrams : ~SentBefore(e, d)

(***************************************************************************)
(* Control packets towards the sender; x and y are the two numbers each    *)
(* kind carries.  (The loss ratio of B is x / y.)                          *)
(***************************************************************************)
Control == [kind : {"F", "T", "B", "A"}, stream : StreamIds, index : Nat,
            x : Nat, y : Nat]

ControlPacket(k, s, i, x, y) ==
    [kind |-> k, stream |-> s, index |-> i, x |-> x, y |-> y]
\* Mutant: feedback names the frame after the one it is about.
FeedbackAfterAdvance(s, i, ideal, used) == ControlPacket("F", s, i + 1, ideal, used)

FecFeedback(s, i, ideal, used)  == ControlPacket("F", s, i, ideal, used)
Telemetry(s, i, ppm, jitter)    == ControlPacket("T", s, i, ppm, jitter)
LossFeedback(s, missing, expected) == ControlPacket("B", s, 0, missing, expected)
Ack(s)                          == ControlPacket("A", s, 0, 0, 0)

NetTypeOK ==
    /\ dgrams \subseteq Datagram /\ lost \subseteq Datagram
    /\ toRecv \in Seq(StreamIds)
    /\ toSend \in Seq(Control)
    /\ sLimit \in SenderLimits /\ rLimit \in ReceiverLimits

NetInit ==
    /\ dgrams = {} /\ lost = {}
    /\ toRecv = <<>> /\ toSend = <<>>
    /\ sLimit \in SenderLimits /\ rLimit \in ReceiverLimits

\* MTU discovery or black-hole detection moves one end's limit.
ChangeSenderLimit ==
    /\ sLimit' \in SenderLimits \ {sLimit}
    /\ UNCHANGED <<dgrams, toRecv, toSend, rLimit, lost>>

ChangeReceiverLimit ==
    /\ rLimit' \in ReceiverLimits \ {rLimit}
    /\ UNCHANGED <<dgrams, toRecv, toSend, sLimit, lost>>
================================================================================
