-------------------------------- MODULE Session --------------------------------
(***************************************************************************)
(* A media session: one sender and one receiver over one connection.       *)
(***************************************************************************)
EXTENDS Sender, Receiver

CONSTANT LossModel  \* "none"; "fec": at most the repair share of each frame;
                    \* "any"

ASSUME SessionAssumption == LossModel \in {"none", "fec", "any"}

vars == <<senderVars, receiverVars, netVars>>

Init == NetInit /\ SenderInit /\ ReceiverInit

LossAllowed(d) ==
    \/ LossModel = "any"
    \/ /\ LossModel = "fec" /\ d.kind = "data"
       /\ \E c \in calls :
             /\ c.call = d.call
             /\ Cardinality({e \in lost : e.call = d.call}) < c.total - c.needed

LoseDatagram(d) ==
    /\ LossAllowed(d)
    /\ dgrams' = dgrams \ {d}
    /\ lost' = lost \cup {d}
    /\ UNCHANGED <<toRecv, toSend, sLimit, rLimit, senderVars, receiverVars>>

\* The calls the application may make on the sender ...
SenderCall ==
    \/ \E k \in {"video", "audio"} : OpenStream(k) /\ UNCHANGED receiverVars
    \/ \E s \in StreamIds, z \in FrameSizes : StartFrame(s, z) /\ UNCHANGED receiverVars
    \/ \E s \in StreamIds, z \in FrameSizes : RefuseFrame(s, z) /\ UNCHANGED receiverVars
    \/ \E s \in StreamIds : send_audio_frame(s) /\ UNCHANGED receiverVars
    \/ \E s \in StreamIds : RefuseAudio(s) /\ UNCHANGED receiverVars
    \/ \E s \in StreamIds : send_stream_fin(s) /\ UNCHANGED receiverVars
    \/ \E s \in StreamIds, t \in ExternalTelemetry :
          apply_network_telemetry(s, t[1], t[2]) /\ UNCHANGED receiverVars
    \/ take_bitrate_update_bps /\ UNCHANGED receiverVars
    \/ CancelFrame /\ UNCHANGED receiverVars

\* ... and the steps of a send_frame in progress.
SenderStep ==
    \/ DrainControl /\ UNCHANGED receiverVars
    \/ SendDroplet /\ UNCHANGED receiverVars
    \/ FailFrame /\ UNCHANGED receiverVars
    \/ FinishFrame /\ UNCHANGED receiverVars

\* The steps of run_media_loop ...
ReceiverStep ==
    \/ \E d \in dgrams : DiscardData(d) /\ UNCHANGED senderVars
    \/ \E d \in dgrams : RejectStreamType(d) /\ UNCHANGED senderVars
    \/ \E d \in dgrams : SkipOutOfTurn(d) /\ UNCHANGED senderVars
    \/ \E d \in dgrams : KeepRow(d) /\ UNCHANGED senderVars
    \/ \E d \in dgrams : DropDecoder(d) /\ UNCHANGED senderVars
    \/ \E d \in dgrams : EmitFrame(d) /\ UNCHANGED senderVars
    \/ \E d \in dgrams : DieDecoding(d) /\ UNCHANGED senderVars
    \/ \E d \in dgrams : DiscardMixed(d) /\ UNCHANGED senderVars
    \/ \E d \in dgrams : handle_audio_packet(d) /\ UNCHANGED senderVars
    \/ FrameQueued /\ UNCHANGED senderVars
    \/ FrameUnwanted /\ UNCHANGED senderVars
    \/ AudioQueued /\ UNCHANGED senderVars
    \/ handle_stream_fin_packet /\ UNCHANGED senderVars

\* ... and those of the application behind it.
Consumer ==
    \/ TakeFrame /\ UNCHANGED senderVars
    \/ TakeAudio /\ UNCHANGED senderVars
    \/ Detach /\ UNCHANGED senderVars

Network ==
    \/ \E d \in dgrams : LoseDatagram(d)
    \/ ChangeSenderLimit /\ UNCHANGED <<senderVars, receiverVars>>
    \/ ChangeReceiverLimit /\ UNCHANGED <<senderVars, receiverVars>>

Next == SenderCall \/ SenderStep \/ ReceiverStep \/ Consumer \/ Network

Spec == Init /\ [][Next]_vars

\* The runtime polls a send_frame future that was started, the receive loop
\* is a task of its own, and the application reads its channels.  Nothing
\* obliges the application to call again, or the network to lose anything.
Fairness ==
    /\ WF_vars(SenderStep)
    /\ WF_vars(ReceiverStep)
    /\ WF_vars(TakeFrame /\ UNCHANGED senderVars)
    /\ WF_vars(TakeAudio /\ UNCHANGED senderVars)

FairSpec == Spec /\ Fairness

(***************************************************************************)
(* Properties.                                                             *)
(***************************************************************************)
\* The types of every variable.
TypeOK == NetTypeOK /\ SenderTypeOK /\ ReceiverTypeOK

\* The decoder a stream keeps between packets is always the decoder of the
\* frame the stream waits for, so the branch of handle_data_packet that
\* replaces the decoder of another frame is never taken.
DecoderIsCurrent ==
    \A s \in StreamIds :
        rDec[s] # NoDecoder => rType[s] = "video" /\ rDec[s].index = rNext[s]

\* An emitted frame is a frame the application submitted on that stream
\* under that index; only an index two calls used can yield anything else
\* (a failed or dropped send_frame leaves its index to the next call).
FramesAreSubmitted ==
    \A k \in 1..Len(emitted) :
        LET e    == emitted[k]
            same == {c \in calls : c.stream = e.stream /\ c.index = e.index}
        IN  \/ \E c \in same : c.call = e.call
            \/ e.call = Garbled /\ \E c, d \in same : c.call # d.call

\* The inductive invariant behind the three properties of emitted frames:
\* every droplet in flight, being sent or stored in a decoder stems from a
\* call for the stream and the index it is filed under.
Submitted(c, s, i) == \E k \in calls : k.call = c /\ k.stream = s /\ k.index = i

DropletsAreSubmitted ==
    /\ \A d \in dgrams : d.kind = "data" => Submitted(d.call, d.stream, d.index)
    /\ ~Idle => Submitted(sending.call, sending.stream, sending.index)
    /\ \A s \in StreamIds : \A r \in rDec[s].rows : Submitted(r.call, s, rDec[s].index)

WaitIsOnStream == rWait.chan = "video" => rWait.stream \in StreamIds

SessionInv ==
    /\ TypeOK
    /\ DropletsAreSubmitted
    /\ DecoderIsCurrent
    /\ FramesAreSubmitted
    /\ WaitIsOnStream
    /\ \A s \in StreamIds : IsFiniteSet(rWin[s])
    /\ \A s \in StreamIds : rDec[s] # NoDecoder => rDec[s].pkt # 0

\* The session implements the frame stream: next_frame_index of the receiver
\* counts what it emitted since the stream was last finished.
Frames == INSTANCE FrameStream WITH
              Streams <- StreamIds, Frame <- Call,
              submitted <- calls, emitted <- emitted, nextOut <- rNext

RefinesFrameStream == Frames!Spec

\* As long as no send_frame fails or is dropped and streams are opened before
\* use, no input of the peer ends the receive loop: the two registries never
\* disagree on a type and no block mixes two frames.
ReceiverSurvives == rLoop = "running"

\* A frame index names one frame of its stream.
IndexNamesOneFrame ==
    \A c, d \in calls : c.stream = d.stream /\ c.index = d.index => c = d

\* Feedback never speaks of a frame the sender has not begun, so the test
\* frame_index <= frame_index of drain_control_channel drops nothing.
FeedbackNotFromFuture ==
    \A i \in 1..Len(toSend) :
        toSend[i].kind \in {"F", "T"} => toSend[i].index <= sNext[toSend[i].stream]

\* Streams are opened before they are used.
StreamsOpened == ~ImplicitStreams

\* Every send_frame that starts runs to its end: no future is dropped and the
\* sender's path MTU stays what it is.
SendsFinish == ~AllowCancel /\ \A a, b \in SenderLimits : a = b

\* The inductive invariant, when StreamsOpened, of everything that crosses the
\* connection: an id not yet handed out is free at both ends, datagrams are of
\* their stream's type, the receiver's type of a stream is the sender's, and
\* neither a call nor an answer is ahead of the sender's next_frame_index.
RegistriesAgree ==
    /\ \A s \in StreamIds : s >= nextStreamId => sType[s] = "none"
    /\ \A s \in StreamIds : rType[s] \in {"none", sType[s]}
    /\ \A c \in calls : sType[c.stream] = "video" /\ c.index <= sNext[c.stream]
    /\ \A d \in dgrams : sType[d.stream] = IF d.kind = "data" THEN "video" ELSE "audio"
    /\ rWait.chan = "video" =>
          sType[rWait.stream] = "video" /\ rWait.index <= sNext[rWait.stream]
    /\ \A i \in 1..Len(toSend) : toSend[i].kind \in {"F", "T"} =>
          /\ sType[toSend[i].stream] = "video"
          /\ toSend[i].index <= sNext[toSend[i].stream]
    /\ ~Idle => sending.index = sNext[sending.stream]

\* What is inductive in addition when SendsFinish: only the call in progress
\* has the index its stream is at, its droplets fit the path, and every
\* droplet's geometry is one a decoder can be created for.
SendsInTurn ==
    /\ IndexNamesOneFrame
    /\ \A c \in calls :
          /\ c.call # Garbled
          /\ c.index = sNext[c.stream] => ~Idle /\ sending.stream = c.stream
    /\ ~Idle => /\ SizeAllowed(sending.size)
                /\ sending.pkt = PacketSize(sending.size, sLimit)
                /\ CodecCreatable(sending.size, sending.pkt)
    /\ \A d \in dgrams : d.kind = "data" => CodecCreatable(d.size, d.pkt)
    /\ ReceiverSurvives

\* The redundancy a stream starts from stays between 1.0 and MAX_REDUNDANCY,
\* whatever sequence of feedback, telemetry and failed calls led to it.
RedundancyInRange ==
    \A s \in StreamIds : sRed[s] \in Unit..MaxRedundancy

\* An update waiting for the encoder is the current target bitrate, and the
\* target stays within the AIMD range.
PendingIsTarget ==
    /\ pending \in {0, bitrate}
    /\ bitrate \in MinBitrate..MaxBitrate

\* Every emitted frame is one the sender submitted, never a mixture.
NothingGarbled == \A k \in 1..Len(emitted) : emitted[k].call # Garbled

\* Once send_frame has returned Ok, the frame reaches the application.
AcceptedFramesArrive ==
    \A c \in 1..MaxCalls :
        c \in accepted ~> \E k \in 1..Len(emitted) : emitted[k].call = c

\* A wait for room in an application channel ends.
LoopIsReleased == (rWait # NoWait) ~> (rWait = NoWait)
================================================================================
