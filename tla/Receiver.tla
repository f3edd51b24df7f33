-------------------------------- MODULE Receiver --------------------------------
(***************************************************************************)
(* SankakuReceiver::run_media_loop (session.rs): one task that takes a     *)
(* datagram or a control packet at a time and finishes its handler before  *)
(* the next.  The one place a handler waits is the send into a bounded     *)
(* channel of the application; while it waits (rWait) the loop does        *)
(* nothing else.  An error returned by a handler ends the loop for good.   *)
(*                                                                         *)
(* A connection carries one sender, so one session: the session table has  *)
(* a single entry and is left out.                                         *)
(***************************************************************************)
EXTENDS Fec, Transport

CONSTANTS
    ChannelCapacity,    \* 2048 in spawn_media_channels
    AudioSink,          \* was an audio channel passed to the loop?
    Jitters,            \* jitter_us values the arrival times may produce
    MaxFlushes,         \* bound on expiries of the 500 ms loss window
    AllowDetach         \* may the application drop its receiving ends?

ASSUME ReceiverAssumption ==
    /\ ChannelCapacity \in Nat \ {0}
    /\ AudioSink \in BOOLEAN
    /\ Jitters \subseteq Nat
    /\ MaxFlushes \in Nat
    /\ AllowDetach \in BOOLEAN

VARIABLES
    rLoop,          \* "running", or "dead" once run_media_loop returned
    rType,          \* StreamRegistry: type per id, "none" when absent
    rNext,          \* next_frame_index
    rDec,           \* decoder_state
    rWin,           \* loss_window: <<frame_index, seq_id>> seen
    rWait,          \* the channel send the loop is waiting in
    videoLen, audioLen,     \* frames queued in the two channels
    videoOpen, audioOpen,   \* does the application still hold its end?
    emitted,        \* history: frames handed to frame_tx, in order
    nFlushes        \* counter for the bound

receiverVars == <<rLoop, rType, rNext, rDec, rWin, rWait, videoLen, audioLen,
                  videoOpen, audioOpen, emitted, nFlushes>>

\* The content of a frame decoded from droplets of more than one call.
Garbled == 0

Decoder == [index : Nat, size : Nat, pkt : Nat, rows : SUBSET [call : Nat, seq : Nat]]
Emission == [stream : StreamIds, index : Nat, call : Nat]

NoWait == [chan |-> "none", stream |-> 1, index |-> 0, ideal |-> 0, used |-> 0]
Waiting(c, s, i, ideal, used) ==
    [chan |-> c, stream |-> s, index |-> i, ideal |-> ideal, used |-> used]

ReceiverTypeOK ==
    /\ rLoop \in {"running", "dead"}
    /\ rType \in [StreamIds -> {"none", "video", "audio"}]
    /\ rNext \in [StreamIds -> Nat]
    /\ rDec \in [StreamIds -> Decoder]
    /\ rWin \in [StreamIds -> SUBSET (Nat \X Nat)]
    /\ rWait \in [chan : {"none", "video", "audio"}, stream : Nat, index : Nat,
                  ideal : Nat, used : Nat]
    /\ videoLen \in 0..ChannelCapacity /\ audioLen \in 0..ChannelCapacity
    /\ videoOpen \in BOOLEAN /\ audioOpen \in BOOLEAN
    /\ emitted \in Seq(Emission)
    /\ nFlushes \in Nat

ReceiverInit ==
    /\ rLoop = "running"
    /\ rType = [s \in StreamIds |-> "none"]
    /\ rNext = [s \in StreamIds |-> 0]
    /\ rDec  = [s \in StreamIds |-> NoDecoder]
    /\ rWin  = [s \in StreamIds |-> {}]
    /\ rWait = NoWait
    /\ videoLen = 0 /\ audioLen = 0
    /\ videoOpen = TRUE /\ audioOpen = TRUE
    /\ emitted = <<>>
    /\ nFlushes = 0

Ready == rLoop = "running" /\ rWait = NoWait

(***************************************************************************)
(* handle_data_packet, split by the way it leaves.                         *)
(***************************************************************************)
TakeDatagram(d, k) ==
    /\ Ready
    /\ Deliverable(d) /\ d.kind = k
    /\ dgrams' = dgrams \ {d}
    /\ UNCHANGED <<toRecv, sLimit, rLimit, lost>>

\* The geometry checks before the stream is looked up.
\* Mutant: a packet as large as the limit is refused.
HeaderBelowLimit(d) == SizeAllowed(d.size) /\ d.pkt \in 1..(rLimit - 1)

HeaderAccepted(d) == SizeAllowed(d.size) /\ d.pkt \in 1..rLimit

DiscardData(d) ==
    /\ TakeDatagram(d, "data")
    /\ ~HeaderAccepted(d)
    /\ UNCHANGED <<receiverVars, toSend>>

\* ensure_with fails on an id registered as audio, and `?` ends the loop.
RejectStreamType(d) ==
    /\ TakeDatagram(d, "data")
    /\ HeaderAccepted(d)
    /\ rType[d.stream] = "audio"
    /\ rLoop' = "dead"
    /\ UNCHANGED <<rType, rNext, rDec, rWin, rWait, videoLen, audioLen, videoOpen,
                   audioOpen, emitted, nFlushes, toSend>>

\* maybe_flush_loss_ratio: all of 0..max_seq_id is expected of every frame
\* in the window.
ExpectedPackets(win) == UNION {{<<p[1], q>> : q \in 0..p[2]} : p \in win}

LossReport(s, win) ==
    LossFeedback(s, Cardinality(ExpectedPackets(win) \ win),
                    Cardinality(ExpectedPackets(win)))

\* The packet is registered and observed; the window expires or not (it
\* cannot with the first packet of a stream, whose arrival starts it).
Observe(d) ==
    LET s   == d.stream
        win == rWin[s] \cup {<<d.index, d.seq>>}
    IN  /\ rType' = [rType EXCEPT ![s] = "video"]
        /\ \/ /\ rWin' = [rWin EXCEPT ![s] = win]
              /\ UNCHANGED <<toSend, nFlushes>>
           \/ /\ rType[s] = "video"
              /\ nFlushes < MaxFlushes
              /\ nFlushes' = nFlushes + 1
              /\ rWin' = [rWin EXCEPT ![s] = {}]
              /\ toSend' = Append(toSend, LossReport(s, win))

AcceptData(d) ==
    /\ TakeDatagram(d, "data")
    /\ HeaderAccepted(d)
    /\ rType[d.stream] # "audio"
    /\ Observe(d)

\* Mutant: frames ahead of the next one are decoded as well.
NextIndexReached(d) == d.index >= rNext[d.stream]

NextIndexMatches(d) == d.index = rNext[d.stream]

\* Any frame but the next one is dropped, early or late.
SkipOutOfTurn(d) ==
    /\ AcceptData(d)
    /\ ~NextIndexMatches(d)
    /\ UNCHANGED <<rLoop, rNext, rDec, rWait, videoLen, audioLen, videoOpen, audioOpen,
                   emitted>>

NeedsDecoder(d) == rDec[d.stream] = NoDecoder \/ rDec[d.stream].index # d.index

DecoderFor(d) ==
    IF NeedsDecoder(d)
    THEN [index |-> d.index, size |-> d.size, pkt |-> d.pkt, rows |-> {}]
    ELSE rDec[d.stream]

Row(d) == [call |-> d.call, seq |-> d.seq]

Outcomes(d) == DecodeOutcomes(DecoderFor(d), Row(d), DropletLen(d.size, d.pkt, d.seq))

Rows(d) == DecoderFor(d).rows \cup {Row(d)}

FeedDecoder(d, outcome) ==
    /\ AcceptData(d)
    /\ NextIndexMatches(d)
    /\ NeedsDecoder(d) => CodecCreatable(d.size, d.pkt)
    /\ outcome \in Outcomes(d)
    /\ UNCHANGED <<videoLen, audioLen, videoOpen, audioOpen>>

KeepRow(d) ==
    /\ FeedDecoder(d, "NeedMore")
    /\ rDec' = [rDec EXCEPT ![d.stream] = [DecoderFor(d) EXCEPT !.rows = Rows(d)]]
    /\ UNCHANGED <<rLoop, rNext, rWait, emitted>>

\* A decoder error drops the decoder with everything it had.
DropDecoder(d) ==
    /\ FeedDecoder(d, "Err")
    /\ rDec' = [rDec EXCEPT ![d.stream] = NoDecoder]
    /\ UNCHANGED <<rLoop, rNext, rWait, emitted>>

Mixed(d) == \E r \in Rows(d) : r.call # d.call

\* What recover() and restore_frame give back.
Content(d) == IF Mixed(d) THEN Garbled ELSE d.call

\* used_packets is the sequence id that completed the frame, plus one.
UsedPackets(d) == d.seq + 1

\* Mutant: the finished decoder is kept.
KeepDecoder(d) == rDec

DecoderAfterSuccess(d) == [rDec EXCEPT ![d.stream] = NoDecoder]

\* Mutant: the stream keeps waiting for the frame it has just emitted.
KeepIndex(d) == rNext

AdvanceIndex(d) == [rNext EXCEPT ![d.stream] = @ + 1]

\* Mutant: the frame is labelled after next_frame_index was advanced.
InboundAfterAdvance(d) ==
    [stream |-> d.stream, index |-> d.index + 1, call |-> Content(d)]

Inbound(d) == [stream |-> d.stream, index |-> d.index, call |-> Content(d)]

EmitFrame(d) ==
    /\ FeedDecoder(d, "Success")
    /\ rDec' = DecoderAfterSuccess(d)
    /\ rNext' = AdvanceIndex(d)
    /\ emitted' = Append(emitted, Inbound(d))
    /\ rWait' = Waiting("video", d.stream, d.index,
                        NeededPackets(DecoderFor(d).size, DecoderFor(d).pkt),
                        UsedPackets(d))
    /\ UNCHANGED rLoop

\* The errors that `?` turns into the end of the loop: the decoder cannot
\* be created, or a mixed block fails restore_frame or the envelope parser.
Fatal(d) ==
    IF NeedsDecoder(d) /\ ~CodecCreatable(d.size, d.pkt) THEN TRUE
    ELSE "Success" \in Outcomes(d) /\ Mixed(d)

DieDecoding(d) ==
    /\ AcceptData(d)
    /\ NextIndexMatches(d)
    /\ Fatal(d)
    /\ rDec' = [rDec EXCEPT ![d.stream] = NoDecoder]
    /\ rLoop' = "dead"
    /\ UNCHANGED <<rNext, rWait, emitted, videoLen, audioLen, videoOpen, audioOpen>>

\* A mixed block may also restore to another kind than the header says.
DiscardMixed(d) ==
    /\ FeedDecoder(d, "Success")
    /\ Mixed(d)
    /\ rDec' = DecoderAfterSuccess(d)
    /\ UNCHANGED <<rLoop, rNext, rWait, emitted>>

(***************************************************************************)
(* The rest of handle_data_packet, after frame_tx.send().await.            *)
(***************************************************************************)
LossPpm(ideal, used) ==
    IF ideal = 0 \/ used <= ideal THEN 0 ELSE ((used - ideal) * 1000000) \div ideal

\* Mutant: one frame too few.
RoomButForOne(len) == len + 1 < ChannelCapacity

HasRoom(len) == len < ChannelCapacity

FrameQueued ==
    /\ rLoop = "running" /\ rWait.chan = "video"
    /\ videoOpen /\ HasRoom(videoLen)
    /\ videoLen' = videoLen + 1
    /\ \E j \in Jitters :
          toSend' = Append(Append(toSend,
                        FecFeedback(rWait.stream, rWait.index, rWait.ideal, rWait.used)),
                        Telemetry(rWait.stream, rWait.index, LossPpm(rWait.ideal, rWait.used), j))
    /\ rWait' = NoWait
    /\ UNCHANGED <<rLoop, rType, rNext, rDec, rWin, audioLen, videoOpen, audioOpen,
                   emitted, nFlushes, dgrams, toRecv, sLimit, rLimit, lost>>

\* The application dropped its receiver: no feedback is sent.
FrameUnwanted ==
    /\ rLoop = "running" /\ rWait.chan = "video"
    /\ ~videoOpen
    /\ rWait' = NoWait
    /\ UNCHANGED <<rLoop, rType, rNext, rDec, rWin, videoLen, audioLen, videoOpen,
                   audioOpen, emitted, nFlushes, netVars>>

(***************************************************************************)
(* handle_audio_packet: a type mismatch is ignored.                        *)
(***************************************************************************)
handle_audio_packet(d) ==
    /\ TakeDatagram(d, "audio")
    /\ rType' = [rType EXCEPT ![d.stream] = IF @ = "none" THEN "audio" ELSE @]
    /\ rWait' = IF AudioSink THEN Waiting("audio", d.stream, 0, 0, 0) ELSE NoWait
    /\ UNCHANGED <<rLoop, rNext, rDec, rWin, videoLen, audioLen, videoOpen, audioOpen,
                   emitted, nFlushes, toSend>>

AudioQueued ==
    /\ rLoop = "running" /\ rWait.chan = "audio"
    /\ ~audioOpen \/ HasRoom(audioLen)
    /\ audioLen' = IF audioOpen THEN audioLen + 1 ELSE audioLen
    /\ rWait' = NoWait
    /\ UNCHANGED <<rLoop, rType, rNext, rDec, rWin, videoLen, videoOpen, audioOpen,
                   emitted, nFlushes, netVars>>

(***************************************************************************)
(* handle_stream_fin_packet: the stream's whole entry goes; an ACK leaves. *)
(***************************************************************************)
handle_stream_fin_packet ==
    /\ Ready
    /\ toRecv # <<>>
    /\ toRecv' = Tail(toRecv)
    /\ LET s == Head(toRecv)
       IN  /\ rType' = [rType EXCEPT ![s] = "none"]
           /\ rNext' = [rNext EXCEPT ![s] = 0]
           /\ rDec'  = [rDec EXCEPT ![s] = NoDecoder]
           /\ rWin'  = [rWin EXCEPT ![s] = {}]
           /\ toSend' = Append(toSend, Ack(s))
    /\ UNCHANGED <<rLoop, rWait, videoLen, audioLen, videoOpen, audioOpen, emitted,
                   nFlushes, dgrams, sLimit, rLimit, lost>>

(***************************************************************************)
(* The application at the other end of the channels.                       *)
(***************************************************************************)
TakeFrame ==
    /\ videoOpen /\ videoLen > 0
    /\ videoLen' = videoLen - 1
    /\ UNCHANGED <<rLoop, rType, rNext, rDec, rWin, rWait, audioLen, videoOpen, audioOpen,
                   emitted, nFlushes, netVars>>

TakeAudio ==
    /\ audioOpen /\ audioLen > 0
    /\ audioLen' = audioLen - 1
    /\ UNCHANGED <<rLoop, rType, rNext, rDec, rWin, rWait, videoLen, videoOpen, audioOpen,
                   emitted, nFlushes, netVars>>

Detach ==
    /\ AllowDetach
    /\ \/ videoOpen /\ videoOpen' = FALSE /\ UNCHANGED audioOpen
       \/ audioOpen /\ audioOpen' = FALSE /\ UNCHANGED videoOpen
    /\ UNCHANGED <<rLoop, rType, rNext, rDec, rWin, rWait, videoLen, audioLen, emitted,
                   nFlushes, netVars>>
================================================================================
