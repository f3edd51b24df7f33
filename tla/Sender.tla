--------------------------------- MODULE Sender ---------------------------------
(***************************************************************************)
(* SankakuSender (session.rs).  Every public method takes &mut self, so    *)
(* calls never overlap; a send_frame in progress is `sending`, and the     *)
(* other calls wait for it.  The network and the receiver run in between.  *)
(***************************************************************************)
EXTENDS RateControl, Transport

CONSTANTS
    InitialRedundancy,  \* TransportConfig::initial_redundancy
    FrameSizes,         \* protected block sizes the application produces
    ImplicitStreams,    \* does it send on ids it never opened?
    AudioAllowed,       \* does it send audio?
    AllowCancel,        \* may it drop a send_frame future?
    ExternalTelemetry,  \* set of <<loss_ppm, jitter_us>> for apply_network_telemetry
    MaxCalls, MaxFins   \* bounds on media sends and on stream-finish packets

ASSUME SenderAssumption ==
    /\ InitialRedundancy \in Nat
    /\ FrameSizes \subseteq Nat
    /\ {ImplicitStreams, AudioAllowed, AllowCancel} \subseteq BOOLEAN
    /\ ExternalTelemetry \subseteq Nat \X Nat
    /\ MaxCalls \in Nat /\ MaxFins \in Nat

VARIABLES
    nextStreamId,   \* next_stream_id
    sType,          \* StreamRegistry: type per id, "none" when absent
    sNext,          \* next_frame_index
    sRed,           \* redundancy
    sending,        \* the locals of the send_frame call in progress
    bitrate,        \* target_bitrate_bps
    pending,        \* pending_bitrate_update_bps, 0 for None
    calls,          \* history: every frame a send_frame call took on
    accepted,       \* history: the calls that returned Ok
    nCalls, nFins   \* counters for the bounds; nCalls also names calls

senderVars == <<nextStreamId, sType, sNext, sRed, sending, bitrate, pending,
                calls, accepted, nCalls, nFins>>

StreamType == {"none", "video", "audio"}

NoSend == [call |-> 0, stream |-> 1, index |-> 0, size |-> 0, pkt |-> 0,
           total |-> 0, seq |-> 0, red |-> 0]

Idle == sending.call = 0

\* A frame as the application submitted it, with its FEC budget.
Call == [call : Nat, stream : StreamIds, index : Nat, needed : Nat, total : Nat]

SenderTypeOK ==
    /\ nextStreamId \in StreamIds
    /\ sType \in [StreamIds -> StreamType]
    /\ sNext \in [StreamIds -> Nat]
    /\ sRed \in [StreamIds -> Nat]
    /\ sending \in [call : Nat, stream : Nat, index : Nat, size : Nat, pkt : Nat,
                    total : Nat, seq : Nat, red : Nat]
    /\ bitrate \in Nat /\ pending \in Nat
    /\ calls \subseteq Call /\ accepted \subseteq Nat
    /\ nCalls \in Nat /\ nFins \in Nat

FreshRedundancy == Clamp(InitialRedundancy, Unit, MaxRedundancy)

SenderInit ==
    /\ nextStreamId \in StreamIds          \* random seed, at least 1
    /\ sType = [s \in StreamIds |-> "none"]
    /\ sNext = [s \in StreamIds |-> 0]
    /\ sRed  = [s \in StreamIds |-> FreshRedundancy]
    /\ sending = NoSend
    /\ bitrate = clamp_video_bitrate(DefaultBitrate)
    /\ pending = 0
    /\ calls = {} /\ accepted = {}
    /\ nCalls = 0 /\ nFins = 0

(***************************************************************************)
(* StreamRegistry.                                                         *)
(***************************************************************************)
\* ensure_with: the id is free or already of this type.
\* Mutant: the type of a registered stream is not compared.
AnyTypeAgrees(type, s, t) == TRUE

TypeAgrees(type, s, t) == type[s] \in {"none", t}

MayUse(s, t) ==
    /\ TypeAgrees(sType, s, t)
    /\ ImplicitStreams \/ sType[s] # "none"

\* open_stream_with_type: checked_add refuses u32::MAX itself, and insert
\* replaces whatever an implicit send left under the id.
OpenStream(t) ==
    /\ Idle
    /\ nextStreamId < MaxStreamId
    /\ nextStreamId' = nextStreamId + 1
    /\ sType' = [sType EXCEPT ![nextStreamId] = t]
    /\ sNext' = [sNext EXCEPT ![nextStreamId] = 0]
    /\ sRed'  = [sRed EXCEPT ![nextStreamId] = FreshRedundancy]
    /\ UNCHANGED <<sending, bitrate, pending, calls, accepted, nCalls, nFins, netVars>>

(***************************************************************************)
(* send_frame: StartFrame takes the call up to the first droplet,          *)
(* DrainControl is one packet of drain_control_channel, SendDroplet one    *)
(* turn of send_chunk's loop, FinishFrame the bookkeeping after it.        *)
(***************************************************************************)
StartFrame(s, size) ==
    LET pkt    == PacketSize(size, sLimit)
        needed == NeededPackets(size, pkt)
        total  == TotalPackets(needed, sRed[s])
    IN  /\ Idle
        /\ nCalls < MaxCalls
        /\ MayUse(s, "video")
        /\ SizeAllowed(size) /\ CodecCreatable(size, pkt)
        /\ nCalls' = nCalls + 1
        /\ sType' = [sType EXCEPT ![s] = "video"]
        /\ sending' = [call |-> nCalls + 1, stream |-> s, index |-> sNext[s],
                       size |-> size, pkt |-> pkt, total |-> total,
                       seq |-> 0, red |-> sRed[s]]
        /\ calls' = calls \cup {[call |-> nCalls + 1, stream |-> s, index |-> sNext[s],
                                 needed |-> needed, total |-> total]}
        /\ UNCHANGED <<nextStreamId, sNext, sRed, bitrate, pending, accepted, nFins, netVars>>

\* The size or the codec is refused after ensure_with registered the stream.
RefuseFrame(s, size) ==
    /\ Idle
    /\ MayUse(s, "video")
    /\ ~(SizeAllowed(size) /\ CodecCreatable(size, PacketSize(size, sLimit)))
    /\ sType' = [sType EXCEPT ![s] = "video"]
    /\ UNCHANGED <<nextStreamId, sNext, sRed, sending, bitrate, pending, calls,
                   accepted, nCalls, nFins, netVars>>

\* A packet of another stream, or about a frame not begun, is dropped.
Concerns(p) ==
    /\ p.stream = sending.stream
    /\ p.kind \in {"F", "T"} => p.index <= sending.index

\* A changed target waits for take_bitrate_update_bps.
\* Mutant: the target is recorded before it is changed.
NoteOldBitrate(new) == IF new # bitrate THEN bitrate ELSE pending

NoteBitrate(new) == IF new # bitrate THEN new ELSE pending

DrainControl ==
    /\ ~Idle /\ sending.seq < sending.total
    /\ toSend # <<>>
    /\ toSend' = Tail(toSend)
    /\ LET p == Head(toSend)
       IN  \/ /\ Concerns(p) /\ p.kind = "F"
              /\ sending' = [sending EXCEPT !.red = adjust_redundancy(@, p.x, p.y)]
              /\ UNCHANGED <<bitrate, pending>>
           \/ /\ Concerns(p) /\ p.kind = "T"
              /\ sending' = [sending EXCEPT
                                !.red = adjust_redundancy_with_telemetry(@, p.x, p.y)]
              /\ UNCHANGED <<bitrate, pending>>
           \/ /\ Concerns(p) /\ p.kind = "B"
              /\ bitrate' \in apply_aimd_bitrate(bitrate, p.x, p.y)
              /\ pending' = NoteBitrate(bitrate')
              /\ UNCHANGED sending
           \/ /\ ~Concerns(p) \/ p.kind = "A"
              /\ UNCHANGED <<sending, bitrate, pending>>
    /\ UNCHANGED <<nextStreamId, sType, sNext, sRed, calls, accepted, nCalls, nFins,
                   dgrams, toRecv, sLimit, rLimit, lost>>

Droplet ==
    [kind |-> "data", call |-> sending.call, stream |-> sending.stream,
     index |-> sending.index, seq |-> sending.seq, size |-> sending.size,
     pkt |-> sending.pkt]

DropletFits == DropletLen(sending.size, sending.pkt, sending.seq) <= sLimit

SendDroplet ==
    /\ ~Idle /\ sending.seq < sending.total
    /\ DropletFits
    /\ dgrams' = dgrams \cup {Droplet}
    /\ sending' = [sending EXCEPT !.seq = @ + 1]
    /\ UNCHANGED <<nextStreamId, sType, sNext, sRed, bitrate, pending, calls, accepted,
                   nCalls, nFins, toRecv, toSend, sLimit, rLimit, lost>>

\* send_datagram answers TooLarge and the `?` leaves send_frame: neither the
\* frame index nor the redundancy is written back.
FailFrame ==
    /\ ~Idle /\ sending.seq < sending.total
    /\ ~DropletFits
    /\ sending' = NoSend
    /\ UNCHANGED <<nextStreamId, sType, sNext, sRed, bitrate, pending, calls, accepted,
                   nCalls, nFins, netVars>>

\* The caller drops the future while the pacer sleeps after a droplet.
CancelFrame ==
    /\ AllowCancel
    /\ ~Idle /\ sending.seq > 0
    /\ sending' = NoSend
    /\ UNCHANGED <<nextStreamId, sType, sNext, sRed, bitrate, pending, calls, accepted,
                   nCalls, nFins, netVars>>

\* Mutant: the frame index is not advanced.
SameFrameIndex(i) == i

NextFrameIndex(i) == i + 1

FinishFrame ==
    /\ ~Idle /\ sending.seq = sending.total
    /\ sNext' = [sNext EXCEPT ![sending.stream] = NextFrameIndex(@)]
    /\ sRed'  = [sRed EXCEPT ![sending.stream] = Clamp(sending.red, Unit, MaxRedundancy)]
    /\ accepted' = accepted \cup {sending.call}
    /\ sending' = NoSend
    /\ UNCHANGED <<nextStreamId, sType, bitrate, pending, calls, nCalls, nFins, netVars>>

(***************************************************************************)
(* The other public calls.                                                 *)
(***************************************************************************)
send_audio_frame(s) ==
    /\ Idle
    /\ AudioAllowed /\ nCalls < MaxCalls
    /\ MayUse(s, "audio")
    /\ nCalls' = nCalls + 1
    /\ sType' = [sType EXCEPT ![s] = "audio"]
    /\ dgrams' = dgrams \cup {[kind |-> "audio", call |-> nCalls + 1, stream |-> s,
                               index |-> 0, seq |-> 0, size |-> 0, pkt |-> 0]}
    /\ UNCHANGED <<nextStreamId, sNext, sRed, sending, bitrate, pending, calls, accepted,
                   nFins, toRecv, toSend, sLimit, rLimit, lost>>

\* The datagram is too large, after ensure_with registered the stream.
RefuseAudio(s) ==
    /\ Idle
    /\ AudioAllowed
    /\ MayUse(s, "audio")
    /\ sType' = [sType EXCEPT ![s] = "audio"]
    /\ UNCHANGED <<nextStreamId, sNext, sRed, sending, bitrate, pending, calls, accepted,
                   nCalls, nFins, netVars>>

\* Any id may be finished; the sender keeps its own entry.
send_stream_fin(s) ==
    /\ Idle
    /\ nFins < MaxFins
    /\ nFins' = nFins + 1
    /\ toRecv' = Append(toRecv, s)
    /\ UNCHANGED <<nextStreamId, sType, sNext, sRed, sending, bitrate, pending, calls,
                   accepted, nCalls, dgrams, toSend, sLimit, rLimit, lost>>

apply_network_telemetry(s, loss_ppm, jitter_us) ==
    /\ Idle
    /\ sType[s] # "none"
    /\ sRed' = [sRed EXCEPT ![s] = adjust_redundancy_with_telemetry(@, loss_ppm, jitter_us)]
    /\ UNCHANGED <<nextStreamId, sType, sNext, sending, bitrate, pending, calls, accepted,
                   nCalls, nFins, netVars>>

take_bitrate_update_bps ==
    /\ Idle
    /\ pending # 0
    /\ pending' = 0
    /\ UNCHANGED <<nextStreamId, sType, sNext, sRed, sending, bitrate, calls, accepted,
                   nCalls, nFins, netVars>>
================================================================================
