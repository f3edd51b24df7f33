----------------------------- MODULE SessionProofs -----------------------------
(***************************************************************************)
(* Safety of the media session for every value of the constants: any       *)
(* number of streams, frame sizes, calls, droplets, lost and reordered     *)
(* datagrams, failed and dropped sends and path MTUs.                      *)
(***************************************************************************)
EXTENDS Session, FiniteSetTheorems, TLAPS

(***************************************************************************)
(* The arithmetic of the droplet geometry.                                 *)
(***************************************************************************)
\* Rounding a quotient up stays among the naturals, and reaches 1 as soon
\* as there is something to divide (div_ceil in send_chunk).
LEMMA CeilDivNat ==
    ASSUME NEW a \in Nat, NEW b \in Nat \ {0}
    PROVE  /\ CeilDiv(a, b) \in Nat
           /\ a # 0 => CeilDiv(a, b) # 0
  <1>1. (a + b - 1) \div b \in Nat
    OBVIOUS
  <1>2. a # 0 => (a + b - 1) \div b # 0
    OBVIOUS
  <1> QED  BY <1>1, <1>2 DEF CeilDiv

\* Clamping a natural between naturals gives a natural.
LEMMA ClampNat ==
    ASSUME NEW x \in Nat, NEW lo \in Nat, NEW hi \in Nat
    PROVE  Clamp(x, lo, hi) \in Nat
  BY DEF Clamp

\* send_chunk never cuts a block into empty packets.
LEMMA PacketSizePositive ==
    ASSUME NEW size \in Nat \ {0}, NEW limit \in Nat \ {0}
    PROVE  PacketSize(size, limit) \in Nat \ {0}
  <1>1. CeilDiv(size, 2) \in Nat \ {0}
    BY CeilDivNat
  <1>2. target_packet_size(limit) \in Nat \ {0}
    BY FecAssumption DEF target_packet_size, Smaller
  <1> QED  BY <1>1, <1>2 DEF PacketSize

\* The number of droplets send_chunk sends is a natural number.
LEMMA TotalPacketsNat ==
    ASSUME NEW needed \in Nat, NEW red \in Nat
    PROVE  TotalPackets(needed, red) \in Nat
  <1>1. Clamp(red, Unit, MaxRedundancy) \in Nat
    BY ClampNat, FecAssumption
  <1>2. needed * Clamp(red, Unit, MaxRedundancy) \in Nat
    BY <1>1
  <1> QED  BY <1>2, CeilDivNat, FecAssumption DEF TotalPackets

\* adjust_redundancy keeps the redundancy a natural number.
LEMMA RedundancyNat ==
    ASSUME NEW red \in Nat, NEW x, NEW y
    PROVE  /\ adjust_redundancy(red, x, y) \in Nat
           /\ adjust_redundancy_with_telemetry(red, x, y) \in Nat
  <1>1. \A u, v : adjust_redundancy(red, u, v) \in Nat
    <2> SUFFICES ASSUME NEW u, NEW v
                 PROVE  adjust_redundancy(red, u, v) \in Nat
      OBVIOUS
    <2>1. SubFloor(red, DecreaseStep) \in Nat /\ red + IncreaseStep \in Nat
      BY RateAssumption DEF SubFloor
    <2>2. \A z \in Nat : Clamp(z, MinPolicy, MaxPolicy) \in Nat
      BY ClampNat, RateAssumption
    <2> QED  BY <2>1, <2>2 DEF adjust_redundancy
  <1> QED  BY <1>1 DEF adjust_redundancy_with_telemetry

\* apply_aimd_bitrate answers bitrates between the two limits.
LEMMA BitrateInRange ==
    ASSUME NEW b \in Nat, NEW x, NEW y, NEW r \in apply_aimd_bitrate(b, x, y)
    PROVE  r \in MinBitrate..MaxBitrate
  <1>1. \A c \in Nat : clamp_video_bitrate(c) \in MinBitrate..MaxBitrate
    BY RateAssumption DEF clamp_video_bitrate, Clamp
  <1>2. (b * 4) \div 5 \in Nat /\ CeilDiv(b * 4, 5) \in Nat /\ b + BitrateStep \in Nat
    BY CeilDivNat, RateAssumption
  <1> QED  BY <1>1, <1>2 DEF apply_aimd_bitrate

\* The packets a loss window expects are finitely many, so both numbers of a
\* loss report exist (maybe_flush_loss_ratio).
LEMMA ExpectedFinite ==
    ASSUME NEW win \in SUBSET (Nat \X Nat), IsFiniteSet(win)
    PROVE  /\ Cardinality(ExpectedPackets(win)) \in Nat
           /\ Cardinality(ExpectedPackets(win) \ win) \in Nat
  <1> DEFINE upTo(p) == {<<p[1], q>> : q \in 0..p[2]}
             family  == {upTo(p) : p \in win}
  <1>1. ASSUME NEW p \in win PROVE IsFiniteSet(upTo(p))
    <2> DEFINE f == [q \in 0..p[2] |-> <<p[1], q>>]
    <2>0. p \in Nat \X Nat
      OBVIOUS
    <2>1. IsFiniteSet(0..p[2])
      <3>1. 0 \in Int /\ p[2] \in Int
        BY <2>0
      <3> HIDE <2>0
      <3> QED  BY <3>1, FS_Interval
    <2>2. f \in Surjection(0..p[2], upTo(p))
      BY DEF Surjection
    <2> QED  BY <2>1, <2>2, FS_Surjection
  <1>2. IsFiniteSet(family)
    <2> DEFINE g == [p \in win |-> upTo(p)]
    <2>1. g \in Surjection(win, family)
      BY DEF Surjection
    <2> QED  BY <2>1, FS_Surjection
  <1>3. \A T \in family : IsFiniteSet(T)
    BY <1>1
  <1>4. IsFiniteSet(ExpectedPackets(win))
    <2>1. ExpectedPackets(win) = UNION family
      BY DEF ExpectedPackets
    <2> HIDE DEF family
    <2> QED  BY <1>2, <1>3, <2>1, FS_UNION
  <1> HIDE DEF family
  <1> QED  BY <1>4, FS_CardinalityType, FS_Difference

(***************************************************************************)
(* Types.                                                                  *)
(***************************************************************************)
\* Every variable starts with its type.
LEMMA InitTypeOK == Init => TypeOK
  <1> SUFFICES ASSUME Init PROVE TypeOK
    OBVIOUS
  <1>1. NetTypeOK
    BY DEF Init, NetInit, NetTypeOK
  <1>2. SenderTypeOK
    <2>1. FreshRedundancy \in Nat
      BY ClampNat, FecAssumption, SenderAssumption DEF FreshRedundancy
    <2>2. clamp_video_bitrate(DefaultBitrate) \in Nat
      BY ClampNat, RateAssumption DEF clamp_video_bitrate
    <2> QED  BY <2>1, <2>2 DEF Init, SenderInit, SenderTypeOK, NoSend, StreamType
  <1>3. ReceiverTypeOK
    BY ReceiverAssumption
       DEF Init, ReceiverInit, ReceiverTypeOK, NoWait, NoDecoder, Decoder
  <1> QED  BY <1>1, <1>2, <1>3 DEF TypeOK

\* A step that leaves a component's variables alone leaves their types alone.
LEMMA UnchangedTypeOK ==
    /\ NetTypeOK /\ UNCHANGED netVars => NetTypeOK'
    /\ SenderTypeOK /\ UNCHANGED senderVars => SenderTypeOK'
    /\ ReceiverTypeOK /\ UNCHANGED receiverVars => ReceiverTypeOK'
  <1>1. NetTypeOK /\ UNCHANGED netVars => NetTypeOK'
    BY DEF NetTypeOK, netVars
  <1>2. SenderTypeOK /\ UNCHANGED senderVars => SenderTypeOK'
    BY DEF SenderTypeOK, senderVars
  <1>3. ReceiverTypeOK /\ UNCHANGED receiverVars => ReceiverTypeOK'
    BY DEF ReceiverTypeOK, receiverVars
  <1> QED  BY <1>1, <1>2, <1>3

\* The calls of the application keep every variable in its type.
LEMMA CallTypeOK == TypeOK /\ SenderCall => TypeOK'
  <1> SUFFICES ASSUME TypeOK, SenderCall PROVE NetTypeOK' /\ SenderTypeOK'
    BY UnchangedTypeOK DEF TypeOK, SenderCall
  <1> USE DEF TypeOK
  <1>1. ASSUME NEW k \in {"video", "audio"}, OpenStream(k)
        PROVE  NetTypeOK' /\ SenderTypeOK'
    <2>1. FreshRedundancy \in Nat
      BY ClampNat, FecAssumption, SenderAssumption DEF FreshRedundancy
    <2>2. nextStreamId + 1 \in StreamIds
      BY <1>1, TransportAssumption DEF OpenStream, StreamIds, SenderTypeOK
    <2>3. SenderTypeOK'
      BY <1>1, <2>1, <2>2 DEF OpenStream, StreamType, SenderTypeOK
    <2> QED  BY <1>1, <2>3, UnchangedTypeOK DEF OpenStream
  <1>2. ASSUME NEW s \in StreamIds, NEW z \in FrameSizes, StartFrame(s, z)
        PROVE  NetTypeOK' /\ SenderTypeOK'
    <2> DEFINE pkt    == PacketSize(z, sLimit)
               needed == NeededPackets(z, pkt)
               total  == TotalPackets(needed, sRed[s])
    <2>1. /\ sending' = [call |-> nCalls + 1, stream |-> s, index |-> sNext[s],
                         size |-> z, pkt |-> pkt, total |-> total,
                         seq |-> 0, red |-> sRed[s]]
          /\ calls' = calls \cup {[call |-> nCalls + 1, stream |-> s, index |-> sNext[s],
                                   needed |-> needed, total |-> total]}
          /\ sType' = [sType EXCEPT ![s] = "video"]
          /\ nCalls' = nCalls + 1
          /\ UNCHANGED <<nextStreamId, sNext, sRed, bitrate, pending, accepted, nFins>>
      BY <1>2 DEF StartFrame
    <2>2. z \in Nat \ {0} /\ sLimit \in Nat \ {0}
      BY <1>2, TransportAssumption, FecAssumption
         DEF StartFrame, SizeAllowed, NetTypeOK
    <2>3. sRed[s] \in Nat /\ sNext[s] \in Nat /\ s \in Nat /\ nCalls + 1 \in Nat
      BY DEF SenderTypeOK, StreamIds
    <2>4. pkt \in Nat \ {0}
      BY <2>2, PacketSizePositive
    <2>5. needed \in Nat
      BY <2>2, <2>4, CeilDivNat DEF NeededPackets
    <2>6. total \in Nat
      BY <2>3, <2>5, TotalPacketsNat
    <2> HIDE DEF pkt, needed, total
    <2>7. sending' \in [call : Nat, stream : Nat, index : Nat, size : Nat, pkt : Nat,
                        total : Nat, seq : Nat, red : Nat]
      BY <2>1, <2>2, <2>3, <2>4, <2>6
    <2>8. calls' \subseteq Call
      BY <2>1, <2>3, <2>5, <2>6 DEF Call, SenderTypeOK
    <2>9. SenderTypeOK'
      BY <2>1, <2>3, <2>7, <2>8 DEF SenderTypeOK, StreamType
    <2> QED  BY <1>2, <2>9, UnchangedTypeOK DEF StartFrame
  <1>3. ASSUME NEW s \in StreamIds, NEW z \in FrameSizes, RefuseFrame(s, z)
        PROVE  NetTypeOK' /\ SenderTypeOK'
    <2>1. SenderTypeOK'
      BY <1>3 DEF RefuseFrame, StreamType, SenderTypeOK
    <2> QED  BY <1>3, <2>1, UnchangedTypeOK DEF RefuseFrame
  <1>4. ASSUME NEW s \in StreamIds, send_audio_frame(s)
        PROVE  NetTypeOK' /\ SenderTypeOK'
    <2>1. SenderTypeOK'
      BY <1>4 DEF send_audio_frame, StreamType, SenderTypeOK
    <2>2. [kind |-> "audio", call |-> nCalls + 1, stream |-> s, index |-> 0,
           seq |-> 0, size |-> 0, pkt |-> 0] \in Datagram
      BY DEF Datagram, SenderTypeOK
    <2>3. NetTypeOK'
      BY <1>4, <2>2 DEF send_audio_frame, NetTypeOK
    <2> QED  BY <2>1, <2>3
  <1>5. ASSUME NEW s \in StreamIds, RefuseAudio(s)
        PROVE  NetTypeOK' /\ SenderTypeOK'
    <2>1. SenderTypeOK'
      BY <1>5 DEF RefuseAudio, StreamType, SenderTypeOK
    <2> QED  BY <1>5, <2>1, UnchangedTypeOK DEF RefuseAudio
  <1>6. ASSUME NEW s \in StreamIds, send_stream_fin(s)
        PROVE  NetTypeOK' /\ SenderTypeOK'
    <2>1. SenderTypeOK'
      BY <1>6 DEF send_stream_fin, SenderTypeOK
    <2>2. NetTypeOK'
      BY <1>6 DEF send_stream_fin, NetTypeOK
    <2> QED  BY <2>1, <2>2
  <1>7. ASSUME NEW s \in StreamIds, NEW t \in ExternalTelemetry,
               apply_network_telemetry(s, t[1], t[2])
        PROVE  NetTypeOK' /\ SenderTypeOK'
    <2>1. SenderTypeOK'
      BY <1>7, RedundancyNat DEF apply_network_telemetry, SenderTypeOK
    <2> QED  BY <1>7, <2>1, UnchangedTypeOK DEF apply_network_telemetry
  <1>8. ASSUME take_bitrate_update_bps
        PROVE  NetTypeOK' /\ SenderTypeOK'
    <2>1. SenderTypeOK'
      BY <1>8 DEF take_bitrate_update_bps, SenderTypeOK
    <2> QED  BY <1>8, <2>1, UnchangedTypeOK DEF take_bitrate_update_bps
  <1>9. ASSUME CancelFrame
        PROVE  NetTypeOK' /\ SenderTypeOK'
    <2>1. SenderTypeOK'
      BY <1>9 DEF CancelFrame, NoSend, SenderTypeOK
    <2> QED  BY <1>9, <2>1, UnchangedTypeOK DEF CancelFrame
  <1> QED
    BY <1>1, <1>2, <1>3, <1>4, <1>6, <1>7, <1>8, <1>9, <1>5 DEF SenderCall

\* A call in progress is on a stream the sender registered.
LEMMA SendingStream ==
    ASSUME SessionInv, ~Idle
    PROVE  sending.stream \in StreamIds
  BY DEF SessionInv, DropletsAreSubmitted, Submitted, TypeOK, SenderTypeOK, Call

\* The steps of send_chunk keep every variable in its type.
LEMMA SendTypeOK == SessionInv /\ SenderStep => TypeOK'
  <1> SUFFICES ASSUME SessionInv, SenderStep PROVE NetTypeOK' /\ SenderTypeOK'
    BY UnchangedTypeOK DEF SessionInv, TypeOK, SenderStep
  <1>0. NetTypeOK /\ SenderTypeOK
    BY DEF SessionInv, TypeOK
  <1>1. CASE DrainControl
    <2>1. NetTypeOK'
      BY <1>0, <1>1 DEF DrainControl, NetTypeOK
    <2>2. \A x, y : /\ adjust_redundancy(sending.red, x, y) \in Nat
                    /\ adjust_redundancy_with_telemetry(sending.red, x, y) \in Nat
      BY <1>0, RedundancyNat DEF SenderTypeOK
    <2>3. \A x, y : \A r \in apply_aimd_bitrate(bitrate, x, y) : r \in Nat
      BY <1>0, BitrateInRange, RateAssumption DEF SenderTypeOK
    <2>4. sending' \in [call : Nat, stream : Nat, index : Nat, size : Nat, pkt : Nat,
                        total : Nat, seq : Nat, red : Nat]
      <3>1. \/ sending' = sending
            \/ \E r \in Nat : sending' = [sending EXCEPT !.red = r]
        BY <1>1, <2>2 DEF DrainControl
      <3> QED  BY <1>0, <3>1 DEF SenderTypeOK
    <2>5. bitrate' \in Nat /\ pending' \in Nat
      BY <1>0, <1>1, <2>3 DEF DrainControl, NoteBitrate, SenderTypeOK
    <2>6. SenderTypeOK'
      BY <1>0, <1>1, <2>4, <2>5 DEF DrainControl, SenderTypeOK
    <2> QED  BY <2>1, <2>6
  <1>2. CASE SendDroplet
    <2>1. sending.stream \in StreamIds
      BY <1>2, SendingStream DEF SendDroplet
    <2>2. Droplet \in Datagram
      BY <1>0, <2>1 DEF Droplet, Datagram, SenderTypeOK
    <2>3. NetTypeOK'
      BY <1>0, <1>2, <2>2 DEF SendDroplet, NetTypeOK
    <2>4. SenderTypeOK'
      BY <1>0, <1>2 DEF SendDroplet, SenderTypeOK
    <2> QED  BY <2>3, <2>4
  <1>3. CASE FailFrame
    <2>1. SenderTypeOK'
      BY <1>0, <1>3 DEF FailFrame, NoSend, SenderTypeOK
    <2> QED  BY <1>0, <1>3, <2>1, UnchangedTypeOK DEF FailFrame
  <1>4. CASE FinishFrame
    <2>1. Clamp(sending.red, Unit, MaxRedundancy) \in Nat
      BY <1>0, ClampNat, FecAssumption DEF SenderTypeOK
    <2>2. \A i \in Nat : NextFrameIndex(i) \in Nat
      BY DEF NextFrameIndex
    <2>3. sNext' \in [StreamIds -> Nat] /\ sRed' \in [StreamIds -> Nat]
      BY <1>0, <1>4, <2>1, <2>2 DEF FinishFrame, SenderTypeOK
    <2>4. SenderTypeOK'
      BY <1>0, <1>4, <2>3 DEF FinishFrame, NoSend, SenderTypeOK
    <2> QED  BY <1>0, <1>4, <2>4, UnchangedTypeOK DEF FinishFrame
  <1> QED  BY <1>1, <1>2, <1>3, <1>4 DEF SenderStep

\* Observing a packet keeps the registry, the window and the feedback in
\* their types, and the windows finite.
LEMMA ObserveTypeOK ==
    ASSUME SessionInv, NEW d \in dgrams, AcceptData(d)
    PROVE  /\ NetTypeOK'
           /\ rType' \in [StreamIds -> {"none", "video", "audio"}]
           /\ rWin' \in [StreamIds -> SUBSET (Nat \X Nat)]
           /\ nFlushes' \in Nat
           /\ \A s \in StreamIds : IsFiniteSet(rWin'[s])
           /\ d.pkt # 0
  <1> DEFINE win == rWin[d.stream] \cup {<<d.index, d.seq>>}
  <1>0. /\ NetTypeOK /\ ReceiverTypeOK /\ d \in Datagram
        /\ \A s \in StreamIds : IsFiniteSet(rWin[s])
    BY DEF SessionInv, TypeOK, NetTypeOK
  <1>1. d.stream \in StreamIds /\ d.index \in Nat /\ d.seq \in Nat
    BY <1>0 DEF Datagram
  <1>2. win \in SUBSET (Nat \X Nat) /\ IsFiniteSet(win)
    <2>1. rWin[d.stream] \in SUBSET (Nat \X Nat) /\ IsFiniteSet(rWin[d.stream])
      BY <1>0, <1>1 DEF ReceiverTypeOK
    <2>2. IsFiniteSet(win)
      BY <2>1, FS_AddElement
    <2>3. <<d.index, d.seq>> \in Nat \X Nat
      BY <1>1
    <2> QED  BY <2>1, <2>2, <2>3
  <1>3. LossReport(d.stream, win) \in Control
    <2>1. /\ Cardinality(ExpectedPackets(win)) \in Nat
          /\ Cardinality(ExpectedPackets(win) \ win) \in Nat
      <3> HIDE DEF win
      <3> QED  BY <1>2, ExpectedFinite
    <2> QED  BY <1>1, <2>1 DEF LossReport, LossFeedback, ControlPacket, Control
  <1>4. /\ rType' = [rType EXCEPT ![d.stream] = "video"]
        /\ \/ /\ rWin' = [rWin EXCEPT ![d.stream] = win]
              /\ UNCHANGED <<toSend, nFlushes>>
           \/ /\ nFlushes' = nFlushes + 1
              /\ rWin' = [rWin EXCEPT ![d.stream] = {}]
              /\ toSend' = Append(toSend, LossReport(d.stream, win))
    BY DEF AcceptData, Observe
  <1>5. dgrams' \subseteq dgrams /\ UNCHANGED <<toRecv, sLimit, rLimit, lost>>
    BY DEF AcceptData, TakeDatagram
  <1> HIDE DEF win
  <1>6. NetTypeOK'
    <2>1. toSend' \in Seq(Control)
      BY <1>0, <1>3, <1>4 DEF NetTypeOK
    <2> QED  BY <1>0, <1>5, <2>1 DEF NetTypeOK
  <1>7. rWin' \in [StreamIds -> SUBSET (Nat \X Nat)]
    BY <1>0, <1>2, <1>4 DEF ReceiverTypeOK
  <1>8. \A s \in StreamIds : IsFiniteSet(rWin'[s])
    BY <1>0, <1>2, <1>4, FS_EmptySet DEF ReceiverTypeOK
  <1>9. rType' \in [StreamIds -> {"none", "video", "audio"}] /\ nFlushes' \in Nat
    <2>1. rType' \in [StreamIds -> {"none", "video", "audio"}]
      BY <1>0, <1>4 DEF ReceiverTypeOK
    <2>2. nFlushes' = nFlushes \/ nFlushes' = nFlushes + 1
      BY <1>4
    <2> QED  BY <1>0, <2>1, <2>2 DEF ReceiverTypeOK
  <1>10. d.pkt # 0
    BY <1>0, TransportAssumption DEF AcceptData, HeaderAccepted, NetTypeOK
  <1> QED  BY <1>6, <1>7, <1>8, <1>9, <1>10

\* What handle_data_packet knows of a packet of the expected frame: it, and
\* everything its decoder already holds, belong to that frame.
LEMMA DecoderForFacts ==
    ASSUME SessionInv, NEW d \in dgrams, AcceptData(d), NextIndexMatches(d)
    PROVE  /\ d \in Datagram /\ d.index = rNext[d.stream]
           /\ DecoderFor(d) \in Decoder
           /\ DecoderFor(d).index = d.index
           /\ DecoderFor(d).pkt # 0
           /\ Rows(d) \subseteq [call : Nat, seq : Nat]
           /\ \A r \in Rows(d) : Submitted(r.call, d.stream, d.index)
  <1>1. d \in Datagram /\ d.kind = "data"
    BY DEF SessionInv, TypeOK, NetTypeOK, AcceptData, TakeDatagram
  <1>2. /\ d.stream \in StreamIds /\ d.index \in Nat /\ d.size \in Nat
        /\ d.pkt \in Nat /\ d.call \in Nat /\ d.seq \in Nat
    BY <1>1 DEF Datagram
  <1>3. d.pkt # 0
    BY ObserveTypeOK
  <1>4. d.index = rNext[d.stream]
    BY DEF NextIndexMatches
  <1>5. Row(d) \in [call : Nat, seq : Nat] /\ Submitted(d.call, d.stream, d.index)
    BY <1>1, <1>2 DEF Row, SessionInv, DropletsAreSubmitted
  <1>6. CASE NeedsDecoder(d)
    <2>1. DecoderFor(d) = [index |-> d.index, size |-> d.size, pkt |-> d.pkt, rows |-> {}]
      BY <1>6 DEF DecoderFor
    <2>2. DecoderFor(d) \in Decoder
      BY <1>2, <2>1 DEF Decoder
    <2>3. Rows(d) = {Row(d)}
      BY <2>1 DEF Rows
    <2> QED  BY <1>1, <1>3, <1>4, <1>5, <2>1, <2>2, <2>3 DEF Row
  <1>7. CASE ~NeedsDecoder(d)
    <2>1. /\ DecoderFor(d) = rDec[d.stream] /\ rDec[d.stream] # NoDecoder
          /\ rDec[d.stream].index = d.index
      BY <1>7 DEF DecoderFor, NeedsDecoder
    <2>2. rDec[d.stream] \in Decoder /\ rDec[d.stream].pkt # 0
      BY <1>2, <2>1 DEF SessionInv, TypeOK, ReceiverTypeOK
    <2>3. /\ rDec[d.stream].rows \subseteq [call : Nat, seq : Nat]
          /\ \A r \in rDec[d.stream].rows : Submitted(r.call, d.stream, d.index)
      BY <1>2, <2>1, <2>2 DEF Decoder, SessionInv, DropletsAreSubmitted
    <2>4. Rows(d) = rDec[d.stream].rows \cup {Row(d)}
      BY <2>1 DEF Rows
    <2> QED  BY <1>1, <1>4, <1>5, <2>1, <2>2, <2>3, <2>4 DEF Row
  <1> QED  BY <1>6, <1>7

\* Each way out of handle_data_packet keeps every variable in its type.
LEMMA DataTypeOK ==
    ASSUME SessionInv, NEW d \in dgrams,
           \/ SkipOutOfTurn(d) \/ KeepRow(d) \/ DropDecoder(d)
           \/ EmitFrame(d) \/ DieDecoding(d) \/ DiscardMixed(d)
    PROVE  NetTypeOK' /\ ReceiverTypeOK'
  <1>0. ReceiverTypeOK /\ AcceptData(d)
    BY DEF SessionInv, TypeOK, SkipOutOfTurn, KeepRow, DropDecoder, EmitFrame,
           DieDecoding, DiscardMixed, FeedDecoder
  <1>1. /\ NetTypeOK'
        /\ rType' \in [StreamIds -> {"none", "video", "audio"}]
        /\ rWin' \in [StreamIds -> SUBSET (Nat \X Nat)]
        /\ nFlushes' \in Nat
    BY <1>0, ObserveTypeOK
  <1>2. UNCHANGED <<videoLen, audioLen, videoOpen, audioOpen>>
    BY DEF SkipOutOfTurn, KeepRow, DropDecoder, EmitFrame, DieDecoding, DiscardMixed,
           FeedDecoder
  <1>3. SUFFICES /\ rLoop' \in {"running", "dead"}
                 /\ rNext' \in [StreamIds -> Nat]
                 /\ rDec' \in [StreamIds -> Decoder]
                 /\ rWait' \in [chan : {"none", "video", "audio"}, stream : Nat,
                                index : Nat, ideal : Nat, used : Nat]
                 /\ emitted' \in Seq(Emission)
    BY <1>0, <1>1, <1>2 DEF ReceiverTypeOK
  <1>4. NoDecoder \in Decoder
    BY DEF NoDecoder, Decoder
  <1>5. CASE SkipOutOfTurn(d)
    BY <1>0, <1>5 DEF SkipOutOfTurn, ReceiverTypeOK
  <1>6. CASE DropDecoder(d)
    BY <1>0, <1>4, <1>6 DEF DropDecoder, ReceiverTypeOK
  <1>7. CASE DieDecoding(d)
    BY <1>0, <1>4, <1>7 DEF DieDecoding, ReceiverTypeOK
  <1>8. CASE DiscardMixed(d)
    BY <1>0, <1>4, <1>8 DEF DiscardMixed, DecoderAfterSuccess, ReceiverTypeOK
  <1>9. CASE KeepRow(d)
    <2>1. DecoderFor(d) \in Decoder /\ Rows(d) \subseteq [call : Nat, seq : Nat]
      BY <1>0, <1>9, DecoderForFacts DEF KeepRow, FeedDecoder
    <2>2. [DecoderFor(d) EXCEPT !.rows = Rows(d)] \in Decoder
      BY <2>1 DEF Decoder
    <2> QED  BY <1>0, <1>9, <2>2 DEF KeepRow, ReceiverTypeOK
  <1>10. CASE EmitFrame(d)
    <2>1. DecoderFor(d) \in Decoder /\ DecoderFor(d).pkt # 0 /\ d \in Datagram
      BY <1>0, <1>10, DecoderForFacts DEF EmitFrame, FeedDecoder
    <2>2. /\ d.stream \in StreamIds /\ d.stream \in Nat /\ d.index \in Nat
          /\ d.seq \in Nat /\ d.call \in Nat
      BY <2>1 DEF Datagram, StreamIds
    <2>3. NeededPackets(DecoderFor(d).size, DecoderFor(d).pkt) \in Nat
      BY <2>1, CeilDivNat DEF NeededPackets, Decoder
    <2>4. rWait' \in [chan : {"none", "video", "audio"}, stream : Nat, index : Nat,
                      ideal : Nat, used : Nat]
      BY <1>10, <2>2, <2>3 DEF EmitFrame, Waiting, UsedPackets
    <2>5. [stream |-> d.stream, index |-> d.index, call |-> Content(d)] \in Emission
      BY <2>2 DEF Emission, Content, Garbled
    <2>6. emitted' \in Seq(Emission)
      BY <1>0, <1>10, <2>5 DEF EmitFrame, Inbound, ReceiverTypeOK
    <2>7. rNext' \in [StreamIds -> Nat]
      BY <1>0, <1>10, <2>2 DEF EmitFrame, AdvanceIndex, ReceiverTypeOK
    <2>8. rDec' \in [StreamIds -> Decoder]
      BY <1>0, <1>4, <1>10 DEF EmitFrame, DecoderAfterSuccess, ReceiverTypeOK
    <2> QED  BY <1>0, <1>10, <2>4, <2>6, <2>7, <2>8 DEF EmitFrame, ReceiverTypeOK
  <1> QED  BY <1>5, <1>6, <1>7, <1>8, <1>9, <1>10

\* The receive loop keeps every variable in its type.
LEMMA ReceiveTypeOK == SessionInv /\ ReceiverStep => TypeOK'
  <1> SUFFICES ASSUME SessionInv, ReceiverStep PROVE NetTypeOK' /\ ReceiverTypeOK'
    BY UnchangedTypeOK DEF SessionInv, TypeOK, ReceiverStep
  <1>0. NetTypeOK /\ ReceiverTypeOK
    BY DEF SessionInv, TypeOK
  <1>1. ASSUME NEW d \in dgrams, DiscardData(d)
        PROVE  NetTypeOK' /\ ReceiverTypeOK'
    <2>1. NetTypeOK'
      BY <1>0, <1>1 DEF DiscardData, TakeDatagram, NetTypeOK
    <2> QED  BY <1>0, <1>1, <2>1, UnchangedTypeOK DEF DiscardData
  <1>2. ASSUME NEW d \in dgrams, RejectStreamType(d)
        PROVE  NetTypeOK' /\ ReceiverTypeOK'
    <2>1. NetTypeOK'
      BY <1>0, <1>2 DEF RejectStreamType, TakeDatagram, NetTypeOK
    <2>2. ReceiverTypeOK'
      BY <1>0, <1>2 DEF RejectStreamType, ReceiverTypeOK
    <2> QED  BY <2>1, <2>2
  <1>3. ASSUME NEW d \in dgrams,
               \/ SkipOutOfTurn(d) \/ KeepRow(d) \/ DropDecoder(d)
               \/ EmitFrame(d) \/ DieDecoding(d) \/ DiscardMixed(d)
        PROVE  NetTypeOK' /\ ReceiverTypeOK'
    BY <1>3, DataTypeOK
  <1>4. ASSUME NEW d \in dgrams, handle_audio_packet(d)
        PROVE  NetTypeOK' /\ ReceiverTypeOK'
    <2>1. NetTypeOK'
      BY <1>0, <1>4 DEF handle_audio_packet, TakeDatagram, NetTypeOK
    <2>2. d.stream \in StreamIds /\ d.stream \in Nat
      BY <1>0 DEF NetTypeOK, Datagram, StreamIds
    <2>3. rWait' \in [chan : {"none", "video", "audio"}, stream : Nat, index : Nat,
                      ideal : Nat, used : Nat]
      BY <1>4, <2>2 DEF handle_audio_packet, Waiting, NoWait
    <2>4. rType' \in [StreamIds -> {"none", "video", "audio"}]
      BY <1>0, <1>4, <2>2 DEF handle_audio_packet, ReceiverTypeOK
    <2>5. ReceiverTypeOK'
      BY <1>0, <1>4, <2>3, <2>4 DEF handle_audio_packet, ReceiverTypeOK
    <2> QED  BY <2>1, <2>5
  <1>5. CASE FrameQueued
    <2>1. /\ rWait.ideal \in Nat /\ rWait.used \in Nat /\ rWait.index \in Nat
          /\ rWait.stream \in Nat
      BY <1>0 DEF ReceiverTypeOK
    <2>2. LossPpm(rWait.ideal, rWait.used) \in Nat
      BY <2>1 DEF LossPpm
    <2>3. rWait.stream \in StreamIds
      BY <1>5 DEF FrameQueued, SessionInv, WaitIsOnStream
    <2>4. PICK j \in Jitters :
            toSend' = Append(Append(toSend,
                        FecFeedback(rWait.stream, rWait.index, rWait.ideal, rWait.used)),
                        Telemetry(rWait.stream, rWait.index, LossPpm(rWait.ideal, rWait.used), j))
      BY <1>5 DEF FrameQueued
    <2>5. /\ FecFeedback(rWait.stream, rWait.index, rWait.ideal, rWait.used) \in Control
          /\ Telemetry(rWait.stream, rWait.index, LossPpm(rWait.ideal, rWait.used), j) \in Control
      BY <2>1, <2>2, <2>3, ReceiverAssumption
         DEF FecFeedback, Telemetry, ControlPacket, Control
    <2>6. toSend' \in Seq(Control)
      BY <1>0, <2>4, <2>5 DEF NetTypeOK
    <2>7. NetTypeOK'
      BY <1>0, <1>5, <2>6 DEF FrameQueued, NetTypeOK
    <2>8. ReceiverTypeOK'
      BY <1>0, <1>5, ReceiverAssumption DEF FrameQueued, HasRoom, NoWait, ReceiverTypeOK
    <2> QED  BY <2>7, <2>8
  <1>6. CASE FrameUnwanted
    <2>1. ReceiverTypeOK'
      BY <1>0, <1>6 DEF FrameUnwanted, NoWait, ReceiverTypeOK
    <2> QED  BY <1>0, <1>6, <2>1, UnchangedTypeOK DEF FrameUnwanted
  <1>7. CASE AudioQueued
    <2>1. audioLen' \in 0..ChannelCapacity
      BY <1>0, <1>7, ReceiverAssumption DEF AudioQueued, HasRoom, ReceiverTypeOK
    <2>2. ReceiverTypeOK'
      BY <1>0, <1>7, <2>1 DEF AudioQueued, NoWait, ReceiverTypeOK
    <2> QED  BY <1>0, <1>7, <2>2, UnchangedTypeOK DEF AudioQueued
  <1>8. CASE handle_stream_fin_packet
    <2>1. Head(toRecv) \in StreamIds /\ Tail(toRecv) \in Seq(StreamIds)
      BY <1>0, <1>8 DEF handle_stream_fin_packet, NetTypeOK
    <2>2. Ack(Head(toRecv)) \in Control
      BY <2>1 DEF Ack, ControlPacket, Control
    <2>3. toSend' \in Seq(Control)
      BY <1>0, <1>8, <2>2 DEF handle_stream_fin_packet, NetTypeOK
    <2>4. NetTypeOK'
      BY <1>0, <1>8, <2>1, <2>3 DEF handle_stream_fin_packet, NetTypeOK
    <2>5. NoDecoder \in Decoder
      BY DEF NoDecoder, Decoder
    <2>6. ReceiverTypeOK'
      BY <1>0, <1>8, <2>5 DEF handle_stream_fin_packet, ReceiverTypeOK
    <2> QED  BY <2>4, <2>6
  <1> QED
    BY <1>1, <1>2, <1>3, <1>4, <1>5, <1>6, <1>7, <1>8 DEF ReceiverStep

\* The application and the network keep every variable in its type.
LEMMA EnvironmentTypeOK == TypeOK /\ (Consumer \/ Network) => TypeOK'
  <1> SUFFICES ASSUME TypeOK, Consumer \/ Network PROVE TypeOK'
    OBVIOUS
  <1> USE DEF TypeOK
  <1>1. CASE Consumer
    <2>1. ReceiverTypeOK'
      <3>1. CASE TakeFrame
        BY <3>1, ReceiverAssumption DEF TakeFrame, ReceiverTypeOK
      <3>2. CASE TakeAudio
        BY <3>2, ReceiverAssumption DEF TakeAudio, ReceiverTypeOK
      <3>3. CASE Detach
        <4>1. videoOpen' \in BOOLEAN /\ audioOpen' \in BOOLEAN
          BY <3>3, Zenon DEF Detach, ReceiverTypeOK
        <4> QED  BY <3>3, <4>1 DEF Detach, ReceiverTypeOK
      <3> QED  BY <1>1, <3>1, <3>2, <3>3 DEF Consumer
    <2>2. UNCHANGED <<netVars, senderVars>>
      BY <1>1 DEF Consumer, TakeFrame, TakeAudio, Detach
    <2> QED  BY <2>1, <2>2, UnchangedTypeOK
  <1>2. CASE Network
    <2>1. NetTypeOK'
      <3>1. ASSUME NEW d \in dgrams, LoseDatagram(d) PROVE NetTypeOK'
        BY <3>1 DEF LoseDatagram, NetTypeOK
      <3>2. CASE ChangeSenderLimit
        BY <3>2 DEF ChangeSenderLimit, NetTypeOK
      <3>3. CASE ChangeReceiverLimit
        BY <3>3 DEF ChangeReceiverLimit, NetTypeOK
      <3> QED  BY <1>2, <3>1, <3>2, <3>3 DEF Network
    <2>2. UNCHANGED <<senderVars, receiverVars>>
      BY <1>2 DEF Network, LoseDatagram
    <2> QED  BY <2>1, <2>2, UnchangedTypeOK
  <1> QED  BY <1>1, <1>2

(***************************************************************************)
(* The invariant.                                                          *)
(***************************************************************************)
\* Everything a step may do without touching a decoder's rows or emitting a
\* frame: submit calls, add droplets of submitted calls, drop datagrams,
\* drop whole decoders, restart a stream.  All but KeepRow and EmitFrame do
\* no more.
LEMMA PlainStep ==
    ASSUME SessionInv, TypeOK', WaitIsOnStream',
           calls \subseteq calls', emitted' = emitted,
           \A d \in dgrams' : d.kind = "data" =>
               d \in dgrams \/ Submitted(d.call, d.stream, d.index)',
           (~Idle)' => Submitted(sending.call, sending.stream, sending.index)',
           \A s \in StreamIds :
               \/ rDec'[s] = NoDecoder
               \/ /\ rDec'[s] = rDec[s] /\ rNext'[s] = rNext[s]
                  /\ rType[s] = "video" => rType'[s] = "video",
           \A s \in StreamIds : IsFiniteSet(rWin'[s])
    PROVE  SessionInv'
  <1>1. \A c, s, i : Submitted(c, s, i) => Submitted(c, s, i)'
    BY DEF Submitted
  <1>2. DropletsAreSubmitted'
    <2>1. \A d \in dgrams' : d.kind = "data" => Submitted(d.call, d.stream, d.index)'
      BY <1>1 DEF SessionInv, DropletsAreSubmitted
    <2>2. \A s \in StreamIds : \A r \in rDec'[s].rows :
              Submitted(r.call, s, rDec[s].index)'
      BY <1>1 DEF SessionInv, DropletsAreSubmitted, NoDecoder
    <2> QED  BY <2>1, <2>2 DEF DropletsAreSubmitted
  <1>3. DecoderIsCurrent'
    BY DEF SessionInv, DecoderIsCurrent
  <1>4. FramesAreSubmitted'
    BY DEF SessionInv, FramesAreSubmitted
  <1>5. \A s \in StreamIds : rDec'[s] # NoDecoder => rDec'[s].pkt # 0
    BY DEF SessionInv
  <1> QED  BY <1>2, <1>3, <1>4, <1>5 DEF SessionInv

\* The invariant holds initially.
LEMMA InitInv == Init => SessionInv
  <1> SUFFICES ASSUME Init PROVE SessionInv
    OBVIOUS
  <1> USE DEF Init, NetInit, SenderInit, ReceiverInit
  <1>1. TypeOK
    BY InitTypeOK
  <1>2. DropletsAreSubmitted
    BY DEF DropletsAreSubmitted, Idle, NoSend, NoDecoder
  <1>3. DecoderIsCurrent /\ FramesAreSubmitted /\ WaitIsOnStream
    BY DEF DecoderIsCurrent, FramesAreSubmitted, WaitIsOnStream, NoWait
  <1>4. \A s \in StreamIds : IsFiniteSet(rWin[s])
    BY FS_EmptySet
  <1>5. \A s \in StreamIds : rDec[s] # NoDecoder => rDec[s].pkt # 0
    OBVIOUS
  <1> QED  BY <1>1, <1>2, <1>3, <1>4, <1>5 DEF SessionInv

\* A step that leaves the receiver alone preserves the invariant as soon as
\* what it submits and sends is accounted for.
LEMMA SenderSide ==
    ASSUME SessionInv, TypeOK', UNCHANGED receiverVars,
           calls \subseteq calls',
           \A d \in dgrams' : d.kind = "data" =>
               d \in dgrams \/ Submitted(d.call, d.stream, d.index)',
           (~Idle)' => Submitted(sending.call, sending.stream, sending.index)'
    PROVE  SessionInv'
  <1>1. /\ rDec' = rDec /\ rNext' = rNext /\ rType' = rType /\ rWin' = rWin
        /\ rWait' = rWait /\ emitted' = emitted
    BY DEF receiverVars
  <1>2. WaitIsOnStream' /\ \A s \in StreamIds : IsFiniteSet(rWin'[s])
    BY <1>1 DEF SessionInv, WaitIsOnStream
  <1> QED  BY <1>1, <1>2, PlainStep

\* The sender preserves the invariant.
LEMMA SenderInv == SessionInv /\ (SenderCall \/ SenderStep) => SessionInv'
  <1> SUFFICES ASSUME SessionInv, SenderCall \/ SenderStep PROVE SessionInv'
    OBVIOUS
  <1>1. TypeOK' /\ UNCHANGED receiverVars
    BY CallTypeOK, SendTypeOK DEF SessionInv, SenderCall, SenderStep
  <1>2. ASSUME NEW s \in StreamIds, NEW z \in FrameSizes, StartFrame(s, z)
        PROVE  SessionInv'
    <2> DEFINE needed == NeededPackets(z, PacketSize(z, sLimit))
               total  == TotalPackets(needed, sRed[s])
               k == [call |-> nCalls + 1, stream |-> s, index |-> sNext[s],
                     needed |-> needed, total |-> total]
    <2>1. /\ calls' = calls \cup {k} /\ dgrams' = dgrams
          /\ sending' = [call |-> nCalls + 1, stream |-> s, index |-> sNext[s],
                         size |-> z, pkt |-> PacketSize(z, sLimit), total |-> total,
                         seq |-> 0, red |-> sRed[s]]
      BY <1>2 DEF StartFrame, netVars
    <2>2. /\ k.call = sending'.call /\ k.stream = sending'.stream
          /\ k.index = sending'.index
      BY <2>1
    <2> HIDE DEF k
    <2>3. Submitted(sending.call, sending.stream, sending.index)'
      BY <2>1, <2>2 DEF Submitted
    <2> QED  BY <1>1, <2>1, <2>3, SenderSide
  <1>3. CASE SendDroplet
    <2>1. Submitted(sending.call, sending.stream, sending.index)
      BY <1>3 DEF SendDroplet, SessionInv, DropletsAreSubmitted
    <2>2. /\ calls' = calls /\ dgrams' = dgrams \cup {Droplet}
          /\ sending' = [sending EXCEPT !.seq = @ + 1]
      BY <1>3 DEF SendDroplet
    <2>3. /\ sending'.call = sending.call /\ sending'.stream = sending.stream
          /\ sending'.index = sending.index
      BY <2>2 DEF SessionInv, TypeOK, SenderTypeOK
    <2>4. /\ Submitted(sending.call, sending.stream, sending.index)'
          /\ Submitted(Droplet.call, Droplet.stream, Droplet.index)
      BY <2>1, <2>2, <2>3 DEF Submitted, Droplet
    <2>5. \A d \in dgrams' : d.kind = "data" =>
              d \in dgrams \/ Submitted(d.call, d.stream, d.index)'
      BY <2>2, <2>4 DEF Submitted
    <2> QED  BY <1>1, <2>2, <2>4, <2>5, SenderSide
  <1>4. CASE DrainControl
    <2>1. calls' = calls /\ dgrams' = dgrams
      BY <1>4 DEF DrainControl
    <2>2. /\ sending'.call = sending.call /\ sending'.stream = sending.stream
          /\ sending'.index = sending.index
      <3>1. sending' = sending \/ \E r : sending' = [sending EXCEPT !.red = r]
        BY <1>4 DEF DrainControl
      <3> QED  BY <3>1 DEF SessionInv, TypeOK, SenderTypeOK
    <2>3. (~Idle)' => Submitted(sending.call, sending.stream, sending.index)'
      BY <2>1, <2>2 DEF SessionInv, DropletsAreSubmitted, Submitted, Idle
    <2> QED  BY <1>1, <2>1, <2>3, SenderSide
  <1>5. CASE FailFrame \/ FinishFrame \/ CancelFrame
    <2>1. calls' = calls /\ dgrams' = dgrams /\ Idle'
      BY <1>5 DEF FailFrame, FinishFrame, CancelFrame, NoSend, Idle, netVars
    <2> QED  BY <1>1, <2>1, SenderSide
  <1>6. ASSUME \/ \E k \in {"video", "audio"} : OpenStream(k)
               \/ \E s \in StreamIds, z \in FrameSizes : RefuseFrame(s, z)
               \/ \E s \in StreamIds :
                     send_audio_frame(s) \/ RefuseAudio(s) \/ send_stream_fin(s)
               \/ \E s \in StreamIds, t \in ExternalTelemetry :
                     apply_network_telemetry(s, t[1], t[2])
               \/ take_bitrate_update_bps
        PROVE  SessionInv'
    <2>1. /\ calls' = calls /\ Idle'
          /\ \A d \in dgrams' : d.kind = "data" => d \in dgrams
      BY <1>6 DEF OpenStream, RefuseFrame, send_audio_frame, RefuseAudio, send_stream_fin,
                  apply_network_telemetry, take_bitrate_update_bps, netVars, Idle
    <2> QED  BY <1>1, <2>1, SenderSide
  <1> QED  BY <1>2, <1>3, <1>4, <1>5, <1>6 DEF SenderCall, SenderStep

\* What recover() and restore_frame hand out for a completed frame is one of
\* the frames submitted under its stream and index; it can be a mixture only
\* of two of them.
LEMMA EmittedContent ==
    ASSUME SessionInv, NEW d \in dgrams, AcceptData(d), NextIndexMatches(d)
    PROVE  \/ Submitted(Content(d), d.stream, d.index)
           \/ /\ Content(d) = Garbled
              /\ \E c, e \in calls : /\ c.stream = d.stream /\ c.index = d.index
                                    /\ e.stream = d.stream /\ e.index = d.index
                                    /\ c.call # e.call
  <1>1. /\ \A r \in Rows(d) : Submitted(r.call, d.stream, d.index)
        /\ Row(d) \in Rows(d) /\ Row(d).call = d.call
    BY DecoderForFacts DEF Rows, Row
  <1>2. CASE ~Mixed(d)
    BY <1>1, <1>2 DEF Content
  <1>3. CASE Mixed(d)
    <2>1. PICK r \in Rows(d) : r.call # d.call
      BY <1>3 DEF Mixed
    <2>2. PICK c \in calls : c.call = r.call /\ c.stream = d.stream /\ c.index = d.index
      BY <1>1 DEF Submitted
    <2>3. PICK e \in calls : e.call = d.call /\ e.stream = d.stream /\ e.index = d.index
      BY <1>1 DEF Submitted
    <2> QED  BY <1>3, <2>1, <2>2, <2>3 DEF Content
  <1> QED  BY <1>2, <1>3

\* The receive loop preserves the invariant.
LEMMA ReceiverInv == SessionInv /\ ReceiverStep => SessionInv'
  <1> SUFFICES ASSUME SessionInv, ReceiverStep PROVE SessionInv'
    OBVIOUS
  <1>0. /\ TypeOK' /\ calls' = calls /\ sending' = sending
        /\ rDec \in [StreamIds -> Decoder] /\ rNext \in [StreamIds -> Nat]
        /\ rType \in [StreamIds -> {"none", "video", "audio"}]
        /\ \A s \in StreamIds : IsFiniteSet(rWin[s])
    BY ReceiveTypeOK DEF SessionInv, TypeOK, ReceiverTypeOK, ReceiverStep, senderVars
  <1>1. /\ \A c, s, i : Submitted(c, s, i)' <=> Submitted(c, s, i)
        /\ (~Idle)' => Submitted(sending.call, sending.stream, sending.index)'
    BY <1>0 DEF SessionInv, DropletsAreSubmitted, Submitted, Idle
  <1>2. dgrams' \subseteq dgrams
    BY DEF ReceiverStep, DiscardData, RejectStreamType, SkipOutOfTurn, KeepRow,
           DropDecoder, EmitFrame, DieDecoding, DiscardMixed, handle_audio_packet,
           FeedDecoder, AcceptData, TakeDatagram, FrameQueued, FrameUnwanted,
           AudioQueued, handle_stream_fin_packet, netVars
  <1>3. ASSUME NEW d \in dgrams, DiscardData(d) \/ RejectStreamType(d)
        PROVE  SessionInv'
    <2>1. UNCHANGED <<rType, rNext, rDec, rWin, rWait, emitted>>
      BY <1>3 DEF DiscardData, RejectStreamType, receiverVars
    <2>2. WaitIsOnStream'
      BY <2>1 DEF SessionInv, WaitIsOnStream
    <2> QED  BY <1>0, <1>1, <1>2, <2>1, <2>2, PlainStep
  <1>4. ASSUME NEW d \in dgrams,
               SkipOutOfTurn(d) \/ DropDecoder(d) \/ DieDecoding(d) \/ DiscardMixed(d)
        PROVE  SessionInv'
    <2>1. /\ AcceptData(d) /\ UNCHANGED <<rNext, rWait, emitted>>
          /\ rDec' = rDec \/ rDec' = [rDec EXCEPT ![d.stream] = NoDecoder]
      BY <1>4 DEF SkipOutOfTurn, DropDecoder, DieDecoding, DiscardMixed, FeedDecoder,
                  DecoderAfterSuccess
    <2>2. \A s \in StreamIds : IsFiniteSet(rWin'[s])
      BY <2>1, ObserveTypeOK
    <2>3. \A s \in StreamIds : rType[s] = "video" => rType'[s] = "video"
      BY <1>0, <2>1 DEF AcceptData, Observe
    <2>4. WaitIsOnStream'
      BY <2>1 DEF SessionInv, WaitIsOnStream
    <2>5. \A s \in StreamIds : rDec'[s] = NoDecoder \/ rDec'[s] = rDec[s]
      BY <1>0, <2>1
    <2> QED  BY <1>0, <1>1, <1>2, <2>1, <2>2, <2>3, <2>4, <2>5, PlainStep
  <1>5. ASSUME NEW d \in dgrams, KeepRow(d)
        PROVE  SessionInv'
    <2> DEFINE new == [DecoderFor(d) EXCEPT !.rows = Rows(d)]
    <2>1. /\ AcceptData(d) /\ NextIndexMatches(d) /\ UNCHANGED <<rNext, rWait, emitted>>
          /\ rDec' = [rDec EXCEPT ![d.stream] = new]
          /\ rType' = [rType EXCEPT ![d.stream] = "video"]
      BY <1>5 DEF KeepRow, FeedDecoder, AcceptData, Observe
    <2>2. /\ d \in Datagram /\ d.index = rNext[d.stream]
          /\ DecoderFor(d) \in Decoder /\ DecoderFor(d).index = d.index
          /\ DecoderFor(d).pkt # 0
          /\ \A r \in Rows(d) : Submitted(r.call, d.stream, d.index)
      BY <2>1, DecoderForFacts
    <2>3. new.index = d.index /\ new.pkt # 0 /\ new.rows = Rows(d)
      BY <2>2 DEF Decoder
    <2>4. d.stream \in StreamIds
      BY <2>2 DEF Datagram
    <2> HIDE DEF new
    <2>5. \A s \in StreamIds : s # d.stream => rDec'[s] = rDec[s] /\ rType'[s] = rType[s]
      BY <1>0, <2>1
    <2>6. rDec'[d.stream] = new /\ rType'[d.stream] = "video"
      BY <1>0, <2>1, <2>4
    <2>7. DropletsAreSubmitted'
      <3>1. \A e \in dgrams' : e.kind = "data" => Submitted(e.call, e.stream, e.index)'
        BY <1>1, <1>2 DEF SessionInv, DropletsAreSubmitted
      <3>2. ASSUME NEW s \in StreamIds, NEW r \in rDec'[s].rows
            PROVE  Submitted(r.call, s, rDec[s].index)'
        BY <1>1, <2>2, <2>3, <2>5, <2>6 DEF SessionInv, DropletsAreSubmitted
      <3> QED  BY <1>1, <3>1, <3>2 DEF DropletsAreSubmitted
    <2>8. DecoderIsCurrent'
      BY <2>1, <2>2, <2>3, <2>5, <2>6 DEF SessionInv, DecoderIsCurrent
    <2>9. FramesAreSubmitted' /\ WaitIsOnStream'
      BY <1>0, <2>1 DEF SessionInv, FramesAreSubmitted, WaitIsOnStream
    <2>10. \A s \in StreamIds : IsFiniteSet(rWin'[s])
      BY <2>1, ObserveTypeOK
    <2>11. \A s \in StreamIds : rDec'[s] # NoDecoder => rDec'[s].pkt # 0
      BY <2>3, <2>5, <2>6 DEF SessionInv
    <2> QED  BY <1>0, <2>7, <2>8, <2>9, <2>10, <2>11 DEF SessionInv
  <1>6. ASSUME NEW d \in dgrams, EmitFrame(d)
        PROVE  SessionInv'
    <2> DEFINE e == [stream |-> d.stream, index |-> d.index, call |-> Content(d)]
    <2>1. /\ AcceptData(d) /\ NextIndexMatches(d)
          /\ rDec' = [rDec EXCEPT ![d.stream] = NoDecoder]
          /\ rNext' = [rNext EXCEPT ![d.stream] = @ + 1]
          /\ rType' = [rType EXCEPT ![d.stream] = "video"]
          /\ emitted' = Append(emitted, e)
          /\ rWait'.stream = d.stream
      BY <1>6 DEF EmitFrame, Inbound, FeedDecoder, AcceptData, Observe, DecoderAfterSuccess,
                  AdvanceIndex, Waiting
    <2>2. d.stream \in StreamIds /\ emitted \in Seq(Emission)
      BY <2>1, DecoderForFacts DEF Datagram, SessionInv, TypeOK, ReceiverTypeOK
    <2>3. \A s \in StreamIds : s # d.stream =>
              rDec'[s] = rDec[s] /\ rType'[s] = rType[s] /\ rNext'[s] = rNext[s]
      BY <1>0, <2>1
    <2>4. rDec'[d.stream] = NoDecoder
      BY <1>0, <2>1, <2>2
    <2>5. DropletsAreSubmitted'
      <3>1. \A g \in dgrams' : g.kind = "data" => Submitted(g.call, g.stream, g.index)'
        BY <1>1, <1>2 DEF SessionInv, DropletsAreSubmitted
      <3>2. ASSUME NEW s \in StreamIds, NEW r \in rDec'[s].rows
            PROVE  Submitted(r.call, s, rDec[s].index)'
        BY <1>1, <2>3, <2>4 DEF SessionInv, DropletsAreSubmitted, NoDecoder
      <3> QED  BY <1>1, <3>1, <3>2 DEF DropletsAreSubmitted
    <2>6. DecoderIsCurrent'
      BY <2>3, <2>4 DEF SessionInv, DecoderIsCurrent
    <2>7. FramesAreSubmitted'
      <3> SUFFICES ASSUME NEW k \in 1..Len(emitted')
                   PROVE  LET f    == emitted'[k]
                              same == {c \in calls : c.stream = f.stream /\ c.index = f.index}
                          IN  \/ \E c \in same : c.call = f.call
                              \/ f.call = Garbled /\ \E c, g \in same : c.call # g.call
        BY <1>0 DEF FramesAreSubmitted
      <3>1. CASE k \in 1..Len(emitted)
        <4>1. emitted'[k] = emitted[k]
          BY <2>1, <2>2, <3>1
        <4> QED  BY <3>1, <4>1 DEF SessionInv, FramesAreSubmitted
      <3>2. CASE k = Len(emitted) + 1
        <4>1. /\ emitted'[k].stream = d.stream /\ emitted'[k].index = d.index
              /\ emitted'[k].call = Content(d)
          BY <2>1, <2>2, <3>2
        <4> QED  BY <2>1, <4>1, EmittedContent DEF Submitted
      <3> QED
        <4>1. Len(emitted') = Len(emitted) + 1 /\ Len(emitted) \in Nat
          BY <2>1, <2>2
        <4> QED  BY <3>1, <3>2, <4>1
    <2>8. WaitIsOnStream'
      BY <2>1, <2>2 DEF WaitIsOnStream
    <2>9. \A s \in StreamIds : IsFiniteSet(rWin'[s])
      BY <2>1, ObserveTypeOK
    <2>10. \A s \in StreamIds : rDec'[s] # NoDecoder => rDec'[s].pkt # 0
      BY <2>3, <2>4 DEF SessionInv
    <2> QED  BY <1>0, <2>5, <2>6, <2>7, <2>8, <2>9, <2>10 DEF SessionInv
  <1>7. ASSUME NEW d \in dgrams, handle_audio_packet(d)
        PROVE  SessionInv'
    <2>1. /\ UNCHANGED <<rNext, rDec, rWin, emitted>>
          /\ rType' = [rType EXCEPT ![d.stream] = IF @ = "none" THEN "audio" ELSE @]
          /\ rWait'.chan # "video"
      BY <1>7 DEF handle_audio_packet, Waiting, NoWait
    <2>2. \A s \in StreamIds : rType[s] = "video" => rType'[s] = "video"
      BY <1>0, <2>1
    <2> QED  BY <1>0, <1>1, <1>2, <2>1, <2>2, PlainStep DEF WaitIsOnStream
  <1>8. CASE FrameQueued \/ FrameUnwanted \/ AudioQueued
    <2>1. UNCHANGED <<rType, rNext, rDec, rWin, emitted>> /\ rWait'.chan # "video"
      BY <1>8 DEF FrameQueued, FrameUnwanted, AudioQueued, NoWait
    <2> QED  BY <1>0, <1>1, <1>2, <2>1, PlainStep DEF WaitIsOnStream
  <1>9. CASE handle_stream_fin_packet
    <2> DEFINE s == Head(toRecv)
    <2>1. /\ rType' = [rType EXCEPT ![s] = "none"]
          /\ rNext' = [rNext EXCEPT ![s] = 0]
          /\ rDec'  = [rDec EXCEPT ![s] = NoDecoder]
          /\ rWin'  = [rWin EXCEPT ![s] = {}]
          /\ UNCHANGED <<rWait, emitted>>
      BY <1>9 DEF handle_stream_fin_packet
    <2> HIDE DEF s
    <2>2. \A t \in StreamIds :
              \/ rDec'[t] = NoDecoder
              \/ rDec'[t] = rDec[t] /\ rNext'[t] = rNext[t] /\ rType'[t] = rType[t]
      BY <1>0, <2>1
    <2>3. \A t \in StreamIds : IsFiniteSet(rWin'[t])
      BY <1>0, <2>1, FS_EmptySet DEF SessionInv, TypeOK, ReceiverTypeOK
    <2>4. WaitIsOnStream'
      BY <2>1 DEF SessionInv, WaitIsOnStream
    <2> QED  BY <1>0, <1>1, <1>2, <2>1, <2>2, <2>3, <2>4, PlainStep
  <1> QED  BY <1>3, <1>4, <1>5, <1>6, <1>7, <1>8, <1>9 DEF ReceiverStep

\* The application behind the channels and the network preserve the invariant.
LEMMA EnvironmentInv == SessionInv /\ (Consumer \/ Network) => SessionInv'
  <1> SUFFICES ASSUME SessionInv, Consumer \/ Network PROVE SessionInv'
    OBVIOUS
  <1>1. TypeOK'
    BY EnvironmentTypeOK DEF SessionInv
  <1>2. /\ UNCHANGED <<rType, rNext, rDec, rWin, rWait, emitted, calls, sending>>
        /\ dgrams' \subseteq dgrams
    BY DEF Consumer, TakeFrame, TakeAudio, Detach, Network, LoseDatagram,
           ChangeSenderLimit, ChangeReceiverLimit, senderVars, receiverVars, netVars
  <1>3. (~Idle)' => Submitted(sending.call, sending.stream, sending.index)'
    BY <1>2 DEF SessionInv, DropletsAreSubmitted, Submitted, Idle
  <1>4. WaitIsOnStream' /\ \A s \in StreamIds : IsFiniteSet(rWin'[s])
    BY <1>2 DEF SessionInv, WaitIsOnStream
  <1> QED  BY <1>1, <1>2, <1>3, <1>4, PlainStep

\* Every step of the session, and every step of something else, preserves the
\* invariant.
LEMMA NextInv == SessionInv /\ [Next]_vars => SessionInv'
  <1> SUFFICES ASSUME SessionInv, [Next]_vars PROVE SessionInv'
    OBVIOUS
  <1>1. CASE Next
    BY <1>1, SenderInv, ReceiverInv, EnvironmentInv DEF Next
  <1>2. CASE UNCHANGED vars
    <2>1. UNCHANGED <<senderVars, receiverVars, netVars>>
      BY <1>2 DEF vars
    <2>2. TypeOK'
      BY <2>1, UnchangedTypeOK DEF SessionInv, TypeOK
    <2>3. calls' = calls /\ dgrams' = dgrams /\ sending' = sending
      BY <2>1 DEF senderVars, netVars
    <2>4. (~Idle)' => Submitted(sending.call, sending.stream, sending.index)'
      BY <2>3 DEF SessionInv, DropletsAreSubmitted, Submitted, Idle
    <2> QED  BY <2>1, <2>2, <2>3, <2>4, SenderSide
  <1> QED  BY <1>1, <1>2

\* SessionInv is an invariant: every droplet in flight, in the sender's hands
\* or stored in a decoder was encoded by a send_frame call for the stream and
\* the frame index it is filed under.
THEOREM SessionInvariant == Spec => []SessionInv
  <1>1. Init => SessionInv
    BY InitInv
  <1>2. SessionInv /\ [Next]_vars => SessionInv'
    BY NextInv
  <1> QED  BY <1>1, <1>2, PTL DEF Spec

\* Every variable always has its type.
THEOREM TypeCorrect == Spec => []TypeOK
  <1>1. SessionInv => TypeOK
    BY DEF SessionInv
  <1> QED  BY <1>1, SessionInvariant, PTL

\* The decoder kept by a stream is always that of the frame the stream waits
\* for: the branch of handle_data_packet for another frame's decoder is dead.
THEOREM DecoderCurrent == Spec => []DecoderIsCurrent
  <1>1. SessionInv => DecoderIsCurrent
    BY DEF SessionInv
  <1> QED  BY <1>1, SessionInvariant, PTL

\* Whatever the network and the callers do, an emitted frame is one that was
\* submitted under its stream and index, or mixes two that were.
THEOREM EmittedSubmitted == Spec => []FramesAreSubmitted
  <1>1. SessionInv => FramesAreSubmitted
    BY DEF SessionInv
  <1> QED  BY <1>1, SessionInvariant, PTL

(***************************************************************************)
(* Refinement.                                                             *)
(***************************************************************************)
\* The sender's steps submit at most one frame and emit nothing.
LEMMA SenderMaps ==
    ASSUME SessionInv, SessionInv', SenderCall \/ SenderStep
    PROVE  Frames!Submit \/ UNCHANGED Frames!fsVars
  <1>1. UNCHANGED <<emitted, rNext>>
    BY DEF SenderCall, SenderStep, receiverVars
  <1>2. ASSUME NEW s \in StreamIds, NEW z \in FrameSizes, StartFrame(s, z)
        PROVE  Frames!Submit \/ UNCHANGED Frames!fsVars
    <2>1. PICK k : calls' = calls \cup {k}
      BY <1>2 DEF StartFrame
    <2>2. k \in Call
      BY <2>1 DEF SessionInv, TypeOK, SenderTypeOK
    <2> QED  BY <1>1, <2>1, <2>2 DEF Frames!Submit, Frames!fsVars
  <1>3. ASSUME ~\E s \in StreamIds, z \in FrameSizes : StartFrame(s, z)
        PROVE  UNCHANGED calls
    BY <1>3 DEF SenderCall, SenderStep, OpenStream, RefuseFrame, send_audio_frame,
                RefuseAudio, send_stream_fin, apply_network_telemetry, take_bitrate_update_bps,
                CancelFrame, DrainControl, SendDroplet, FailFrame, FinishFrame
  <1> QED  BY <1>1, <1>2, <1>3 DEF Frames!fsVars

\* The receive loop emits the next frame of a stream, restarts a stream, or
\* does nothing the abstract specification sees.
LEMMA ReceiverMaps ==
    ASSUME SessionInv, ReceiverStep
    PROVE  \/ \E s \in StreamIds : Frames!Emit(s) \/ Frames!Restart(s)
           \/ UNCHANGED Frames!fsVars
  <1>1. calls' = calls
    BY DEF ReceiverStep, senderVars
  <1>2. ASSUME NEW d \in dgrams, EmitFrame(d)
        PROVE  \E s \in StreamIds : Frames!Emit(s)
    <2>1. /\ AcceptData(d) /\ NextIndexMatches(d)
          /\ rNext' = [rNext EXCEPT ![d.stream] = @ + 1]
          /\ emitted' = Append(emitted, [stream |-> d.stream, index |-> d.index,
                                         call |-> Content(d)])
      BY <1>2 DEF EmitFrame, Inbound, FeedDecoder, AdvanceIndex
    <2>2. d.index = rNext[d.stream] /\ d.stream \in StreamIds
      BY <2>1, DecoderForFacts DEF Datagram
    <2>3. Content(d) \in Frames!Contents(d.stream, rNext[d.stream])
      BY <2>1, <2>2, EmittedContent DEF Submitted, Frames!Contents, Garbled, Frames!Garbled
    <2>4. Frames!Emit(d.stream)
      BY <1>1, <2>1, <2>2, <2>3 DEF Frames!Emit
    <2> QED  BY <2>2, <2>4
  <1>3. CASE handle_stream_fin_packet
    <2>1. Head(toRecv) \in StreamIds
      BY <1>3 DEF handle_stream_fin_packet, SessionInv, TypeOK, NetTypeOK
    <2>2. Frames!Restart(Head(toRecv))
      BY <1>1, <1>3 DEF handle_stream_fin_packet, Frames!Restart
    <2> QED  BY <2>1, <2>2
  <1>4. ASSUME ~\E d \in dgrams : EmitFrame(d), ~handle_stream_fin_packet
        PROVE  UNCHANGED <<emitted, rNext>>
    BY <1>4 DEF ReceiverStep, DiscardData, RejectStreamType, SkipOutOfTurn, KeepRow,
                DropDecoder, DieDecoding, DiscardMixed, handle_audio_packet,
                FrameQueued, FrameUnwanted, AudioQueued, receiverVars
  <1> QED  BY <1>1, <1>2, <1>3, <1>4 DEF Frames!fsVars

\* Every step of a session is a step of the frame stream or invisible to it.
LEMMA StepMaps ==
    SessionInv /\ SessionInv' /\ [Next]_vars => [Frames!Next]_Frames!fsVars
  <1> SUFFICES ASSUME SessionInv, SessionInv', [Next]_vars
               PROVE  Frames!Next \/ UNCHANGED Frames!fsVars
    BY DEF Frames!Next
  <1>1. CASE SenderCall \/ SenderStep
    BY <1>1, SenderMaps DEF Frames!Next
  <1>2. CASE ReceiverStep
    BY <1>2, ReceiverMaps DEF Frames!Next
  <1>3. CASE Consumer \/ Network \/ UNCHANGED vars
    <2>1. UNCHANGED <<calls, emitted, rNext>>
      BY <1>3 DEF Consumer, TakeFrame, TakeAudio, Detach, Network, LoseDatagram,
                  vars, senderVars, receiverVars
    <2> QED  BY <2>1 DEF Frames!fsVars
  <1> QED  BY <1>1, <1>2, <1>3 DEF Next

\* The session implements the frame stream: per stream, frames come out under
\* consecutive indices from the last stream-finish on, each with the content
\* of a frame submitted under that index.
THEOREM SessionRefinesFrameStream == Spec => RefinesFrameStream
  <1>1. Init => Frames!Init
    BY DEF Init, SenderInit, ReceiverInit, Frames!Init
  <1>2. SessionInv /\ SessionInv' /\ [Next]_vars => [Frames!Next]_Frames!fsVars
    BY StepMaps
  <1> QED  BY <1>1, <1>2, SessionInvariant, PTL DEF Spec, RefinesFrameStream, Frames!Spec
================================================================================
