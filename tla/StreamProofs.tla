------------------------------ MODULE StreamProofs ------------------------------
(***************************************************************************)
(* What the two ends of a session agree on, for every value of the         *)
(* constants: stream types, frame indices, feedback, and that the receive  *)
(* loop survives; and the ranges of the redundancy and the bitrate.        *)
(***************************************************************************)
EXTENDS SessionProofs

(***************************************************************************)
(* RegistriesAgree, when streams are opened before they are used.          *)
(***************************************************************************)
AboutVideo(s, i) == sType[s] = "video" /\ i <= sNext[s]

OfStreamType(d) == sType[d.stream] = IF d.kind = "data" THEN "video" ELSE "audio"

\* Before the first call nothing is registered and nothing is under way.
LEMMA AgreeInit == Init => RegistriesAgree
  BY DEF Init, NetInit, SenderInit, ReceiverInit, RegistriesAgree, NoWait, NoSend, Idle

\* All that a step other than OpenStream does to the two registries: a free
\* id that was handed out gets a type, indices grow, the receiver learns or
\* forgets a type, and what becomes known is about a video frame begun.
LEMMA AgreeKept ==
    ASSUME SessionInv, TypeOK', WaitIsOnStream', RegistriesAgree,
           nextStreamId' = nextStreamId,
           \A s \in StreamIds :
              /\ sNext[s] <= sNext'[s]
              /\ sType[s] # "none" \/ s >= nextStreamId => sType'[s] = sType[s]
              /\ rType'[s] \in {"none", rType[s], sType'[s]},
           \A c \in calls' : c \in calls \/ AboutVideo(c.stream, c.index)',
           \A d \in dgrams' : d \in dgrams \/ OfStreamType(d)',
           rWait' = rWait \/ (rWait.chan = "video" => AboutVideo(rWait.stream, rWait.index))',
           \A i \in 1..Len(toSend') :
              \/ \E j \in 1..Len(toSend) : toSend'[i] = toSend[j]
              \/ toSend'[i].kind \in {"F", "T"} =>
                    AboutVideo(toSend[i].stream, toSend[i].index)',
           (~Idle => sending.index = sNext[sending.stream])'
    PROVE  RegistriesAgree'
  <1>0. /\ sNext \in [StreamIds -> Nat] /\ sNext' \in [StreamIds -> Nat]
        /\ calls \subseteq Call /\ dgrams \subseteq Datagram
        /\ toSend \in Seq(Control)
    BY DEF SessionInv, TypeOK, NetTypeOK, SenderTypeOK
  <1>1. ASSUME NEW s \in StreamIds, NEW i \in Nat, AboutVideo(s, i)
        PROVE  AboutVideo(s, i)'
    <2>1. sType'[s] = "video"
      BY <1>1 DEF AboutVideo
    <2>2. /\ sNext[s] \in Nat /\ sNext'[s] \in Nat
          /\ i <= sNext[s] /\ sNext[s] <= sNext'[s]
      BY <1>0, <1>1 DEF AboutVideo
    <2> QED  BY <2>1, <2>2 DEF AboutVideo
  <1>2. \A s \in StreamIds : s >= nextStreamId' => sType'[s] = "none"
    BY DEF RegistriesAgree
  <1>3. \A s \in StreamIds : rType'[s] \in {"none", sType'[s]}
    BY DEF RegistriesAgree
  <1>4. \A c \in calls' : sType'[c.stream] = "video" /\ c.index <= sNext'[c.stream]
    <2>1. ASSUME NEW c \in calls PROVE AboutVideo(c.stream, c.index)'
      BY <1>0, <1>1 DEF RegistriesAgree, AboutVideo, Call
    <2> QED  BY <2>1 DEF AboutVideo
  <1>5. \A d \in dgrams' : OfStreamType(d)'
    BY <1>0 DEF RegistriesAgree, OfStreamType, Datagram
  <1>6. (rWait.chan = "video" => AboutVideo(rWait.stream, rWait.index))'
    <2>1. CASE rWait' = rWait
      <3>1. SUFFICES ASSUME rWait.chan = "video"
                     PROVE  AboutVideo(rWait.stream, rWait.index)'
        BY <2>1 DEF AboutVideo
      <3>2. rWait.stream \in StreamIds /\ rWait.index \in Nat
        BY <3>1 DEF SessionInv, WaitIsOnStream, TypeOK, ReceiverTypeOK
      <3>3. AboutVideo(rWait.stream, rWait.index)
        BY <3>1 DEF RegistriesAgree, AboutVideo
      <3>4. AboutVideo(rWait.stream, rWait.index)' <=>
              (sType'[rWait.stream] = "video" /\ rWait.index <= sNext'[rWait.stream])
        BY <2>1 DEF AboutVideo
      <3> QED  BY <1>0, <3>2, <3>3, <3>4 DEF AboutVideo
    <2> QED  BY <2>1
  <1>7. \A i \in 1..Len(toSend') : toSend'[i].kind \in {"F", "T"} =>
            sType'[toSend'[i].stream] = "video" /\ toSend'[i].index <= sNext'[toSend'[i].stream]
    <2> SUFFICES ASSUME NEW i \in 1..Len(toSend'), toSend'[i].kind \in {"F", "T"}
                 PROVE  AboutVideo(toSend[i].stream, toSend[i].index)'
      BY DEF AboutVideo
    <2>1. ASSUME NEW j \in 1..Len(toSend), toSend'[i] = toSend[j]
          PROVE  AboutVideo(toSend[i].stream, toSend[i].index)'
      <3>1. toSend[j] \in Control
        BY <1>0
      <3>2. toSend[j].stream \in StreamIds /\ toSend[j].index \in Nat
        BY <3>1 DEF Control
      <3>3. AboutVideo(toSend[j].stream, toSend[j].index)
        <4>1. toSend[j].kind \in {"F", "T"}
          BY <2>1
        <4>2. \A k \in 1..Len(toSend) : toSend[k].kind \in {"F", "T"} =>
                  AboutVideo(toSend[k].stream, toSend[k].index)
          BY DEF RegistriesAgree, AboutVideo
        <4> QED  BY <4>1, <4>2
      <3> QED  BY <1>1, <2>1, <3>2, <3>3 DEF AboutVideo
    <2> QED  BY <2>1
  <1> QED
    BY <1>2, <1>3, <1>4, <1>5, <1>6, <1>7 DEF RegistriesAgree, AboutVideo, OfStreamType

\* The sender's calls keep the registries in agreement: an id enters use
\* with the type it was opened for, and a frame starts at next_frame_index.
LEMMA AgreeCall ==
    ASSUME StreamsOpened, SessionInv, SessionInv', RegistriesAgree, SenderCall
    PROVE  RegistriesAgree'
  <1>0. /\ TypeOK' /\ WaitIsOnStream' /\ UNCHANGED receiverVars
        /\ nextStreamId \in StreamIds /\ StreamIds = 1..MaxStreamId
        /\ sNext \in [StreamIds -> Nat] /\ sType \in [StreamIds -> StreamType]
        /\ \A s \in StreamIds : sNext[s] <= sNext[s]
    <2>1. /\ nextStreamId \in StreamIds
          /\ sNext \in [StreamIds -> Nat] /\ sType \in [StreamIds -> StreamType]
      BY DEF SessionInv, TypeOK, SenderTypeOK
    <2>2. \A s \in StreamIds : sNext[s] <= sNext[s]
      BY <2>1
    <2>3. TypeOK' /\ WaitIsOnStream'
      BY DEF SessionInv
    <2>4. UNCHANGED receiverVars
      BY DEF SenderCall
    <2> QED  BY <2>1, <2>2, <2>3, <2>4 DEF StreamIds
  <1>1. rType' = rType /\ rWait' = rWait
    BY <1>0 DEF receiverVars
  <1>2. ASSUME NEW k \in {"video", "audio"}, OpenStream(k)
        PROVE  RegistriesAgree'
    <2>1. /\ nextStreamId' = nextStreamId + 1 /\ Idle'
          /\ sType' = [sType EXCEPT ![nextStreamId] = k]
          /\ sNext' = [sNext EXCEPT ![nextStreamId] = 0]
          /\ calls' = calls /\ dgrams' = dgrams /\ toSend' = toSend
      BY <1>2 DEF OpenStream, netVars, Idle
    <2>2. sType[nextStreamId] = "none"
      BY <1>0 DEF RegistriesAgree, StreamIds
    <2>3. ASSUME NEW s \in StreamIds, sType[s] # "none"
          PROVE  sType'[s] = sType[s] /\ sNext'[s] = sNext[s]
      BY <1>0, <2>1, <2>2, <2>3
    <2>4. \A s \in StreamIds : s >= nextStreamId' => sType'[s] = "none"
      BY <1>0, <2>1 DEF RegistriesAgree
    <2>5. \A s \in StreamIds : rType'[s] \in {"none", sType'[s]}
      BY <1>0, <1>1, <2>2, <2>3 DEF RegistriesAgree
    <2>6. \A c \in calls' : sType'[c.stream] = "video" /\ c.index <= sNext'[c.stream]
      <3>1. \A c \in calls : c.stream \in StreamIds
        BY DEF SessionInv, TypeOK, SenderTypeOK, Call
      <3> QED  BY <2>1, <2>3, <3>1 DEF RegistriesAgree
    <2>7. \A d \in dgrams' : OfStreamType(d)'
      <3>1. \A d \in dgrams : d.stream \in StreamIds
        BY DEF SessionInv, TypeOK, NetTypeOK, Datagram
      <3> QED  BY <2>1, <2>3, <3>1 DEF RegistriesAgree, OfStreamType
    <2>8. (rWait.chan = "video" => AboutVideo(rWait.stream, rWait.index))'
      BY <1>1, <2>3 DEF SessionInv, WaitIsOnStream, RegistriesAgree, AboutVideo
    <2>9. \A i \in 1..Len(toSend') : toSend'[i].kind \in {"F", "T"} =>
              /\ sType'[toSend'[i].stream] = "video"
              /\ toSend'[i].index <= sNext'[toSend'[i].stream]
      <3>1. \A i \in 1..Len(toSend) : toSend[i].stream \in StreamIds
        <4>1. toSend \in Seq(Control)
          BY DEF SessionInv, TypeOK, NetTypeOK
        <4>2. \A i \in 1..Len(toSend) : toSend[i] \in Control
          BY <4>1
        <4> QED  BY <4>2 DEF Control
      <3> QED  BY <2>1, <2>3, <3>1 DEF RegistriesAgree
    <2> QED
      BY <2>1, <2>4, <2>5, <2>6, <2>7, <2>8, <2>9
         DEF RegistriesAgree, OfStreamType, AboutVideo
  <1>3. ASSUME NEW s \in StreamIds, NEW z \in FrameSizes, StartFrame(s, z)
        PROVE  RegistriesAgree'
    <2> DEFINE needed == NeededPackets(z, PacketSize(z, sLimit))
               total  == TotalPackets(needed, sRed[s])
    <2>1. /\ calls' = calls \cup {[call |-> nCalls + 1, stream |-> s, index |-> sNext[s],
                                   needed |-> needed, total |-> total]}
          /\ sending' = [call |-> nCalls + 1, stream |-> s, index |-> sNext[s],
                         size |-> z, pkt |-> PacketSize(z, sLimit), total |-> total,
                         seq |-> 0, red |-> sRed[s]]
          /\ sType' = [sType EXCEPT ![s] = "video"] /\ sType[s] = "video"
          /\ nextStreamId' = nextStreamId /\ sNext' = sNext
          /\ dgrams' = dgrams /\ toSend' = toSend
      BY <1>3 DEF StartFrame, MayUse, TypeAgrees, StreamsOpened, netVars
    <2> HIDE DEF needed, total
    <2>2. sType' = sType
      BY <1>0, <2>1
    <2>3. \A c \in calls' : c \in calls \/ AboutVideo(c.stream, c.index)'
      BY <1>0, <2>1, <2>2 DEF AboutVideo
    <2>4. (~Idle => sending.index = sNext[sending.stream])'
      BY <2>1
    <2> QED  BY <1>0, <1>1, <2>1, <2>2, <2>3, <2>4, AgreeKept
  <1>4. ASSUME NEW s \in StreamIds, send_audio_frame(s)
        PROVE  RegistriesAgree'
    <2>1. /\ dgrams' = dgrams \cup {[kind |-> "audio", call |-> nCalls + 1, stream |-> s,
                                     index |-> 0, seq |-> 0, size |-> 0, pkt |-> 0]}
          /\ sType' = [sType EXCEPT ![s] = "audio"] /\ sType[s] = "audio"
          /\ nextStreamId' = nextStreamId /\ sNext' = sNext /\ Idle'
          /\ calls' = calls /\ toSend' = toSend
      BY <1>4 DEF send_audio_frame, MayUse, TypeAgrees, StreamsOpened, Idle
    <2>2. sType' = sType
      BY <1>0, <2>1
    <2>3. \A d \in dgrams' : d \in dgrams \/ OfStreamType(d)'
      BY <2>1, <2>2 DEF OfStreamType
    <2> QED  BY <1>0, <1>1, <2>1, <2>2, <2>3, AgreeKept
  <1>5. ASSUME \/ \E s \in StreamIds, z \in FrameSizes : RefuseFrame(s, z)
               \/ \E s \in StreamIds : RefuseAudio(s) \/ send_stream_fin(s)
               \/ \E s \in StreamIds, t \in ExternalTelemetry :
                     apply_network_telemetry(s, t[1], t[2])
               \/ take_bitrate_update_bps
               \/ CancelFrame
        PROVE  RegistriesAgree'
    <2>1. /\ nextStreamId' = nextStreamId /\ sNext' = sNext /\ Idle'
          /\ calls' = calls /\ dgrams' = dgrams /\ toSend' = toSend
      BY <1>5 DEF RefuseFrame, RefuseAudio, send_stream_fin, apply_network_telemetry,
                  take_bitrate_update_bps, CancelFrame, Idle, NoSend, netVars
    <2>2. sType' = sType
      <3>1. ASSUME NEW s \in StreamIds, NEW t \in {"video", "audio"}, MayUse(s, t)
            PROVE  [sType EXCEPT ![s] = t] = sType
        BY <1>0, <3>1 DEF MayUse, TypeAgrees, StreamsOpened
      <3>2. ASSUME NEW s \in StreamIds, NEW z \in FrameSizes, RefuseFrame(s, z)
            PROVE  sType' = sType
        BY <3>1, <3>2 DEF RefuseFrame
      <3>3. ASSUME NEW s \in StreamIds, RefuseAudio(s)
            PROVE  sType' = sType
        BY <3>1, <3>3 DEF RefuseAudio
      <3> QED
        BY <1>5, <3>2, <3>3 DEF send_stream_fin, apply_network_telemetry,
                                take_bitrate_update_bps, CancelFrame
    <2> QED  BY <1>0, <1>1, <2>1, <2>2, AgreeKept
  <1> QED  BY <1>2, <1>3, <1>4, <1>5 DEF SenderCall

\* A frame in progress, and a datagram in flight, is about a frame begun.
LEMMA BegunFrames ==
    ASSUME SessionInv, RegistriesAgree
    PROVE  /\ ~Idle => AboutVideo(sending.stream, sending.index)
           /\ \A d \in dgrams : d.kind = "data" => AboutVideo(d.stream, d.index)
  <1>1. \A c, s, i : Submitted(c, s, i) => AboutVideo(s, i)
    BY DEF Submitted, RegistriesAgree, AboutVideo
  <1> QED  BY <1>1 DEF SessionInv, DropletsAreSubmitted

\* The steps of a send_frame in progress keep the registries in agreement.
LEMMA AgreeSend ==
    ASSUME SessionInv, SessionInv', RegistriesAgree, SenderStep
    PROVE  RegistriesAgree'
  <1>0. /\ TypeOK' /\ WaitIsOnStream' /\ rType' = rType /\ rWait' = rWait
        /\ sNext \in [StreamIds -> Nat]
        /\ \A s \in StreamIds : sNext[s] <= sNext[s]
    <2>1. sNext \in [StreamIds -> Nat]
      BY DEF SessionInv, TypeOK, SenderTypeOK
    <2>2. \A s \in StreamIds : sNext[s] <= sNext[s]
      BY <2>1
    <2>3. rType' = rType /\ rWait' = rWait
      BY DEF SenderStep, receiverVars
    <2> QED  BY <2>1, <2>2, <2>3 DEF SessionInv
  <1>1. CASE DrainControl
    <2>1. /\ toSend # <<>> /\ toSend' = Tail(toSend) /\ ~Idle
          /\ UNCHANGED <<nextStreamId, sType, sNext, calls, dgrams>>
      BY <1>1 DEF DrainControl
    <2>2. \A i \in 1..Len(toSend') : \E j \in 1..Len(toSend) : toSend'[i] = toSend[j]
      <3>1. toSend \in Seq(Control)
        BY DEF SessionInv, TypeOK, NetTypeOK
      <3>2. \A i \in 1..Len(toSend') : i + 1 \in 1..Len(toSend) /\ toSend'[i] = toSend[i + 1]
        BY <2>1, <3>1
      <3> QED  BY <3>2
    <2>3. sending'.stream = sending.stream /\ sending'.index = sending.index
      <3>1. sending' = sending \/ \E r : sending' = [sending EXCEPT !.red = r]
        BY <1>1 DEF DrainControl
      <3> QED  BY <3>1 DEF SessionInv, TypeOK, SenderTypeOK
    <2>4. (~Idle => sending.index = sNext[sending.stream])'
      BY <2>1, <2>3 DEF RegistriesAgree
    <2> QED  BY <1>0, <2>1, <2>2, <2>4, AgreeKept
  <1>2. CASE SendDroplet
    <2>1. /\ dgrams' = dgrams \cup {Droplet} /\ ~Idle
          /\ sending' = [sending EXCEPT !.seq = @ + 1]
          /\ UNCHANGED <<nextStreamId, sType, sNext, calls, toSend>>
      BY <1>2 DEF SendDroplet
    <2>2. \A d \in dgrams' : d \in dgrams \/ OfStreamType(d)'
      BY <2>1, BegunFrames DEF Droplet, OfStreamType, AboutVideo
    <2>3. sending'.stream = sending.stream /\ sending'.index = sending.index
      BY <2>1 DEF SessionInv, TypeOK, SenderTypeOK
    <2>4. (~Idle => sending.index = sNext[sending.stream])'
      BY <2>1, <2>3 DEF RegistriesAgree
    <2> QED  BY <1>0, <2>1, <2>2, <2>4, AgreeKept
  <1>3. CASE FailFrame
    <2>1. Idle' /\ UNCHANGED <<nextStreamId, sType, sNext, calls, dgrams, toSend>>
      BY <1>3 DEF FailFrame, Idle, NoSend, netVars
    <2> QED  BY <1>0, <2>1, AgreeKept
  <1>4. CASE FinishFrame
    <2>1. /\ Idle' /\ UNCHANGED <<nextStreamId, sType, calls, dgrams, toSend>>
          /\ sNext' = [sNext EXCEPT ![sending.stream] = @ + 1]
      BY <1>4 DEF FinishFrame, NextFrameIndex, Idle, NoSend, netVars
    <2>2. \A s \in StreamIds : sNext[s] <= sNext'[s]
      BY <1>0, <2>1
    <2> QED  BY <1>0, <2>1, <2>2, AgreeKept
  <1> QED  BY <1>1, <1>2, <1>3, <1>4 DEF SenderStep

\* What a step of the receive loop may leave behind: datagrams only go, a
\* stream's type becomes that of the datagram or none, and the answers are
\* loss reports, acks, and feedback on the frame whose channel send ended.
LEMMA ReceiverEffect ==
    ASSUME SessionInv, ReceiverStep
    PROVE  /\ dgrams' \subseteq dgrams /\ UNCHANGED senderVars
           /\ \/ UNCHANGED rType
              \/ \E d \in dgrams :
                    rType' = [rType EXCEPT ![d.stream] =
                                 IF d.kind = "data" THEN "video"
                                 ELSE IF @ = "none" THEN "audio" ELSE @]
              \/ \E s \in StreamIds : rType' = [rType EXCEPT ![s] = "none"]
           /\ \/ rWait' = rWait \/ rWait'.chan # "video"
              \/ \E d \in dgrams : /\ d.kind = "data" /\ rWait'.stream = d.stream
                                   /\ rWait'.index = d.index
           /\ \/ toSend' = toSend
              \/ \E p : toSend' = Append(toSend, p) /\ p.kind \in {"A", "B"}
              \/ \E p, q : /\ rWait.chan = "video"
                           /\ toSend' = Append(Append(toSend, p), q)
                           /\ p.stream = rWait.stream /\ p.index = rWait.index
                           /\ q.stream = rWait.stream /\ q.index = rWait.index
  <1> DEFINE Datagrams == dgrams' \subseteq dgrams /\ UNCHANGED senderVars
             Types == \/ UNCHANGED rType
                      \/ \E d \in dgrams :
                            rType' = [rType EXCEPT ![d.stream] =
                                         IF d.kind = "data" THEN "video"
                                         ELSE IF @ = "none" THEN "audio" ELSE @]
                      \/ \E s \in StreamIds : rType' = [rType EXCEPT ![s] = "none"]
             Waits == \/ rWait' = rWait \/ rWait'.chan # "video"
                      \/ \E d \in dgrams : /\ d.kind = "data" /\ rWait'.stream = d.stream
                                           /\ rWait'.index = d.index
             Answers == \/ toSend' = toSend
                        \/ \E p : toSend' = Append(toSend, p) /\ p.kind \in {"A", "B"}
                        \/ \E p, q : /\ rWait.chan = "video"
                                     /\ toSend' = Append(Append(toSend, p), q)
                                     /\ p.stream = rWait.stream /\ p.index = rWait.index
                                     /\ q.stream = rWait.stream /\ q.index = rWait.index
  <1>1. ASSUME NEW d \in dgrams, AcceptData(d)
        PROVE  dgrams' \subseteq dgrams /\ Types /\ Answers
    <2>1. /\ dgrams' = dgrams \ {d} /\ d.kind = "data"
          /\ rType' = [rType EXCEPT ![d.stream] = "video"]
      BY <1>1 DEF AcceptData, TakeDatagram, Observe
    <2>2. toSend' = toSend \/ \E w : toSend' = Append(toSend, LossReport(d.stream, w))
      BY <1>1 DEF AcceptData, Observe
    <2>3. \A w : LossReport(d.stream, w).kind = "B"
      BY DEF LossReport, LossFeedback, ControlPacket
    <2>4. Types
      BY <2>1
    <2>5. Answers
      BY <2>2, <2>3
    <2> QED  BY <2>1, <2>4, <2>5
  <1>2. UNCHANGED senderVars
    BY DEF ReceiverStep
  <1>3. ASSUME NEW d \in dgrams,
               \/ SkipOutOfTurn(d) \/ KeepRow(d) \/ DropDecoder(d)
               \/ DieDecoding(d) \/ DiscardMixed(d)
        PROVE  Datagrams /\ Types /\ Waits /\ Answers
    <2>1. AcceptData(d) /\ rWait' = rWait
      BY <1>3 DEF SkipOutOfTurn, KeepRow, DropDecoder, DieDecoding, DiscardMixed, FeedDecoder
    <2> QED  BY <1>1, <1>2, <2>1
  <1>4. ASSUME NEW d \in dgrams, EmitFrame(d)
        PROVE  Datagrams /\ Types /\ Waits /\ Answers
    <2>1. AcceptData(d)
      BY <1>4 DEF EmitFrame, FeedDecoder
    <2>2. d.kind = "data" /\ rWait'.stream = d.stream /\ rWait'.index = d.index
      BY <1>4, <2>1 DEF EmitFrame, Waiting, AcceptData, TakeDatagram
    <2> QED  BY <1>1, <1>2, <2>1, <2>2
  <1>5. ASSUME NEW d \in dgrams, DiscardData(d) \/ RejectStreamType(d)
        PROVE  Datagrams /\ Types /\ Waits /\ Answers
    BY <1>2, <1>5 DEF DiscardData, RejectStreamType, TakeDatagram, receiverVars
  <1>6. ASSUME NEW d \in dgrams, handle_audio_packet(d)
        PROVE  Datagrams /\ Types /\ Waits /\ Answers
    <2>1. /\ dgrams' \subseteq dgrams /\ d.kind = "audio" /\ toSend' = toSend
          /\ rType' = [rType EXCEPT ![d.stream] = IF @ = "none" THEN "audio" ELSE @]
      BY <1>6 DEF handle_audio_packet, TakeDatagram
    <2>2. rWait'.chan # "video"
      BY <1>6 DEF handle_audio_packet, Waiting, NoWait
    <2>3. Types
      BY <2>1
    <2> QED  BY <1>2, <2>1, <2>2, <2>3
  <1>7. ASSUME FrameQueued
        PROVE  Datagrams /\ Types /\ Waits /\ Answers
    <2>1. /\ dgrams' = dgrams /\ rType' = rType /\ rWait' = NoWait /\ rWait.chan = "video"
          /\ \E j \in Jitters :
                toSend' = Append(Append(toSend,
                            FecFeedback(rWait.stream, rWait.index, rWait.ideal, rWait.used)),
                            Telemetry(rWait.stream, rWait.index,
                                      LossPpm(rWait.ideal, rWait.used), j))
      BY <1>7 DEF FrameQueued
    <2>2. Answers
      BY <2>1 DEF FecFeedback, Telemetry, ControlPacket
    <2> QED  BY <1>2, <2>1, <2>2 DEF NoWait
  <1>8. ASSUME FrameUnwanted \/ AudioQueued
        PROVE  Datagrams /\ Types /\ Waits /\ Answers
    BY <1>2, <1>8 DEF FrameUnwanted, AudioQueued, NoWait, netVars
  <1>9. ASSUME handle_stream_fin_packet
        PROVE  Datagrams /\ Types /\ Waits /\ Answers
    <2>1. /\ dgrams' = dgrams /\ rWait' = rWait /\ toRecv # <<>>
          /\ rType' = [rType EXCEPT ![Head(toRecv)] = "none"]
          /\ toSend' = Append(toSend, Ack(Head(toRecv)))
      BY <1>9 DEF handle_stream_fin_packet
    <2>2. Head(toRecv) \in StreamIds
      BY <2>1 DEF SessionInv, TypeOK, NetTypeOK
    <2>3. Types
      BY <2>1, <2>2
    <2>4. Ack(Head(toRecv)).kind \in {"A", "B"}
      BY DEF Ack, ControlPacket
    <2>5. Answers
      BY <2>1, <2>4
    <2> QED  BY <1>2, <2>1, <2>3, <2>5
  <1> HIDE DEF Datagrams, Types, Waits, Answers
  <1>10. Datagrams /\ Types /\ Waits /\ Answers
    BY <1>3, <1>4, <1>5, <1>6, <1>7, <1>8, <1>9 DEF ReceiverStep
  <1> QED  BY <1>10 DEF Datagrams, Types, Waits, Answers

\* The receive loop keeps the registries in agreement: what it answers is
\* about a frame it emitted, so about one the sender has begun.
LEMMA AgreeReceive ==
    ASSUME SessionInv, SessionInv', RegistriesAgree, ReceiverStep
    PROVE  RegistriesAgree'
  <1>0. /\ TypeOK' /\ WaitIsOnStream' /\ UNCHANGED <<nextStreamId, sType, sNext, calls, sending>>
        /\ dgrams' \subseteq dgrams
        /\ sNext \in [StreamIds -> Nat] /\ toSend \in Seq(Control)
        /\ rType \in [StreamIds -> {"none", "video", "audio"}]
        /\ \A d \in dgrams : d.stream \in StreamIds /\ d.kind \in {"data", "audio"}
    <2>1. UNCHANGED <<nextStreamId, sType, sNext, calls, sending>> /\ dgrams' \subseteq dgrams
      BY ReceiverEffect DEF senderVars
    <2>2. /\ sNext \in [StreamIds -> Nat] /\ toSend \in Seq(Control)
          /\ rType \in [StreamIds -> {"none", "video", "audio"}]
      BY DEF SessionInv, TypeOK, NetTypeOK, SenderTypeOK, ReceiverTypeOK
    <2>3. \A d \in dgrams : d.stream \in StreamIds /\ d.kind \in {"data", "audio"}
      BY DEF SessionInv, TypeOK, NetTypeOK, Datagram
    <2> QED  BY <2>1, <2>2, <2>3 DEF SessionInv
  <1>1. \A s \in StreamIds : /\ sNext[s] <= sNext'[s]
                             /\ rType'[s] \in {"none", rType[s], sType'[s]}
    <2>1. ASSUME NEW s \in StreamIds, rType' = [rType EXCEPT ![s] = "none"]
          PROVE  \A t \in StreamIds : rType'[t] \in {"none", rType[t]}
      BY <1>0, <2>1
    <2>2. ASSUME NEW d \in dgrams,
                 rType' = [rType EXCEPT ![d.stream] =
                              IF d.kind = "data" THEN "video"
                              ELSE IF @ = "none" THEN "audio" ELSE @]
          PROVE  \A t \in StreamIds : rType'[t] \in {rType[t], sType[t]}
      <3>1. sType[d.stream] = IF d.kind = "data" THEN "video" ELSE "audio"
        BY DEF RegistriesAgree
      <3> QED  BY <1>0, <2>2, <3>1
    <2>3. \A s \in StreamIds : rType'[s] \in {"none", rType[s], sType'[s]}
      <3>1. CASE UNCHANGED rType
        BY <3>1
      <3> QED  BY <1>0, <2>1, <2>2, <3>1, ReceiverEffect
    <2> QED  BY <1>0, <2>3
  <1>2. rWait' = rWait \/ (rWait.chan = "video" => AboutVideo(rWait.stream, rWait.index))'
    <2>1. ASSUME NEW d \in dgrams, d.kind = "data", rWait'.stream = d.stream,
                 rWait'.index = d.index
          PROVE  AboutVideo(rWait.stream, rWait.index)'
      BY <1>0, <2>1, BegunFrames DEF AboutVideo
    <2> QED  BY <2>1, ReceiverEffect
  <1>3. \A i \in 1..Len(toSend') :
            \/ \E j \in 1..Len(toSend) : toSend'[i] = toSend[j]
            \/ toSend'[i].kind \in {"F", "T"} => AboutVideo(toSend[i].stream, toSend[i].index)'
    <2>1. ASSUME NEW p, toSend' = Append(toSend, p), p.kind \in {"A", "B"}
          PROVE  \A i \in 1..Len(toSend') :
                    (\E j \in 1..Len(toSend) : toSend'[i] = toSend[j]) \/ toSend'[i] = p
      <3>1. Len(toSend') = Len(toSend) + 1 /\ Len(toSend) \in Nat
        BY <1>0, <2>1
      <3>2. \A i \in 1..Len(toSend) : toSend'[i] = toSend[i]
        BY <1>0, <2>1
      <3>3. toSend'[Len(toSend) + 1] = p
        BY <1>0, <2>1
      <3> QED  BY <3>1, <3>2, <3>3
    <2>2. ASSUME NEW p, NEW q, toSend' = Append(Append(toSend, p), q)
          PROVE  \A i \in 1..Len(toSend') :
                    \/ \E j \in 1..Len(toSend) : toSend'[i] = toSend[j]
                    \/ toSend'[i] \in {p, q}
      <3>1. Len(toSend') = Len(toSend) + 2 /\ Len(toSend) \in Nat
        BY <1>0, <2>2
      <3>2. \A i \in 1..Len(toSend) : toSend'[i] = toSend[i]
        BY <1>0, <2>2
      <3>3. toSend'[Len(toSend) + 1] = p /\ toSend'[Len(toSend) + 2] = q
        BY <1>0, <2>2
      <3> QED  BY <3>1, <3>2, <3>3
    <2>3. rWait.chan = "video" => sType'[rWait.stream] = "video" /\ rWait.index <= sNext'[rWait.stream]
      BY <1>0 DEF RegistriesAgree
    <2>4. CASE toSend' = toSend
      BY <2>4
    <2>5. ASSUME NEW p, toSend' = Append(toSend, p), p.kind \in {"A", "B"}
          PROVE  <1>3!:
      BY <2>1, <2>5
    <2>6. ASSUME NEW p, NEW q, rWait.chan = "video",
                 toSend' = Append(Append(toSend, p), q),
                 p.stream = rWait.stream, p.index = rWait.index,
                 q.stream = rWait.stream, q.index = rWait.index
          PROVE  <1>3!:
      BY <2>2, <2>3, <2>6 DEF AboutVideo
    <2> QED  BY <2>4, <2>5, <2>6, ReceiverEffect
  <1>4. (~Idle => sending.index = sNext[sending.stream])'
    BY <1>0 DEF RegistriesAgree, Idle
  <1> QED  BY <1>0, <1>1, <1>2, <1>3, <1>4, AgreeKept

\* The application behind the receiver and the network change nothing of it.
LEMMA AgreeEnvironment ==
    ASSUME SessionInv, SessionInv', RegistriesAgree, Consumer \/ Network
    PROVE  RegistriesAgree'
  <1>1. /\ UNCHANGED <<nextStreamId, sType, sNext, calls, sending, rType, rWait, toSend>>
        /\ dgrams' \subseteq dgrams
    BY DEF Consumer, Network, TakeFrame, TakeAudio, Detach, LoseDatagram, ChangeSenderLimit,
           ChangeReceiverLimit, senderVars, receiverVars, netVars
  <1> QED  BY <1>1 DEF RegistriesAgree, Idle

LEMMA AgreeNext ==
    ASSUME StreamsOpened, SessionInv, SessionInv', RegistriesAgree, [Next]_vars
    PROVE  RegistriesAgree'
  <1>1. CASE Next
    BY <1>1, AgreeCall, AgreeSend, AgreeReceive, AgreeEnvironment DEF Next
  <1>2. CASE UNCHANGED vars
    <2>1. UNCHANGED <<nextStreamId, sType, sNext, calls, sending, rType, rWait, toSend, dgrams>>
      BY <1>2 DEF vars, senderVars, receiverVars, netVars
    <2> QED  BY <2>1 DEF RegistriesAgree, Idle
  <1> QED  BY <1>1, <1>2

\* When streams are opened before they are used, both ends agree on their
\* types and nothing is ahead of the sender's frame indices.
THEOREM RegistriesAlwaysAgree ==
    ASSUME StreamsOpened PROVE Spec => []RegistriesAgree
  <1>1. SessionInv /\ SessionInv' /\ RegistriesAgree /\ [Next]_vars => RegistriesAgree'
    BY AgreeNext
  <1> QED  BY <1>1, AgreeInit, SessionInvariant, PTL DEF Spec

\* Feedback reaches the sender for the frame in progress or an earlier one:
\* drain_control_channel's test on the frame index drops nothing.
THEOREM FeedbackIsTimely ==
    ASSUME StreamsOpened PROVE Spec => []FeedbackNotFromFuture
  <1>1. RegistriesAgree => FeedbackNotFromFuture
    BY DEF RegistriesAgree, FeedbackNotFromFuture
  <1> QED  BY <1>1, RegistriesAlwaysAgree, PTL

(***************************************************************************)
(* SendsInTurn, when moreover every send_frame that starts finishes.       *)
(***************************************************************************)
\* A quotient rounded up covers what was divided (div_ceil).
LEMMA CeilDivCovers ==
    ASSUME NEW a \in Nat, NEW b \in Nat \ {0}
    PROVE  a <= CeilDiv(a, b) * b
  <1> DEFINE q == (a + b - 1) \div b
  <1>1. q \in Int /\ a + b - 1 < b * (q + 1)
    OBVIOUS
  <1>2. b * (q + 1) = q * b + b
    BY <1>1
  <1>3. q * b \in Int
    BY <1>1
  <1> HIDE DEF q
  <1>4. a <= q * b
    BY <1>1, <1>2, <1>3
  <1> QED  BY <1>4 DEF CeilDiv, q

\* send_chunk's packets fit the path they were sized for.
LEMMA PacketFits ==
    ASSUME NEW size \in Nat \ {0}, NEW limit \in Nat \ {0}
    PROVE  PacketSize(size, limit) <= limit
  <1>1. target_packet_size(limit) \in Nat /\ target_packet_size(limit) <= limit
    BY FecAssumption DEF target_packet_size, Smaller
  <1>2. CeilDiv(size, 2) <= size
    BY DEF CeilDiv
  <1>3. CeilDiv(size, 2) \in Nat
    BY CeilDivNat
  <1> QED  BY <1>1, <1>2, <1>3 DEF PacketSize

\* A droplet is never longer than the packet size: the last original one is
\* what is left of the block, the others are full.
LEMMA DropletShort ==
    ASSUME NEW size \in Nat \ {0}, NEW pkt \in Nat \ {0}, NEW seq \in Nat
    PROVE  DropletLen(size, pkt, seq) <= pkt
  <1>1. CASE seq + 1 = NeededPackets(size, pkt)
    <2>1. size <= (seq + 1) * pkt
      BY <1>1, CeilDivCovers DEF NeededPackets
    <2>2. (seq + 1) * pkt = seq * pkt + pkt /\ seq * pkt \in Nat
      OBVIOUS
    <2>3. size - seq * pkt <= pkt
      BY <2>1, <2>2
    <2> QED  BY <1>1, <2>3 DEF DropletLen
  <1>2. CASE seq + 1 # NeededPackets(size, pkt)
    BY <1>2 DEF DropletLen
  <1> QED  BY <1>1, <1>2

\* Two submissions under one stream and index are one call.
LEMMA OneSubmission ==
    ASSUME IndexNamesOneFrame, NEW c, NEW d, NEW s, NEW i,
           Submitted(c, s, i), Submitted(d, s, i)
    PROVE  c = d
  BY DEF IndexNamesOneFrame, Submitted

\* On a steady path no droplet of a frame in progress is too large.
LEMMA NoFailure ==
    ASSUME SessionInv, SendsInTurn
    PROVE  ~FailFrame
  <1> SUFFICES ASSUME FailFrame PROVE FALSE
    OBVIOUS
  <1>1. /\ ~Idle /\ ~DropletFits
    BY DEF FailFrame
  <1>2. sending.seq \in Nat /\ sLimit \in Nat \ {0}
    BY TransportAssumption DEF SessionInv, TypeOK, NetTypeOK, SenderTypeOK
  <1>3. /\ sending.size \in Nat \ {0} /\ sending.pkt = PacketSize(sending.size, sLimit)
    BY <1>1, FecAssumption DEF SendsInTurn, SizeAllowed
  <1>4. sending.pkt \in Nat \ {0} /\ sending.pkt <= sLimit
    BY <1>2, <1>3, PacketSizePositive, PacketFits
  <1>5. DropletLen(sending.size, sending.pkt, sending.seq) <= sending.pkt
    BY <1>2, <1>3, <1>4, DropletShort
  <1>6. DropletLen(sending.size, sending.pkt, sending.seq) \in Int
    BY <1>2, <1>3, <1>4 DEF DropletLen
  <1> QED  BY <1>1, <1>2, <1>4, <1>5, <1>6 DEF DropletFits

\* The loop does not end: the stream has the sender's type, a decoder can be
\* created for every droplet, and a decoder holds droplets of one call only.
LEMMA NoFatalError ==
    ASSUME SessionInv, RegistriesAgree, SendsInTurn, NEW d \in dgrams
    PROVE  ~RejectStreamType(d) /\ ~DieDecoding(d)
  <1>1. ~RejectStreamType(d)
    <2>1. SUFFICES ASSUME RejectStreamType(d) PROVE FALSE
      OBVIOUS
    <2>2. d.kind = "data" /\ rType[d.stream] = "audio"
      BY <2>1 DEF RejectStreamType, TakeDatagram
    <2>3. d.stream \in StreamIds
      BY DEF SessionInv, TypeOK, NetTypeOK, Datagram
    <2> QED  BY <2>2, <2>3 DEF RegistriesAgree
  <1>2. ~DieDecoding(d)
    <2>1. SUFFICES ASSUME DieDecoding(d) PROVE FALSE
      OBVIOUS
    <2>2. AcceptData(d) /\ NextIndexMatches(d) /\ Fatal(d) /\ d.kind = "data"
      BY <2>1 DEF DieDecoding, AcceptData, TakeDatagram
    <2>3. CodecCreatable(d.size, d.pkt)
      BY <2>2 DEF SendsInTurn
    <2>4. Mixed(d)
      BY <2>2, <2>3 DEF Fatal
    <2>5. PICK r \in Rows(d) : r.call # d.call
      BY <2>4 DEF Mixed
    <2>6. d.stream \in StreamIds
      BY DEF SessionInv, TypeOK, NetTypeOK, Datagram
    <2>7. r \in rDec[d.stream].rows /\ rDec[d.stream].index = d.index
      BY <2>5 DEF Rows, Row, DecoderFor, NeedsDecoder
    <2>8. /\ Submitted(d.call, d.stream, d.index)
          /\ Submitted(r.call, d.stream, d.index)
      BY <2>2, <2>6, <2>7 DEF SessionInv, DropletsAreSubmitted
    <2> QED  BY <2>5, <2>8, OneSubmission DEF SendsInTurn
  <1> QED  BY <1>1, <1>2

\* At the start there is nothing to get out of turn.
LEMMA TurnInit == Init => SendsInTurn
  BY DEF Init, NetInit, SenderInit, ReceiverInit, SendsInTurn, IndexNamesOneFrame,
         ReceiverSurvives, Idle, NoSend

\* A step that neither starts, sends nor ends a frame and leaves the loop
\* running leaves the order of the sends alone.
LEMMA TurnKept ==
    ASSUME SendsInTurn, UNCHANGED <<calls, sNext, sending, sLimit, rLoop>>,
           \A d \in dgrams' : d.kind = "data" => d \in dgrams
    PROVE  SendsInTurn'
  BY DEF SendsInTurn, IndexNamesOneFrame, ReceiverSurvives, Idle

\* The sender's calls: a frame starts under an index no earlier call has.
LEMMA TurnCall ==
    ASSUME StreamsOpened, SendsFinish, SessionInv, RegistriesAgree, SendsInTurn, SenderCall
    PROVE  SendsInTurn'
  <1>0. rLoop' = rLoop /\ calls \subseteq Call /\ sNext \in [StreamIds -> Nat]
    BY DEF SenderCall, receiverVars, SessionInv, TypeOK, SenderTypeOK
  <1>1. ASSUME NEW k \in {"video", "audio"}, OpenStream(k)
        PROVE  SendsInTurn'
    <2>1. /\ sNext' = [sNext EXCEPT ![nextStreamId] = 0] /\ nextStreamId \in StreamIds
          /\ UNCHANGED <<calls, sending, sLimit, dgrams>>
      BY <1>1 DEF OpenStream, netVars, SessionInv, TypeOK, SenderTypeOK
    <2>2. \A c \in calls : c.stream # nextStreamId /\ c.stream \in StreamIds
      <3>1. sType[nextStreamId] = "none"
        BY <2>1 DEF RegistriesAgree, StreamIds
      <3> QED  BY <1>0, <3>1 DEF RegistriesAgree, Call
    <2>3. \A c \in calls : sNext'[c.stream] = sNext[c.stream]
      BY <1>0, <2>1, <2>2
    <2> QED
      BY <1>0, <2>1, <2>3 DEF SendsInTurn, IndexNamesOneFrame, ReceiverSurvives, Idle
  <1>2. ASSUME NEW s \in StreamIds, NEW z \in FrameSizes, StartFrame(s, z)
        PROVE  SendsInTurn'
    <2> DEFINE needed == NeededPackets(z, PacketSize(z, sLimit))
               total  == TotalPackets(needed, sRed[s])
               k == [call |-> nCalls + 1, stream |-> s, index |-> sNext[s],
                     needed |-> needed, total |-> total]
    <2>1. /\ calls' = calls \cup {k} /\ Idle
          /\ SizeAllowed(z) /\ CodecCreatable(z, PacketSize(z, sLimit))
          /\ sending' = [call |-> nCalls + 1, stream |-> s, index |-> sNext[s],
                         size |-> z, pkt |-> PacketSize(z, sLimit), total |-> total,
                         seq |-> 0, red |-> sRed[s]]
          /\ UNCHANGED <<sNext, sLimit, dgrams>>
      BY <1>2 DEF StartFrame, netVars
    <2>2. k.stream = s /\ k.index = sNext[s] /\ k.call = nCalls + 1
      OBVIOUS
    <2>3. /\ sending'.call = nCalls + 1 /\ sending'.stream = s /\ sending'.size = z
          /\ sending'.pkt = PacketSize(z, sLimit)
      BY <2>1
    <2>4. nCalls + 1 # 0
      BY DEF SessionInv, TypeOK, SenderTypeOK
    <2> HIDE DEF needed, total, k
    <2>5. \A c \in calls : c.stream = s => c.index # sNext[s]
      BY <2>1 DEF SendsInTurn
    <2>6. IndexNamesOneFrame'
      BY <2>1, <2>2, <2>5 DEF SendsInTurn, IndexNamesOneFrame
    <2>7. \A c \in calls' :
              /\ c.call # Garbled
              /\ c.index = sNext'[c.stream] => (~Idle)' /\ sending'.stream = c.stream
      BY <2>1, <2>2, <2>3, <2>4 DEF SendsInTurn, Idle, Garbled
    <2> QED
      BY <1>0, <2>1, <2>3, <2>6, <2>7 DEF SendsInTurn, ReceiverSurvives
  <1>3. ASSUME \/ \E s \in StreamIds, z \in FrameSizes : RefuseFrame(s, z)
               \/ \E s \in StreamIds :
                     send_audio_frame(s) \/ RefuseAudio(s) \/ send_stream_fin(s)
               \/ \E s \in StreamIds, t \in ExternalTelemetry :
                     apply_network_telemetry(s, t[1], t[2])
               \/ take_bitrate_update_bps
        PROVE  SendsInTurn'
    <2>1. /\ UNCHANGED <<calls, sNext, sending, sLimit>>
          /\ \A d \in dgrams' : d.kind = "data" => d \in dgrams
      BY <1>3 DEF RefuseFrame, send_audio_frame, RefuseAudio, send_stream_fin,
                  apply_network_telemetry, take_bitrate_update_bps, netVars
    <2> QED  BY <1>0, <2>1, TurnKept
  <1>4. ~CancelFrame
    BY DEF CancelFrame, SendsFinish
  <1> QED  BY <1>1, <1>2, <1>3, <1>4 DEF SenderCall

\* A frame in progress: its index is used up before the next one starts.
LEMMA TurnSend ==
    ASSUME SessionInv, RegistriesAgree, SendsInTurn, SenderStep
    PROVE  SendsInTurn'
  <1>0. /\ rLoop' = rLoop /\ calls \subseteq Call /\ sNext \in [StreamIds -> Nat]
        /\ sending \in [call : Nat, stream : Nat, index : Nat, size : Nat, pkt : Nat,
                        total : Nat, seq : Nat, red : Nat]
    BY DEF SenderStep, receiverVars, SessionInv, TypeOK, SenderTypeOK
  <1>1. ASSUME DrainControl \/ SendDroplet
        PROVE  SendsInTurn'
    <2>1. /\ \/ sending' = sending
             \/ \E r : sending' = [sending EXCEPT !.red = r]
             \/ sending' = [sending EXCEPT !.seq = @ + 1]
          /\ UNCHANGED <<calls, sNext, sLimit>>
          /\ \A d \in dgrams' : d \in dgrams \/ (~Idle /\ d = Droplet)
      BY <1>1 DEF DrainControl, SendDroplet
    <2>2. /\ sending'.call = sending.call /\ sending'.stream = sending.stream
          /\ sending'.size = sending.size /\ sending'.pkt = sending.pkt
      BY <1>0, <2>1
    <2>3. \A d \in dgrams' : d.kind = "data" => CodecCreatable(d.size, d.pkt)
      BY <2>1 DEF SendsInTurn, Droplet
    <2>4. SendsInTurn' <=>
            /\ IndexNamesOneFrame
            /\ \A c \in calls :
                  /\ c.call # Garbled
                  /\ c.index = sNext[c.stream] => ~Idle /\ sending.stream = c.stream
            /\ ~Idle => /\ SizeAllowed(sending.size)
                        /\ sending.pkt = PacketSize(sending.size, sLimit)
                        /\ CodecCreatable(sending.size, sending.pkt)
            /\ \A d \in dgrams' : d.kind = "data" => CodecCreatable(d.size, d.pkt)
            /\ ReceiverSurvives
      BY <1>0, <2>1, <2>2 DEF SendsInTurn, IndexNamesOneFrame, ReceiverSurvives, Idle
    <2> QED  BY <2>3, <2>4 DEF SendsInTurn
  <1>2. ~FailFrame
    BY NoFailure
  <1>3. CASE FinishFrame
    <2>1. /\ Idle' /\ ~Idle
          /\ sNext' = [sNext EXCEPT ![sending.stream] = @ + 1]
          /\ UNCHANGED <<calls, sLimit, dgrams>>
      BY <1>3 DEF FinishFrame, NextFrameIndex, Idle, NoSend, netVars
    <2>2. \A c \in calls : c.index # sNext'[c.stream]
      <3>1. \A c \in calls : /\ c.stream \in StreamIds /\ c.index \in Nat
                             /\ c.index <= sNext[c.stream]
        BY <1>0 DEF RegistriesAgree, Call
      <3>2. \A c \in calls : c.stream # sending.stream => c.index # sNext[c.stream]
        BY DEF SendsInTurn
      <3> QED  BY <1>0, <2>1, <3>1, <3>2
    <2> QED
      BY <1>0, <2>1, <2>2 DEF SendsInTurn, IndexNamesOneFrame, ReceiverSurvives
  <1> QED  BY <1>1, <1>2, <1>3 DEF SenderStep

\* The other steps: the receive loop survives and the path stays.
LEMMA TurnRest ==
    ASSUME SendsFinish, SessionInv, RegistriesAgree, SendsInTurn,
           ReceiverStep \/ Consumer \/ Network
    PROVE  SendsInTurn'
  <1>1. CASE ReceiverStep
    <2>1. UNCHANGED <<calls, sNext, sending>> /\ dgrams' \subseteq dgrams
      BY <1>1, ReceiverEffect DEF senderVars
    <2>2. UNCHANGED <<sLimit, rLoop>>
      <3>1. \A d \in dgrams : ~RejectStreamType(d) /\ ~DieDecoding(d)
        BY NoFatalError
      <3> QED
        BY <1>1, <3>1 DEF ReceiverStep, DiscardData, SkipOutOfTurn, KeepRow, DropDecoder,
             EmitFrame, DiscardMixed, FeedDecoder, AcceptData, TakeDatagram,
             handle_audio_packet, FrameQueued, FrameUnwanted, AudioQueued,
             handle_stream_fin_packet, receiverVars, netVars
    <2> QED  BY <2>1, <2>2, TurnKept
  <1>2. CASE Consumer
    <2>1. UNCHANGED <<calls, sNext, sending, dgrams, sLimit, rLoop>>
      BY <1>2 DEF Consumer, TakeFrame, TakeAudio, Detach, senderVars, netVars
    <2> QED  BY <2>1, TurnKept
  <1>3. CASE Network
    <2>1. ~ChangeSenderLimit
      BY DEF ChangeSenderLimit, SendsFinish, SessionInv, TypeOK, NetTypeOK
    <2>2. UNCHANGED <<calls, sNext, sending, sLimit, rLoop>> /\ dgrams' \subseteq dgrams
      BY <1>3, <2>1 DEF Network, LoseDatagram, ChangeReceiverLimit, senderVars, receiverVars
    <2> QED  BY <2>2, TurnKept
  <1> QED  BY <1>1, <1>2, <1>3

\* When streams are opened before use and every send_frame that starts
\* finishes, frames start one after the other, each under an index of its own.
THEOREM SendsAlwaysInTurn ==
    ASSUME StreamsOpened, SendsFinish PROVE Spec => []SendsInTurn
  <1>1. SessionInv /\ RegistriesAgree /\ SendsInTurn /\ [Next]_vars => SendsInTurn'
    <2> SUFFICES ASSUME SessionInv, RegistriesAgree, SendsInTurn, [Next]_vars
                 PROVE  SendsInTurn'
      OBVIOUS
    <2>1. CASE Next
      BY <2>1, TurnCall, TurnSend, TurnRest DEF Next
    <2>2. CASE UNCHANGED vars
      <3>1. UNCHANGED <<calls, sNext, sending, sLimit, rLoop, dgrams>>
        BY <2>2 DEF vars, senderVars, receiverVars, netVars
      <3> QED  BY <3>1, TurnKept
    <2> QED  BY <2>1, <2>2
  <1> QED  BY <1>1, TurnInit, SessionInvariant, RegistriesAlwaysAgree, PTL DEF Spec

\* ... so a frame index names one frame of its stream,
THEOREM IndicesNameFrames ==
    ASSUME StreamsOpened, SendsFinish PROVE Spec => []IndexNamesOneFrame
  <1>1. SendsInTurn => IndexNamesOneFrame
    BY DEF SendsInTurn
  <1> QED  BY <1>1, SendsAlwaysInTurn, PTL

\* ... no packet of the peer ends the receive loop,
THEOREM LoopSurvives ==
    ASSUME StreamsOpened, SendsFinish PROVE Spec => []ReceiverSurvives
  <1>1. SendsInTurn => ReceiverSurvives
    BY DEF SendsInTurn
  <1> QED  BY <1>1, SendsAlwaysInTurn, PTL

\* ... and no frame handed to the application mixes two: the run reused_index
\* shows that it can when the path MTU shrinks under a send_frame.
THEOREM NothingIsGarbled ==
    ASSUME StreamsOpened, SendsFinish PROVE Spec => [](NothingGarbled)
  <1>1. SessionInv /\ SendsInTurn => NothingGarbled
    <2> SUFFICES ASSUME SessionInv, SendsInTurn, NEW k \in 1..Len(emitted),
                        emitted[k].call = Garbled
                 PROVE  FALSE
      BY DEF NothingGarbled
    <2>1. \A c \in calls : c.call # Garbled
      BY DEF SendsInTurn
    <2> QED
      BY <2>1 DEF SessionInv, FramesAreSubmitted, SendsInTurn, IndexNamesOneFrame
  <1> QED  BY <1>1, SessionInvariant, SendsAlwaysInTurn, PTL

(***************************************************************************)
(* The redundancy and the bitrate.                                         *)
(***************************************************************************)
\* The policy adapts within the range that send_chunk clamps to.
PolicyInRange == Adaptive => Unit <= MinPolicy /\ MaxPolicy <= MaxRedundancy

\* Clamping answers a value of the range, whichever value is given.
LEMMA ClampRange ==
    ASSUME NEW x \in Nat, NEW lo \in Nat, NEW hi \in Nat, lo <= hi
    PROVE  Clamp(x, lo, hi) \in lo..hi
  BY DEF Clamp

\* The feedback rules keep a redundancy between 1.0 and MAX_REDUNDANCY.
LEMMA RedundancyKept ==
    ASSUME PolicyInRange, NEW red \in Unit..MaxRedundancy, NEW x, NEW y
    PROVE  adjust_redundancy_with_telemetry(red, x, y) \in Unit..MaxRedundancy
  <1>1. ASSUME NEW u, NEW v
        PROVE  adjust_redundancy(red, u, v) \in Unit..MaxRedundancy
    <2>1. CASE ~Adaptive
      BY <2>1 DEF adjust_redundancy
    <2>2. CASE Adaptive
      <3>1. red \in Nat /\ red + IncreaseStep \in Nat /\ SubFloor(red, DecreaseStep) \in Nat
        BY FecAssumption, RateAssumption DEF SubFloor
      <3>2. \A z \in Nat : Clamp(z, MinPolicy, MaxPolicy) \in MinPolicy..MaxPolicy
        BY ClampRange, RateAssumption
      <3>3. MinPolicy..MaxPolicy \subseteq Unit..MaxRedundancy
        BY <2>2, FecAssumption, RateAssumption DEF PolicyInRange
      <3> QED  BY <3>1, <3>2, <3>3 DEF adjust_redundancy
    <2> QED  BY <2>1, <2>2
  <1> QED  BY <1>1 DEF adjust_redundancy_with_telemetry

\* Whatever sequence of feedback, telemetry, failed and dropped calls led to
\* it, the redundancy a stream starts from is between 1.0 and MAX_REDUNDANCY.
THEOREM RedundancyStaysInRange ==
    ASSUME PolicyInRange PROVE Spec => []RedundancyInRange
  <1>1. FreshRedundancy \in Unit..MaxRedundancy
    BY ClampRange, FecAssumption, SenderAssumption DEF FreshRedundancy
  <1>2. Init => RedundancyInRange
    BY <1>1 DEF Init, SenderInit, RedundancyInRange
  <1>3. SessionInv /\ RedundancyInRange /\ [Next]_vars => RedundancyInRange'
    <2> SUFFICES ASSUME SessionInv, RedundancyInRange, [Next]_vars
                 PROVE  RedundancyInRange'
      OBVIOUS
    <2>0. sRed \in [StreamIds -> Nat]
      BY DEF SessionInv, TypeOK, SenderTypeOK
    <2>1. ASSUME NEW k \in {"video", "audio"}, OpenStream(k)
          PROVE  RedundancyInRange'
      BY <1>1, <2>0, <2>1 DEF OpenStream, RedundancyInRange
    <2>2. ASSUME NEW s \in StreamIds, NEW t \in ExternalTelemetry,
                 apply_network_telemetry(s, t[1], t[2])
          PROVE  RedundancyInRange'
      BY <2>0, <2>2, RedundancyKept DEF apply_network_telemetry, RedundancyInRange
    <2>3. CASE FinishFrame
      <3>1. sending.red \in Nat
        BY DEF SessionInv, TypeOK, SenderTypeOK
      <3>2. Clamp(sending.red, Unit, MaxRedundancy) \in Unit..MaxRedundancy
        BY <3>1, ClampRange, FecAssumption
      <3> QED  BY <2>0, <2>3, <3>2 DEF FinishFrame, RedundancyInRange
    <2>4. CASE UNCHANGED sRed
      BY <2>4 DEF RedundancyInRange
    <2>5. ASSUME \/ \E s \in StreamIds, z \in FrameSizes :
                       StartFrame(s, z) \/ RefuseFrame(s, z)
                 \/ \E s \in StreamIds :
                       send_audio_frame(s) \/ RefuseAudio(s) \/ send_stream_fin(s)
                 \/ take_bitrate_update_bps \/ CancelFrame
                 \/ DrainControl \/ SendDroplet \/ FailFrame
          PROVE  UNCHANGED sRed
      BY <2>5 DEF StartFrame, RefuseFrame, send_audio_frame, RefuseAudio, send_stream_fin,
                  take_bitrate_update_bps, CancelFrame, DrainControl, SendDroplet, FailFrame
    <2>6. ASSUME ReceiverStep \/ Consumer \/ Network \/ UNCHANGED vars
          PROVE  UNCHANGED sRed
      BY <2>6 DEF ReceiverStep, Consumer, Network, LoseDatagram, vars, senderVars
    <2> QED
      BY <2>1, <2>2, <2>3, <2>4, <2>5, <2>6 DEF Next, SenderCall, SenderStep
  <1> QED  BY <1>2, <1>3, SessionInvariant, PTL DEF Spec

\* The update an encoder is given is the current target bitrate, which stays
\* between the two limits of apply_aimd_bitrate.
THEOREM PendingStaysTarget == Spec => []PendingIsTarget
  <1>1. Init => PendingIsTarget
    <2>1. clamp_video_bitrate(DefaultBitrate) \in MinBitrate..MaxBitrate
      BY ClampRange, RateAssumption DEF clamp_video_bitrate
    <2> QED  BY <2>1 DEF Init, SenderInit, PendingIsTarget
  <1>2. SessionInv /\ PendingIsTarget /\ [Next]_vars => PendingIsTarget'
    <2> SUFFICES ASSUME SessionInv, PendingIsTarget, [Next]_vars
                 PROVE  PendingIsTarget'
      OBVIOUS
    <2>1. CASE DrainControl
      <3>1. CASE UNCHANGED <<bitrate, pending>>
        BY <3>1 DEF PendingIsTarget
      <3>2. CASE /\ bitrate' \in apply_aimd_bitrate(bitrate, Head(toSend).x, Head(toSend).y)
                 /\ pending' = NoteBitrate(bitrate')
        <4>1. bitrate \in Nat
          BY DEF SessionInv, TypeOK, SenderTypeOK
        <4>2. bitrate' \in MinBitrate..MaxBitrate
          BY <3>2, <4>1, BitrateInRange
        <4> QED  BY <3>2, <4>2 DEF PendingIsTarget, NoteBitrate
      <3> QED  BY <2>1, <3>1, <3>2 DEF DrainControl
    <2>2. CASE take_bitrate_update_bps
      BY <2>2 DEF take_bitrate_update_bps, PendingIsTarget
    <2>3. CASE UNCHANGED <<bitrate, pending>>
      BY <2>3 DEF PendingIsTarget
    <2>4. ASSUME \/ \E k \in {"video", "audio"} : OpenStream(k)
                 \/ \E s \in StreamIds, z \in FrameSizes :
                       StartFrame(s, z) \/ RefuseFrame(s, z)
                 \/ \E s \in StreamIds :
                       send_audio_frame(s) \/ RefuseAudio(s) \/ send_stream_fin(s)
                 \/ \E s \in StreamIds, t \in ExternalTelemetry :
                       apply_network_telemetry(s, t[1], t[2])
                 \/ CancelFrame \/ SendDroplet \/ FailFrame \/ FinishFrame
          PROVE  UNCHANGED <<bitrate, pending>>
      BY <2>4 DEF OpenStream, StartFrame, RefuseFrame, send_audio_frame, RefuseAudio,
                  send_stream_fin, apply_network_telemetry, CancelFrame, SendDroplet,
                  FailFrame, FinishFrame
    <2>5. ASSUME ReceiverStep \/ Consumer \/ Network \/ UNCHANGED vars
          PROVE  UNCHANGED <<bitrate, pending>>
      BY <2>5 DEF ReceiverStep, Consumer, Network, LoseDatagram, vars, senderVars
    <2> QED
      BY <2>1, <2>2, <2>3, <2>4, <2>5 DEF Next, SenderCall, SenderStep
  <1> QED  BY <1>1, <1>2, SessionInvariant, PTL DEF Spec
=================================================================================
