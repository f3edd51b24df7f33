------------------------------ MODULE ControlPlane ------------------------------
(***************************************************************************)
(* Control packets over one connection (session.rs, transport.rs).  Each   *)
(* sender and each receiver spawns a writer task, which gives every packet *)
(* a QUIC stream of its own, and a reader task, which accepts the streams  *)
(* of the connection one after the other.  An owner is a pair              *)
(* <<end, role>>.  In the deployment "one_way" end a sends and end b       *)
(* receives; in "stream" (SankakuStream) each end has both roles, so two   *)
(* readers share a connection.  Receivers run as spawn_frame_channel and   *)
(* spawn_media_channels start them, on a runtime of their own.             *)
(***************************************************************************)
EXTENDS Naturals, Sequences

CONSTANTS
    Deployments,    \* the deployments to consider
    MaxPackets      \* bound on control packets

ASSUME ControlAssumption ==
    Deployments \subseteq {"one_way", "stream"} /\ MaxPackets \in Nat

VARIABLES
    deployment,
    open,       \* is the connection open?
    owner,      \* "new": no tasks yet; "up"; "gone": dropped, or its loop returned
    outq,       \* control_out_tx .. out_rx
    writer,     \* "off", "idle", "busy" (in send_control), "ended"
    writing,    \* the packet a busy writer has opened a stream for
    wire,       \* per end: streams opened towards it and not yet accepted
    written,    \* packets whose stream is written to its end and not yet read
    reader,     \* "off", "idle", "busy" (in recv_control), "ended"
    reading,    \* the packet of the stream a busy reader has accepted
    inbox,      \* in_tx .. control_in_rx
    sent,       \* history: control packets enqueued, in order
    delivered   \* history: what each reader put into its inbox

connVars == <<deployment, open>>
outVars == <<outq, writer, writing, written>>
inVars == <<reader, reading, inbox, delivered>>
vars == <<connVars, owner, outVars, wire, inVars, sent>>

Ends == {"a", "b"}
Roles == {"sender", "receiver"}
Owners == Ends \X Roles

Peer(e) == IF e = "a" THEN "b" ELSE "a"

\* Feedback, telemetry, loss reports and acks go to the peer's sender,
\* stream-finish packets to the peer's receiver.
Addressee(o) == <<Peer(o[1]), IF o[2] = "sender" THEN "receiver" ELSE "sender">>

Deployed(o) == deployment = "stream" \/ o \in {<<"a", "sender">>, <<"b", "receiver">>}

\* kind "F" stands for the three kinds of feedback (F, T and B), which the
\* readers treat alike.
Packet == [n : Nat \ {0}, kind : {"F", "E", "A"}, from : Owners]
NoPacket == [n |-> 0, kind |-> "none", from |-> <<"a", "sender">>]

TypeOK ==
    /\ deployment \in Deployments /\ open \in BOOLEAN
    /\ owner \in [Owners -> {"new", "up", "gone"}]
    /\ outq \in [Owners -> Seq(Packet)]
    /\ writer \in [Owners -> {"off", "idle", "busy", "ended"}]
    /\ reader \in [Owners -> {"off", "idle", "busy", "ended"}]
    /\ writing \in [Owners -> Packet \cup {NoPacket}]
    /\ reading \in [Owners -> Packet \cup {NoPacket}]
    /\ wire \in [Ends -> Seq(Packet)]
    /\ written \subseteq Packet
    /\ inbox \in [Owners -> Seq(Packet)]
    /\ sent \in Seq(Packet)
    /\ delivered \in [Owners -> Seq(Packet)]

\* spawn_frame_channel starts a receiver's tasks at once (a thread that is
\* slow to start is a task that has not moved yet); a sender's wait for its
\* first call.
InitialState(o, idle, running) ==
    IF o[2] = "receiver" /\ Deployed(o) THEN running ELSE idle

Init ==
    /\ deployment \in Deployments /\ open = TRUE
    /\ owner = [o \in Owners |-> InitialState(o, "new", "up")]
    /\ outq = [o \in Owners |-> <<>>]
    /\ writer = [o \in Owners |-> InitialState(o, "off", "idle")]
    /\ reader = [o \in Owners |-> InitialState(o, "off", "idle")]
    /\ writing = [o \in Owners |-> NoPacket]
    /\ reading = [o \in Owners |-> NoPacket]
    /\ wire = [e \in Ends |-> <<>>] /\ written = {}
    /\ inbox = [o \in Owners |-> <<>>]
    /\ sent = <<>> /\ delivered = [o \in Owners |-> <<>>]

(***************************************************************************)
(* The owners.                                                             *)
(***************************************************************************)
\* start_control_tasks; later calls find the channels in place.
Started(f, o, v) == IF owner[o] = "new" THEN [f EXCEPT ![o] = v] ELSE f

StartTasks(o) ==
    /\ owner' = Started(owner, o, "up")
    /\ writer' = Started(writer, o, "idle")
    /\ reader' = Started(reader, o, "idle")

\* enqueue_control_packet fails once the writer has dropped out_rx.
WriterRuns(o) == writer[o] # "ended"

NewPacket(o, kind) == [n |-> Len(sent) + 1, kind |-> kind, from |-> o]

\* Mutant: a packet replaces those that wait.
EnqueueLatest(o, kind) ==
    /\ outq' = [outq EXCEPT ![o] = <<NewPacket(o, kind)>>]
    /\ sent' = Append(sent, NewPacket(o, kind))

Enqueue(o, kind) ==
    /\ outq' = [outq EXCEPT ![o] = Append(@, NewPacket(o, kind))]
    /\ sent' = Append(sent, NewPacket(o, kind))

\* The first send_frame or send_audio_frame, through ensure_handshake.
ensure_handshake(e) ==
    LET o == <<e, "sender">> IN
    /\ Deployed(o) /\ owner[o] = "new"
    /\ StartTasks(o)
    /\ UNCHANGED <<connVars, outq, writing, written, wire, reading, inbox, delivered, sent>>

send_stream_fin(e) ==
    LET o == <<e, "sender">> IN
    /\ Deployed(o) /\ owner[o] # "gone" /\ WriterRuns(o)
    /\ Len(sent) < MaxPackets
    /\ StartTasks(o)
    /\ Enqueue(o, "E")
    /\ UNCHANGED <<connVars, writing, written, wire, reading, inbox, delivered>>

\* One packet of drain_control_channel, called from a send_frame: feedback is
\* applied (see Sender), acks and stream-finish packets are dropped.
DrainControl(e) ==
    LET o == <<e, "sender">> IN
    /\ owner[o] = "up" /\ inbox[o] # <<>>
    /\ inbox' = [inbox EXCEPT ![o] = Tail(@)]
    /\ UNCHANGED <<connVars, owner, outVars, wire, reader, reading, delivered, sent>>

\* The application drops a sender.  Its writer goes on until the queue is
\* empty, its reader until the next packet.
DropSender(e) ==
    LET o == <<e, "sender">> IN
    /\ owner[o] = "up"
    /\ owner' = [owner EXCEPT ![o] = "gone"]
    /\ inbox' = [inbox EXCEPT ![o] = <<>>]
    /\ UNCHANGED <<connVars, outVars, wire, reader, reading, delivered, sent>>

\* run_media_loop returns: the thread's runtime goes and both tasks with it.
\* A stream that was being written ends short.
EndLoop(o) ==
    /\ owner' = [owner EXCEPT ![o] = "gone"]
    /\ writer' = [writer EXCEPT ![o] = "ended"]
    /\ reader' = [reader EXCEPT ![o] = "ended"]
    /\ writing' = [writing EXCEPT ![o] = NoPacket]
    /\ reading' = [reading EXCEPT ![o] = NoPacket]
    /\ outq' = [outq EXCEPT ![o] = <<>>]
    /\ inbox' = [inbox EXCEPT ![o] = <<>>]
    /\ UNCHANGED <<connVars, wire, written, delivered, sent>>

\* handle_data_packet answers a frame or reports a loss window (for a datagram
\* that came before the connection was closed, perhaps).
SendFeedback(e) ==
    LET o == <<e, "receiver">> IN
    /\ owner[o] = "up" /\ owner[Addressee(o)] # "new"
    /\ \/ /\ WriterRuns(o) /\ Len(sent) < MaxPackets
          /\ Enqueue(o, "F")
          /\ UNCHANGED <<connVars, owner, writer, writing, written, wire, inVars>>
       \/ ~WriterRuns(o) /\ EndLoop(o)

\* The control arm of run_media_loop: a stream-finish packet is acknowledged,
\* anything else dropped.
HandleControl(e) ==
    LET o == <<e, "receiver">>
        isFin == Head(inbox[o]).kind = "E"
    IN
    /\ owner[o] = "up" /\ inbox[o] # <<>>
    /\ \/ /\ ~isFin
          /\ inbox' = [inbox EXCEPT ![o] = Tail(@)]
          /\ UNCHANGED <<connVars, owner, outVars, wire, reader, reading, delivered, sent>>
       \/ /\ isFin /\ WriterRuns(o) /\ Len(sent) < MaxPackets
          /\ inbox' = [inbox EXCEPT ![o] = Tail(@)]
          /\ Enqueue(o, "A")
          /\ UNCHANGED <<connVars, owner, writer, writing, written, wire,
                         reader, reading, delivered>>
       \/ isFin /\ ~WriterRuns(o) /\ EndLoop(o)

\* The datagram arm: recv_datagram fails on a closed connection.
ReceiveError(e) ==
    LET o == <<e, "receiver">> IN
    owner[o] = "up" /\ ~open /\ EndLoop(o)

\* The datagram arm: a handler's error ends the loop.
HandlerError(e) ==
    LET o == <<e, "receiver">> IN
    open /\ owner[o] = "up" /\ owner[Addressee(o)] # "new" /\ EndLoop(o)

(***************************************************************************)
(* The writer task: send_control opens a stream, then writes it.           *)
(***************************************************************************)
\* Mutant: the newest stream is accepted first.
NewestFirst(e, p) == <<p>> \o wire[e]

\* accept_bi yields streams in the order they were opened.
Announce(e, p) == Append(wire[e], p)

OpenStream(o) ==
    /\ writer[o] = "idle" /\ outq[o] # <<>> /\ open
    /\ writer' = [writer EXCEPT ![o] = "busy"]
    /\ writing' = [writing EXCEPT ![o] = Head(outq[o])]
    /\ outq' = [outq EXCEPT ![o] = Tail(@)]
    /\ wire' = [wire EXCEPT ![Peer(o[1])] = Announce(Peer(o[1]), Head(outq[o]))]
    /\ UNCHANGED <<connVars, owner, written, inVars, sent>>

WriteStream(o) ==
    /\ writer[o] = "busy" /\ open
    /\ written' = written \cup {writing[o]}
    /\ writer' = [writer EXCEPT ![o] = "idle"]
    /\ writing' = [writing EXCEPT ![o] = NoPacket]
    /\ UNCHANGED <<connVars, owner, outq, wire, inVars, sent>>

\* send_control fails, or out_rx.recv() answers None.
EndWriter(o) ==
    /\ \/ ~open /\ (writer[o] = "busy" \/ (writer[o] = "idle" /\ outq[o] # <<>>))
       \/ writer[o] = "idle" /\ outq[o] = <<>> /\ owner[o] = "gone"
    /\ writer' = [writer EXCEPT ![o] = "ended"]
    /\ writing' = [writing EXCEPT ![o] = NoPacket]
    /\ outq' = [outq EXCEPT ![o] = <<>>]
    /\ UNCHANGED <<connVars, owner, written, wire, inVars, sent>>

(***************************************************************************)
(* The reader task: recv_control accepts a stream, then reads it.          *)
(***************************************************************************)
AcceptStream(o) ==
    LET e == o[1] IN
    /\ reader[o] = "idle" /\ wire[e] # <<>>
    /\ reader' = [reader EXCEPT ![o] = "busy"]
    /\ reading' = [reading EXCEPT ![o] = Head(wire[e])]
    /\ wire' = [wire EXCEPT ![e] = Tail(@)]
    /\ UNCHANGED <<connVars, owner, outVars, inbox, delivered, sent>>

\* Mutant: the loop is left after a packet that was delivered.
LeaveAfterDelivery(o) == "ended"

\* in_tx.send fails when the owner has dropped control_in_rx.
ReaderAfter(o) == IF owner[o] = "up" THEN "idle" ELSE "ended"

ReadStream(o) ==
    /\ reader[o] = "busy" /\ reading[o] \in written
    /\ reader' = [reader EXCEPT ![o] = ReaderAfter(o)]
    /\ reading' = [reading EXCEPT ![o] = NoPacket]
    /\ IF owner[o] = "up"
       THEN /\ inbox' = [inbox EXCEPT ![o] = Append(@, reading[o])]
            /\ delivered' = [delivered EXCEPT ![o] = Append(@, reading[o])]
       ELSE UNCHANGED <<inbox, delivered>>
    /\ written' = written \ {reading[o]}
    /\ UNCHANGED <<connVars, owner, outq, writer, writing, wire, sent>>

\* Mutant: a stream that is still being written counts as short.
CutIfSlow(p) == p \notin written

\* A stream ends short when its writer was cancelled before the end.
CutShort(p) == p \notin written /\ \A o \in Owners : writing[o] # p

EndReader(o) ==
    /\ \/ reader[o] = "busy" /\ (~open \/ CutShort(reading[o]))
       \/ reader[o] = "idle" /\ ~open
    /\ reader' = [reader EXCEPT ![o] = "ended"]
    /\ reading' = [reading EXCEPT ![o] = NoPacket]
    /\ UNCHANGED <<connVars, owner, outVars, wire, inbox, delivered, sent>>

\* SankakuStream::close at either end, a timeout, or the peer's process ends.
Close ==
    /\ open /\ open' = FALSE
    /\ UNCHANGED <<deployment, owner, outVars, wire, inVars, sent>>

TaskStep(o) ==
    \/ OpenStream(o) \/ WriteStream(o) \/ EndWriter(o)
    \/ AcceptStream(o) \/ ReadStream(o) \/ EndReader(o)

OwnerStep(e) ==
    \/ ensure_handshake(e) \/ send_stream_fin(e) \/ DrainControl(e) \/ DropSender(e)
    \/ SendFeedback(e) \/ HandleControl(e) \/ ReceiveError(e) \/ HandlerError(e)

Next ==
    \/ \E o \in Owners : TaskStep(o)
    \/ \E e \in Ends : OwnerStep(e)
    \/ Close

Spec == Init /\ [][Next]_vars

\* The runtimes poll the tasks, and the receiver's select! polls its arms from
\* a random one, so neither arm starves the other.  No call of the application
\* and no fault is fair.
Fairness ==
    /\ \A o \in Owners :
          /\ WF_vars(OpenStream(o) \/ WriteStream(o) \/ EndWriter(o))
          /\ WF_vars(AcceptStream(o) \/ ReadStream(o) \/ EndReader(o))
    /\ \A e \in Ends :
          /\ WF_vars(HandleControl(e))
          /\ WF_vars(ReceiveError(e))

FairSpec == Spec /\ Fairness

(***************************************************************************)
(* Properties.                                                             *)
(***************************************************************************)
\* A control packet is delivered to at most one inbox, once, and packets of
\* one writer that share an inbox keep the order in which they were enqueued,
\* however many readers race for the streams.
DeliveredInOrder ==
    /\ \A o \in Owners : \A i, j \in 1..Len(delivered[o]) :
          i < j /\ delivered[o][i].from = delivered[o][j].from
              => delivered[o][i].n < delivered[o][j].n
    /\ \A o, u \in Owners :
          \A i \in 1..Len(delivered[o]), j \in 1..Len(delivered[u]) :
              delivered[o][i] = delivered[u][j] => o = u

\* The tasks implement ControlLink: a packet goes to one reader of the other end,
\* in its writer's order, and with one owner at each end a reader skips none, whatever
\* is dropped or cut short on the way.
Link == INSTANCE ControlLink WITH
            Readers <- Owners, Packet <- Packet, alone <- deployment = "one_way",
            sent <- sent, delivered <- delivered

RefinesControlLink == Link!Spec

Elements(s) == {s[i] : i \in 1..Len(s)}

InOrder(s) == \A i, j \in 1..Len(s) : i < j /\ s[i].from = s[j].from => s[i].n < s[j].n

Before(P, Q) == \A p \in P, q \in Q : p.from = q.from => p.n < q.n

\* What the reader of o has accepted and not read yet, and all it ever took.
Accepted(o) == IF reader[o] = "busy" THEN {reading[o]} ELSE {}
Taken(o) == Accepted(o) \cup Elements(delivered[o])

\* The inductive invariant behind DeliveredInOrder: from the queue over the
\* wire to the readers, the packets of one writer keep their order, every
\* packet lies on its writer's side or its addressee's, and no two readers
\* take the same one.
PipelineInOrder ==
    /\ \A o \in Owners : /\ InOrder(outq[o])
                         /\ \A p \in Elements(outq[o]) : p.from = o /\ p.n <= Len(sent)
    /\ \A e \in Ends : /\ InOrder(wire[e])
                       /\ \A p \in Elements(wire[e]) : p.from[1] = Peer(e) /\ p.n <= Len(sent)
    /\ \A o \in Owners : /\ InOrder(delivered[o])
                         /\ \A p \in Taken(o) : p.from[1] = Peer(o[1]) /\ p.n <= Len(sent)
                         /\ Before(Elements(delivered[o]), Accepted(o))
                         /\ Before(Taken(o), Elements(wire[o[1]]))
    /\ \A w \in Owners : /\ \A e \in Ends : Before(Elements(wire[e]), Elements(outq[w]))
                         /\ \A o \in Owners : Before(Taken(o), Elements(outq[w]))
    /\ \A o, u \in Owners : o # u => Taken(o) \cap Taken(u) = {}

\* The tasks of an owner run from its start on, and hold a packet only while
\* they are busy with it.
TasksMatch ==
    \A o \in Owners :
        /\ owner[o] = "new" => writer[o] = "off" /\ reader[o] = "off"
        /\ writer[o] # "busy" => writing[o] = NoPacket
        /\ writer[o] = "busy" => writing[o] \in Packet
        /\ reader[o] = "busy" => reading[o] \in Packet

NoneGone == \A o \in Owners : owner[o] # "gone"

\* Before a fault, a stream that was opened is written or being written: no
\* reader finds one cut short.
StreamsAreWritten ==
    open /\ NoneGone =>
        \A o \in Owners : \A p \in Elements(wire[o[1]]) \cup Accepted(o) :
            p \in written \/ \E w \in Owners : writing[w] = p

\* While the connection is open and no owner has gone, no control task ends:
\* neither losing a race for a stream nor a slow writer stops one.
TasksLast ==
    open /\ NoneGone => \A o \in Owners : "ended" \notin {writer[o], reader[o]}

SentBy(w) == {p \in Elements(sent) : p.from = w}
Earlier(p) == {q \in SentBy(p.from) : q.n < p.n}

\* Every packet on its way or delivered is the one that was enqueued under its number.
PacketsAreSent ==
    /\ \A i \in 1..Len(sent) : sent[i].n = i
    /\ \A o \in Owners :
          Elements(outq[o]) \cup Elements(wire[o[1]]) \cup Taken(o) \subseteq Elements(sent)

\* Of the packets of o's peer none is missing before one that o still gets, and once
\* the peer's writer has ended nothing is added to the queue.
NoGapBefore(o) ==
    LET w   == Addressee(o)
        got == Taken(o) \cup Elements(wire[o[1]])
    IN  /\ \A p \in Accepted(o) : Earlier(p) \subseteq Elements(delivered[o])
        /\ \A p \in Elements(wire[o[1]]) : Earlier(p) \subseteq got
        /\ writer[w] # "ended" => SentBy(w) \subseteq got \cup Elements(outq[w])
        /\ writer[w] = "ended" => outq[w] = <<>>

\* With one owner at each end, a reader that runs has no gap before it.
NoneSkipped ==
    deployment = "one_way" =>
        /\ \A o \in Owners : ~Deployed(o) => owner[o] = "new"
        /\ \A o \in Owners : Deployed(o) /\ reader[o] # "ended" => NoGapBefore(o)

\* The invariant that the proofs carry from step to step: what DeliveredInOrder and
\* TasksLast need, and what the refinement needs in addition.
TasksInv == TypeOK /\ PipelineInOrder /\ TasksMatch /\ StreamsAreWritten /\ TasksLast
ControlInv == TasksInv /\ PacketsAreSent /\ NoneSkipped

\* Has packet n reached the owner it is meant for?
Arrived(n) ==
    n <= Len(sent) /\
    LET o == Addressee(sent[n].from) IN
    \E i \in 1..Len(delivered[o]) : delivered[o][i] = sent[n]

Excused == ~open \/ \E o \in Owners : owner[o] = "gone"

\* Every control packet reaches the owner it is meant for, unless the
\* connection is closed or an owner goes away first.
ControlArrives ==
    \A n \in 1..MaxPackets : n <= Len(sent) ~> (Arrived(n) \/ Excused)
=================================================================================
