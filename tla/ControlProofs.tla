----------------------------- MODULE ControlProofs -----------------------------
(***************************************************************************)
(* Control packets keep their order, control tasks last and implement      *)
(* ControlLink, for any number of packets: however the writers, the        *)
(* readers that share a connection, the owners and faults interleave.      *)
(***************************************************************************)
EXTENDS ControlPlane, TLAPS

(***************************************************************************)
(* Queues.                                                                 *)
(***************************************************************************)
\* Appending (enqueue_control_packet, in_tx.send, open_bi) adds one element.
LEMMA AppendElements ==
    ASSUME NEW T, NEW s \in Seq(T), NEW x \in T
    PROVE  /\ Append(s, x) \in Seq(T)
           /\ Elements(Append(s, x)) = Elements(s) \cup {x}
  <1>1. /\ Append(s, x) \in Seq(T) /\ Len(Append(s, x)) = Len(s) + 1 /\ Len(s) \in Nat
        /\ \A i \in 1..Len(s) : Append(s, x)[i] = s[i]
        /\ Append(s, x)[Len(s) + 1] = x
    OBVIOUS
  <1>2. \A i \in 1..(Len(s) + 1) : i \in 1..Len(s) \/ i = Len(s) + 1
    BY <1>1
  <1> QED  BY <1>1, <1>2 DEF Elements

\* Receiving takes the first element and leaves the others in their order.
LEMMA TailElements ==
    ASSUME NEW T, NEW s \in Seq(T), s # <<>>
    PROVE  /\ Head(s) \in T /\ Tail(s) \in Seq(T)
           /\ Elements(s) = {Head(s)} \cup Elements(Tail(s))
  <1>1. /\ Head(s) \in T /\ Tail(s) \in Seq(T) /\ Len(s) \in Nat \ {0}
        /\ Head(s) = s[1] /\ Len(Tail(s)) = Len(s) - 1
        /\ \A i \in 1..Len(Tail(s)) : Tail(s)[i] = s[i + 1]
    OBVIOUS
  <1>2. ASSUME NEW i \in 1..Len(s), i # 1
        PROVE  s[i] \in Elements(Tail(s))
    <2>1. i - 1 \in 1..Len(Tail(s)) /\ (i - 1) + 1 = i
      BY <1>1, <1>2
    <2>2. Tail(s)[i - 1] = s[i]
      BY <1>1, <2>1
    <2> QED  BY <2>1, <2>2 DEF Elements
  <1>3. \A i \in 1..Len(Tail(s)) : i + 1 \in 1..Len(s)
    BY <1>1
  <1>4. Elements(Tail(s)) \subseteq Elements(s) /\ Head(s) \in Elements(s)
    BY <1>1, <1>3 DEF Elements
  <1>5. Elements(s) \subseteq {Head(s)} \cup Elements(Tail(s))
    <2>1. ASSUME NEW i \in 1..Len(s) PROVE s[i] \in {Head(s)} \cup Elements(Tail(s))
      BY <1>1, <1>2
    <2> QED  BY <2>1 DEF Elements
  <1> QED  BY <1>1, <1>4, <1>5

LEMMA EmptyElements == Elements(<<>>) = {} /\ InOrder(<<>>)
  BY DEF Elements, InOrder

\* The elements of a queue are of its type.
LEMMA ElementsType ==
    ASSUME NEW T, NEW s \in Seq(T)
    PROVE  Elements(s) \subseteq T
  BY DEF Elements

\* A queue in order stays so when its head leaves, and the head was first.
LEMMA TailInOrder ==
    ASSUME NEW s \in Seq(Packet), s # <<>>, InOrder(s)
    PROVE  InOrder(Tail(s)) /\ Before({Head(s)}, Elements(Tail(s)))
  <1>1. /\ Len(s) \in Nat \ {0} /\ Head(s) = s[1] /\ Len(Tail(s)) = Len(s) - 1
        /\ \A i \in 1..Len(Tail(s)) : Tail(s)[i] = s[i + 1]
    OBVIOUS
  <1>2. \A i \in 1..Len(Tail(s)) : i + 1 \in 1..Len(s) /\ 1 \in 1..Len(s) /\ 1 < i + 1
    BY <1>1
  <1>3. InOrder(Tail(s))
    <2> SUFFICES ASSUME NEW i \in 1..Len(Tail(s)), NEW j \in 1..Len(Tail(s)),
                        i < j, Tail(s)[i].from = Tail(s)[j].from
                 PROVE  Tail(s)[i].n < Tail(s)[j].n
      BY DEF InOrder
    <2>1. i + 1 < j + 1
      OBVIOUS
    <2> QED  BY <1>1, <1>2, <2>1 DEF InOrder
  <1>4. Before({Head(s)}, Elements(Tail(s)))
    BY <1>1, <1>2 DEF Before, Elements, InOrder
  <1> QED  BY <1>3, <1>4

\* A queue in order stays so when what follows all of it is appended.
LEMMA AppendInOrder ==
    ASSUME NEW s \in Seq(Packet), NEW x \in Packet, InOrder(s), Before(Elements(s), {x})
    PROVE  InOrder(Append(s, x))
  <1>1. /\ Len(Append(s, x)) = Len(s) + 1 /\ Len(s) \in Nat
        /\ \A i \in 1..Len(s) : Append(s, x)[i] = s[i] /\ s[i] \in Elements(s)
        /\ Append(s, x)[Len(s) + 1] = x
    BY DEF Elements
  <1>2. ASSUME NEW i \in 1..(Len(s) + 1), NEW j \in 1..(Len(s) + 1), i < j
        PROVE  i \in 1..Len(s) /\ (j \in 1..Len(s) \/ j = Len(s) + 1)
    BY <1>1, <1>2
  <1> QED  BY <1>1, <1>2 DEF InOrder, Before

(***************************************************************************)
(* Types.                                                                  *)
(***************************************************************************)
LEMMA OwnerTypes ==
    /\ \A e \in Ends : /\ <<e, "sender">> \in Owners /\ <<e, "receiver">> \in Owners
                       /\ Peer(e) \in Ends /\ Peer(Peer(e)) = e
    /\ \A o \in Owners : o[1] \in Ends
  BY DEF Ends, Owners, Roles, Peer

\* A new packet is a packet, the last one of the history.
LEMMA EnqueueType ==
    ASSUME TypeOK, NEW o \in Owners, NEW kind \in {"F", "E", "A"}, Enqueue(o, kind)
    PROVE  /\ NewPacket(o, kind) \in Packet
           /\ outq' \in [Owners -> Seq(Packet)] /\ sent' \in Seq(Packet)
           /\ Len(sent') = Len(sent) + 1
  <1>1. NewPacket(o, kind) \in Packet
    BY DEF NewPacket, Packet, TypeOK
  <1>2. sent \in Seq(Packet) /\ outq \in [Owners -> Seq(Packet)]
    BY DEF TypeOK
  <1> HIDE DEF NewPacket
  <1>3. sent' \in Seq(Packet) /\ Len(sent') = Len(sent) + 1
    BY <1>1, <1>2 DEF Enqueue
  <1>4. outq' \in [Owners -> Seq(Packet)]
    BY <1>1, <1>2, AppendElements DEF Enqueue
  <1> QED  BY <1>1, <1>3, <1>4

\* Starting an owner's tasks keeps the states of owners and tasks in range.
LEMMA StartTypes ==
    ASSUME TypeOK, NEW o \in Owners, StartTasks(o)
    PROVE  /\ owner' \in [Owners -> {"new", "up", "gone"}]
           /\ writer' \in [Owners -> {"off", "idle", "busy", "ended"}]
           /\ reader' \in [Owners -> {"off", "idle", "busy", "ended"}]
  BY DEF TypeOK, StartTasks, Started

LEMMA EndLoopType ==
    ASSUME TypeOK, NEW o \in Owners, EndLoop(o)
    PROVE  TypeOK'
  <1>1. <<>> \in Seq(Packet)
    OBVIOUS
  <1> QED  BY <1>1 DEF TypeOK, EndLoop, connVars

\* Taking the head of a control inbox keeps its type.
LEMMA InboxTail ==
    ASSUME TypeOK, NEW o \in Owners, inbox[o] # <<>>, inbox' = [inbox EXCEPT ![o] = Tail(@)]
    PROVE  inbox' \in [Owners -> Seq(Packet)]
  <1>1. inbox[o] \in Seq(Packet) /\ inbox \in [Owners -> Seq(Packet)]
    BY DEF TypeOK
  <1>2. Tail(inbox[o]) \in Seq(Packet)
    BY <1>1
  <1> QED  BY <1>1, <1>2

\* The owners' calls keep every variable in its type.
LEMMA OwnerTypeOK ==
    ASSUME TypeOK, NEW e \in Ends, OwnerStep(e)
    PROVE  TypeOK'
  <1> DEFINE S == <<e, "sender">>
             R == <<e, "receiver">>
  <1>0. S \in Owners /\ R \in Owners
    BY OwnerTypes
  <1> HIDE DEF S, R
  <1>1. CASE ensure_handshake(e)
    <2>1. /\ StartTasks(S)
          /\ UNCHANGED <<connVars, outq, writing, written, wire, reading, inbox, delivered, sent>>
      BY <1>1 DEF ensure_handshake, S
    <2> QED  BY <1>0, <2>1, StartTypes DEF TypeOK, connVars
  <1>2. CASE send_stream_fin(e)
    <2>1. /\ StartTasks(S) /\ Enqueue(S, "E")
          /\ UNCHANGED <<connVars, writing, written, wire, reading, inbox, delivered>>
      BY <1>2 DEF send_stream_fin, S
    <2> QED  BY <1>0, <2>1, StartTypes, EnqueueType DEF TypeOK, connVars
  <1>3. CASE DrainControl(e)
    <2>1. /\ inbox[S] # <<>> /\ inbox' = [inbox EXCEPT ![S] = Tail(@)]
          /\ UNCHANGED <<connVars, owner, outVars, wire, reader, reading, delivered, sent>>
      BY <1>3 DEF DrainControl, S
    <2> QED  BY <1>0, <2>1, InboxTail DEF TypeOK, connVars, outVars
  <1>4. CASE DropSender(e)
    <2>1. /\ owner' = [owner EXCEPT ![S] = "gone"] /\ inbox' = [inbox EXCEPT ![S] = <<>>]
          /\ UNCHANGED <<connVars, outVars, wire, reader, reading, delivered, sent>>
      BY <1>4 DEF DropSender, S
    <2>2. <<>> \in Seq(Packet)
      OBVIOUS
    <2> QED  BY <1>0, <2>1, <2>2 DEF TypeOK, connVars, outVars
  <1>5. ASSUME SendFeedback(e), ~EndLoop(R) PROVE TypeOK'
    <2>1. /\ Enqueue(R, "F")
          /\ UNCHANGED <<connVars, owner, writer, writing, written, wire, inVars>>
      BY <1>5 DEF SendFeedback, R
    <2> QED  BY <1>0, <2>1, EnqueueType DEF TypeOK, connVars, inVars
  <1>6. ASSUME HandleControl(e), ~EndLoop(R) PROVE TypeOK'
    <2>1. /\ inbox[R] # <<>> /\ inbox' = [inbox EXCEPT ![R] = Tail(@)]
          /\ \/ UNCHANGED <<connVars, owner, outVars, wire, reader, reading, delivered, sent>>
             \/ /\ Enqueue(R, "A")
                /\ UNCHANGED <<connVars, owner, writer, writing, written, wire,
                               reader, reading, delivered>>
      BY <1>6 DEF HandleControl, R
    <2>2. inbox' \in [Owners -> Seq(Packet)]
      BY <1>0, <2>1, InboxTail
    <2>3. CASE UNCHANGED <<connVars, owner, outVars, wire, reader, reading, delivered, sent>>
      BY <2>2, <2>3 DEF TypeOK, connVars, outVars
    <2>4. CASE /\ Enqueue(R, "A")
               /\ UNCHANGED <<connVars, owner, writer, writing, written, wire,
                              reader, reading, delivered>>
      BY <1>0, <2>2, <2>4, EnqueueType DEF TypeOK, connVars
    <2> QED  BY <2>1, <2>3, <2>4
  <1>7. ReceiveError(e) \/ HandlerError(e) => EndLoop(R)
    BY DEF ReceiveError, HandlerError, R
  <1> QED
    BY <1>0, <1>1, <1>2, <1>3, <1>4, <1>5, <1>6, <1>7, EndLoopType DEF OwnerStep

\* The tasks keep every variable in its type.
LEMMA TaskTypeOK ==
    ASSUME TypeOK, TasksMatch, NEW o \in Owners, TaskStep(o)
    PROVE  TypeOK'
  <1>0. /\ outq \in [Owners -> Seq(Packet)] /\ outq[o] \in Seq(Packet)
        /\ wire \in [Ends -> Seq(Packet)] /\ wire[o[1]] \in Seq(Packet)
        /\ inbox \in [Owners -> Seq(Packet)] /\ inbox[o] \in Seq(Packet)
        /\ delivered \in [Owners -> Seq(Packet)] /\ delivered[o] \in Seq(Packet)
        /\ wire[Peer(o[1])] \in Seq(Packet) /\ Peer(o[1]) \in Ends /\ o[1] \in Ends
        /\ <<>> \in Seq(Packet)
    <2>1. Peer(o[1]) \in Ends /\ o[1] \in Ends
      BY OwnerTypes
    <2>2. <<>> \in Seq(Packet)
      OBVIOUS
    <2> QED  BY <2>1, <2>2 DEF TypeOK
  <1>1. CASE OpenStream(o)
    <2>1. Head(outq[o]) \in Packet /\ Tail(outq[o]) \in Seq(Packet)
      BY <1>0, <1>1 DEF OpenStream
    <2>2. Append(wire[Peer(o[1])], Head(outq[o])) \in Seq(Packet)
      BY <1>0, <2>1, AppendElements
    <2>3. outq' \in [Owners -> Seq(Packet)] /\ wire' \in [Ends -> Seq(Packet)]
      BY <1>0, <1>1, <2>1, <2>2 DEF OpenStream, Announce
    <2> QED  BY <1>1, <2>1, <2>3 DEF OpenStream, TypeOK, connVars, inVars
  <1>2. CASE WriteStream(o)
    <2>1. writer[o] = "busy" => writing[o] \in Packet
      BY DEF TasksMatch
    <2> QED  BY <1>2, <2>1 DEF WriteStream, TypeOK, connVars, inVars
  <1>3. CASE EndWriter(o)
    BY <1>0, <1>3 DEF EndWriter, TypeOK, connVars, inVars
  <1>4. CASE AcceptStream(o)
    <2>1. Head(wire[o[1]]) \in Packet /\ Tail(wire[o[1]]) \in Seq(Packet)
      BY <1>0, <1>4 DEF AcceptStream
    <2>2. wire' \in [Ends -> Seq(Packet)]
      BY <1>0, <1>4, <2>1 DEF AcceptStream
    <2> QED  BY <1>4, <2>1, <2>2 DEF AcceptStream, TypeOK, connVars, outVars
  <1>5. CASE ReadStream(o)
    <2>1. reading[o] \in Packet
      BY <1>5 DEF ReadStream, TypeOK
    <2>2. /\ Append(inbox[o], reading[o]) \in Seq(Packet)
          /\ Append(delivered[o], reading[o]) \in Seq(Packet)
      BY <1>0, <2>1, AppendElements
    <2>3. inbox' \in [Owners -> Seq(Packet)] /\ delivered' \in [Owners -> Seq(Packet)]
      BY <1>0, <1>5, <2>2 DEF ReadStream
    <2> QED  BY <1>5, <2>3 DEF ReadStream, ReaderAfter, TypeOK, connVars
  <1>6. CASE EndReader(o)
    BY <1>6 DEF EndReader, TypeOK, connVars, outVars
  <1> QED  BY <1>1, <1>2, <1>3, <1>4, <1>5, <1>6 DEF TaskStep

(***************************************************************************)
(* The order of the packets.                                               *)
(***************************************************************************)
\* Packets that are dropped on the way disturb nothing: queues are emptied,
\* accepted streams given up, and nothing is added.
LEMMA OrderKept ==
    ASSUME PipelineInOrder,
           sent' = sent /\ wire' = wire /\ delivered' = delivered,
           \A o \in Owners : outq'[o] = outq[o] \/ outq'[o] = <<>>,
           \A o \in Owners : Accepted(o)' \subseteq Accepted(o)
    PROVE  PipelineInOrder'
  <1>1. \A o \in Owners : Taken(o)' \subseteq Taken(o)
    BY DEF Taken, Elements
  <1>2. \A o \in Owners : /\ InOrder(outq[o]) => InOrder(outq'[o])
                          /\ Elements(outq'[o]) \subseteq Elements(outq[o])
    BY EmptyElements
  <1>3. \A o \in Owners : /\ InOrder(outq[o])'
                          /\ \A p \in Elements(outq[o])' : p.from = o /\ p.n <= Len(sent')
    BY <1>2 DEF PipelineInOrder, InOrder, Elements
  <1>4. \A e \in Ends : /\ InOrder(wire[e])'
                        /\ \A p \in Elements(wire[e])' : p.from[1] = Peer(e) /\ p.n <= Len(sent')
    BY DEF PipelineInOrder
  <1>5. \A o \in Owners : /\ InOrder(delivered[o])'
                          /\ \A p \in Taken(o)' : p.from[1] = Peer(o[1]) /\ p.n <= Len(sent')
                          /\ Before(Elements(delivered[o]), Accepted(o))'
                          /\ Before(Taken(o), Elements(wire[o[1]]))'
    BY <1>1 DEF PipelineInOrder, Before
  <1>6. \A w \in Owners : /\ \A e \in Ends : Before(Elements(wire[e]), Elements(outq[w]))'
                          /\ \A o \in Owners : Before(Taken(o), Elements(outq[w]))'
    BY <1>1, <1>2 DEF PipelineInOrder, Before
  <1>7. \A o, u \in Owners : o # u => Taken(o)' \cap Taken(u)' = {}
    BY <1>1 DEF PipelineInOrder
  <1> QED  BY <1>3, <1>4, <1>5, <1>6, <1>7 DEF PipelineInOrder

\* Whatever lies in a queue, on the wire or with a reader is a packet.
LEMMA PacketsOnly ==
    ASSUME TypeOK, TasksMatch
    PROVE  /\ \A o \in Owners : Elements(outq[o]) \subseteq Packet /\ Taken(o) \subseteq Packet
           /\ \A e \in Ends : Elements(wire[e]) \subseteq Packet
           /\ \A p \in Packet : p.n \in Nat /\ p.from \in Owners
           /\ Len(sent) \in Nat
  <1>1. ASSUME NEW o \in Owners PROVE Elements(outq[o]) \subseteq Packet
    <2>1. outq[o] \in Seq(Packet)
      BY DEF TypeOK
    <2> QED  BY <2>1, ElementsType
  <1>2. ASSUME NEW o \in Owners PROVE Taken(o) \subseteq Packet
    <2>1. delivered[o] \in Seq(Packet)
      BY DEF TypeOK
    <2>2. Elements(delivered[o]) \subseteq Packet
      BY <2>1, ElementsType
    <2>3. Accepted(o) \subseteq Packet
      BY DEF Accepted, TasksMatch
    <2> QED  BY <2>2, <2>3 DEF Taken
  <1>3. ASSUME NEW e \in Ends PROVE Elements(wire[e]) \subseteq Packet
    <2>1. wire[e] \in Seq(Packet)
      BY DEF TypeOK
    <2> QED  BY <2>1, ElementsType
  <1>4. \A p \in Packet : p.n \in Nat /\ p.from \in Owners
    BY DEF Packet
  <1>5. sent \in Seq(Packet)
    BY DEF TypeOK
  <1> QED  BY <1>1, <1>2, <1>3, <1>4, <1>5

\* A new packet follows all those enqueued before it.
LEMMA EnqueueOrder ==
    ASSUME TypeOK, TasksMatch, PipelineInOrder,
           NEW o \in Owners, NEW kind \in {"F", "E", "A"}, Enqueue(o, kind),
           wire' = wire /\ delivered' = delivered,
           \A u \in Owners : Accepted(u)' \subseteq Accepted(u)
    PROVE  PipelineInOrder'
  <1> DEFINE p == NewPacket(o, kind)
  <1>1. p.from = o /\ p.n = Len(sent) + 1
    BY DEF NewPacket
  <1>2. p \in Packet /\ Len(sent') = Len(sent) + 1
    BY EnqueueType
  <1>3. outq \in [Owners -> Seq(Packet)]
    BY DEF TypeOK
  <1>4. outq' = [outq EXCEPT ![o] = Append(outq[o], p)]
    BY DEF Enqueue
  <1> HIDE DEF p
  <1>5. /\ Elements(outq'[o]) = Elements(outq[o]) \cup {p}
        /\ \A w \in Owners \ {o} : outq'[w] = outq[w]
        /\ outq'[o] = Append(outq[o], p) /\ outq[o] \in Seq(Packet)
    <2>1. outq[o] \in Seq(Packet)
      BY <1>3
    <2>2. Elements(Append(outq[o], p)) = Elements(outq[o]) \cup {p}
      BY <1>2, <2>1, AppendElements
    <2> QED  BY <1>3, <1>4, <2>1, <2>2
  <1>6. \A w \in Owners : Elements(outq'[w]) \subseteq Elements(outq[w]) \cup {p}
    BY <1>5
  <1>7. \A u \in Owners : Taken(u)' \subseteq Taken(u)
    BY DEF Taken, Elements
  <1>8. /\ \A w \in Owners : \A q \in Elements(outq[w]) : q.n <= Len(sent) /\ q.n < p.n
        /\ \A e \in Ends : \A q \in Elements(wire[e]) : q.n <= Len(sent) /\ q.n < p.n
        /\ \A u \in Owners : \A q \in Taken(u) : q.n <= Len(sent) /\ q.n < p.n
    BY <1>1, PacketsOnly DEF PipelineInOrder
  <1>9. /\ \A q \in Packet : q.n <= Len(sent) => q.n <= Len(sent')
        /\ p.n <= Len(sent')
    BY <1>1, <1>2, PacketsOnly
  <1>10. ASSUME NEW w \in Owners
         PROVE  /\ InOrder(outq'[w])
                /\ \A q \in Elements(outq'[w]) : q.from = w /\ q.n <= Len(sent')
    <2>1. CASE w = o
      <3>1. InOrder(outq[o]) /\ Before(Elements(outq[o]), {p})
        BY <1>8 DEF PipelineInOrder, Before
      <3>2. InOrder(Append(outq[o], p))
        BY <1>2, <1>5, <3>1, AppendInOrder
      <3>3. \A q \in Elements(outq[o]) : q.from = o /\ q.n <= Len(sent')
        BY <1>9, PacketsOnly DEF PipelineInOrder
      <3> QED  BY <1>1, <1>5, <1>9, <2>1, <3>2, <3>3
    <2>2. CASE w # o
      <3>1. outq'[w] = outq[w]
        BY <1>5, <2>2
      <3>2. \A q \in Elements(outq[w]) : q.n <= Len(sent')
        BY <1>9, PacketsOnly DEF PipelineInOrder
      <3> QED  BY <3>1, <3>2 DEF PipelineInOrder
    <2> QED  BY <2>1, <2>2
  <1>11. \A e \in Ends : /\ InOrder(wire[e])
                         /\ \A q \in Elements(wire[e]) : q.from[1] = Peer(e) /\ q.n <= Len(sent')
    BY <1>9, PacketsOnly DEF PipelineInOrder
  <1>12. \A u \in Owners : /\ InOrder(delivered[u])
                           /\ \A q \in Taken(u)' : q.from[1] = Peer(u[1]) /\ q.n <= Len(sent')
                           /\ Before(Elements(delivered[u]), Accepted(u)')
                           /\ Before(Taken(u)', Elements(wire[u[1]]))
    BY <1>7, <1>9, PacketsOnly DEF PipelineInOrder, Before
  <1>13. \A w \in Owners : /\ \A e \in Ends : Before(Elements(wire[e]), Elements(outq'[w]))
                           /\ \A u \in Owners : Before(Taken(u)', Elements(outq'[w]))
    <2> SUFFICES ASSUME NEW w \in Owners, NEW q \in Elements(outq'[w])
                 PROVE  /\ \A e \in Ends : Before(Elements(wire[e]), {q})
                        /\ \A u \in Owners : Before(Taken(u), {q})
      BY <1>7 DEF Before
    <2>1. CASE q = p
      BY <1>8, <2>1 DEF Before
    <2>2. CASE q \in Elements(outq[w])
      BY <2>2 DEF PipelineInOrder, Before
    <2> QED  BY <1>6, <2>1, <2>2
  <1>14. \A u, w \in Owners : u # w => Taken(u)' \cap Taken(w)' = {}
    BY <1>7 DEF PipelineInOrder
  <1>15. /\ \A w \in Owners : Elements(outq[w])' = Elements(outq'[w])
         /\ \A e \in Ends : Elements(wire[e])' = Elements(wire[e])
         /\ \A u \in Owners : Elements(delivered[u])' = Elements(delivered[u])
    BY DEF Elements
  <1>16. /\ \A w \in Owners : InOrder(outq[w])' <=> InOrder(outq'[w])
         /\ \A e \in Ends : InOrder(wire[e])' <=> InOrder(wire[e])
         /\ \A u \in Owners : InOrder(delivered[u])' <=> InOrder(delivered[u])
    BY DEF InOrder
  <1> QED
    BY <1>10, <1>11, <1>12, <1>13, <1>14, <1>15, <1>16 DEF PipelineInOrder, Before

\* The stream a writer opens comes last on the wire and before all that is
\* still queued.
LEMMA OpenOrder ==
    ASSUME TypeOK, TasksMatch, PipelineInOrder, NEW o \in Owners, OpenStream(o)
    PROVE  PipelineInOrder'
  <1> DEFINE h == Head(outq[o])
             d == Peer(o[1])
  <1>1. /\ outq \in [Owners -> Seq(Packet)] /\ outq[o] \in Seq(Packet) /\ outq[o] # <<>>
        /\ wire \in [Ends -> Seq(Packet)] /\ wire[d] \in Seq(Packet)
        /\ d \in Ends /\ Peer(d) = o[1]
    BY OwnerTypes DEF TypeOK, OpenStream
  <1>2. /\ outq' = [outq EXCEPT ![o] = Tail(@)]
        /\ wire' = [wire EXCEPT ![d] = Append(@, h)]
        /\ UNCHANGED <<reader, reading, delivered, sent>>
    BY DEF OpenStream, Announce, inVars
  <1>3. /\ h \in Packet /\ Elements(outq[o]) = {h} \cup Elements(Tail(outq[o]))
        /\ InOrder(Tail(outq[o])) /\ Before({h}, Elements(Tail(outq[o])))
    <2>1. InOrder(outq[o])
      BY DEF PipelineInOrder
    <2> QED  BY <1>1, <2>1, TailElements, TailInOrder
  <1>4. /\ h.from = o /\ h.n <= Len(sent)
        /\ \A e \in Ends : Before(Elements(wire[e]), {h})
        /\ \A u \in Owners : Before(Taken(u), {h})
    BY <1>3 DEF PipelineInOrder, Before
  <1>5. Elements(Append(wire[d], h)) = Elements(wire[d]) \cup {h} /\ InOrder(Append(wire[d], h))
    <2>1. InOrder(wire[d])
      BY <1>1 DEF PipelineInOrder
    <2> HIDE DEF h, d
    <2> QED  BY <1>1, <1>3, <1>4, <2>1, AppendElements, AppendInOrder
  <1> HIDE DEF h, d
  <1>6. /\ outq'[o] = Tail(outq[o]) /\ \A w \in Owners \ {o} : outq'[w] = outq[w]
        /\ wire'[d] = Append(wire[d], h) /\ \A e \in Ends \ {d} : wire'[e] = wire[e]
    BY <1>1, <1>2
  <1>7. /\ \A w \in Owners : Elements(outq'[w]) \subseteq Elements(outq[w])
        /\ \A e \in Ends : Elements(wire'[e]) \subseteq Elements(wire[e]) \cup {h}
        /\ \A e \in Ends \ {d} : Elements(wire'[e]) = Elements(wire[e])
    BY <1>3, <1>5, <1>6
  <1>8. \A w \in Owners : /\ InOrder(outq'[w])
                          /\ \A p \in Elements(outq'[w]) : p.from = w /\ p.n <= Len(sent)
    BY <1>3, <1>6, <1>7 DEF PipelineInOrder
  <1>9. \A e \in Ends : /\ InOrder(wire'[e])
                        /\ \A p \in Elements(wire'[e]) : p.from[1] = Peer(e) /\ p.n <= Len(sent)
    <2>1. \A e \in Ends : InOrder(wire'[e])
      BY <1>5, <1>6 DEF PipelineInOrder
    <2>2. h.from[1] = Peer(d)
      BY <1>1, <1>4
    <2>3. \A e \in Ends : \A p \in Elements(wire[e]) : p.from[1] = Peer(e) /\ p.n <= Len(sent)
      BY DEF PipelineInOrder
    <2>4. \A p \in Elements(wire'[d]) : p.from[1] = Peer(d) /\ p.n <= Len(sent)
      BY <1>1, <1>4, <1>7, <2>2, <2>3
    <2> QED  BY <1>7, <2>1, <2>3, <2>4
  <1>10. \A u \in Owners : Before(Taken(u), Elements(wire'[u[1]]))
    <2> SUFFICES ASSUME NEW u \in Owners, NEW p \in Elements(wire'[u[1]])
                 PROVE  Before(Taken(u), {p})
      BY DEF Before
    <2>1. p = h \/ p \in Elements(wire[u[1]])
      BY <1>7, OwnerTypes
    <2> QED  BY <1>4, <2>1 DEF PipelineInOrder, Before
  <1>11. \A w \in Owners : /\ \A e \in Ends : Before(Elements(wire'[e]), Elements(outq'[w]))
                           /\ \A u \in Owners : Before(Taken(u), Elements(outq'[w]))
    <2> SUFFICES ASSUME NEW w \in Owners, NEW q \in Elements(outq'[w])
                 PROVE  /\ \A e \in Ends : Before(Elements(wire'[e]), {q})
                        /\ \A u \in Owners : Before(Taken(u), {q})
      BY DEF Before
    <2>1. q \in Elements(outq[w])
      BY <1>7
    <2>2. h.from = q.from => h.n < q.n
      <3>1. CASE w = o
        BY <1>3, <1>6, <3>1 DEF Before
      <3>2. CASE w # o
        BY <1>4, <2>1, <3>2 DEF PipelineInOrder
      <3> QED  BY <3>1, <3>2
    <2>3. \A e \in Ends : Before(Elements(wire[e]), {q})
      BY <2>1 DEF PipelineInOrder, Before
    <2>4. \A u \in Owners : Before(Taken(u), {q})
      BY <2>1 DEF PipelineInOrder, Before
    <2> QED  BY <1>7, <2>2, <2>3, <2>4 DEF Before
  <1>12. \A u \in Owners : /\ Taken(u)' = Taken(u) /\ Accepted(u)' = Accepted(u)
                           /\ Elements(delivered[u])' = Elements(delivered[u])
                           /\ (InOrder(delivered[u])' <=> InOrder(delivered[u]))
    BY <1>2 DEF Taken, Accepted, Elements, InOrder
  <1>13. /\ \A w \in Owners : Elements(outq[w])' = Elements(outq'[w])
         /\ \A e \in Ends : Elements(wire[e])' = Elements(wire'[e])
         /\ \A w \in Owners : InOrder(outq[w])' <=> InOrder(outq'[w])
         /\ \A e \in Ends : InOrder(wire[e])' <=> InOrder(wire'[e])
    BY DEF Elements, InOrder
  <1>14. \A u \in Owners : /\ InOrder(delivered[u])'
                           /\ \A p \in Taken(u)' : p.from[1] = Peer(u[1]) /\ p.n <= Len(sent')
                           /\ Before(Elements(delivered[u]), Accepted(u))'
                           /\ Before(Taken(u), Elements(wire[u[1]]))'
    <2>1. \A u \in Owners : /\ InOrder(delivered[u])
                            /\ \A p \in Taken(u) : p.from[1] = Peer(u[1]) /\ p.n <= Len(sent)
                            /\ Before(Elements(delivered[u]), Accepted(u))
      BY DEF PipelineInOrder
    <2>2. \A u \in Owners : Elements(wire[u[1]])' = Elements(wire'[u[1]])
      BY <1>13, OwnerTypes
    <2> QED  BY <1>2, <1>10, <1>12, <2>1, <2>2 DEF Before
  <1>15. \A u, w \in Owners : u # w => Taken(u)' \cap Taken(w)' = {}
    BY <1>12 DEF PipelineInOrder
  <1>16. /\ \A w \in Owners : /\ InOrder(outq[w])'
                              /\ \A p \in Elements(outq[w])' : p.from = w /\ p.n <= Len(sent')
         /\ \A e \in Ends : /\ InOrder(wire[e])'
                            /\ \A p \in Elements(wire[e])' : p.from[1] = Peer(e) /\ p.n <= Len(sent')
    BY <1>2, <1>8, <1>9, <1>13
  <1>17. \A w \in Owners : /\ \A e \in Ends : Before(Elements(wire[e]), Elements(outq[w]))'
                           /\ \A u \in Owners : Before(Taken(u), Elements(outq[w]))'
    BY <1>11, <1>12, <1>13 DEF Before
  <1> QED  BY <1>14, <1>15, <1>16, <1>17 DEF PipelineInOrder

\* The stream a reader accepts came first on the wire, and no other reader
\* has had it.
LEMMA AcceptOrder ==
    ASSUME TypeOK, TasksMatch, PipelineInOrder, NEW o \in Owners, AcceptStream(o)
    PROVE  PipelineInOrder'
  <1> DEFINE d == o[1]
             h == Head(wire[d])
  <1>1. /\ wire \in [Ends -> Seq(Packet)] /\ wire[d] \in Seq(Packet) /\ wire[d] # <<>>
        /\ d \in Ends /\ InOrder(wire[d])
        /\ reader \in [Owners -> {"off", "idle", "busy", "ended"}]
        /\ reading \in [Owners -> Packet \cup {NoPacket}]
    BY OwnerTypes DEF TypeOK, AcceptStream, PipelineInOrder
  <1>2. /\ reader[o] = "idle" /\ reader' = [reader EXCEPT ![o] = "busy"]
        /\ reading' = [reading EXCEPT ![o] = h]
        /\ wire' = [wire EXCEPT ![d] = Tail(@)]
        /\ UNCHANGED <<outq, delivered, sent>>
    BY DEF AcceptStream, outVars
  <1>3. /\ h \in Packet /\ Elements(wire[d]) = {h} \cup Elements(Tail(wire[d]))
        /\ InOrder(Tail(wire[d])) /\ Before({h}, Elements(Tail(wire[d])))
    BY <1>1, TailElements, TailInOrder
  <1>4. /\ h.from[1] = Peer(d) /\ h.n <= Len(sent) /\ h \in Elements(wire[d])
        /\ \A w \in Owners : Before({h}, Elements(outq[w]))
        /\ \A u \in Owners : u[1] = d => Before(Taken(u), {h})
    BY <1>1, <1>3 DEF PipelineInOrder, Before
  <1> HIDE DEF h, d
  <1>5. /\ wire'[d] = Tail(wire[d]) /\ \A e \in Ends \ {d} : wire'[e] = wire[e]
        /\ \A e \in Ends : Elements(wire'[e]) \subseteq Elements(wire[e])
    BY <1>1, <1>2, <1>3
  <1>6. /\ Accepted(o) = {} /\ Accepted(o)' = {h}
        /\ \A u \in Owners \ {o} : Accepted(u)' = Accepted(u)
    BY <1>1, <1>2 DEF Accepted
  <1>7. /\ \A u \in Owners : Elements(delivered[u])' = Elements(delivered[u])
        /\ Taken(o)' = Taken(o) \cup {h} /\ Elements(delivered[o]) = Taken(o)
        /\ \A u \in Owners \ {o} : Taken(u)' = Taken(u)
    BY <1>2, <1>6 DEF Taken, Elements
  <1>8. \A u \in Owners : h \notin Taken(u)
    <2> SUFFICES ASSUME NEW u \in Owners, h \in Taken(u) PROVE FALSE
      OBVIOUS
    <2>1. CASE u[1] = d
      BY <1>3, <1>4, <2>1, PacketsOnly DEF Before
    <2>2. CASE u[1] # d
      <3>1. h.from[1] = Peer(u[1])
        BY DEF PipelineInOrder
      <3> QED  BY <1>1, <1>4, <2>2, <3>1, OwnerTypes
    <2> QED  BY <2>1, <2>2
  <1>9. \A u, w \in Owners : u # w => Taken(u)' \cap Taken(w)' = {}
    BY <1>7, <1>8 DEF PipelineInOrder
  <1>10. \A e \in Ends : /\ InOrder(wire'[e])
                         /\ \A p \in Elements(wire'[e]) : p.from[1] = Peer(e) /\ p.n <= Len(sent)
    BY <1>3, <1>5 DEF PipelineInOrder
  <1>11. \A u \in Owners : /\ InOrder(delivered[u])
                           /\ \A p \in Taken(u)' : p.from[1] = Peer(u[1]) /\ p.n <= Len(sent)
                           /\ Before(Elements(delivered[u]), Accepted(u)')
                           /\ Before(Taken(u)', Elements(wire'[u[1]]))
    <2> SUFFICES ASSUME NEW u \in Owners
                 PROVE  /\ InOrder(delivered[u])
                        /\ \A p \in Taken(u)' : p.from[1] = Peer(u[1]) /\ p.n <= Len(sent)
                        /\ Before(Elements(delivered[u]), Accepted(u)')
                        /\ Before(Taken(u)', Elements(wire'[u[1]]))
      OBVIOUS
    <2>1. /\ InOrder(delivered[u])
          /\ \A p \in Taken(u) : p.from[1] = Peer(u[1]) /\ p.n <= Len(sent)
          /\ Before(Elements(delivered[u]), Accepted(u))
          /\ Before(Taken(u), Elements(wire'[u[1]]))
      BY <1>5, OwnerTypes DEF PipelineInOrder, Before
    <2>2. CASE u # o
      BY <1>6, <1>7, <2>1, <2>2
    <2>3. CASE u = o
      <3>1. u[1] = d
        BY <2>3 DEF d
      <3>2. Before(Elements(delivered[u]), {h})
        BY <1>4, <1>7, <2>3, <3>1
      <3>3. Before({h}, Elements(wire'[d]))
        BY <1>3, <1>5
      <3>4. Before(Taken(u) \cup {h}, Elements(wire'[d]))
        BY <2>1, <3>1, <3>3 DEF Before
      <3> QED  BY <1>4, <1>6, <1>7, <2>1, <2>3, <3>1, <3>2, <3>4
    <2> QED  BY <2>2, <2>3
  <1>12. \A w \in Owners : /\ InOrder(outq[w])
                           /\ \A p \in Elements(outq[w]) : p.from = w /\ p.n <= Len(sent)
                           /\ \A e \in Ends : Before(Elements(wire'[e]), Elements(outq[w]))
                           /\ \A u \in Owners : Before(Taken(u)', Elements(outq[w]))
    <2>1. \A w, u \in Owners : Before(Taken(u)', Elements(outq[w]))
      BY <1>4, <1>7 DEF PipelineInOrder, Before
    <2> QED  BY <1>5, <2>1 DEF PipelineInOrder, Before
  <1>13. /\ \A w \in Owners : Elements(outq[w])' = Elements(outq[w])
         /\ \A e \in Ends : Elements(wire[e])' = Elements(wire'[e])
         /\ \A u \in Owners : Elements(wire[u[1]])' = Elements(wire'[u[1]])
         /\ \A w \in Owners : InOrder(outq[w])' <=> InOrder(outq[w])
         /\ \A u \in Owners : InOrder(delivered[u])' <=> InOrder(delivered[u])
         /\ \A e \in Ends : InOrder(wire[e])' <=> InOrder(wire'[e])
    BY <1>2 DEF Elements, InOrder
  <1>14. \A o_1 \in Owners : /\ InOrder(delivered[o_1])'
                             /\ \A p \in Taken(o_1)' : p.from[1] = Peer(o_1[1]) /\ p.n <= Len(sent')
                             /\ Before(Elements(delivered[o_1]), Accepted(o_1))'
                             /\ Before(Taken(o_1), Elements(wire[o_1[1]]))'
    BY <1>2, <1>7, <1>11, <1>13 DEF Before
  <1>15. \A w \in Owners : /\ InOrder(outq[w])'
                           /\ \A p \in Elements(outq[w])' : p.from = w /\ p.n <= Len(sent')
                           /\ \A e \in Ends : Before(Elements(wire[e]), Elements(outq[w]))'
                           /\ \A u \in Owners : Before(Taken(u), Elements(outq[w]))'
    BY <1>2, <1>12, <1>13 DEF Before
  <1>16. \A e \in Ends : /\ InOrder(wire[e])'
                         /\ \A p \in Elements(wire[e])' : p.from[1] = Peer(e) /\ p.n <= Len(sent')
    BY <1>2, <1>10, <1>13
  <1> QED  BY <1>9, <1>14, <1>15, <1>16 DEF PipelineInOrder

\* What a reader delivers is the stream it had accepted, or nothing.
LEMMA ReadOrder ==
    ASSUME TypeOK, TasksMatch, PipelineInOrder, NEW o \in Owners, ReadStream(o)
    PROVE  PipelineInOrder'
  <1> DEFINE p == reading[o]
  <1>1. /\ reader \in [Owners -> {"off", "idle", "busy", "ended"}]
        /\ reading \in [Owners -> Packet \cup {NoPacket}]
        /\ delivered \in [Owners -> Seq(Packet)] /\ delivered[o] \in Seq(Packet)
    BY DEF TypeOK
  <1>2. /\ reader[o] = "busy" /\ reader' = [reader EXCEPT ![o] = ReaderAfter(o)]
        /\ reading' = [reading EXCEPT ![o] = NoPacket]
        /\ UNCHANGED <<outq, wire, sent>>
        /\ delivered' = delivered \/ delivered' = [delivered EXCEPT ![o] = Append(@, p)]
    BY DEF ReadStream
  <1>3. p \in Packet /\ Accepted(o) = {p} /\ Accepted(o)' = {}
    BY <1>1, <1>2 DEF TasksMatch, Accepted, ReaderAfter
  <1>4. \A u \in Owners \ {o} : Accepted(u)' = Accepted(u)
    BY <1>1, <1>2 DEF Accepted
  <1> HIDE DEF p
  <1>5. CASE delivered' = delivered
    <2>1. \A u \in Owners : Accepted(u)' \subseteq Accepted(u)
      BY <1>3, <1>4
    <2> QED  BY <1>2, <1>5, <2>1, OrderKept
  <1>6. CASE delivered' = [delivered EXCEPT ![o] = Append(@, p)]
    <2>1. /\ InOrder(delivered[o]) /\ Before(Elements(delivered[o]), {p})
      BY <1>3 DEF PipelineInOrder
    <2>2. InOrder(Append(delivered[o], p))
      BY <1>1, <1>3, <2>1, AppendInOrder
    <2>3. Elements(Append(delivered[o], p)) = Elements(delivered[o]) \cup {p}
      BY <1>1, <1>3, AppendElements
    <2>4. /\ delivered'[o] = Append(delivered[o], p)
          /\ \A u \in Owners \ {o} : delivered'[u] = delivered[u]
      BY <1>1, <1>6
    <2>5. Taken(o)' = Taken(o) /\ Elements(delivered[o])' = Taken(o)
      <3>1. Elements(delivered[o])' = Elements(delivered'[o])
        BY DEF Elements
      <3> QED  BY <1>3, <2>3, <2>4, <3>1 DEF Taken
    <2>6. \A u \in Owners \ {o} : /\ Elements(delivered[u])' = Elements(delivered[u])
                                 /\ (InOrder(delivered[u])' <=> InOrder(delivered[u]))
      BY <2>4 DEF Elements, InOrder
    <2>7. \A u \in Owners : Taken(u)' = Taken(u)
      BY <1>4, <2>5, <2>6 DEF Taken
    <2>8. InOrder(delivered[o])'
      BY <2>2, <2>4 DEF InOrder
    <2>9. /\ \A w \in Owners : Elements(outq[w])' = Elements(outq[w])
          /\ \A e \in Ends : Elements(wire[e])' = Elements(wire[e])
          /\ \A u \in Owners : Elements(wire[u[1]])' = Elements(wire[u[1]])
          /\ \A w \in Owners : InOrder(outq[w])' <=> InOrder(outq[w])
          /\ \A e \in Ends : InOrder(wire[e])' <=> InOrder(wire[e])
      BY <1>2 DEF Elements, InOrder
    <2>10. \A u \in Owners : /\ InOrder(delivered[u])'
                             /\ Before(Elements(delivered[u]), Accepted(u))'
      BY <1>3, <1>4, <2>6, <2>8 DEF PipelineInOrder, Before
    <2>11. \A u \in Owners : /\ \A q \in Taken(u)' : q.from[1] = Peer(u[1]) /\ q.n <= Len(sent')
                             /\ Before(Taken(u), Elements(wire[u[1]]))'
      BY <1>2, <2>7, <2>9 DEF PipelineInOrder, Before
    <2>12. \A w \in Owners : /\ InOrder(outq[w])'
                             /\ \A q \in Elements(outq[w])' : q.from = w /\ q.n <= Len(sent')
                             /\ \A e \in Ends : Before(Elements(wire[e]), Elements(outq[w]))'
                             /\ \A u \in Owners : Before(Taken(u), Elements(outq[w]))'
      BY <1>2, <2>7, <2>9 DEF PipelineInOrder, Before
    <2>13. \A e \in Ends : /\ InOrder(wire[e])'
                           /\ \A q \in Elements(wire[e])' : q.from[1] = Peer(e) /\ q.n <= Len(sent')
      BY <1>2, <2>9 DEF PipelineInOrder
    <2>14. \A u, w \in Owners : u # w => Taken(u)' \cap Taken(w)' = {}
      BY <2>7 DEF PipelineInOrder
    <2> QED  BY <2>10, <2>11, <2>12, <2>13, <2>14 DEF PipelineInOrder
  <1> QED  BY <1>2, <1>5, <1>6

(***************************************************************************)
(* The steps.                                                              *)
(***************************************************************************)
\* What a call of an owner may do to the tasks and the packets on their way:
\* start tasks or drop the owner, and enqueue a packet.
OwnerEffect(o) ==
    /\ UNCHANGED <<connVars, writing, written, wire, reading, delivered>>
    /\ \/ StartTasks(o)
       \/ UNCHANGED <<owner, writer, reader>>
       \/ owner' = [owner EXCEPT ![o] = "gone"] /\ UNCHANGED <<writer, reader>>
    /\ \/ WriterRuns(o) /\ \E kind \in {"F", "E", "A"} : Enqueue(o, kind)
       \/ UNCHANGED <<outq, sent>>

\* Every call of an owner has such an effect or ends a receiver's loop, and only an
\* owner that the deployment has, or that is up, makes one.
LEMMA OwnerStepEffect ==
    ASSUME NEW e \in Ends, OwnerStep(e)
    PROVE  \E o \in Owners : /\ EndLoop(o) \/ OwnerEffect(o)
                             /\ Deployed(o) \/ owner[o] = "up"
  <1> DEFINE S == <<e, "sender">>
             R == <<e, "receiver">>
  <1>0. S \in Owners /\ R \in Owners
    BY OwnerTypes
  <1>1. ensure_handshake(e) => OwnerEffect(S) /\ Deployed(S)
    BY DEF ensure_handshake, OwnerEffect
  <1>2. send_stream_fin(e) => OwnerEffect(S) /\ Deployed(S)
    BY DEF send_stream_fin, OwnerEffect
  <1>3. DrainControl(e) => OwnerEffect(S) /\ owner[S] = "up"
    BY DEF DrainControl, OwnerEffect, outVars
  <1>4. DropSender(e) => OwnerEffect(S) /\ owner[S] = "up"
    BY DEF DropSender, OwnerEffect, outVars
  <1>5. SendFeedback(e) => (EndLoop(R) \/ OwnerEffect(R)) /\ owner[R] = "up"
    BY DEF SendFeedback, OwnerEffect, inVars
  <1>6. HandleControl(e) => (EndLoop(R) \/ OwnerEffect(R)) /\ owner[R] = "up"
    BY DEF HandleControl, OwnerEffect, outVars
  <1>7. ReceiveError(e) \/ HandlerError(e) => EndLoop(R) /\ owner[R] = "up"
    BY DEF ReceiveError, HandlerError
  <1> HIDE DEF S, R
  <1> QED
    BY <1>0, <1>1, <1>2, <1>3, <1>4, <1>5, <1>6, <1>7 DEF OwnerStep

\* No call of an owner makes a reader accept a stream.
LEMMA OwnerAccepts ==
    ASSUME TypeOK, NEW o \in Owners, EndLoop(o) \/ OwnerEffect(o)
    PROVE  \A u \in Owners : Accepted(u)' \subseteq Accepted(u)
  <1>1. reader \in [Owners -> {"off", "idle", "busy", "ended"}]
    BY DEF TypeOK
  <1>2. \A u \in Owners : reader'[u] = "busy" => reader[u] = "busy" /\ reading'[u] = reading[u]
    <2>1. CASE EndLoop(o)
      <3>1. reading \in [Owners -> Packet \cup {NoPacket}]
        BY DEF TypeOK
      <3> QED  BY <1>1, <2>1, <3>1 DEF EndLoop
    <2>2. CASE OwnerEffect(o)
      BY <1>1, <2>2 DEF OwnerEffect, StartTasks, Started
    <2> QED  BY <2>1, <2>2
  <1> QED  BY <1>2 DEF Accepted

\* Every step keeps the packets in order.
LEMMA NextOrder ==
    ASSUME TypeOK, TasksMatch, PipelineInOrder, [Next]_vars
    PROVE  PipelineInOrder'
  <1>0. outq \in [Owners -> Seq(Packet)] /\ reader \in [Owners -> {"off", "idle", "busy", "ended"}]
    BY DEF TypeOK
  <1>1. ASSUME NEW e \in Ends, OwnerStep(e) PROVE PipelineInOrder'
    <2>1. PICK o \in Owners : EndLoop(o) \/ OwnerEffect(o)
      BY <1>1, OwnerStepEffect
    <2>2. \A u \in Owners : Accepted(u)' \subseteq Accepted(u)
      BY <2>1, OwnerAccepts
    <2>3. CASE EndLoop(o)
      <3>1. /\ sent' = sent /\ wire' = wire /\ delivered' = delivered
            /\ \A u \in Owners : outq'[u] = outq[u] \/ outq'[u] = <<>>
        BY <1>0, <2>3 DEF EndLoop
      <3> QED  BY <2>2, <3>1, OrderKept
    <2>4. CASE OwnerEffect(o)
      <3>1. wire' = wire /\ delivered' = delivered
        BY <2>4 DEF OwnerEffect
      <3>2. CASE UNCHANGED <<outq, sent>>
        BY <2>2, <3>1, <3>2, OrderKept
      <3>3. ASSUME NEW kind \in {"F", "E", "A"}, Enqueue(o, kind) PROVE PipelineInOrder'
        BY <2>2, <3>1, <3>3, EnqueueOrder
      <3> QED  BY <2>4, <3>2, <3>3 DEF OwnerEffect
    <2> QED  BY <2>1, <2>3, <2>4
  <1>2. ASSUME NEW o \in Owners, TaskStep(o) PROVE PipelineInOrder'
    <2>1. CASE WriteStream(o)
      <3>1. /\ sent' = sent /\ wire' = wire /\ delivered' = delivered /\ outq' = outq
            /\ \A u \in Owners : Accepted(u)' = Accepted(u)
        BY <2>1 DEF WriteStream, inVars, Accepted
      <3> QED  BY <3>1, OrderKept
    <2>2. CASE EndWriter(o)
      <3>1. /\ sent' = sent /\ wire' = wire /\ delivered' = delivered
            /\ \A u \in Owners : outq'[u] = outq[u] \/ outq'[u] = <<>>
            /\ \A u \in Owners : Accepted(u)' = Accepted(u)
        BY <1>0, <2>2 DEF EndWriter, inVars, Accepted
      <3> QED  BY <3>1, OrderKept
    <2>3. CASE EndReader(o)
      <3>1. /\ sent' = sent /\ wire' = wire /\ delivered' = delivered /\ outq' = outq
            /\ reader' = [reader EXCEPT ![o] = "ended"]
            /\ reading' = [reading EXCEPT ![o] = NoPacket]
        BY <2>3 DEF EndReader, outVars
      <3>2. \A u \in Owners : Accepted(u)' \subseteq Accepted(u)
        <4>1. reading \in [Owners -> Packet \cup {NoPacket}]
          BY DEF TypeOK
        <4> QED  BY <1>0, <3>1, <4>1 DEF Accepted
      <3> QED  BY <3>1, <3>2, OrderKept
    <2> QED
      BY <1>2, <2>1, <2>2, <2>3, OpenOrder, AcceptOrder, ReadOrder DEF TaskStep
  <1>3. ASSUME Close \/ UNCHANGED vars PROVE PipelineInOrder'
    <2>1. /\ sent' = sent /\ wire' = wire /\ delivered' = delivered /\ outq' = outq
          /\ \A u \in Owners : Accepted(u)' = Accepted(u)
      BY <1>3 DEF Close, vars, outVars, inVars, Accepted
    <2> QED  BY <2>1, OrderKept
  <1> QED  BY <1>1, <1>2, <1>3 DEF Next

\* Every step keeps the types.
LEMMA NextType ==
    ASSUME TypeOK, TasksMatch, [Next]_vars
    PROVE  TypeOK'
  <1>1. CASE Close
    BY <1>1 DEF TypeOK, Close, outVars, inVars
  <1>2. CASE UNCHANGED vars
    BY <1>2 DEF TypeOK, vars, connVars, outVars, inVars
  <1> QED  BY <1>1, <1>2, OwnerTypeOK, TaskTypeOK DEF Next

\* Every step keeps the tasks in agreement with their owners.
LEMMA NextTasks ==
    ASSUME TypeOK, TasksMatch, [Next]_vars
    PROVE  TasksMatch'
  <1>0. /\ owner \in [Owners -> {"new", "up", "gone"}]
        /\ writer \in [Owners -> {"off", "idle", "busy", "ended"}]
        /\ reader \in [Owners -> {"off", "idle", "busy", "ended"}]
        /\ writing \in [Owners -> Packet \cup {NoPacket}]
        /\ reading \in [Owners -> Packet \cup {NoPacket}]
    BY DEF TypeOK
  <1>1. ASSUME NEW e \in Ends, OwnerStep(e) PROVE TasksMatch'
    <2>1. PICK o \in Owners : EndLoop(o) \/ OwnerEffect(o)
      BY <1>1, OwnerStepEffect
    <2>2. CASE EndLoop(o)
      BY <1>0, <2>2 DEF EndLoop, TasksMatch
    <2>3. CASE OwnerEffect(o)
      <3>1. writing' = writing /\ reading' = reading
        BY <2>3 DEF OwnerEffect
      <3>2. CASE StartTasks(o)
        <4>1. CASE owner[o] = "new"
          <5>1. /\ owner' = [owner EXCEPT ![o] = "up"]
                /\ writer' = [writer EXCEPT ![o] = "idle"]
                /\ reader' = [reader EXCEPT ![o] = "idle"]
            BY <3>2, <4>1 DEF StartTasks, Started
          <5> QED  BY <1>0, <3>1, <4>1, <5>1 DEF TasksMatch
        <4>2. CASE owner[o] # "new"
          BY <3>1, <3>2, <4>2 DEF StartTasks, Started, TasksMatch
        <4> QED  BY <4>1, <4>2
      <3>3. CASE UNCHANGED <<writer, reader>> /\ (owner' = owner \/ owner' = [owner EXCEPT ![o] = "gone"])
        BY <1>0, <3>1, <3>3 DEF TasksMatch
      <3> QED  BY <2>3, <3>2, <3>3 DEF OwnerEffect
    <2> QED  BY <2>1, <2>2, <2>3
  <1>2. ASSUME NEW o \in Owners, TaskStep(o) PROVE TasksMatch'
    <2>1. CASE OpenStream(o)
      <3>1. outq[o] \in Seq(Packet) /\ outq[o] # <<>>
        BY <2>1 DEF TypeOK, OpenStream
      <3>2. Head(outq[o]) \in Packet
        BY <3>1
      <3> QED  BY <1>0, <2>1, <3>2 DEF OpenStream, inVars, TasksMatch
    <2>2. CASE WriteStream(o)
      BY <1>0, <2>2 DEF WriteStream, inVars, TasksMatch
    <2>3. CASE EndWriter(o)
      BY <1>0, <2>3 DEF EndWriter, inVars, TasksMatch
    <2>4. CASE AcceptStream(o)
      <3>1. wire[o[1]] \in Seq(Packet) /\ wire[o[1]] # <<>>
        BY <2>4, OwnerTypes DEF TypeOK, AcceptStream
      <3>2. Head(wire[o[1]]) \in Packet
        BY <3>1
      <3> QED  BY <1>0, <2>4, <3>2 DEF AcceptStream, outVars, TasksMatch
    <2>5. CASE ReadStream(o)
      <3>1. ReaderAfter(o) \in {"idle", "ended"} /\ reader[o] = "busy"
        BY <2>5 DEF ReadStream, ReaderAfter
      <3> QED  BY <1>0, <2>5, <3>1 DEF ReadStream, TasksMatch
    <2>6. CASE EndReader(o)
      BY <1>0, <2>6 DEF EndReader, outVars, TasksMatch
    <2> QED  BY <1>2, <2>1, <2>2, <2>3, <2>4, <2>5, <2>6 DEF TaskStep
  <1>3. ASSUME Close \/ UNCHANGED vars PROVE TasksMatch'
    BY <1>3 DEF Close, vars, outVars, inVars, TasksMatch
  <1> QED  BY <1>1, <1>2, <1>3 DEF Next

\* An owner that has gone stays gone, and a closed connection stays closed.
LEMMA GoneForGood ==
    ASSUME TypeOK, [Next]_vars, (open /\ NoneGone)'
    PROVE  open /\ NoneGone
  <1>0. owner \in [Owners -> {"new", "up", "gone"}]
    BY DEF TypeOK
  <1>1. ASSUME NEW e \in Ends, OwnerStep(e) PROVE open /\ NoneGone
    <2>1. PICK o \in Owners : EndLoop(o) \/ OwnerEffect(o)
      BY <1>1, OwnerStepEffect
    <2>2. EndLoop(o) => ~NoneGone'
      BY <1>0 DEF EndLoop, NoneGone
    <2>3. open' = open
      BY <2>1 DEF EndLoop, OwnerEffect, connVars
    <2>4. OwnerEffect(o) => \A u \in Owners : owner[u] = "gone" => owner'[u] = "gone"
      BY <1>0 DEF OwnerEffect, StartTasks, Started
    <2> QED  BY <2>1, <2>2, <2>3, <2>4 DEF NoneGone
  <1>2. ASSUME NEW o \in Owners, TaskStep(o) PROVE open /\ NoneGone
    <2>1. open' = open /\ owner' = owner
      BY <1>2 DEF TaskStep, OpenStream, WriteStream, EndWriter, AcceptStream, ReadStream,
                  EndReader, connVars
    <2> QED  BY <2>1 DEF NoneGone
  <1>3. Close => ~open'
    BY DEF Close
  <1>4. UNCHANGED vars => open' = open /\ owner' = owner
    BY DEF vars, connVars
  <1> QED  BY <1>1, <1>2, <1>3, <1>4 DEF Next, NoneGone

\* The packet a reader has read is neither on the wire nor with another reader.
LEMMA ReadOnce ==
    ASSUME TypeOK, TasksMatch, PipelineInOrder, NEW o \in Owners, reader[o] = "busy"
    PROVE  /\ \A e \in Ends : reading[o] \notin Elements(wire[e])
           /\ \A u \in Owners \ {o} : reading[o] \notin Accepted(u)
  <1>1. reading[o] \in Taken(o) /\ reading[o] \in Packet /\ o[1] \in Ends
    BY OwnerTypes DEF Taken, Accepted, TasksMatch
  <1>2. ASSUME NEW e \in Ends, reading[o] \in Elements(wire[e]) PROVE FALSE
    <2>1. CASE e = o[1]
      <3>1. Before(Taken(o), Elements(wire[e]))
        BY <2>1 DEF PipelineInOrder
      <3>2. reading[o].n < reading[o].n
        BY <1>1, <1>2, <3>1 DEF Before
      <3> QED  BY <1>1, <3>2, PacketsOnly
    <2>2. CASE e # o[1]
      <3>1. reading[o].from[1] = Peer(e) /\ reading[o].from[1] = Peer(o[1])
        BY <1>1, <1>2 DEF PipelineInOrder
      <3> QED  BY <1>1, <2>2, <3>1, OwnerTypes
    <2> QED  BY <2>1, <2>2
  <1>3. \A u \in Owners \ {o} : reading[o] \notin Accepted(u)
    BY <1>1 DEF PipelineInOrder, Taken
  <1> QED  BY <1>2, <1>3

\* Every step keeps the streams on the wire and those accepted complete, or
\* about to be.
LEMMA NextStreams ==
    ASSUME TypeOK, TasksMatch, PipelineInOrder, StreamsAreWritten, [Next]_vars
    PROVE  StreamsAreWritten'
  <1> DEFINE Made(p) == p \in written \/ \E w \in Owners : writing[w] = p
             Open(o) == Elements(wire[o[1]]) \cup Accepted(o)
  <1>0. /\ writer \in [Owners -> {"off", "idle", "busy", "ended"}]
        /\ reader \in [Owners -> {"off", "idle", "busy", "ended"}]
        /\ writing \in [Owners -> Packet \cup {NoPacket}]
        /\ reading \in [Owners -> Packet \cup {NoPacket}]
        /\ wire \in [Ends -> Seq(Packet)]
        /\ owner \in [Owners -> {"new", "up", "gone"}]
    BY DEF TypeOK
  <1> SUFFICES ASSUME (open /\ NoneGone)'
               PROVE  \A u \in Owners : \A p \in Open(u)' : Made(p)'
    BY DEF StreamsAreWritten
  <1>1. open /\ NoneGone
    BY GoneForGood
  <1>2. \A u \in Owners : \A p \in Open(u) : Made(p)
    BY <1>1 DEF StreamsAreWritten
  <1>3. \A u \in Owners : Open(u) \subseteq Packet
    BY PacketsOnly, OwnerTypes DEF Taken
  <1>4. ASSUME NEW e \in Ends, OwnerStep(e)
        PROVE  \A u \in Owners : \A p \in Open(u)' : Made(p)'
    <2>1. PICK o \in Owners : EndLoop(o) \/ OwnerEffect(o)
      BY <1>4, OwnerStepEffect
    <2>2. ~EndLoop(o)
      BY <1>0 DEF EndLoop, NoneGone
    <2>3. /\ \A u \in Owners : Accepted(u)' \subseteq Accepted(u)
          /\ wire' = wire /\ written' = written /\ writing' = writing
      BY <2>1, <2>2, OwnerAccepts DEF OwnerEffect
    <2>4. \A u \in Owners : Open(u)' \subseteq Open(u)
      BY <2>3 DEF Elements
    <2> QED  BY <1>2, <2>3, <2>4
  <1>5. ASSUME NEW o \in Owners, OpenStream(o)
        PROVE  \A u \in Owners : \A p \in Open(u)' : Made(p)'
    <2> DEFINE h == Head(outq[o])
               d == Peer(o[1])
    <2>1. /\ outq[o] \in Seq(Packet) /\ outq[o] # <<>> /\ wire[d] \in Seq(Packet)
          /\ writing[o] = NoPacket /\ d \in Ends
      BY <1>0, <1>5, OwnerTypes DEF OpenStream, TypeOK, TasksMatch
    <2>2. h \in Packet
      BY <2>1
    <2>3. /\ writing' = [writing EXCEPT ![o] = h] /\ written' = written
          /\ wire' = [wire EXCEPT ![d] = Append(@, h)]
          /\ reader' = reader /\ reading' = reading
      BY <1>5 DEF OpenStream, Announce, inVars
    <2> HIDE DEF h, d
    <2>4. Elements(Append(wire[d], h)) = Elements(wire[d]) \cup {h}
      BY <2>1, <2>2, AppendElements
    <2>5. \A e \in Ends : Elements(wire'[e]) \subseteq Elements(wire[e]) \cup {h}
      BY <1>0, <2>1, <2>3, <2>4
    <2>6. \A u \in Owners : Open(u)' \subseteq Open(u) \cup {h}
      <3>1. \A u \in Owners : Elements(wire[u[1]])' = Elements(wire'[u[1]])
        BY DEF Elements
      <3>2. \A u \in Owners : Accepted(u)' = Accepted(u)
        BY <2>3 DEF Accepted
      <3> QED  BY <2>5, <3>1, <3>2, OwnerTypes
    <2>7. NoPacket \notin Packet
      BY DEF NoPacket, Packet
    <2>8. \A p \in Packet : Made(p) => Made(p)'
      BY <1>0, <2>1, <2>3, <2>7
    <2>9. \A p \in {h} : Made(p)'
      BY <1>0, <2>3
    <2> QED  BY <1>2, <1>3, <2>6, <2>8, <2>9
  <1>6. ASSUME NEW o \in Owners, WriteStream(o)
        PROVE  \A u \in Owners : \A p \in Open(u)' : Made(p)'
    <2>1. /\ written' = written \cup {writing[o]}
          /\ writing' = [writing EXCEPT ![o] = NoPacket]
          /\ wire' = wire /\ reader' = reader /\ reading' = reading
      BY <1>6 DEF WriteStream, inVars
    <2>2. \A u \in Owners : Open(u)' = Open(u)
      BY <2>1 DEF Elements, Accepted
    <2>3. \A p : Made(p) => Made(p)'
      BY <1>0, <2>1
    <2> QED  BY <1>2, <2>2, <2>3
  <1>7. ASSUME NEW o \in Owners, EndWriter(o)
        PROVE  \A u \in Owners : \A p \in Open(u)' : Made(p)'
    BY <1>1, <1>7 DEF EndWriter, NoneGone
  <1>8. ASSUME NEW o \in Owners, AcceptStream(o)
        PROVE  \A u \in Owners : \A p \in Open(u)' : Made(p)'
    <2> DEFINE d == o[1]
               h == Head(wire[d])
    <2>1. /\ reader' = [reader EXCEPT ![o] = "busy"] /\ reading' = [reading EXCEPT ![o] = h]
          /\ wire' = [wire EXCEPT ![d] = Tail(@)] /\ written' = written /\ writing' = writing
      BY <1>8 DEF AcceptStream, outVars
    <2>2. /\ wire[d] \in Seq(Packet) /\ wire[d] # <<>> /\ d \in Ends
      BY <1>0, <1>8, OwnerTypes DEF AcceptStream
    <2>3. Elements(wire[d]) = {h} \cup Elements(Tail(wire[d]))
      BY <2>2, TailElements
    <2>4. \A e \in Ends : Elements(wire'[e]) \subseteq Elements(wire[e])
      BY <1>0, <2>1, <2>2, <2>3
    <2>5. \A u \in Owners : Open(u)' \subseteq Open(u)
      <3>1. \A u \in Owners : Elements(wire[u[1]])' = Elements(wire'[u[1]])
        BY DEF Elements
      <3>2. Accepted(o)' = {h} /\ \A u \in Owners \ {o} : Accepted(u)' = Accepted(u)
        BY <1>0, <2>1 DEF Accepted
      <3> QED  BY <2>3, <2>4, <3>1, <3>2, OwnerTypes
    <2> QED  BY <1>2, <2>1, <2>5
  <1>9. ASSUME NEW o \in Owners, ReadStream(o)
        PROVE  \A u \in Owners : \A p \in Open(u)' : Made(p)'
    <2>1. /\ reader[o] = "busy" /\ reader' = [reader EXCEPT ![o] = ReaderAfter(o)]
          /\ reading' = [reading EXCEPT ![o] = NoPacket]
          /\ written' = written \ {reading[o]} /\ writing' = writing /\ wire' = wire
      BY <1>9 DEF ReadStream
    <2>2. /\ Accepted(o)' = {} /\ \A u \in Owners \ {o} : Accepted(u)' = Accepted(u)
      BY <1>0, <2>1 DEF Accepted, ReaderAfter
    <2>3. \A u \in Owners : Elements(wire[u[1]])' = Elements(wire[u[1]])
      BY <2>1 DEF Elements
    <2>4. \A u \in Owners : Open(u)' \subseteq Open(u) /\ reading[o] \notin Open(u)'
      BY <2>1, <2>2, <2>3, ReadOnce, OwnerTypes
    <2>5. \A p : Made(p) /\ p # reading[o] => Made(p)'
      BY <2>1
    <2> QED  BY <1>2, <2>4, <2>5
  <1>10. ASSUME NEW o \in Owners, EndReader(o)
        PROVE  \A u \in Owners : \A p \in Open(u)' : Made(p)'
    <2>1. /\ reader' = [reader EXCEPT ![o] = "ended"] /\ reading' = [reading EXCEPT ![o] = NoPacket]
          /\ wire' = wire /\ written' = written /\ writing' = writing
      BY <1>10 DEF EndReader, outVars
    <2>2. \A u \in Owners : Open(u)' \subseteq Open(u)
      BY <1>0, <2>1 DEF Elements, Accepted
    <2> QED  BY <1>2, <2>1, <2>2
  <1>11. ASSUME Close \/ UNCHANGED vars
        PROVE  \A u \in Owners : \A p \in Open(u)' : Made(p)'
    <2>1. UNCHANGED <<wire, reader, reading, written, writing>>
      BY <1>11 DEF Close, vars, outVars, inVars
    <2>2. \A u \in Owners : Open(u)' = Open(u)
      BY <2>1 DEF Elements, Accepted
    <2> QED  BY <1>2, <2>1, <2>2
  <1> HIDE DEF Made, Open
  <1> QED
    BY <1>4, <1>5, <1>6, <1>7, <1>8, <1>9, <1>10, <1>11 DEF Next, TaskStep

\* Every step keeps the tasks of a connection without faults running.
LEMMA NextLast ==
    ASSUME TasksInv, [Next]_vars
    PROVE  TasksLast'
  <1>0. /\ writer \in [Owners -> {"off", "idle", "busy", "ended"}]
        /\ reader \in [Owners -> {"off", "idle", "busy", "ended"}]
        /\ owner \in [Owners -> {"new", "up", "gone"}]
        /\ TypeOK /\ TasksMatch /\ StreamsAreWritten
    BY DEF TypeOK, TasksInv
  <1> SUFFICES ASSUME (open /\ NoneGone)'
               PROVE  \A u \in Owners : "ended" \notin {writer'[u], reader'[u]}
    BY DEF TasksLast
  <1>1. open /\ NoneGone
    BY <1>0, GoneForGood
  <1>2. \A u \in Owners : "ended" \notin {writer[u], reader[u]}
    BY <1>1 DEF TasksLast, TasksInv
  <1>3. ASSUME NEW e \in Ends, OwnerStep(e)
        PROVE  \A u \in Owners : "ended" \notin {writer'[u], reader'[u]}
    <2>1. PICK o \in Owners : EndLoop(o) \/ OwnerEffect(o)
      BY <1>3, OwnerStepEffect
    <2>2. ~EndLoop(o)
      BY <1>0 DEF EndLoop, NoneGone
    <2> QED  BY <1>0, <1>2, <2>1, <2>2 DEF OwnerEffect, StartTasks, Started
  <1>4. ASSUME NEW o \in Owners, TaskStep(o)
        PROVE  \A u \in Owners : "ended" \notin {writer'[u], reader'[u]}
    <2>1. ~EndWriter(o)
      BY <1>1 DEF EndWriter, NoneGone
    <2>2. ~EndReader(o)
      <3>1. ASSUME reader[o] = "busy", CutShort(reading[o]) PROVE FALSE
        <4>1. reading[o] \in written \/ \E w \in Owners : writing[w] = reading[o]
          BY <1>0, <1>1, <3>1 DEF StreamsAreWritten, Accepted
        <4> QED  BY <3>1, <4>1 DEF CutShort
      <3> QED  BY <1>1, <3>1 DEF EndReader
    <2>3. ReadStream(o) => ReaderAfter(o) = "idle"
      <3>1. reader[o] = "busy" => owner[o] = "up"
        BY <1>0, <1>1 DEF TasksMatch, NoneGone
      <3> QED  BY <3>1 DEF ReadStream, ReaderAfter
    <2>4. CASE OpenStream(o)
      BY <1>0, <1>2, <2>4 DEF OpenStream, inVars
    <2>5. CASE WriteStream(o)
      BY <1>0, <1>2, <2>5 DEF WriteStream, inVars
    <2>6. CASE AcceptStream(o)
      BY <1>0, <1>2, <2>6 DEF AcceptStream, outVars
    <2>7. CASE ReadStream(o)
      BY <1>0, <1>2, <2>3, <2>7 DEF ReadStream
    <2> QED  BY <1>4, <2>1, <2>2, <2>4, <2>5, <2>6, <2>7 DEF TaskStep
  <1>5. ASSUME Close \/ UNCHANGED vars
        PROVE  \A u \in Owners : "ended" \notin {writer'[u], reader'[u]}
    BY <1>2, <1>5 DEF Close, vars, outVars, inVars
  <1> QED  BY <1>3, <1>4, <1>5 DEF Next

(***************************************************************************)
(* The theorems.                                                           *)
(***************************************************************************)
\* Nothing has been enqueued at the start, and the tasks that run are idle.
LEMMA TasksStart ==
    ASSUME Init
    PROVE  TasksInv
  <1>1. <<>> \in Seq(Packet)
    OBVIOUS
  <1>2. TypeOK
    BY <1>1 DEF Init, TypeOK, InitialState
  <1>3. TasksMatch
    BY DEF Init, TasksMatch, InitialState
  <1>4. /\ \A o \in Owners : outq[o] = <<>> /\ delivered[o] = <<>> /\ Accepted(o) = {}
        /\ \A e \in Ends : wire[e] = <<>>
    BY DEF Init, InitialState, Accepted
  <1>5. /\ \A o \in Owners : Elements(outq[o]) = {} /\ InOrder(outq[o]) /\ Taken(o) = {}
        /\ \A o \in Owners : Elements(delivered[o]) = {} /\ InOrder(delivered[o])
        /\ \A e \in Ends : Elements(wire[e]) = {} /\ InOrder(wire[e])
        /\ \A o \in Owners : Elements(wire[o[1]]) = {}
    BY <1>4, EmptyElements, OwnerTypes DEF Taken
  <1>6. PipelineInOrder
    BY <1>5 DEF PipelineInOrder, Before
  <1>7. StreamsAreWritten
    BY <1>4, <1>5 DEF StreamsAreWritten
  <1>8. TasksLast
    BY DEF Init, InitialState, TasksLast
  <1> QED  BY <1>2, <1>3, <1>6, <1>7, <1>8 DEF TasksInv

\* The order along the whole pipeline is the order in the inboxes.
LEMMA PipelineDelivers ==
    ASSUME PipelineInOrder
    PROVE  DeliveredInOrder
  <1>1. \A o \in Owners : InOrder(delivered[o])
    BY DEF PipelineInOrder
  <1>2. \A o \in Owners : \A i \in 1..Len(delivered[o]) : delivered[o][i] \in Taken(o)
    BY DEF Taken, Elements
  <1>3. \A o, u \in Owners :
            \A i \in 1..Len(delivered[o]), j \in 1..Len(delivered[u]) :
                delivered[o][i] = delivered[u][j] => o = u
    BY <1>2 DEF PipelineInOrder
  <1> QED  BY <1>1, <1>3 DEF DeliveredInOrder, InOrder

(***************************************************************************)
(* One owner at each end: nothing is skipped.                              *)
(***************************************************************************)
\* In the deployment "one_way" the two owners are each other's addressees.
LEMMA DeployedPair ==
    ASSUME deployment = "one_way", NEW o \in Owners, Deployed(o)
    PROVE  /\ Addressee(o) \in Owners /\ Addressee(o) # o /\ Addressee(Addressee(o)) = o
           /\ Peer(Addressee(o)[1]) = o[1] /\ Peer(o[1]) # o[1]
           /\ \A x \in Owners : Deployed(x) => x = o \/ x = Addressee(o)
  BY DEF Owners, Ends, Roles, Addressee, Peer, Deployed

\* Every packet has the number of its place in the history.
LEMMA SentNumbers ==
    ASSUME TypeOK, PacketsAreSent
    PROVE  /\ Elements(sent) \subseteq Packet
           /\ \A q \in Elements(sent) : q.n \in 1..Len(sent) /\ sent[q.n] = q
  <1>1. sent \in Seq(Packet)
    BY DEF TypeOK
  <1>2. Elements(sent) \subseteq Packet
    BY <1>1, ElementsType
  <1>3. \A i \in 1..Len(sent) : sent[i].n = i
    BY DEF PacketsAreSent
  <1> QED  BY <1>2, <1>3 DEF Elements

\* What came before a packet that was enqueued stays the same.
LEMMA EarlierKept ==
    ASSUME TypeOK, NEW o \in Owners, NEW kind \in {"F", "E", "A"}, Enqueue(o, kind)
    PROVE  /\ Elements(sent)' = Elements(sent) \cup {NewPacket(o, kind)}
           /\ NewPacket(o, kind).n = Len(sent) + 1 /\ NewPacket(o, kind).from = o
           /\ \A p \in Packet : p.n <= Len(sent) => Earlier(p)' = Earlier(p)
           /\ \A w \in Owners : SentBy(w)' \subseteq
                  SentBy(w) \cup (IF w = o THEN {NewPacket(o, kind)} ELSE {})
  <1> DEFINE np == NewPacket(o, kind)
  <1>1. np.n = Len(sent) + 1 /\ np.from = o
    BY DEF NewPacket
  <1>2. sent \in Seq(Packet) /\ np \in Packet /\ sent' = Append(sent, np)
    BY EnqueueType DEF TypeOK, Enqueue
  <1> HIDE DEF np
  <1>3. Elements(Append(sent, np)) = Elements(sent) \cup {np}
    BY <1>2, AppendElements
  <1>4. Elements(sent)' = Elements(sent) \cup {np}
    BY <1>2, <1>3 DEF Elements
  <1>5. ASSUME NEW p \in Packet, p.n <= Len(sent) PROVE Earlier(p)' = Earlier(p)
    <2>1. p.n \in Nat /\ Len(sent) \in Nat
      BY <1>2 DEF Packet
    <2>2. ~(np.n < p.n)
      BY <1>1, <1>5, <2>1
    <2> QED  BY <1>4, <2>2 DEF Earlier, SentBy
  <1>6. \A w \in Owners : SentBy(w)' \subseteq SentBy(w) \cup (IF w = o THEN {np} ELSE {})
    BY <1>1, <1>4 DEF SentBy
  <1> QED  BY <1>1, <1>4, <1>5, <1>6 DEF np

\* What a reader reads it had taken before.
LEMMA ReadTakes ==
    ASSUME TypeOK, TasksMatch, NEW o \in Owners, ReadStream(o)
    PROVE  /\ \A u \in Owners : Taken(u)' \subseteq Taken(u)
           /\ \A u \in Owners \ {o} : Accepted(u)' = Accepted(u) /\ delivered'[u] = delivered[u]
           /\ Accepted(o) = {reading[o]} /\ Accepted(o)' = {}
           /\ owner[o] = "up" => Elements(delivered[o])' = Elements(delivered[o]) \cup {reading[o]}
  <1> DEFINE p == reading[o]
  <1>1. /\ reader \in [Owners -> {"off", "idle", "busy", "ended"}]
        /\ reading \in [Owners -> Packet \cup {NoPacket}]
        /\ delivered \in [Owners -> Seq(Packet)] /\ delivered[o] \in Seq(Packet)
    BY DEF TypeOK
  <1>2. /\ reader[o] = "busy" /\ reader' = [reader EXCEPT ![o] = ReaderAfter(o)]
        /\ reading' = [reading EXCEPT ![o] = NoPacket]
        /\ \/ owner[o] # "up" /\ delivered' = delivered
           \/ delivered' = [delivered EXCEPT ![o] = Append(@, p)]
    BY DEF ReadStream
  <1>3. p \in Packet /\ Accepted(o) = {p} /\ Accepted(o)' = {}
    BY <1>1, <1>2 DEF TasksMatch, Accepted, ReaderAfter
  <1>4. \A u \in Owners \ {o} : Accepted(u)' = Accepted(u) /\ delivered'[u] = delivered[u]
    BY <1>1, <1>2 DEF Accepted
  <1> HIDE DEF p
  <1>5. Elements(Append(delivered[o], p)) = Elements(delivered[o]) \cup {p}
    BY <1>1, <1>3, AppendElements
  <1>6. \/ owner[o] # "up" /\ delivered'[o] = delivered[o]
        \/ delivered'[o] = Append(delivered[o], p)
    BY <1>1, <1>2
  <1>7. \A u \in Owners : Elements(delivered[u])' = Elements(delivered'[u])
    BY DEF Elements
  <1>8. Elements(delivered[o])' \subseteq Elements(delivered[o]) \cup {p}
    BY <1>5, <1>6, <1>7
  <1>9. \A u \in Owners : Taken(u)' \subseteq Taken(u)
    BY <1>3, <1>4, <1>7, <1>8 DEF Taken
  <1>10. owner[o] = "up" => Elements(delivered[o])' = Elements(delivered[o]) \cup {p}
    BY <1>5, <1>6, <1>7
  <1> QED  BY <1>3, <1>4, <1>9, <1>10 DEF p

\* Every step keeps the packets on their way among those that were enqueued.
LEMMA NextSent ==
    ASSUME TypeOK, TasksMatch, PacketsAreSent, [Next]_vars
    PROVE  PacketsAreSent'
  <1> DEFINE Way(o) == Elements(outq[o]) \cup Elements(wire[o[1]]) \cup Taken(o)
  <1>0. /\ outq \in [Owners -> Seq(Packet)] /\ wire \in [Ends -> Seq(Packet)]
        /\ delivered \in [Owners -> Seq(Packet)] /\ sent \in Seq(Packet)
        /\ reader \in [Owners -> {"off", "idle", "busy", "ended"}]
        /\ reading \in [Owners -> Packet \cup {NoPacket}]
    BY DEF TypeOK
  <1>1. \A u \in Owners : Way(u) \subseteq Elements(sent)
    BY DEF PacketsAreSent
  <1>2. ASSUME sent' = sent, \A u \in Owners : Way(u)' \subseteq Elements(sent)
        PROVE  PacketsAreSent'
    <2>1. Elements(sent)' = Elements(sent)
      BY <1>2 DEF Elements
    <2> QED  BY <1>2, <2>1 DEF PacketsAreSent
  <1>3. ASSUME NEW e \in Ends, OwnerStep(e) PROVE PacketsAreSent'
    <2>1. PICK o \in Owners : EndLoop(o) \/ OwnerEffect(o)
      BY <1>3, OwnerStepEffect
    <2>2. /\ \A u \in Owners : Accepted(u)' \subseteq Accepted(u)
          /\ wire' = wire /\ delivered' = delivered
      BY <2>1, OwnerAccepts DEF EndLoop, OwnerEffect
    <2>3. /\ \A u \in Owners : Taken(u)' \subseteq Taken(u)
          /\ \A u \in Owners : Elements(wire[u[1]])' = Elements(wire[u[1]])
      BY <2>2 DEF Taken, Elements
    <2>4. CASE EndLoop(o)
      <3>1. \A u \in Owners : outq'[u] = outq[u] \/ outq'[u] = <<>>
        BY <1>0, <2>4 DEF EndLoop
      <3>2. \A u \in Owners : Elements(outq[u])' \subseteq Elements(outq[u])
        BY <3>1, EmptyElements DEF Elements
      <3> QED  BY <1>1, <1>2, <2>3, <2>4, <3>2 DEF EndLoop
    <2>5. ASSUME UNCHANGED <<outq, sent>> PROVE PacketsAreSent'
      <3>1. \A u \in Owners : Elements(outq[u])' = Elements(outq[u])
        BY <2>5 DEF Elements
      <3> QED  BY <1>1, <1>2, <2>3, <2>5, <3>1
    <2>6. ASSUME NEW kind \in {"F", "E", "A"}, Enqueue(o, kind) PROVE PacketsAreSent'
      <3> DEFINE p == NewPacket(o, kind)
      <3>1. /\ p \in Packet /\ p.n = Len(sent) + 1
            /\ sent' = Append(sent, p) /\ outq' = [outq EXCEPT ![o] = Append(@, p)]
            /\ Elements(sent)' = Elements(sent) \cup {p}
        BY <2>6, EnqueueType, EarlierKept DEF Enqueue
      <3> HIDE DEF p
      <3>2. outq[o] \in Seq(Packet)
        BY <1>0
      <3>3. Elements(Append(outq[o], p)) = Elements(outq[o]) \cup {p}
        BY <3>1, <3>2, AppendElements
      <3>4. \A u \in Owners : Elements(outq'[u]) \subseteq Elements(outq[u]) \cup {p}
        BY <1>0, <3>1, <3>3
      <3>5. \A u \in Owners : Elements(outq[u])' = Elements(outq'[u])
        BY DEF Elements
      <3>6. \A u \in Owners : Way(u)' \subseteq Elements(sent)'
        BY <1>1, <2>3, <3>1, <3>4, <3>5
      <3>7. \A i \in 1..Len(sent)' : sent'[i].n = i
        <4>1. /\ Len(sent') = Len(sent) + 1 /\ Len(sent) \in Nat
              /\ \A i \in 1..Len(sent) : sent'[i] = sent[i]
              /\ sent'[Len(sent) + 1] = p
          BY <1>0, <3>1
        <4>2. \A i \in 1..(Len(sent) + 1) : i \in 1..Len(sent) \/ i = Len(sent) + 1
          BY <4>1
        <4> QED  BY <3>1, <4>1, <4>2 DEF PacketsAreSent
      <3> QED  BY <3>6, <3>7 DEF PacketsAreSent
    <2> QED  BY <2>1, <2>4, <2>5, <2>6 DEF OwnerEffect
  <1>4. ASSUME NEW o \in Owners, OpenStream(o) PROVE PacketsAreSent'
    <2> DEFINE h == Head(outq[o])
               d == Peer(o[1])
    <2>1. /\ outq' = [outq EXCEPT ![o] = Tail(@)] /\ wire' = [wire EXCEPT ![d] = Append(@, h)]
          /\ UNCHANGED <<reader, reading, delivered, sent>>
          /\ outq[o] \in Seq(Packet) /\ outq[o] # <<>> /\ wire[d] \in Seq(Packet) /\ d \in Ends
      BY <1>0, <1>4, OwnerTypes DEF OpenStream, Announce, inVars
    <2>2. h \in Packet /\ Elements(outq[o]) = {h} \cup Elements(Tail(outq[o]))
      BY <2>1, TailElements
    <2> HIDE DEF h, d
    <2>3. Elements(Append(wire[d], h)) = Elements(wire[d]) \cup {h}
      BY <2>1, <2>2, AppendElements
    <2>4. /\ \A u \in Owners : Elements(outq'[u]) \subseteq Elements(outq[u])
          /\ \A e \in Ends : Elements(wire'[e]) \subseteq Elements(wire[e]) \cup {h}
      BY <1>0, <2>1, <2>2, <2>3
    <2>5. /\ \A u \in Owners : Elements(outq[u])' = Elements(outq'[u])
          /\ \A u \in Owners : Elements(wire[u[1]])' = Elements(wire'[u[1]])
          /\ \A u \in Owners : Taken(u)' = Taken(u)
      BY <2>1 DEF Elements, Taken, Accepted
    <2>6. h \in Elements(sent)
      BY <1>1, <2>2
    <2>7. \A u \in Owners : Way(u)' \subseteq Way(u) \cup {h}
      BY <2>4, <2>5, OwnerTypes
    <2> QED  BY <1>1, <1>2, <2>1, <2>6, <2>7
  <1>5. ASSUME NEW o \in Owners, AcceptStream(o) PROVE PacketsAreSent'
    <2> DEFINE d == o[1]
               h == Head(wire[d])
    <2>1. /\ reader' = [reader EXCEPT ![o] = "busy"] /\ reading' = [reading EXCEPT ![o] = h]
          /\ wire' = [wire EXCEPT ![d] = Tail(@)] /\ UNCHANGED <<outq, delivered, sent>>
          /\ wire[d] \in Seq(Packet) /\ wire[d] # <<>> /\ d \in Ends
      BY <1>0, <1>5, OwnerTypes DEF AcceptStream, outVars
    <2>2. Elements(wire[d]) = {h} \cup Elements(Tail(wire[d]))
      BY <2>1, TailElements
    <2>3. \A e \in Ends : Elements(wire'[e]) \subseteq Elements(wire[e])
      BY <1>0, <2>1, <2>2
    <2>4. h \in Way(o)
      BY <2>2
    <2> HIDE DEF h
    <2>5. Accepted(o)' = {h} /\ \A u \in Owners \ {o} : Accepted(u)' = Accepted(u)
      BY <1>0, <2>1 DEF Accepted
    <2>6. /\ \A u \in Owners : Elements(outq[u])' = Elements(outq[u])
          /\ \A u \in Owners : Elements(wire[u[1]])' = Elements(wire'[u[1]])
          /\ \A u \in Owners : Elements(delivered[u])' = Elements(delivered[u])
      BY <2>1 DEF Elements
    <2>7. \A u \in Owners : Way(u)' \subseteq Way(u) \cup {h}
      BY <2>3, <2>5, <2>6, OwnerTypes DEF Taken
    <2> QED  BY <1>1, <1>2, <2>1, <2>4, <2>7
  <1>6. ASSUME NEW o \in Owners, ReadStream(o) PROVE PacketsAreSent'
    <2>1. /\ UNCHANGED <<outq, wire, sent>> /\ \A u \in Owners : Taken(u)' \subseteq Taken(u)
      BY <1>6, ReadTakes DEF ReadStream
    <2>2. \A u \in Owners : Way(u)' \subseteq Way(u)
      BY <2>1 DEF Elements
    <2> QED  BY <1>1, <1>2, <2>1, <2>2
  <1>7. ASSUME NEW o \in Owners, WriteStream(o) \/ EndWriter(o) \/ EndReader(o)
        PROVE  PacketsAreSent'
    <2>1. /\ UNCHANGED <<wire, delivered, sent>>
          /\ \A u \in Owners : outq'[u] = outq[u] \/ outq'[u] = <<>>
          /\ \A u \in Owners : Accepted(u)' \subseteq Accepted(u)
      BY <1>0, <1>7 DEF WriteStream, EndWriter, EndReader, inVars, outVars, Accepted
    <2>2. \A u \in Owners : Elements(outq[u])' \subseteq Elements(outq[u])
      BY <2>1, EmptyElements DEF Elements
    <2>3. \A u \in Owners : Way(u)' \subseteq Way(u)
      BY <2>1, <2>2 DEF Elements, Taken
    <2> QED  BY <1>1, <1>2, <2>1, <2>3
  <1>8. ASSUME Close \/ UNCHANGED vars PROVE PacketsAreSent'
    <2>1. UNCHANGED <<outq, wire, reader, reading, delivered, sent>>
      BY <1>8 DEF Close, vars, outVars, inVars
    <2>2. \A u \in Owners : Way(u)' = Way(u)
      BY <2>1 DEF Elements, Taken, Accepted
    <2> QED  BY <1>1, <1>2, <2>1, <2>2
  <1> QED  BY <1>3, <1>4, <1>5, <1>6, <1>7, <1>8 DEF Next, TaskStep

\* A step that leaves what o has taken and the wire towards o as they are, and the queue
\* of o's peer too unless it ends the peer's writer, opens no gap.
LEMMA GapKept ==
    ASSUME NEW o \in Owners, NEW w, w = Addressee(o), NoGapBefore(o),
           sent' = sent, delivered'[o] = delivered[o], wire'[o[1]] = wire[o[1]],
           Accepted(o)' = Accepted(o),
           \/ /\ outq'[w] = outq[w]
              /\ writer'[w] = "ended" <=> writer[w] = "ended"
           \/ outq'[w] = <<>> /\ writer'[w] = "ended"
    PROVE  NoGapBefore(o)'
  <1> DEFINE A == Accepted(o)
             D == Elements(delivered[o])
             W == Elements(wire[o[1]])
             Q == Elements(outq[w])
  <1>1. /\ \A p \in A : Earlier(p) \subseteq D
        /\ \A p \in W : Earlier(p) \subseteq A \cup D \cup W
        /\ writer[w] # "ended" => SentBy(w) \subseteq A \cup D \cup W \cup Q
        /\ writer[w] = "ended" => outq[w] = <<>>
    BY DEF NoGapBefore, Taken
  <1>2. A' = A /\ D' = D /\ W' = W /\ SentBy(w)' = SentBy(w) /\ Addressee(o)' = Addressee(o)
    BY DEF Elements, SentBy, Addressee, Peer
  <1>3. \A p : Earlier(p)' = Earlier(p)
    BY DEF Earlier, SentBy, Elements
  <1>4. outq'[w] = outq[w] => Q' = Q
    BY DEF Elements
  <1> HIDE DEF A, D, W, Q
  <1>5. /\ \A p \in A' : Earlier(p)' \subseteq D'
        /\ \A p \in W' : Earlier(p)' \subseteq A' \cup D' \cup W'
        /\ writer'[w] # "ended" => SentBy(w)' \subseteq A' \cup D' \cup W' \cup Q'
        /\ writer'[w] = "ended" => outq'[w] = <<>>
    BY <1>1, <1>2, <1>3, <1>4
  <1> QED  BY <1>2, <1>5 DEF NoGapBefore, Taken, A, D, W, Q

\* A packet that is enqueued comes after all that o has taken or the wire holds, and it
\* is in the queue of o's peer when the peer enqueued it.
LEMMA GapEnqueue ==
    ASSUME TypeOK, TasksMatch, PipelineInOrder,
           NEW o \in Owners, NEW w \in Owners, w = Addressee(o), NoGapBefore(o),
           NEW x \in Owners, NEW kind \in {"F", "E", "A"}, Enqueue(x, kind), WriterRuns(x),
           delivered' = delivered, wire' = wire, Accepted(o)' = Accepted(o),
           writer'[w] = "ended" <=> writer[w] = "ended"
    PROVE  NoGapBefore(o)'
  <1> DEFINE A == Accepted(o)
             D == Elements(delivered[o])
             W == Elements(wire[o[1]])
             Q == Elements(outq[w])
             np == NewPacket(x, kind)
  <1>1. /\ \A p \in A : Earlier(p) \subseteq D
        /\ \A p \in W : Earlier(p) \subseteq A \cup D \cup W
        /\ writer[w] # "ended" => SentBy(w) \subseteq A \cup D \cup W \cup Q
        /\ writer[w] = "ended" => outq[w] = <<>>
    BY DEF NoGapBefore, Taken
  <1>2. A' = A /\ D' = D /\ W' = W /\ Addressee(o)' = Addressee(o)
    BY DEF Elements, Addressee, Peer
  <1>3. \A p \in A \cup W : p \in Packet /\ p.n <= Len(sent)
    BY PacketsOnly, OwnerTypes DEF PipelineInOrder, Taken
  <1>4. \A p \in A \cup W : Earlier(p)' = Earlier(p)
    BY <1>3, EarlierKept
  <1>5. SentBy(w)' \subseteq SentBy(w) \cup (IF w = x THEN {np} ELSE {})
    BY EarlierKept
  <1>6. /\ w = x => Q' = Q \cup {np}
        /\ w # x => outq'[w] = outq[w] /\ Q' = Q
    <2>1. /\ outq \in [Owners -> Seq(Packet)] /\ np \in Packet
          /\ outq' = [outq EXCEPT ![x] = Append(@, np)]
      BY EnqueueType DEF TypeOK, Enqueue
    <2> HIDE DEF np
    <2>2. Elements(Append(outq[x], np)) = Elements(outq[x]) \cup {np}
      BY <2>1, AppendElements
    <2>3. Elements(outq[w])' = Elements(outq'[w])
      BY DEF Elements
    <2> QED  BY <2>1, <2>2, <2>3
  <1>7. w = x => writer[w] # "ended"
    BY DEF WriterRuns
  <1> HIDE DEF A, D, W, Q, np
  <1>8. /\ \A p \in A' : Earlier(p)' \subseteq D'
        /\ \A p \in W' : Earlier(p)' \subseteq A' \cup D' \cup W'
    BY <1>1, <1>2, <1>4
  <1>9. /\ writer'[w] # "ended" => SentBy(w)' \subseteq A' \cup D' \cup W' \cup Q'
        /\ writer'[w] = "ended" => outq'[w] = <<>>
    BY <1>1, <1>2, <1>5, <1>6, <1>7
  <1> QED  BY <1>2, <1>8, <1>9 DEF NoGapBefore, Taken, A, D, W, Q

\* The stream that the peer's writer opens carries the first packet of its queue: those
\* before it have gone ahead.
LEMMA GapOpen ==
    ASSUME TypeOK, TasksMatch, PipelineInOrder,
           NEW o \in Owners, NEW w \in Owners, w = Addressee(o), NoGapBefore(o),
           Peer(w[1]) = o[1], OpenStream(w)
    PROVE  NoGapBefore(o)'
  <1> DEFINE A == Accepted(o)
             D == Elements(delivered[o])
             W == Elements(wire[o[1]])
             Q == Elements(outq[w])
             h == Head(outq[w])
             R == Elements(Tail(outq[w]))
  <1>1. /\ \A p \in A : Earlier(p) \subseteq D
        /\ \A p \in W : Earlier(p) \subseteq A \cup D \cup W
        /\ writer[w] # "ended" => SentBy(w) \subseteq A \cup D \cup W \cup Q
    BY DEF NoGapBefore, Taken
  <1>2. /\ outq \in [Owners -> Seq(Packet)] /\ outq[w] \in Seq(Packet) /\ outq[w] # <<>>
        /\ wire \in [Ends -> Seq(Packet)] /\ wire[o[1]] \in Seq(Packet) /\ o[1] \in Ends
        /\ writer \in [Owners -> {"off", "idle", "busy", "ended"}]
    BY OwnerTypes DEF TypeOK, OpenStream
  <1>3. /\ writer[w] = "idle" /\ writer' = [writer EXCEPT ![w] = "busy"]
        /\ outq' = [outq EXCEPT ![w] = Tail(@)] /\ wire' = [wire EXCEPT ![o[1]] = Append(@, h)]
        /\ UNCHANGED <<reader, reading, delivered, sent>>
    BY DEF OpenStream, Announce, inVars
  <1>4. /\ h \in Packet /\ Q = {h} \cup R /\ Before({h}, R) /\ h.from = w
    <2>1. InOrder(outq[w]) /\ \A p \in Elements(outq[w]) : p.from = w
      BY DEF PipelineInOrder
    <2> QED  BY <1>2, <2>1, TailElements, TailInOrder
  <1>5. A' = A /\ D' = D /\ SentBy(w)' = SentBy(w) /\ Addressee(o)' = Addressee(o)
    BY <1>3 DEF Accepted, Elements, SentBy, Addressee, Peer
  <1>6. \A p : Earlier(p)' = Earlier(p)
    BY <1>3 DEF Earlier, SentBy, Elements
  <1>7. W' = W \cup {h} /\ Q' = R
    <2>1. Elements(wire[o[1]])' = Elements(wire'[o[1]]) /\ Elements(outq[w])' = Elements(outq'[w])
      BY DEF Elements
    <2> HIDE DEF h
    <2>2. Elements(Append(wire[o[1]], h)) = Elements(wire[o[1]]) \cup {h}
      BY <1>2, <1>4, AppendElements
    <2> QED  BY <1>2, <1>3, <2>1, <2>2
  <1>8. Earlier(h) \subseteq A \cup D \cup W
    <2>1. \A q \in SentBy(w) : q.n < h.n => q \notin {h} \cup R
      <3>1. \A q \in R : q \in Packet /\ q.from = w
        BY <1>4, PacketsOnly DEF PipelineInOrder
      <3> QED  BY <1>4, <3>1, PacketsOnly DEF Before
    <2> QED  BY <1>1, <1>3, <1>4, <2>1 DEF Earlier
  <1>9. writer'[w] # "ended"
    BY <1>2, <1>3
  <1> HIDE DEF A, D, W, Q, h, R
  <1>10. /\ \A p \in A' : Earlier(p)' \subseteq D'
         /\ \A p \in W' : Earlier(p)' \subseteq A' \cup D' \cup W'
    BY <1>1, <1>5, <1>6, <1>7, <1>8
  <1>11. SentBy(w)' \subseteq A' \cup D' \cup W' \cup Q'
    BY <1>1, <1>3, <1>4, <1>5, <1>7
  <1> QED  BY <1>5, <1>9, <1>10, <1>11 DEF NoGapBefore, Taken, A, D, W, Q

\* The stream that a reader accepts is the first on the wire: those before it were
\* delivered.
LEMMA GapAccept ==
    ASSUME TypeOK, TasksMatch, PipelineInOrder,
           NEW o \in Owners, NEW w, w = Addressee(o), NoGapBefore(o), AcceptStream(o)
    PROVE  NoGapBefore(o)'
  <1> DEFINE D == Elements(delivered[o])
             W == Elements(wire[o[1]])
             Q == Elements(outq[w])
             h == Head(wire[o[1]])
             R == Elements(Tail(wire[o[1]]))
  <1>1. /\ wire \in [Ends -> Seq(Packet)] /\ wire[o[1]] \in Seq(Packet) /\ wire[o[1]] # <<>>
        /\ o[1] \in Ends /\ InOrder(wire[o[1]])
        /\ reader \in [Owners -> {"off", "idle", "busy", "ended"}]
        /\ reading \in [Owners -> Packet \cup {NoPacket}]
    BY OwnerTypes DEF TypeOK, AcceptStream, PipelineInOrder
  <1>2. /\ reader[o] = "idle" /\ reader' = [reader EXCEPT ![o] = "busy"]
        /\ reading' = [reading EXCEPT ![o] = h] /\ wire' = [wire EXCEPT ![o[1]] = Tail(@)]
        /\ UNCHANGED <<outq, writer, delivered, sent>>
    BY DEF AcceptStream, outVars
  <1>3. Accepted(o) = {} /\ Accepted(o)' = {h}
    BY <1>1, <1>2 DEF Accepted
  <1>4. /\ \A p \in W : Earlier(p) \subseteq D \cup W
        /\ writer[w] # "ended" => SentBy(w) \subseteq D \cup W \cup Q
        /\ writer[w] = "ended" => outq[w] = <<>>
    BY <1>3 DEF NoGapBefore, Taken
  <1>5. /\ h \in Packet /\ W = {h} \cup R /\ Before({h}, R)
    BY <1>1, TailElements, TailInOrder
  <1>6. D' = D /\ W' = R /\ Q' = Q /\ SentBy(w)' = SentBy(w) /\ Addressee(o)' = Addressee(o)
    <2>1. Elements(wire[o[1]])' = Elements(wire'[o[1]])
      BY DEF Elements
    <2>2. wire'[o[1]] = Tail(wire[o[1]])
      BY <1>1, <1>2
    <2> QED  BY <1>2, <2>1, <2>2 DEF Elements, SentBy, Addressee, Peer
  <1>7. \A p : Earlier(p)' = Earlier(p)
    BY <1>2 DEF Earlier, SentBy, Elements
  <1>8. Earlier(h) \subseteq D
    <2>1. \A q \in R : q \in Packet
      BY <1>1, <1>5, PacketsOnly
    <2>2. \A q \in Earlier(h) : q \notin {h} \cup R
      BY <1>5, <2>1, PacketsOnly DEF Before, Earlier, SentBy
    <2> QED  BY <1>4, <1>5, <2>2
  <1> HIDE DEF D, W, Q, h, R
  <1>9. /\ \A p \in {h} : Earlier(p)' \subseteq D'
        /\ \A p \in W' : Earlier(p)' \subseteq {h} \cup D' \cup W'
    BY <1>4, <1>5, <1>6, <1>7, <1>8
  <1>10. /\ writer'[w] # "ended" => SentBy(w)' \subseteq {h} \cup D' \cup W' \cup Q'
         /\ writer'[w] = "ended" => outq'[w] = <<>>
    BY <1>2, <1>4, <1>5, <1>6
  <1> QED  BY <1>3, <1>6, <1>9, <1>10 DEF NoGapBefore, Taken, D, W, Q

\* What a reader whose owner is up reads joins what was delivered.
LEMMA GapRead ==
    ASSUME TypeOK, TasksMatch,
           NEW o \in Owners, NEW w, w = Addressee(o), NoGapBefore(o),
           ReadStream(o), owner[o] = "up"
    PROVE  NoGapBefore(o)'
  <1> DEFINE D == Elements(delivered[o])
             W == Elements(wire[o[1]])
             Q == Elements(outq[w])
             p == reading[o]
  <1>1. UNCHANGED <<outq, writer, wire, sent>>
    BY DEF ReadStream
  <1>2. Accepted(o) = {p} /\ Accepted(o)' = {} /\ D' = D \cup {p}
    BY ReadTakes
  <1>3. /\ \A q \in W : Earlier(q) \subseteq {p} \cup D \cup W
        /\ writer[w] # "ended" => SentBy(w) \subseteq {p} \cup D \cup W \cup Q
        /\ writer[w] = "ended" => outq[w] = <<>>
    BY <1>2 DEF NoGapBefore, Taken
  <1>4. W' = W /\ Q' = Q /\ SentBy(w)' = SentBy(w) /\ Addressee(o)' = Addressee(o)
    BY <1>1 DEF Elements, SentBy, Addressee, Peer
  <1>5. \A q : Earlier(q)' = Earlier(q)
    BY <1>1 DEF Earlier, SentBy, Elements
  <1> HIDE DEF D, W, Q, p
  <1>6. /\ \A q \in W' : Earlier(q)' \subseteq D' \cup W'
        /\ writer'[w] # "ended" => SentBy(w)' \subseteq D' \cup W' \cup Q'
        /\ writer'[w] = "ended" => outq'[w] = <<>>
    BY <1>1, <1>2, <1>3, <1>4, <1>5
  <1> QED  BY <1>2, <1>4, <1>6 DEF NoGapBefore, Taken, D, W, Q

\* With one owner at each end, every step keeps the readers that run without a gap.
LEMMA NextSkips ==
    ASSUME TasksInv, NoneSkipped, [Next]_vars
    PROVE  NoneSkipped'
  <1>0. /\ TypeOK /\ TasksMatch /\ PipelineInOrder
        /\ owner \in [Owners -> {"new", "up", "gone"}]
        /\ outq \in [Owners -> Seq(Packet)] /\ wire \in [Ends -> Seq(Packet)]
        /\ delivered \in [Owners -> Seq(Packet)]
        /\ writer \in [Owners -> {"off", "idle", "busy", "ended"}]
        /\ reader \in [Owners -> {"off", "idle", "busy", "ended"}]
        /\ reading \in [Owners -> Packet \cup {NoPacket}]
    BY DEF TasksInv, TypeOK
  <1>1. deployment' = deployment
    <2>1. ASSUME NEW e \in Ends, OwnerStep(e) PROVE deployment' = deployment
      BY <2>1, OwnerStepEffect DEF EndLoop, OwnerEffect, connVars
    <2>2. ASSUME NEW x \in Owners, TaskStep(x) PROVE deployment' = deployment
      BY <2>2 DEF TaskStep, OpenStream, WriteStream, EndWriter, AcceptStream, ReadStream,
                  EndReader, connVars
    <2> QED  BY <2>1, <2>2 DEF Next, Close, vars, connVars
  <1>2. \A u : Deployed(u)' <=> Deployed(u)
    BY <1>1 DEF Deployed
  <1> SUFFICES ASSUME deployment = "one_way"
               PROVE  /\ \A u \in Owners : ~Deployed(u) => owner'[u] = "new"
                      /\ \A o \in Owners : Deployed(o) /\ reader'[o] # "ended" => NoGapBefore(o)'
    BY <1>1, <1>2 DEF NoneSkipped
  <1>3. \A u \in Owners : ~Deployed(u) => owner[u] = "new" /\ writer[u] = "off" /\ reader[u] = "off"
    BY <1>0 DEF NoneSkipped, TasksMatch
  <1>4. ASSUME NEW e \in Ends, OwnerStep(e)
        PROVE  \E x \in Owners : Deployed(x) /\ (EndLoop(x) \/ OwnerEffect(x))
    <2>1. PICK x \in Owners : (EndLoop(x) \/ OwnerEffect(x)) /\ (Deployed(x) \/ owner[x] = "up")
      BY <1>4, OwnerStepEffect
    <2> QED  BY <1>3, <2>1
  <1>5. \A u \in Owners : ~Deployed(u) => owner'[u] = "new"
    <2>1. ASSUME NEW e \in Ends, OwnerStep(e), NEW u \in Owners, ~Deployed(u)
          PROVE  owner'[u] = "new"
      <3>1. PICK x \in Owners : Deployed(x) /\ (EndLoop(x) \/ OwnerEffect(x))
        BY <1>4, <2>1
      <3>2. owner'[u] = owner[u]
        BY <1>0, <2>1, <3>1 DEF EndLoop, OwnerEffect, StartTasks, Started
      <3> QED  BY <1>3, <2>1, <3>2
    <2>2. ASSUME NEW x \in Owners, TaskStep(x) PROVE owner' = owner
      BY <2>2 DEF TaskStep, OpenStream, WriteStream, EndWriter, AcceptStream, ReadStream,
                  EndReader
    <2>3. Close \/ UNCHANGED vars => owner' = owner
      BY DEF Close, vars
    <2> QED  BY <1>3, <2>1, <2>2, <2>3 DEF Next
  <1>6. ASSUME NEW o \in Owners, Deployed(o), reader'[o] # "ended"
        PROVE  NoGapBefore(o)'
    <2> DEFINE w == Addressee(o)
    <2>1. /\ w \in Owners /\ w # o /\ Peer(w[1]) = o[1] /\ Peer(o[1]) # o[1]
          /\ \A x \in Owners : Deployed(x) => x = o \/ x = w
      BY <1>6, DeployedPair
    <2>2. reader[o] # "ended" => NoGapBefore(o)
      BY <1>6 DEF NoneSkipped
    <2>3. ASSUME NEW e \in Ends, OwnerStep(e) PROVE NoGapBefore(o)'
      <3>1. PICK x \in Owners : Deployed(x) /\ (EndLoop(x) \/ OwnerEffect(x))
        BY <1>4, <2>3
      <3>2. ASSUME EndLoop(x) PROVE NoGapBefore(o)'
        <4>1. x # o
          BY <1>0, <1>6, <3>2 DEF EndLoop
        <4>2. x = w
          BY <2>1, <3>1, <4>1
        <4>3. /\ sent' = sent /\ delivered' = delivered /\ wire' = wire
              /\ reader'[o] = reader[o] /\ reading'[o] = reading[o]
              /\ outq'[w] = <<>> /\ writer'[w] = "ended"
          BY <1>0, <2>1, <3>2, <4>2 DEF EndLoop
        <4>4. Accepted(o)' = Accepted(o)
          BY <4>3 DEF Accepted
        <4> HIDE DEF w
        <4> QED  BY <1>6, <2>1, <2>2, <4>3, <4>4, GapKept DEF w
      <3>3. ASSUME OwnerEffect(x) PROVE NoGapBefore(o)'
        <4>1. /\ delivered' = delivered /\ wire' = wire /\ reading' = reading
              /\ \A u \in Owners : \/ writer'[u] = writer[u] /\ reader'[u] = reader[u]
                                   \/ /\ writer[u] = "off" /\ reader[u] = "off"
                                      /\ writer'[u] = "idle" /\ reader'[u] = "idle"
          BY <1>0, <3>3 DEF OwnerEffect, StartTasks, Started, TasksMatch
        <4>2. /\ reader[o] # "ended" /\ Accepted(o)' = Accepted(o)
              /\ (writer'[w] = "ended" <=> writer[w] = "ended")
          BY <1>6, <2>1, <4>1 DEF Accepted
        <4> HIDE DEF w
        <4>3. CASE UNCHANGED <<outq, sent>>
          BY <1>6, <2>1, <2>2, <4>1, <4>2, <4>3, GapKept DEF w
        <4>4. ASSUME NEW kind \in {"F", "E", "A"}, Enqueue(x, kind), WriterRuns(x)
              PROVE  NoGapBefore(o)'
          BY <1>0, <1>6, <2>1, <2>2, <4>1, <4>2, <4>4, GapEnqueue DEF w
        <4> QED  BY <3>3, <4>3, <4>4 DEF OwnerEffect
      <3> QED  BY <3>1, <3>2, <3>3
    <2>4. ASSUME NEW x \in Owners, OpenStream(x) PROVE NoGapBefore(o)'
      <3>1. x = o \/ x = w
        BY <1>3, <2>1, <2>4 DEF OpenStream
      <3>2. /\ UNCHANGED <<sent, delivered, reader, reading>>
            /\ outq' = [outq EXCEPT ![x] = Tail(@)]
            /\ writer[x] = "idle" /\ writer' = [writer EXCEPT ![x] = "busy"]
            /\ \E v : wire' = [wire EXCEPT ![Peer(x[1])] = v]
        BY <2>4 DEF OpenStream, inVars
      <3>3. reader[o] # "ended" /\ Accepted(o)' = Accepted(o)
        BY <1>6, <3>2 DEF Accepted
      <3>4. CASE x = w
        <4> HIDE DEF w
        <4> QED  BY <1>0, <1>6, <2>1, <2>2, <2>4, <3>3, <3>4, GapOpen DEF w
      <3>5. CASE x = o
        <4>1. wire'[o[1]] = wire[o[1]] /\ outq'[w] = outq[w] /\ writer'[w] = writer[w]
          BY <1>0, <2>1, <3>2, <3>5, OwnerTypes
        <4> HIDE DEF w
        <4> QED  BY <1>6, <2>1, <2>2, <3>2, <3>3, <4>1, GapKept DEF w
      <3> QED  BY <3>1, <3>4, <3>5
    <2>5. ASSUME NEW x \in Owners, AcceptStream(x) PROVE NoGapBefore(o)'
      <3>1. x = o \/ x = w
        BY <1>3, <2>1, <2>5 DEF AcceptStream
      <3>2. CASE x = o
        <4>1. reader[o] # "ended"
          BY <2>5, <3>2 DEF AcceptStream
        <4> HIDE DEF w
        <4> QED  BY <1>0, <1>6, <2>1, <2>2, <2>5, <3>2, <4>1, GapAccept DEF w
      <3>3. CASE x = w
        <4>1. /\ UNCHANGED <<sent, delivered, outq, writer>>
              /\ wire'[o[1]] = wire[o[1]]
              /\ reader'[o] = reader[o] /\ reading'[o] = reading[o]
          BY <1>0, <2>1, <2>5, <3>3, OwnerTypes DEF AcceptStream, outVars
        <4>2. Accepted(o)' = Accepted(o)
          BY <4>1 DEF Accepted
        <4> HIDE DEF w
        <4> QED  BY <1>6, <2>1, <2>2, <4>1, <4>2, GapKept DEF w
      <3> QED  BY <3>1, <3>2, <3>3
    <2>6. ASSUME NEW x \in Owners, ReadStream(x) PROVE NoGapBefore(o)'
      <3>1. reader[o] # "ended"
        BY <1>0, <1>6, <2>6 DEF ReadStream
      <3>2. CASE x = o
        <4>1. owner[o] = "up"
          BY <1>0, <1>6, <2>6, <3>2 DEF ReadStream, ReaderAfter
        <4> HIDE DEF w
        <4> QED  BY <1>0, <1>6, <2>1, <2>2, <2>6, <3>1, <3>2, <4>1, GapRead DEF w
      <3>3. CASE x # o
        <4>1. /\ UNCHANGED <<sent, outq, writer, wire>>
              /\ Accepted(o)' = Accepted(o) /\ delivered'[o] = delivered[o]
          BY <1>0, <1>6, <2>6, <3>3, ReadTakes DEF ReadStream
        <4> HIDE DEF w
        <4> QED  BY <1>6, <2>1, <2>2, <3>1, <4>1, GapKept DEF w
      <3> QED  BY <3>2, <3>3
    <2>7. ASSUME NEW x \in Owners, EndReader(x) PROVE NoGapBefore(o)'
      <3>1. x # o
        BY <1>0, <1>6, <2>7 DEF EndReader
      <3>2. /\ UNCHANGED <<sent, delivered, outq, writer, wire>>
            /\ reader'[o] = reader[o] /\ reading'[o] = reading[o]
        BY <1>0, <2>7, <3>1 DEF EndReader, outVars
      <3>3. Accepted(o)' = Accepted(o)
        BY <3>2 DEF Accepted
      <3> HIDE DEF w
      <3> QED  BY <1>6, <2>1, <2>2, <3>2, <3>3, GapKept DEF w
    <2>8. ASSUME NEW x \in Owners, WriteStream(x) \/ EndWriter(x) PROVE NoGapBefore(o)'
      <3>1. /\ UNCHANGED <<sent, delivered, wire, reader, reading>>
            /\ \/ /\ outq'[w] = outq[w]
                  /\ (writer'[w] = "ended" <=> writer[w] = "ended")
               \/ outq'[w] = <<>> /\ writer'[w] = "ended"
        BY <1>0, <2>1, <2>8 DEF WriteStream, EndWriter, inVars
      <3>2. reader[o] # "ended" /\ Accepted(o)' = Accepted(o)
        BY <1>6, <3>1 DEF Accepted
      <3> HIDE DEF w
      <3> QED  BY <1>6, <2>1, <2>2, <3>1, <3>2, GapKept DEF w
    <2>9. ASSUME Close \/ UNCHANGED vars PROVE NoGapBefore(o)'
      <3>1. UNCHANGED <<sent, delivered, outq, writer, wire, reader, reading>>
        BY <2>9 DEF Close, vars, outVars, inVars
      <3>2. reader[o] # "ended" /\ Accepted(o)' = Accepted(o)
        BY <1>6, <3>1 DEF Accepted
      <3> HIDE DEF w
      <3> QED  BY <1>6, <2>1, <2>2, <3>1, <3>2, GapKept DEF w
    <2> HIDE DEF w
    <2> QED
      BY <2>3, <2>4, <2>5, <2>6, <2>7, <2>8, <2>9 DEF Next, TaskStep
  <1> QED  BY <1>5, <1>6

(***************************************************************************)
(* The theorems.                                                           *)
(***************************************************************************)
\* Nothing is on its way at the start.
LEMMA ControlStarts ==
    ASSUME Init
    PROVE  ControlInv
  <1>1. /\ \A o \in Owners : /\ outq[o] = <<>> /\ delivered[o] = <<>> /\ Accepted(o) = {}
                             /\ writer[o] # "ended"
                             /\ ~Deployed(o) => owner[o] = "new"
        /\ \A e \in Ends : wire[e] = <<>>
        /\ sent = <<>>
    BY DEF Init, InitialState, Accepted
  <1>2. /\ \A o \in Owners : Elements(outq[o]) = {} /\ Taken(o) = {} /\ Elements(wire[o[1]]) = {}
        /\ Elements(sent) = {} /\ 1..Len(sent) = {}
    BY <1>1, EmptyElements, OwnerTypes DEF Taken
  <1>3. PacketsAreSent
    BY <1>2 DEF PacketsAreSent
  <1>4. \A o \in Owners : Deployed(o) /\ deployment = "one_way" => NoGapBefore(o)
    BY <1>1, <1>2, DeployedPair DEF NoGapBefore, SentBy
  <1>5. NoneSkipped
    BY <1>1, <1>4 DEF NoneSkipped
  <1> QED  BY <1>3, <1>5, TasksStart DEF ControlInv

\* Types, the order of the packets, the states of the tasks and the streams of
\* a connection are right in every state, and with one owner at each end no packet is
\* missing before one that its reader still gets (start_control_tasks,
\* spawn_control_writer, spawn_control_reader, send_control, recv_control).
THEOREM ControlInvariant == Spec => []ControlInv
  <1>1. Init => ControlInv
    BY ControlStarts
  <1>2. TasksInv /\ [Next]_vars => TasksInv'
    BY NextType, NextTasks, NextOrder, NextStreams, NextLast DEF TasksInv
  <1>3. ControlInv /\ [Next]_vars => ControlInv'
    BY <1>2, NextSent, NextSkips DEF ControlInv, TasksInv
  <1> QED  BY <1>1, <1>3, PTL DEF Spec

\* A control packet is delivered at most once, and packets of one writer that
\* share an inbox keep their order, for any number of packets.
THEOREM ControlDeliversInOrder == Spec => []DeliveredInOrder
  <1>1. ControlInv => DeliveredInOrder
    BY PipelineDelivers DEF ControlInv, TasksInv
  <1> QED  BY <1>1, ControlInvariant, PTL

\* While the connection is open and no owner has gone, every control task
\* stays: no reader ever finds a stream cut short.
THEOREM ControlTasksLast == Spec => []TasksLast
  <1>1. ControlInv => TasksLast
    BY DEF ControlInv, TasksInv
  <1> QED  BY <1>1, ControlInvariant, PTL

\* Every variable of the control plane keeps its type.
THEOREM ControlTypeCorrect == Spec => []TypeOK
  <1>1. ControlInv => TypeOK
    BY DEF ControlInv, TasksInv
  <1> QED  BY <1>1, ControlInvariant, PTL

\* What a reader puts into its inbox is a delivery of ControlLink: the packet had been
\* enqueued at the other end, no reader has it yet, and with one owner at each end the
\* reader has all that came before it.
LEMMA ReadDelivers ==
    ASSUME ControlInv, NEW o \in Owners, ReadStream(o), owner[o] = "up", deployment' = deployment
    PROVE  \E i \in 1..Len(sent) : Link!Deliver(o, i)
  <1> DEFINE p == reading[o]
             i == p.n
  <1>0. TypeOK /\ TasksMatch /\ PipelineInOrder /\ PacketsAreSent /\ NoneSkipped
    BY DEF ControlInv, TasksInv
  <1>1. /\ reader[o] = "busy" /\ sent' = sent
        /\ delivered' = [delivered EXCEPT ![o] = Append(@, p)]
    BY DEF ReadStream
  <1>2. p \in Taken(o) /\ Accepted(o) = {p} /\ p \in Packet
    BY <1>0, <1>1 DEF Taken, Accepted, TasksMatch
  <1>3. p \in Elements(sent)
    BY <1>0, <1>2 DEF PacketsAreSent
  <1>4. i \in 1..Len(sent) /\ sent[i] = p
    BY <1>0, <1>3, SentNumbers
  <1>5. p.from[1] # o[1]
    BY <1>0, <1>2 DEF PipelineInOrder, Peer, Owners, Ends
  <1>6. p \notin Elements(delivered[o])
    <2>1. Before(Elements(delivered[o]), {p})
      BY <1>0, <1>2 DEF PipelineInOrder
    <2> QED  BY <1>2, <2>1 DEF Before, Packet
  <1>7. \A u \in Owners : p \notin Elements(delivered[u])
    BY <1>0, <1>2, <1>6 DEF PipelineInOrder, Taken
  <1>8. \A u \in Owners : ~Link!Got(u, i)
    BY <1>4, <1>7 DEF Link!Got, Elements
  <1>9. ASSUME NEW j \in 1..Len(sent), Link!SameWriter(i, j), j > i PROVE ~Link!Got(o, j)
    <2>1. sent[j].from = p.from /\ sent[j].n = j
      BY <1>0, <1>4, <1>9 DEF Link!SameWriter, PacketsAreSent
    <2>2. Before(Elements(delivered[o]), {p})
      BY <1>0, <1>2 DEF PipelineInOrder
    <2>3. sent[j] \notin Elements(delivered[o])
      BY <1>4, <1>9, <2>1, <2>2 DEF Before
    <2> QED  BY <2>3 DEF Link!Got, Elements
  <1>10. ASSUME deployment = "one_way", NEW j \in 1..Len(sent), Link!SameWriter(i, j), j < i
         PROVE  Link!Got(o, j)
    <2>1. NoGapBefore(o)
      BY <1>0, <1>1, <1>10 DEF NoneSkipped
    <2>2. Earlier(p) \subseteq Elements(delivered[o])
      BY <1>2, <2>1 DEF NoGapBefore
    <2>3. sent[j] \in Elements(sent) /\ sent[j].from = p.from /\ sent[j].n = j
      BY <1>0, <1>4, <1>10 DEF Link!SameWriter, PacketsAreSent, Elements
    <2>4. sent[j] \in Elements(delivered[o])
      BY <1>10, <2>2, <2>3 DEF Earlier, SentBy
    <2> QED  BY <2>4 DEF Link!Got, Elements
  <1> HIDE DEF p, i
  <1>11. Link!Deliver(o, i)
    BY <1>1, <1>4, <1>5, <1>8, <1>9, <1>10 DEF Link!Deliver
  <1> QED  BY <1>4, <1>11

\* Every step is a step of ControlLink or leaves its variables as they are.
LEMMA StepLinks ==
    ASSUME ControlInv, [Next]_vars
    PROVE  [Link!Next]_(Link!linkVars)
  <1>0. TypeOK
    BY DEF ControlInv, TasksInv
  <1>1. ASSUME NEW e \in Ends, OwnerStep(e) PROVE [Link!Next]_(Link!linkVars)
    <2>1. PICK o \in Owners : EndLoop(o) \/ OwnerEffect(o)
      BY <1>1, OwnerStepEffect
    <2>2. delivered' = delivered /\ deployment' = deployment
      BY <2>1 DEF EndLoop, OwnerEffect, connVars
    <2>3. CASE sent' = sent
      BY <2>2, <2>3 DEF Link!linkVars
    <2>4. ASSUME NEW kind \in {"F", "E", "A"}, Enqueue(o, kind) PROVE Link!Send
      <3> DEFINE p == NewPacket(o, kind)
      <3>1. sent \in Seq(Packet) /\ p \in Packet /\ sent' = Append(sent, p)
        BY <1>0, <2>4, EnqueueType DEF TypeOK, Enqueue
      <3> HIDE DEF p
      <3>2. Len(sent') = Len(sent) + 1 /\ sent'[Len(sent')] = p
        BY <3>1
      <3> QED  BY <2>2, <3>1, <3>2 DEF Link!Send
    <2> QED  BY <2>1, <2>3, <2>4 DEF EndLoop, OwnerEffect, Link!Next
  <1>2. ASSUME NEW o \in Owners, TaskStep(o) PROVE [Link!Next]_(Link!linkVars)
    <2>1. sent' = sent /\ deployment' = deployment
      BY <1>2 DEF TaskStep, OpenStream, WriteStream, EndWriter, AcceptStream, ReadStream,
                  EndReader, connVars, inVars
    <2>2. CASE delivered' = delivered
      BY <2>1, <2>2 DEF Link!linkVars
    <2>3. ASSUME delivered' # delivered PROVE Link!Next
      <3>1. ReadStream(o) /\ owner[o] = "up"
        BY <1>2, <2>3 DEF TaskStep, OpenStream, WriteStream, EndWriter, AcceptStream,
                          ReadStream, EndReader, inVars
      <3> QED  BY <2>1, <3>1, ReadDelivers DEF Link!Next
    <2> QED  BY <2>2, <2>3
  <1>3. ASSUME Close \/ UNCHANGED vars PROVE [Link!Next]_(Link!linkVars)
    <2>1. UNCHANGED <<deployment, sent, delivered>>
      BY <1>3 DEF Close, vars, connVars, inVars
    <2> QED  BY <2>1 DEF Link!linkVars
  <1> QED  BY <1>1, <1>2, <1>3 DEF Next

\* The control tasks implement ControlLink, for any number of packets: each packet goes
\* to one reader, in its writer's order, and with one owner at each end without a gap,
\* whatever task, owner or connection ends on the way.
THEOREM ControlRefinesLink == Spec => RefinesControlLink
  <1>1. Init => Link!Init
    BY DEF Init, Link!Init
  <1>2. ControlInv /\ [Next]_vars => [Link!Next]_(Link!linkVars)
    BY StepLinks
  <1> QED  BY <1>1, <1>2, ControlInvariant, PTL DEF Spec, RefinesControlLink, Link!Spec

=================================================================================
