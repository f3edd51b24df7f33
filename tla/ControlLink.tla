------------------------------ MODULE ControlLink ------------------------------
(***************************************************************************)
(* What the control tasks promise, with the queues, the streams and the    *)
(* tasks left out: a packet that was enqueued at one end is delivered to   *)
(* one reader of the other, once, and each reader gets the packets of a    *)
(* writer in the order in which they were enqueued.  A reader that is      *)
(* alone at its end gets them without a gap; two that share an end may     *)
(* divide them in any way.  Nothing is promised about the packets at the   *)
(* end of the order: they may never come.                                  *)
(***************************************************************************)
EXTENDS Naturals, Sequences

CONSTANTS Readers,  \* pairs of an end and a role
          Packet    \* records with from, the writer

VARIABLES alone,        \* is there one reader at each end?
          sent,         \* the packets enqueued so far, in order
          delivered     \* what each reader got, in order

linkVars == <<alone, sent, delivered>>

Got(o, i) == \E k \in 1..Len(delivered[o]) : delivered[o][k] = sent[i]

SameWriter(i, j) == sent[i].from = sent[j].from

Init ==
    /\ alone \in BOOLEAN
    /\ sent = <<>>
    /\ delivered = [o \in Readers |-> <<>>]

Send ==
    /\ Len(sent') = Len(sent) + 1
    /\ sent'[Len(sent')] \in Packet
    /\ sent' = Append(sent, sent'[Len(sent')])
    /\ UNCHANGED <<alone, delivered>>

Deliver(o, i) ==
    /\ sent[i].from[1] # o[1]
    /\ \A u \in Readers : ~Got(u, i)
    /\ \A j \in 1..Len(sent) : SameWriter(i, j) /\ j > i => ~Got(o, j)
    /\ alone => \A j \in 1..Len(sent) : SameWriter(i, j) /\ j < i => Got(o, j)
    /\ delivered' = [delivered EXCEPT ![o] = Append(@, sent[i])]
    /\ UNCHANGED <<alone, sent>>

Next == Send \/ \E o \in Readers : \E i \in 1..Len(sent) : Deliver(o, i)

Spec == Init /\ [][Next]_linkVars
================================================================================
