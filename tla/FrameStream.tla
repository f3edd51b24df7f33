------------------------------ MODULE FrameStream ------------------------------
(***************************************************************************)
(* What a receiver promises about the frames of a session, with the        *)
(* droplets, the decoder, the network and the channels left out: every     *)
(* frame it emits carries the next index of its stream, and its content is *)
(* a frame that was submitted under that stream and index.  Only when two  *)
(* frames were submitted under one index may the content be neither.       *)
(* Finishing a stream starts its count again.                              *)
(***************************************************************************)
EXTENDS Naturals, Sequences

CONSTANTS Streams,  \* stream ids
          Frame     \* submitted frames: records with call, stream and index

VARIABLES submitted,    \* frames submitted so far
          emitted,      \* frames emitted so far, in order
          nextOut       \* index the next frame of a stream will carry

fsVars == <<submitted, emitted, nextOut>>

Garbled == 0

\* The contents a frame emitted for index i of stream s may have.
Contents(s, i) ==
    LET same == {f \in submitted : f.stream = s /\ f.index = i}
    IN  {f.call : f \in same}
        \cup {c \in {Garbled} : \E f, g \in same : f.call # g.call}

Init ==
    /\ submitted = {}
    /\ emitted = <<>>
    /\ nextOut = [s \in Streams |-> 0]

Submit ==
    /\ \E f \in submitted' \ submitted :
          f \in Frame /\ submitted' = submitted \cup {f}
    /\ UNCHANGED <<emitted, nextOut>>

Emit(s) ==
    /\ \E c \in Contents(s, nextOut[s]) :
          emitted' = Append(emitted, [stream |-> s, index |-> nextOut[s], call |-> c])
    /\ nextOut' = [nextOut EXCEPT ![s] = @ + 1]
    /\ UNCHANGED submitted

Restart(s) ==
    /\ nextOut' = [nextOut EXCEPT ![s] = 0]
    /\ UNCHANGED <<submitted, emitted>>

Next == Submit \/ \E s \in Streams : Emit(s) \/ Restart(s)

Spec == Init /\ [][Next]_fsVars
================================================================================
