---------------------------------- MODULE Fec ----------------------------------
(***************************************************************************)
(* How a protected block is cut into Wirehair droplets, and what the       *)
(* Wirehair decoder answers when it is fed one: the arithmetic of          *)
(* send_chunk (session.rs) and the wrappers of fec.rs.                     *)
(*                                                                         *)
(* A droplet's bytes are abstracted to a row [call, seq]: which send_frame *)
(* call encoded it and its block id.  Redundancy is a fixed-point number   *)
(* in which Unit stands for 1.0.                                           *)
(***************************************************************************)
EXTENDS Naturals, FiniteSets

CONSTANTS
    TargetPacketSize,   \* TARGET_PACKET_SIZE
    MaxProtectedBlock,  \* MAX_PROTECTED_BLOCK_SIZE
    MaxBlocks,          \* CAT_WIREHAIR_MAX_N
    Unit,               \* fixed-point 1.0
    MaxRedundancy,      \* MAX_REDUNDANCY
    IdealCode           \* do any N distinct blocks solve the matrix?

ASSUME FecAssumption ==
    /\ TargetPacketSize \in Nat \ {0}
    /\ MaxProtectedBlock \in Nat \ {0}
    /\ MaxBlocks \in Nat
    /\ Unit \in Nat \ {0}
    /\ MaxRedundancy \in Nat
    /\ Unit <= MaxRedundancy
    /\ IdealCode \in BOOLEAN

CeilDiv(a, b) == (a + b - 1) \div b

Smaller(a, b) == IF a <= b THEN a ELSE b

Clamp(x, lo, hi) == IF x < lo THEN lo ELSE IF x > hi THEN hi ELSE x

(***************************************************************************)
(* Geometry.  limit is max_datagram_size() - DATA_PREFIX_SIZE, at least 1. *)
(***************************************************************************)
target_packet_size(limit) == Smaller(limit, TargetPacketSize)

\* A block that fits one packet is halved, so that Wirehair has two blocks.
PacketSize(size, limit) ==
    IF size <= target_packet_size(limit)
    THEN CeilDiv(size, 2)
    ELSE target_packet_size(limit)

NeededPackets(size, pkt) == CeilDiv(size, pkt)

TotalPackets(needed, redundancy) ==
    CeilDiv(needed * Clamp(redundancy, Unit, MaxRedundancy), Unit)

\* WirehairEncoder::new and WirehairDecoder::new both refuse fewer than two
\* and more than MaxBlocks blocks (ChooseMatrix).
CodecCreatable(size, pkt) == NeededPackets(size, pkt) \in 2..MaxBlocks

SizeAllowed(size) == size \in 1..MaxProtectedBlock

\* Only the last original block may be short; repair blocks are full.
DropletLen(size, pkt, seq) ==
    IF seq + 1 = NeededPackets(size, pkt) THEN size - seq * pkt ELSE pkt

(***************************************************************************)
(* The decoder: frame_index, geometry, and the rows stored so far.         *)
(***************************************************************************)
NoDecoder == [index |-> 0, size |-> 0, pkt |-> 0, rows |-> {}]

LengthAccepted(dec, seq, len) ==
    /\ len <= dec.pkt
    /\ IF seq + 1 = NeededPackets(dec.size, dec.pkt)
       THEN len >= DropletLen(dec.size, dec.pkt, seq)
       ELSE len = dec.pkt

\* What decode() can answer once row has been added.  N original blocks
\* always suffice; N rows that are all original but not distinct are
\* refused; any other N rows solve the matrix or not (a property of the
\* codec's matrix), and never do with fewer than N distinct blocks.
DecodeOutcomes(dec, row, len) ==
    LET rows == dec.rows \cup {row}
        ids  == {r.seq : r \in rows}
        n    == NeededPackets(dec.size, dec.pkt)
        AllOriginal == ids \subseteq 0..(n - 1)
    IN  IF ~LengthAccepted(dec, row.seq, len) THEN {"Err"}
        ELSE IF Cardinality(rows) < n THEN {"NeedMore"}
        ELSE IF Cardinality(rows) = n /\ AllOriginal
             THEN IF Cardinality(ids) = n THEN {"Success"} ELSE {"Err"}
        ELSE IF Cardinality(ids) < n THEN {"NeedMore"}
        ELSE IF IdealCode THEN {"Success"}
        ELSE {"Success", "NeedMore"}
================================================================================
