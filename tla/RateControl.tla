------------------------------ MODULE RateControl ------------------------------
(***************************************************************************)
(* The sender's reactions to feedback: adaptive redundancy (FEC feedback   *)
(* and telemetry) and the AIMD video bitrate.  Ratios are compared by      *)
(* cross multiplication; the code's f32 rounding of redundancy is below    *)
(* what these thresholds tell apart.                                       *)
(***************************************************************************)
EXTENDS Fec

CONSTANTS
    Adaptive,           \* FecPolicy::Adaptive (TRUE) or FecPolicy::Fixed
    MinPolicy, MaxPolicy, IncreaseStep, DecreaseStep,
    HighWatermark, LowWatermark,     \* all in units of 1/Unit
    MinBitrate, MaxBitrate, DefaultBitrate, BitrateStep   \* bits per second

ASSUME RateAssumption ==
    /\ Adaptive \in BOOLEAN
    /\ MinPolicy \in Nat /\ MaxPolicy \in Nat
    /\ IncreaseStep \in Nat /\ DecreaseStep \in Nat
    /\ HighWatermark \in Nat /\ LowWatermark \in Nat
    /\ MinPolicy <= MaxPolicy      \* f32::clamp panics otherwise
    /\ MinBitrate \in Nat /\ MaxBitrate \in Nat
    /\ DefaultBitrate \in Nat /\ BitrateStep \in Nat
    /\ MinBitrate <= MaxBitrate

\* current - step, which the code takes below zero before it clamps
SubFloor(a, b) == IF a >= b THEN a - b ELSE 0

AboveHigh(used, ideal) ==
    IF ideal = 0 THEN Unit > HighWatermark ELSE used * Unit > HighWatermark * ideal

BelowLow(used, ideal) ==
    IF ideal = 0 THEN Unit < LowWatermark ELSE used * Unit < LowWatermark * ideal

\* Mutant: the result is not clamped to the policy's range.
UnclampedRedundancy(current, ideal, used) ==
    IF Adaptive /\ AboveHigh(used, ideal) THEN current + IncreaseStep
    ELSE IF Adaptive /\ BelowLow(used, ideal) THEN SubFloor(current, DecreaseStep)
    ELSE current

adjust_redundancy(current, ideal, used) ==
    IF ~Adaptive THEN current
    ELSE IF AboveHigh(used, ideal)
         THEN Clamp(current + IncreaseStep, MinPolicy, MaxPolicy)
    ELSE IF BelowLow(used, ideal)
         THEN Clamp(SubFloor(current, DecreaseStep), MinPolicy, MaxPolicy)
    ELSE Clamp(current, MinPolicy, MaxPolicy)

adjust_redundancy_with_telemetry(current, loss_ppm, jitter_us) ==
    IF loss_ppm >= 150000 \/ jitter_us >= 20000
    THEN adjust_redundancy(current, 100, 150)
    ELSE IF loss_ppm <= 20000 /\ jitter_us <= 5000
    THEN adjust_redundancy(current, 100, 100)
    ELSE adjust_redundancy(current, 100, 110)

clamp_video_bitrate(b) == Clamp(b, MinBitrate, MaxBitrate)

\* The bitrates apply_aimd_bitrate can answer for a loss ratio lost/expected:
\* above 2% a decrease to 80% (f32 rounds to either neighbour), without loss
\* one step up, otherwise no change.
apply_aimd_bitrate(current, lost, expected) ==
    IF lost * 100 > expected * 2
    THEN {clamp_video_bitrate(b) : b \in {(current * 4) \div 5, CeilDiv(current * 4, 5)}}
    ELSE IF lost = 0 THEN {clamp_video_bitrate(current + BitrateStep)}
    ELSE {clamp_video_bitrate(current)}
================================================================================
