------------------------------ MODULE MCCodec ------------------------------
(* Codec for TLC: all orders of some blocks of short messages, and two     *)
(* deliveries of a message of 38 blocks that is long enough for windows.   *)
EXTENDS Codec

Each(S, times) == [k \in 1..times |-> S]
OneByOne(ids)  == [k \in 1..Len(ids) |-> {ids[k]}]

Scenario(n, blockBytes, final, plan) ==
  [messageBytes |-> (n - 1) * blockBytes + final, blockBytes |-> blockBytes, plan |-> plan]

(* 38 blocks: the first order lacks a heavy pivot, the second a light one. *)
HeavyGap == OneByOne(<<66, 85, 69, 16, 15, 81, 64, 42, 51, 35, 71, 57, 61, 31, 17, 6, 87, 39,
                       21, 80, 32, 7, 29, 73, 86, 3, 54, 18, 63, 56, 72, 43, 77, 33, 13, 4,
                       67, 24, 37>>)
LightGap == OneByOne(<<78, 42, 57, 29, 63, 44, 47, 69, 72, 33, 38, 49, 12, 71, 20, 48, 82, 43,
                       87, 10, 8, 36, 73, 5, 24, 80, 70, 64, 31, 9, 84, 39, 4, 58, 6, 83, 28,
                       25, 50, 23>>)

MCScenarios ==
  { Scenario(1, 5, 4, <<>>),
    Scenario(2, 3, 2, Each({0, 1, 5, 10, 15}, 5)),
    Scenario(3, 3, 3, Each({0, 2, 4, 9, 12, 17}, 4) \o Each({9, 13}, 2)),
    Scenario(4, 5, 4, Each({0, 3, 11, 18}, 1) \o Each({3, 6, 11, 13, 18}, 3)
                      \o Each({11, 14, 19}, 2)),
    Scenario(4, 5, 4, OneByOne(<<2, 1, 3, 0>>)),
    Scenario(38, 2, 1, HeavyGap), Scenario(38, 2, 2, LightGap) }

MCUnderThresh == [w \in 4..7 |-> CASE w = 4 -> 22 [] w = 5 -> 28 [] w = 6 -> 91 [] w = 7 -> 145]
MCAboveThresh == [w \in 4..7 |-> CASE w = 4 -> 10 [] w = 5 -> 20 [] w = 6 -> 70 [] w = 7 -> 135]
=============================================================================
