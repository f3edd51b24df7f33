---------------------------- MODULE WirehairTools ----------------------------
(***************************************************************************)
(* Pure helpers of the Wirehair codec: WirehairTools.h and .cpp.  Integer  *)
(* root and next prime, the PCG generator, the card deck, the column       *)
(* iterators that turn a row seed into matrix columns, and the tables that *)
(* give every block count its dense row count and its seeds.               *)
(*                                                                         *)
(* A 64-bit word is the tuple of its eight bytes and a 32-bit value the    *)
(* tuple of its four bytes, low byte first, because TLC's integers are     *)
(* signed 32-bit.  Nothing here is RECURSIVE.                              *)
(***************************************************************************)
EXTENDS Integers, Sequences, FiniteSets

(* The block counts that the codec accepts *)
CAT_WIREHAIR_MIN_N == 2
CAT_WIREHAIR_MAX_N == 64000

MinOf(S) == CHOOSE x \in S : \A y \in S : x <= y

-----------------------------------------------------------------------------
(* Integer square root and next prime *)

kSquareRootTable == <<
    0, 16, 16, 16, 32, 32, 32, 32, 32, 48, 48, 48, 48, 48, 48, 48, 64, 64,
    64, 64, 64, 64, 64, 64, 64, 80, 80, 80, 80, 80, 80, 80, 80, 80, 80, 80,
    96, 96, 96, 96, 96, 96, 96, 96, 96, 96, 96, 96, 96, 112, 112, 112, 112,
    112, 112, 112, 112, 112, 112, 112, 112, 112, 112, 112, 128, 129, 130,
    131, 132, 133, 134, 135, 136, 137, 138, 139, 140, 141, 142, 143, 143,
    144, 145, 146, 147, 148, 149, 150, 150, 151, 152, 153, 154, 155, 155,
    156, 157, 158, 159, 159, 160, 161, 162, 163, 163, 164, 165, 166, 167,
    167, 168, 169, 170, 170, 171, 172, 173, 173, 174, 175, 175, 176, 177,
    178, 178, 179, 180, 181, 181, 182, 183, 183, 184, 185, 185, 186, 187,
    187, 188, 189, 189, 190, 191, 191, 192, 193, 193, 194, 195, 195, 196,
    197, 197, 198, 199, 199, 200, 201, 201, 202, 203, 203, 204, 204, 205,
    206, 206, 207, 207, 208, 209, 209, 210, 211, 211, 212, 212, 213, 214,
    214, 215, 215, 216, 217, 217, 218, 218, 219, 219, 220, 221, 221, 222,
    222, 223, 223, 224, 225, 225, 226, 226, 227, 227, 228, 229, 229, 230,
    230, 231, 231, 232, 232, 233, 234, 234, 235, 235, 236, 236, 237, 237,
    238, 238, 239, 239, 240, 241, 241, 242, 242, 243, 243, 244, 244, 245,
    245, 246, 246, 247, 247, 248, 248, 249, 249, 250, 250, 251, 251, 252,
    252, 253, 253, 254, 254, 255, 255 >>

Log2Floor(x) == CHOOSE i \in 0..15 : 2^i <= x /\ x < 2^(i+1)

RootBelow(x) ==
  LET nonzeroBits == IF x < 256 THEN 6 ELSE Log2Floor(x)
      r == kSquareRootTable[x \div 2^(((nonzeroBits - 6) \div 2) * 2) + 1]
           \div 2^((15 - nonzeroBits) \div 2)
  IN IF r * r >= x THEN r - 1 ELSE r

FloorSquareRoot16(x) ==
  LET nonzeroBits == IF x < 256 THEN 6 ELSE Log2Floor(x)
      tableShift  == ((nonzeroBits - 6) \div 2) * 2
      resultShift == (15 - nonzeroBits) \div 2
      r == kSquareRootTable[x \div 2^tableShift + 1] \div 2^resultShift
  IN IF r * r > x THEN r - 1 ELSE r

kSieveTableSize == 2 * 3 * 5 * 7

(* Distance from an offset to the next number without the factors 2, 3, 5, 7. *)
kSieveTable == [o \in 0..(kSieveTableSize - 1) |->
                  MinOf({d \in 0..9 : \A p \in {2, 3, 5, 7} : (o + d) % p # 0})]

kPrimesUnder256From11 == <<
    11, 13, 17, 19, 23, 29, 31, 37, 41, 43, 47, 53, 59, 61, 67, 71, 73, 79,
    83, 89, 97, 101, 103, 107, 109, 113, 127, 131, 137, 139, 149, 151, 157,
    163, 167, 173, 179, 181, 191, 193, 197, 199, 211, 223, 227, 229, 233,
    239, 241, 251 >>

Attempts == [n : Nat, offset : Nat, pMax : Nat]

(* The TryNext loop: s.n is tried against the primes up to s.pMax, and when *)
(* one divides it the sieve names the next candidate.                       *)
TryPrime[s \in Attempts] ==
  IF \A i \in 1..50 : LET p == kPrimesUnder256From11[i]
                      IN p <= s.pMax => s.n % p # 0
  THEN s.n
  ELSE LET offset == IF s.offset >= kSieveTableSize THEN s.offset - kSieveTableSize
                                                    ELSE s.offset
           next == kSieveTable[offset]
           n    == (s.n + next + 1) % 65536
       IN TryPrime[[n |-> n, offset |-> offset + next + 1,
                    pMax |-> IF s.pMax * s.pMax < n THEN s.pMax + 1 ELSE s.pMax]]

NextPrime16(n) ==
  CASE n \in {0, 1} -> 1
    [] n \in {2, 3} -> n
    [] n \in {4, 5} -> 5
    [] n \in {6, 7} -> 7
    [] n > 65521    -> 0
    [] OTHER -> LET next == kSieveTable[n % kSieveTableSize]
                IN TryPrime[[n |-> n + next,
                             offset |-> (n % kSieveTableSize) + next + 1,
                             pMax |-> FloorSquareRoot16(n + next)]]

-----------------------------------------------------------------------------
(* PCGRandom *)

(* 6364136223846793005, low byte first *)
kPcgMultiplier == <<45, 127, 149, 76, 45, 244, 81, 88>>

(* term[1] + ... + term[n], and the number whose binary digits are bit[1] to bit[n]. *)
SumOf(term, n) == LET sum[i \in 0..n] == IF i = 0 THEN 0 ELSE sum[i-1] + term[i] IN sum[n]
Binary(bit, n) == LET val[i \in 0..n] == IF i = 0 THEN 0 ELSE 2 * val[i-1] + bit[i] IN val[n]

Word64(n) ==
  LET above(m) == m \div 256
  IN <<n % 256, above(n) % 256, above(above(n)) % 256, above(above(above(n))), 0, 0, 0, 0>>

(* a * b + c modulo 2^64 *)
MulAdd64(a, b, c) ==
  LET column[i \in 0..8] ==
        IF i = 0 THEN 0
        ELSE column[i-1] \div 256 + c[i]
             + SumOf([j \in 1..i |-> a[j] * b[i+1-j]], i)
  IN [i \in 1..8 |-> column[i] % 256] \o <<>>

PowersOf2 == <<1, 2, 4, 8, 16, 32, 64, 128>>
BitOf(word, i) == (word[i \div 8 + 1] \div PowersOf2[(i % 8) + 1]) % 2

PcgStep(g) == [g EXCEPT !.state = MulAdd64(@, kPcgMultiplier, g.inc)]

(* The 32-bit value that Next() returns for the state before the step. *)
PcgOutput(g) ==
  LET rot == Binary([i \in 1..5 |-> BitOf(g.state, 64 - i)], 5)
      xorshifted(i) == (BitOf(g.state, i + 27)
                        + IF i + 45 < 64 THEN BitOf(g.state, i + 45) ELSE 0) % 2
  IN [k \in 1..4 |-> Binary([i \in 1..8 |-> xorshifted((8 * k - i + rot) % 32)], 8)] \o <<>>

(* Seed(y, x): the increment is 2y + 1, the state starts at 0 and x is added *)
(* between the first two steps.  Both seeds are below 2^30 in this codec.    *)
PcgSeed(y, x) ==
  LET g0 == PcgStep([state |-> Word64(0), inc |-> Word64(2 * y + 1)])
  IN PcgStep([g0 EXCEPT !.state = MulAdd64(@, Word64(1), Word64(x))])

Low16(rv)  == rv[1] + 256 * rv[2]
High16(rv) == rv[3] + 256 * rv[4]

-----------------------------------------------------------------------------
(* ShuffleDeck16 *)

(* Card ii goes where a random earlier card lies, and that card moves to ii. *)
DealOnTop(deck, r) ==
  LET ii == Len(deck)
      jj == r % ii
  IN [Append(deck, ii) EXCEPT ![jj + 1] = ii]

DealCard(deck, r) ==
  LET ii == Len(deck)
      jj == r % ii
  IN [Append(deck, deck[jj + 1]) EXCEPT ![jj + 1] = ii]

(* A draw gives four 8-bit picks, or two 16-bit ones above 256 cards. *)
Picks(rv, small) == IF small THEN rv ELSE <<Low16(rv), High16(rv)>>

(* The last draw falls through the switch: with three cards left it uses      *)
(* bytes 0, 1, 2, with two left bytes 1, 2, with one left byte 2.              *)
LastPicks(picks, left) ==
  IF Len(picks) = 4 THEN SubSeq(picks, 4 - left, 3) ELSE SubSeq(picks, 1, left)

(* One turn deals up to four cards. *)
DealCards(deck, picks) ==
  LET one   == DealCard(deck, picks[1])
      two   == DealCard(one, picks[2])
      three == DealCard(two, picks[3])
      four  == DealCard(three, picks[4])
  IN CASE Len(picks) = 0 -> deck
       [] Len(picks) = 1 -> one
       [] Len(picks) = 2 -> two
       [] Len(picks) = 3 -> three
       [] Len(picks) = 4 -> four

(* The last turn deals the cards that are left after whole turns, maybe none. *)
ShuffleDeck16(prng, count) ==
  LET small == count <= 256
      per   == IF small THEN 4 ELSE 2
      left  == (count - 1) % per
      turns == (count - 1) \div per + 1
      dealt[turn \in 0..turns] ==
        IF turn = 0 THEN [prng |-> prng, deck |-> <<0>>]
        ELSE LET s     == dealt[turn - 1]
                 picks == Picks(PcgOutput(s.prng), small)
             IN [prng |-> PcgStep(s.prng),
                 deck |-> DealCards(s.deck, IF turn = turns THEN LastPicks(picks, left)
                                                            ELSE picks)]
  IN dealt[turns]

-----------------------------------------------------------------------------
(* AddInvertibleGF2Matrix *)

(* The first 65 seeds; larger matrices belong to larger tables. *)
kInvertibleMatrixSeeds == <<
    0, 1, 4, 2, 0, 12, 0, 1, 1, 0, 2, 2, 1, 4, 1, 1, 1, 9, 9, 1, 0, 0, 0, 0,
    2, 2, 2, 4, 3, 4, 1, 1, 0, 0, 0, 0, 7, 1, 6, 2, 5, 1, 0, 4, 0, 0, 10, 0,
    11, 3, 3, 2, 10, 0, 0, 0, 0, 0, 0, 1, 0, 0, 1, 6, 4 >>

kMatrixSeedCount == 512

(* Row i as the set of columns it flips, counted from the offset.  Below 512 *)
(* each row takes one 64-bit draw (two Next() calls) for every 64 columns,   *)
(* shifted into place; above, the matrix is two diagonals.                   *)
InvertibleRows(n) ==
  IF n >= kMatrixSeedCount
  THEN [i \in 0..(n-1) |-> {i} \cup {j \in {i + 1} : j < n}]
  ELSE LET halves == 2 * ((n + 63) \div 64)
           start  == PcgSeed(kInvertibleMatrixSeeds[n + 1], 0)
           gen[k \in 0..(n * halves)] == IF k = 0 THEN start ELSE PcgStep(gen[k-1])
           row(i) == LET draws == [h \in 0..(halves-1) |-> PcgOutput(gen[i * halves + h])]
                     IN {c \in 0..(n-1) : BitOf(draws[c \div 32], c % 32) = 1}
       IN [i \in 0..(n-1) |-> row(i)]

-----------------------------------------------------------------------------
(* Row parameters and column iterators *)

kMaxNForWeight1 == 2048

(* Pairs of the high and the low half of each 32-bit entry *)
kPeelCountDistribution == <<
    <<0,0>>, <<32767,65535>>, <<43690,43689>>, <<49151,65535>>,
    <<52428,52427>>, <<54613,21844>>, <<56173,46810>>, <<57343,65535>>,
    <<58254,14562>>, <<58982,26213>>, <<59578,11914>>, <<60074,43689>>,
    <<60494,50411>>, <<60854,56172>>, <<61166,61165>>, <<61439,65535>>,
    <<61680,61679>>, <<61895,7280>>, <<62086,48288>>, <<62259,13106>>,
    <<62415,15602>>, <<62557,5956>>, <<62686,39890>>, <<62805,21844>>,
    <<62914,36699>>, <<63015,25205>>, <<63108,48544>>, <<63195,28085>>,
    <<63276,9038>>, <<63351,30582>>, <<63421,61306>>, <<63487,65535>>,
    <<63550,3970>>, <<63608,30839>>, <<63663,35575>>, <<63715,36407>>,
    <<63764,49593>>, <<63811,24143>>, <<63855,38648>>, <<63897,39320>>,
    <<63937,36763>>, <<63975,40568>>, <<64011,59438>>, <<64046,35745>>,
    <<64079,42233>>, <<64111,19944>>, <<64141,40436>>, <<64170,43689>>,
    <<64198,34773>>, <<64225,18349>>, <<64250,64249>>, <<64275,45370>>,
    <<64299,30912>>, <<64322,24271>>, <<64344,28596>>, <<64365,46810>>,
    <<64386,16095>>, <<64406,4518>>, <<64425,14439>>, <<64443,48058>>,
    <<64461,41899>>, <<64478,63420>>, <<64495,48890>>, <<65535,65535>> >>

LessEq32(a, b) == a[1] < b[1] \/ (a[1] = b[1] /\ a[2] <= b[2])
Minus32(a, b)  == IF a[2] >= b[2] THEN <<a[1] - b[1], a[2] - b[2]>>
                                  ELSE <<a[1] - b[1] - 1, a[2] - b[2] + 65536>>

(* floor((1/128) * 0xffffffff) *)
P1 == <<511, 65535>>

(* Weight 1 with probability 1/128 below 2048 blocks, else the first entry of *)
(* the table that is not below the (rescaled) random value.                   *)
GeneratePeelRowWeight(rv, block_count) ==
  LET weight(v) == MinOf({w \in 2..64 : LessEq32(v, kPeelCountDistribution[w])})
  IN IF block_count > kMaxNForWeight1 THEN weight(rv)
     ELSE IF LessEq32(P1, rv) THEN weight(Minus32(rv, P1)) ELSE 1

AtMost(limit, x) == IF x > limit THEN limit ELSE x

(* PeelRowParameters::Initialize, from the generator's first three draws *)
RowParameters(rv, peel_column_count, mix_column_count) ==
  [PeelCount |-> AtMost(peel_column_count \div 2,
                        GeneratePeelRowWeight(<<High16(rv[1]), Low16(rv[1])>>,
                                              peel_column_count)),
   PeelAdd   |-> (Low16(rv[2]) % (peel_column_count - 1)) + 1,
   PeelFirst |-> High16(rv[2]) % peel_column_count,
   MixAdd    |-> (Low16(rv[3]) % (mix_column_count - 1)) + 1,
   MixFirst  |-> High16(rv[3]) % mix_column_count]

PeelRowParameters(row_seed, p_seed, peel_column_count, mix_column_count) ==
  LET first  == PcgSeed(row_seed, p_seed)
      second == PcgStep(first)
      third  == PcgStep(second)
  IN RowParameters(<<PcgOutput(first), PcgOutput(second), PcgOutput(third)>>,
                   peel_column_count, mix_column_count)

(* One step of the Weyl generator over [0, p), skipping what falls in [b, p): *)
(* adding a once more wraps around, or the column is the residue modulo a.    *)
(* (a * 65536 - d) modulo a is -d modulo a.                                    *)
StepTwiceOnly(x, b, p, a) == LET y == (x + a) % p IN IF y < b THEN y ELSE (y + a) % p

IterateNextColumn(x, b, p, a) ==
  LET y == (x + a) % p
      distanceToP == p - y
  IN IF y < b THEN y
     ELSE IF a >= distanceToP THEN a - distanceToP
     ELSE (-distanceToP) % a

(* The columns an iterator visits, in order. *)
IteratedColumns(first, count, b, p, a) ==
  LET col[i \in 1..count] == IF i = 1 THEN first ELSE IterateNextColumn(col[i-1], b, p, a)
  IN [i \in 1..count |-> col[i]]

(* PeelRowIterator: the peel columns of a row. *)
PeelColumnsOf(params, columnCount, nextPrime) ==
  IteratedColumns(params.PeelFirst, params.PeelCount, columnCount, nextPrime, params.PeelAdd)

kMixColumnCount == 3

(* RowMixIterator: the three mixing columns of a row. *)
MixColumnsOf(params, columnCount, nextPrime) ==
  IteratedColumns(params.MixFirst, kMixColumnCount, columnCount, nextPrime, params.MixAdd)

-----------------------------------------------------------------------------
(* Dense row counts and seeds *)

kTinyTableCount  == 65
kSmallTableCount == 2048 - kTinyTableCount

kTinyDenseCounts == <<
    0, 0, 2, 3, 3, 5, 6, 6, 6, 7, 9, 10, 10, 10, 12, 14, 13, 14, 12, 12, 15,
    16, 21, 14, 14, 13, 18, 21, 22, 21, 13, 22, 13, 24, 14, 17, 16, 24, 30,
    26, 24, 18, 15, 15, 24, 18, 21, 17, 14, 16, 21, 18, 17, 22, 25, 20, 17,
    18, 21, 18, 23, 20, 19, 23, 19 >>

kTinyDenseSeeds == <<
    0, 0, 12678, 31247, 24246, 6830, 10311, 18975, 46844, 888, 38598, 63780,
    12170, 24444, 55961, 13141, 53472, 55486, 28496, 27214, 49117, 60737,
    62051, 59811, 3052, 33624, 35793, 8210, 32674, 36155, 10819, 52727, 9692,
    26215, 33106, 34092, 18779, 61056, 4502, 7786, 36397, 53163, 36617,
    16009, 60476, 31637, 38086, 32027, 968, 59896, 27819, 10193, 64755,
    41508, 44381, 41571, 52121, 23594, 313, 38382, 48549, 44868, 43789, 8396,
    1902 >>

(* The first 65 of 2048 entries. *)
kSmallPeelSeeds == <<
    0, 0, 0, 11, 1, 0, 0, 0, 1, 0, 0, 0, 5, 1, 0, 0, 4, 11, 0, 0, 0, 3, 0, 1,
    7, 2, 3, 12, 11, 9, 2, 3, 0, 3, 1, 9, 21, 46, 5, 8, 27, 4, 37, 37, 69, 5,
    180, 8, 30, 201, 21, 23, 12, 59, 151, 77, 214, 216, 221, 46, 23, 89, 39,
    11, 46 >>

kDensePoints == <<
    <<2048,52>>, <<2618,54>>, <<2826,60>>, <<3725,62>>, <<3962,67>>,
    <<4277,65>>, <<4547,60>>, <<5065,64>>, <<5224,76>>, <<5642,66>>,
    <<5909,71>>, <<6285,76>>, <<6583,66>>, <<6895,72>>, <<7448,69>>,
    <<7682,76>>, <<8046,78>>, <<8558,76>>, <<8963,73>>, <<9389,81>>,
    <<10143,86>>, <<11129,94>>, <<12593,99>>, <<12988,105>>, <<14032,108>>,
    <<14473,114>>, <<15397,110>>, <<16636,113>>, <<17698,118>>,
    <<18828,123>>, <<19420,127>>, <<20343,136>>, <<21979,139>>,
    <<23024,150>>, <<24119,156>>, <<25659,162>>, <<27298,173>>,
    <<29042,176>>, <<30898,183>>, <<31870,190>>, <<33906,200>>,
    <<35519,211>>, <<37208,220>>, <<38978,234>>, <<40205,253>>,
    <<42776,297>>, <<44122,320>>, <<45511,336>>, <<46944,357>>,
    <<48421,373>>, <<49177,376>>, <<50725,380>>, <<52321,391>>,
    <<53968,388>>, <<54811,382>>, <<54811,382>>, <<55667,372>>,
    <<57419,362>>, <<58316,356>>, <<60152,347>>, <<61091,337>>,
    <<62045,334>>, <<63014,340>>, <<64000,345>> >>

(* C's division truncates towards zero: the quotient falls when Count1 < Count0. *)
LinearInterpolate(N0, N1, Count0, Count1, N) ==
  LET d == Count1 - Count0
  IN IF d >= 0 THEN Count0 + ((N - N0) * d) \div (N1 - N0)
     ELSE Count0 - ((N - N0) * (-d)) \div (N1 - N0)

(* The binary search over the points: the index, from 0, of the left one. *)
DensePointBelow(N) ==
  LET search[low \in 0..63, high \in 0..63] ==
        LET mid == (high + low) \div 2
        IN IF mid = low THEN low
           ELSE IF N > kDensePoints[mid + 1][1] THEN search[mid, high]
           ELSE search[low, mid]
  IN search[0, 63]

RoundToEven(d) == d + (d % 2)

RoundToTwoMod4(d) ==
  d + CASE d % 4 = 0 -> 2 [] d % 4 = 1 -> 1 [] d % 4 = 2 -> 0 [] d % 4 = 3 -> 3

GetDenseCount(N) ==
  IF N < kTinyTableCount THEN kTinyDenseCounts[N + 1]
  ELSE LET low == DensePointBelow(N)
           ends == CASE N <= 500  -> <<64, 500, 26, 35>>
                     [] N > 500 /\ N <= 1000 -> <<500, 1000, 35, 48>>
                     [] N > 1000 /\ N < kTinyTableCount + kSmallTableCount
                                  -> <<1000, 2048, 48, 62>>
                     [] OTHER -> <<kDensePoints[low + 1][1], kDensePoints[low + 2][1],
                                   kDensePoints[low + 1][2], kDensePoints[low + 2][2]>>
       IN RoundToTwoMod4(LinearInterpolate(ends[1], ends[2], ends[3], ends[4], N))

kDenseSeedCount == 100

(* Which table and which entry hold the dense seed. *)
DenseSeedSlot(N, dense_count) ==
  IF N < kTinyTableCount THEN [table |-> "tiny", index |-> N]
  ELSE IF N < kTinyTableCount + kSmallTableCount
  THEN [table |-> "small", index |-> N - kTinyTableCount]
  ELSE [table |-> "dense", index |-> dense_count \div 4]

PeelSeedSlot(N) ==
  IF N < kTinyTableCount + kSmallTableCount THEN [table |-> "small", index |-> N]
  ELSE [table |-> "peel", index |-> N % 2048]

(* The seeds of the block counts the tables above hold. *)
GetDenseSeed(N) == kTinyDenseSeeds[N + 1]
GetPeelSeed(N)  == kSmallPeelSeeds[N + 1]

-----------------------------------------------------------------------------
(* SIMD-safe memory: what SIMDSafeAllocate returns for a block at an address, *)
(* the byte it leaves before it, and the address SIMDSafeFree gives back.      *)
SIMDSafeAllocate(address, align) ==
  LET offset == address % align
  IN [data |-> address + align - offset, mark |-> offset]

FreeFromMark(ptr, mark, align) == IF mark >= align THEN -1 ELSE ptr - mark
SIMDSafeFree(ptr, mark, align) == IF mark >= align THEN -1 ELSE ptr - (align - mark)

=============================================================================
