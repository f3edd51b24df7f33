----------------------------- MODULE HelperProofs -----------------------------
(***************************************************************************)
(* The helpers for every input the codec can give them.                    *)
(***************************************************************************)
EXTENDS Helpers, KernelProofs, ToolsProofs, StartupProofs

-----------------------------------------------------------------------------
(* Kernels and memory *)

\* A request that is being answered is one of the constant's.
LEMMA RequestFields ==
    ASSUME StartupInv, request.kind \in {"kernel", "row", "deck", "memory"}
    PROVE  request \in Requests /\ request.size \in Nat /\ platform \in Platforms
  <1>1. request \in Requests
    BY DEF StartupInv, TypeOK, Idle
  <1> QED  BY <1>1, StartupAssumption DEF StartupInv, TypeOK

\* On each of the build's processors and for each length, the bulk operations touch
\* every byte of the buffer once and none past its end.
THEOREM KernelsAlwaysCover == Spec => []KernelsCoverBuffer
  <1>1. StartupInv => KernelsCoverBuffer
    <2> SUFFICES ASSUME StartupInv, request.kind = "kernel",
                        NEW pieces \in BulkOperations(platform.cpu, request.size)
                 PROVE  Covers(pieces, 0, request.size)
      BY DEF KernelsCoverBuffer
    <2>1. request.size \in Nat /\ platform \in Platforms
      BY RequestFields
    <2>2. platform.cpu \in Variants
      BY <2>1, CpuAssumption
    <2> QED  BY <2>1, <2>2, KernelsCover
  <1> QED  BY <1>1, StartupInvariant, PTL

\* Whatever address calloc returns, SIMDSafeFree gives the same one back, and the block
\* it was handed out as starts at an aligned address behind the byte that remembers it.
THEOREM MemoryAlwaysGivenBack == Spec => []MemoryIsGivenBack
  <1>1. StartupInv => MemoryIsGivenBack
    <2> SUFFICES ASSUME StartupInv, request.kind = "memory", NEW align \in {16, 32}
                 PROVE  LET block == SIMDSafeAllocate(request.size, align)
                        IN /\ block.data % align = 0
                           /\ request.size < block.data /\ block.data <= request.size + align
                           /\ SIMDSafeFree(block.data, block.mark, align) = request.size
      BY DEF MemoryIsGivenBack
    <2> DEFINE a == request.size
               block == SIMDSafeAllocate(a, align)
    <2>1. a \in Nat
      BY RequestFields
    <2>2. block.data = a + align - (a % align) /\ block.mark = a % align
      BY DEF SIMDSafeAllocate
    <2> HIDE DEF a, block
    <2>3. a % align \in Nat /\ a % align < align /\ a % align <= a
      BY <2>1
    <2>4. block.data % align = 0
      BY <2>1, <2>2
    <2>5. a < block.data /\ block.data <= a + align
      BY <2>1, <2>2, <2>3
    <2>6. SIMDSafeFree(block.data, block.mark, align) = a
      BY <2>1, <2>2, <2>3 DEF SIMDSafeFree
    <2> QED  BY <2>4, <2>5, <2>6 DEF a, block
  <1> QED  BY <1>1, StartupInvariant, PTL
-----------------------------------------------------------------------------
(* Rows *)

\* NextPrime16 does its work for every block count: NextPrimeIsLeast of each request for a
\* hundred block counts, for all of them together.
PrimesFound == \A n \in BlockCountsAccepted : PrimeFound(n)

\* What NextPrime16 returns for a block count is a walk's modulus.
LEMMA PrimeIsWalk ==
    ASSUME PrimesFound, NEW n \in BlockCountsAccepted, NEW add \in 1..(n - 1)
    PROVE  RowWalk(n, NextPrime16(n), add) /\ n \in Nat
  <1> DEFINE p == NextPrime16(n)
             last == CAT_WIREHAIR_MAX_N
  <1>1. n \in Nat
    <2>1. BlockCountsAccepted = 2..last
      BY DEF BlockCountsAccepted, CAT_WIREHAIR_MIN_N
    <2>2. last \in Int
      BY DEF CAT_WIREHAIR_MAX_N
    <2> HIDE DEF last
    <2> QED  BY <2>1, <2>2
  <1>2. p \in SmallPrimes /\ n <= p
    BY DEF PrimesFound, PrimeFound
  <1>3. p \in Nat
    <2> HIDE DEF p
    <2>1. LastDivisor \in Nat
      BY DEF LastDivisor
    <2> HIDE DEF LastDivisor
    <2> QED  BY <1>2, <2>1 DEF SmallPrimes
  <1> HIDE DEF p
  <1> QED  BY <1>1, <1>2, <1>3 DEF RowWalk, p

\* The columns that the iterators of a row visit are different and lie in the matrix,
\* wherever the row starts and whatever it adds, because the next prime is prime.
THEOREM RowColumnsAlwaysDistinct ==
    ASSUME PrimesFound
    PROVE  Spec => []RowColumnsDistinct
  <1>1. StartupInv => RowColumnsDistinct
    <2> SUFFICES ASSUME StartupInv, request.kind = "row",
                        NEW add \in 1..(request.size - 1), NEW first \in 0..(request.size - 1)
                 PROVE  LET n == request.size
                            columns == IteratedColumns(first, n, n, NextPrime16(n), add)
                        IN Distinct(columns) /\ \A i \in DOMAIN columns : columns[i] \in 0..(n - 1)
      BY DEF RowColumnsDistinct
    <2> DEFINE n == request.size
               p == NextPrime16(n)
               columns == IteratedColumns(first, n, n, p, add)
    <2>1. n \in BlockCountsAccepted
      BY RequestFields, RowAssumption
    <2>2. RowWalk(n, p, add) /\ n \in Nat
      BY <2>1, PrimeIsWalk
    <2> HIDE DEF p
    <2>3. n \in 1..n /\ first \in 0..(n - 1)
      BY <2>2 DEF RowWalk
    <2> HIDE DEF n
    <2>4. columns \in [1..n -> 0..(n - 1)] /\ Distinct(columns)
      BY <2>2, <2>3, ColumnsDistinct
    <2> QED  BY <2>4 DEF n, p
  <1> QED  BY <1>1, StartupInvariant, PTL

\* The draws of a row give it an addend and a start in range, and one peel column at least.
LEMMA ParametersInRange ==
    ASSUME NEW n \in BlockCountsAccepted, NEW mix \in BlockCountsAccepted,
           NEW row_seed \in Nat, NEW p_seed \in Nat
    PROVE  LET params == PeelRowParameters(row_seed, p_seed, n, mix)
           IN /\ params.PeelCount \in 1..n
              /\ params.PeelAdd \in 1..(n - 1) /\ params.PeelFirst \in 0..(n - 1)
              /\ params.MixAdd \in 1..(mix - 1) /\ params.MixFirst \in 0..(mix - 1)
  <1> DEFINE first  == PcgSeed(row_seed, p_seed)
             second == PcgStep(first)
             third  == PcgStep(second)
             rv     == <<PcgOutput(first), PcgOutput(second), PcgOutput(third)>>
             params == PeelRowParameters(row_seed, p_seed, n, mix)
  <1>1. params = RowParameters(rv, n, mix)
    BY DEF PeelRowParameters
  <1>2. first \in Generators
    BY SeedIsGenerator
  <1> HIDE DEF first
  <1>3. second \in Generators
    BY <1>2, StepIsGenerator
  <1> HIDE DEF second
  <1>4. third \in Generators
    BY <1>3, StepIsGenerator
  <1> HIDE DEF third
  <1>5. /\ rv[1] = PcgOutput(first) /\ rv[2] = PcgOutput(second) /\ rv[3] = PcgOutput(third)
    OBVIOUS
  <1> HIDE DEF rv
  <1>6. High16(rv[1]) \in Nat /\ Low16(rv[1]) \in Nat /\ High16(rv[1]) <= Top /\ Low16(rv[1]) <= Top
    BY <1>2, <1>5, HalvesAreSmall
  <1>7. High16(rv[2]) \in Nat /\ Low16(rv[2]) \in Nat
    BY <1>3, <1>5, HalvesAreSmall
  <1>8. High16(rv[3]) \in Nat /\ Low16(rv[3]) \in Nat
    BY <1>4, <1>5, HalvesAreSmall
  <1>9. n \in Nat /\ n >= 2 /\ mix \in Nat /\ mix >= 2
    <2> DEFINE last == CAT_WIREHAIR_MAX_N
    <2>1. BlockCountsAccepted = 2..last
      BY DEF BlockCountsAccepted, CAT_WIREHAIR_MIN_N
    <2>2. last \in Int
      BY DEF CAT_WIREHAIR_MAX_N
    <2> HIDE DEF last
    <2> QED  BY <2>1, <2>2
  <1> DEFINE weight == GeneratePeelRowWeight(<<High16(rv[1]), Low16(rv[1])>>, n)
  <1>10. weight \in 1..64
    BY <1>6, <1>9, WeightIsPositive
  <1>11. /\ params.PeelCount = AtMost(n \div 2, weight)
         /\ params.PeelAdd = (Low16(rv[2]) % (n - 1)) + 1
         /\ params.PeelFirst = High16(rv[2]) % n
         /\ params.MixAdd = (Low16(rv[3]) % (mix - 1)) + 1
         /\ params.MixFirst = High16(rv[3]) % mix
    BY <1>1 DEF RowParameters
  <1> HIDE DEF weight, params
  <1>12. params.PeelCount \in 1..n
    <2>1. n \div 2 \in 1..n
      BY <1>9
    <2> QED  BY <1>9, <1>10, <1>11, <2>1 DEF AtMost
  <1>13. \A x \in Nat, k \in Nat : k >= 2 => x % k \in 0..(k - 1) /\ (x % (k - 1)) + 1 \in 1..(k - 1)
    OBVIOUS
  <1>14. params.PeelAdd \in 1..(n - 1) /\ params.PeelFirst \in 0..(n - 1)
    BY <1>7, <1>9, <1>11, <1>13
  <1>15. params.MixAdd \in 1..(mix - 1) /\ params.MixFirst \in 0..(mix - 1)
    BY <1>8, <1>9, <1>11, <1>13
  <1> QED  BY <1>12, <1>14, <1>15 DEF params

\* Every row, from whatever seeds, is a row as the peeler's assumption has it: it names one
\* column at least and no column twice, and its three mixing columns are different.
THEOREM RowsNameDifferentColumns ==
    ASSUME PrimesFound, NEW n \in BlockCountsAccepted, NEW mix \in BlockCountsAccepted,
           mix >= kMixColumnCount, NEW row_seed \in Nat, NEW p_seed \in Nat
    PROVE  LET params == PeelRowParameters(row_seed, p_seed, n, mix)
               peeled == PeelColumnsOf(params, n, NextPrime16(n))
               mixed  == MixColumnsOf(params, mix, NextPrime16(mix))
           IN /\ peeled \in Seq(0..(n - 1)) /\ Len(peeled) >= 1 /\ Distinct(peeled)
              /\ mixed \in [1..kMixColumnCount -> 0..(mix - 1)] /\ Distinct(mixed)
  <1> DEFINE params == PeelRowParameters(row_seed, p_seed, n, mix)
             peeled == PeelColumnsOf(params, n, NextPrime16(n))
             mixed  == MixColumnsOf(params, mix, NextPrime16(mix))
  <1>1. /\ params.PeelCount \in 1..n
        /\ params.PeelAdd \in 1..(n - 1) /\ params.PeelFirst \in 0..(n - 1)
        /\ params.MixAdd \in 1..(mix - 1) /\ params.MixFirst \in 0..(mix - 1)
    BY ParametersInRange
  <1> HIDE DEF params
  <1>2. RowWalk(n, NextPrime16(n), params.PeelAdd) /\ n \in Nat
    BY <1>1, PrimeIsWalk
  <1>3. RowWalk(mix, NextPrime16(mix), params.MixAdd) /\ mix \in Nat
    BY <1>1, PrimeIsWalk
  <1>4. peeled \in [1..params.PeelCount -> 0..(n - 1)] /\ Distinct(peeled)
    BY <1>1, <1>2, ColumnsDistinct DEF PeelColumnsOf
  <1>5. kMixColumnCount \in 1..mix
    BY <1>3 DEF kMixColumnCount
  <1>6. mixed \in [1..kMixColumnCount -> 0..(mix - 1)] /\ Distinct(mixed)
    BY <1>1, <1>3, <1>5, ColumnsDistinct DEF MixColumnsOf
  <1> HIDE DEF peeled, mixed
  <1>7. peeled \in Seq(0..(n - 1)) /\ Len(peeled) >= 1
    <2> DEFINE count == params.PeelCount
    <2>1. count \in Nat /\ count >= 1
      BY <1>1, <1>2
    <2> HIDE DEF count
    <2>2. peeled \in [1..count -> 0..(n - 1)]
      BY <1>4 DEF count
    <2> DEFINE cols == 0..(n - 1)
    <2>3. peeled \in Seq(cols) /\ Len(peeled) = count
      <3> HIDE DEF cols
      <3>1. peeled \in [1..count -> cols]
        BY <2>2 DEF cols
      <3>2. peeled \in Seq(cols)
        BY <2>1, <3>1, SeqDef
      <3> QED  BY <2>1, <3>1, <3>2
    <2> QED  BY <2>1, <2>3
  <1> QED  BY <1>4, <1>6, <1>7 DEF params, peeled, mixed

-----------------------------------------------------------------------------
(* Decks *)

\* A deck of any size holds every card once when it is shuffled: each turn of the loop
\* keeps a deck whole, and the last one deals as many cards as are left.
THEOREM DeckAlwaysPermutation == Spec => []DeckIsPermutation
  <1>1. StartupInv => DeckIsPermutation
    <2> SUFFICES ASSUME StartupInv, request.kind = "deck"
                 PROVE  LET deck == ShuffleDeck16(PcgSeed(request.size, 7), request.size).deck
                        IN /\ DOMAIN deck = 1..request.size
                           /\ {deck[k] : k \in DOMAIN deck} = 0..(request.size - 1)
      BY DEF DeckIsPermutation
    <2> DEFINE n == request.size
               deck == ShuffleDeck16(PcgSeed(n, 7), n).deck
    <2>1. n \in Nat /\ n > 0
      BY RequestFields, DeckAssumption
    <2>2. PcgSeed(n, 7) \in Generators
      BY <2>1, SeedIsGenerator
    <2> HIDE DEF n
    <2>3. deck \in Decks(n)
      BY <2>1, <2>2, ShuffleDealsAll
    <2> HIDE DEF deck
    <2>4. DOMAIN deck = 1..n /\ \A k \in 1..n : deck[k] \in 0..(n - 1)
      BY <2>3 DEF Decks
    <2>5. {deck[k] : k \in 1..n} = 0..(n - 1)
      BY <2>3, <2>4 DEF Decks
    <2> QED  BY <2>4, <2>5 DEF deck, n
  <1> QED  BY <1>1, StartupInvariant, PTL
=============================================================================
