-------------------------------- MODULE Helpers --------------------------------
(***************************************************************************)
(* What the ready callers of Startup ask of the helpers: a buffer of some  *)
(* length to be combined, a hundred block counts, the columns of rows, a   *)
(* deck, a block of memory.  Each property compares what Kernels and       *)
(* WirehairTools compute with what the codec relies on.                    *)
(***************************************************************************)
EXTENDS Startup, WirehairTools, Kernels

BlockCountsAccepted == CAT_WIREHAIR_MIN_N..CAT_WIREHAIR_MAX_N

(* One of the processors that the build knows, a row over a block count that the *)
(* codec accepts, a deck of a card at least.                                      *)
ASSUME CpuAssumption  == \A p \in Platforms : p.cpu \in Variants
ASSUME RowAssumption  == \A r \in Requests : r.kind = "row" => r.size \in BlockCountsAccepted
ASSUME DeckAssumption == \A r \in Requests : r.kind = "deck" => r.size > 0

(* For each processor and each length, the loops and the tail of a bulk        *)
(* operation touch every byte of the buffer once and none past its end; the     *)
(* self-test tries the one length 63, and gf256_memswap not at all.             *)
KernelsCoverBuffer ==
  request.kind = "kernel" =>
    \A pieces \in BulkOperations(platform.cpu, request.size) : Covers(pieces, 0, request.size)

(* The block counts of a request: a hundred at a time. *)
CountsOf(size) == ((100 * size)..(100 * size + 99)) \cap BlockCountsAccepted

(* By trial division: a number below the square of 254 needs no larger divisor. *)
LastDivisor == 253
SmallPrimes == {n \in 2..((LastDivisor + 1) * (LastDivisor + 1) - 1) :
                  \A d \in 2..LastDivisor : d * d <= n => n % d # 0}

PrimeFound(n) ==
  LET p == NextPrime16(n)
  IN p \in SmallPrimes /\ n <= p /\ \A q \in n..(p - 1) : q \notin SmallPrimes

(* NextPrime16 returns the least prime that is not below its argument: the      *)
(* Weyl walk of the column iterators repeats columns when its modulus is not     *)
(* prime.  The limit of the trial division moves while the candidates do.        *)
NextPrimeIsLeast ==
  request.kind = "counts" => \A n \in CountsOf(request.size) : PrimeFound(n)

(* Every block count finds its seeds inside the tables, the dense ones among    *)
(* the entries that hold a seed, and its dense count is 2 modulo 4, as the       *)
(* divisions by 4 of the seed lookup and of the dense matrix need.               *)
SeedsInTables ==
  request.kind = "counts" =>
    \A n \in CountsOf(request.size) :
      LET d == GetDenseCount(n)
          dense == DenseSeedSlot(n, d)
          peel  == PeelSeedSlot(n)
      IN /\ n >= kTinyTableCount => d % 4 = 2
         /\ d >= 2 /\ dense.index < CASE dense.table = "tiny"  -> kTinyTableCount
                                      [] dense.table = "small" -> kSmallTableCount
                                      [] dense.table = "dense" -> kDenseSeedCount - 1
         /\ dense.table = "dense" => dense.index >= 13
         /\ peel.index < 2048

Distinct(s) == \A i, j \in DOMAIN s : i # j => s[i] # s[j]

(* Whatever its parameters, a row names different columns of the matrix: the    *)
(* same column twice would cancel in the sum and unbalance the unmarked counts.  *)
RowColumnsDistinct ==
  request.kind = "row" =>
    LET n == request.size
    IN \A add \in 1..(n - 1), first \in 0..(n - 1) :
         LET columns == IteratedColumns(first, n, n, NextPrime16(n), add)
         IN Distinct(columns) /\ \A i \in DOMAIN columns : columns[i] \in 0..(n - 1)

(* A shuffled deck holds every card once, whichever bytes of the last draw are  *)
(* used: the dense rows flip one card at a time.                                 *)
DeckIsPermutation ==
  request.kind = "deck" =>
    LET deck == ShuffleDeck16(PcgSeed(request.size, 7), request.size).deck
    IN DOMAIN deck = 1..request.size
       /\ {deck[k] : k \in DOMAIN deck} = 0..(request.size - 1)

(* What SIMDSafeFree gives back to free() is what calloc returned, wherever     *)
(* that was, and the byte that remembers it lies inside the block.              *)
MemoryIsGivenBack ==
  request.kind = "memory" =>
    \A align \in {16, 32} :
      LET block == SIMDSafeAllocate(request.size, align)
      IN /\ block.data % align = 0
         /\ request.size < block.data /\ block.data <= request.size + align
         /\ SIMDSafeFree(block.data, block.mark, align) = request.size
=============================================================================
