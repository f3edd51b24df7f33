------------------------------- MODULE Kernels -------------------------------
(***************************************************************************)
(* How the bulk operations of gf256.cpp cut a buffer: each is the list of  *)
(* pieces that its loops and its tail touch, in order, for each processor  *)
(* variant of the build.                                                   *)
(***************************************************************************)
EXTENDS Integers, Sequences

Variants == {"AVX2", "SSSE3", "SSE2", "NEON", "plain"}
Desktop  == {"AVX2", "SSSE3", "SSE2"}

Piece(from, size, how) == [from |-> from, size |-> size, how |-> how]

(* The pieces taken so far, the next byte and the bytes left. *)
Whole(bytes) == [pieces |-> <<>>, at |-> 0, bytes |-> bytes]

Cut(s, size, how) ==
  [pieces |-> Append(s.pieces, Piece(s.at, size, how)),
   at |-> s.at + size, bytes |-> s.bytes - size]

(* n turns of a loop, each of which takes one piece. *)
Repeat(s, n, size, how) ==
  [pieces |-> s.pieces \o [i \in 1..n |-> Piece(s.at + (i - 1) * size, size, how)],
   at |-> s.at + n * size, bytes |-> s.bytes - n * size]

(* while (bytes >= size) *)
Loop(s, size, how) == Repeat(s, s.bytes \div size, size, how)

(* if (bytes & size) *)
CutIfSet(s, size, how) == IF (s.bytes \div size) % 2 = 1 THEN Cut(s, size, how) ELSE s

(* The switch on bytes & 3: it falls through from the last byte to the first. *)
LastBytes(s, how) ==
  LET left == s.bytes % 4
  IN s.pieces \o [i \in 1..left |-> Piece(s.at + left - i, 1, how)]

Tail4(s, how) == LastBytes(CutIfSet(s, 4, how), how)
Tail8(s, how) == Tail4(CutIfSet(s, 8, how), how)

AddMemRoundedUp(cpu, bytes) ==
  LET s == IF cpu = "AVX2" THEN Loop(Repeat(Whole(bytes), (bytes + 64) \div 128, 128, "xor"), 32, "xor")
                           ELSE Loop(Whole(bytes), 64, "xor")
  IN Tail8(Loop(s, 16, "xor"), "xor")

gf256_add_mem_pieces(cpu, bytes) ==
  LET s == CASE cpu = "AVX2" -> Loop(Loop(Whole(bytes), 128, "xor"), 32, "xor")
             [] cpu \in Desktop \ {"AVX2"} -> Loop(Whole(bytes), 64, "xor")
             [] cpu = "NEON" -> Loop(Loop(Whole(bytes), 64, "xor"), 16, "xor")
             [] cpu = "plain" -> Loop(Whole(bytes), 8, "xor")
  IN Tail8(IF cpu \in Desktop THEN Loop(s, 16, "xor") ELSE s, "xor")

gf256_add2_mem_pieces(cpu, bytes) ==
  LET s == CASE cpu = "AVX2" -> Loop(Whole(bytes), 32, "xor")
             [] cpu \in Desktop \ {"AVX2"} -> Whole(bytes)
             [] cpu = "NEON" -> Loop(Whole(bytes), 16, "xor")
             [] cpu = "plain" -> Loop(Whole(bytes), 8, "xor")
  IN Tail8(IF cpu \in Desktop THEN Loop(s, 16, "xor") ELSE s, "xor")

gf256_addset_mem_pieces(cpu, bytes) ==
  LET s == CASE cpu = "AVX2" -> Loop(Whole(bytes), 32, "xor")
             [] cpu \in Desktop \ {"AVX2"} -> Loop(Whole(bytes), 64, "xor")
             [] cpu = "NEON" -> Loop(Loop(Whole(bytes), 64, "xor"), 16, "xor")
             [] cpu = "plain" -> Loop(Whole(bytes), 8, "xor")
  IN Tail8(IF cpu \in Desktop THEN Loop(s, 16, "xor") ELSE s, "xor")

(* A factor of 2 or more; 0 and 1 are memset and memcpy of the whole buffer. *)
gf256_mul_mem_pieces(cpu, bytes) ==
  LET s == CASE cpu = "AVX2" -> Loop(Loop(Whole(bytes), 32, "shuffle"), 16, "shuffle")
             [] cpu \in {"SSSE3", "NEON"} -> Loop(Whole(bytes), 16, "shuffle")
             [] cpu \in {"SSE2", "plain"} -> Whole(bytes)
  IN Tail4(Loop(s, 8, "table"), "table")

gf256_muladd_mem_pieces(cpu, bytes) ==
  LET avx == Loop(Whole(bytes), 64, "shuffle")
      s == CASE cpu = "AVX2" ->
                  Loop(Loop(IF avx.bytes >= 32 THEN Cut(avx, 32, "shuffle") ELSE avx,
                            32, "shuffle"), 16, "shuffle")
             [] cpu = "SSSE3" -> Loop(Loop(Whole(bytes), 32, "shuffle"), 16, "shuffle")
             [] cpu = "NEON"  -> Loop(Whole(bytes), 16, "shuffle")
             [] cpu \in {"SSE2", "plain"} -> Whole(bytes)
  IN Tail4(Loop(s, 8, "table"), "table")

gf256_memswap_pieces(cpu, bytes) ==
  Tail8(Loop(Whole(bytes), IF cpu \in Desktop THEN 16 ELSE 8, "swap"), "swap")

(* The bulk operations on one buffer; the self-test tries all but the last. *)
SelfTested(cpu, bytes) ==
  { gf256_add_mem_pieces(cpu, bytes),    gf256_add2_mem_pieces(cpu, bytes),
    gf256_addset_mem_pieces(cpu, bytes), gf256_muladd_mem_pieces(cpu, bytes),
    gf256_mul_mem_pieces(cpu, bytes) }

BulkOperations(cpu, bytes) == SelfTested(cpu, bytes) \cup {gf256_memswap_pieces(cpu, bytes)}

(* The bytes that a list of pieces touches; it covers those from first to past - 1 *)
(* when it touches them, no other, and none of them twice.                         *)
BytesOf(p)  == p.from..(p.from + p.size - 1)
Apart(p, q) == p.from + p.size <= q.from \/ q.from + q.size <= p.from

Covers(pieces, first, past) ==
  /\ UNION {BytesOf(pieces[i]) : i \in 1..Len(pieces)} = first..(past - 1)
  /\ \A i, j \in 1..Len(pieces) : i < j => Apart(pieces[i], pieces[j])
=============================================================================
